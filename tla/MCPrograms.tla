----------------------------- MODULE MCPrograms -----------------------------
\* Programs for TLC: names with and without empty labels; chains of up to four
\* records with short, long and over-long aliases; UDP frames of legal and
\* illegal lengths among others.
EXTENDS Programs, SequencesExt

a == 97
Label(n) == [i \in 1 .. n |-> a + 1]
dot == 46
MCHostnames == {<<>>, <<a>>, <<a, dot, a>>, <<a, dot>>, <<dot, a, dot, dot, a>>, <<a, a, dot, a, dot, a>>}

\* An alias as the server sends it, in full.
Bytes(labels) == FlattenSeq([n \in DOMAIN labels |-> <<Len(labels[n])>> \o labels[n]]) \o <<0>>
Alias(labels) == [type |-> 5, alias |-> labels, data |-> Bytes(labels), full |-> FALSE]
Record(t, data, full) == [type |-> t, data |-> data, full |-> full]
Kinds == {Alias(<<Label(1), <<a>>>>), Alias(<<Label(60), Label(60)>>), Alias(<<Label(63), Label(63), Label(4)>>),
          Record(1, <<1, 2, 3, 4>>, FALSE), Record(1, <<1, 2, 3, 4, 5, 6>>, FALSE),
          Record(1, <<10, 2, 3, 5>>, TRUE), Record(28, <<0, 1, 0, 4>>, FALSE)}
MCChains == UNION {[1 .. n -> Kinds] : n \in 0 .. 4}

Frame(kind, src, len) == [kind |-> kind, src |-> src, dst |-> "us", len |-> len]
MCFrames == {Frame("arp", "a", 0), Frame("tcp", "a", 0), Frame("udp", "a", 8), Frame("udp", "c", 2014),
             Frame("udp", "c", 2015), Frame("udp", "c", 7)}
=============================================================================
