------------------------------ MODULE DnsName ------------------------------
(***************************************************************************)
(* The messages of async_dns_client_noblock.c: how a question is built,    *)
(* what the parser makes of a response, and dns_client_commit, which asks  *)
(* and waits in a loop.  A message is a sequence of bytes, a name in text  *)
(* a sequence of characters; Junk is a byte malloc left unset.             *)
(*                                                                         *)
(* The DNS server is not in the repository: Response is what one sends, a  *)
(* chain of records whose owner is named in full or by a pointer.          *)
(***************************************************************************)
EXTENDS Integers, Sequences, SequencesExt

CONSTANTS Hostnames,  \* the names that are asked for
          Chains,     \* the chains of records a server may answer with
          Junk        \* a byte of uninitialised memory

Dot == 46
Text(labels) == FoldLeft(LAMBDA s, l : IF s = <<>> THEN l ELSE s \o <<Dot>> \o l, <<>>, labels)
Wire(labels) == FlattenSeq([n \in DOMAIN labels |-> <<Len(labels[n]) % 256>> \o labels[n]]) \o <<0>>
Short(n) == <<n \div 256, n % 256>>

-----------------------------------------------------------------------------
(* Questions. *)

\* strtok with ".": the labels, without the empty ones.
AllTokens(s) ==   \* with the empty labels
  FoldLeft(LAMBDA t, c : IF c = Dot THEN Append(t, <<>>)
                         ELSE [t EXCEPT ![Len(t)] = Append(@, c)], << <<>> >>, s)
Tokens(s) == SelectSeq(AllTokens(s), LAMBDA t : t # <<>>)

\* qname has strlen + 2 bytes, of which the labels and the NUL strncpy copies
\* after each of them are written.
dns_create_question(s) ==
  LET written == IF Tokens(s) = <<>> THEN <<>> ELSE Wire(Tokens(s))
  IN written \o [n \in 1 .. Len(s) + 2 - Len(written) |-> Junk]

dns_create_header == <<0, 0, 1, 0>> \o Short(1) \o Short(0) \o Short(0) \o Short(0)

dns_build_request(s) == dns_create_header \o dns_create_question(s) \o Short(1) \o Short(1)

-----------------------------------------------------------------------------
(* The server. *)

\* A question is good when it is the name and type asked for, and no more.
WellFormed(request, labels) ==
  labels # <<>> /\ request = dns_create_header \o Wire(labels) \o Short(1) \o Short(1)

\* One record after the others: owner and where it stands; an alias becomes the
\* owner of what follows.  kind.type is 1 (address), 5 (alias) or another.
AddRecord(r, kind) ==
  LET owner == IF kind.full THEN Wire(r.owner) ELSE Short(192 * 256 + r.where)
      head == r.bytes \o owner \o Short(kind.type) \o Short(1) \o Short(0) \o Short(60) \o Short(Len(kind.data))
  IN [bytes |-> head \o kind.data,
      owner |-> IF kind.type = 5 THEN kind.alias ELSE r.owner,
      where |-> IF kind.type = 5 THEN Len(head) ELSE r.where,
      found |-> IF kind.type = 1 /\ Len(kind.data) = 4 THEN Append(r.found, <<Text(r.owner), kind.data>>) ELSE r.found,
      plain |-> r.plain /\ ~kind.full /\ kind.type \in {1, 5} /\ r.where < 256
                         /\ Len(Text(IF kind.type = 5 THEN kind.alias ELSE r.owner)) < 128]

Answer(labels, chain) ==
  FoldLeft(AddRecord,
           [bytes |-> <<0, 0, 129, 128>> \o Short(1) \o Short(Len(chain)) \o Short(0) \o Short(0)
                        \o Wire(labels) \o Short(1) \o Short(1),
            owner |-> labels, where |-> 12, found |-> <<>>, plain |-> TRUE], chain)

-----------------------------------------------------------------------------
(* Responses. *)

\* buffer is zeroed before recvfrom.
Byte(m, p) == IF p < Len(m) THEN m[p + 1] ELSE 0
Word(m, p) == 256 * Byte(m, p) + Byte(m, p + 1)

is_pointer(b) == b \div 64 = 3

\* Of a pointer only the second byte is used.  The caller's ptr does not move.
dns_parse_name(m, ptr) ==
  LET name[p \in Nat, out \in Seq(Nat)] ==
        LET flag == Byte(m, p)
            next == p + 1 + flag
            longer == out \o [n \in 1 .. flag |-> Byte(m, p + n)]
        IN IF flag = 0 THEN out
           ELSE IF is_pointer(flag) THEN name[Byte(m, p + 1), out]
           ELSE name[next, IF Byte(m, next) # 0 THEN Append(longer, Dot) ELSE longer]
  IN name[ptr, <<>>]

\* Past the question's name and its type and class.
AfterQuestion(m, ptr) ==
  LET after[p \in Nat] == IF Byte(m, p) = 0 THEN p + 5 ELSE after[p + Byte(m, p) + 1]
  IN after[ptr]

\* What the parser adds to ptr after the owner's name: it is taken for a pointer.
OwnerLengthNone == 0   \* wrong variant
OwnerLength == 2

\* aname and cname have 128 bytes and their length is not tested.
ParseRecord(m, s) ==
  LET aname == dns_parse_name(m, s.ptr)
      fixed == s.ptr + OwnerLength
      type == Word(m, fixed)
      datalen == Word(m, fixed + 8)
      data == fixed + 10
      cname == IF type = 5 THEN dns_parse_name(m, data) ELSE <<>>
  IN [ptr  |-> IF type \in {1, 5} THEN data + datalen ELSE data,
      list |-> IF type = 1 /\ datalen = 4
               THEN Append(s.list, <<aname, [n \in 1 .. 4 |-> Byte(m, data + n - 1)]>>) ELSE s.list,
      undefined |-> s.undefined \/ Len(aname) > 127 \/ Len(cname) > 127]

dns_parse_response(m) ==
  FoldLeft(LAMBDA s, n : ParseRecord(m, s),
           [ptr |-> AfterQuestion(m, 12), list |-> <<>>, undefined |-> FALSE],
           [n \in 1 .. Word(m, 6) |-> n])

-----------------------------------------------------------------------------
(* dns_client_commit: sendto, whose result is ignored, and a loop around    *)
(* recvfrom on a socket that does not block; nothing ends it but a reply.   *)

VARIABLES host, state,  \* ask, poll, done
          chain,        \* what the server will answer
          reply,        \* the datagram that waits in the socket, if any
          parsed        \* what dns_parse_response made of it

vars == <<host, state, chain, reply, parsed>>

Nothing == [ptr |-> 0, list |-> <<>>, undefined |-> FALSE]

Init == /\ host \in Hostnames /\ state = "ask"
        /\ chain \in Chains
        /\ reply = <<>> /\ parsed = Nothing

\* The question, the answer or neither gets through.
Ask == /\ state = "ask"
       /\ state' = "poll"
       /\ LET good == WellFormed(dns_build_request(host), Tokens(host)) IN
          reply' \in {<<>>} \cup IF good THEN {Answer(Tokens(host), chain).bytes} ELSE {}
       /\ UNCHANGED <<host, chain, parsed>>

Poll == /\ state = "poll" /\ reply # <<>>
        /\ parsed' = dns_parse_response(reply)
        /\ state' = "done" /\ reply' = <<>>
        /\ UNCHANGED <<host, chain>>

Next == Ask \/ Poll

Spec == Init /\ [][Next]_vars

(***************************************************************************)
(* A name in normal form is asked for in a well-formed request, and what   *)
(* is found in the answer is every address of four bytes, in order, under  *)
(* the name that owns it after all aliases: as long as owners are pointers *)
(* below 256, names shorter than 128 and records addresses or aliases.  A  *)
(* name with empty labels leaves unset bytes in the request.               *)
(***************************************************************************)
NameSurvives ==
  /\ Text(Tokens(host)) = host /\ host # <<>> <=> WellFormed(dns_build_request(host), Tokens(host))
  /\ LET answer == Answer(Tokens(host), chain) IN
     state = "done" /\ answer.plain =>
       ~parsed.undefined /\ parsed.list = answer.found /\ parsed.ptr = Len(answer.bytes)
=============================================================================
