----------------------------- MODULE MCAsyncDns -----------------------------
\* AsyncDns for TLC: the constants are in the configuration.
EXTENDS AsyncDnsProps
=============================================================================
