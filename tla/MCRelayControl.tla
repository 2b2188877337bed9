---------------------------- MODULE MCRelayControl ----------------------------
\* Model-checking instance of RelayControl: two callers, a handful of process ids.
EXTENDS RelayControl
=============================================================================
