--------------------------- MODULE MCThreadSync ---------------------------
(* ThreadSync on one or two calls and a page of one or two envelopes.      *)
EXTENDS ThreadSync

CONSTANTS t1, t2    \* the calls
=============================================================================
