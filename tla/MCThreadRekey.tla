-------------------------- MODULE MCThreadRekey --------------------------
(* ThreadRekey on two founding devices, which are alike, and one that is   *)
(* added.                                                                  *)
EXTENDS ThreadRekey

CONSTANTS d1, d2, d3    \* the devices
=============================================================================
