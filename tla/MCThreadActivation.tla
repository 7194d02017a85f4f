------------------------ MODULE MCThreadActivation ------------------------
(* ThreadActivation with one device of each partner.                       *)
EXTENDS ThreadActivation, TLC

CONSTANTS d1, d2    \* the devices

Symmetry == Permutations(Devices)
=============================================================================
