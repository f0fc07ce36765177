----------------------------- MODULE MCLinkHash -----------------------------
(* LinkHash for TLC.  The home slots are 0 and 3 of a table of 4 (probes   *)
(* collide and wrap around the end) and 4 and 7 of a table of 8.           *)
EXTENDS LinkHash, TLC

CONSTANTS k1, k2, k3, k4, v1

MCKey == {k1, k2, k3, k4}
MCVal == {v1}
MCHashValue == {4, 7}
MCSymmetry == Permutations(MCKey)
=============================================================================
