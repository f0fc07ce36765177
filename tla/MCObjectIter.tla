---------------------------- MODULE MCObjectIter ----------------------------
(* ObjectIter for TLC: objects of up to four fields, built with at most    *)
(* two resizes from two slots to eight.                                    *)
EXTENDS ObjectIter, TLC

CONSTANTS k1, k2, k3, k4, v1

MCKey == {k1, k2, k3, k4}
MCVal == {v1}
MCHashValue == {0, 3}
MCSymmetry == Permutations(MCKey)
=============================================================================
