----------------------------- MODULE MCJsonRefs -----------------------------
(* JsonRefs for TLC: two objects and an array, one singleton, two slots.     *)
EXTENDS JsonRefs

CONSTANTS d1, d2, a1, null, s1, s2

MCDict == {d1, d2}
MCArr == {a1}
MCStatic == {null}
MCSlot == {s1, s2}
=============================================================================
