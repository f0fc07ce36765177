---------------------------- MODULE ElementList ----------------------------
(***************************************************************************)
(* What a JSON array promises its client: a sequence of references, some   *)
(* of them NULL; putting one at an index replaces what is there, and only  *)
(* that is released; beyond the end the gap is filled with NULL.           *)
(***************************************************************************)
EXTENDS Integers, Sequences

CONSTANTS Data,         \* references to values
          Hole,         \* the NULL pointer
          MaxLength     \* bound: no index from here on is used

VARIABLES elems,        \* the elements
          released      \* the elements the last call released: <<index, element>>

vars == <<elems, released>>

Init == elems = <<>> /\ released = {}

Put(i, d) ==
    /\ elems' = [j \in 1 .. (IF i < Len(elems) THEN Len(elems) ELSE i + 1) |->
                    IF j = i + 1 THEN d
                    ELSE IF j <= Len(elems) THEN elems[j] ELSE Hole]
    /\ released' = IF i < Len(elems) /\ elems[i + 1] # Hole
                   THEN {<<i, elems[i + 1]>>} ELSE {}

\* Sorting moves the elements and releases none.
Permute ==
    /\ \E p \in [DOMAIN elems -> DOMAIN elems] :
          /\ \A i, j \in DOMAIN elems : p[i] = p[j] => i = j
          /\ elems' = [i \in DOMAIN elems |-> elems[p[i]]]
    /\ released' = {}

\* The end of the array: every element is released, and a new one begins.
Clear ==
    /\ elems' = <<>>
    /\ released' = {<<i - 1, elems[i]>> : i \in {i \in DOMAIN elems : elems[i] # Hole}}

\* The releases are the client's to forget.
Forget == released' = {} /\ UNCHANGED elems

Next ==
    \/ \E i \in 0 .. MaxLength - 1, d \in Data \cup {Hole} : Put(i, d)
    \/ Permute
    \/ Clear
    \/ Forget

Spec == Init /\ [][Next]_vars
=============================================================================
