----------------------------- MODULE OrderedMap -----------------------------
(***************************************************************************)
(* What a JSON object promises its client: a map from keys to values that  *)
(* remembers the order in which its keys were first added.  Adding a key   *)
(* that is present replaces its value and keeps its place                  *)
(* (json_object_object_add, json_object.c:397-414); deleting a key and     *)
(* adding it again moves it to the end.                                    *)
(***************************************************************************)
EXTENDS Integers, SequencesExt

CONSTANTS Key,          \* object field names
          Value         \* what a field may hold: values, or the NULL pointer

VARIABLE entries        \* sequence of records [k |-> key, v |-> value]

Entry == [k : Key, v : Value]

\* The positions at which key x is stored.
Places(x) == {i \in DOMAIN entries : entries[i].k = x}

Init == entries = <<>>

\* json_object_object_add of a key that is absent.
Append_(x, v) ==
    /\ Places(x) = {}
    /\ entries' = Append(entries, [k |-> x, v |-> v])

\* json_object_object_add of a key that is present.
Replace_(x, v) ==
    \E i \in Places(x) : entries' = [entries EXCEPT ![i].v = v]

\* json_object_object_del.
Delete_(x) ==
    \E i \in Places(x) : entries' = RemoveAt(entries, i)

Next ==
    \E x \in Key :
        \/ \E v \in Value : Append_(x, v) \/ Replace_(x, v)
        \/ Delete_(x)

Spec == Init /\ [][Next]_entries
=============================================================================
