------------------------------ MODULE ArrayList ------------------------------
(***************************************************************************)
(* The array of pointers behind every JSON array (arraylist.c): slots      *)
(* beyond the length are allocated ahead and must be NULL, since           *)
(* array_list_put_idx releases whatever it finds in the slot it fills.     *)
(***************************************************************************)
EXTENDS Integers, Sequences

CONSTANTS Data,         \* references to values
          Hole,         \* the NULL pointer
          DefaultSize,  \* ARRAY_LIST_DEFAULT_SIZE
          MaxLength     \* bound: no index from here on is used

ASSUME HoleAssumption == Hole \notin Data
ASSUME DefaultSizeAssumption == DefaultSize \in Nat
ASSUME MaxLengthAssumption == MaxLength \in Nat

VARIABLES arr,          \* struct array_list
          released      \* what the last call gave to free_fn: <<index, element>>

listVars == <<arr, released>>

Element == Data \cup {Hole}

\* array_list_new
NewList == [size   |-> DefaultSize,
            length |-> 0,
            slots  |-> [i \in 0 .. DefaultSize - 1 |-> Hole]]

\* array_list_get_idx, for an index that is not negative
GetIdx(a, i) == IF i >= a.length THEN Hole ELSE a.slots[i]

\* The new size array_list_expand_internal asks realloc for.
NewListSize(a, max) == IF max > 2 * a.size THEN max ELSE 2 * a.size

ExpandedUnfilled(a, max) ==                                      \* mutant
    IF max < a.size THEN a
    ELSE [size   |-> NewListSize(a, max),
          length |-> a.length,
          slots  |-> [i \in 0 .. NewListSize(a, max) - 1 |->
                         IF i < a.size THEN a.slots[i] ELSE a.slots[a.size - 1]]]

\* array_list_expand_internal: room for max slots, the new ones NULL.
Expanded(a, max) ==
    IF max < a.size THEN a
    ELSE [size   |-> NewListSize(a, max),
          length |-> a.length,
          slots  |-> [i \in 0 .. NewListSize(a, max) - 1 |->
                         IF i < a.size THEN a.slots[i] ELSE Hole]]

PlacedLast(a, i, d) ==                                           \* mutant
    [size |-> a.size, length |-> i + 1, slots |-> [a.slots EXCEPT ![i] = d]]

Placed(a, i, d) ==
    [size   |-> a.size,
     length |-> IF a.length <= i THEN i + 1 ELSE a.length,
     slots  |-> [a.slots EXCEPT ![i] = d]]

-----------------------------------------------------------------------------
ListInit == arr = NewList /\ released = {}

\* array_list_put_idx
PutIdx(i, d) ==
    LET a == Expanded(arr, i + 1)
    IN  /\ arr' = Placed(a, i, d)
        /\ released' = IF a.slots[i] # Hole THEN {<<i, a.slots[i]>>} ELSE {}

\* array_list_add
AddElement(d) == PutIdx(arr.length, d)

\* array_list_sort: qsort moves the first length slots as sort_fn has it.
SortList ==
    /\ \E p \in [0 .. arr.length - 1 -> 0 .. arr.length - 1] :
          /\ \A i, j \in 0 .. arr.length - 1 : p[i] = p[j] => i = j
          /\ arr' = [size   |-> arr.size,
                     length |-> arr.length,
                     slots  |-> [i \in 0 .. arr.size - 1 |->
                                    IF i < arr.length THEN arr.slots[p[i]]
                                    ELSE arr.slots[i]]]
    /\ released' = {}

\* array_list_free, and a new array for the next.
FreeList ==
    /\ arr' = NewList
    /\ released' = {<<i, arr.slots[i]>> :
                        i \in {i \in 0 .. arr.length - 1 : arr.slots[i] # Hole}}

\* No call: the caller has dealt with what was released.
Dealt == released' = {} /\ UNCHANGED arr

Edit ==
    \/ \E i \in 0 .. MaxLength - 1, d \in Element : PutIdx(i, d)
    \/ \E d \in Element : arr.length < MaxLength /\ AddElement(d)
    \/ SortList

ListNext == Edit \/ FreeList \/ Dealt

ListSpec == ListInit /\ [][ListNext]_listVars

-----------------------------------------------------------------------------
(* Properties.                                                             *)

Elements == [j \in 1 .. arr.length |-> arr.slots[j - 1]]

\* The slots behind the last element are NULL, whatever was put, moved or
\* grown: a later array_list_put_idx there releases no stale pointer.
BeyondIsNull ==
    /\ arr.length <= arr.size
    /\ \A i \in arr.length .. arr.size - 1 : arr.slots[i] = Hole

\* The array implements the sequence its client was promised: growth is
\* invisible, gaps read as NULL, and exactly what is overwritten or dropped is
\* released.
List == INSTANCE ElementList WITH elems <- Elements

RefinesElementList == List!Spec
=============================================================================
