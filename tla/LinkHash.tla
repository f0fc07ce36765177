------------------------------ MODULE LinkHash ------------------------------
(***************************************************************************)
(* The hash table behind every JSON object (json-c-0.12.1/linkhash.c): one *)
(* array of slots with linear probing, tombstones for deleted keys, a      *)
(* doubly linked list through the slots that keeps insertion order, and a  *)
(* doubling resize that moves the entries one by one into a fresh table.   *)
(*                                                                         *)
(* An entry pointer (struct lh_entry * ) is the index of its slot; the     *)
(* NULL pointer is NoEntry.  The client is json_object.c: it adds a key    *)
(* only after a lookup has failed, and it deletes by key.                  *)
(***************************************************************************)
EXTENDS Integers, FiniteSets, Sequences

CONSTANTS Key,          \* object field names
          Val,          \* pointers to values
          Null,         \* the NULL value pointer
          Empty,        \* LH_EMPTY: a slot never used
          Freed,        \* LH_FREED: a slot whose key was deleted (tombstone)
          HashValue,    \* what hashlittle may return
          InitSize,     \* JSON_OBJECT_DEF_HASH_ENTRIES
          MaxSize       \* bound: no resize beyond this many slots

ASSUME SentinelAssumption == Empty \notin Key /\ Freed \notin Key /\ Empty # Freed
ASSUME HashAssumption     == HashValue \subseteq Nat
ASSUME SizeAssumption     == InitSize \in Nat \ {0} /\ MaxSize \in Nat

VARIABLES t,            \* the table the object points to
          nt,           \* new_t of lh_table_resize
          ent,          \* cursor of lh_table_resize through the old list
          pending,      \* key and value of the insert that caused a resize
          pc,           \* "idle", "rehash" (in lh_table_resize), "place"
          resizes,      \* t->resizes: which memory block t->table is
          hash          \* lh_char_hash under the seed drawn at first use

vars == <<t, nt, ent, pending, pc, resizes, hash>>

Value   == Val \cup {Null}
NoEntry == -1
Slots(tab)  == 0 .. tab.size - 1
Live(tab)   == {s \in Slots(tab) : tab.k[s] \in Key}
Vacant(tab) == {s \in Slots(tab) : tab.k[s] \in {Empty, Freed}}

NewTable(n) ==
    [size |-> n, count |-> 0, head |-> NoEntry, tail |-> NoEntry,
     k    |-> [s \in 0 .. n - 1 |-> Empty],
     v    |-> [s \in 0 .. n - 1 |-> Null],
     next |-> [s \in 0 .. n - 1 |-> NoEntry],
     prev |-> [s \in 0 .. n - 1 |-> NoEntry]]

NoTable == NewTable(0)      \* new_t outside lh_table_resize

-----------------------------------------------------------------------------
(* Linear probing: the slot a key hashes to, how many steps a probe from   *)
(* slot h takes to reach slot s, and the member of S it meets first.       *)

Home(tab, x) == hash[x] % tab.size

Dist(tab, h, s) == IF s >= h THEN s - h ELSE s - h + tab.size

First(tab, h, S) ==
    CHOOSE s \in S : \A r \in S : Dist(tab, h, s) <= Dist(tab, h, r)

\* lh_table_lookup_entry: stop at the key or at a slot never used.
LookupEntry(tab, x) ==
    LET stop == {s \in Slots(tab) : tab.k[s] \in {x, Empty}}
        s    == First(tab, Home(tab, x), stop)
    IN  IF stop = {} \/ tab.k[s] = Empty THEN NoEntry ELSE s

\* t->count >= t->size * LH_LOAD_FACTOR
LoadedWhenOverfull(tab) == tab.count > tab.size                  \* mutant

Loaded(tab) == 100 * tab.count >= 66 * tab.size

\* The new size lh_table_insert asks lh_table_resize for.
HalfSize(tab) == tab.size \div 2                                 \* mutant

NewSize(tab) == 2 * tab.size

\* The links after slot s was appended to the list.
NextWith(tab, s) ==
    IF tab.head = NoEntry THEN [tab.next EXCEPT ![s] = NoEntry]
    ELSE [tab.next EXCEPT ![tab.tail] = s, ![s] = NoEntry]

PrevWith(tab, s) ==
    [tab.prev EXCEPT ![s] = IF tab.head = NoEntry THEN NoEntry ELSE tab.tail]

\* The links after slot s was taken out of the list.
NextWithout(tab, s) ==
    IF s = tab.head THEN [tab.next EXCEPT ![s] = NoEntry]
    ELSE [tab.next EXCEPT
             ![tab.prev[s]] = IF s = tab.tail THEN NoEntry ELSE tab.next[s],
             ![s] = NoEntry]

PrevForgotten(tab, s) == [tab.prev EXCEPT ![s] = NoEntry]        \* mutant

PrevWithout(tab, s) ==
    IF s = tab.tail THEN [tab.prev EXCEPT ![s] = NoEntry]
    ELSE [tab.prev EXCEPT
             ![tab.next[s]] = IF s = tab.head THEN NoEntry ELSE tab.prev[s],
             ![s] = NoEntry]

\* The body of lh_table_insert after the load check: fill slot s and append
\* it to the list.
Place(tab, s, x, val) ==
    [size  |-> tab.size,
     count |-> tab.count + 1,
     head  |-> IF tab.head = NoEntry THEN s ELSE tab.head,
     tail  |-> s,
     k     |-> [tab.k EXCEPT ![s] = x],
     v     |-> [tab.v EXCEPT ![s] = val],
     next  |-> NextWith(tab, s),
     prev  |-> PrevWith(tab, s)]

\* The slot is the first vacant one of the probe.
Insert(tab, x, val) ==
    Place(tab, First(tab, Home(tab, x), Vacant(tab)), x, val)

\* lh_table_delete_entry: leave a tombstone and unlink.
DeleteEntry(tab, s) ==
    [size  |-> tab.size,
     count |-> tab.count - 1,
     head  |-> IF s # tab.head THEN tab.head
               ELSE IF s = tab.tail THEN NoEntry ELSE tab.next[s],
     tail  |-> IF s # tab.tail THEN tab.tail
               ELSE IF s = tab.head THEN NoEntry ELSE tab.prev[s],
     k     |-> [tab.k EXCEPT ![s] = Freed],
     v     |-> [tab.v EXCEPT ![s] = Null],
     next  |-> NextWithout(tab, s),
     prev  |-> PrevWithout(tab, s)]

\* lh_table_delete of a key that is present.
RemoveWithoutTombstone(tab, x) ==                                \* mutant
    LET e == LookupEntry(tab, x)
    IN  [DeleteEntry(tab, e) EXCEPT !.k[e] = Empty]

RemoveWithoutUnlink(tab, x) ==                                   \* mutant
    LET e == LookupEntry(tab, x)
    IN  [tab EXCEPT !.k[e] = Freed, !.count = @ - 1]

RemoveUncounted(tab, x) ==                                       \* mutant
    [DeleteEntry(tab, LookupEntry(tab, x)) EXCEPT !.count = @ + 1]

RemoveKey(tab, x) == DeleteEntry(tab, LookupEntry(tab, x))

\* existing_entry->v = val
SetValueCounted(tab, s, val) ==                                  \* mutant
    [tab EXCEPT !.v[s] = val, !.count = @ + 1]

SetValueByReinsert(tab, s, val) ==                               \* mutant
    Insert(DeleteEntry(tab, s), tab.k[s], val)

SetValue(tab, s, val) == [tab EXCEPT !.v = [tab.v EXCEPT ![s] = val]]

-----------------------------------------------------------------------------
Init ==
    /\ hash \in [Key -> HashValue]
    /\ t = NewTable(InitSize)
    /\ nt = NoTable
    /\ ent = NoEntry
    /\ pending = <<>>
    /\ pc = "idle"
    /\ resizes = 0

\* json_object_object_add, key present: replace the value in place.
AddReplace(x, val) ==
    /\ pc = "idle"
    /\ LookupEntry(t, x) # NoEntry
    /\ t' = SetValue(t, LookupEntry(t, x), val)
    /\ UNCHANGED <<nt, ent, pending, pc, resizes, hash>>

\* json_object_object_add, key absent, room left.
AddNew(x, val) ==
    /\ pc = "idle"
    /\ LookupEntry(t, x) = NoEntry
    /\ ~Loaded(t)
    /\ t' = Insert(t, x, val)
    /\ UNCHANGED <<nt, ent, pending, pc, resizes, hash>>

\* json_object_object_add, key absent, table loaded: enter lh_table_resize.
ResizeBegin(x, val) ==
    /\ pc = "idle"
    /\ LookupEntry(t, x) = NoEntry
    /\ Loaded(t)
    /\ NewSize(t) <= MaxSize
    /\ nt' = NewTable(NewSize(t))
    /\ ent' = t.head
    /\ pending' = <<x, val>>
    /\ pc' = "rehash"
    /\ UNCHANGED <<t, resizes, hash>>

ResizeMoveSkips ==                                               \* mutant
    /\ pc = "rehash"
    /\ ent # NoEntry
    /\ nt' = Insert(nt, t.k[ent], t.v[ent])
    /\ ent' = IF t.next[ent] = NoEntry THEN NoEntry ELSE t.next[t.next[ent]]
    /\ UNCHANGED <<t, pending, pc, resizes, hash>>

\* One turn of the loop of lh_table_resize.  lh_table_insert(new_t, ..) runs
\* the load check too; NoNestedResize shows that it never succeeds there.
ResizeMove ==
    /\ pc = "rehash"
    /\ ent # NoEntry
    /\ ~Loaded(nt)
    /\ nt' = Insert(nt, t.k[ent], t.v[ent])
    /\ ent' = t.next[ent]
    /\ UNCHANGED <<t, pending, pc, resizes, hash>>

\* The end of lh_table_resize: the table takes over new_t.  The count is not
\* copied.
ResizeEnd ==
    /\ pc = "rehash"
    /\ ent = NoEntry
    /\ t' = [nt EXCEPT !.count = t.count]
    /\ nt' = NoTable
    /\ resizes' = resizes + 1
    /\ pc' = "place"
    /\ UNCHANGED <<ent, pending, hash>>

\* lh_table_insert goes on after the resize.
AddAfterResize ==
    /\ pc = "place"
    /\ t' = Insert(t, pending[1], pending[2])
    /\ pending' = <<>>
    /\ pc' = "idle"
    /\ UNCHANGED <<nt, ent, resizes, hash>>

\* json_object_object_del -> lh_table_delete of a key that is present.
Delete(x) ==
    /\ pc = "idle"
    /\ LookupEntry(t, x) # NoEntry
    /\ t' = RemoveKey(t, x)
    /\ UNCHANGED <<nt, ent, pending, pc, resizes, hash>>

Next ==
    \/ \E x \in Key, val \in Value :
           AddReplace(x, val) \/ AddNew(x, val) \/ ResizeBegin(x, val)
    \/ \E x \in Key : Delete(x)
    \/ ResizeMove
    \/ ResizeEnd
    \/ AddAfterResize

Spec == Init /\ [][Next]_vars

-----------------------------------------------------------------------------
(* Properties.                                                             *)

\* The slots of the list from e on, in order.
Walk(tab, e) ==
    LET at[i \in 0 .. tab.size] ==
            IF i = 0 THEN e
            ELSE IF at[i-1] = NoEntry THEN NoEntry ELSE tab.next[at[i-1]]
        steps == {i \in 0 .. tab.size : at[i] # NoEntry}
    IN  [i \in 1 .. Cardinality(steps) |-> at[i - 1]]

Fields(tab, e) ==
    LET w == Walk(tab, e)
    IN  [i \in DOMAIN w |-> [k |-> tab.k[w[i]], v |-> tab.v[w[i]]]]

TableType(tab) ==
    /\ DOMAIN tab = {"size", "count", "head", "tail", "k", "v", "next", "prev"}
    /\ tab.size \in Nat \ {0}
    /\ tab.count \in 0 .. tab.size
    /\ tab.head \in Slots(tab) \cup {NoEntry}
    /\ tab.tail \in Slots(tab) \cup {NoEntry}
    /\ tab.k \in [Slots(tab) -> Key \cup {Empty, Freed}]
    /\ tab.v \in [Slots(tab) -> Value]
    /\ tab.next \in [Slots(tab) -> Slots(tab) \cup {NoEntry}]
    /\ tab.prev \in [Slots(tab) -> Slots(tab) \cup {NoEntry}]

\* Every variable keeps the shape lh_table, lh_entry and the two functions
\* that hold locals across the resize give it.
TypeOK ==
    /\ TableType(t)
    /\ pc \in {"idle", "rehash", "place"}
    /\ pc = "rehash" => TableType(nt) /\ ent \in Live(t) \cup {NoEntry}
    /\ pc # "rehash" => nt = NoTable /\ ent = NoEntry
    /\ IF pc = "idle" THEN pending = <<>> ELSE pending \in Key \X Value
    /\ resizes \in Nat
    /\ hash \in [Key -> HashValue]

\* A probe for a stored key is never cut short by a slot that was never
\* used, and no key is stored twice.
Findable(tab) ==
    \A s \in Live(tab) :
        LET h == Home(tab, tab.k[s])
        IN  \A r \in Slots(tab) :
                /\ Dist(tab, h, r) < Dist(tab, h, s) => tab.k[r] # Empty
                /\ tab.k[r] = tab.k[s] => r = s

\* The list is doubly linked through exactly the slots that hold a key.
Linked(tab) ==
    /\ tab.head = NoEntry <=> tab.tail = NoEntry
    /\ tab.head = NoEntry => Live(tab) = {}
    /\ tab.head # NoEntry => tab.head \in Live(tab) /\ tab.tail \in Live(tab)
    /\ \A s \in Live(tab) :
          /\ IF s = tab.head THEN tab.prev[s] = NoEntry
             ELSE tab.prev[s] \in Live(tab) /\ tab.next[tab.prev[s]] = s
          /\ IF s = tab.tail THEN tab.next[s] = NoEntry
             ELSE tab.next[s] \in Live(tab) /\ tab.prev[tab.next[s]] = s

\* Lookup finds the entry of every stored key, whatever was deleted,
\* replaced or moved by a resize before it.
LookupFindsLive == \A s \in Live(t) : LookupEntry(t, t.k[s]) = s

\* Both links of every stored entry agree with its neighbours, in the table
\* and in the one being filled, so that a delete never unlinks another entry
\* or follows a NULL neighbour.
ListIsLinked == Linked(t) /\ (pc = "rehash" => Linked(nt))

\* json_object_object_length is the number of fields, and the load check of
\* lh_table_insert compares that number: t->count survives the exchange of
\* tables though the new table's own count is dropped.
CountIsLive ==
    /\ t.count = Cardinality(Live(t))
    /\ pc = "rehash" => nt.count = Cardinality(Live(nt))

\* The unbounded probe loop of lh_table_insert meets a vacant slot whenever
\* it is entered: the load factor leaves one.
ProbeEnds ==
    /\ pc = "place" \/ ~Loaded(t) => Vacant(t) # {}
    /\ pc = "rehash" /\ ent # NoEntry => Vacant(nt) # {}

\* The inserts into new_t never resize new_t itself: lh_table_resize would
\* then store a size that is not the size of the array it takes over.
NoNestedResize == pc = "rehash" /\ ent # NoEntry => ~Loaded(nt)

\* While entries are being moved, what new_t holds followed by what is still
\* to be moved is the old list: nothing is lost, doubled or reordered.
RehashInOrder ==
    pc = "rehash" => Fields(nt, nt.head) \o Fields(t, ent) = Fields(t, t.head)

\* Seen through its list, the table is the ordered map the client was
\* promised: a resize is invisible, and a replaced key keeps its place.
Object == INSTANCE OrderedMap WITH entries <- Fields(t, t.head)

RefinesOrderedMap == Object!Spec
=============================================================================
