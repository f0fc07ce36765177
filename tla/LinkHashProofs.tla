--------------------------- MODULE LinkHashProofs ---------------------------
(***************************************************************************)
(* Proofs about LinkHash, for any keys, values, hash function and initial  *)
(* size; and, in the second half, about the loops over the fields of an    *)
(* object (ObjectIter), which rest on them, for any number of resizes      *)
(* before the loop.                                                        *)
(***************************************************************************)
EXTENDS ObjectIter, FiniteSetTheorems, SequenceTheorems, WellFoundedInduction, TLAPS

(***************************************************************************)
(* w lists the slots of table tab in the order of its linked list.  The    *)
(* walk is the witness that makes the list acyclic: the links alone could  *)
(* also describe a list and a ring beside it.                              *)
(***************************************************************************)
Walks(tab, w) ==
    /\ w \in [1 .. tab.count -> Slots(tab)]
    /\ \A i, j \in 1 .. tab.count : w[i] = w[j] => i = j
    /\ \A s \in Slots(tab) : s \in Live(tab) <=> \E i \in 1 .. tab.count : s = w[i]
    /\ tab.head = IF tab.count = 0 THEN NoEntry ELSE w[1]
    /\ tab.tail = IF tab.count = 0 THEN NoEntry ELSE w[tab.count]
    /\ \A i \in 1 .. tab.count :
          /\ tab.next[w[i]] = IF i = tab.count THEN NoEntry ELSE w[i+1]
          /\ tab.prev[w[i]] = IF i = 1 THEN NoEntry ELSE w[i-1]

Sound(tab, w) == TableType(tab) /\ Walks(tab, w) /\ Findable(tab)

Stored(tab) == {tab.k[s] : s \in Live(tab)}

\* new is tab with one entry more, at the end of its list.
Grown(tab, w, new, nw, x, val) ==
    /\ new.size = tab.size /\ new.count = tab.count + 1
    /\ \A i \in 1 .. tab.count : new.k[nw[i]] = tab.k[w[i]] /\ new.v[nw[i]] = tab.v[w[i]]
    /\ new.k[nw[tab.count + 1]] = x
    /\ new.v[nw[tab.count + 1]] = val

\* new is tab without the entry at place p of its list.
Shrunk(tab, w, new, nw, p) ==
    /\ new.size = tab.size /\ new.count = tab.count - 1
    /\ \A i \in 1 .. tab.count - 1 :
          LET j == IF i < p THEN i ELSE i + 1
          IN  nw[i] = w[j] /\ new.k[nw[i]] = tab.k[w[j]] /\ new.v[nw[i]] = tab.v[w[j]]

\* While a resize is under way, new_t holds the first nt.count entries of the
\* list, and the cursor is at the next one.
Moving(w, nw) ==
    /\ nt.size = 2 * t.size
    /\ nt.count <= t.count
    /\ \A i \in 1 .. nt.count : nt.k[nw[i]] = t.k[w[i]] /\ nt.v[nw[i]] = t.v[w[i]]
    /\ ent = IF nt.count = t.count THEN NoEntry ELSE w[nt.count + 1]

IInv ==
    /\ hash \in [Key -> HashValue]
    /\ resizes \in Nat
    /\ \E w : Sound(t, w) /\ (pc = "rehash" => \E nw : Sound(nt, nw) /\ Moving(w, nw))
    /\ pc \in {"idle", "rehash", "place"}
    /\ pc # "rehash" => nt = NoTable /\ ent = NoEntry
    /\ IF pc = "idle" THEN pending = <<>>
       ELSE pending \in Key \X Value /\ pending[1] \notin Stored(t)
    /\ pc = "place" => t.count < t.size

-----------------------------------------------------------------------------
\* Every non-empty set of naturals has a least element.
LEMMA LeastNat ==
    ASSUME NEW D, D \subseteq Nat, D # {}
    PROVE  \E m \in D : \A d \in D : m <= d
<1>1. \E m \in D : \A d \in D : ~ (<<d, m>> \in OpToRel(<, Nat))
  BY NatLessThanWellFounded, WFMin
<1>2. PICK m \in D : \A d \in D : ~ (<<d, m>> \in OpToRel(<, Nat))
  BY <1>1
<1>3. \A d \in D : ~ (d < m)
  BY <1>2 DEF OpToRel
<1> QED
  BY <1>3

\* The probe from slot h meets some member of S first.
LEMMA FirstIsLeast ==
    ASSUME NEW tab, tab.size \in Nat \ {0}, NEW h \in Slots(tab),
           NEW S \in SUBSET Slots(tab), S # {}
    PROVE  /\ First(tab, h, S) \in S
           /\ \A r \in S : Dist(tab, h, First(tab, h, S)) <= Dist(tab, h, r)
<1> DEFINE D == {Dist(tab, h, r) : r \in S}
<1>1. D \subseteq Nat /\ D # {}
  BY DEF Dist, Slots
<1>2. PICK m \in D : \A d \in D : m <= d
  BY <1>1, LeastNat
<1>3. \E s \in S : \A r \in S : Dist(tab, h, s) <= Dist(tab, h, r)
  BY <1>2
<1> QED
  BY <1>3 DEF First

\* A key's home is a slot.
LEMMA HomeIsSlot ==
    ASSUME NEW tab, tab.size \in Nat \ {0}, hash \in [Key -> HashValue],
           NEW x \in Key
    PROVE  Home(tab, x) \in Slots(tab)
<1>1. hash[x] \in Nat
  BY HashAssumption
<1> QED
  BY <1>1 DEF Home, Slots

-----------------------------------------------------------------------------
(* Insertion.                                                              *)

\* Linking a vacant slot extends the walk by that slot.
LEMMA PlaceWalks ==
    ASSUME NEW tab, NEW w, TableType(tab), Walks(tab, w),
           NEW s \in Vacant(tab), NEW x \in Key, NEW val \in Value,
           tab.count < tab.size
    PROVE  LET new == Place(tab, s, x, val) IN
           /\ TableType(new)
           /\ new.size = tab.size /\ new.count = tab.count + 1
           /\ new.k = [tab.k EXCEPT ![s] = x]
           /\ new.v = [tab.v EXCEPT ![s] = val]
           /\ Live(new) = Live(tab) \cup {s}
           /\ Walks(new, [i \in 1 .. tab.count + 1 |->
                              IF i <= tab.count THEN w[i] ELSE s])
<1> DEFINE new == Place(tab, s, x, val)
<1> DEFINE nw == [i \in 1 .. tab.count + 1 |-> IF i <= tab.count THEN w[i] ELSE s]
<1>1. /\ s \in Slots(tab) /\ s \in Int /\ s # NoEntry
      /\ tab.count \in Nat /\ tab.size \in Nat \ {0}
      /\ tab.k[s] \notin Key
  BY SentinelAssumption DEF Vacant, Slots, TableType, NoEntry
<1>2. tab.head = NoEntry <=> tab.count = 0
  BY <1>1 DEF Walks, NoEntry, Slots
<1>3. /\ new.size = tab.size
      /\ new.count = tab.count + 1
      /\ new.k = [tab.k EXCEPT ![s] = x]
      /\ new.v = [tab.v EXCEPT ![s] = val]
      /\ new.head = IF tab.head = NoEntry THEN s ELSE tab.head
      /\ new.tail = s
      /\ new.next = IF tab.head = NoEntry
                    THEN [tab.next EXCEPT ![s] = NoEntry]
                    ELSE [tab.next EXCEPT ![tab.tail] = s, ![s] = NoEntry]
      /\ new.prev = [tab.prev EXCEPT ![s] = IF tab.head = NoEntry
                                            THEN NoEntry ELSE tab.tail]
      /\ DOMAIN new = DOMAIN tab
  BY DEF new, Place, NextWith, PrevWith, TableType
<1> HIDE DEF new
<1>4. TableType(new)
  <2>1. /\ new.size \in Nat \ {0} /\ new.count \in 0 .. new.size
        /\ Slots(new) = Slots(tab)
    BY <1>1, <1>3 DEF TableType, Slots
  <2>2. /\ new.head \in Slots(new) \cup {NoEntry}
        /\ new.tail \in Slots(new) \cup {NoEntry}
    BY <1>1, <1>3, <2>1 DEF TableType
  <2>3. /\ new.k \in [Slots(new) -> Key \cup {Empty, Freed}]
        /\ new.v \in [Slots(new) -> Value]
    BY <1>1, <1>3, <2>1 DEF TableType
  <2>4. /\ new.next \in [Slots(new) -> Slots(new) \cup {NoEntry}]
        /\ new.prev \in [Slots(new) -> Slots(new) \cup {NoEntry}]
    BY <1>1, <1>3, <2>1 DEF TableType
  <2> QED
    BY <1>3, <2>1, <2>2, <2>3, <2>4 DEF TableType
<1>5. Live(new) = Live(tab) \cup {s}
  BY <1>1, <1>3 DEF Live, Slots, TableType
<1>6. \A i \in 1 .. tab.count : w[i] \in Live(tab) /\ w[i] # s
  BY <1>1 DEF Walks, Live
<1>7. Walks(new, nw)
  <2>1. nw \in [1 .. new.count -> Slots(new)]
    BY <1>1, <1>3 DEF Walks, Slots
  <2>2. \A i, j \in 1 .. new.count : nw[i] = nw[j] => i = j
    BY <1>1, <1>3, <1>6 DEF Walks
  <2>3. \A r \in Slots(new) :
            r \in Live(new) <=> \E i \in 1 .. new.count : r = nw[i]
    <3> SUFFICES ASSUME NEW r \in Slots(new)
                 PROVE  r \in Live(new) <=> \E i \in 1 .. new.count : r = nw[i]
      OBVIOUS
    <3>0. /\ tab.count + 1 \in 1 .. new.count /\ nw[tab.count + 1] = s
          /\ \A i \in 1 .. tab.count : i \in 1 .. new.count /\ nw[i] = w[i]
          /\ \A i \in 1 .. new.count : i = tab.count + 1 \/ i \in 1 .. tab.count
          /\ r \in Slots(tab)
      BY <1>1, <1>3 DEF Slots
    <3>1. CASE r = s
      BY <3>0, <3>1, <1>5
    <3>2. CASE r # s
      <4>1. r \in Live(new) <=> r \in Live(tab)
        BY <3>2, <1>5
      <4>2. r \in Live(tab) <=> \E i \in 1 .. tab.count : r = w[i]
        BY <3>0 DEF Walks
      <4> HIDE DEF nw
      <4> QED
        BY <3>0, <3>2, <4>1, <4>2
    <3> QED
      BY <3>1, <3>2
  <2>4. new.head = IF new.count = 0 THEN NoEntry ELSE nw[1]
    BY <1>1, <1>2, <1>3 DEF Walks
  <2>5. new.tail = IF new.count = 0 THEN NoEntry ELSE nw[new.count]
    BY <1>1, <1>3
  <2>6. ASSUME NEW i \in 1 .. new.count
        PROVE  new.next[nw[i]] = IF i = new.count THEN NoEntry ELSE nw[i+1]
    <3>1. CASE i = new.count
      BY <3>1, <1>1, <1>3 DEF TableType
    <3>2. CASE i # new.count
      <4>1. i \in 1 .. tab.count /\ nw[i] = w[i] /\ tab.head # NoEntry
        BY <3>2, <1>1, <1>2, <1>3
      <4>2. CASE i = tab.count
        BY <4>1, <4>2, <1>1, <1>3, <1>6 DEF Walks, TableType, Live
      <4>3. CASE i # tab.count
        <5>1. w[i] # tab.tail
          BY <4>1, <4>3, <1>1 DEF Walks
        <5>2. new.next[nw[i]] = tab.next[w[i]]
          BY <4>1, <5>1, <1>1, <1>3, <1>6 DEF TableType, Live
        <5> QED
          BY <4>1, <4>3, <5>2, <1>1, <1>3 DEF Walks
      <4> QED
        BY <4>2, <4>3
    <3> QED
      BY <3>1, <3>2
  <2>7. ASSUME NEW i \in 1 .. new.count
        PROVE  new.prev[nw[i]] = IF i = 1 THEN NoEntry ELSE nw[i-1]
    <3>1. CASE i = new.count
      BY <3>1, <1>1, <1>2, <1>3 DEF Walks, TableType
    <3>2. CASE i # new.count
      <4>1. i \in 1 .. tab.count /\ nw[i] = w[i]
        BY <3>2, <1>1, <1>3
      <4>2. new.prev[nw[i]] = tab.prev[w[i]]
        BY <4>1, <1>1, <1>3, <1>6 DEF TableType, Live
      <4> QED
        BY <4>1, <4>2, <1>1, <1>3 DEF Walks
    <3> QED
      BY <3>1, <3>2
  <2> QED
    BY <2>1, <2>2, <2>3, <2>4, <2>5, <2>6, <2>7 DEF Walks
<1> QED
  BY <1>3, <1>4, <1>5, <1>7 DEF new

\* The walk counts the slots in use.
LEMMA CountOfWalk ==
    ASSUME NEW tab, NEW w, TableType(tab), Walks(tab, w)
    PROVE  tab.count = Cardinality(Live(tab))
<1>1. w \in Bijection(1 .. tab.count, Live(tab))
  <2>1. w \in [1 .. tab.count -> Live(tab)]
    BY DEF Walks, Live
  <2>2. \A s \in Live(tab) : \E i \in 1 .. tab.count : w[i] = s
    BY DEF Walks, Live
  <2> QED
    BY <2>1, <2>2 DEF Bijection, Injection, Surjection, IsInjective, Walks
<1>2. tab.count \in Nat
  BY DEF TableType
<1> QED
  BY <1>1, <1>2, FS_CountingElements DEF ExistsBijection

\* A table that counts fewer entries than slots has a vacant slot.
LEMMA RoomLeft ==
    ASSUME NEW tab, NEW w, TableType(tab), Walks(tab, w), tab.count < tab.size
    PROVE  Vacant(tab) # {}
<1> SUFFICES ASSUME Vacant(tab) = {} PROVE FALSE
  OBVIOUS
<1>1. Live(tab) = 0 .. tab.size - 1
  BY DEF Vacant, Live, TableType, Slots
<1>2. Cardinality(0 .. tab.size - 1) = tab.size
  BY FS_Interval DEF TableType
<1> QED
  BY <1>1, <1>2, CountOfWalk DEF TableType

\* lh_table_insert of an absent key into a table with room.
LEMMA InsertSound ==
    ASSUME NEW tab, NEW w, Sound(tab, w), tab.count < tab.size,
           hash \in [Key -> HashValue],
           NEW x \in Key, x \notin Stored(tab), NEW val \in Value
    PROVE  \E nw : /\ Sound(Insert(tab, x, val), nw)
                   /\ Grown(tab, w, Insert(tab, x, val), nw, x, val)
<1> DEFINE h == Home(tab, x)
<1> DEFINE s == First(tab, h, Vacant(tab))
<1> DEFINE new == Place(tab, s, x, val)
<1> DEFINE nw == [i \in 1 .. tab.count + 1 |-> IF i <= tab.count THEN w[i] ELSE s]
<1>1. TableType(tab) /\ Walks(tab, w) /\ Findable(tab)
  BY DEF Sound
<1>2. tab.size \in Nat \ {0} /\ h \in Slots(tab) /\ tab.count \in Nat
  BY <1>1, HomeIsSlot DEF TableType
<1>3. Vacant(tab) \in SUBSET Slots(tab) /\ Vacant(tab) # {}
  BY <1>1, RoomLeft DEF Vacant
<1> HIDE DEF h
<1>4. /\ s \in Vacant(tab)
      /\ \A r \in Vacant(tab) : Dist(tab, h, s) <= Dist(tab, h, r)
  BY <1>2, <1>3, FirstIsLeast
<1> HIDE DEF s
<1>5. /\ TableType(new) /\ Walks(new, nw)
      /\ new.size = tab.size /\ new.count = tab.count + 1
      /\ new.k = [tab.k EXCEPT ![s] = x]
      /\ new.v = [tab.v EXCEPT ![s] = val]
      /\ Live(new) = Live(tab) \cup {s}
  BY <1>1, <1>4, PlaceWalks
<1> HIDE DEF new
<1>6. /\ s \in Slots(tab) /\ Slots(new) = Slots(tab)
      /\ s \notin Live(tab) /\ x # Empty /\ x # Freed
      /\ tab.k \in [Slots(tab) -> Key \cup {Empty, Freed}]
      /\ tab.v \in [Slots(tab) -> Value]
      /\ Live(tab) \subseteq Slots(tab)
      /\ \A r \in Live(tab) : tab.k[r] # x
  BY <1>1, <1>4, <1>5, SentinelAssumption
     DEF Vacant, Live, Slots, TableType, Stored
<1>7. Findable(new)
  <2> SUFFICES ASSUME NEW q \in Live(new), NEW r \in Slots(new)
               PROVE  /\ Dist(new, Home(new, new.k[q]), r)
                            < Dist(new, Home(new, new.k[q]), q) => new.k[r] # Empty
                      /\ new.k[r] = new.k[q] => r = q
    BY DEF Findable
  <2>1. CASE q = s
    <3>1. new.k[q] = x /\ Home(new, x) = h
      BY <2>1, <1>5, <1>6 DEF h, Home
    <3>2. Dist(tab, h, r) < Dist(tab, h, s) => r \notin Vacant(tab)
      BY <1>2, <1>4, <1>6 DEF Dist, Slots
    <3>3. Dist(tab, h, r) < Dist(tab, h, s) => new.k[r] # Empty
      BY <3>2, <1>5, <1>6 DEF Vacant
    <3>4. new.k[r] = x => r = s
      BY <1>5, <1>6 DEF Live
    <3> QED
      BY <2>1, <3>1, <3>3, <3>4, <1>5 DEF Dist
  <2>2. CASE q # s
    <3>1. q \in Live(tab) /\ new.k[q] = tab.k[q] /\ tab.k[q] # x
          /\ Home(new, new.k[q]) = Home(tab, tab.k[q])
      BY <2>2, <1>5, <1>6 DEF Home
    <3>2. /\ Dist(tab, Home(tab, tab.k[q]), r)
                 < Dist(tab, Home(tab, tab.k[q]), q) => tab.k[r] # Empty
          /\ tab.k[r] = tab.k[q] => r = q
      BY <3>1, <1>1, <1>6 DEF Findable
    <3>3. new.k[r] = IF r = s THEN x ELSE tab.k[r]
      BY <1>5, <1>6
    <3> QED
      BY <3>1, <3>2, <3>3, <1>5, <1>6 DEF Dist
  <2> QED
    BY <2>1, <2>2
<1>8. \A i \in 1 .. tab.count : w[i] \in Live(tab)
  BY <1>1 DEF Walks, Live
<1>9. /\ \A i \in 1 .. tab.count : new.k[nw[i]] = tab.k[w[i]]
                                  /\ new.v[nw[i]] = tab.v[w[i]]
      /\ new.k[nw[tab.count + 1]] = x
      /\ new.v[nw[tab.count + 1]] = val
  BY <1>2, <1>5, <1>6, <1>8
<1>10. new = Insert(tab, x, val)
  BY DEF Insert, new, s, h
<1>11. Sound(new, nw)
  BY <1>5, <1>7 DEF Sound
<1>12. Grown(tab, w, new, nw, x, val)
  BY <1>5, <1>9 DEF Grown
<1> HIDE DEF nw
<1> QED
  BY <1>10, <1>11, <1>12

-----------------------------------------------------------------------------
(* Lookup.                                                                 *)

\* lh_table_lookup_entry finds every stored key at its slot, and nothing else.
LEMMA LookupFinds ==
    ASSUME NEW tab, NEW w, Sound(tab, w), hash \in [Key -> HashValue]
    PROVE  /\ \A s \in Live(tab) : LookupEntry(tab, tab.k[s]) = s
           /\ \A x \in Key : LookupEntry(tab, x) # NoEntry =>
                 LookupEntry(tab, x) \in Live(tab) /\ tab.k[LookupEntry(tab, x)] = x
           /\ \A x \in Key : LookupEntry(tab, x) = NoEntry => x \notin Stored(tab)
<1>0. TableType(tab) /\ Findable(tab) /\ tab.size \in Nat \ {0}
  BY DEF Sound, TableType
<1>1. ASSUME NEW s \in Live(tab)
      PROVE  LookupEntry(tab, tab.k[s]) = s
  <2> DEFINE x == tab.k[s]
  <2> DEFINE h == Home(tab, x)
  <2> DEFINE stop == {r \in Slots(tab) : tab.k[r] \in {x, Empty}}
  <2> DEFINE f == First(tab, h, stop)
  <2>1. x \in Key /\ s \in Slots(tab) /\ s \in stop /\ h \in Slots(tab) /\ x # Empty
    BY <1>0, HomeIsSlot, SentinelAssumption DEF Live
  <2>2. f \in stop /\ \A r \in stop : Dist(tab, h, f) <= Dist(tab, h, r)
    BY <1>0, <2>1, FirstIsLeast
  <2>3. f \in Slots(tab) /\ Dist(tab, h, f) <= Dist(tab, h, s)
        /\ tab.k[f] \in {x, Empty}
    BY <2>1, <2>2
  <2>4. /\ Dist(tab, h, f) < Dist(tab, h, s) => tab.k[f] # Empty
        /\ tab.k[f] = x => f = s
    BY <2>3, <1>0 DEF Findable
  <2> HIDE DEF f, h
  <2>5. Dist(tab, h, f) = Dist(tab, h, s) => f = s
    BY <1>0, <2>1, <2>3 DEF Dist, Slots
  <2>6. f = s
    BY <1>0, <2>1, <2>3, <2>4, <2>5 DEF Dist, Slots
  <2> QED
    BY <2>1, <2>6 DEF LookupEntry, f, h
<1>2. ASSUME NEW x \in Key, LookupEntry(tab, x) # NoEntry
      PROVE  LookupEntry(tab, x) \in Live(tab) /\ tab.k[LookupEntry(tab, x)] = x
  <2> DEFINE stop == {r \in Slots(tab) : tab.k[r] \in {x, Empty}}
  <2> DEFINE f == First(tab, Home(tab, x), stop)
  <2>1. stop # {} /\ tab.k[f] # Empty /\ LookupEntry(tab, x) = f
    BY <1>2 DEF LookupEntry
  <2>2. f \in stop
    BY <1>0, <2>1, HomeIsSlot, FirstIsLeast
  <2> QED
    BY <2>1, <2>2 DEF Live
<1>3. ASSUME NEW x \in Key, LookupEntry(tab, x) = NoEntry, x \in Stored(tab)
      PROVE  FALSE
  <2>1. PICK s \in Live(tab) : tab.k[s] = x
    BY <1>3 DEF Stored
  <2> QED
    BY <1>1, <1>3, <2>1 DEF Live, Slots, NoEntry
<1> QED
  BY <1>1, <1>2, <1>3

-----------------------------------------------------------------------------
(* Deletion and replacement.                                               *)

\* lh_table_delete_entry takes one slot out of the walk and leaves a
\* tombstone there.
LEMMA DeleteSound ==
    ASSUME NEW tab, NEW w, Sound(tab, w), NEW s \in Live(tab)
    PROVE  \E nw : \E p \in 1 .. tab.count :
               /\ w[p] = s
               /\ Sound(DeleteEntry(tab, s), nw)
               /\ Shrunk(tab, w, DeleteEntry(tab, s), nw, p)
<1> DEFINE new == DeleteEntry(tab, s)
<1>0. TableType(tab) /\ Walks(tab, w) /\ Findable(tab)
  BY DEF Sound
<1>1. PICK p \in 1 .. tab.count : s = w[p]
  BY <1>0 DEF Walks, Live
<1> DEFINE nw == [i \in 1 .. tab.count - 1 |-> IF i < p THEN w[i] ELSE w[i+1]]
<1>2. /\ s \in Slots(tab) /\ s \in Int /\ s # NoEntry
      /\ tab.count \in Nat /\ tab.count >= 1 /\ tab.size \in Nat \ {0}
      /\ p \in Int /\ 1 <= p /\ p <= tab.count
  BY <1>0 DEF Live, Slots, TableType, NoEntry
<1>3. /\ s = tab.head <=> p = 1
      /\ s = tab.tail <=> p = tab.count
  BY <1>0, <1>1, <1>2 DEF Walks
<1>4. /\ tab.next[s] = IF p = tab.count THEN NoEntry ELSE w[p+1]
      /\ tab.prev[s] = IF p = 1 THEN NoEntry ELSE w[p-1]
  BY <1>0, <1>1 DEF Walks
<1>5. /\ new.size = tab.size
      /\ new.count = tab.count - 1
      /\ new.k = [tab.k EXCEPT ![s] = Freed]
      /\ new.v = [tab.v EXCEPT ![s] = Null]
      /\ new.head = IF p # 1 THEN tab.head
                    ELSE IF p = tab.count THEN NoEntry ELSE w[2]
      /\ new.tail = IF p # tab.count THEN tab.tail
                    ELSE IF p = 1 THEN NoEntry ELSE w[p-1]
      /\ new.next = IF p = 1 THEN [tab.next EXCEPT ![s] = NoEntry]
                    ELSE [tab.next EXCEPT
                            ![w[p-1]] = IF p = tab.count THEN NoEntry ELSE w[p+1],
                            ![s] = NoEntry]
      /\ new.prev = IF p = tab.count THEN [tab.prev EXCEPT ![s] = NoEntry]
                    ELSE [tab.prev EXCEPT
                            ![w[p+1]] = IF p = 1 THEN NoEntry ELSE w[p-1],
                            ![s] = NoEntry]
      /\ DOMAIN new = DOMAIN tab
  <2>1. /\ new.head = IF s # tab.head THEN tab.head
                      ELSE IF s = tab.tail THEN NoEntry ELSE tab.next[s]
        /\ new.tail = IF s # tab.tail THEN tab.tail
                      ELSE IF s = tab.head THEN NoEntry ELSE tab.prev[s]
        /\ new.next = NextWithout(tab, s)
        /\ new.prev = PrevWithout(tab, s)
    BY DEF DeleteEntry
  <2>2. p # 1 => tab.prev[s] = w[p-1]
    BY <1>4
  <2>3. p # tab.count => tab.next[s] = w[p+1]
    BY <1>4
  <2>4. new.next = IF p = 1 THEN [tab.next EXCEPT ![s] = NoEntry]
                   ELSE [tab.next EXCEPT
                           ![w[p-1]] = IF p = tab.count THEN NoEntry ELSE w[p+1],
                           ![s] = NoEntry]
    BY <2>1, <2>2, <2>3, <1>3 DEF NextWithout
  <2>5. new.prev = IF p = tab.count THEN [tab.prev EXCEPT ![s] = NoEntry]
                   ELSE [tab.prev EXCEPT
                           ![w[p+1]] = IF p = 1 THEN NoEntry ELSE w[p-1],
                           ![s] = NoEntry]
    BY <2>1, <2>2, <2>3, <1>3 DEF PrevWithout
  <2>6. /\ new.head = IF p # 1 THEN tab.head
                      ELSE IF p = tab.count THEN NoEntry ELSE w[2]
        /\ new.tail = IF p # tab.count THEN tab.tail
                      ELSE IF p = 1 THEN NoEntry ELSE w[p-1]
    BY <2>1, <2>2, <2>3, <1>3
  <2>7. /\ new.size = tab.size
        /\ new.count = tab.count - 1
        /\ new.k = [tab.k EXCEPT ![s] = Freed]
        /\ new.v = [tab.v EXCEPT ![s] = Null]
        /\ DOMAIN new = DOMAIN tab
    BY <1>0 DEF DeleteEntry, TableType
  <2> QED
    BY <2>4, <2>5, <2>6, <2>7
<1> HIDE DEF new
<1>6. /\ \A i \in 1 .. tab.count : w[i] \in Slots(tab)
      /\ \A i, j \in 1 .. tab.count : w[i] = w[j] => i = j
  BY <1>0 DEF Walks
<1>7. TableType(new) /\ Slots(new) = Slots(tab)
  <2>1. /\ new.size \in Nat \ {0} /\ new.count \in 0 .. new.size
        /\ Slots(new) = Slots(tab)
    BY <1>0, <1>2, <1>5 DEF TableType, Slots
  <2>2. /\ new.head \in Slots(new) \cup {NoEntry}
        /\ new.tail \in Slots(new) \cup {NoEntry}
    BY <1>0, <1>2, <1>5, <1>6, <2>1 DEF TableType
  <2>3. /\ new.k \in [Slots(new) -> Key \cup {Empty, Freed}]
        /\ new.v \in [Slots(new) -> Value]
    BY <1>0, <1>2, <1>5, <2>1 DEF TableType, Value
  <2>4. /\ new.next \in [Slots(new) -> Slots(new) \cup {NoEntry}]
        /\ new.prev \in [Slots(new) -> Slots(new) \cup {NoEntry}]
    BY <1>0, <1>2, <1>5, <1>6, <2>1 DEF TableType
  <2> QED
    BY <1>0, <1>5, <2>1, <2>2, <2>3, <2>4 DEF TableType
<1>8. Live(new) = Live(tab) \ {s}
  BY <1>0, <1>2, <1>5, <1>7, SentinelAssumption DEF Live, TableType
<1>9. Walks(new, nw)
  <2>1. nw \in [1 .. new.count -> Slots(new)]
    BY <1>2, <1>5, <1>6, <1>7
  <2>2. \A i, j \in 1 .. new.count : nw[i] = nw[j] => i = j
    <3> SUFFICES ASSUME NEW i \in 1 .. new.count, NEW j \in 1 .. new.count,
                        nw[i] = nw[j]
                 PROVE  i = j
      OBVIOUS
    <3> DEFINE ii == IF i < p THEN i ELSE i + 1
    <3> DEFINE jj == IF j < p THEN j ELSE j + 1
    <3>1. /\ ii \in 1 .. tab.count /\ nw[i] = w[ii]
          /\ jj \in 1 .. tab.count /\ nw[j] = w[jj]
      BY <1>2, <1>5
    <3>2. ii = jj
      BY <3>1, <1>6
    <3> QED
      BY <3>2, <1>2
  <2>3. \A r \in Slots(new) :
            r \in Live(new) <=> \E i \in 1 .. new.count : r = nw[i]
    <3> SUFFICES ASSUME NEW r \in Slots(new)
                 PROVE  r \in Live(new) <=> \E i \in 1 .. new.count : r = nw[i]
      OBVIOUS
    <3>1. r \in Live(tab) <=> \E i \in 1 .. tab.count : r = w[i]
      BY <1>0, <1>7 DEF Walks
    <3>2. ASSUME NEW i \in 1 .. new.count, r = nw[i]
          PROVE  r \in Live(new)
      <4>1. PICK j \in 1 .. tab.count : r = w[j] /\ j # p
        BY <1>2, <1>5, <3>2
      <4> QED
        BY <4>1, <3>1, <1>1, <1>6, <1>8
    <3>3. ASSUME r \in Live(new)
          PROVE  \E i \in 1 .. new.count : r = nw[i]
      <4>1. PICK j \in 1 .. tab.count : r = w[j] /\ j # p
        BY <3>1, <3>3, <1>1, <1>8
      <4>2. CASE j < p
        <5>1. j \in 1 .. new.count /\ nw[j] = r
          BY <4>1, <4>2, <1>2, <1>5
        <5> QED
          BY <5>1
      <4>3. CASE j > p
        <5>1. j - 1 \in 1 .. new.count /\ nw[j-1] = r
          BY <4>1, <4>3, <1>2, <1>5
        <5> QED
          BY <5>1
      <4> QED
        BY <4>1, <4>2, <4>3, <1>2
    <3> QED
      BY <3>2, <3>3
  <2>4. new.head = IF new.count = 0 THEN NoEntry ELSE nw[1]
    BY <1>0, <1>2, <1>5 DEF Walks
  <2>5. new.tail = IF new.count = 0 THEN NoEntry ELSE nw[new.count]
    BY <1>0, <1>2, <1>5 DEF Walks
  <2>6. ASSUME NEW i \in 1 .. new.count
        PROVE  new.next[nw[i]] = IF i = new.count THEN NoEntry ELSE nw[i+1]
    <3> DEFINE j == IF i < p THEN i ELSE i + 1
    <3>1. j \in 1 .. tab.count /\ nw[i] = w[j] /\ w[j] # s
      BY <1>1, <1>2, <1>5, <1>6
    <3>2. tab.next[w[j]] = IF j = tab.count THEN NoEntry ELSE w[j+1]
      BY <3>1, <1>0 DEF Walks
    <3>3. CASE j = p - 1
      <4>1. new.next[w[j]] = IF p = tab.count THEN NoEntry ELSE w[p+1]
        BY <3>1, <3>3, <1>0, <1>2, <1>5, <1>6 DEF TableType
      <4> QED
        BY <4>1, <3>1, <3>3, <1>2, <1>5
    <3>4. CASE j # p - 1
      <4>1. p # 1 => w[j] # w[p-1]
        BY <3>1, <3>4, <1>2, <1>6
      <4>2. new.next[w[j]] = tab.next[w[j]]
        BY <3>1, <4>1, <1>0, <1>2, <1>5, <1>6 DEF TableType
      <4>3. ASSUME i # new.count
            PROVE  nw[i+1] = w[j+1]
        <5>1. i + 1 \in 1 .. tab.count - 1
          BY <4>3, <1>2, <1>5
        <5>2. nw[i+1] = IF i + 1 < p THEN w[i+1] ELSE w[i+2]
          BY <5>1, <1>2
        <5>3. j + 1 = IF i + 1 < p THEN i + 1 ELSE i + 2
          BY <3>4, <1>2
        <5> QED
          BY <5>2, <5>3
      <4>4. i = new.count <=> j = tab.count
        BY <3>4, <1>2, <1>5
      <4> QED
        BY <4>2, <4>3, <4>4, <3>1, <3>2
    <3> QED
      BY <3>3, <3>4
  <2>7. ASSUME NEW i \in 1 .. new.count
        PROVE  new.prev[nw[i]] = IF i = 1 THEN NoEntry ELSE nw[i-1]
    <3> DEFINE j == IF i < p THEN i ELSE i + 1
    <3>1. j \in 1 .. tab.count /\ nw[i] = w[j] /\ w[j] # s
      BY <1>1, <1>2, <1>5, <1>6
    <3>2. tab.prev[w[j]] = IF j = 1 THEN NoEntry ELSE w[j-1]
      BY <3>1, <1>0 DEF Walks
    <3>3. CASE j = p + 1
      <4>1. new.prev[w[j]] = IF p = 1 THEN NoEntry ELSE w[p-1]
        BY <3>1, <3>3, <1>0, <1>2, <1>5, <1>6 DEF TableType
      <4> QED
        BY <4>1, <3>1, <3>3, <1>2, <1>5
    <3>4. CASE j # p + 1
      <4>1. p # tab.count => w[j] # w[p+1]
        BY <3>1, <3>4, <1>2, <1>6
      <4>2. new.prev[w[j]] = tab.prev[w[j]]
        BY <3>1, <4>1, <1>0, <1>2, <1>5, <1>6 DEF TableType
      <4> QED
        BY <4>2, <3>1, <3>2, <3>4, <1>2, <1>5
    <3> QED
      BY <3>3, <3>4
  <2> QED
    BY <2>1, <2>2, <2>3, <2>4, <2>5, <2>6, <2>7 DEF Walks
<1>10. Findable(new)
  <2> SUFFICES ASSUME NEW q \in Live(new), NEW r \in Slots(new)
               PROVE  /\ Dist(new, Home(new, new.k[q]), r)
                            < Dist(new, Home(new, new.k[q]), q) => new.k[r] # Empty
                      /\ new.k[r] = new.k[q] => r = q
    BY DEF Findable
  <2>1. q \in Live(tab) /\ q # s /\ r \in Slots(tab)
    BY <1>7, <1>8
  <2>2. /\ new.k[q] = tab.k[q] /\ new.k[q] \in Key
        /\ new.k[r] = IF r = s THEN Freed ELSE tab.k[r]
    BY <2>1, <1>0, <1>2, <1>5 DEF Live, TableType
  <2>3. /\ Dist(tab, Home(tab, tab.k[q]), r)
               < Dist(tab, Home(tab, tab.k[q]), q) => tab.k[r] # Empty
        /\ tab.k[r] = tab.k[q] => r = q
    BY <2>1, <1>0 DEF Findable
  <2>4. Home(new, new.k[q]) = Home(tab, tab.k[q])
    BY <2>2, <1>5 DEF Home
  <2> QED
    BY <2>2, <2>3, <2>4, <1>5, SentinelAssumption DEF Dist
<1>11. ASSUME NEW i \in 1 .. tab.count - 1
       PROVE  LET j == IF i < p THEN i ELSE i + 1
              IN  /\ nw[i] = w[j]
                  /\ new.k[nw[i]] = tab.k[w[j]]
                  /\ new.v[nw[i]] = tab.v[w[j]]
  <2> DEFINE j == IF i < p THEN i ELSE i + 1
  <2>1. j \in 1 .. tab.count /\ nw[i] = w[j] /\ w[j] # s
    BY <1>1, <1>2, <1>6
  <2>2. tab.k \in [Slots(tab) -> Key \cup {Empty, Freed}] /\ tab.v \in [Slots(tab) -> Value]
    BY <1>0 DEF TableType
  <2> QED
    BY <2>1, <2>2, <1>2, <1>5, <1>6
<1>12. Sound(new, nw)
  BY <1>7, <1>9, <1>10 DEF Sound
<1>13. Shrunk(tab, w, new, nw, p)
  BY <1>5, <1>11 DEF Shrunk
<1> HIDE DEF nw
<1> QED
  BY <1>1, <1>12, <1>13 DEF new

\* Replacing a value disturbs neither the probes nor the list.
LEMMA SetValueSound ==
    ASSUME NEW tab, NEW w, Sound(tab, w), NEW s \in Live(tab), NEW val \in Value
    PROVE  Sound(SetValue(tab, s, val), w)
<1> DEFINE new == SetValue(tab, s, val)
<1>0. TableType(tab) /\ Walks(tab, w) /\ Findable(tab)
  BY DEF Sound
<1>1. /\ new.size = tab.size /\ new.count = tab.count
      /\ new.head = tab.head /\ new.tail = tab.tail
      /\ new.k = tab.k /\ new.next = tab.next /\ new.prev = tab.prev
      /\ new.v = [tab.v EXCEPT ![s] = val]
      /\ DOMAIN new = DOMAIN tab
  BY <1>0 DEF SetValue, TableType
<1> HIDE DEF new
<1>2. TableType(new)
  BY <1>0, <1>1 DEF TableType, Slots, Live
<1>3. Walks(new, w)
  BY <1>0, <1>1 DEF Walks, Live, Slots
<1>4. Findable(new)
  BY <1>0, <1>1 DEF Findable, Live, Slots, Home, Dist
<1> QED
  BY <1>2, <1>3, <1>4 DEF Sound, new

-----------------------------------------------------------------------------
(* The invariant.                                                          *)

\* A fresh table has an empty walk.
LEMMA NewTableSound ==
    ASSUME NEW n \in Nat \ {0}
    PROVE  /\ Sound(NewTable(n), <<>>)
           /\ NewTable(n).size = n /\ NewTable(n).count = 0
           /\ Stored(NewTable(n)) = {}
<1> DEFINE tab == NewTable(n)
<1>1. /\ tab.size = n /\ tab.count = 0 /\ tab.head = NoEntry /\ tab.tail = NoEntry
      /\ tab.k = [s \in 0 .. n - 1 |-> Empty]
      /\ tab.v = [s \in 0 .. n - 1 |-> Null]
      /\ tab.next = [s \in 0 .. n - 1 |-> NoEntry]
      /\ tab.prev = [s \in 0 .. n - 1 |-> NoEntry]
      /\ DOMAIN tab = {"size", "count", "head", "tail", "k", "v", "next", "prev"}
  BY DEF NewTable
<1> HIDE DEF tab
<1>2. Slots(tab) = 0 .. n - 1
  BY <1>1 DEF Slots
<1>3. Live(tab) = {}
  BY <1>1, <1>2, SentinelAssumption DEF Live
<1>4. TableType(tab)
  BY <1>1, <1>2 DEF TableType, Value
<1>5. Walks(tab, <<>>)
  BY <1>1, <1>2, <1>3 DEF Walks
<1>6. Findable(tab)
  BY <1>3 DEF Findable
<1> QED
  BY <1>1, <1>3, <1>4, <1>5, <1>6 DEF Sound, Stored, tab

LEMMA InitInvariant == Init => IInv
<1> SUFFICES ASSUME Init PROVE IInv
  OBVIOUS
<1>1. Sound(t, <<>>)
  BY NewTableSound, SizeAssumption DEF Init
<1> QED
  BY <1>1 DEF Init, IInv

\* The hash function does not change, so a table is sound in the next state
\* when it is sound under the hash function of this one.
LEMMA SoundPrimed ==
    ASSUME hash' = hash, NEW w
    PROVE  Sound(t', w) <=> Sound(t, w)'
  BY DEF Sound, TableType, Walks, Findable, Home, Live, Slots, Dist, Value, NoEntry

LEMMA SoundNewPrimed ==
    ASSUME hash' = hash, NEW w
    PROVE  Sound(nt', w) <=> Sound(nt, w)'
  BY DEF Sound, TableType, Walks, Findable, Home, Live, Slots, Dist, Value, NoEntry

\* The insert at the end of lh_table_insert, with or without a resize
\* before it.
LEMMA InsertKeeps ==
    ASSUME IInv, NEW x \in Key, NEW val \in Value, x \notin Stored(t),
           t.count < t.size, t' = Insert(t, x, val), nt' = NoTable,
           ent' = NoEntry, pending' = <<>>, pc' = "idle",
           resizes' = resizes, hash' = hash
    PROVE  IInv'
<1>1. PICK w : Sound(t, w)
  BY DEF IInv
<1>2. \E nw : Sound(Insert(t, x, val), nw)
  BY <1>1, InsertSound DEF IInv
<1>3. \E nw : Sound(t', nw)
  BY <1>2
<1>4. \E nw : Sound(t, nw)'
  BY <1>3, SoundPrimed
<1> QED
  BY <1>4 DEF IInv

\* The exchange of tables at the end of lh_table_resize.
LEMMA ExchangeSound ==
    ASSUME NEW tab, NEW w, Sound(tab, w)
    PROVE  LET new == [tab EXCEPT !.count = tab.count]
           IN  Sound(new, w) /\ Stored(new) = Stored(tab)
               /\ new.count = tab.count /\ new.size = tab.size
<1> DEFINE new == [tab EXCEPT !.count = tab.count]
<1>0. TableType(tab) /\ Walks(tab, w) /\ Findable(tab)
  BY DEF Sound
<1>1. /\ new.size = tab.size /\ new.count = tab.count
      /\ new.head = tab.head /\ new.tail = tab.tail
      /\ new.k = tab.k /\ new.next = tab.next /\ new.prev = tab.prev
      /\ new.v = tab.v
      /\ DOMAIN new = DOMAIN tab
  BY <1>0 DEF TableType
<1> HIDE DEF new
<1>2. TableType(new) /\ Stored(new) = Stored(tab)
  BY <1>0, <1>1 DEF TableType, Stored, Slots, Live
<1>3. Walks(new, w)
  BY <1>0, <1>1 DEF Walks, Live, Slots
<1>4. Findable(new)
  BY <1>0, <1>1 DEF Findable, Live, Slots, Home, Dist
<1> QED
  BY <1>1, <1>2, <1>3, <1>4 DEF Sound, new

\* Every key at a place of the walk is stored, and conversely.
LEMMA StoredByWalk ==
    ASSUME NEW tab, NEW w, TableType(tab), Walks(tab, w)
    PROVE  /\ \A i \in 1 .. tab.count : w[i] \in Live(tab) /\ tab.k[w[i]] \in Stored(tab)
           /\ \A x \in Stored(tab) : \E i \in 1 .. tab.count : x = tab.k[w[i]]
  BY DEF Walks, Live, Stored

LEMMA NextInvariant == IInv /\ [Next]_vars => IInv'
<1> SUFFICES ASSUME IInv, [Next]_vars PROVE IInv'
  OBVIOUS
<1>0. /\ hash \in [Key -> HashValue] /\ resizes \in Nat
      /\ pc # "rehash" => nt = NoTable /\ ent = NoEntry
      /\ IF pc = "idle" THEN pending = <<>>
         ELSE pending \in Key \X Value /\ pending[1] \notin Stored(t)
  BY DEF IInv
<1>w. PICK w : Sound(t, w) /\ (pc = "rehash" => \E nw : Sound(nt, nw) /\ Moving(w, nw))
  BY DEF IInv
<1>t. t.size \in Nat \ {0} /\ t.count \in Nat /\ t.count <= t.size
  BY <1>w DEF Sound, TableType
<1>1. ASSUME NEW x \in Key, NEW val \in Value, AddNew(x, val)
      PROVE  IInv'
  <2>1. x \notin Stored(t)
    BY <1>0, <1>1, <1>w, LookupFinds DEF AddNew
  <2>2. t.count < t.size
    BY <1>1, <1>t DEF AddNew, Loaded
  <2> QED
    BY <2>1, <2>2, <1>0, <1>1, InsertKeeps DEF AddNew
<1>2. ASSUME NEW x \in Key, NEW val \in Value, AddReplace(x, val)
      PROVE  IInv'
  <2> DEFINE e == LookupEntry(t, x)
  <2>1. e \in Live(t)
    BY <1>0, <1>2, <1>w, LookupFinds DEF AddReplace
  <2>2. t' = SetValue(t, e, val) /\ hash' = hash
    BY <1>2 DEF AddReplace
  <2>3. Sound(SetValue(t, e, val), w)
    BY <2>1, <1>w, SetValueSound
  <2>4. Sound(t', w)
    BY <2>2, <2>3
  <2>5. Sound(t, w)'
    BY <2>2, <2>4, SoundPrimed
  <2> QED
    BY <2>5, <1>0, <1>2 DEF AddReplace, IInv
<1>3. ASSUME NEW x \in Key, NEW val \in Value, ResizeBegin(x, val)
      PROVE  IInv'
  <2>1. x \notin Stored(t) /\ hash' = hash /\ t' = t
    BY <1>0, <1>3, <1>w, LookupFinds DEF ResizeBegin
  <2>2. nt' = NewTable(2 * t.size) /\ ent' = t.head
    BY <1>3 DEF ResizeBegin, NewSize
  <2>3. /\ Sound(nt', <<>>)
        /\ nt'.size = 2 * t.size /\ nt'.count = 0
    BY <2>2, <1>t, NewTableSound
  <2>4. Sound(nt, <<>>)'
    BY <2>1, <2>3, SoundNewPrimed
  <2>5. Sound(t, w)'
    BY <2>1, <1>w, SoundPrimed
  <2>6. Moving(w, <<>>)'
    BY <2>1, <2>2, <2>3, <1>t, <1>w DEF Moving, Sound, Walks
  <2>7. Stored(t)' = Stored(t)
    BY <2>1 DEF Stored, Live, Slots
  <2>8. pending' = <<x, val>> /\ pc' = "rehash" /\ resizes' = resizes
    BY <1>3 DEF ResizeBegin
  <2>9. (\E ww : Sound(t, ww) /\ \E nw : Sound(nt, nw) /\ Moving(ww, nw))'
    BY <2>4, <2>5, <2>6
  <2> QED
    BY <2>1, <2>7, <2>8, <2>9, <1>0 DEF IInv
<1>4. ASSUME NEW x \in Key, Delete(x)
      PROVE  IInv'
  <2> DEFINE e == LookupEntry(t, x)
  <2>1. e \in Live(t)
    BY <1>0, <1>4, <1>w, LookupFinds DEF Delete
  <2>2. t' = DeleteEntry(t, e) /\ hash' = hash
    BY <1>4 DEF Delete, RemoveKey
  <2>3. \E nw : Sound(DeleteEntry(t, e), nw)
    BY <2>1, <1>w, DeleteSound
  <2>4. \E nw : Sound(t', nw)
    BY <2>2, <2>3
  <2>5. \E nw : Sound(t, nw)'
    BY <2>2, <2>4, SoundPrimed
  <2> QED
    BY <2>5, <1>0, <1>4 DEF Delete, IInv
<1>5. CASE ResizeMove
  <2>1. PICK nw : Sound(nt, nw) /\ Moving(w, nw)
    BY <1>5, <1>w DEF ResizeMove
  <2> DEFINE n == nt.count
  <2>2. /\ n \in Nat /\ n < t.count /\ ent = w[n+1] /\ n < nt.size
        /\ nt.size = 2 * t.size
    BY <2>1, <1>5, <1>t DEF ResizeMove, Moving, Sound, TableType
  <2>3. /\ TableType(t) /\ Walks(t, w) /\ TableType(nt) /\ Walks(nt, nw)
        /\ ent \in Live(t) /\ t.k[ent] \in Key /\ t.v[ent] \in Value
    BY <2>1, <2>2, <1>t, <1>w, StoredByWalk DEF Sound, Live, TableType
  <2>4. t.k[ent] \notin Stored(nt)
    <3> SUFFICES ASSUME t.k[ent] \in Stored(nt) PROVE FALSE
      OBVIOUS
    <3>1. PICK i \in 1 .. n : t.k[ent] = nt.k[nw[i]]
      BY <2>3, StoredByWalk
    <3>2. i \in 1 .. t.count /\ n + 1 \in 1 .. t.count /\ i # n + 1
      BY <2>2, <3>1, <1>t
    <3>3. t.k[w[n+1]] = t.k[w[i]] /\ w[i] \in Live(t) /\ w[n+1] \in Live(t)
      BY <2>1, <2>2, <2>3, <3>1, <3>2, StoredByWalk DEF Moving
    <3>4. w[n+1] = w[i]
      BY <3>3, <1>w DEF Sound, Findable, Live
    <3> QED
      BY <3>2, <3>4, <2>3 DEF Walks
  <2> DEFINE new == Insert(nt, t.k[ent], t.v[ent])
  <2>5. PICK nx : Sound(new, nx) /\ Grown(nt, nw, new, nx, t.k[ent], t.v[ent])
    <3>1. nt.count < nt.size
      BY <2>2
    <3> QED
      BY <3>1, <2>1, <2>3, <2>4, <1>0, InsertSound
  <2>6. nt' = new /\ ent' = t.next[ent] /\ t' = t /\ hash' = hash
    BY <1>5 DEF ResizeMove
  <2> HIDE DEF new
  <2>7. /\ Sound(nt', nx) /\ nt'.size = nt.size /\ nt'.count = n + 1
        /\ \A i \in 1 .. n : nt'.k[nx[i]] = nt.k[nw[i]] /\ nt'.v[nx[i]] = nt.v[nw[i]]
        /\ nt'.k[nx[n + 1]] = t.k[ent] /\ nt'.v[nx[n + 1]] = t.v[ent]
    <3>1. Sound(nt', nx)
      BY <2>5, <2>6
    <3>2. nt'.size = nt.size /\ nt'.count = n + 1
      BY <2>5, <2>6 DEF Grown
    <3>3. \A i \in 1 .. n : nt'.k[nx[i]] = nt.k[nw[i]] /\ nt'.v[nx[i]] = nt.v[nw[i]]
      BY <2>5, <2>6 DEF Grown
    <3>4. nt'.k[nx[n + 1]] = t.k[ent] /\ nt'.v[nx[n + 1]] = t.v[ent]
      BY <2>5, <2>6 DEF Grown
    <3> QED
      BY <3>1, <3>2, <3>3, <3>4
  <2>8. Sound(nt, nx)'
    BY <2>6, <2>7, SoundNewPrimed
  <2>9. Sound(t, w)'
    BY <2>6, <1>w, SoundPrimed
  <2>10. ent' = IF n + 1 = t.count THEN NoEntry ELSE w[n+2]
    <3>1. n + 1 \in 1 .. t.count /\ (n + 1) + 1 = n + 2
      BY <2>2, <1>t
    <3>2. t.next[w[n+1]] = IF n + 1 = t.count THEN NoEntry ELSE w[n+2]
      BY <2>3, <3>1 DEF Walks
    <3> QED
      BY <2>2, <2>6, <3>2
  <2>11. \A i \in 1 .. n + 1 : nt'.k[nx[i]] = t.k[w[i]] /\ nt'.v[nx[i]] = t.v[w[i]]
    BY <2>1, <2>2, <2>7 DEF Moving
  <2>12. Moving(w, nx)'
    BY <2>2, <2>6, <2>7, <2>10, <2>11, <1>t DEF Moving
  <2>13. (\E ww : Sound(t, ww) /\ \E nww : Sound(nt, nww) /\ Moving(ww, nww))'
    BY <2>8, <2>9, <2>12
  <2>14. Stored(t)' = Stored(t)
    BY <2>6 DEF Stored, Live, Slots
  <2> QED
    BY <2>13, <2>14, <1>0, <1>5 DEF ResizeMove, IInv
<1>6. CASE ResizeEnd
  <2>1. PICK nw : Sound(nt, nw) /\ Moving(w, nw)
    BY <1>6, <1>w DEF ResizeEnd
  <2>2. /\ TableType(t) /\ Walks(t, w) /\ TableType(nt) /\ Walks(nt, nw)
    BY <2>1, <1>w DEF Sound
  <2>3. nt.count = t.count /\ nt.size = 2 * t.size
    <3>1. nt.count # t.count => nt.count + 1 \in 1 .. t.count
      BY <2>1, <2>2, <1>t DEF Moving, TableType
    <3>2. nt.count # t.count => ent \in Live(t)
      BY <2>1, <2>2, <3>1, StoredByWalk DEF Moving
    <3> QED
      BY <2>1, <3>2, <1>6 DEF Moving, ResizeEnd, Live, Slots, NoEntry
  <2>4. t' = [nt EXCEPT !.count = nt.count] /\ hash' = hash
    BY <2>3, <1>6 DEF ResizeEnd
  <2>5. /\ Sound(t', nw) /\ Stored(t') = Stored(nt)
        /\ t'.count = t.count /\ t'.size = 2 * t.size
    BY <2>1, <2>3, <2>4, ExchangeSound
  <2>6. Sound(t, nw)'
    BY <2>4, <2>5, SoundPrimed
  <2>7. Stored(nt) \subseteq Stored(t)
    <3> SUFFICES ASSUME NEW x \in Stored(nt) PROVE x \in Stored(t)
      OBVIOUS
    <3>1. PICK i \in 1 .. nt.count : x = nt.k[nw[i]]
      BY <2>2, StoredByWalk
    <3>2. x = t.k[w[i]]
      BY <2>1, <3>1 DEF Moving
    <3> QED
      BY <3>1, <3>2, <2>2, <2>3, StoredByWalk
  <2>8. Stored(t)' = Stored(t')
    BY DEF Stored, Live, Slots
  <2>9. pending' \in Key \X Value /\ pending'[1] \notin Stored(t)'
    BY <2>5, <2>7, <2>8, <1>0, <1>6 DEF ResizeEnd
  <2>10. /\ pc' = "place" /\ nt' = NoTable /\ ent' = NoEntry /\ resizes' \in Nat
         /\ (t.count < t.size)'
    BY <2>5, <1>0, <1>6, <1>t DEF ResizeEnd
  <2> QED
    BY <2>4, <2>6, <2>9, <2>10, <1>0 DEF IInv
<1>7. CASE AddAfterResize
  <2>1. pending[1] \in Key /\ pending[2] \in Value /\ pending[1] \notin Stored(t)
    BY <1>0, <1>7 DEF AddAfterResize
  <2>2. t.count < t.size
    BY <1>7 DEF AddAfterResize, IInv
  <2> QED
    BY <2>1, <2>2, <1>0, <1>7, InsertKeeps DEF AddAfterResize
<1>8. CASE UNCHANGED vars
  <2>1. \A ww : Sound(t, ww) <=> Sound(t, ww)'
    BY <1>8, SoundPrimed DEF vars
  <2>2. \A ww : Sound(nt, ww) <=> Sound(nt, ww)'
    BY <1>8, SoundNewPrimed DEF vars
  <2>3. \A ww, nw : Moving(ww, nw) <=> Moving(ww, nw)'
    BY <1>8 DEF vars, Moving
  <2>4. Stored(t)' = Stored(t) /\ NoTable' = NoTable
    BY <1>8 DEF vars, Stored, Live, Slots
  <2> QED
    BY <2>1, <2>2, <2>3, <2>4, <1>8 DEF IInv, vars
<1> QED
  BY <1>1, <1>2, <1>3, <1>4, <1>5, <1>6, <1>7, <1>8 DEF Next

LEMMA Invariance == Spec => []IInv
BY InitInvariant, NextInvariant, PTL DEF Spec

-----------------------------------------------------------------------------
(* What the invariant gives.                                               *)

LEMMA IInvRehash ==
    ASSUME IInv, pc = "rehash"
    PROVE  \E w, nw : Sound(t, w) /\ Sound(nt, nw) /\ Moving(w, nw)
  BY DEF IInv

\* The walk makes the two links of every entry agree.
LEMMA WalkLinks ==
    ASSUME NEW tab, NEW w, Sound(tab, w)
    PROVE  Linked(tab)
<1>0. TableType(tab) /\ Walks(tab, w) /\ tab.count \in Nat
  BY DEF Sound, TableType
<1>1. \A i \in 1 .. tab.count : w[i] \in Live(tab) /\ w[i] # NoEntry
  BY <1>0, StoredByWalk DEF Live, Slots, NoEntry
<1>2. /\ tab.head = NoEntry <=> tab.count = 0
      /\ tab.tail = NoEntry <=> tab.count = 0
      /\ tab.count # 0 => tab.head \in Live(tab) /\ tab.tail \in Live(tab)
  BY <1>0, <1>1 DEF Walks
<1>3. tab.count = 0 => Live(tab) = {}
  BY <1>0 DEF Walks, Live
<1>4. ASSUME NEW s \in Live(tab)
      PROVE  /\ IF s = tab.head THEN tab.prev[s] = NoEntry
                ELSE tab.prev[s] \in Live(tab) /\ tab.next[tab.prev[s]] = s
             /\ IF s = tab.tail THEN tab.next[s] = NoEntry
                ELSE tab.next[s] \in Live(tab) /\ tab.prev[tab.next[s]] = s
  <2>1. PICK i \in 1 .. tab.count : s = w[i]
    BY <1>0 DEF Walks, Live
  <2>2. /\ s = tab.head <=> i = 1
        /\ s = tab.tail <=> i = tab.count
    BY <1>0, <2>1 DEF Walks
  <2>3. i # 1 => i - 1 \in 1 .. tab.count /\ tab.prev[s] = w[i-1]
                 /\ tab.next[w[i-1]] = s
    BY <1>0, <2>1 DEF Walks
  <2>4. i # tab.count => i + 1 \in 1 .. tab.count /\ tab.next[s] = w[i+1]
                         /\ tab.prev[w[i+1]] = s
    BY <1>0, <2>1 DEF Walks
  <2>5. /\ i = 1 => tab.prev[s] = NoEntry
        /\ i = tab.count => tab.next[s] = NoEntry
    BY <1>0, <2>1 DEF Walks
  <2> QED
    BY <1>1, <2>2, <2>3, <2>4, <2>5
<1> QED
  BY <1>2, <1>3, <1>4 DEF Linked

\* Every variable keeps its shape: the cursor of lh_table_resize is always at
\* an entry of the old table or past its end.
THEOREM TypeCorrect == Spec => []TypeOK
<1>1. IInv => TypeOK
  <2> SUFFICES ASSUME IInv PROVE TypeOK
    OBVIOUS
  <2>1. TableType(t)
    BY DEF IInv, Sound
  <2>2. ASSUME pc = "rehash"
        PROVE  TableType(nt) /\ ent \in Live(t) \cup {NoEntry}
    <3>1. PICK w, nw : Sound(t, w) /\ Sound(nt, nw) /\ Moving(w, nw)
      BY <2>2, IInvRehash
    <3>2. nt.count # t.count => nt.count + 1 \in 1 .. t.count
      BY <3>1 DEF Moving, Sound, TableType
    <3> QED
      BY <3>1, <3>2, StoredByWalk DEF Moving, Sound
  <2> QED
    BY <2>1, <2>2 DEF IInv, TypeOK
<1> QED
  BY <1>1, Invariance, PTL

\* lh_table_lookup_entry finds every stored key, in a table of any size, with
\* any hash function, after any history of adds, deletes and resizes.
THEOREM LookupCorrect == Spec => []LookupFindsLive
<1>1. IInv => LookupFindsLive
  BY LookupFinds DEF IInv, LookupFindsLive
<1> QED
  BY <1>1, Invariance, PTL

\* The list is doubly linked through exactly the entries in use.
THEOREM ListCorrect == Spec => []ListIsLinked
<1>1. IInv => ListIsLinked
  <2> SUFFICES ASSUME IInv PROVE ListIsLinked
    OBVIOUS
  <2>1. Linked(t)
    BY WalkLinks DEF IInv
  <2>2. ASSUME pc = "rehash" PROVE Linked(nt)
    BY <2>2, IInvRehash, WalkLinks
  <2> QED
    BY <2>1, <2>2 DEF ListIsLinked
<1> QED
  BY <1>1, Invariance, PTL

\* The count kept by the table is the number of its entries.
THEOREM CountCorrect == Spec => []CountIsLive
<1>1. IInv => CountIsLive
  <2> SUFFICES ASSUME IInv PROVE CountIsLive
    OBVIOUS
  <2>1. t.count = Cardinality(Live(t))
    BY CountOfWalk DEF IInv, Sound
  <2>2. ASSUME pc = "rehash" PROVE nt.count = Cardinality(Live(nt))
    BY <2>2, IInvRehash, CountOfWalk DEF Sound
  <2> QED
    BY <2>1, <2>2 DEF CountIsLive
<1> QED
  BY <1>1, Invariance, PTL

\* The new table never reaches its own load limit while it is filled.
THEOREM ResizeOnce == Spec => []NoNestedResize
<1>1. IInv => NoNestedResize
  <2> SUFFICES ASSUME IInv, pc = "rehash", ent # NoEntry PROVE ~Loaded(nt)
    BY DEF NoNestedResize
  <2>1. PICK w, nw : Sound(t, w) /\ Sound(nt, nw) /\ Moving(w, nw)
    BY IInvRehash
  <2> QED
    BY <2>1 DEF Moving, Sound, TableType, Loaded
<1> QED
  BY <1>1, Invariance, PTL

\* The probe loop of lh_table_insert has a vacant slot to stop at.
THEOREM ProbeTerminates == Spec => []ProbeEnds
<1>1. IInv => ProbeEnds
  <2> SUFFICES ASSUME IInv PROVE ProbeEnds
    OBVIOUS
  <2>1. PICK w : Sound(t, w)
    BY DEF IInv
  <2>2. ASSUME pc = "place" \/ ~Loaded(t) PROVE Vacant(t) # {}
    <3>1. t.count < t.size
      BY <2>1, <2>2 DEF IInv, Sound, TableType, Loaded
    <3> QED
      BY <2>1, <3>1, RoomLeft DEF Sound
  <2>3. ASSUME pc = "rehash", ent # NoEntry PROVE Vacant(nt) # {}
    <3>1. PICK ww, nw : Sound(t, ww) /\ Sound(nt, nw) /\ Moving(ww, nw)
      BY <2>3, IInvRehash
    <3>2. nt.count < nt.size
      BY <3>1, <2>3 DEF Moving, Sound, TableType
    <3> QED
      BY <3>1, <3>2, RoomLeft DEF Sound
  <2> QED
    BY <2>2, <2>3 DEF ProbeEnds
<1> QED
  BY <1>1, Invariance, PTL

-----------------------------------------------------------------------------
(* The list of fields, as the links have it and as the walk has it.        *)

\* The fields from place p of the walk on.
From(tab, w, p) ==
    [i \in 1 .. tab.count + 1 - p |->
        [k |-> tab.k[w[p + i - 1]], v |-> tab.v[w[p + i - 1]]]]

\* The entry at place p of the walk, or past its end.
At(tab, w, p) == IF p <= tab.count THEN w[p] ELSE NoEntry

\* Following the links from a place of the walk one follows the walk.  The
\* recursion has one solution only: two would differ at a least number of hops.
LEMMA WalkIsWalk ==
    ASSUME NEW tab, NEW w, TableType(tab), Walks(tab, w),
           NEW p \in 1 .. tab.count + 1
    PROVE  Walk(tab, At(tab, w, p)) = [i \in 1 .. tab.count + 1 - p |-> w[p + i - 1]]
<1> DEFINE e == At(tab, w, p)
           Hops(f) == f = [i \in 0 .. tab.size |->
                              IF i = 0 THEN e
                              ELSE IF f[i-1] = NoEntry THEN NoEntry
                              ELSE tab.next[f[i-1]]]
           at == CHOOSE f : Hops(f)
           g == [i \in 0 .. tab.size |-> At(tab, w, p + i)]
<1>0. /\ tab.size \in Nat \ {0} /\ tab.count \in Nat /\ tab.count <= tab.size
      /\ p \in Nat \ {0}
  BY DEF TableType
<1>1. /\ \A i \in 1 .. tab.count : w[i] # NoEntry
      /\ \A i \in 1 .. tab.count : tab.next[w[i]] = At(tab, w, i + 1)
  <2>1. \A i \in 1 .. tab.count : w[i] \in Slots(tab)
    BY DEF Walks
  <2> QED
    BY <1>0, <2>1, SMTT(30) DEF Walks, At, Slots, NoEntry
<1>2. \A j \in 0 .. tab.size : g[j] = At(tab, w, p + j)
  OBVIOUS
<1>3. g[0] = e
  BY <1>0, <1>2
<1>4. \A i \in 1 .. tab.size :
         g[i] = IF g[i-1] = NoEntry THEN NoEntry ELSE tab.next[g[i-1]]
  <2> HIDE DEF g
  <2> SUFFICES ASSUME NEW i \in 1 .. tab.size
               PROVE  g[i] = IF g[i-1] = NoEntry THEN NoEntry ELSE tab.next[g[i-1]]
    OBVIOUS
  <2>1. /\ i \in 0 .. tab.size /\ i - 1 \in 0 .. tab.size
        /\ p + (i - 1) = p + i - 1 /\ (p + i - 1) + 1 = p + i
    BY <1>0
  <2>2. g[i] = At(tab, w, p + i) /\ g[i-1] = At(tab, w, p + i - 1)
    BY <1>2, <2>1
  <2>3. CASE p + i - 1 <= tab.count
    <3>1. p + i - 1 \in 1 .. tab.count
      BY <1>0, <2>3
    <3>2. At(tab, w, p + i - 1) = w[p + i - 1] /\ w[p + i - 1] # NoEntry
      BY <1>1, <3>1, <2>3 DEF At
    <3>3. tab.next[w[p + i - 1]] = At(tab, w, p + i)
      BY <1>1, <3>1, <2>1
    <3> QED
      BY <2>2, <3>2, <3>3
  <2>4. CASE ~(p + i - 1 <= tab.count)
    <3>1. ~(p + i <= tab.count)
      BY <1>0, <2>4
    <3> QED
      BY <2>2, <2>4, <3>1 DEF At
  <2> QED
    BY <2>3, <2>4
<1>5. Hops(g)
  <2>1. \A i \in 0 .. tab.size :
           g[i] = IF i = 0 THEN e
                  ELSE IF g[i-1] = NoEntry THEN NoEntry ELSE tab.next[g[i-1]]
    <3> HIDE DEF g, e
    <3> QED
      BY <1>0, <1>3, <1>4
  <2>2. g = [i \in 0 .. tab.size |-> g[i]]
    OBVIOUS
  <2> HIDE DEF g, e
  <2> QED
    BY <2>1, <2>2
<1>6. Hops(at)
  BY <1>5
<1>7. /\ at[0] = e
      /\ \A i \in 1 .. tab.size :
            at[i] = IF at[i-1] = NoEntry THEN NoEntry ELSE tab.next[at[i-1]]
  <2>1. \A i \in 0 .. tab.size :
           at[i] = IF i = 0 THEN e
                   ELSE IF at[i-1] = NoEntry THEN NoEntry ELSE tab.next[at[i-1]]
    <3> HIDE DEF at, e
    <3> QED
      BY <1>6
  <2> HIDE DEF at, e
  <2> QED
    BY <1>0, <2>1
<1>8. \A i \in 0 .. tab.size : at[i] = g[i]
  <2> HIDE DEF g, at, e
  <2> SUFFICES ASSUME NEW d \in 0 .. tab.size, at[d] # g[d] PROVE FALSE
    OBVIOUS
  <2> DEFINE D == {i \in 0 .. tab.size : at[i] # g[i]}
  <2>1. D \subseteq Nat /\ D # {}
    BY <1>0
  <2>2. PICK m \in D : \A i \in D : m <= i
    BY <2>1, LeastNat
  <2>3. m \in 0 .. tab.size /\ at[m] # g[m]
    BY <2>2
  <2>4. m # 0
    BY <1>3, <1>7, <2>3
  <2>5. m \in 1 .. tab.size /\ m - 1 \in 0 .. tab.size /\ m - 1 \notin D
    BY <2>2, <2>3, <2>4, <1>0
  <2>6. at[m-1] = g[m-1]
    BY <2>5
  <2> QED
    BY <1>4, <1>7, <2>3, <2>5, <2>6
<1> DEFINE steps == {i \in 0 .. tab.size : at[i] # NoEntry}
<1>9. steps = 0 .. tab.count - p
  <2> HIDE DEF at, g
  <2>1. ASSUME NEW i \in 0 .. tab.size
        PROVE  at[i] # NoEntry <=> p + i <= tab.count
    <3>1. at[i] = At(tab, w, p + i)
      BY <1>2, <1>8
    <3>2. p + i <= tab.count => p + i \in 1 .. tab.count
      BY <1>0
    <3> QED
      BY <1>1, <3>1, <3>2 DEF At
  <2>2. \A i : i \in steps <=> i \in 0 .. tab.count - p
    BY <2>1, <1>0
  <2> QED
    BY <2>2
<1>10. Cardinality(steps) = tab.count + 1 - p
  <2> HIDE DEF steps
  <2>1. 0 \in Int /\ tab.count - p \in Int
    BY <1>0
  <2>2. Cardinality(0 .. tab.count - p) =
          IF 0 > tab.count - p THEN 0 ELSE tab.count - p - 0 + 1
    BY <2>1, FS_Interval
  <2> QED
    BY <1>0, <1>9, <2>2
<1>11. Walk(tab, e) = [i \in 1 .. Cardinality(steps) |-> at[i - 1]]
  BY DEF Walk
<1>12. \A i \in 1 .. tab.count + 1 - p : at[i - 1] = w[p + i - 1]
  <2> SUFFICES ASSUME NEW i \in 1 .. tab.count + 1 - p PROVE at[i - 1] = w[p + i - 1]
    OBVIOUS
  <2>1. i - 1 \in 0 .. tab.size /\ p + (i - 1) = p + i - 1 /\ p + i - 1 <= tab.count
    BY <1>0
  <2>2. g[i - 1] = At(tab, w, p + i - 1)
    BY <1>2, <2>1
  <2> QED
    BY <2>1, <2>2, <1>8 DEF At
<1> HIDE DEF at, steps, e
<1> QED
  BY <1>10, <1>11, <1>12 DEF e

LEMMA FieldsAreFrom ==
    ASSUME NEW tab, NEW w, TableType(tab), Walks(tab, w),
           NEW p \in 1 .. tab.count + 1
    PROVE  Fields(tab, At(tab, w, p)) = From(tab, w, p)
<1> DEFINE n == tab.count + 1 - p
           ww == Walk(tab, At(tab, w, p))
<1>1. ww = [i \in 1 .. n |-> w[p + i - 1]]
  BY WalkIsWalk
<1>2. Fields(tab, At(tab, w, p)) = [i \in DOMAIN ww |-> [k |-> tab.k[ww[i]], v |-> tab.v[ww[i]]]]
  BY DEF Fields
<1> HIDE DEF ww
<1>3. DOMAIN ww = 1 .. n /\ \A i \in 1 .. n : ww[i] = w[p + i - 1]
  BY <1>1
<1> QED
  BY <1>2, <1>3 DEF From

\* The fields of a table, from its head.
LEMMA FieldsOfTable ==
    ASSUME NEW tab, NEW w, TableType(tab), Walks(tab, w)
    PROVE  Fields(tab, tab.head) = From(tab, w, 1)
<1>1. 1 \in 1 .. tab.count + 1 /\ tab.count \in Nat
  BY DEF TableType
<1>2. tab.head = At(tab, w, 1)
  BY <1>1 DEF Walks, At
<1> QED
  BY <1>1, <1>2, FieldsAreFrom

Field == [k : Key, v : Value]

\* What the list holds from a place on, place by place.
LEMMA FromIsList ==
    ASSUME NEW tab, NEW w, TableType(tab), Walks(tab, w),
           NEW p \in 1 .. tab.count + 1
    PROVE  /\ From(tab, w, p) \in Seq(Field)
           /\ Len(From(tab, w, p)) = tab.count + 1 - p
           /\ \A i \in 1 .. tab.count + 1 - p :
                 From(tab, w, p)[i] = [k |-> tab.k[w[p + i - 1]], v |-> tab.v[w[p + i - 1]]]
<1> DEFINE n == tab.count + 1 - p
<1>1. tab.count \in Nat /\ n \in Nat
  BY DEF TableType
<1>2. ASSUME NEW i \in 1 .. n
      PROVE  [k |-> tab.k[w[p + i - 1]], v |-> tab.v[w[p + i - 1]]] \in Field
  <2>1. p + i - 1 \in 1 .. tab.count
    BY <1>1
  <2>2. w[p + i - 1] \in Live(tab)
    BY <2>1, StoredByWalk
  <2>3. tab.k[w[p + i - 1]] \in Key /\ tab.v[w[p + i - 1]] \in Value
    BY <2>2 DEF Live, TableType
  <2> QED
    BY <2>3 DEF Field
<1>3. From(tab, w, p) = [i \in 1 .. n |->
                            [k |-> tab.k[w[p + i - 1]], v |-> tab.v[w[p + i - 1]]]]
  BY DEF From
<1>4. From(tab, w, p) \in [1 .. n -> Field]
  BY <1>2, <1>3
<1>5. From(tab, w, p) \in Seq(Field) /\ Len(From(tab, w, p)) = n
  BY <1>1, <1>4
<1> QED
  BY <1>3, <1>5

LEMMA WholeIsList ==
    ASSUME NEW tab, NEW w, TableType(tab), Walks(tab, w)
    PROVE  /\ From(tab, w, 1) \in Seq(Field)
           /\ Len(From(tab, w, 1)) = tab.count
           /\ \A i \in 1 .. tab.count :
                 From(tab, w, 1)[i] = [k |-> tab.k[w[i]], v |-> tab.v[w[i]]]
<1>1. tab.count \in Nat /\ 1 \in 1 .. tab.count + 1 /\ tab.count + 1 - 1 = tab.count
  BY DEF TableType
<1>2. /\ From(tab, w, 1) \in Seq(Field)
      /\ Len(From(tab, w, 1)) = tab.count + 1 - 1
      /\ \A i \in 1 .. tab.count + 1 - 1 :
            From(tab, w, 1)[i] = [k |-> tab.k[w[1 + i - 1]], v |-> tab.v[w[1 + i - 1]]]
  BY <1>1, FromIsList
<1>3. \A i \in 1 .. tab.count : 1 + i - 1 = i
  BY <1>1
<1> QED
  BY <1>1, <1>2, <1>3

\* Two lists that agree place by place are one list.
LEMMA FromEqual ==
    ASSUME NEW tab, NEW w, TableType(tab), Walks(tab, w),
           NEW new, NEW nw, TableType(new), Walks(new, nw),
           new.count = tab.count,
           \A i \in 1 .. tab.count :
              new.k[nw[i]] = tab.k[w[i]] /\ new.v[nw[i]] = tab.v[w[i]]
    PROVE  From(new, nw, 1) = From(tab, w, 1)
<1>1. tab.count \in Nat /\ 1 \in 1 .. tab.count + 1
  BY DEF TableType
<1>2. \A i \in 1 .. tab.count : 1 + i - 1 = i
  BY <1>1
<1> QED
  BY <1>1, <1>2 DEF From

-----------------------------------------------------------------------------
(* The resize and the list.                                                *)

\* Every turn of the resize loop leaves the old list whole: what was moved,
\* then what is still to be moved.
LEMMA MovedThenRest == IInv => RehashInOrder
<1> SUFFICES ASSUME IInv, pc = "rehash"
             PROVE  Fields(nt, nt.head) \o Fields(t, ent) = Fields(t, t.head)
  BY DEF RehashInOrder
<1>1. PICK w, nw : Sound(t, w) /\ Sound(nt, nw) /\ Moving(w, nw)
  BY IInvRehash
<1> DEFINE n == nt.count
           m == t.count
<1>2. TableType(t) /\ Walks(t, w) /\ TableType(nt) /\ Walks(nt, nw)
  BY <1>1 DEF Sound
<1>3. n \in Nat /\ m \in Nat /\ n <= m
  BY <1>1, <1>2 DEF TableType, Moving
<1>4. n + 1 \in 1 .. m + 1 /\ 1 \in 1 .. m + 1 /\ 1 \in 1 .. n + 1
  BY <1>3
<1>5. ent = At(t, w, n + 1)
  BY <1>1, <1>3 DEF Moving, At
<1>6. /\ Fields(nt, nt.head) = From(nt, nw, 1)
      /\ Fields(t, ent) = From(t, w, n + 1)
      /\ Fields(t, t.head) = From(t, w, 1)
  BY <1>2, <1>4, <1>5, FieldsAreFrom, FieldsOfTable
<1> DEFINE a == From(nt, nw, 1)
           b == From(t, w, n + 1)
           c == From(t, w, 1)
<1>7. /\ a \in Seq(Field) /\ Len(a) = n
      /\ \A i \in 1 .. n : a[i] = [k |-> nt.k[nw[i]], v |-> nt.v[nw[i]]]
  BY <1>2, WholeIsList
<1>8. /\ b \in Seq(Field) /\ Len(b) = m - n
      /\ \A i \in 1 .. m - n : b[i] = [k |-> t.k[w[n + i]], v |-> t.v[w[n + i]]]
  <2>1. m + 1 - (n + 1) = m - n /\ \A i \in 1 .. m - n : (n + 1) + i - 1 = n + i
    BY <1>3
  <2>2. /\ b \in Seq(Field) /\ Len(b) = m + 1 - (n + 1)
        /\ \A i \in 1 .. m + 1 - (n + 1) :
              b[i] = [k |-> t.k[w[(n + 1) + i - 1]], v |-> t.v[w[(n + 1) + i - 1]]]
    BY <1>2, <1>4, FromIsList
  <2> HIDE DEF b, m, n
  <2> QED
    BY <2>1, <2>2
<1>9. /\ c \in Seq(Field) /\ Len(c) = m
      /\ \A i \in 1 .. m : c[i] = [k |-> t.k[w[i]], v |-> t.v[w[i]]]
  BY <1>2, WholeIsList
<1>10. \A i \in 1 .. n : nt.k[nw[i]] = t.k[w[i]] /\ nt.v[nw[i]] = t.v[w[i]]
  BY <1>1 DEF Moving
<1> HIDE DEF a, b, c, n, m
<1>11. /\ a \o b \in Seq(Field) /\ Len(a \o b) = m
       /\ \A i \in 1 .. m : (a \o b)[i] = IF i <= n THEN a[i] ELSE b[i - n]
  <2>1. Len(a) + Len(b) = m
    BY <1>3, <1>7, <1>8
  <2>2. /\ a \o b \in Seq(Field) /\ Len(a \o b) = Len(a) + Len(b)
        /\ \A i \in 1 .. Len(a) + Len(b) :
              (a \o b)[i] = IF i <= Len(a) THEN a[i] ELSE b[i - Len(a)]
    BY <1>7, <1>8, ConcatProperties, ZenonT(30)
  <2> QED
    BY <2>1, <2>2, <1>7
<1>12. ASSUME NEW i \in 1 .. m
       PROVE  (a \o b)[i] = c[i]
  <2>0. c[i] = [k |-> t.k[w[i]], v |-> t.v[w[i]]]
    BY <1>9
  <2>1. CASE i <= n
    <3>1. i \in 1 .. n
      BY <2>1, <1>3
    <3>2. (a \o b)[i] = a[i]
      BY <2>1, <1>11
    <3>3. a[i] = [k |-> nt.k[nw[i]], v |-> nt.v[nw[i]]]
      BY <3>1, <1>7
    <3> QED
      BY <2>0, <3>1, <3>2, <3>3, <1>10
  <2>2. CASE ~(i <= n)
    <3>1. i - n \in 1 .. m - n /\ n + (i - n) = i
      BY <2>2, <1>3
    <3>2. (a \o b)[i] = b[i - n]
      BY <2>2, <1>11
    <3>3. b[i - n] = [k |-> t.k[w[n + (i - n)]], v |-> t.v[w[n + (i - n)]]]
      BY <3>1, <1>8
    <3> QED
      BY <2>0, <3>1, <3>2, <3>3
  <2> QED
    BY <2>1, <2>2
<1>13. a \o b = c
  BY <1>9, <1>11, <1>12, SeqEqual
<1> QED
  BY <1>6, <1>13 DEF a, b, c, n

\* A resize moves the entries one by one into the new table: at every moment
\* the entries moved and those still to be moved are the old list, so that
\* nothing is lost, doubled or reordered (lh_table_resize).
THEOREM ResizeKeepsOrder == Spec => []RehashInOrder
BY Invariance, MovedThenRest, PTL

-----------------------------------------------------------------------------
(* The table implements the ordered map.                                   *)

\* The list of a table that an insert has made longer.
LEMMA GrownAppends ==
    ASSUME NEW tab, NEW w, TableType(tab), Walks(tab, w),
           NEW new, NEW nw, TableType(new), Walks(new, nw),
           NEW x \in Key, NEW val \in Value, Grown(tab, w, new, nw, x, val)
    PROVE  From(new, nw, 1) = Append(From(tab, w, 1), [k |-> x, v |-> val])
<1> DEFINE n == tab.count
           a == From(tab, w, 1)
           b == From(new, nw, 1)
           e == [k |-> x, v |-> val]
<1>1. n \in Nat /\ new.count = n + 1 /\ e \in Field
  BY DEF TableType, Grown, Field
<1>2. /\ a \in Seq(Field) /\ Len(a) = n
      /\ \A i \in 1 .. n : a[i] = [k |-> tab.k[w[i]], v |-> tab.v[w[i]]]
  BY WholeIsList
<1>3. /\ b \in Seq(Field) /\ Len(b) = n + 1
      /\ \A i \in 1 .. n + 1 : b[i] = [k |-> new.k[nw[i]], v |-> new.v[nw[i]]]
  BY <1>1, WholeIsList
<1>4. /\ \A i \in 1 .. n : new.k[nw[i]] = tab.k[w[i]] /\ new.v[nw[i]] = tab.v[w[i]]
      /\ new.k[nw[n + 1]] = x /\ new.v[nw[n + 1]] = val
  BY DEF Grown
<1> HIDE DEF a, b, n
<1>5. /\ Append(a, e) \in Seq(Field) /\ Len(Append(a, e)) = n + 1
      /\ \A i \in 1 .. n : Append(a, e)[i] = a[i]
      /\ Append(a, e)[n + 1] = e
  BY <1>1, <1>2, AppendProperties
<1>6. ASSUME NEW i \in 1 .. n + 1
      PROVE  b[i] = Append(a, e)[i]
  <2>1. CASE i = n + 1
    BY <2>1, <1>1, <1>3, <1>4, <1>5
  <2>2. CASE i # n + 1
    <3>1. i \in 1 .. n
      BY <2>2, <1>1
    <3> QED
      BY <3>1, <1>2, <1>3, <1>4, <1>5, SMTT(30)
  <2> QED
    BY <2>1, <2>2
<1>7. b = Append(a, e)
  BY <1>3, <1>5, <1>6, SeqEqual
<1> QED
  BY <1>7 DEF a, b

\* The list of a table that a delete has made shorter.
LEMMA ShrunkRemoves ==
    ASSUME NEW tab, NEW w, TableType(tab), Walks(tab, w),
           NEW new, NEW nw, TableType(new), Walks(new, nw),
           NEW p \in 1 .. tab.count, Shrunk(tab, w, new, nw, p)
    PROVE  From(new, nw, 1) = SubSeq(From(tab, w, 1), 1, p - 1)
                              \o SubSeq(From(tab, w, 1), p + 1, Len(From(tab, w, 1)))
<1> DEFINE n == tab.count
           a == From(tab, w, 1)
           b == From(new, nw, 1)
<1>1. n \in Nat /\ new.count = n - 1 /\ p \in Nat /\ 1 <= p /\ p <= n
  BY DEF TableType, Shrunk
<1>2. /\ a \in Seq(Field) /\ Len(a) = n
      /\ \A i \in 1 .. n : a[i] = [k |-> tab.k[w[i]], v |-> tab.v[w[i]]]
  BY WholeIsList
<1>3. /\ b \in Seq(Field) /\ Len(b) = n - 1
      /\ \A i \in 1 .. n - 1 : b[i] = [k |-> new.k[nw[i]], v |-> new.v[nw[i]]]
  BY <1>1, WholeIsList
<1>4. \A i \in 1 .. n - 1 :
         LET j == IF i < p THEN i ELSE i + 1
         IN  new.k[nw[i]] = tab.k[w[j]] /\ new.v[nw[i]] = tab.v[w[j]]
  BY DEF Shrunk
<1> HIDE DEF a, b, n
<1> DEFINE c == SubSeq(a, 1, p - 1)
           d == SubSeq(a, p + 1, n)
<1>5. \A i \in 1 .. n : a[i] \in Field
  BY <1>2, ElementOfSeq
<1>6. /\ c \in Seq(Field) /\ Len(c) = p - 1
      /\ \A i \in 1 .. p - 1 : c[i] = a[i]
  <2>1. /\ 1 \in Int /\ p - 1 \in Int /\ \A i \in 1 .. p - 1 : a[i] \in Field
        /\ (p - 1) - 1 + 1 = p - 1
        /\ \A i \in 1 .. p - 1 : 1 + i - 1 = i
    BY <1>1, <1>5
  <2>2. /\ c \in Seq(Field) /\ Len(c) = (IF 1 <= p - 1 THEN (p - 1) - 1 + 1 ELSE 0)
        /\ \A i \in 1 .. (p - 1) - 1 + 1 : c[i] = a[1 + i - 1]
    BY <2>1, SubSeqProperties
  <2> HIDE DEF c
  <2> QED
    BY <1>1, <2>1, <2>2
<1>7. /\ d \in Seq(Field) /\ Len(d) = n - p
      /\ \A i \in 1 .. n - p : d[i] = a[p + i]
  <2>1. /\ p + 1 \in Int /\ n \in Int /\ \A i \in p + 1 .. n : a[i] \in Field
        /\ n - (p + 1) + 1 = n - p
        /\ \A i \in 1 .. n - p : (p + 1) + i - 1 = p + i
    BY <1>1, <1>5
  <2>2. /\ d \in Seq(Field)
        /\ Len(d) = (IF p + 1 <= n THEN n - (p + 1) + 1 ELSE 0)
        /\ \A i \in 1 .. n - (p + 1) + 1 : d[i] = a[(p + 1) + i - 1]
    BY <2>1, SubSeqProperties
  <2> HIDE DEF d
  <2> QED
    BY <1>1, <2>1, <2>2
<1> HIDE DEF c, d
<1>8. /\ c \o d \in Seq(Field) /\ Len(c \o d) = n - 1
      /\ \A i \in 1 .. n - 1 : (c \o d)[i] = IF i <= p - 1 THEN c[i] ELSE d[i - (p - 1)]
  <2>1. Len(c) + Len(d) = n - 1
    BY <1>1, <1>6, <1>7
  <2>2. /\ c \o d \in Seq(Field) /\ Len(c \o d) = Len(c) + Len(d)
        /\ \A i \in 1 .. Len(c) + Len(d) :
              (c \o d)[i] = IF i <= Len(c) THEN c[i] ELSE d[i - Len(c)]
    BY <1>6, <1>7, ConcatProperties
  <2> QED
    BY <2>1, <2>2, <1>6
<1>9. ASSUME NEW i \in 1 .. n - 1
      PROVE  b[i] = (c \o d)[i]
  <2>1. b[i] = [k |-> new.k[nw[i]], v |-> new.v[nw[i]]]
    BY <1>3
  <2>2. CASE i < p
    <3>1. i \in 1 .. n /\ i \in 1 .. p - 1 /\ i <= p - 1
      BY <2>2, <1>1
    <3>2. (c \o d)[i] = a[i]
      BY <3>1, <1>6, <1>8
    <3>3. new.k[nw[i]] = tab.k[w[i]] /\ new.v[nw[i]] = tab.v[w[i]]
      BY <2>2, <1>4
    <3> QED
      BY <2>1, <3>1, <3>2, <3>3, <1>2
  <2>3. CASE ~(i < p)
    <3>1. /\ i + 1 \in 1 .. n /\ ~(i <= p - 1)
          /\ i - (p - 1) \in 1 .. n - p /\ p + (i - (p - 1)) = i + 1
      BY <2>3, <1>1
    <3>2. (c \o d)[i] = a[i + 1]
      BY <3>1, <1>7, <1>8
    <3>3. new.k[nw[i]] = tab.k[w[i + 1]] /\ new.v[nw[i]] = tab.v[w[i + 1]]
      BY <2>3, <1>4
    <3> QED
      BY <2>1, <3>1, <3>2, <3>3, <1>2
  <2> QED
    BY <2>2, <2>3
<1>10. b = c \o d
  BY <1>3, <1>8, <1>9, SeqEqual
<1> QED
  BY <1>2, <1>10 DEF a, b, c, d

\* The list of a table in which one value was replaced.
LEMMA ReplacedInPlace ==
    ASSUME NEW tab, NEW w, Sound(tab, w), NEW p \in 1 .. tab.count, NEW val \in Value
    PROVE  From(SetValue(tab, w[p], val), w, 1) = [From(tab, w, 1) EXCEPT ![p].v = val]
<1> DEFINE n == tab.count
           s == w[p]
           new == SetValue(tab, s, val)
           a == From(tab, w, 1)
           b == From(new, w, 1)
<1>1. TableType(tab) /\ Walks(tab, w) /\ n \in Nat
  BY DEF Sound, TableType
<1>2. s \in Live(tab) /\ s \in Slots(tab)
  BY <1>1, StoredByWalk DEF Live
<1>3. TableType(new) /\ Walks(new, w)
  BY <1>2, SetValueSound DEF Sound
<1>4. new.count = n /\ new.k = tab.k /\ new.v = [tab.v EXCEPT ![s] = val]
  BY <1>1 DEF SetValue, TableType
<1>5. /\ a \in Seq(Field) /\ Len(a) = n
      /\ \A i \in 1 .. n : a[i] = [k |-> tab.k[w[i]], v |-> tab.v[w[i]]]
  BY <1>1, WholeIsList
<1>6. /\ b \in Seq(Field) /\ Len(b) = n
      /\ \A i \in 1 .. n : b[i] = [k |-> new.k[w[i]], v |-> new.v[w[i]]]
  <2> HIDE DEF new
  <2>1. /\ b \in Seq(Field) /\ Len(b) = new.count
        /\ \A i \in 1 .. new.count : b[i] = [k |-> new.k[w[i]], v |-> new.v[w[i]]]
    BY <1>3, WholeIsList
  <2> HIDE DEF b
  <2> QED
    BY <2>1, <1>4
<1>7. \A i \in 1 .. n : w[i] = s <=> i = p
  BY <1>1 DEF Walks
<1>8. \A i \in 1 .. n : w[i] \in Slots(tab) /\ new.v[w[i]] = IF i = p THEN val ELSE tab.v[w[i]]
  <2>1. \A i \in 1 .. n : w[i] \in Slots(tab)
    BY <1>1 DEF Walks
  <2>2. DOMAIN tab.v = Slots(tab)
    BY <1>1 DEF TableType
  <2> HIDE DEF new, s, n
  <2> QED
    BY <1>4, <1>7, <2>1, <2>2
<1> HIDE DEF new, a, b, s, n
<1>9. a[p] \in Field /\ p \in 1 .. n
  BY <1>5, ElementOfSeq DEF n
<1> DEFINE e == [a[p] EXCEPT !.v = val]
<1>10. e \in Field /\ e = [k |-> tab.k[w[p]], v |-> val]
  BY <1>5, <1>9 DEF Field
<1> HIDE DEF e
<1>11. /\ [a EXCEPT ![p] = e] \in Seq(Field) /\ Len([a EXCEPT ![p] = e]) = n
       /\ \A i \in 1 .. n : [a EXCEPT ![p] = e][i] = IF i = p THEN e ELSE a[i]
  BY <1>5, <1>9, <1>10, ExceptSeq
<1>12. ASSUME NEW i \in 1 .. n
       PROVE  b[i] = [a EXCEPT ![p] = e][i]
  <2>1. CASE i = p
    BY <2>1, <1>4, <1>6, <1>8, <1>10, <1>11
  <2>2. CASE i # p
    BY <2>2, <1>4, <1>5, <1>6, <1>8, <1>11
  <2> QED
    BY <2>1, <2>2
<1>13. b = [a EXCEPT ![p] = e]
  BY <1>6, <1>11, <1>12, SeqEqual
<1> QED
  BY <1>13 DEF a, b, e, new, s

\* Where the list holds a key.
LEMMA PlacesOfKey ==
    ASSUME NEW w, Sound(t, w), NEW x \in Key
    PROVE  /\ Fields(t, t.head) = From(t, w, 1)
           /\ Object!Places(x) = {i \in 1 .. t.count : t.k[w[i]] = x}
           /\ x \notin Stored(t) => Object!Places(x) = {}
<1>1. TableType(t) /\ Walks(t, w)
  BY DEF Sound
<1>2. Fields(t, t.head) = From(t, w, 1)
  BY <1>1, FieldsOfTable
<1>3. DOMAIN From(t, w, 1) = 1 .. t.count
  BY <1>1, WholeIsList, LenProperties
<1>4. \A i \in 1 .. t.count : From(t, w, 1)[i].k = t.k[w[i]]
  <2> SUFFICES ASSUME NEW i \in 1 .. t.count PROVE From(t, w, 1)[i].k = t.k[w[i]]
    OBVIOUS
  <2>1. From(t, w, 1)[i] = [k |-> t.k[w[i]], v |-> t.v[w[i]]]
    BY <1>1, WholeIsList
  <2>2. [k |-> t.k[w[i]], v |-> t.v[w[i]]].k = t.k[w[i]]
    OBVIOUS
  <2> QED
    BY <2>1, <2>2, Zenon
<1>5. Object!Places(x) = {i \in 1 .. t.count : t.k[w[i]] = x}
  BY <1>2, <1>3, <1>4 DEF Object!Places
<1>6. x \notin Stored(t) => Object!Places(x) = {}
  BY <1>1, <1>5, StoredByWalk
<1> QED
  BY <1>2, <1>5, <1>6

\* Adding an absent key, with or without a resize before it.
LEMMA InsertAppends ==
    ASSUME IInv, NEW x \in Key, NEW val \in Value, x \notin Stored(t),
           t.count < t.size, t' = Insert(t, x, val)
    PROVE  Object!Append_(x, val)
<1>1. PICK w : Sound(t, w)
  BY DEF IInv
<1>2. PICK nw : Sound(Insert(t, x, val), nw) /\ Grown(t, w, Insert(t, x, val), nw, x, val)
  BY <1>1, InsertSound DEF IInv
<1>3. /\ TableType(t) /\ Walks(t, w)
      /\ TableType(t') /\ Walks(t', nw) /\ Grown(t, w, t', nw, x, val)
  BY <1>1, <1>2 DEF Sound
<1>4. From(t', nw, 1) = Append(From(t, w, 1), [k |-> x, v |-> val])
  BY <1>3, GrownAppends
<1>5. Fields(t', t'.head) = From(t', nw, 1)
  BY <1>3, FieldsOfTable
<1>6. Fields(t, t.head) = From(t, w, 1) /\ Object!Places(x) = {}
  BY <1>1, PlacesOfKey
<1> QED
  BY <1>4, <1>5, <1>6 DEF Object!Append_

\* Replacing the value of a key that is present.
LEMMA ReplaceReplaces ==
    ASSUME IInv, NEW x \in Key, NEW val \in Value, AddReplace(x, val)
    PROVE  Object!Replace_(x, val)
<1>1. PICK w : Sound(t, w)
  BY DEF IInv
<1> DEFINE e == LookupEntry(t, x)
<1>2. e \in Live(t) /\ t.k[e] = x
  BY <1>1, LookupFinds DEF AddReplace, IInv
<1>3. PICK p \in 1 .. t.count : e = w[p]
  BY <1>1, <1>2 DEF Sound, Walks, Live
<1>4. t' = SetValue(t, w[p], val)
  BY <1>3 DEF AddReplace
<1>5. Sound(t', w)
  BY <1>1, <1>2, <1>3, <1>4, SetValueSound
<1>6. Fields(t', t'.head) = From(t', w, 1)
  BY <1>5, FieldsOfTable DEF Sound
<1>7. From(t', w, 1) = [From(t, w, 1) EXCEPT ![p].v = val]
  BY <1>1, <1>4, ReplacedInPlace
<1>8. Fields(t, t.head) = From(t, w, 1) /\ p \in Object!Places(x)
  BY <1>1, <1>2, <1>3, PlacesOfKey
<1> QED
  BY <1>6, <1>7, <1>8 DEF Object!Replace_

\* Deleting a key that is present.
LEMMA DeleteRemoves ==
    ASSUME IInv, NEW x \in Key, Delete(x)
    PROVE  Object!Delete_(x)
<1>1. PICK w : Sound(t, w)
  BY DEF IInv
<1> DEFINE e == LookupEntry(t, x)
<1>2. e \in Live(t) /\ t.k[e] = x
  BY <1>1, LookupFinds DEF Delete, IInv
<1>3. PICK nw : \E p \in 1 .. t.count :
          w[p] = e /\ Sound(DeleteEntry(t, e), nw) /\ Shrunk(t, w, DeleteEntry(t, e), nw, p)
  BY <1>1, <1>2, DeleteSound
<1>4. PICK p \in 1 .. t.count :
          w[p] = e /\ Sound(DeleteEntry(t, e), nw) /\ Shrunk(t, w, DeleteEntry(t, e), nw, p)
  BY <1>3
<1>5. t' = DeleteEntry(t, e)
  BY DEF Delete, RemoveKey
<1>6. /\ TableType(t) /\ Walks(t, w)
      /\ TableType(t') /\ Walks(t', nw) /\ Shrunk(t, w, t', nw, p)
  BY <1>1, <1>4, <1>5 DEF Sound
<1>7. Fields(t', t'.head) = From(t', nw, 1)
  BY <1>6, FieldsOfTable
<1>8. From(t', nw, 1) = SubSeq(From(t, w, 1), 1, p - 1)
                        \o SubSeq(From(t, w, 1), p + 1, Len(From(t, w, 1)))
  BY <1>6, ShrunkRemoves, ZenonT(30)
<1>9. Fields(t, t.head) = From(t, w, 1) /\ p \in Object!Places(x)
  BY <1>1, <1>2, <1>4, PlacesOfKey
<1> QED
  BY <1>7, <1>8, <1>9 DEF Object!Delete_, Object!RemoveAt

\* The exchange of tables changes no field.
LEMMA ExchangeIsInvisible ==
    ASSUME IInv, ResizeEnd
    PROVE  Fields(t', t'.head) = Fields(t, t.head)
<1>1. PICK w, nw : Sound(t, w) /\ Sound(nt, nw) /\ Moving(w, nw)
  BY IInvRehash DEF ResizeEnd
<1>2. TableType(t) /\ Walks(t, w) /\ TableType(nt) /\ Walks(nt, nw)
  BY <1>1 DEF Sound
<1>3. nt.count = t.count
  <2>1. nt.count # t.count => nt.count + 1 \in 1 .. t.count
    BY <1>1, <1>2 DEF Moving, TableType
  <2>2. nt.count # t.count => ent \in Live(t)
    BY <1>1, <1>2, <2>1, StoredByWalk DEF Moving
  <2> QED
    BY <1>1, <2>2 DEF Moving, ResizeEnd, Live, Slots, NoEntry
<1>4. t' = [nt EXCEPT !.count = nt.count]
  BY <1>3 DEF ResizeEnd
<1>5. Sound(t', nw)
  BY <1>1, <1>4, ExchangeSound
<1>6. t'.k = nt.k /\ t'.v = nt.v /\ t'.count = t.count
  BY <1>2, <1>3, <1>4 DEF TableType
<1>7. TableType(t') /\ Walks(t', nw)
  BY <1>5 DEF Sound
<1>8. \A i \in 1 .. t.count : t'.k[nw[i]] = t.k[w[i]] /\ t'.v[nw[i]] = t.v[w[i]]
  BY <1>1, <1>3, <1>6 DEF Moving
<1>9. From(t', nw, 1) = From(t, w, 1)
  BY <1>2, <1>6, <1>7, <1>8, FromEqual
<1> QED
  BY <1>2, <1>7, <1>9, FieldsOfTable

LEMMA InitRefines == Init => Object!Init
<1> SUFFICES ASSUME Init PROVE Fields(t, t.head) = <<>>
  BY DEF Object!Init
<1>1. Sound(t, <<>>) /\ t.count = 0
  BY NewTableSound, SizeAssumption DEF Init
<1>2. Fields(t, t.head) = From(t, <<>>, 1)
  BY <1>1, FieldsOfTable DEF Sound
<1>3. From(t, <<>>, 1) \in Seq(Field) /\ Len(From(t, <<>>, 1)) = 0
  BY <1>1, WholeIsList DEF Sound
<1> QED
  BY <1>2, <1>3, EmptySeq

LEMMA StepRefines == IInv /\ [Next]_vars => [Object!Next]_(Fields(t, t.head))
<1> SUFFICES ASSUME IInv, [Next]_vars
             PROVE  Object!Next \/ Fields(t, t.head)' = Fields(t, t.head)
  OBVIOUS
<1>0. PICK w : Sound(t, w)
  BY DEF IInv
<1>t. t.size \in Nat \ {0} /\ t.count \in Nat
  BY <1>0 DEF Sound, TableType
<1>1. ASSUME NEW x \in Key, NEW val \in Value, AddReplace(x, val)
      PROVE  Object!Next
  BY <1>1, ReplaceReplaces DEF Object!Next
<1>2. ASSUME NEW x \in Key, NEW val \in Value, AddNew(x, val)
      PROVE  Object!Next
  <2>1. x \notin Stored(t)
    BY <1>0, <1>2, LookupFinds DEF AddNew, IInv
  <2>2. t.count < t.size /\ t' = Insert(t, x, val)
    BY <1>2, <1>t DEF AddNew, Loaded
  <2>3. Object!Append_(x, val)
    BY <2>1, <2>2, InsertAppends
  <2> QED
    BY <2>3 DEF Object!Next
<1>3. CASE AddAfterResize
  <2>1. pending[1] \in Key /\ pending[2] \in Value /\ pending[1] \notin Stored(t)
    BY <1>3 DEF AddAfterResize, IInv
  <2>2. t.count < t.size /\ t' = Insert(t, pending[1], pending[2])
    BY <1>3 DEF AddAfterResize, IInv
  <2>3. Object!Append_(pending[1], pending[2])
    BY <2>1, <2>2, InsertAppends
  <2> QED
    BY <2>1, <2>3 DEF Object!Next
<1>4. ASSUME NEW x \in Key, Delete(x)
      PROVE  Object!Next
  BY <1>4, DeleteRemoves DEF Object!Next
<1>5. CASE ResizeEnd
  BY <1>5, ExchangeIsInvisible
<1>6. CASE t' = t
  BY <1>6 DEF Fields, Walk
<1> QED
  BY <1>1, <1>2, <1>3, <1>4, <1>5, <1>6 DEF Next, ResizeBegin, ResizeMove, vars

\* The object implements the ordered map its client was promised: whatever
\* the probes and the resizes do underneath, adding appends, adding again
\* replaces in place, and deleting removes one field (json_object_object_add,
\* json_object_object_del).
THEOREM ImplementsOrderedMap == Spec => RefinesOrderedMap
<1>1. Init => Object!Init
  BY InitRefines
<1>2. IInv /\ [Next]_vars => [Object!Next]_(Fields(t, t.head))
  BY StepRefines
<1> QED
  BY <1>1, <1>2, Invariance, PTL DEF Spec, RefinesOrderedMap, Object!Spec

-----------------------------------------------------------------------------
(***************************************************************************)
(* The loops over the fields of an object.                                 *)
(*                                                                         *)
(* What is inductive: in the walk through the table's list there is a      *)
(* place q at which the loop goes on.  Behind q lies what the loop has     *)
(* handed out (or the body deleted), from q on what it still owes.         *)
(***************************************************************************)
\* The body keeps away from the entry the json-c loop has already read.
Spared == style = "json_c" => SparesNext

Seen == {seen[i] : i \in DOMAIN seen}

\* The keys at the places of the walk from q on.
KeysFrom(tab, w, q) == {tab.k[w[j]] : j \in q .. tab.count}

\* Entry e was deleted: no successor, and a tombstone for a key.
Lost(e) == e \in Slots(t) /\ t.k[e] = Freed /\ t.next[e] = NoEntry

Handed ==
    /\ seen \in Seq(Key \cup {Freed})
    /\ NoKeyTwice
    /\ Spared => Seen \subseteq Key

Ahead(w, q) ==
    /\ q \in 1 .. t.count + 1
    /\ Seen \cap KeysFrom(t, w, q) = {}
    /\ Spared /\ ~cut => KeysFrom(t, w, q) = owed \ Seen

\* Where the locals of the loop stand when it goes on at place q.
AfterAt(w, q) ==
    /\ \/ after = At(t, w, q)
       \/ ~SparesNext /\ q = t.count + 1 /\ Lost(after)
    /\ Freed \in Seen => after = NoEntry

CursorAt(w, q) ==
    \/ q > 1 /\ cursor = w[q - 1]
    \/ style = "ag" /\ cut /\ q = t.count + 1 /\ Lost(cursor)

Position(w, q) ==
    IF style = "json_c" THEN AfterAt(w, q) ELSE CursorAt(w, q)

InLoop == \E w : Sound(t, w) /\ \E q : Ahead(w, q) /\ Position(w, q)

IterInv ==
    /\ IInv
    /\ style \in {"ag", "json_c", "pair"}
    /\ loop \in {"none", "body", "done"}
    /\ Handed
    /\ loop = "none" => seen = <<>> /\ ~cut
    /\ loop = "body" => pc = "idle" /\ InLoop
    /\ loop = "done" /\ Spared /\ ~cut => owed \subseteq Seen

-----------------------------------------------------------------------------
(* Places of a walk.                                                       *)

\* The keys along the walk are distinct.
LEMMA KeysDiffer ==
    ASSUME NEW tab, NEW w, Sound(tab, w), NEW i \in 1 .. tab.count, NEW j \in 1 .. tab.count
    PROVE  /\ w[i] \in Live(tab) /\ w[i] \in Slots(tab) /\ w[i] # NoEntry
           /\ tab.k[w[i]] \in Key
           /\ tab.k[w[i]] = tab.k[w[j]] => i = j
<1>1. TableType(tab) /\ Walks(tab, w) /\ Findable(tab)
  BY DEF Sound
<1>2. w[i] \in Live(tab) /\ w[j] \in Live(tab)
  BY <1>1, StoredByWalk
<1>3. tab.k[w[i]] = tab.k[w[j]] => w[j] = w[i]
  BY <1>2, <1>1 DEF Findable, Live
<1> QED
  BY <1>1, <1>2, <1>3 DEF Walks, Live, Slots, NoEntry

\* The successor of an entry is at the next place.
LEMMA NextIsAt ==
    ASSUME NEW tab, NEW w, Sound(tab, w), NEW q \in 1 .. tab.count
    PROVE  tab.next[w[q]] = At(tab, w, q + 1)
<1>1. Walks(tab, w) /\ tab.count \in Nat
  BY DEF Sound, TableType
<1> QED
  BY <1>1 DEF Walks, At

\* Going on one place leaves the key of that place behind.
LEMMA KeysFromNext ==
    ASSUME NEW tab, NEW w, Sound(tab, w), NEW q \in 1 .. tab.count
    PROVE  /\ tab.k[w[q]] \in KeysFrom(tab, w, q)
           /\ KeysFrom(tab, w, q + 1) = KeysFrom(tab, w, q) \ {tab.k[w[q]]}
<1>1. tab.count \in Nat
  BY DEF Sound, TableType
<1>2. tab.k[w[q]] \in KeysFrom(tab, w, q)
  BY <1>1 DEF KeysFrom
<1>3. ASSUME NEW x \in KeysFrom(tab, w, q + 1)
      PROVE  x \in KeysFrom(tab, w, q) /\ x # tab.k[w[q]]
  <2>1. PICK j \in q + 1 .. tab.count : x = tab.k[w[j]]
    BY <1>3 DEF KeysFrom
  <2>2. j \in q .. tab.count /\ j \in 1 .. tab.count /\ j # q
    BY <1>1
  <2> QED
    BY <2>1, <2>2, KeysDiffer DEF KeysFrom
<1>4. ASSUME NEW x \in KeysFrom(tab, w, q), x # tab.k[w[q]]
      PROVE  x \in KeysFrom(tab, w, q + 1)
  <2>1. PICK j \in q .. tab.count : x = tab.k[w[j]]
    BY <1>4 DEF KeysFrom
  <2>2. j \in q + 1 .. tab.count
    BY <1>1, <1>4, <2>1
  <2> QED
    BY <2>1, <2>2 DEF KeysFrom
<1> QED
  BY <1>2, <1>3, <1>4

\* All stored keys are ahead of the first place, none of the last.
LEMMA KeysFromEnds ==
    ASSUME NEW tab, NEW w, Sound(tab, w)
    PROVE  /\ KeysFrom(tab, w, 1) = KeysOf(tab)
           /\ KeysFrom(tab, w, tab.count + 1) = {}
<1>1. Walks(tab, w) /\ TableType(tab) /\ tab.count \in Nat
  BY DEF Sound, TableType
<1>2. tab.count + 1 .. tab.count = {}
  BY <1>1
<1>3. KeysFrom(tab, w, 1) \subseteq KeysOf(tab)
  BY <1>1, StoredByWalk DEF KeysFrom, KeysOf, Stored
<1>4. KeysOf(tab) \subseteq KeysFrom(tab, w, 1)
  <2>1. ASSUME NEW x \in KeysOf(tab)
        PROVE  \E i \in 1 .. tab.count : x = tab.k[w[i]]
    <3>1. x \in Stored(tab)
      BY <2>1 DEF KeysOf, Stored
    <3> QED
      BY <1>1, <3>1, StoredByWalk
  <2> QED
    BY <2>1 DEF KeysFrom
<1> QED
  BY <1>2, <1>3, <1>4 DEF KeysFrom

\* Where the loop goes on after the entry at place p was deleted.
PlaceAfter(q, p) == IF p < q THEN q - 1 ELSE q

\* A delete takes one key out of what lies ahead, and shifts the places.
LEMMA ShrunkPlaces ==
    ASSUME NEW tab, NEW w, Sound(tab, w), NEW new, NEW nw,
           NEW p \in 1 .. tab.count, Shrunk(tab, w, new, nw, p),
           NEW q \in 1 .. tab.count + 1
    PROVE  /\ PlaceAfter(q, p) \in 1 .. new.count + 1
           /\ KeysFrom(new, nw, PlaceAfter(q, p)) = KeysFrom(tab, w, q) \ {tab.k[w[p]]}
           /\ q \in 1 .. tab.count /\ q # p =>
                 PlaceAfter(q, p) \in 1 .. new.count /\ nw[PlaceAfter(q, p)] = w[q]
           /\ q = tab.count + 1 => PlaceAfter(q, p) = new.count + 1
<1> DEFINE r == PlaceAfter(q, p)
           n == tab.count
<1>1. n \in Nat /\ p \in Nat /\ q \in Nat /\ 1 <= p /\ p <= n /\ 1 <= q /\ q <= n + 1
      /\ new.count = n - 1
  BY DEF Sound, TableType, Shrunk
<1>2. r \in 1 .. new.count + 1 /\ (q = n + 1 => r = new.count + 1)
  BY <1>1 DEF PlaceAfter
<1>3. \A i \in 1 .. n - 1 :
         /\ i < p => nw[i] = w[i] /\ new.k[nw[i]] = tab.k[w[i]]
         /\ ~(i < p) => nw[i] = w[i + 1] /\ new.k[nw[i]] = tab.k[w[i + 1]]
  BY DEF Shrunk
<1>4. ASSUME q \in 1 .. n, q # p PROVE r \in 1 .. new.count /\ nw[r] = w[q]
  <2>1. CASE p < q
    <3>1. r = q - 1 /\ r \in 1 .. n - 1 /\ ~(r < p) /\ r + 1 = q
      BY <2>1, <1>1, <1>4 DEF PlaceAfter
    <3> QED
      BY <3>1, <1>1, <1>3
  <2>2. CASE ~(p < q)
    <3>1. r = q /\ r \in 1 .. n - 1 /\ r < p
      BY <2>2, <1>1, <1>4 DEF PlaceAfter
    <3> QED
      BY <3>1, <1>1, <1>3
  <2> QED
    BY <2>1, <2>2
<1>5. ASSUME NEW x \in KeysFrom(new, nw, r)
      PROVE  x \in KeysFrom(tab, w, q) /\ x # tab.k[w[p]]
  <2>1. PICK i \in r .. n - 1 : x = new.k[nw[i]]
    BY <1>1, <1>5 DEF KeysFrom
  <2>2. i \in 1 .. n - 1
    BY <1>1, <1>2
  <2>3. \E j \in q .. n : j # p /\ x = tab.k[w[j]]
    <3>1. CASE i < p
      <4>1. i \in q .. n /\ i # p
        BY <3>1, <1>1, <2>2 DEF PlaceAfter
      <4> QED
        BY <4>1, <3>1, <2>1, <2>2, <1>3
    <3>2. CASE ~(i < p)
      <4>1. i + 1 \in q .. n /\ i + 1 # p
        BY <3>2, <1>1, <2>2 DEF PlaceAfter
      <4> QED
        BY <4>1, <3>2, <2>1, <2>2, <1>3
    <3> QED
      BY <3>1, <3>2
  <2>4. PICK j \in q .. n : j # p /\ x = tab.k[w[j]]
    BY <2>3
  <2>5. j \in 1 .. n
    BY <1>1
  <2> QED
    BY <2>4, <2>5, KeysDiffer DEF KeysFrom
<1>6. ASSUME NEW x \in KeysFrom(tab, w, q), x # tab.k[w[p]]
      PROVE  x \in KeysFrom(new, nw, r)
  <2>1. PICK j \in q .. n : x = tab.k[w[j]]
    BY <1>6 DEF KeysFrom
  <2>2. j # p /\ j \in 1 .. n
    BY <1>1, <1>6, <2>1
  <2>3. CASE j < p
    <3>1. j \in r .. n - 1 /\ j \in 1 .. n - 1
      BY <2>3, <1>1, <2>2 DEF PlaceAfter
    <3>2. x = new.k[nw[j]]
      BY <2>1, <2>3, <3>1, <1>3
    <3> QED
      BY <3>1, <3>2, <1>1 DEF KeysFrom
  <2>4. CASE ~(j < p)
    <3>1. j - 1 \in r .. n - 1 /\ j - 1 \in 1 .. n - 1 /\ ~(j - 1 < p) /\ (j - 1) + 1 = j
      BY <2>4, <1>1, <2>2 DEF PlaceAfter
    <3>2. x = new.k[nw[j - 1]]
      BY <2>1, <3>1, <1>3
    <3> QED
      BY <3>1, <3>2, <1>1 DEF KeysFrom
  <2> QED
    BY <2>3, <2>4
<1> QED
  BY <1>2, <1>4, <1>5, <1>6

\* What a delete leaves of the entry it deletes, and of those deleted before.
LEMMA DeleteLeaves ==
    ASSUME NEW tab, NEW w, Sound(tab, w), NEW s \in Live(tab)
    PROVE  LET new == DeleteEntry(tab, s)
           IN  /\ new.size = tab.size
               /\ new.k[s] = Freed /\ new.next[s] = NoEntry
               /\ \A r \in Slots(tab) \ Live(tab) :
                     new.k[r] = tab.k[r] /\ new.next[r] = tab.next[r]
<1> DEFINE new == DeleteEntry(tab, s)
<1>1. TableType(tab) /\ Linked(tab) /\ s \in Slots(tab)
  BY WalkLinks DEF Sound, Live
<1>2. /\ new.size = tab.size
      /\ new.k = [tab.k EXCEPT ![s] = Freed]
      /\ new.next = NextWithout(tab, s)
  BY DEF DeleteEntry
<1>3. s # tab.head => tab.prev[s] \in Live(tab)
  BY <1>1 DEF Linked
<1>4. DOMAIN tab.k = Slots(tab) /\ DOMAIN tab.next = Slots(tab)
  BY <1>1 DEF TableType
<1>5. NextWithout(tab, s)[s] = NoEntry
  BY <1>1, <1>4 DEF NextWithout
<1>6. ASSUME NEW r \in Slots(tab) \ Live(tab)
      PROVE  NextWithout(tab, s)[r] = tab.next[r]
  <2>1. CASE s = tab.head
    BY <2>1, <1>4 DEF NextWithout
  <2>2. CASE s # tab.head
    BY <2>2, <1>3, <1>4 DEF NextWithout
  <2> QED
    BY <2>1, <2>2
<1> HIDE DEF new
<1>7. /\ new.k[s] = Freed /\ new.next[s] = NoEntry
      /\ \A r \in Slots(tab) \ Live(tab) :
            new.k[r] = tab.k[r] /\ new.next[r] = tab.next[r]
  BY <1>1, <1>2, <1>4, <1>5, <1>6
<1> QED
  BY <1>2, <1>7 DEF new

-----------------------------------------------------------------------------
(* The steps.                                                              *)

\* The step of the table under every step of the loop.
LEMMA TableStep == IterStep => [Next]_vars
BY DEF IterStep, Build, IterBegin, IterNext, BodyDelete, BodyReplace, Ended,
       Next, allVars, vars

\* Handing out a key the loop has not handed out yet.
LEMMA HandOut ==
    ASSUME Handed, style' = style, NEW x \in Key \cup {Freed}, x \notin Seen,
           x = Freed => ~Spared, seen' = Append(seen, x)
    PROVE  Handed' /\ Seen' = Seen \cup {x}
<1> DEFINE S == Key \cup {Freed}
           n == Len(seen)
<1>1. seen \in Seq(S) /\ n \in Nat /\ DOMAIN seen = 1 .. n
  BY LenProperties DEF Handed
<1>2. /\ seen' \in Seq(S) /\ Len(seen') = n + 1
      /\ \A i \in 1 .. n : seen'[i] = seen[i]
      /\ seen'[n + 1] = x
  BY <1>1, AppendProperties
<1> HIDE DEF S
<1>3. DOMAIN seen' = 1 .. n + 1
  BY <1>2, LenProperties
<1>4. Seen' = Seen \cup {x}
  <2>1. ASSUME NEW y \in Seen' PROVE y \in Seen \cup {x}
    <3>1. PICK i \in 1 .. n + 1 : y = seen'[i]
      BY <1>3, <2>1 DEF Seen
    <3>2. i \in 1 .. n \/ i = n + 1
      BY <1>1
    <3> QED
      BY <1>1, <1>2, <3>1, <3>2 DEF Seen
  <2>2. ASSUME NEW y \in Seen PROVE y \in Seen'
    <3>1. PICK i \in 1 .. n : y = seen[i]
      BY <1>1, <2>2 DEF Seen
    <3>2. i \in 1 .. n + 1 /\ y = seen'[i]
      BY <1>1, <1>2, <3>1
    <3> QED
      BY <1>3, <3>2 DEF Seen
  <2>3. x \in Seen'
    <3>1. n + 1 \in 1 .. n + 1
      BY <1>1
    <3> QED
      BY <1>2, <1>3, <3>1 DEF Seen
  <2> QED
    BY <2>1, <2>2, <2>3
<1>5. NoKeyTwice'
  <2> SUFFICES ASSUME NEW i \in 1 .. n + 1, NEW j \in 1 .. n + 1, seen'[i] = seen'[j]
               PROVE  i = j
    BY <1>3 DEF NoKeyTwice
  <2>1. (i \in 1 .. n \/ i = n + 1) /\ (j \in 1 .. n \/ j = n + 1)
    BY <1>1
  <2>2. \A l \in 1 .. n : seen[l] \in Seen
    BY <1>1 DEF Seen
  <2> QED
    BY <1>1, <1>2, <2>1, <2>2 DEF Handed, NoKeyTwice
<1>6. Spared' => Seen' \subseteq Key
  BY <1>4 DEF Handed, Spared
<1> QED
  BY <1>2, <1>4, <1>5, <1>6 DEF Handed, S

\* Testing the loop condition on the entry at place q, the table at rest.
LEMMA TestKeeps ==
    ASSUME IterInv, IInv', pc' = "idle", style' = style, t' = t, hash' = hash,
           NEW w, Sound(t, w), NEW q \in 1 .. t.count + 1,
           Handed, Seen \cap KeysFrom(t, w, q) = {},
           Spared /\ ~cut => KeysFrom(t, w, q) = owed' \ Seen,
           At(t, w, q) # NoEntry => Freed \notin Seen,
           Test(At(t, w, q))
    PROVE  IterInv'
<1> DEFINE e == At(t, w, q)
<1>1. t.count \in Nat
  BY DEF Sound, TableType
<1>2. Sound(t, w)'
  BY SoundPrimed
<1>3. CASE Admits(t, e)
  <2>1. e # NoEntry
    BY <1>3 DEF Admits
  <2>2. q \in 1 .. t.count /\ e = w[q]
    BY <1>1, <2>1 DEF At
  <2>3. e \in Slots(t) /\ t.k[e] \in Key /\ t.next[e] = At(t, w, q + 1)
    BY <2>2, KeysDiffer, NextIsAt
  <2>4. /\ t.k[e] \in KeysFrom(t, w, q)
        /\ KeysFrom(t, w, q + 1) = KeysFrom(t, w, q) \ {t.k[e]}
    BY <2>2, KeysFromNext
  <2>5. /\ loop' = "body" /\ cursor' = e /\ cut' = cut
        /\ after' = IF style = "json_c" THEN t.next[e] ELSE NoEntry
        /\ seen' = Append(seen, t.k[e])
    BY <1>3 DEF Test
  <2>6. t.k[e] \notin Seen /\ t.k[e] # Freed
    BY <2>3, <2>4, SentinelAssumption
  <2> HIDE DEF e
  <2>7. Handed' /\ Seen' = Seen \cup {t.k[e]}
    BY <2>3, <2>5, <2>6, HandOut
  <2>8. q + 1 \in 1 .. t.count + 1
    BY <1>1, <2>2
  <2>9. KeysFrom(t, w, q + 1)' = KeysFrom(t, w, q + 1)
    BY DEF KeysFrom
  <2>10. Ahead(w, q + 1)'
    <3>1. Seen' \cap KeysFrom(t, w, q + 1) = {}
      BY <2>4, <2>7
    <3>2. Spared /\ ~cut => KeysFrom(t, w, q + 1) = owed' \ Seen'
      BY <2>4, <2>7
    <3>3. Spared' = Spared
      BY DEF Spared
    <3> QED
      BY <2>5, <2>8, <2>9, <3>1, <3>2, <3>3 DEF Ahead
  <2>11. Position(w, q + 1)'
    <3>1. CASE style = "json_c"
      <4>1. after' = At(t, w, q + 1)'
        BY <3>1, <2>3, <2>5 DEF At
      <4>2. Freed \notin Seen'
        BY <2>1, <2>6, <2>7 DEF e
      <4> QED
        BY <3>1, <4>1, <4>2 DEF Position, AfterAt
    <3>2. CASE style # "json_c"
      <4>1. q + 1 > 1 /\ cursor' = w[(q + 1) - 1]
        BY <1>1, <2>2, <2>5
      <4> QED
        BY <3>2, <4>1 DEF Position, CursorAt
    <3> QED
      BY <3>1, <3>2
  <2>12. InLoop'
    BY <1>2, <2>10, <2>11 DEF InLoop
  <2> QED
    BY <2>5, <2>7, <2>12 DEF IterInv
<1>4. CASE ~Admits(t, e)
  <2>1. /\ loop' = "done" /\ cut' = (cut \/ e # NoEntry) /\ seen' = seen
    BY <1>4 DEF Test
  <2>2. Handed' /\ Seen' = Seen /\ Spared' = Spared
    BY <2>1 DEF Handed, Seen, NoKeyTwice, Spared
  <2>3. Spared /\ ~cut' => owed' \subseteq Seen
    <3> SUFFICES ASSUME Spared, ~cut' PROVE owed' \subseteq Seen
      OBVIOUS
    <3>1. ~cut /\ At(t, w, q) = NoEntry
      BY <2>1
    <3>2. ~(q \in 1 .. t.count)
      BY <3>1, KeysDiffer DEF At
    <3>3. q = t.count + 1
      BY <3>2, <1>1
    <3> QED
      BY <3>1, <3>3, KeysFromEnds
  <2> QED
    BY <2>1, <2>2, <2>3 DEF IterInv
<1> QED
  BY <1>3, <1>4

\* The loop begins at the head of the list.
LEMMA BeginKeeps == ASSUME IterInv, IInv', IterBegin PROVE IterInv'
<1>1. PICK w : Sound(t, w)
  BY DEF IterInv, IInv
<1>2. /\ pc' = "idle" /\ style' = style /\ t' = t /\ hash' = hash
      /\ owed' = KeysOf(t) /\ seen = <<>> /\ ~cut /\ Test(t.head)
  BY DEF IterBegin, IterInv, vars
<1>3. t.head = At(t, w, 1) /\ 1 \in 1 .. t.count + 1
  BY <1>1 DEF Sound, TableType, Walks, At
<1>4. Seen = {}
  BY <1>2 DEF Seen
<1>5. KeysFrom(t, w, 1) = owed' \ Seen
  BY <1>1, <1>2, <1>4, KeysFromEnds
<1> QED
  BY <1>1, <1>2, <1>3, <1>4, <1>5, TestKeeps DEF IterInv

\* The loop goes on at the place it has come to.
LEMMA NextKeeps == ASSUME IterInv, IInv', IterNext PROVE IterInv'
<1>1. PICK w : Sound(t, w) /\ \E q : Ahead(w, q) /\ Position(w, q)
  BY DEF IterInv, InLoop, IterNext
<1>2. PICK q : Ahead(w, q) /\ Position(w, q)
  BY <1>1
<1> DEFINE e == IF style = "json_c" THEN after ELSE t.next[cursor]
<1>3. /\ pc' = "idle" /\ style' = style /\ t' = t /\ hash' = hash /\ owed' = owed
      /\ Test(e)
  BY DEF IterNext, vars
<1>4. /\ q \in 1 .. t.count + 1 /\ t.count \in Nat
      /\ Seen \cap KeysFrom(t, w, q) = {}
      /\ Spared /\ ~cut => KeysFrom(t, w, q) = owed \ Seen
  BY <1>1, <1>2 DEF Ahead, Sound, TableType
<1>5. CASE e = At(t, w, q)
  <2>1. At(t, w, q) # NoEntry => Freed \notin Seen
    <3>1. CASE style = "json_c"
      BY <3>1, <1>2, <1>5 DEF Position, AfterAt
    <3>2. CASE style # "json_c"
      BY <3>2, SentinelAssumption DEF IterInv, Handed, Spared
    <3> QED
      BY <3>1, <3>2
  <2> QED
    BY <1>1, <1>3, <1>4, <1>5, <2>1, TestKeeps DEF IterInv
<1>6. CASE style # "json_c"
  <2>1. CASE q > 1 /\ cursor = w[q - 1]
    <3>1. q - 1 \in 1 .. t.count /\ (q - 1) + 1 = q
      BY <2>1, <1>4
    <3>2. e = At(t, w, q)
      BY <3>1, <2>1, <1>1, <1>6, NextIsAt
    <3> QED
      BY <3>2, <1>5
  <2>2. CASE q = t.count + 1 /\ Lost(cursor)
    <3>1. e = At(t, w, q)
      BY <2>2, <1>4, <1>6 DEF At, Lost
    <3> QED
      BY <3>1, <1>5
  <2> QED
    BY <1>2, <1>6, <2>1, <2>2 DEF Position, CursorAt
<1>7. CASE style = "json_c" /\ ~SparesNext /\ q = t.count + 1 /\ Lost(after)
  <2>1. /\ e = after /\ e # NoEntry /\ e \in Slots(t)
        /\ t.k[e] = Freed /\ t.next[e] = NoEntry /\ ~Spared
    BY <1>7 DEF Lost, Spared, Slots, NoEntry
  <2>2. /\ loop' = "body" /\ after' = NoEntry /\ cut' = cut
        /\ seen' = Append(seen, Freed)
    BY <1>3, <1>7, <2>1 DEF Test, Admits
  <2>3. Freed \notin Seen
    BY <1>2, <1>7, <2>1 DEF Position, AfterAt
  <2>4. Handed' /\ Seen' = Seen \cup {Freed}
    BY <1>3, <2>1, <2>2, <2>3, HandOut DEF IterInv
  <2>5. Ahead(w, q)'
    <3>1. KeysFrom(t, w, q)' = {}
      <4>1. KeysFrom(t, w, q) = {}
        BY <1>1, <1>7, KeysFromEnds
      <4>2. t'.k = t.k /\ t'.count = t.count
        BY <1>3
      <4>3. QED
        BY <4>1, <4>2 DEF KeysFrom
    <3> QED
      BY <1>3, <1>4, <2>1, <3>1 DEF Ahead, Spared
  <2>6. Position(w, q)'
    BY <1>3, <1>4, <1>7, <2>2 DEF Position, AfterAt, At
  <2>7. Sound(t, w)'
    BY <1>1, <1>3, SoundPrimed
  <2> QED
    BY <1>3, <2>2, <2>4, <2>5, <2>6, <2>7 DEF IterInv, InLoop
<1> QED
  BY <1>2, <1>5, <1>6, <1>7 DEF Position, AfterAt

\* What changes neither the links nor the keys nor the loop's variables
\* leaves the loop where it is.
LEMMA ReplaceKeeps ==
    ASSUME IterInv, IInv', NEW x \in Key, NEW val \in Value, BodyReplace(x, val)
    PROVE  IterInv'
<1>1. PICK w : Sound(t, w) /\ \E q : Ahead(w, q) /\ Position(w, q)
  BY DEF IterInv, InLoop, BodyReplace
<1>2. PICK q : Ahead(w, q) /\ Position(w, q)
  BY <1>1
<1> DEFINE e == LookupEntry(t, x)
<1>3. e \in Live(t)
  BY <1>1, LookupFinds DEF BodyReplace, AddReplace, IterInv, IInv
<1>4. /\ t' = SetValue(t, e, val) /\ hash' = hash /\ pc' = "idle"
      /\ UNCHANGED iterVars
  BY DEF BodyReplace, AddReplace
<1>5. t'.count = t.count /\ t'.k = t.k /\ t'.next = t.next /\ t'.size = t.size
  BY <1>1, <1>4 DEF SetValue, Sound, TableType
<1>6. Sound(t', w)
  BY <1>1, <1>3, <1>4, SetValueSound
<1>7. Sound(t, w)'
  BY <1>4, <1>6, SoundPrimed
<1>8. Seen' = Seen /\ Spared' = Spared /\ Handed' = Handed
  BY <1>4 DEF iterVars, Seen, Spared, Handed, NoKeyTwice
<1>9. /\ KeysFrom(t, w, q)' = KeysFrom(t, w, q) /\ At(t, w, q)' = At(t, w, q)
      /\ Lost(after)' = Lost(after) /\ Lost(cursor)' = Lost(cursor)
  BY <1>4, <1>5 DEF KeysFrom, At, Lost, Slots, iterVars
<1>10. Ahead(w, q)'
  BY <1>2, <1>4, <1>5, <1>8, <1>9 DEF Ahead, iterVars
<1>11. Position(w, q)'
  BY <1>2, <1>4, <1>5, <1>8, <1>9 DEF Position, AfterAt, CursorAt, iterVars
<1> QED
  BY <1>4, <1>7, <1>8, <1>10, <1>11 DEF IterInv, InLoop, BodyReplace, iterVars

\* The body deletes an entry: behind the loop, ahead of it, or the one it is
\* at.
LEMMA DeleteKeeps ==
    ASSUME IterInv, IInv', NEW x \in Key, BodyDelete(x)
    PROVE  IterInv'
<1>1. PICK w : Sound(t, w) /\ \E q : Ahead(w, q) /\ Position(w, q)
  BY DEF IterInv, InLoop, BodyDelete
<1>2. PICK q : Ahead(w, q) /\ Position(w, q)
  BY <1>1
<1>s. PICK s : s = LookupEntry(t, x)
  OBVIOUS
<1>3. s \in Live(t) /\ t.k[s] = x
  BY <1>1, <1>s, LookupFinds DEF BodyDelete, Delete, IterInv, IInv
<1>n. PICK new : new = DeleteEntry(t, s)
  OBVIOUS
<1>4. PICK nw : \E p \in 1 .. t.count :
          w[p] = s /\ Sound(new, nw) /\ Shrunk(t, w, new, nw, p)
  BY <1>1, <1>3, <1>n, DeleteSound
<1>5. PICK p \in 1 .. t.count : w[p] = s /\ Sound(new, nw) /\ Shrunk(t, w, new, nw, p)
  BY <1>4
<1>6. /\ t' = new /\ hash' = hash /\ pc = "idle" /\ pc' = "idle" /\ loop = "body"
      /\ owed' = owed \ {x} /\ cut' = (cut \/ (style = "ag" /\ t.k[cursor] = x))
      /\ UNCHANGED <<style, loop, cursor, after, seen>>
  BY <1>s, <1>n DEF BodyDelete, Delete, RemoveKey
<1>7. /\ new.size = t.size /\ new.k[s] = Freed /\ new.next[s] = NoEntry
      /\ \A r \in Slots(t) \ Live(t) : new.k[r] = t.k[r] /\ new.next[r] = t.next[r]
  BY <1>1, <1>3, <1>n, DeleteLeaves
<1>8. /\ q \in 1 .. t.count + 1 /\ t.count \in Nat
      /\ Seen \cap KeysFrom(t, w, q) = {}
      /\ Spared /\ ~cut => KeysFrom(t, w, q) = owed \ Seen
  BY <1>1, <1>2 DEF Ahead, Sound, TableType
<1>9. Sound(t, nw)'
  <2>1. Sound(t', nw)
    BY <1>5, <1>6
  <2> QED
    BY <2>1, <1>6, SoundPrimed
<1>10. /\ Seen' = Seen /\ Spared' = Spared /\ Handed' = Handed
       /\ \A r : KeysFrom(t, nw, r)' = KeysFrom(new, nw, r)
       /\ \A r : At(t, nw, r)' = At(new, nw, r)
  BY <1>6 DEF Seen, Spared, Handed, NoKeyTwice, KeysFrom, At
\* An entry deleted before stays as it is, and the one deleted now joins it.
<1>11. /\ \A r : Lost(r) => Lost(r)'
       /\ Lost(s)'
  <2>1. ASSUME NEW r, Lost(r) PROVE Lost(r)'
    <3>1. r \in Slots(t) \ Live(t)
      BY <2>1, SentinelAssumption DEF Lost, Live
    <3> QED
      BY <2>1, <3>1, <1>6, <1>7 DEF Lost, Slots
  <2>2. Lost(s)'
    BY <1>3, <1>6, <1>7 DEF Lost, Slots, Live
  <2> QED
    BY <2>1, <2>2
\* Either the loop goes on, at the place that has taken the place of q ...
<1> DEFINE r == PlaceAfter(q, p)
<1>12. /\ r \in 1 .. new.count + 1
       /\ KeysFrom(new, nw, r) = KeysFrom(t, w, q) \ {x}
       /\ q \in 1 .. t.count /\ q # p => r \in 1 .. new.count /\ nw[r] = w[q]
       /\ q = t.count + 1 => r = new.count + 1
  BY <1>1, <1>3, <1>5, <1>8, ShrunkPlaces
<1>13. new.count \in Nat /\ new.count = t.count - 1
  BY <1>5, <1>8 DEF Shrunk, Sound, TableType
<1>14. Ahead(nw, r)'
  <2>1. r \in 1 .. t'.count + 1
    BY <1>6, <1>12
  <2>2. Seen' \cap KeysFrom(t, nw, r)' = {}
    BY <1>8, <1>10, <1>12
  <2>3. Spared' /\ ~cut' => KeysFrom(t, nw, r)' = owed' \ Seen'
    BY <1>6, <1>8, <1>10, <1>12
  <2> HIDE DEF r
  <2> QED
    BY <2>1, <2>2, <2>3 DEF Ahead
\* ... or it has lost its place, and the next step ends it.
<1> DEFINE z == new.count + 1
<1>15. (Spared => cut') => Ahead(nw, z)'
  <2>1. KeysFrom(new, nw, z) = {} /\ z \in 1 .. new.count + 1
    BY <1>5, <1>13, KeysFromEnds
  <2> HIDE DEF z
  <2> QED
    BY <2>1, <1>6, <1>10 DEF Ahead
<1>16. Position(nw, r)' \/ (Position(nw, z)' /\ (Spared => cut'))
  <2>1. CASE style = "json_c" /\ after = At(t, w, q)
    <3>1. Freed \in Seen' => after' = NoEntry
      BY <2>1, <1>2, <1>6, <1>10 DEF Position, AfterAt
    <3>2. CASE q = t.count + 1
      <4>1. after' = At(t, nw, r)'
        BY <3>2, <2>1, <1>6, <1>8, <1>10, <1>12, <1>13 DEF At
      <4> QED
        BY <2>1, <3>1, <4>1, <1>6 DEF Position, AfterAt
    <3>3. CASE q # t.count + 1 /\ q # p
      <4>1. q \in 1 .. t.count
        BY <3>3, <1>8
      <4>2. after' = At(t, nw, r)'
        BY <3>3, <4>1, <2>1, <1>6, <1>8, <1>10, <1>12, <1>13 DEF At
      <4> QED
        BY <2>1, <3>1, <4>2, <1>6 DEF Position, AfterAt
    <3>4. CASE q # t.count + 1 /\ q = p
      <4>1. after = s
        BY <3>4, <2>1, <1>5, <1>8 DEF At
      <4>2. ~SparesNext
        BY <4>1, <2>1, <1>s DEF BodyDelete
      <4>3. Lost(after)' /\ ~Spared
        BY <2>1, <4>1, <4>2, <1>6, <1>11 DEF Spared, Lost
      <4>4. z = t'.count + 1
        BY <1>6
      <4> QED
        BY <2>1, <3>1, <4>2, <4>3, <4>4, <1>6 DEF Position, AfterAt
    <3> QED
      BY <3>2, <3>3, <3>4
  <2>2. CASE style = "json_c" /\ ~SparesNext /\ q = t.count + 1 /\ Lost(after)
    <3>1. Freed \in Seen' => after' = NoEntry
      BY <2>2, <1>2, <1>6, <1>10 DEF Position, AfterAt
    <3>2. Lost(after)' /\ r = t'.count + 1
      BY <2>2, <1>6, <1>11, <1>12 DEF Lost
    <3> QED
      BY <2>2, <3>1, <3>2, <1>6 DEF Position, AfterAt
  <2>3. CASE style # "json_c" /\ q > 1 /\ cursor = w[q - 1] /\ q - 1 # p
    <3>1. q - 1 \in 1 .. t.count /\ q - 1 \in 1 .. t.count + 1
      BY <2>3, <1>8
    <3>2. nw[PlaceAfter(q - 1, p)] = w[q - 1] /\ PlaceAfter(q - 1, p) \in 1 .. new.count
      BY <2>3, <3>1, <1>1, <1>5, ShrunkPlaces
    <3>3. r - 1 = PlaceAfter(q - 1, p) /\ r > 1
      BY <2>3, <3>1, <3>2, <1>8, <1>13 DEF PlaceAfter
    <3>4. cursor' = nw[r - 1]
      BY <2>3, <3>2, <3>3, <1>6
    <3> QED
      BY <2>3, <3>3, <3>4, <1>6 DEF Position, CursorAt
  <2>4. CASE style # "json_c" /\ q > 1 /\ cursor = w[q - 1] /\ q - 1 = p
    <3>1. cursor = s
      BY <2>4, <1>5
    <3>2. style = "ag"
      BY <2>4, <3>1, <1>s DEF BodyDelete, Changeable, IterInv
    <3>3. cut' /\ Lost(cursor)' /\ z = t'.count + 1
      <4>1. cut' /\ z = t'.count + 1
        BY <3>1, <3>2, <1>3, <1>6
      <4>2. Lost(cursor)'
        BY <3>1, <1>6, <1>11 DEF Lost
      <4> QED
        BY <4>1, <4>2
    <3> QED
      BY <2>4, <3>2, <3>3, <1>6 DEF Position, CursorAt
  <2>5. CASE style # "json_c" /\ style = "ag" /\ cut /\ q = t.count + 1 /\ Lost(cursor)
    <3>1. cut' /\ Lost(cursor)' /\ r = t'.count + 1
      BY <2>5, <1>6, <1>11, <1>12 DEF Lost
    <3> QED
      BY <2>5, <3>1, <1>6 DEF Position, CursorAt
  <2> QED
    BY <1>2, <2>1, <2>2, <2>3, <2>4, <2>5 DEF Position, AfterAt, CursorAt
<1>17. InLoop'
  <2> HIDE DEF r, z
  <2> QED
    BY <1>9, <1>14, <1>15, <1>16 DEF InLoop
<1> QED
  BY <1>6, <1>10, <1>17 DEF IterInv

\* Before the loop begins there is nothing to keep, after it has ended
\* nothing changes.
LEMMA OutsideKeeps ==
    ASSUME IterInv, IInv', Build \/ UNCHANGED allVars
    PROVE  IterInv'
<1>1. UNCHANGED iterVars
  BY DEF Build, allVars
<1>2. Seen' = Seen /\ Spared' = Spared /\ Handed' = Handed
  BY <1>1 DEF iterVars, Seen, Spared, Handed, NoKeyTwice
<1>3. CASE loop # "body"
  BY <1>1, <1>2, <1>3 DEF iterVars, IterInv
<1>4. CASE loop = "body"
  <2>1. UNCHANGED allVars
    BY <1>4 DEF Build
  <2>2. UNCHANGED <<t, hash, pc>>
    BY <2>1 DEF allVars, vars
  <2>3. ASSUME NEW w, NEW q, Sound(t, w), Ahead(w, q), Position(w, q)
        PROVE  InLoop'
    <3>1. Sound(t, w)'
      BY <2>2, <2>3, SoundPrimed
    <3>2. KeysFrom(t, w, q)' = KeysFrom(t, w, q) /\ At(t, w, q)' = At(t, w, q)
      BY <2>2 DEF KeysFrom, At
    <3>3. Lost(after)' = Lost(after) /\ Lost(cursor)' = Lost(cursor)
      <4>1. after' = after /\ cursor' = cursor /\ t' = t
        BY <1>1, <2>2 DEF iterVars
      <4> QED
        BY <4>1 DEF Lost, Slots
    <3>4. Ahead(w, q)'
      <4>1. t' = t /\ owed' = owed /\ cut' = cut
        BY <1>1, <2>2 DEF iterVars
      <4> QED
        BY <2>3, <3>2, <4>1, <1>2 DEF Ahead
    <3>5. Position(w, q)'
      BY <2>2, <2>3, <3>2, <3>3, <1>1, <1>2 DEF Position, AfterAt, CursorAt, iterVars
    <3> QED
      BY <3>1, <3>4, <3>5 DEF InLoop
  <2>4. InLoop'
    BY <1>4, <2>3 DEF IterInv, InLoop
  <2> QED
    BY <1>1, <1>2, <1>4, <2>2, <2>4 DEF iterVars, IterInv
<1> QED
  BY <1>3, <1>4

LEMMA IterInitInvariant == IterInit => IterInv
BY InitInvariant, EmptySeq DEF IterInit, IterInv, Handed, NoKeyTwice, Seen

LEMMA IterNextInvariant == IterInv /\ [IterStep]_allVars => IterInv'
<1> SUFFICES ASSUME IterInv, [IterStep]_allVars PROVE IterInv'
  OBVIOUS
<1>1. IInv'
  BY TableStep, NextInvariant DEF IterInv, allVars, vars
<1> QED
  BY <1>1, BeginKeeps, NextKeeps, ReplaceKeeps, DeleteKeeps, OutsideKeeps
     DEF IterStep, Ended

LEMMA IterInvariance == IterSpec => []IterInv
BY IterInitInvariant, IterNextInvariant, PTL DEF IterSpec

-----------------------------------------------------------------------------
(* The theorems.  The json-c loop owes what it promises only to a body     *)
(* that spares the entry after the current one; the other two loops owe    *)
(* theirs to every body.                                                   *)

\* No loop hands the body an entry that was deleted.
THEOREM LiveKeys == IterSpec => [](Spared => BodyGetsLiveKeys)
<1>1. IterInv => (Spared => BodyGetsLiveKeys)
  BY DEF IterInv, Handed, Seen, BodyGetsLiveKeys
<1> QED
  BY <1>1, IterInvariance, PTL

\* No loop hands out a key twice, whatever its body deletes or replaces.
THEOREM OnceEach == IterSpec => []NoKeyTwice
<1>1. IterInv => NoKeyTwice
  BY DEF IterInv, Handed
<1> QED
  BY <1>1, IterInvariance, PTL

\* A loop that ends with its place hands out every key that was there at its
\* start and was not deleted.
THEOREM NothingLeftOut == IterSpec => [](Spared => CompleteUnlessCut)
<1>1. IterInv => (Spared => CompleteUnlessCut)
  BY DEF IterInv, Seen, CompleteUnlessCut
<1> QED
  BY <1>1, IterInvariance, PTL

\* The keys of the list from a place on.
LEMMA FieldsHaveKeys ==
    ASSUME NEW tab, NEW w, Sound(tab, w), NEW q \in 1 .. tab.count + 1
    PROVE  LET f == Fields(tab, At(tab, w, q))
           IN  {g.k : g \in {f[i] : i \in DOMAIN f}} = KeysFrom(tab, w, q)
<1> DEFINE f == Fields(tab, At(tab, w, q))
           n == tab.count + 1 - q
           K == {g.k : g \in {f[i] : i \in DOMAIN f}}
<1>1. TableType(tab) /\ Walks(tab, w) /\ tab.count \in Nat
  BY DEF Sound, TableType
<1>2. f = From(tab, w, q)
  BY <1>1, FieldsAreFrom
<1>3. /\ DOMAIN f = 1 .. n
      /\ \A i \in 1 .. n : f[i] = [k |-> tab.k[w[q + i - 1]], v |-> tab.v[w[q + i - 1]]]
  BY <1>2 DEF From
<1> HIDE DEF f
<1>4. \A i \in 1 .. n : f[i].k = tab.k[w[q + i - 1]]
  <2> SUFFICES ASSUME NEW i \in 1 .. n PROVE f[i].k = tab.k[w[q + i - 1]]
    OBVIOUS
  <2> DEFINE a == tab.k[w[q + i - 1]]
             b == tab.v[w[q + i - 1]]
  <2>1. f[i] = [k |-> a, v |-> b]
    BY <1>3
  <2> HIDE DEF a, b
  <2>2. f[i].k = a
    BY <2>1
  <2> QED
    BY <2>2 DEF a
<1>5. ASSUME NEW x \in K PROVE x \in KeysFrom(tab, w, q)
  <2>1. PICK i \in 1 .. n : x = f[i].k
    BY <1>3, <1>5
  <2>2. q + i - 1 \in q .. tab.count
    BY <1>1
  <2> QED
    BY <1>4, <2>1, <2>2 DEF KeysFrom
<1>6. ASSUME NEW x \in KeysFrom(tab, w, q) PROVE x \in K
  <2>1. PICK j \in q .. tab.count : x = tab.k[w[j]]
    BY <1>6 DEF KeysFrom
  <2>2. j - q + 1 \in 1 .. n /\ q + (j - q + 1) - 1 = j
    BY <1>1
  <2>3. x = f[j - q + 1].k
    BY <1>4, <2>1, <2>2
  <2> QED
    BY <1>3, <2>2, <2>3
<1>7. K = KeysFrom(tab, w, q)
  BY <1>5, <1>6
<1> QED
  BY <1>7 DEF f

\* While the body runs, what the list still holds after the current entry is
\* exactly what the loop still owes.
THEOREM OwedIsAhead == IterSpec => [](Spared => RestIsAhead)
<1>1. ASSUME IterInv, Spared, loop = "body", ~cut
      PROVE  LET e == IF style = "json_c" THEN after ELSE t.next[cursor]
             IN  {f.k : f \in {Fields(t, e)[i] : i \in DOMAIN Fields(t, e)}}
                     = owed \ {seen[i] : i \in DOMAIN seen}
  <2> DEFINE e == IF style = "json_c" THEN after ELSE t.next[cursor]
  <2>1. PICK w : Sound(t, w) /\ \E q : Ahead(w, q) /\ Position(w, q)
    BY <1>1 DEF IterInv, InLoop
  <2>2. PICK q : Ahead(w, q) /\ Position(w, q)
    BY <2>1
  <2>3. /\ q \in 1 .. t.count + 1 /\ t.count \in Nat
        /\ KeysFrom(t, w, q) = owed \ Seen
    BY <1>1, <2>1, <2>2 DEF Ahead, Sound, TableType
  <2>4. e = At(t, w, q)
    <3>1. CASE style = "json_c"
      BY <3>1, <1>1, <2>2 DEF Position, AfterAt, Spared
    <3>2. CASE style # "json_c"
      <4>1. q > 1 /\ cursor = w[q - 1]
        BY <3>2, <1>1, <2>2 DEF Position, CursorAt
      <4>2. q - 1 \in 1 .. t.count /\ (q - 1) + 1 = q
        BY <4>1, <2>3
      <4> QED
        BY <3>2, <4>1, <4>2, <2>1, NextIsAt
    <3> QED
      BY <3>1, <3>2
  <2> HIDE DEF e
  <2>5. {f.k : f \in {Fields(t, e)[i] : i \in DOMAIN Fields(t, e)}} = KeysFrom(t, w, q)
    BY <2>1, <2>3, <2>4, FieldsHaveKeys
  <2> QED
    BY <2>3, <2>5 DEF e, Seen
<1>2. IterInv => (Spared => RestIsAhead)
  BY <1>1 DEF RestIsAhead
<1> QED
  BY <1>2, IterInvariance, PTL
=============================================================================
