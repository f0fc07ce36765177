--------------------------- MODULE JsonRefsProofs ---------------------------
(***************************************************************************)
(* Reference counts, for any finite sets of addresses and slots and any    *)
(* number of references owned: counts are exact, nothing referenced is     *)
(* freed, nothing is freed twice, and nothing is left when the client has  *)
(* released what it owned.  Assumed are the named assumptions of JsonRefs. *)
(*                                                                         *)
(* The counts alone are not inductive.  A replacement stores its value     *)
(* after arbitrary deletions, so the container must be known to survive    *)
(* them: some value the client owns reaches it, and what is being deleted  *)
(* is reached by nobody.  And the counts of a cycle would never reach 0:   *)
(* that there is none is part of the invariant, in the form that every set *)
(* of values has one that no value of the set holds.                       *)
(***************************************************************************)
EXTENDS JsonRefs, FiniteSetTheorems, TLAPS

Count(m, v) == Cardinality(Holders(m, v))

\* What has a reference is allocated, and so is what holds members.
Referenced == \A v \in Obj : rc[v] > 0 => v \in heap
Filled     == \A p \in Obj, s \in Slot : member[p][s] # NoVal => p \in heap

Acyclic ==
    \A S \in SUBSET Obj :
        S # {} => \E v \in S : \A p \in S, s \in Slot : member[p][s] # v

\* A replacement under way will find its slot empty and its container in
\* use, and will not close a cycle.
PendingOK ==
    todo # <<>> =>
        /\ member[todo[1]][todo[2]] = NoVal
        /\ Usable(todo[1])
        /\ todo[3] \in Obj => ~Reaches(todo[3], todo[1])

IInv ==
    /\ TypeOK
    /\ RefCountExact
    /\ Referenced /\ Filled
    /\ DeletedOnce
    /\ Acyclic
    /\ PendingOK

Members == [Obj -> [Slot -> Value]]

-----------------------------------------------------------------------------
(* Counting the references containers hold.                                *)

\* Finitely many containers with finitely many slots hold anything.
LEMMA HoldersFinite ==
    ASSUME NEW m, NEW v
    PROVE  /\ IsFiniteSet(Holders(m, v))
           /\ Count(m, v) \in Nat
           /\ Count(m, v) = 0 <=> Holders(m, v) = {}
<1>1. IsFiniteSet(Dict \cup Arr)
  BY KindAssumption, FS_Union
<1>2. IsFiniteSet(Obj \X Slot)
  BY <1>1, KindAssumption, FS_Product DEF Obj
<1>3. Holders(m, v) \in SUBSET (Obj \X Slot)
  BY DEF Holders
<1>4. IsFiniteSet(Holders(m, v))
  BY <1>2, <1>3, FS_Subset
<1>5. QED
  BY <1>4, FS_CardinalityType, FS_EmptySet DEF Count

\* m2 differs from m in what p holds at s.
Changed(m, m2, p, s, w) ==
    /\ m2 \in Members
    /\ \A q \in Obj, r \in Slot :
          m2[q][r] = IF q = p /\ r = s THEN w ELSE m[q][r]

\* EXCEPT at one slot is such a change.
LEMMA ExceptChanges ==
    ASSUME NEW m \in Members, NEW p \in Obj, NEW s \in Slot, NEW w \in Value,
           NEW m2, m2 = [m EXCEPT ![p][s] = w]
    PROVE  Changed(m, m2, p, s, w)
<1>1. m2 = [m EXCEPT ![p] = [m[p] EXCEPT ![s] = w]]
  OBVIOUS
<1>2. [m[p] EXCEPT ![s] = w] \in [Slot -> Value]
  BY DEF Members
<1>3. m2 \in Members
  BY <1>1, <1>2 DEF Members
<1>4. \A q \in Obj, r \in Slot :
          m2[q][r] = IF q = p /\ r = s THEN w ELSE m[q][r]
  BY <1>1 DEF Members
<1>5. QED
  BY <1>3, <1>4 DEF Changed

\* A reference taken out of a slot is one less to its value.
LEMMA CountDrop ==
    ASSUME NEW m \in Members, NEW m2, NEW p \in Obj, NEW s \in Slot,
           Changed(m, m2, p, s, NoVal), NEW v \in Obj
    PROVE  Count(m2, v) = Count(m, v) - (IF m[p][s] = v THEN 1 ELSE 0)
<1>1. v # NoVal
  BY KindAssumption DEF Obj
<1>2. Holders(m2, v) = Holders(m, v) \ {<<p, s>>}
  BY <1>1 DEF Changed, Holders
<1>3. <<p, s>> \in Holders(m, v) <=> m[p][s] = v
  BY DEF Holders
<1>4. IsFiniteSet(Holders(m, v)) /\ Count(m, v) \in Nat
  BY HoldersFinite
<1>5. Cardinality(Holders(m, v) \ {<<p, s>>}) =
          IF <<p, s>> \in Holders(m, v) THEN Cardinality(Holders(m, v)) - 1
          ELSE Cardinality(Holders(m, v))
  BY <1>4, FS_RemoveElement
<1>6. Count(m2, v) = IF m[p][s] = v THEN Count(m, v) - 1 ELSE Count(m, v)
  BY <1>2, <1>3, <1>5 DEF Count
<1>7. QED
  BY <1>4, <1>6

\* A reference put into an empty slot is one more.
LEMMA CountAdd ==
    ASSUME NEW m \in Members, NEW m2, NEW p \in Obj, NEW s \in Slot, NEW w \in Value,
           Changed(m, m2, p, s, w), m[p][s] = NoVal, NEW v \in Obj
    PROVE  Count(m2, v) = Count(m, v) + (IF w = v THEN 1 ELSE 0)
<1>1. v # NoVal
  BY KindAssumption DEF Obj
<1>2. <<p, s>> \notin Holders(m, v)
  BY <1>1 DEF Holders
<1>3. CASE w = v
  <2>1. Holders(m2, v) = Holders(m, v) \cup {<<p, s>>}
    BY <1>3 DEF Changed, Holders
  <2>2. QED
    BY <1>2, <1>3, <2>1, HoldersFinite, FS_AddElement, ZenonT(30) DEF Count
<1>4. CASE w # v
  <2>1. Holders(m2, v) = Holders(m, v)
    BY <1>1, <1>4 DEF Changed, Holders
  <2>2. QED
    BY <1>4, <2>1, HoldersFinite DEF Count
<1>5. QED
  BY <1>3, <1>4

\* What the counts say: a value without a count is owned by nobody, in no
\* slot and about to be stored nowhere.
LEMMA Counted ==
    ASSUME TypeOK, RefCountExact, NEW v \in Obj
    PROVE  /\ rc[v] \in Nat /\ own[v] \in Nat /\ Waiting(v) \in {0, 1}
           /\ rc[v] = own[v] + Count(member, v) + Waiting(v)
           /\ own[v] <= rc[v] /\ Waiting(v) <= rc[v]
           /\ \A p \in Obj, s \in Slot : member[p][s] = v => rc[v] > 0
<1>1. rc[v] = own[v] + Count(member, v) + Waiting(v)
  BY DEF RefCountExact, Count
<1>2. /\ rc[v] \in Nat /\ own[v] \in Nat /\ Waiting(v) \in {0, 1}
      /\ Count(member, v) \in Nat
  BY HoldersFinite DEF TypeOK, Waiting
<1>3. ASSUME NEW p \in Obj, NEW s \in Slot, member[p][s] = v
      PROVE  rc[v] > 0
  <2>1. <<p, s>> \in Holders(member, v)
    BY <1>3 DEF Holders
  <2>2. Count(member, v) # 0
    BY <2>1, HoldersFinite
  <2>3. QED
    BY <1>1, <1>2, <2>2
<1>4. QED
  BY <1>1, <1>2, <1>3

-----------------------------------------------------------------------------
(* Reachability and cycles, for members m.                                 *)

Closed(m, S) == \A p \in S, s \in Slot : m[p][s] \in Obj => m[p][s] \in S

Leads(m, v, w) == \A S \in SUBSET Obj : v \in S /\ Closed(m, S) => w \in S

NoCycle(m) ==
    \A S \in SUBSET Obj :
        S # {} => \E v \in S : \A p \in S, s \in Slot : m[p][s] # v

\* m2 holds what m holds, or less.
Fewer(m, m2) == \A q \in Obj, r \in Slot : m2[q][r] = m[q][r] \/ m2[q][r] = NoVal

\* With fewer references no new value is reached.
LEMMA LeadsLess ==
    ASSUME NEW m, NEW m2, Fewer(m, m2), NEW v, NEW w, ~Leads(m, v, w)
    PROVE  ~Leads(m2, v, w)
<1>1. PICK S \in SUBSET Obj : v \in S /\ Closed(m, S) /\ w \notin S
  BY DEF Leads
<1>2. Closed(m2, S)
  BY <1>1, KindAssumption DEF Closed, Fewer, Obj
<1>3. QED
  BY <1>1, <1>2 DEF Leads

\* With fewer references no cycle appears.
LEMMA NoCycleLess ==
    ASSUME NEW m, NEW m2, Fewer(m, m2), NoCycle(m)
    PROVE  NoCycle(m2)
<1> SUFFICES ASSUME NEW S \in SUBSET Obj, S # {}
             PROVE  \E v \in S : \A p \in S, s \in Slot : m2[p][s] # v
  BY DEF NoCycle
<1>1. PICK v \in S : \A p \in S, s \in Slot : m[p][s] # v
  BY DEF NoCycle
<1>2. v # NoVal
  BY KindAssumption DEF Obj
<1>3. QED
  BY <1>1, <1>2 DEF Fewer

\* A reference from p to a value that does not lead to p closes no cycle: of a
\* set in which only that value was held by nobody, what the value does not
\* lead to contains p, and has another such value.
LEMMA NoCycleAdd ==
    ASSUME NEW m, NEW m2, NEW p \in Obj, NEW s \in Slot, NEW w \in Value,
           Changed(m, m2, p, s, w), w \in Obj => ~Leads(m, w, p), NoCycle(m)
    PROVE  NoCycle(m2)
<1> SUFFICES ASSUME NEW S \in SUBSET Obj, S # {}
             PROVE  \E v \in S : \A q \in S, r \in Slot : m2[q][r] # v
  BY DEF NoCycle
<1>1. PICK v \in S : \A q \in S, r \in Slot : m[q][r] # v
  BY DEF NoCycle
<1>2. CASE v # w \/ p \notin S
  BY <1>1, <1>2 DEF Changed
<1>3. CASE v = w /\ p \in S
  <2>1. PICK R \in SUBSET Obj : w \in R /\ Closed(m, R) /\ p \notin R
    BY <1>3 DEF Leads
  <2>2. S \ R \in SUBSET Obj /\ S \ R # {}
    BY <1>3, <2>1
  <2>3. PICK u \in S \ R : \A q \in S \ R, r \in Slot : m[q][r] # u
    BY <2>2 DEF NoCycle
  <2>4. \A q \in R, r \in Slot : m[q][r] # u
    BY <2>1, <2>3 DEF Closed
  <2>5. u # w
    BY <2>1, <2>3
  <2>6. \A q \in S, r \in Slot : m2[q][r] # u
    BY <2>3, <2>4, <2>5 DEF Changed
  <2>7. QED
    BY <2>3, <2>6
<1>4. QED
  BY <1>2, <1>3

\* Emptying a slot of p does not cut p off: a path to p does not need it.
LEMMA LeadsToItself ==
    ASSUME NEW m, NEW m2, NEW p \in Obj, NEW s \in Slot,
           Changed(m, m2, p, s, NoVal), NEW v, Leads(m, v, p)
    PROVE  Leads(m2, v, p)
<1> SUFFICES ASSUME NEW S \in SUBSET Obj, v \in S, Closed(m2, S), p \notin S
             PROVE  FALSE
  BY DEF Leads
<1>1. Closed(m, S)
  BY DEF Closed, Changed
<1>2. QED
  BY <1>1 DEF Leads

\* Emptying a slot of a value nobody holds cuts nothing off.
LEMMA LeadsPast ==
    ASSUME NEW m, NEW m2, NEW top \in Obj, NEW s \in Slot,
           Changed(m, m2, top, s, NoVal), NEW v, v # top, NEW w, Leads(m, v, w),
           \A q \in Obj, r \in Slot : m[q][r] # top
    PROVE  Leads(m2, v, w)
<1> SUFFICES ASSUME NEW S \in SUBSET Obj, v \in S, Closed(m2, S)
             PROVE  w \in S
  BY DEF Leads
<1>1. Closed(m, S \ {top})
  BY DEF Closed, Changed
<1>2. QED
  BY <1>1 DEF Leads

\* The definitions of JsonRefs, in these terms.
LEMMA Translated ==
    /\ \A v, w : Reaches(v, w) <=> Leads(member, v, w)
    /\ \A v : Usable(v) <=> \E r \in heap : own[r] > 0 /\ Leads(member, r, v)
    /\ Acyclic <=> NoCycle(member)
BY DEF Usable, Reaches, Leads, Closed, Acyclic, NoCycle

LEMMA TranslatedNext ==
    /\ \A v, w : Reaches(v, w)' <=> Leads(member', v, w)
    /\ \A v : Usable(v)' <=> \E r \in heap' : own'[r] > 0 /\ Leads(member', r, v)
    /\ Acyclic' <=> NoCycle(member')
BY DEF Usable, Reaches, Leads, Closed, Acyclic, NoCycle

\* A value the client can use has a reference.
LEMMA UsableCounts ==
    ASSUME TypeOK, RefCountExact, NEW v \in Obj, Usable(v)
    PROVE  rc[v] > 0
<1>1. PICK r \in heap : own[r] > 0 /\ Leads(member, r, v)
  BY Translated
<1> DEFINE S == {x \in Obj : rc[x] > 0}
<1>2. r \in S
  <2>1. r \in Obj
    BY DEF TypeOK
  <2>2. QED
    BY <1>1, <2>1, Counted
<1>3. Closed(member, S)
  BY Counted DEF Closed
<1>4. v \in S
  BY <1>1, <1>2, <1>3 DEF Leads
<1>5. QED
  BY <1>4

-----------------------------------------------------------------------------
(* Dropping a reference.                                                   *)

\* json_object_put of a value that has a reference takes one, and begins the
\* deletion of a value exactly when it was the last.
LEMMA PutDoes ==
    ASSUME TypeOK, Referenced, DeletedOnce,
           NEW v \in Value, v \in Obj => rc[v] > 0, Put(v), heap' = heap
    PROVE  /\ rc' \in [Obj -> Nat]
           /\ dying' \in Seq(Obj)
           /\ \A u \in Obj : rc'[u] = rc[u] - (IF u = v THEN 1 ELSE 0)
           /\ Referenced'
           /\ DeletedOnce'
<1>0. rc \in [Obj -> Nat] /\ dying \in Seq(Obj) /\ heap \subseteq Obj
  BY DEF TypeOK
<1>1. CASE v \notin Obj
  <2>1. rc' = rc /\ dying' = dying
    BY <1>1 DEF Put
  <2>2. QED
    BY <1>0, <1>1, <2>1 DEF Referenced, DeletedOnce
<1>2. CASE v \in Obj
  <2>1. /\ rc' = [rc EXCEPT ![v] = rc[v] - 1]
        /\ dying' = IF rc[v] = 1 THEN Append(dying, v) ELSE dying
    BY <1>2 DEF Put
  <2>2. rc' \in [Obj -> Nat]
    BY <1>0, <1>2, <2>1
  <2>3. \A u \in Obj : rc'[u] = rc[u] - (IF u = v THEN 1 ELSE 0)
    BY <1>0, <1>2, <2>1
  <2>4. Referenced'
    BY <1>0, <1>2, <2>3 DEF Referenced
  <2>5. v \in heap
    BY <1>2 DEF Referenced
  <2>6. CASE rc[v] # 1
    <3>1. dying' = dying
      BY <2>1, <2>6
    <3>2. \A u \in Obj : rc'[u] = 0 <=> rc[u] = 0
      BY <1>0, <1>2, <2>3, <2>6
    <3>3. {u \in heap : rc'[u] = 0} = {u \in heap : rc[u] = 0}
      BY <1>0, <3>2
    <3>4. DeletedOnce'
      BY <3>1, <3>3 DEF DeletedOnce
    <3>5. QED
      BY <1>0, <2>2, <2>3, <2>4, <3>1, <3>4
  <2>7. CASE rc[v] = 1
    <3>1. dying' = Append(dying, v)
      BY <2>1, <2>7
    <3>2. /\ dying' \in Seq(Obj)
          /\ DOMAIN dying = 1 .. Len(dying) /\ Len(dying) \in Nat
          /\ DOMAIN dying' = 1 .. Len(dying) + 1
          /\ \A i \in 1 .. Len(dying) : dying'[i] = dying[i]
          /\ dying'[Len(dying) + 1] = v
      BY <1>0, <1>2, <3>1
    <3>3. \A i \in DOMAIN dying : dying[i] # v
      BY <2>7, <2>5 DEF DeletedOnce
    <3>4. \A i, j \in DOMAIN dying' : dying'[i] = dying'[j] => i = j
      BY <3>2, <3>3 DEF DeletedOnce
    <3>5. {dying'[i] : i \in DOMAIN dying'} = {dying[i] : i \in DOMAIN dying} \cup {v}
      BY <3>2
    <3>6. {u \in heap : rc'[u] = 0} = {u \in heap : rc[u] = 0} \cup {v}
      BY <1>0, <1>2, <2>3, <2>5, <2>7
    <3>7. DeletedOnce'
      BY <3>4, <3>5, <3>6 DEF DeletedOnce
    <3>8. QED
      BY <2>2, <2>3, <2>4, <3>2, <3>7
  <2>8. QED
    BY <2>6, <2>7
<1>3. QED
  BY <1>1, <1>2

-----------------------------------------------------------------------------
(* The calls of the client.                                                *)

\* Exactness after a step, in terms of Count.
LEMMA ExactNext ==
    RefCountExact' <=>
        \A u \in Obj : rc'[u] = own'[u] + Count(member', u) + Waiting(u)'
BY DEF RefCountExact, Count

\* Between calls nothing is being deleted, and every value has a reference.
LEMMA WhenIdle ==
    ASSUME IInv, Idle
    PROVE  /\ dying = <<>> /\ todo = <<>>
           /\ \A u \in Obj : Waiting(u) = 0
           /\ \A u \in heap : rc[u] # 0
BY DEF IInv, Idle, Waiting, DeletedOnce

\* A new value has the address of no other, and no reference but the client's.
LEMMA NewKeeps ==
    ASSUME IInv, NEW v \in Obj, New(v)
    PROVE  IInv'
<1> USE DEF IInv
<1>0. /\ Idle /\ v \notin heap
      /\ heap' = heap \cup {v}
      /\ rc' = [rc EXCEPT ![v] = 1]
      /\ own' = [own EXCEPT ![v] = 1]
      /\ member' = [member EXCEPT ![v] = Vacant]
      /\ dying' = dying /\ todo' = todo
  BY DEF New
<1>1. /\ rc \in [Obj -> Nat] /\ own \in [Obj -> Nat] /\ heap \subseteq Obj
      /\ member \in [Obj -> [Slot -> Value]]
  BY DEF TypeOK
<1>2. /\ rc[v] = 0 /\ own[v] = 0
      /\ \A s \in Slot : member[v][s] = NoVal
  <2>1. rc[v] = 0
    BY <1>0, <1>1 DEF Referenced
  <2>2. QED
    BY <1>0, <1>1, <2>1, Counted DEF Filled
<1>3. member' = member
  <2>1. member[v] = Vacant
    BY <1>1, <1>2 DEF Vacant
  <2>2. QED
    BY <1>0, <1>1, <2>1
<1>4. /\ dying = <<>> /\ todo = <<>>
      /\ \A u \in heap : rc[u] # 0
  BY <1>0, WhenIdle
<1>5. TypeOK'
  BY <1>0, <1>1, <1>3 DEF TypeOK
<1>6. RefCountExact'
  <2>1. \A u \in Obj : rc'[u] = own'[u] + Count(member', u) + Waiting(u)'
    <3> TAKE u \in Obj
    <3>1. /\ rc[u] \in Nat /\ own[u] \in Nat /\ Waiting(u) \in {0, 1}
          /\ Count(member, u) \in Nat
          /\ rc[u] = own[u] + Count(member, u) + Waiting(u)
      BY Counted, HoldersFinite
    <3>2. Waiting(u)' = Waiting(u)
      BY <1>0 DEF Waiting
    <3>3. CASE u = v
      <4>1. rc'[u] = 1 /\ own'[u] = 1
        BY <1>0, <1>1, <3>3
      <4>2. Count(member, u) = 0 /\ Waiting(u) = 0
        BY <1>2, <3>1, <3>3
      <4>3. QED
        BY <1>3, <3>2, <4>1, <4>2
    <3>4. CASE u # v
      BY <1>0, <1>1, <1>3, <3>1, <3>2, <3>4
    <3>5. QED
      BY <3>3, <3>4
  <2>2. QED
    BY <2>1, ExactNext
<1>7. Referenced' /\ Filled'
  BY <1>0, <1>1, <1>3 DEF Referenced, Filled
<1>8. DeletedOnce'
  <2>1. {u \in heap' : rc'[u] = 0} = {}
    BY <1>0, <1>1, <1>4
  <2>2. QED
    BY <1>0, <1>4, <2>1 DEF DeletedOnce
<1>9. Acyclic' /\ PendingOK'
  BY <1>0, <1>3, <1>4 DEF Acyclic, PendingOK
<1>10. QED
  BY <1>5, <1>6, <1>7, <1>8, <1>9

\* A value the client can use has a reference, so that one more revives
\* nothing.
LEMMA RefKeeps ==
    ASSUME IInv, NEW v \in Obj, Ref(v)
    PROVE  IInv'
<1> USE DEF IInv
<1>0. /\ Idle /\ Usable(v)
      /\ rc' = [rc EXCEPT ![v] = rc[v] + 1]
      /\ own' = [own EXCEPT ![v] = own[v] + 1]
      /\ heap' = heap /\ member' = member /\ dying' = dying /\ todo' = todo
  BY DEF Ref
<1>1. /\ rc \in [Obj -> Nat] /\ own \in [Obj -> Nat] /\ heap \subseteq Obj
  BY DEF TypeOK
<1>2. rc[v] > 0 /\ v \in heap
  BY <1>0, UsableCounts DEF Referenced
<1>3. TypeOK'
  BY <1>0, <1>1 DEF TypeOK
<1>4. RefCountExact'
  <2>1. \A u \in Obj : rc'[u] = own'[u] + Count(member', u) + Waiting(u)'
    <3> TAKE u \in Obj
    <3>1. /\ rc[u] \in Nat /\ own[u] \in Nat /\ Waiting(u) \in {0, 1}
          /\ Count(member, u) \in Nat
          /\ rc[u] = own[u] + Count(member, u) + Waiting(u)
      BY Counted, HoldersFinite
    <3>2. Waiting(u)' = Waiting(u)
      BY <1>0 DEF Waiting
    <3>3. QED
      BY <1>0, <1>1, <3>1, <3>2
  <2>2. QED
    BY <2>1, ExactNext
<1>5. Referenced' /\ Filled'
  BY <1>0, <1>1, <1>2 DEF Referenced, Filled
<1>6. DeletedOnce'
  <2>1. {u \in heap' : rc'[u] = 0} = {u \in heap : rc[u] = 0}
    BY <1>0, <1>1, <1>2
  <2>2. QED
    BY <1>0, <2>1 DEF DeletedOnce
<1>7. Acyclic' /\ PendingOK'
  <2>1. Acyclic'
    BY <1>0 DEF Acyclic
  <2>2. todo' = <<>>
    BY <1>0, WhenIdle
  <2>3. PendingOK'
    BY <2>2 DEF PendingOK
  <2>4. QED
    BY <2>1, <2>3
<1>8. QED
  BY <1>3, <1>4, <1>5, <1>6, <1>7

\* The client's reference is one of those counted.
LEMMA DerefKeeps ==
    ASSUME IInv, NEW v \in Obj, Deref(v)
    PROVE  IInv'
<1> USE DEF IInv
<1>0. /\ Idle /\ own[v] > 0 /\ Put(v)
      /\ own' = [own EXCEPT ![v] = own[v] - 1]
      /\ heap' = heap /\ member' = member /\ todo' = todo
  BY DEF Deref
<1>1. /\ rc \in [Obj -> Nat] /\ own \in [Obj -> Nat] /\ heap \subseteq Obj
  BY DEF TypeOK
<1>2. rc[v] > 0 /\ v \in Value
  BY <1>0, <1>1, Counted DEF Value
<1>3. /\ rc' \in [Obj -> Nat] /\ dying' \in Seq(Obj)
      /\ \A u \in Obj : rc'[u] = rc[u] - (IF u = v THEN 1 ELSE 0)
      /\ Referenced' /\ DeletedOnce'
  BY <1>0, <1>2, PutDoes
<1>4. TypeOK'
  BY <1>0, <1>1, <1>3 DEF TypeOK
<1>5. RefCountExact'
  <2>1. \A u \in Obj : rc'[u] = own'[u] + Count(member', u) + Waiting(u)'
    <3> TAKE u \in Obj
    <3>1. /\ rc[u] \in Nat /\ own[u] \in Nat /\ Waiting(u) \in {0, 1}
          /\ Count(member, u) \in Nat
          /\ rc[u] = own[u] + Count(member, u) + Waiting(u)
      BY Counted, HoldersFinite
    <3>2. Waiting(u)' = Waiting(u)
      BY <1>0 DEF Waiting
    <3>3. own'[u] = own[u] - (IF u = v THEN 1 ELSE 0)
      BY <1>0, <1>1
    <3>4. rc'[u] = rc[u] - (IF u = v THEN 1 ELSE 0) /\ member' = member
      BY <1>0, <1>3
    <3>5. Count(member', u) = Count(member, u)
      BY <3>4
    <3>6. QED
      BY <3>1, <3>2, <3>3, <3>4, <3>5
  <2>2. QED
    BY <2>1, ExactNext
<1>6. Filled' /\ Acyclic' /\ PendingOK'
  <2>1. Filled' /\ Acyclic'
    BY <1>0, SMTT(30) DEF Filled, Acyclic
  <2>2. todo' = <<>>
    BY <1>0, WhenIdle
  <2>3. PendingOK'
    BY <2>2 DEF PendingOK
  <2>4. QED
    BY <2>1, <2>3
<1>7. QED
  BY <1>3, <1>4, <1>5, <1>6

\* What the client may give is allocated or not counted, and giving it away
\* takes one reference from those it owns.
LEMMA Given ==
    ASSUME TypeOK, RefCountExact, NEW p \in Obj, NEW v \in Value, MayGive(p, v), GiveAway(v)
    PROVE  /\ own' \in [Obj -> Nat]
           /\ \A u \in Obj : own'[u] = own[u] - (IF u = v THEN 1 ELSE 0)
           /\ v \in Obj => rc[v] > 0 /\ ~Leads(member, v, p)
<1>1. own \in [Obj -> Nat]
  BY DEF TypeOK
<1>2. own' = [o \in Obj |-> IF o = v THEN own[o] - 1 ELSE own[o]]
  BY DEF GiveAway
<1>3. v \in Obj => own[v] > 0 /\ ~Leads(member, v, p)
  BY Translated DEF MayGive
<1>4. v \in Obj => rc[v] > 0
  BY <1>1, <1>3, Counted
<1>5. \A u \in Obj : own'[u] = own[u] - (IF u = v THEN 1 ELSE 0)
  BY <1>1, <1>2
<1>6. own' \in [Obj -> Nat]
  BY <1>1, <1>2, <1>3
<1>7. QED
  BY <1>3, <1>4, <1>5, <1>6

\* The container takes over the reference the client gives.
LEMMA StoreKeeps ==
    ASSUME IInv, NEW p \in Obj, NEW s \in Slot, NEW v \in Value, Store(p, s, v)
    PROVE  IInv'
<1> USE DEF IInv
<1>0. /\ Idle /\ Usable(p) /\ MayGive(p, v) /\ GiveAway(v)
      /\ member[p][s] = NoVal
      /\ member' = [member EXCEPT ![p][s] = v]
      /\ heap' = heap /\ rc' = rc /\ dying' = dying /\ todo' = todo
  BY DEF Store
<1>1. member \in Members
  BY DEF TypeOK, Members
<1>2. Changed(member, member', p, s, v)
  BY <1>0, <1>1, ExceptChanges
<1>3. /\ own' \in [Obj -> Nat]
      /\ \A u \in Obj : own'[u] = own[u] - (IF u = v THEN 1 ELSE 0)
      /\ v \in Obj => ~Leads(member, v, p)
  BY <1>0, Given
<1>4. TypeOK'
  BY <1>0, <1>2, <1>3 DEF TypeOK, Changed, Members
<1>5. RefCountExact'
  <2>1. \A u \in Obj : rc'[u] = own'[u] + Count(member', u) + Waiting(u)'
    <3> TAKE u \in Obj
    <3>1. /\ rc[u] \in Nat /\ own[u] \in Nat /\ Waiting(u) \in {0, 1}
          /\ Count(member, u) \in Nat
          /\ rc[u] = own[u] + Count(member, u) + Waiting(u)
      BY Counted, HoldersFinite
    <3>2. Waiting(u)' = Waiting(u)
      BY <1>0 DEF Waiting
    <3>3. Count(member', u) = Count(member, u) + (IF v = u THEN 1 ELSE 0)
      BY <1>0, <1>1, <1>2, CountAdd
    <3>4. own'[u] = own[u] - (IF u = v THEN 1 ELSE 0)
      BY <1>3
    <3>5. QED
      BY <1>0, <3>1, <3>2, <3>3, <3>4
  <2>2. QED
    BY <2>1, ExactNext
<1>6. Referenced' /\ DeletedOnce'
  BY <1>0 DEF Referenced, DeletedOnce
<1>7. Filled'
  <2>1. p \in heap
    BY <1>0, UsableCounts DEF Referenced
  <2>2. QED
    BY <1>0, <1>2, <2>1 DEF Filled, Changed
<1>8. Acyclic'
  BY <1>1, <1>2, <1>3, NoCycleAdd, Translated, TranslatedNext
<1>9. PendingOK'
  BY <1>0, WhenIdle DEF PendingOK
<1>10. QED
  BY <1>4, <1>5, <1>6, <1>7, <1>8, <1>9

\* Emptying a slot with EXCEPT.
LEMMA Emptied ==
    ASSUME TypeOK, NEW p \in Obj, NEW s \in Slot,
           member' = [member EXCEPT ![p][s] = NoVal]
    PROVE  Changed(member, member', p, s, NoVal)
BY ExceptChanges DEF TypeOK, Members, Value

\* What taking a value out of a slot and putting it does.
Dropped(old) ==
    /\ rc' \in [Obj -> Nat] /\ dying' \in Seq(Obj)
    /\ \A u \in Obj : rc'[u] = rc[u] - (IF u = old THEN 1 ELSE 0)
    /\ \A u \in Obj : Count(member', u) = Count(member, u) - (IF u = old THEN 1 ELSE 0)
    /\ Fewer(member, member')
    /\ Referenced' /\ Filled' /\ DeletedOnce' /\ Acyclic'

\* The value in a slot has the reference that is dropped.
LEMMA TakenOut ==
    ASSUME IInv, NEW p \in Obj, NEW s \in Slot,
           NEW old, old = member[p][s], old # NoVal,
           Changed(member, member', p, s, NoVal), Put(old), heap' = heap
    PROVE  Dropped(old)
<1> USE DEF IInv
<1>1. member \in Members
  BY DEF TypeOK, Members
<1>4. Fewer(member, member')
  BY DEF Changed, Fewer
<1>5. old \in Value /\ (old \in Obj => rc[old] > 0)
  BY <1>1, Counted DEF Members
<1>6. /\ rc' \in [Obj -> Nat] /\ dying' \in Seq(Obj)
      /\ \A u \in Obj : rc'[u] = rc[u] - (IF u = old THEN 1 ELSE 0)
      /\ Referenced' /\ DeletedOnce'
  BY <1>5, PutDoes
<1>7. \A u \in Obj : Count(member', u) = Count(member, u) - (IF u = old THEN 1 ELSE 0)
  BY <1>1, CountDrop
<1>8. Filled'
  BY DEF Filled, Changed
<1>9. Acyclic'
  BY <1>4, NoCycleLess, Translated, TranslatedNext
<1>10. QED
  BY <1>4, <1>6, <1>7, <1>8, <1>9 DEF Dropped

\* The reference that is dropped is the one the slot held.
LEMMA DeleteKeeps ==
    ASSUME IInv, NEW p \in Obj, NEW s \in Slot, Delete(p, s)
    PROVE  IInv'
<1>0. /\ Idle /\ member[p][s] # NoVal /\ Put(member[p][s])
      /\ member' = [member EXCEPT ![p][s] = NoVal]
      /\ heap' = heap /\ own' = own /\ todo' = todo
  BY DEF Delete
<1>1. PICK old : old = member[p][s] /\ old # NoVal /\ Put(old)
  BY <1>0
<1>a. Changed(member, member', p, s, NoVal)
  BY <1>0, Emptied DEF IInv
<1>2. Dropped(old)
  BY <1>0, <1>1, <1>a, TakenOut
<1> USE DEF IInv
<1>3. TypeOK'
  BY <1>0, <1>a, <1>2 DEF TypeOK, Dropped, Changed, Members
<1>4. RefCountExact'
  <2>1. \A u \in Obj : rc'[u] = own'[u] + Count(member', u) + Waiting(u)'
    <3> TAKE u \in Obj
    <3>1. /\ rc[u] \in Nat /\ own[u] \in Nat /\ Waiting(u) \in {0, 1}
          /\ Count(member, u) \in Nat
          /\ rc[u] = own[u] + Count(member, u) + Waiting(u)
      BY Counted, HoldersFinite
    <3>2. Waiting(u)' = Waiting(u)
      BY <1>0 DEF Waiting
    <3>3. /\ rc'[u] = rc[u] - (IF u = old THEN 1 ELSE 0)
          /\ Count(member', u) = Count(member, u) - (IF u = old THEN 1 ELSE 0)
          /\ own'[u] = own[u]
      BY <1>0, <1>2 DEF Dropped
    <3>4. QED
      BY <3>1, <3>2, <3>3
  <2>2. QED
    BY <2>1, ExactNext
<1>5. PendingOK'
  BY <1>0, WhenIdle DEF PendingOK
<1>6. QED
  BY <1>2, <1>3, <1>4, <1>5 DEF Dropped

\* The value that will be stored has the reference the client gave; what
\* reached the container still does, with the slot empty.
LEMMA ReplaceKeeps ==
    ASSUME IInv, NEW p \in Obj, NEW s \in Slot, NEW v \in Value, Replace(p, s, v)
    PROVE  IInv'
<1>0. /\ Idle /\ p \in Dict /\ Usable(p) /\ MayGive(p, v) /\ GiveAway(v)
      /\ member[p][s] # NoVal /\ Put(member[p][s])
      /\ member' = [member EXCEPT ![p][s] = NoVal]
      /\ heap' = heap /\ todo' = <<p, s, v>>
  BY DEF Replace
<1>1. PICK old : old = member[p][s] /\ old # NoVal /\ Put(old)
  BY <1>0
<1>2. Changed(member, member', p, s, NoVal)
  BY <1>0, Emptied DEF IInv
<1>3. Dropped(old)
  BY <1>0, <1>1, <1>2, TakenOut
<1>4. /\ own' \in [Obj -> Nat]
      /\ \A u \in Obj : own'[u] = own[u] - (IF u = v THEN 1 ELSE 0)
      /\ v \in Obj => ~Leads(member, v, p)
  BY <1>0, Given DEF IInv
<1> USE DEF IInv
<1>5. TypeOK'
  BY <1>0, <1>2, <1>3, <1>4 DEF TypeOK, Dropped, Changed, Members
<1>6. RefCountExact'
  <2>1. \A u \in Obj : rc'[u] = own'[u] + Count(member', u) + Waiting(u)'
    <3> TAKE u \in Obj
    <3>1. /\ rc[u] \in Nat /\ own[u] \in Nat /\ Waiting(u) = 0
          /\ Count(member, u) \in Nat
          /\ rc[u] = own[u] + Count(member, u) + Waiting(u)
      BY <1>0, WhenIdle, Counted, HoldersFinite
    <3>2. Waiting(u)' = IF u = v THEN 1 ELSE 0
      BY <1>0 DEF Waiting
    <3>3. /\ rc'[u] = rc[u] - (IF u = old THEN 1 ELSE 0)
          /\ Count(member', u) = Count(member, u) - (IF u = old THEN 1 ELSE 0)
          /\ own'[u] = own[u] - (IF u = v THEN 1 ELSE 0)
      BY <1>3, <1>4 DEF Dropped
    <3>4. QED
      BY <3>1, <3>2, <3>3
  <2>2. QED
    BY <2>1, ExactNext
<1>7. PendingOK'
  <2>1. member'[p][s] = NoVal
    BY <1>2 DEF Changed
  <2>2. Usable(p)'
    <3>1. PICK r \in heap : own[r] > 0 /\ Leads(member, r, p)
      BY <1>0, Translated
    <3>2. r \in Obj /\ r # v
      BY <1>4, <3>1 DEF TypeOK
    <3>3. own'[r] > 0
      BY <1>4, <3>1, <3>2 DEF TypeOK
    <3>4. Leads(member', r, p)
      BY <1>2, <3>1, LeadsToItself
    <3>5. QED
      BY <1>0, <3>1, <3>3, <3>4, TranslatedNext
  <2>3. v \in Obj => ~Reaches(v, p)'
    BY <1>3, <1>4, LeadsLess, TranslatedNext DEF Dropped
  <2>4. todo'[1] = p /\ todo'[2] = s /\ todo'[3] = v
    BY <1>0
  <2>5. QED
    BY <2>1, <2>2, <2>3, <2>4 DEF PendingOK, Usable, Reaches
<1>8. QED
  BY <1>3, <1>5, <1>6, <1>7 DEF Dropped

\* The container has survived the deletions, for the client can reach it.
LEMMA ReplaceEndKeeps ==
    ASSUME IInv, ReplaceEnd
    PROVE  IInv'
<1> USE DEF IInv
<1>0. /\ todo # <<>>
      /\ member' = [member EXCEPT ![todo[1]][todo[2]] = todo[3]]
      /\ todo' = <<>>
      /\ heap' = heap /\ rc' = rc /\ own' = own /\ dying' = dying
  BY DEF ReplaceEnd
<1>1. PICK p \in Dict, s \in Slot, v \in Value : todo = <<p, s, v>>
  BY <1>0 DEF TypeOK
<1>2. /\ p \in Obj
      /\ member[p][s] = NoVal /\ Usable(p)
      /\ v \in Obj => ~Leads(member, v, p)
  BY <1>0, <1>1, Translated DEF PendingOK, Obj
<1>3. member \in Members
  BY DEF TypeOK, Members
<1>4. Changed(member, member', p, s, v)
  BY <1>0, <1>1, <1>2, <1>3, ExceptChanges
<1>5. TypeOK'
  BY <1>0, <1>4 DEF TypeOK, Changed, Members
<1>6. RefCountExact'
  <2>1. \A u \in Obj : rc'[u] = own'[u] + Count(member', u) + Waiting(u)'
    <3> TAKE u \in Obj
    <3>1. /\ rc[u] \in Nat /\ own[u] \in Nat
          /\ Count(member, u) \in Nat
          /\ rc[u] = own[u] + Count(member, u) + Waiting(u)
      BY Counted, HoldersFinite
    <3>2. /\ Waiting(u)' = 0
          /\ Waiting(u) = IF u = v THEN 1 ELSE 0
      BY <1>0, <1>1 DEF Waiting
    <3>3. Count(member', u) = Count(member, u) + (IF v = u THEN 1 ELSE 0)
      BY <1>2, <1>3, <1>4, CountAdd
    <3>4. rc'[u] = rc[u] /\ own'[u] = own[u]
      BY <1>0
    <3>5. QED
      BY <3>1, <3>2, <3>3, <3>4
  <2>2. QED
    BY <2>1, ExactNext
<1>7. Referenced' /\ DeletedOnce'
  BY <1>0 DEF Referenced, DeletedOnce
<1>8. Filled'
  <2>1. p \in heap
    BY <1>2, UsableCounts DEF Referenced
  <2>2. QED
    BY <1>0, <1>4, <2>1 DEF Filled, Changed
<1>9. Acyclic'
  BY <1>2, <1>3, <1>4, NoCycleAdd, Translated, TranslatedNext
<1>10. PendingOK'
  BY <1>0 DEF PendingOK
<1>11. QED
  BY <1>5, <1>6, <1>7, <1>8, <1>9, <1>10

-----------------------------------------------------------------------------
(* Deletion.                                                               *)

\* The value whose deletion is under way is allocated, and nobody has a
\* reference to it.
LEMMA TopUnreferenced ==
    ASSUME IInv, dying # <<>>, NEW top, top = Top
    PROVE  /\ top \in heap /\ top \in Obj /\ rc[top] = 0
           /\ own[top] = 0 /\ Waiting(top) = 0
           /\ \A p \in Obj, s \in Slot : member[p][s] # top
<1> USE DEF IInv
<1>1. Len(dying) \in DOMAIN dying
  BY DEF TypeOK
<1>2. top \in heap /\ rc[top] = 0
  BY <1>1 DEF Top, DeletedOnce
<1>3. top \in Obj
  BY <1>2 DEF TypeOK
<1>4. QED
  BY <1>2, <1>3, Counted

\* What the client reaches, it reaches without the value being deleted.
LEMMA PutMemberKeeps ==
    ASSUME IInv, NEW s \in Slot, PutMember(s)
    PROVE  IInv'
<1>0. /\ dying # <<>> /\ member[Top][s] # NoVal /\ Put(member[Top][s])
      /\ member' = [member EXCEPT ![Top][s] = NoVal]
      /\ heap' = heap /\ own' = own /\ todo' = todo
  BY DEF PutMember
<1>1. PICK top : top = Top
  OBVIOUS
<1>2. /\ top \in heap /\ top \in Obj /\ own[top] = 0 /\ Waiting(top) = 0
      /\ \A p \in Obj, r \in Slot : member[p][r] # top
  BY <1>0, <1>1, TopUnreferenced
<1>3. PICK old : old = member[top][s] /\ old # NoVal /\ Put(old)
  BY <1>0, <1>1
<1>4. Changed(member, member', top, s, NoVal)
  BY <1>0, <1>1, <1>2, Emptied DEF IInv
<1>5. Dropped(old)
  BY <1>0, <1>2, <1>3, <1>4, TakenOut
<1> USE DEF IInv
<1>6. TypeOK'
  BY <1>0, <1>4, <1>5 DEF TypeOK, Dropped, Changed, Members
<1>7. RefCountExact'
  <2>1. \A u \in Obj : rc'[u] = own'[u] + Count(member', u) + Waiting(u)'
    <3> TAKE u \in Obj
    <3>1. /\ rc[u] \in Nat /\ own[u] \in Nat /\ Waiting(u) \in {0, 1}
          /\ Count(member, u) \in Nat
          /\ rc[u] = own[u] + Count(member, u) + Waiting(u)
      BY Counted, HoldersFinite
    <3>2. Waiting(u)' = Waiting(u)
      BY <1>0 DEF Waiting
    <3>3. /\ rc'[u] = rc[u] - (IF u = old THEN 1 ELSE 0)
          /\ Count(member', u) = Count(member, u) - (IF u = old THEN 1 ELSE 0)
          /\ own'[u] = own[u]
      BY <1>0, <1>5 DEF Dropped
    <3>4. QED
      BY <3>1, <3>2, <3>3
  <2>2. QED
    BY <2>1, ExactNext
<1>8. ASSUME todo # <<>>
      PROVE  PendingOK'
  <2>1. PICK p \in Dict, r \in Slot, v \in Value : todo = <<p, r, v>>
    BY <1>8 DEF TypeOK
  <2>2. /\ p \in Obj /\ member[p][r] = NoVal /\ Usable(p)
        /\ v \in Obj => ~Leads(member, v, p)
    BY <1>8, <2>1, Translated DEF PendingOK, Obj
  <2>3. member'[p][r] = NoVal
    BY <1>4, <2>2 DEF Changed
  <2>4. Usable(p)'
    <3>1. PICK o \in heap : own[o] > 0 /\ Leads(member, o, p)
      BY <2>2, Translated
    <3>2. o # top
      BY <1>2, <3>1
    <3>3. Leads(member', o, p)
      BY <1>2, <1>4, <3>1, <3>2, LeadsPast
    <3>4. QED
      BY <1>0, <3>1, <3>3, TranslatedNext
  <2>5. v \in Obj => ~Reaches(v, p)'
    BY <1>5, <2>2, LeadsLess, TranslatedNext DEF Dropped
  <2>6. todo'[1] = p /\ todo'[2] = r /\ todo'[3] = v
    BY <1>0, <2>1
  <2>7. QED
    BY <2>3, <2>4, <2>5, <2>6 DEF PendingOK, Usable, Reaches
<1>9. PendingOK'
  BY <1>0, <1>8 DEF PendingOK
<1>10. QED
  BY <1>5, <1>6, <1>7, <1>9 DEF Dropped

\* Freeing takes away what has no reference and no members.
LEMMA FreeKeeps ==
    ASSUME IInv, Free
    PROVE  IInv'
<1>0. /\ dying # <<>> /\ member[Top] = Vacant
      /\ heap' = heap \ {Top}
      /\ dying' = SubSeq(dying, 1, Len(dying) - 1)
      /\ rc' = rc /\ member' = member /\ own' = own /\ todo' = todo
  BY DEF Free
<1>1. PICK top : top = Top
  OBVIOUS
<1>2. /\ top \in heap /\ top \in Obj /\ rc[top] = 0 /\ own[top] = 0
  BY <1>0, <1>1, TopUnreferenced
<1> USE DEF IInv
<1>3. /\ dying \in Seq(Obj) /\ Len(dying) \in Nat /\ Len(dying) > 0
      /\ DOMAIN dying = 1 .. Len(dying) /\ top = dying[Len(dying)]
  BY <1>0, <1>1 DEF TypeOK, Top
<1>4. /\ dying' \in Seq(Obj)
      /\ DOMAIN dying' = 1 .. Len(dying) - 1
      /\ \A i \in 1 .. Len(dying) - 1 : dying'[i] = dying[i]
  BY <1>0, <1>3
<1>5. TypeOK'
  BY <1>0, <1>4 DEF TypeOK
<1>6. RefCountExact'
  BY <1>0 DEF RefCountExact, Waiting
<1>7. Referenced' /\ Filled'
  BY <1>0, <1>1, <1>2 DEF Referenced, Filled, Vacant
<1>8. DeletedOnce'
  <2>1. \A i, j \in DOMAIN dying' : dying'[i] = dying'[j] => i = j
    BY <1>3, <1>4 DEF DeletedOnce
  <2>2. \A i \in 1 .. Len(dying) - 1 : dying[i] # top
    BY <1>3 DEF DeletedOnce
  <2>3. {dying'[i] : i \in DOMAIN dying'} = {dying[i] : i \in DOMAIN dying} \ {top}
    BY <1>3, <1>4, <2>2
  <2>4. {v \in heap' : rc'[v] = 0} = {v \in heap : rc[v] = 0} \ {top}
    BY <1>0, <1>1
  <2>5. QED
    BY <2>1, <2>3, <2>4 DEF DeletedOnce
<1>9. Acyclic'
  BY <1>0 DEF Acyclic
<1>10. PendingOK'
  <2>1. ASSUME NEW v, Usable(v)
        PROVE  Usable(v)'
    BY <1>0, <1>1, <1>2, <2>1, Translated, TranslatedNext
  <2>2. \A v, w : Reaches(v, w)' <=> Reaches(v, w)
    BY <1>0, Translated, TranslatedNext
  <2>3. ASSUME todo # <<>>
        PROVE  PendingOK'
    <3>1. PICK p \in Dict, r \in Slot, v \in Value : todo = <<p, r, v>>
      BY <2>3 DEF TypeOK
    <3>2. /\ member[p][r] = NoVal /\ Usable(p)
          /\ v \in Obj => ~Reaches(v, p)
      BY <2>3, <3>1 DEF PendingOK
    <3>3. /\ member'[p][r] = NoVal /\ Usable(p)'
          /\ v \in Obj => ~Reaches(v, p)'
      BY <1>0, <2>1, <2>2, <3>2
    <3>4. todo'[1] = p /\ todo'[2] = r /\ todo'[3] = v
      BY <1>0, <3>1
    <3>5. QED
      BY <3>3, <3>4 DEF PendingOK, Usable, Reaches
  <2>4. QED
    BY <1>0, <2>3 DEF PendingOK
<1>11. QED
  BY <1>5, <1>6, <1>7, <1>8, <1>9, <1>10

-----------------------------------------------------------------------------
(* The specification.                                                      *)

\* Before the first call nothing is allocated.
LEMMA InitHolds ==
    ASSUME Init
    PROVE  IInv
<1> USE DEF Init
<1>1. \A v \in Obj : v # NoVal /\ \A p \in Obj, s \in Slot : member[p][s] # v
  BY KindAssumption DEF Obj, Vacant
<1>2. TypeOK
  BY DEF TypeOK, Vacant, Value
<1>3. RefCountExact
  <2>1. \A v \in Obj : Holders(member, v) = {}
    BY <1>1 DEF Holders
  <2>2. \A v \in Obj : Count(member, v) = 0
    BY <2>1, HoldersFinite
  <2>3. QED
    BY <2>2 DEF RefCountExact, Waiting, Count
<1>4. Referenced /\ Filled /\ PendingOK /\ Acyclic
  BY <1>1 DEF Referenced, Filled, PendingOK, Acyclic, Vacant
<1>5. DeletedOnce
  BY DEF DeletedOnce
<1>6. QED
  BY <1>2, <1>3, <1>4, <1>5 DEF IInv

\* Every step keeps the invariant.
LEMMA StepKeeps ==
    ASSUME IInv, [Next]_vars
    PROVE  IInv'
<1>1. ASSUME NEW v \in Obj, New(v) \/ Ref(v) \/ Deref(v)
      PROVE  IInv'
  BY <1>1, NewKeeps, RefKeeps, DerefKeeps
<1>2. ASSUME NEW p \in Obj, NEW s \in Slot, Delete(p, s)
      PROVE  IInv'
  BY <1>2, DeleteKeeps
<1>3. ASSUME NEW p \in Obj, NEW s \in Slot, NEW v \in Value,
             Store(p, s, v) \/ Replace(p, s, v)
      PROVE  IInv'
  BY <1>3, StoreKeeps, ReplaceKeeps
<1>4. CASE ReplaceEnd
  BY <1>4, ReplaceEndKeeps
<1>5. ASSUME NEW s \in Slot, PutMember(s)
      PROVE  IInv'
  BY <1>5, PutMemberKeeps
<1>6. CASE Free
  BY <1>6, FreeKeeps
<1>7. CASE UNCHANGED vars
  <2>1. /\ heap' = heap /\ rc' = rc /\ member' = member /\ own' = own
        /\ dying' = dying /\ todo' = todo
    BY <1>7 DEF vars
  <2>2. TypeOK' /\ RefCountExact'
    BY <2>1 DEF IInv, TypeOK, RefCountExact, Waiting
  <2>3. Referenced' /\ Filled'
    BY <2>1 DEF IInv, Referenced, Filled
  <2>4. DeletedOnce'
    BY <2>1 DEF IInv, DeletedOnce
  <2>5. Acyclic'
    BY <2>1, Translated, TranslatedNext DEF IInv
  <2>6. PendingOK'
    BY <2>1 DEF IInv, PendingOK, Usable, Reaches
  <2>7. QED
    BY <2>2, <2>3, <2>4, <2>5, <2>6 DEF IInv
<1>8. QED
  BY <1>1, <1>2, <1>3, <1>4, <1>5, <1>6, <1>7 DEF Next

\* The invariant holds in every state.
LEMMA Invariant == Spec => []IInv
<1>1. Init => IInv
  BY InitHolds
<1>2. IInv /\ [Next]_vars => IInv'
  BY StepKeeps
<1>3. QED
  BY <1>1, <1>2, PTL DEF Spec

\* Every variable keeps its shape; in particular no count is negative.
THEOREM TypesKept == Spec => []TypeOK
<1>1. IInv => TypeOK
  BY DEF IInv
<1>2. QED
  BY <1>1, Invariant, PTL

\* json_object_get and json_object_put keep the count of every value equal to
\* the number of its references, through every nesting of deletions.
THEOREM CountsExact == Spec => []RefCountExact
<1>1. IInv => RefCountExact
  BY DEF IInv
<1>2. QED
  BY <1>1, Invariant, PTL

\* Of json_object_put: no value that can still be referred to has been freed,
\* not even the container a replacement goes on to write to after the deletion
\* of the old value.
THEOREM NothingDangles == Spec => []NoDangling
<1>1. IInv => NoDangling
  <2> SUFFICES ASSUME IInv PROVE NoDangling
    OBVIOUS
  <2> USE DEF IInv
  <2>1. ASSUME NEW v \in Obj, own[v] > 0 \/ Holders(member, v) # {} \/ Waiting(v) > 0
        PROVE  v \in heap
    <3>1. Count(member, v) \in Nat /\ (Holders(member, v) # {} => Count(member, v) > 0)
      BY HoldersFinite
    <3>2. rc[v] > 0
      BY <2>1, <3>1, Counted
    <3>3. QED
      BY <3>2 DEF Referenced
  <2>2. ASSUME NEW p \in Obj, member[p] # Vacant
        PROVE  p \in heap
    BY <2>2 DEF Filled, Vacant, TypeOK
  <2>3. ASSUME todo # <<>>
        PROVE  todo[1] \in heap
    <3>1. todo[1] \in Obj /\ Usable(todo[1])
      BY <2>3 DEF TypeOK, PendingOK, Obj
    <3>2. QED
      BY <3>1, UsableCounts DEF Referenced
  <2>4. QED
    BY <2>1, <2>2, <2>3 DEF NoDangling
<1>2. QED
  BY <1>1, Invariant, PTL

\* No value is deleted twice at a time, and exactly those whose last reference
\* is gone are being deleted.
THEOREM NothingDeletedTwice == Spec => []DeletedOnce
<1>1. IInv => DeletedOnce
  BY DEF IInv
<1>2. QED
  BY <1>1, Invariant, PTL

\* Once the client owns nothing and no call is under way, nothing is left: of
\* what was left some value would be held by none of the others, and have no
\* reference at all.
THEOREM NothingLeaks == Spec => []NoLeak
<1>1. IInv => NoLeak
  <2> SUFFICES ASSUME IInv, Idle, \A v \in Obj : own[v] = 0, heap # {}
               PROVE  FALSE
    BY DEF NoLeak
  <2> USE DEF IInv
  <2>1. heap \in SUBSET Obj
    BY DEF TypeOK
  <2>2. PICK v \in heap : \A p \in heap, s \in Slot : member[p][s] # v
    BY <2>1 DEF Acyclic
  <2>3. v \in Obj /\ v # NoVal
    BY <2>1, KindAssumption DEF Obj
  <2>4. Holders(member, v) = {}
    BY <2>2, <2>3 DEF Holders, Filled
  <2>5. Count(member, v) = 0
    BY <2>4, HoldersFinite
  <2>6. rc[v] = 0
    BY <2>3, <2>5, Counted, WhenIdle
  <2>7. QED
    BY <2>6, WhenIdle
<1>2. QED
  BY <1>1, Invariant, PTL
=============================================================================
