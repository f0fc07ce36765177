------------------------------ MODULE JsonRefs ------------------------------
(***************************************************************************)
(* Reference counting of JSON values (json_object.c, under the ag_json API *)
(* of ag_json.c): values are shared by count, a container owns one         *)
(* reference to each of its members, and dropping the last reference frees *)
(* a value after dropping its members', recursively.                       *)
(*                                                                         *)
(* The recursion of json_object_put is a stack of values being deleted and *)
(* one step per member or free.  One thread runs: no client call begins    *)
(* before the previous one has returned.  Clients obey json_object.h: they *)
(* give away or release only references they own (112-130, 255-270), use   *)
(* only values they can still reach, and build no cycle.                   *)
(***************************************************************************)
EXTENDS Integers, Sequences, FiniteSets

CONSTANTS Dict,         \* addresses at which JSON objects are allocated
          Arr,          \* addresses at which JSON arrays are allocated
          Static,       \* the singletons null, true and false (count -1)
          Slot,         \* keys of an object, indices of an array
          NoVal,        \* the NULL pointer
          MaxOwn        \* bound: references the client holds to one value

Obj   == Dict \cup Arr
Value == Obj \cup Static \cup {NoVal}

ASSUME KindAssumption ==
    /\ IsFiniteSet(Dict) /\ IsFiniteSet(Arr) /\ IsFiniteSet(Slot)
    /\ Dict \cap Arr = {} /\ Obj \cap Static = {} /\ NoVal \notin Obj \cup Static
ASSUME BoundAssumption == MaxOwn \in Nat

VARIABLES heap,         \* allocated values
          rc,           \* jso->_ref_count
          member,       \* member[p][s]: the value container p holds at s
          own,          \* references the client owns
          dying,        \* stack of json_object_put calls that reached zero
          todo          \* json_object_object_add waiting for the old value's
                        \* deletion: <<container, slot, value>>

vars == <<heap, rc, member, own, dying, todo>>

Vacant == [s \in Slot |-> NoVal]

\* The references containers hold to value v.
Holders(m, v) == {e \in Obj \X Slot : m[e[1]][e[2]] = v}

\* w can be reached from v through members.
Reaches(v, w) ==
    \A S \in SUBSET Obj :
        (v \in S /\ \A p \in S, s \in Slot :
                        member[p][s] \in Obj => member[p][s] \in S)
            => w \in S

\* A value the client may use: one it owns, or a member of such a one.
Usable(v) == \E r \in heap : own[r] > 0 /\ Reaches(r, v)

Idle == dying = <<>> /\ todo = <<>>

-----------------------------------------------------------------------------
Init ==
    /\ heap = {}
    /\ rc = [v \in Obj |-> 0]
    /\ member = [v \in Obj |-> Vacant]
    /\ own = [v \in Obj |-> 0]
    /\ dying = <<>>
    /\ todo = <<>>

PutTwice(v) ==                                                   \* mutant
    IF v \in Obj
    THEN /\ rc' = [rc EXCEPT ![v] = @ - 2]
         /\ dying' = IF rc[v] = 2 THEN Append(dying, v) ELSE dying
    ELSE UNCHANGED <<rc, dying>>

PutEarly(v) ==                                                   \* mutant
    IF v \in Obj /\ rc[v] > 0
    THEN /\ rc' = [rc EXCEPT ![v] = @ - 1]
         /\ dying' = IF rc[v] <= 2 THEN Append(dying, v) ELSE dying
    ELSE UNCHANGED <<rc, dying>>

\* json_object_put(v) once the reference it drops has been taken out of m or
\* own: a NULL pointer or a static value is left alone; the last reference
\* starts the deletion.
Put(v) ==
    IF v \in Obj /\ rc[v] > 0
    THEN /\ rc' = [rc EXCEPT ![v] = @ - 1]
         /\ dying' = IF rc[v] = 1 THEN Append(dying, v) ELSE dying
    ELSE UNCHANGED <<rc, dying>>

\* json_object_new_object, json_object_new_array: malloc may return any
\* address that is free, a recycled one included.
New(v) ==
    /\ Idle
    /\ v \notin heap
    /\ heap' = heap \cup {v}
    /\ rc' = [rc EXCEPT ![v] = 1]
    /\ own' = [own EXCEPT ![v] = 1]
    /\ member' = [member EXCEPT ![v] = Vacant]
    /\ UNCHANGED <<dying, todo>>

\* ag_json_ref of a value the client can use.
Ref(v) ==
    /\ Idle
    /\ Usable(v)
    /\ own[v] < MaxOwn
    /\ rc' = [rc EXCEPT ![v] = @ + 1]
    /\ own' = [own EXCEPT ![v] = @ + 1]
    /\ UNCHANGED <<heap, member, dying, todo>>

\* ag_json_deref of a reference the client owns.
Deref(v) ==
    /\ Idle
    /\ own[v] > 0
    /\ own' = [own EXCEPT ![v] = @ - 1]
    /\ Put(v)
    /\ UNCHANGED <<heap, member, todo>>

\* What the client may give to container p: nothing, a static value, or a
\* reference it owns to a value that does not lead back to p.
MayGive(p, v) == v \in Obj => own[v] > 0 /\ ~Reaches(v, p)

GiveAway(v) == own' = [o \in Obj |-> IF o = v THEN own[o] - 1 ELSE own[o]]

\* ag_json_object_add of an absent key, and ag_json_array_append: the
\* container takes over the client's reference.
Store(p, s, v) ==
    /\ Idle
    /\ Usable(p) /\ MayGive(p, v)
    /\ member[p][s] = NoVal
    /\ member' = [member EXCEPT ![p][s] = v]
    /\ GiveAway(v)
    /\ UNCHANGED <<heap, rc, dying, todo>>

ReplaceLeaking(p, s, v) ==                                       \* mutant
    /\ Idle
    /\ p \in Dict
    /\ Usable(p) /\ MayGive(p, v)
    /\ member[p][s] # NoVal
    /\ member' = [member EXCEPT ![p][s] = v]
    /\ GiveAway(v)
    /\ UNCHANGED <<heap, rc, dying, todo>>

\* ag_json_object_add of a key that is present: the old value is put first,
\* with all that follows from it, and only then replaced.
Replace(p, s, v) ==
    /\ Idle
    /\ p \in Dict
    /\ Usable(p) /\ MayGive(p, v)
    /\ member[p][s] # NoVal
    /\ member' = [member EXCEPT ![p][s] = NoVal]
    /\ Put(member[p][s])
    /\ GiveAway(v)
    /\ todo' = <<p, s, v>>
    /\ UNCHANGED heap

\* existing_entry->v = val
ReplaceEnd ==
    /\ dying = <<>>
    /\ todo # <<>>
    /\ member' = [member EXCEPT ![todo[1]][todo[2]] = todo[3]]
    /\ todo' = <<>>
    /\ UNCHANGED <<heap, rc, own, dying>>

DeleteUnput(p, s) ==                                             \* mutant
    /\ Idle
    /\ p \in Dict
    /\ Usable(p)
    /\ member[p][s] # NoVal
    /\ member' = [member EXCEPT ![p][s] = NoVal]
    /\ UNCHANGED <<heap, rc, own, dying, todo>>

\* ag_json_object_del of a key that is present.
Delete(p, s) ==
    /\ Idle
    /\ p \in Dict
    /\ Usable(p)
    /\ member[p][s] # NoVal
    /\ member' = [member EXCEPT ![p][s] = NoVal]
    /\ Put(member[p][s])
    /\ UNCHANGED <<heap, own, todo>>

\* The loops of lh_table_free and array_list_free: put one member of the
\* value being deleted.  (The order of the members is left open.)
Top == dying[Len(dying)]

PutMemberAgain(s) ==                                             \* mutant
    /\ dying # <<>>
    /\ member[Top][s] # NoVal
    /\ Put(member[Top][s])
    /\ UNCHANGED <<heap, member, own, todo>>

PutMember(s) ==
    /\ dying # <<>>
    /\ member[Top][s] # NoVal
    /\ member' = [member EXCEPT ![Top][s] = NoVal]
    /\ Put(member[Top][s])
    /\ UNCHANGED <<heap, own, todo>>

FreeAgain ==                                                     \* mutant
    /\ dying # <<>>
    /\ member[Top] = Vacant
    /\ heap' = heap \ {Top}
    /\ UNCHANGED <<rc, member, own, dying, todo>>

\* json_object_generic_delete: free the value whose members are gone, and
\* return to the deletion that called for it.
Free ==
    /\ dying # <<>>
    /\ member[Top] = Vacant
    /\ heap' = heap \ {Top}
    /\ dying' = SubSeq(dying, 1, Len(dying) - 1)
    /\ UNCHANGED <<rc, member, own, todo>>

Next ==
    \/ \E v \in Obj : New(v) \/ Ref(v) \/ Deref(v)
    \/ \E p \in Obj, s \in Slot :
           \/ Delete(p, s)
           \/ \E v \in Value : Store(p, s, v) \/ Replace(p, s, v)
    \/ ReplaceEnd
    \/ \E s \in Slot : PutMember(s)
    \/ Free

Spec == Init /\ [][Next]_vars

\* A call of the library runs to its end.
LiveSpec == Spec /\ WF_vars(ReplaceEnd \/ Free \/ \E s \in Slot : PutMember(s))

-----------------------------------------------------------------------------
(* Properties.                                                             *)

Waiting(v) == IF todo # <<>> /\ todo[3] = v THEN 1 ELSE 0

\* Every variable keeps its shape.
TypeOK ==
    /\ heap \subseteq Obj
    /\ rc \in [Obj -> Nat]
    /\ own \in [Obj -> Nat]
    /\ member \in [Obj -> [Slot -> Value]]
    /\ dying \in Seq(Obj)
    /\ todo = <<>> \/ todo \in Dict \X Slot \X Value

\* The count of every value is the number of references there are to it: the
\* client's, the containers', and the one a pending replacement will store.
RefCountExact ==
    \A v \in Obj :
        rc[v] = own[v] + Cardinality(Holders(member, v)) + Waiting(v)

\* No reference outlives its value: what the client owns, a container holds
\* or a replacement is about to store is allocated, and so is every value
\* that still holds members or is being stored into.
NoDangling ==
    /\ \A v \in Obj :
          own[v] > 0 \/ Holders(member, v) # {} \/ Waiting(v) > 0 => v \in heap
    /\ \A p \in Obj : member[p] # Vacant => p \in heap
    /\ todo # <<>> => todo[1] \in heap

\* A value is deleted once: the deletions under way are of different values,
\* exactly those that are allocated and no longer referenced.
DeletedOnce ==
    /\ \A i, j \in DOMAIN dying : dying[i] = dying[j] => i = j
    /\ {dying[i] : i \in DOMAIN dying} = {v \in heap : rc[v] = 0}

\* A client that has released everything it owned leaves nothing allocated.
NoLeak == Idle /\ (\A v \in Obj : own[v] = 0) => heap = {}

\* Dropping a reference comes to an end, however deep the value, and a
\* replacement is carried out.
CallsReturn == ~Idle ~> Idle
=============================================================================
