--------------------------- MODULE SupportProofs ---------------------------
(***************************************************************************)
(* Three parts of json-c the others rest on.  The print buffer, for any    *)
(* initial size, any slack and any calls: what is written lies within what *)
(* is allocated.  The array list, for any data and any default size, 0     *)
(* included: it implements the sequence of ElementList.  The seed of the   *)
(* hash, for any threads, finitely many or not, and an int of any width:   *)
(* all hashes are made with one seed.  Assumed are the named assumptions   *)
(* of PrintBuf, ArrayList and Seed.                                        *)
(***************************************************************************)
EXTENDS PrintBuf, ArrayList, Seed, TLAPS

-----------------------------------------------------------------------------
(* The print buffer.                                                       *)

BufTypeInv == pb \in [size : Nat \ {0}, chars : Seq(Char_), ended : BOOLEAN]

BufInv == BufTypeInv /\ InBounds

\* printbuf_extend makes room for what it is asked for, and keeps what there is.
LEMMA ExtendedIsEnough ==
    ASSUME NEW size \in Nat \ {0}, NEW min \in Nat
    PROVE  /\ Extended(size, min) \in Nat \ {0}
           /\ Extended(size, min) >= min
           /\ Extended(size, min) >= size
BY SlackAssumption DEF Extended, Larger

\* A new buffer, and one that is reset, hold nothing and have room for the 0.
LEMMA EmptyFits ==
    ASSUME BufInv, pb' = NewBuf \/ pb' = ResetBuf(pb)
    PROVE  BufInv'
<1>1. /\ pb'.size \in Nat \ {0}
      /\ pb'.chars = <<>>
      /\ pb'.ended \in BOOLEAN
      /\ pb' = [size |-> pb'.size, chars |-> pb'.chars, ended |-> pb'.ended]
  <2>1. CASE pb' = NewBuf
    BY <2>1, BufSizeAssumption DEF NewBuf
  <2>2. CASE pb' = ResetBuf(pb)
    <3>1. pb.size \in Nat \ {0}
      BY DEF BufInv, BufTypeInv
    <3>2. QED
      BY <2>2, <3>1 DEF ResetBuf
  <2>3. QED
    BY <2>1, <2>2
<1>2. BufTypeInv'
  <2>1. pb'.chars \in Seq(Char_)
    BY <1>1
  <2>2. QED
    BY <1>1, <2>1 DEF BufTypeInv
<1>3. InBounds'
  BY <1>1 DEF InBounds
<1>4. QED
  BY <1>2, <1>3 DEF BufInv

\* Appended characters fit, and the 0 behind them.
LEMMA AppendFits ==
    ASSUME BufInv, NEW s \in Seq(Char_), pb' = MemAppend(pb, s)
    PROVE  BufInv'
<1> DEFINE need == Len(pb.chars) + Len(s) + 1
<1>1. /\ pb.size \in Nat \ {0} /\ pb.chars \in Seq(Char_)
      /\ Len(pb.chars) \in Nat /\ Len(s) \in Nat
      /\ need \in Nat
  BY DEF BufInv, BufTypeInv
<1>2. /\ pb.chars \o s \in Seq(Char_)
      /\ Len(pb.chars \o s) = Len(pb.chars) + Len(s)
  BY <1>1
<1>3. /\ Extended(pb.size, need) \in Nat \ {0}
      /\ Extended(pb.size, need) >= need
  <2> HIDE DEF need
  <2> QED
    BY <1>1, ExtendedIsEnough
<1>4. /\ pb'.size = IF pb.size <= need THEN Extended(pb.size, need) ELSE pb.size
      /\ pb'.chars = pb.chars \o s
      /\ pb'.ended = TRUE
      /\ pb' = [size |-> pb'.size, chars |-> pb'.chars, ended |-> pb'.ended]
  BY DEF MemAppend
<1>5. pb'.size \in Nat \ {0} /\ pb'.size >= need
  BY <1>1, <1>3, <1>4
<1>6. BufTypeInv'
  BY <1>2, <1>4, <1>5 DEF BufTypeInv
<1>7. InBounds'
  BY <1>1, <1>2, <1>4, <1>5 DEF InBounds
<1>8. QED
  BY <1>6, <1>7 DEF BufInv

\* The fast append tests the room before it writes without growing.
LEMMA FastAppendFits ==
    ASSUME BufInv, NEW s \in Seq(Char_), pb' = MemAppendFast(pb, s)
    PROVE  BufInv'
<1>1. CASE pb.size - Len(pb.chars) > Len(s)
  <2>1. /\ pb.size \in Nat \ {0} /\ pb.chars \in Seq(Char_)
        /\ Len(pb.chars) \in Nat /\ Len(s) \in Nat
    BY DEF BufInv, BufTypeInv
  <2>2. /\ pb.chars \o s \in Seq(Char_)
        /\ Len(pb.chars \o s) = Len(pb.chars) + Len(s)
    BY <2>1
  <2>3. pb' = [size |-> pb.size, chars |-> pb.chars \o s, ended |-> TRUE]
    BY <1>1 DEF MemAppendFast
  <2>4. /\ pb'.size = pb.size /\ pb'.chars = pb.chars \o s /\ pb'.ended = TRUE
        /\ pb' = [size |-> pb'.size, chars |-> pb'.chars, ended |-> pb'.ended]
    BY <2>3
  <2>5. BufTypeInv'
    BY <2>1, <2>2, <2>4 DEF BufTypeInv
  <2>6. InBounds'
    BY <1>1, <2>1, <2>2, <2>4 DEF InBounds
  <2>7. QED
    BY <2>5, <2>6 DEF BufInv
<1>2. CASE ~(pb.size - Len(pb.chars) > Len(s))
  BY <1>2, AppendFits DEF MemAppendFast
<1>3. QED
  BY <1>1, <1>2

\* Filled characters fit; the 0 they overwrite is not written again.
LEMMA FillFits ==
    ASSUME BufInv, NEW x \in Char_, NEW n \in Nat, pb' = MemSet(pb, x, n)
    PROVE  BufInv'
<1> DEFINE need == Len(pb.chars) + n
           fill == [i \in 1 .. n |-> x]
<1>1. /\ pb.size \in Nat \ {0} /\ pb.chars \in Seq(Char_) /\ pb.ended \in BOOLEAN
      /\ Len(pb.chars) \in Nat /\ need \in Nat
  BY DEF BufInv, BufTypeInv
<1>2. fill \in Seq(Char_) /\ Len(fill) = n
  OBVIOUS
<1>3. /\ pb.chars \o fill \in Seq(Char_)
      /\ Len(pb.chars \o fill) = need
  BY <1>1, <1>2
<1>4. /\ Extended(pb.size, need) \in Nat \ {0}
      /\ Extended(pb.size, need) >= need
      /\ Extended(pb.size, need) >= pb.size
  <2> HIDE DEF need
  <2> QED
    BY <1>1, ExtendedIsEnough
<1>5. /\ pb'.size = IF pb.size < need THEN Extended(pb.size, need) ELSE pb.size
      /\ pb'.chars = pb.chars \o fill
      /\ pb'.ended = (pb.ended /\ n = 0)
      /\ pb' = [size |-> pb'.size, chars |-> pb'.chars, ended |-> pb'.ended]
  BY DEF MemSet
<1>6. pb'.size \in Nat \ {0} /\ pb'.size >= need /\ pb'.size >= pb.size
  BY <1>1, <1>4, <1>5
<1>7. /\ pb'.ended \in BOOLEAN
      /\ n = 0 => pb'.ended = pb.ended
      /\ n # 0 => pb'.ended = FALSE
  <2>1. CASE n = 0
    BY <1>1, <1>5, <2>1
  <2>2. CASE n # 0
    <3>1. (pb.ended /\ n = 0) = FALSE
      BY <2>2
    <3>2. QED
      BY <1>5, <2>2, <3>1
  <2>3. QED
    BY <2>1, <2>2
<1>8. BufTypeInv'
  BY <1>3, <1>5, <1>6, <1>7 DEF BufTypeInv
<1>9. InBounds'
  <2>1. CASE n = 0
    <3>1. Len(pb'.chars) = Len(pb.chars) /\ pb'.ended = pb.ended
      BY <1>1, <1>3, <1>5, <1>7, <2>1
    <3>2. CASE pb.ended
      <4>1. Len(pb.chars) + 1 <= pb.size
        BY <3>2 DEF BufInv, InBounds
      <4>2. QED
        BY <1>1, <1>6, <3>1, <3>2, <4>1 DEF InBounds
    <3>3. CASE ~pb.ended
      <4>1. Len(pb.chars) <= pb.size
        BY <1>1, <3>3 DEF BufInv, InBounds
      <4>2. QED
        BY <1>1, <1>6, <3>1, <3>3, <4>1 DEF InBounds
    <3>4. QED
      BY <3>2, <3>3
  <2>2. CASE n # 0
    BY <1>1, <1>3, <1>5, <1>6, <1>7, <2>2 DEF InBounds
  <2>3. QED
    BY <2>1, <2>2
<1>10. QED
  BY <1>8, <1>9 DEF BufInv

\* Nothing is ever written outside the memory allocated, by any calls of
\* printbuf_memappend, its fast variant, printbuf_memset and printbuf_reset.
THEOREM WritesFit == BufSpec => []InBounds
<1>1. BufInit => BufInv
  BY BufSizeAssumption DEF BufInit, BufInv, BufTypeInv, InBounds, NewBuf
<1>2. BufInv /\ [BufNext]_pb => BufInv'
  <2>1. BufInv /\ UNCHANGED pb => BufInv'
    BY DEF BufInv, BufTypeInv, InBounds
  <2>2. QED
    BY <2>1, EmptyFits, AppendFits, FastAppendFits, FillFits DEF BufNext
<1>3. BufInv => InBounds
  BY DEF BufInv
<1>4. QED
  BY <1>1, <1>2, <1>3, PTL DEF BufSpec

-----------------------------------------------------------------------------
(* The array list.  What is inductive is that the slots behind the last    *)
(* element are NULL (BeyondIsNull): put_idx tells an element to release    *)
(* from a free slot by nothing else.                                       *)

ListTypeInv ==
    /\ arr.size \in Nat
    /\ arr.length \in Nat
    /\ arr.slots \in [0 .. arr.size - 1 -> Element]

ListInv == ListTypeInv /\ BeyondIsNull

\* The elements are a sequence, one for each slot up to the length.
LEMMA ElementsAreSeq ==
    ASSUME ListInv
    PROVE  /\ Elements \in Seq(Element)
           /\ Len(Elements) = arr.length
           /\ \A i \in 0 .. arr.length - 1 : Elements[i + 1] = arr.slots[i]
           /\ DOMAIN Elements = 1 .. arr.length
<1>1. arr.length \in Nat
  BY DEF ListInv, ListTypeInv
<1>2. Elements \in [1 .. arr.length -> Element]
  BY DEF Elements, ListInv, ListTypeInv, BeyondIsNull
<1>3. Elements \in Seq(Element) /\ Len(Elements) = arr.length
  BY <1>1, <1>2
<1>4. \A i \in 0 .. arr.length - 1 : Elements[i + 1] = arr.slots[i]
  BY <1>1 DEF Elements
<1>5. DOMAIN Elements = 1 .. arr.length
  BY DEF Elements
<1>6. QED
  BY <1>3, <1>4, <1>5

-----------------------------------------------------------------------------
(* Growing the array, and putting one element.                             *)

\* Expanding makes room for max slots, keeps what there is, and fills the rest
\* with NULL.
LEMMA ExpandedHas ==
    ASSUME ListInv, NEW max \in Nat, NEW a, a = Expanded(arr, max)
    PROVE  /\ a.size \in Nat /\ a.size >= max /\ a.size >= arr.size
           /\ a.length = arr.length
           /\ a.slots \in [0 .. a.size - 1 -> Element]
           /\ \A i \in 0 .. a.size - 1 :
                 a.slots[i] = IF i < arr.length THEN arr.slots[i] ELSE Hole
<1> DEFINE new == NewListSize(arr, max)
<1>1. /\ arr.size \in Nat /\ arr.length \in Nat /\ arr.length <= arr.size
      /\ arr.slots \in [0 .. arr.size - 1 -> Element]
      /\ \A i \in arr.length .. arr.size - 1 : arr.slots[i] = Hole
  BY DEF ListInv, ListTypeInv, BeyondIsNull
<1>2. CASE max < arr.size
  <2>1. a = arr
    BY <1>2 DEF Expanded
  <2>2. QED
    BY <1>1, <1>2, <2>1
<1>3. CASE ~(max < arr.size)
  <2>1. new \in Nat /\ new >= max /\ new >= arr.size
    BY <1>1, <1>3 DEF NewListSize
  <2>2. /\ a.size = new
        /\ a.length = arr.length
        /\ a.slots = [i \in 0 .. new - 1 |->
                         IF i < arr.size THEN arr.slots[i] ELSE Hole]
    BY <1>3 DEF Expanded
  <2> HIDE DEF new
  <2>3. \A i \in 0 .. new - 1 :
            a.slots[i] = IF i < arr.length THEN arr.slots[i] ELSE Hole
    BY <1>1, <2>1, <2>2
  <2>4. ASSUME NEW i \in 0 .. new - 1 PROVE a.slots[i] \in Element
    <3>1. a.slots[i] = IF i < arr.size THEN arr.slots[i] ELSE Hole
      BY <2>2
    <3>2. i < arr.size => i \in 0 .. arr.size - 1
      BY <1>1, <2>1
    <3>3. i < arr.size => arr.slots[i] \in Element
      BY <1>1, <3>2
    <3>4. Hole \in Element
      BY DEF Element
    <3>5. QED
      BY <3>1, <3>3, <3>4
  <2>5. a.slots \in [0 .. new - 1 -> Element]
    BY <2>2, <2>4
  <2>6. QED
    BY <2>1, <2>2, <2>3, <2>5
<1>4. QED
  BY <1>2, <1>3

\* What array_list_put_idx leaves, slot by slot, and what it releases.
LEMMA PutIdxDoes ==
    ASSUME ListInv, NEW i \in Nat, NEW d \in Element, PutIdx(i, d)
    PROVE  /\ arr'.size \in Nat /\ arr'.size >= i + 1 /\ arr'.size >= arr'.length
           /\ arr'.length = IF arr.length <= i THEN i + 1 ELSE arr.length
           /\ arr'.slots \in [0 .. arr'.size - 1 -> Element]
           /\ \A j \in 0 .. arr'.size - 1 :
                 arr'.slots[j] = IF j = i THEN d
                                 ELSE IF j < arr.length THEN arr.slots[j] ELSE Hole
           /\ released' = IF i < arr.length /\ arr.slots[i] # Hole
                          THEN {<<i, arr.slots[i]>>} ELSE {}
<1> DEFINE a == Expanded(arr, i + 1)
<1>1. /\ arr.size \in Nat /\ arr.length \in Nat /\ arr.length <= arr.size
  BY DEF ListInv, ListTypeInv, BeyondIsNull
<1>2. /\ a.size \in Nat /\ a.size >= i + 1 /\ a.size >= arr.size
      /\ a.length = arr.length
      /\ a.slots \in [0 .. a.size - 1 -> Element]
      /\ \A j \in 0 .. a.size - 1 :
            a.slots[j] = IF j < arr.length THEN arr.slots[j] ELSE Hole
  <2>1. i + 1 \in Nat
    OBVIOUS
  <2>2. QED
    BY <2>1, ExpandedHas
<1>3. arr' = Placed(a, i, d)
  BY DEF PutIdx
<1>4. released' = IF a.slots[i] # Hole THEN {<<i, a.slots[i]>>} ELSE {}
  BY DEF PutIdx
<1> HIDE DEF a
<1>5. /\ arr'.size = a.size
      /\ arr'.length = IF arr.length <= i THEN i + 1 ELSE arr.length
      /\ arr'.slots = [a.slots EXCEPT ![i] = d]
  BY <1>2, <1>3 DEF Placed
<1>6. i \in 0 .. a.size - 1
  BY <1>2
<1>7. arr'.slots \in [0 .. a.size - 1 -> Element]
  BY <1>2, <1>5, <1>6
<1>8. \A j \in 0 .. a.size - 1 :
        arr'.slots[j] = IF j = i THEN d
                        ELSE IF j < arr.length THEN arr.slots[j] ELSE Hole
  BY <1>2, <1>5, <1>6
<1>9. released' = IF i < arr.length /\ arr.slots[i] # Hole
                  THEN {<<i, arr.slots[i]>>} ELSE {}
  BY <1>1, <1>2, <1>4, <1>6
<1>10. arr'.size >= arr'.length
  BY <1>1, <1>2, <1>5
<1>11. QED
  BY <1>2, <1>5, <1>7, <1>8, <1>9, <1>10

\* Putting an element keeps the invariant, and is what the sequence promises.
LEMMA PutIdxRefines ==
    ASSUME ListInv, NEW i \in Nat, NEW d \in Element, PutIdx(i, d)
    PROVE  ListInv' /\ List!Put(i, d)
<1>1. arr.length \in Nat
  BY DEF ListInv, ListTypeInv
<1>2. ListTypeInv'
  BY <1>1, PutIdxDoes DEF ListTypeInv
<1>3. BeyondIsNull'
  BY <1>1, PutIdxDoes DEF BeyondIsNull
<1>4. /\ Len(Elements) = arr.length
      /\ \A j \in 0 .. arr.length - 1 : Elements[j + 1] = arr.slots[j]
  BY ElementsAreSeq
<1>5. Elements' = [j \in 1 .. (IF i < arr.length THEN arr.length ELSE i + 1) |->
                      IF j = i + 1 THEN d
                      ELSE IF j <= arr.length THEN Elements[j] ELSE Hole]
  <2>1. arr'.length = IF i < arr.length THEN arr.length ELSE i + 1
    BY <1>1, PutIdxDoes
  <2>2. \A j \in 1 .. arr'.length :
            arr'.slots[j - 1] = IF j = i + 1 THEN d
                                ELSE IF j <= arr.length THEN Elements[j] ELSE Hole
    <3> TAKE j \in 1 .. arr'.length
    <3>1. j - 1 \in 0 .. arr'.size - 1 /\ j \in Nat /\ j - 1 \in Nat
      BY <1>1, PutIdxDoes
    <3>2. arr'.slots[j - 1] = IF j - 1 = i THEN d
                              ELSE IF j - 1 < arr.length THEN arr.slots[j - 1] ELSE Hole
      BY <3>1, PutIdxDoes
    <3>3. j <= arr.length => Elements[j] = arr.slots[j - 1]
      BY <1>1, <3>1 DEF Elements
    <3>4. QED
      BY <1>1, <3>1, <3>2, <3>3
  <2>3. Elements' = [j \in 1 .. arr'.length |-> arr'.slots[j - 1]]
    BY DEF Elements
  <2>4. QED
    BY <2>1, <2>2, <2>3
<1>6. released' = IF i < Len(Elements) /\ Elements[i + 1] # Hole
                  THEN {<<i, Elements[i + 1]>>} ELSE {}
  <2>1. CASE i < arr.length
    <3>1. Elements[i + 1] = arr.slots[i]
      BY <1>1, <1>4, <2>1
    <3>2. QED
      BY <1>4, <2>1, <3>1, PutIdxDoes
  <2>2. CASE ~(i < arr.length)
    BY <1>4, <2>2, PutIdxDoes
  <2>3. QED
    BY <2>1, <2>2
<1>7. List!Put(i, d)
  BY <1>4, <1>5, <1>6 DEF List!Put
<1>8. QED
  BY <1>2, <1>3, <1>7 DEF ListInv

-----------------------------------------------------------------------------
(* The other operations.                                                   *)

\* Sorting moves the elements among themselves, as the sequence does.
LEMMA SortRefines ==
    ASSUME ListInv, SortList
    PROVE  ListInv' /\ List!Permute
<1>1. /\ arr.size \in Nat /\ arr.length \in Nat /\ arr.length <= arr.size
      /\ arr.slots \in [0 .. arr.size - 1 -> Element]
      /\ \A i \in arr.length .. arr.size - 1 : arr.slots[i] = Hole
  BY DEF ListInv, ListTypeInv, BeyondIsNull
<1>2. PICK p \in [0 .. arr.length - 1 -> 0 .. arr.length - 1] :
        /\ \A i, j \in 0 .. arr.length - 1 : p[i] = p[j] => i = j
        /\ arr' = [size   |-> arr.size,
                   length |-> arr.length,
                   slots  |-> [i \in 0 .. arr.size - 1 |->
                                  IF i < arr.length THEN arr.slots[p[i]]
                                  ELSE arr.slots[i]]]
  BY DEF SortList
<1>3. /\ arr'.size = arr.size
      /\ arr'.length = arr.length
      /\ arr'.slots = [i \in 0 .. arr.size - 1 |->
                          IF i < arr.length THEN arr.slots[p[i]] ELSE arr.slots[i]]
  BY <1>2
<1>4. \A i \in 0 .. arr.length - 1 :
        /\ i \in 0 .. arr.size - 1
        /\ p[i] \in 0 .. arr.length - 1 /\ p[i] \in 0 .. arr.size - 1
        /\ arr'.slots[i] = arr.slots[p[i]]
  <2> TAKE i \in 0 .. arr.length - 1
  <2>1. i \in 0 .. arr.size - 1 /\ i < arr.length
    BY <1>1
  <2>2. p[i] \in 0 .. arr.length - 1
    OBVIOUS
  <2>3. p[i] \in 0 .. arr.size - 1
    BY <1>1, <2>2
  <2>4. arr'.slots[i] = arr.slots[p[i]]
    BY <1>3, <2>1
  <2>5. QED
    BY <2>1, <2>2, <2>3, <2>4
<1>5. \A i \in 0 .. arr.size - 1 : arr'.slots[i] \in Element
  <2> TAKE i \in 0 .. arr.size - 1
  <2>1. CASE i < arr.length
    <3>1. i \in 0 .. arr.length - 1
      BY <1>1, <2>1
    <3>2. arr'.slots[i] = arr.slots[p[i]] /\ p[i] \in 0 .. arr.size - 1
      BY <1>4, <3>1
    <3>3. QED
      BY <1>1, <3>2
  <2>2. CASE ~(i < arr.length)
    BY <1>1, <1>3, <2>2
  <2>3. QED
    BY <2>1, <2>2
<1>6. ListInv'
  <2>1. arr'.slots \in [0 .. arr.size - 1 -> Element]
    BY <1>3, <1>5
  <2>2. ListTypeInv'
    BY <1>1, <1>3, <2>1 DEF ListTypeInv
  <2>3. BeyondIsNull'
    BY <1>1, <1>3 DEF BeyondIsNull
  <2>4. QED
    BY <2>2, <2>3 DEF ListInv
<1>7. List!Permute
  <2> DEFINE q == [i \in 1 .. arr.length |-> p[i - 1] + 1]
  <2>1. DOMAIN Elements = 1 .. arr.length
    BY ElementsAreSeq
  <2>2. \A i \in 1 .. arr.length :
          /\ i - 1 \in 0 .. arr.length - 1
          /\ q[i] = p[i - 1] + 1
          /\ q[i] \in 1 .. arr.length
    <3> TAKE i \in 1 .. arr.length
    <3>1. i - 1 \in 0 .. arr.length - 1
      BY <1>1
    <3>2. p[i - 1] \in 0 .. arr.length - 1
      BY <1>4, <3>1
    <3>3. QED
      BY <1>1, <3>1, <3>2
  <2>3. q \in [DOMAIN Elements -> DOMAIN Elements]
    BY <2>1, <2>2
  <2> HIDE DEF q
  <2>4. \A i, j \in DOMAIN Elements : q[i] = q[j] => i = j
    <3> SUFFICES ASSUME NEW i \in 1 .. arr.length, NEW j \in 1 .. arr.length,
                        q[i] = q[j]
                 PROVE  i = j
      BY <2>1
    <3>1. p[i - 1] = p[j - 1]
      BY <1>1, <1>4, <2>2
    <3>2. i - 1 = j - 1
      BY <1>2, <2>2, <3>1
    <3>3. QED
      BY <1>1, <3>2
  <2>5. \A i \in 1 .. arr.length : arr'.slots[i - 1] = Elements[q[i]]
    <3> TAKE i \in 1 .. arr.length
    <3>1. arr'.slots[i - 1] = arr.slots[p[i - 1]]
      BY <1>4, <2>2
    <3>2. Elements[p[i - 1] + 1] = arr.slots[p[i - 1]]
      BY <1>4, <2>2, ElementsAreSeq
    <3>3. QED
      BY <2>2, <3>1, <3>2
  <2>6. Elements' = [i \in DOMAIN Elements |-> Elements[q[i]]]
    <3>1. Elements' = [i \in 1 .. arr'.length |-> arr'.slots[i - 1]]
      BY DEF Elements
    <3>2. QED
      BY <1>3, <2>1, <2>5, <3>1
  <2>7. released' = {}
    BY DEF SortList
  <2>8. QED
    BY <2>3, <2>4, <2>6, <2>7 DEF List!Permute
<1>8. QED
  BY <1>6, <1>7

\* Releasing the array releases each element once, and no NULL.
LEMMA FreeRefines ==
    ASSUME ListInv, FreeList
    PROVE  ListInv' /\ List!Clear
<1>1. /\ arr'.size = DefaultSize
      /\ arr'.length = 0
      /\ arr'.slots = [i \in 0 .. DefaultSize - 1 |-> Hole]
  BY DEF FreeList, NewList
<1>2. ListInv'
  BY <1>1, DefaultSizeAssumption DEF ListInv, ListTypeInv, BeyondIsNull, Element
<1>3. Elements' = <<>>
  <2>1. Elements' = [j \in 1 .. 0 |-> arr'.slots[j - 1]]
    BY <1>1 DEF Elements
  <2>2. QED
    BY <2>1
<1>4. released' = {<<i - 1, Elements[i]>> :
                      i \in {i \in DOMAIN Elements : Elements[i] # Hole}}
  <2> DEFINE A == {<<i, arr.slots[i]>> :
                      i \in {i \in 0 .. arr.length - 1 : arr.slots[i] # Hole}}
             B == {<<i - 1, Elements[i]>> :
                      i \in {i \in DOMAIN Elements : Elements[i] # Hole}}
  <2>1. arr.length \in Nat
    BY DEF ListInv, ListTypeInv
  <2>2. /\ DOMAIN Elements = 1 .. arr.length
        /\ \A i \in 0 .. arr.length - 1 : Elements[i + 1] = arr.slots[i]
    BY ElementsAreSeq
  <2>3. ASSUME NEW x \in A
        PROVE  x \in B
    <3>1. PICK i \in 0 .. arr.length - 1 :
            arr.slots[i] # Hole /\ x = <<i, arr.slots[i]>>
      BY <2>3
    <3>2. /\ i + 1 \in 1 .. arr.length
          /\ Elements[i + 1] = arr.slots[i]
          /\ (i + 1) - 1 = i
      BY <2>1, <2>2
    <3>3. QED
      BY <2>2, <3>1, <3>2
  <2>4. ASSUME NEW x \in B
        PROVE  x \in A
    <3>1. PICK i \in 1 .. arr.length :
            Elements[i] # Hole /\ x = <<i - 1, Elements[i]>>
      BY <2>2, <2>4
    <3>2. /\ i - 1 \in 0 .. arr.length - 1
          /\ Elements[i] = arr.slots[i - 1]
      BY <2>1 DEF Elements
    <3>3. QED
      BY <3>1, <3>2
  <2>5. A = B
    BY <2>3, <2>4
  <2>6. QED
    BY <2>5 DEF FreeList
<1>5. QED
  BY <1>2, <1>3, <1>4 DEF List!Clear

\* Every step keeps the invariant, and is a step of the sequence or none.
LEMMA StepRefines ==
    ASSUME ListInv, [ListNext]_listVars
    PROVE  ListInv' /\ [List!Next]_(List!vars)
<1>1. ASSUME NEW i \in 0 .. MaxLength - 1, NEW d \in Element, PutIdx(i, d)
      PROVE  ListInv' /\ List!Next
  <2>1. i \in Nat
    BY <1>1, MaxLengthAssumption
  <2>2. ListInv' /\ List!Put(i, d)
    BY <1>1, <2>1, PutIdxRefines
  <2>3. QED
    BY <2>2 DEF List!Next, Element
<1>2. CASE Edit
  <2>1. ASSUME NEW d \in Element, arr.length < MaxLength, AddElement(d)
        PROVE  ListInv' /\ List!Next
    <3>1. arr.length \in 0 .. MaxLength - 1
      BY <2>1, MaxLengthAssumption DEF ListInv, ListTypeInv
    <3>2. QED
      BY <1>1, <2>1, <3>1 DEF AddElement
  <2>2. CASE SortList
    BY <2>2, SortRefines DEF List!Next
  <2>3. QED
    BY <1>1, <1>2, <2>1, <2>2 DEF Edit
<1>3. CASE FreeList
  BY <1>3, FreeRefines DEF List!Next
<1>4. CASE Dealt
  <2>1. ListInv' /\ Elements' = Elements
    BY <1>4 DEF Dealt, ListInv, ListTypeInv, BeyondIsNull, Elements
  <2>2. QED
    BY <1>4, <2>1 DEF Dealt, List!Next, List!Forget
<1>5. CASE UNCHANGED listVars
  BY <1>5 DEF listVars, ListInv, ListTypeInv, BeyondIsNull, Elements, List!vars
<1>6. QED
  BY <1>2, <1>3, <1>4, <1>5 DEF ListNext

\* A new array is a new sequence.
LEMMA InitRefines ==
    ASSUME ListInit
    PROVE  ListInv /\ List!Init
<1>1. /\ arr.size = DefaultSize
      /\ arr.length = 0
      /\ arr.slots = [i \in 0 .. DefaultSize - 1 |-> Hole]
      /\ released = {}
  BY DEF ListInit, NewList
<1>2. ListInv
  BY <1>1, DefaultSizeAssumption DEF ListInv, ListTypeInv, BeyondIsNull, Element
<1>3. Elements = <<>>
  <2>1. Elements = [j \in 1 .. 0 |-> arr.slots[j - 1]]
    BY <1>1 DEF Elements
  <2>2. QED
    BY <2>1
<1>4. QED
  BY <1>1, <1>2, <1>3 DEF List!Init

\* No slot behind the end of an array ever holds a pointer, so that nothing is
\* released twice when the array grows over it again.
THEOREM FreeSlotsAreNull == ListSpec => []BeyondIsNull
<1>1. ListInit => ListInv
  BY InitRefines
<1>2. ListInv /\ [ListNext]_listVars => ListInv'
  BY StepRefines
<1>3. ListInv => BeyondIsNull
  BY DEF ListInv
<1>4. QED
  BY <1>1, <1>2, <1>3, PTL DEF ListSpec

\* The array list implements the sequence it promises, with the releases.
THEOREM ListImplementsSequence == ListSpec => RefinesElementList
<1>1. ListInit => ListInv /\ List!Init
  BY InitRefines
<1>2. ListInv /\ [ListNext]_listVars => ListInv' /\ [List!Next]_(List!vars)
  BY StepRefines
<1>3. QED
  BY <1>1, <1>2, PTL DEF ListSpec, RefinesElementList, List!Spec

-----------------------------------------------------------------------------
(* The seed of the hash.                                                   *)

\* What the steps of a thread rely on: a seed it is about to store is none that
\* stands for no seed, and once it hashes there is a seed.
ThreadSound(th) ==
    /\ pc[th] = "swap" => seed[th] # Unset
    /\ pc[th] = "hash" => random_seed # Unset

SeedTypeInv ==
    /\ pc \in [Thread -> {"idle", "test", "draw", "swap", "hash"}]
    /\ DOMAIN seed = Thread

SeedInv ==
    /\ SeedTypeInv
    /\ \A th \in Thread : ThreadSound(th)
    /\ OneSeed

\* Nobody has hashed yet, and nobody is about to.
LEMMA SeedInitHolds == Init => SeedInv
BY DEF Init, SeedInv, SeedTypeInv, ThreadSound, OneSeed

\* Once drawn, the seed never changes: the action that could change it does so
\* only when there is none.
LEMMA SeedForGood ==
    ASSUME SeedInv, Next, random_seed # Unset
    PROVE  random_seed' = random_seed
BY DEF Next, ThreadStep, Call, Test, Draw, DrawFails, Swap, Hash, Tick

\* A step of a thread keeps what the others rely on: the seed is not lost, and
\* their places and local variables are their own.
LEMMA OthersStaySound ==
    ASSUME SeedInv, NEW th \in Thread, ThreadStep(th), NEW u \in Thread, u # th
    PROVE  ThreadSound(u)'
<1>1. pc'[u] = pc[u]
  BY DEF SeedInv, SeedTypeInv, ThreadStep, Step, Call, Test, Draw, DrawFails, Swap, Hash
<1>2. seed'[u] = seed[u]
  BY DEF SeedInv, SeedTypeInv, ThreadStep, Call, Test, Draw, DrawFails, Swap, Hash
<1>3. random_seed # Unset => random_seed' = random_seed
  BY SeedForGood DEF Next
<1>4. QED
  BY <1>1, <1>2, <1>3 DEF SeedInv, ThreadSound

\* A step of a thread keeps the invariant: its own part action by action.
LEMMA ThreadKeeps ==
    ASSUME SeedInv, NEW th \in Thread, ThreadStep(th)
    PROVE  SeedInv'
<1>1. SeedTypeInv'
  BY DEF SeedInv, SeedTypeInv, ThreadStep, Step, Call, Test, Draw, DrawFails, Swap, Hash
<1>2. ThreadSound(th)' /\ OneSeed'
  <2> USE DEF SeedInv, SeedTypeInv, Step, ThreadSound, OneSeed
  <2>1. CASE Call(th)
    BY <2>1 DEF Call
  <2>2. CASE Test(th)
    BY <2>2 DEF Test
  <2>3. CASE \E x \in Int_ : Draw(th, x)
    BY <2>3 DEF Draw
  <2>4. CASE DrawFails(th)
    BY <2>4 DEF DrawFails
  <2>5. CASE Swap(th)
    BY <2>5 DEF Swap
  <2>6. CASE Hash(th)
    BY <2>6 DEF Hash
  <2>7. QED
    BY <2>1, <2>2, <2>3, <2>4, <2>5, <2>6 DEF ThreadStep
<1>3. \A u \in Thread : ThreadSound(u)'
  BY <1>2, OthersStaySound
<1>4. QED
  BY <1>1, <1>2, <1>3 DEF SeedInv

\* Every step keeps the invariant.
LEMMA SeedStepKeeps == SeedInv /\ [Next]_vars => SeedInv'
<1>1. ASSUME SeedInv, UNCHANGED vars
      PROVE  SeedInv'
  BY <1>1 DEF SeedInv, SeedTypeInv, ThreadSound, OneSeed, vars
<1>2. ASSUME SeedInv, Tick
      PROVE  SeedInv'
  BY <1>2 DEF SeedInv, SeedTypeInv, ThreadSound, OneSeed, Tick
<1>3. QED
  BY <1>1, <1>2, ThreadKeeps DEF Next

\* However many threads race through their first calls, every hash is made
\* with the one seed that stays, and none with -1.
THEOREM HashesAgree == Spec => []OneSeed
<1>1. SeedInv => OneSeed
  BY DEF SeedInv
<1>2. QED
  BY <1>1, SeedInitHolds, SeedStepKeeps, PTL DEF Spec

\* The seed, once there is one, is kept for good: a table filled yesterday is
\* still hashed as it was.
THEOREM SeedStays == Spec => [][random_seed # Unset => random_seed' = random_seed]_vars
<1>1. SeedInv /\ [Next]_vars =>
        [random_seed # Unset => random_seed' = random_seed]_vars
  BY SeedForGood DEF vars
<1>2. QED
  BY <1>1, SeedInitHolds, SeedStepKeeps, PTL DEF Spec
=============================================================================
