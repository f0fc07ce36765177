-------------------------- MODULE AgGraphProofs ---------------------------
(***************************************************************************)
(* Paths of a graph, for any set of paths and any first length of the      *)
(* buffer: no part overruns the buffer, what is read of a well-formed path *)
(* is what was sent, and every string has one owner.  Assumed are the      *)
(* named assumptions of AgGraph and, where it is said, that the paths are  *)
(* well-formed.                                                            *)
(*                                                                         *)
(* The lemmas up to the buffer are about texts: what stands where in the   *)
(* text of an id, a vertex, an edge and a path, and what the tokenizer     *)
(* makes of it there.                                                      *)
(***************************************************************************)
EXTENDS AgGraph, ScalarsProofs, FiniteSetTheorems, SequenceTheorems, TLAPS

-----------------------------------------------------------------------------
(* Characters of a text.                                                   *)

\* The first position of a set of positions.
LEMMA FirstOfIs ==
    ASSUME NEW S, S \subseteq Nat, NEW m \in S, \A d \in S : m <= d
    PROVE  FirstOf(S) = m
<1>1. Min(S) \in S /\ Min(S) <= m
  BY MinIsNat
<1>2. Min(S) \in Nat /\ m \in Nat /\ m <= Min(S)
  BY <1>1
<1>3. Min(S) = m
  BY <1>1, <1>2
<1>4. QED
  BY <1>3 DEF FirstOf

\* x stands in text s behind position b.
Stands(s, b, x) ==
    /\ b + Len(x) <= Len(s)
    /\ \A i \in 1 .. Len(x) : s[b + i] = x[i]

\* Characters ch from p to the one in front of q.
Count(s, ch, p, q) == Cardinality({i \in p .. q - 1 : s[i] = ch})

\* The count goes up with the character counted.
LEMMA CountStep ==
    ASSUME NEW s, NEW ch, NEW p \in Nat, NEW q \in Nat, p <= q
    PROVE  /\ Count(s, ch, p, q) \in Nat
           /\ s[q] = ch => Count(s, ch, p, q + 1) = Count(s, ch, p, q) + 1
           /\ s[q] # ch => Count(s, ch, p, q + 1) = Count(s, ch, p, q)
<1> DEFINE C == {i \in p .. q - 1 : s[i] = ch}
           D == {i \in p .. (q + 1) - 1 : s[i] = ch}
<1>1. IsFiniteSet(p .. q - 1)
  BY FS_Interval
<1>2. C \in SUBSET (p .. q - 1)
  OBVIOUS
<1>3. IsFiniteSet(C)
  BY <1>1, <1>2, FS_Subset
<1>4. Cardinality(C) \in Nat
  BY <1>3, FS_CardinalityType
<1>5. p .. (q + 1) - 1 = (p .. q - 1) \cup {q} /\ q \notin p .. q - 1
  OBVIOUS
<1>6. Count(s, ch, p, q) = Cardinality(C) /\ Count(s, ch, p, q + 1) = Cardinality(D)
  BY DEF Count
<1>7. CASE s[q] = ch
  <2>1. D = C \cup {q} /\ q \notin C
    BY <1>5, <1>7
  <2> HIDE DEF C, D
  <2>2. Cardinality(C \cup {q}) = Cardinality(C) + 1
    BY <1>3, <2>1, FS_AddElement
  <2>3. QED
    BY <1>4, <1>6, <1>7, <2>1, <2>2
<1>8. CASE s[q] # ch
  <2>1. D = C
    BY <1>5, <1>8
  <2> HIDE DEF C, D
  <2>2. QED
    BY <1>4, <1>6, <1>8, <2>1
<1>9. QED
  BY <1>7, <1>8

\* Characters that open and close properties, and the one between two parts.
Opening == "{"
Closing == "}"
Comma   == ","

\* What a text is made of.  (The provers do not know that a literal is in STRING.)
Character == STRING \cup {Opening, Closing, Comma, "[", "]", "."} \cup Range(Figures)

\* The depth, by the counts of both braces.
LEMMA NestingCounts ==
    \A s, p, q : Nesting(s, p, q) = Count(s, Opening, p, q) - Count(s, Closing, p, q)
BY Zenon DEF Nesting, Count, Opening, Closing

\* Characters that mean something differ.
LEMMA Characters ==
    /\ Opening # Closing /\ Opening # Comma /\ Closing # Comma
    /\ Opening # "[" /\ Closing # "[" /\ Comma # "["
    /\ Opening # "]" /\ Closing # "]" /\ Comma # "]"
BY Zenon DEF Opening, Closing, Comma

\* The depth changes at braces only.
LEMMA NestingStep ==
    ASSUME NEW s, NEW p \in Nat, NEW q \in Nat, p <= q
    PROVE  /\ Nesting(s, p, q) \in Int
           /\ s[q] = Opening => Nesting(s, p, q + 1) = Nesting(s, p, q) + 1
           /\ s[q] = Closing => Nesting(s, p, q + 1) = Nesting(s, p, q) - 1
           /\ s[q] \notin {Opening, Closing} => Nesting(s, p, q + 1) = Nesting(s, p, q)
<1>1. /\ Count(s, Opening, p, q) \in Nat
      /\ s[q] = Opening => Count(s, Opening, p, q + 1) = Count(s, Opening, p, q) + 1
      /\ s[q] # Opening => Count(s, Opening, p, q + 1) = Count(s, Opening, p, q)
  BY CountStep
<1>2. /\ Count(s, Closing, p, q) \in Nat
      /\ s[q] = Closing => Count(s, Closing, p, q + 1) = Count(s, Closing, p, q) + 1
      /\ s[q] # Closing => Count(s, Closing, p, q + 1) = Count(s, Closing, p, q)
  BY CountStep
<1>3. /\ Nesting(s, p, q) = Count(s, Opening, p, q) - Count(s, Closing, p, q)
      /\ Nesting(s, p, q + 1) = Count(s, Opening, p, q + 1) - Count(s, Closing, p, q + 1)
  BY NestingCounts
<1>4. Nesting(s, p, q) \in Int
  BY <1>1, <1>2, <1>3
<1>5. CASE s[q] = Opening
  <2>1. s[q] # Closing
    BY <1>5, Characters
  <2>2. QED
    BY <1>1, <1>2, <1>3, <1>4, <1>5, <2>1
<1>6. CASE s[q] = Closing
  <2>1. s[q] # Opening
    BY <1>6, Characters
  <2>2. QED
    BY <1>1, <1>2, <1>3, <1>4, <1>6, <2>1
<1>7. CASE s[q] # Opening /\ s[q] # Closing
  BY <1>1, <1>2, <1>3, <1>4, <1>7
<1>8. QED
  BY <1>5, <1>6, <1>7

\* Where no brace is, the depth stays 0.
LEMMA NestingFlat ==
    ASSUME NEW s, NEW p \in Nat, NEW q \in Nat,
           \A i \in p .. q - 1 : s[i] # Opening /\ s[i] # Closing
    PROVE  Nesting(s, p, q) = 0
<1>1. ASSUME NEW ch \in {Opening, Closing} PROVE Count(s, ch, p, q) = 0
  <2>1. {i \in p .. q - 1 : s[i] = ch} = {}
    OBVIOUS
  <2>2. QED
    BY <2>1, FS_EmptySet, Zenon DEF Count
<1>2. Count(s, Opening, p, q) = 0 /\ Count(s, Closing, p, q) = 0
  BY <1>1
<1>3. Nesting(s, p, q) = Count(s, Opening, p, q) - Count(s, Closing, p, q)
  BY NestingCounts
<1>4. QED
  BY <1>2, <1>3

\* Counting starts outside properties.
LEMMA NestingStart ==
    ASSUME NEW s, NEW p \in Nat
    PROVE  Nesting(s, p, p) = 0
<1>1. p .. p - 1 = {}
  OBVIOUS
<1>2. \A i \in p .. p - 1 : s[i] # Opening /\ s[i] # Closing
  BY <1>1
<1>3. QED
  BY <1>2, NestingFlat

\* The depth within x is the same wherever x stands.
LEMMA NestingMoves ==
    ASSUME NEW s, NEW b \in Nat, NEW x, Len(x) \in Nat, Stands(s, b, x)
    PROVE  \A q \in 1 .. Len(x) + 1 : Nesting(s, b + 1, b + q) = Nesting(x, 1, q)
<1> DEFINE S == {n \in Nat : n <= Len(x) =>
                    Nesting(s, b + 1, b + (n + 1)) = Nesting(x, 1, n + 1)}
<1>1. 0 \in S
  <2>1. b + (0 + 1) = b + 1 /\ 0 + 1 = 1
    OBVIOUS
  <2>2. QED
    BY <2>1, NestingStart
<1>2. ASSUME NEW n \in Nat, n \in S PROVE n + 1 \in S
  <2> SUFFICES ASSUME n + 1 <= Len(x)
               PROVE  Nesting(s, b + 1, b + ((n + 1) + 1)) = Nesting(x, 1, (n + 1) + 1)
    OBVIOUS
  <2> DEFINE m == n + 1
             r == b + m
  <2>1. Nesting(s, b + 1, r) = Nesting(x, 1, m)
    BY <1>2
  <2>2. s[r] = x[m]
    BY DEF Stands
  <2>3. r \in Nat /\ b + 1 \in Nat /\ b + 1 <= r /\ m \in Nat /\ 1 <= m
    OBVIOUS
  <2>4. b + ((n + 1) + 1) = r + 1
    OBVIOUS
  <2> HIDE DEF m, r
  <2>5. /\ s[r] = Opening => Nesting(s, b + 1, r + 1) = Nesting(s, b + 1, r) + 1
        /\ s[r] = Closing => Nesting(s, b + 1, r + 1) = Nesting(s, b + 1, r) - 1
        /\ s[r] \notin {Opening, Closing} =>
               Nesting(s, b + 1, r + 1) = Nesting(s, b + 1, r)
    BY <2>3, NestingStep, SMTT(30)
  <2>6. /\ x[m] = Opening => Nesting(x, 1, m + 1) = Nesting(x, 1, m) + 1
        /\ x[m] = Closing => Nesting(x, 1, m + 1) = Nesting(x, 1, m) - 1
        /\ x[m] \notin {Opening, Closing} => Nesting(x, 1, m + 1) = Nesting(x, 1, m)
    BY <2>3, NestingStep
  <2>7. Nesting(s, b + 1, r + 1) = Nesting(x, 1, m + 1)
    BY <2>1, <2>2, <2>5, <2>6
  <2>8. QED
    BY <2>4, <2>7 DEF m
<1>3. \A n \in Nat : n \in S
  <2> HIDE DEF S
  <2>1. QED
    BY <1>1, <1>2, NatSet
<1>4. TAKE q \in 1 .. Len(x) + 1
<1>5. q - 1 \in Nat /\ q - 1 <= Len(x) /\ (q - 1) + 1 = q
  OBVIOUS
<1>6. QED
  BY <1>3, <1>5

\* The depth on the way from p over m to q.
LEMMA NestingAdds ==
    ASSUME NEW s, NEW p \in Nat, NEW m \in Nat, p <= m, NEW q \in Nat, m <= q
    PROVE  Nesting(s, p, q) = Nesting(s, p, m) + Nesting(s, m, q)
<1> DEFINE S == {n \in Nat :
                    Nesting(s, p, m + n) = Nesting(s, p, m) + Nesting(s, m, m + n)}
<1>0. Nesting(s, p, m) \in Int
  BY NestingStep
<1>1. 0 \in S
  <2>1. m + 0 = m
    OBVIOUS
  <2>2. QED
    BY <1>0, <2>1, NestingStart
<1>2. ASSUME NEW n \in Nat, n \in S PROVE n + 1 \in S
  <2> DEFINE r == m + n
  <2>1. r \in Nat /\ p <= r /\ m <= r /\ m + (n + 1) = r + 1
    OBVIOUS
  <2>2. Nesting(s, p, r) = Nesting(s, p, m) + Nesting(s, m, r)
    BY <1>2
  <2> HIDE DEF r
  <2>3. /\ Nesting(s, p, r) \in Int
        /\ s[r] = Opening => Nesting(s, p, r + 1) = Nesting(s, p, r) + 1
        /\ s[r] = Closing => Nesting(s, p, r + 1) = Nesting(s, p, r) - 1
        /\ s[r] \notin {Opening, Closing} => Nesting(s, p, r + 1) = Nesting(s, p, r)
    BY <2>1, NestingStep
  <2>4. /\ Nesting(s, m, r) \in Int
        /\ s[r] = Opening => Nesting(s, m, r + 1) = Nesting(s, m, r) + 1
        /\ s[r] = Closing => Nesting(s, m, r + 1) = Nesting(s, m, r) - 1
        /\ s[r] \notin {Opening, Closing} => Nesting(s, m, r + 1) = Nesting(s, m, r)
    BY <2>1, NestingStep
  <2>5. Nesting(s, p, r + 1) = Nesting(s, p, m) + Nesting(s, m, r + 1)
    BY <1>0, <2>2, <2>3, <2>4
  <2>6. QED
    BY <2>1, <2>5
<1>3. \A n \in Nat : n \in S
  <2> HIDE DEF S
  <2>1. QED
    BY <1>1, <1>2, NatSet
<1>4. q - m \in Nat /\ m + (q - m) = q
  OBVIOUS
<1>5. QED
  BY <1>3, <1>4

\* Being in an id, within x, is the same wherever x stands.
LEMMA InGidMoves ==
    ASSUME NEW s, NEW b \in Nat, NEW x, Len(x) \in Nat, Stands(s, b, x)
    PROVE  \A q \in 1 .. Len(x) + 1 : InGid(s, b + 1, b + q) <=> InGid(x, 1, q)
<1> TAKE q \in 1 .. Len(x) + 1
<1>1. \A i \in 1 .. Len(x) : s[b + i] = x[i]
  BY DEF Stands
<1>2. \A i \in 1 .. Len(x) + 1 : Nesting(s, b + 1, b + i) = Nesting(x, 1, i)
  BY NestingMoves, ZenonT(30)
<1>3. ASSUME InGid(s, b + 1, b + q) PROVE InGid(x, 1, q)
  <2>1. PICK r \in b + 1 .. (b + q) - 1 :
            /\ s[r] = "[" /\ Nesting(s, b + 1, r) = 0
            /\ \A i \in r + 1 .. (b + q) - 1 : s[i] # "]"
    BY <1>3 DEF InGid
  <2>2. r - b \in 1 .. q - 1 /\ b + (r - b) = r
    BY <2>1
  <2>3. x[r - b] = "[" /\ Nesting(x, 1, r - b) = 0
    <3>1. r - b \in 1 .. Len(x) /\ r - b \in 1 .. Len(x) + 1
      BY <2>2
    <3>2. /\ s[b + (r - b)] = x[r - b]
          /\ Nesting(s, b + 1, b + (r - b)) = Nesting(x, 1, r - b)
      BY <1>1, <1>2, <3>1
    <3>3. QED
      BY <2>1, <2>2, <3>2
  <2>4. ASSUME NEW i \in (r - b) + 1 .. q - 1 PROVE x[i] # "]"
    <3>1. b + i \in r + 1 .. (b + q) - 1 /\ i \in 1 .. Len(x)
      BY <2>1
    <3>2. s[b + i] # "]" /\ s[b + i] = x[i]
      BY <1>1, <2>1, <3>1
    <3>3. QED
      BY <3>2
  <2>5. QED
    BY <2>2, <2>3, <2>4 DEF InGid
<1>4. ASSUME InGid(x, 1, q) PROVE InGid(s, b + 1, b + q)
  <2>1. PICK r \in 1 .. q - 1 :
            /\ x[r] = "[" /\ Nesting(x, 1, r) = 0
            /\ \A i \in r + 1 .. q - 1 : x[i] # "]"
    BY <1>4 DEF InGid
  <2>2. b + r \in b + 1 .. (b + q) - 1
    BY <2>1
  <2>3. s[b + r] = "[" /\ Nesting(s, b + 1, b + r) = 0
    BY <1>1, <1>2, <2>1
  <2>4. ASSUME NEW i \in (b + r) + 1 .. (b + q) - 1 PROVE s[i] # "]"
    <3>1. i - b \in r + 1 .. q - 1 /\ i - b \in 1 .. Len(x) /\ b + (i - b) = i
      BY <2>1
    <3>2. s[b + (i - b)] = x[i - b] /\ x[i - b] # "]"
      BY <1>1, <2>1, <3>1
    <3>3. QED
      BY <3>1, <3>2
  <2>5. QED
    BY <2>2, <2>3, <2>4 DEF InGid
<1>5. QED
  BY <1>3, <1>4

\* x has no comma at which get_path_token stops, and one behind x stops it.
OnePart(x) ==
    /\ \A q \in 1 .. Len(x) : x[q] = Comma => Nesting(x, 1, q) # 0 \/ InGid(x, 1, q)
    /\ Nesting(x, 1, Len(x) + 1) = 0
    /\ ~InGid(x, 1, Len(x) + 1)

\* A part is read where it stands.
LEMMA PartIsRead ==
    ASSUME NEW s \in Seq(Character), NEW b \in Nat, NEW x \in Seq(Character),
           Stands(s, b, x), OnePart(x),
           b + Len(x) # Len(s) => s[b + Len(x) + 1] = Comma,
           NEW t, t.end = b, b = 0 => t.start = 1
    PROVE  /\ GetPathToken(s, t) = [start |-> b + 1, end |-> b + Len(x) + 1]
           /\ Token(s, GetPathToken(s, t)) = x
<1> DEFINE stop == {q \in b + 1 .. Len(s) :
                       /\ s[q] = Comma /\ Nesting(s, b + 1, q) = 0
                       /\ ~InGid(s, b + 1, q)}
<1>1. Len(s) \in Nat /\ Len(x) \in Nat
  BY LenProperties
<1>2. (IF t.end # Null THEN t.end + 1 ELSE t.start) = b + 1
  BY DEF Null
<1>3. GetPathToken(s, t) =
          [start |-> b + 1, end |-> IF stop = {} THEN Len(s) + 1 ELSE Min(stop)]
  BY <1>2, Zenon DEF GetPathToken, Comma
<1>5. /\ \A q \in 1 .. Len(x) + 1 : Nesting(s, b + 1, b + q) = Nesting(x, 1, q)
      /\ \A q \in 1 .. Len(x) + 1 : InGid(s, b + 1, b + q) <=> InGid(x, 1, q)
  BY <1>1, NestingMoves, InGidMoves, ZenonT(30)
<1>4. ASSUME NEW q \in stop PROVE q >= b + Len(x) + 1
  <2>1. SUFFICES ASSUME q < b + Len(x) + 1 PROVE FALSE
    BY <1>1
  <2>2. q - b \in 1 .. Len(x) /\ q - b \in 1 .. Len(x) + 1 /\ b + (q - b) = q
    BY <1>1, <2>1
  <2>3. x[q - b] = Comma
    BY <2>2 DEF Stands
  <2>4. Nesting(x, 1, q - b) = 0
    <3>1. Nesting(s, b + 1, b + (q - b)) = Nesting(x, 1, q - b)
      BY <1>5, <2>2
    <3>2. QED
      BY <2>2, <3>1
  <2>5. ~InGid(x, 1, q - b)
    <3>1. InGid(s, b + 1, b + (q - b)) <=> InGid(x, 1, q - b)
      BY <1>5, <2>2
    <3>2. QED
      BY <2>2, <3>1
  <2>6. QED
    BY <2>2, <2>3, <2>4, <2>5 DEF OnePart
<1>11. b + Len(x) <= Len(s)
  BY DEF Stands
<1>6. (IF stop = {} THEN Len(s) + 1 ELSE Min(stop)) = b + Len(x) + 1
  <2>1. CASE b + Len(x) = Len(s)
    <3>1. stop = {}
      BY <1>1, <1>4, <2>1
    <3>2. QED
      BY <2>1, <3>1
  <2>2. CASE b + Len(x) # Len(s)
    <3> DEFINE e == b + (Len(x) + 1)
    <3>1. s[e] = Comma /\ e \in b + 1 .. Len(s) /\ e = b + Len(x) + 1
      BY <1>1, <1>11, <2>2
    <3>2. Len(x) + 1 \in 1 .. Len(x) + 1
      BY <1>1
    <3>3. Nesting(s, b + 1, e) = 0
      BY <1>5, <3>2 DEF OnePart
    <3>4. ~InGid(s, b + 1, e)
      BY <1>5, <3>2 DEF OnePart
    <3>5. e \in stop
      BY <3>1, <3>3, <3>4
    <3>6. stop \subseteq Nat
      BY <1>1
    <3> HIDE DEF stop
    <3>7. Min(stop) \in stop /\ Min(stop) <= e
      BY <3>5, <3>6, MinIsNat
    <3>8. Min(stop) >= e /\ Min(stop) \in Nat /\ e \in Nat
      <4>1. \A q \in stop : q >= b + Len(x) + 1
        BY <1>4
      <4>2. Min(stop) >= b + Len(x) + 1
        BY <3>7, <4>1
      <4>3. Min(stop) \in Nat
        BY <3>6, <3>7
      <4>4. QED
        BY <1>1, <3>1, <4>2, <4>3
    <3>9. Min(stop) = e /\ stop # {}
      BY <3>5, <3>7, <3>8
    <3>10. (IF stop = {} THEN Len(s) + 1 ELSE Min(stop)) = e
      BY <3>9
    <3>11. e = b + Len(x) + 1
      BY <3>1
    <3> HIDE DEF e
    <3>12. QED
      BY <3>10, <3>11
  <2>3. QED
    BY <2>1, <2>2
<1>7. GetPathToken(s, t) = [start |-> b + 1, end |-> b + Len(x) + 1]
  BY <1>3, <1>6
<1>8. Token(s, GetPathToken(s, t)) = SubSeq(s, b + 1, b + Len(x))
  BY <1>1, <1>7 DEF Token
<1>9. SubSeq(s, b + 1, b + Len(x)) = x
  <2>1. \A i \in b + 1 .. b + Len(x) : s[i] \in Character
    BY <1>1, <1>11, ElementOfSeq
  <2>2. /\ SubSeq(s, b + 1, b + Len(x)) \in Seq(Character)
        /\ Len(SubSeq(s, b + 1, b + Len(x))) = Len(x)
        /\ \A i \in 1 .. Len(x) : SubSeq(s, b + 1, b + Len(x))[i] = s[b + i]
    BY <1>1, <2>1, SubSeqProperties
  <2>3. \A i \in 1 .. Len(x) : s[b + i] = x[i]
    BY DEF Stands
  <2>4. QED
    BY <2>2, <2>3, SeqEqual
<1>10. QED
  BY <1>7, <1>8, <1>9

\* What it says of the braces.
LEMMA BalancedIs ==
    ASSUME NEW x, Balanced(x)
    PROVE  /\ x # <<>> /\ x[1] = Opening
           /\ \A q \in 2 .. Len(x) : Nesting(x, 1, q) >= 1
           /\ Nesting(x, 1, Len(x) + 1) = 0
BY Zenon DEF Balanced, Opening

\* The last character of properties closes them, and none before it does.
LEMMA BalancedCloses ==
    ASSUME NEW x \in Seq(Character), Balanced(x)
    PROVE  /\ Len(x) \in Nat /\ Len(x) >= 2
           /\ \A q \in 1 .. Len(x) :
                  x[q] = Closing /\ Nesting(x, 1, q) = 1 <=> q = Len(x)
<1>0. x[1] = Opening
  BY BalancedIs
<1>1. /\ Len(x) \in Nat /\ Len(x) >= 1
      /\ \A q \in 2 .. Len(x) : Nesting(x, 1, q) >= 1
      /\ Nesting(x, 1, Len(x) + 1) = 0
  BY EmptySeq, BalancedIs
<1>2. Nesting(x, 1, 1) = 0
  BY NestingStart
<1>3. \A q \in 1 .. Len(x) :
          /\ Nesting(x, 1, q) \in Int
          /\ x[q] = Opening => Nesting(x, 1, q + 1) = Nesting(x, 1, q) + 1
          /\ x[q] = Closing => Nesting(x, 1, q + 1) = Nesting(x, 1, q) - 1
          /\ x[q] \notin {Opening, Closing} => Nesting(x, 1, q + 1) = Nesting(x, 1, q)
  BY <1>1, NestingStep
<1>4. Len(x) >= 2
  <2>1. ASSUME Len(x) = 1 PROVE FALSE
    <3> DEFINE n == Len(x)
    <3>1. Nesting(x, 1, n + 1) = 0
      BY <1>1
    <3>2. n = 1 /\ n \in 1 .. Len(x)
      BY <2>1
    <3> HIDE DEF n
    <3>3. x[n] = Opening /\ Nesting(x, 1, n) = 0
      BY <1>0, <1>2, <3>2
    <3>4. Nesting(x, 1, n + 1) = Nesting(x, 1, n) + 1
      BY <1>3, <3>2, <3>3
    <3>5. QED
      BY <3>1, <3>3, <3>4
  <2>2. Len(x) \in Nat /\ Len(x) # 0 /\ Len(x) # 1
    BY <1>1, <2>1
  <2>3. \A k \in Nat : k # 0 /\ k # 1 => k >= 2
    OBVIOUS
  <2>4. QED
    BY <2>2, <2>3, Zenon
<1>5. x[Len(x)] = Closing /\ Nesting(x, 1, Len(x)) = 1
  <2> DEFINE n == Len(x)
  <2>1. n \in 1 .. Len(x) /\ n \in 2 .. Len(x)
    BY <1>1, <1>4
  <2>2. Nesting(x, 1, n) >= 1 /\ Nesting(x, 1, n + 1) = 0
    BY <1>1, <2>1
  <2> HIDE DEF n
  <2>3. x[n] \notin {Opening, Closing} => Nesting(x, 1, n + 1) = Nesting(x, 1, n)
    BY <1>3, <2>1
  <2>4. x[n] # Opening
    BY <1>3, <2>1, <2>2
  <2>5. x[n] = Closing
    BY <2>2, <2>3, <2>4
  <2>6. Nesting(x, 1, n) = 1
    BY <1>3, <2>1, <2>2, <2>5
  <2>7. QED
    BY <2>5, <2>6 DEF n
<1>6. ASSUME NEW q \in 1 .. Len(x), x[q] = Closing, Nesting(x, 1, q) = 1, q # Len(x)
      PROVE  FALSE
  <2>1. q + 1 \in 2 .. Len(x)
    BY <1>1, <1>6
  <2>2. Nesting(x, 1, q + 1) >= 1
    BY <1>1, <2>1
  <2>3. Nesting(x, 1, q + 1) = Nesting(x, 1, q) - 1
    BY <1>3, <1>6
  <2>4. QED
    BY <1>6, <2>2, <2>3
<1>7. Len(x) \in 1 .. Len(x)
  BY <1>1
<1>8. QED
  BY <1>1, <1>4, <1>5, <1>6

\* get_props finds the end of properties that end a text.
LEMMA PropsEnd ==
    ASSUME NEW s, NEW n \in Nat, NEW x \in Seq(Character), Balanced(x), Stands(s, n, x),
           Len(s) = n + Len(x)
    PROVE  GetProps(s, n + 1) = Len(s)
<1> DEFINE S == {q \in n + 1 .. Len(s) : s[q] = Closing /\ Nesting(s, n + 1, q) = 1}
<1>1. Len(x) \in Nat /\ Len(x) >= 2
  BY BalancedCloses
<1>2. \A q \in 1 .. Len(x) : x[q] = Closing /\ Nesting(x, 1, q) = 1 <=> q = Len(x)
  BY BalancedCloses
<1>3. \A q \in 1 .. Len(x) : s[n + q] = x[q]
  BY DEF Stands
<1>4. \A q \in 1 .. Len(x) + 1 : Nesting(s, n + 1, n + q) = Nesting(x, 1, q)
  BY <1>1, NestingMoves, ZenonT(30)
<1>5. GetProps(s, n + 1) = FirstOf(S)
  BY Zenon DEF GetProps, Closing
<1>6. ASSUME NEW q \in S PROVE q = Len(s)
  <2>1. q \in n + 1 .. Len(s) /\ s[q] = Closing /\ Nesting(s, n + 1, q) = 1
    BY <1>6
  <2>2. q - n \in 1 .. Len(x) /\ q - n \in 1 .. Len(x) + 1 /\ n + (q - n) = q
    BY <1>1, <2>1
  <2>3. s[n + (q - n)] = x[q - n] /\ Nesting(s, n + 1, n + (q - n)) = Nesting(x, 1, q - n)
    BY <1>3, <1>4, <2>2
  <2>4. x[q - n] = Closing /\ Nesting(x, 1, q - n) = 1
    BY <2>1, <2>2, <2>3
  <2>5. q - n = Len(x)
    BY <1>2, <2>2, <2>4
  <2>6. QED
    BY <2>1, <2>5, <1>1
<1>7. Len(s) \in S
  <2>1. Len(x) \in 1 .. Len(x) /\ Len(x) \in 1 .. Len(x) + 1
    BY <1>1
  <2>2. x[Len(x)] = Closing /\ Nesting(x, 1, Len(x)) = 1
    BY <1>2, <2>1
  <2>3. s[n + Len(x)] = Closing /\ Nesting(s, n + 1, n + Len(x)) = 1
    BY <1>3, <1>4, <2>1, <2>2
  <2>4. Len(s) \in n + 1 .. Len(s)
    BY <1>1
  <2>5. QED
    BY <2>3, <2>4
<1>8. S \subseteq Nat
  BY <1>1
<1>9. \A d \in S : Len(s) <= d
  BY <1>1, <1>6
<1> HIDE DEF S
<1>10. QED
  BY <1>5, <1>7, <1>8, <1>9, FirstOfIs

\* A text of a head without braces, which ends with an id, and properties.
LEMMA HeadAndProps ==
    ASSUME NEW s, NEW n \in Nat, n # 0, NEW x \in Seq(Character), Balanced(x), Stands(s, n, x),
           Len(s) = n + Len(x), s[n] = "]",
           \A i \in 1 .. n : s[i] # Opening /\ s[i] # Closing,
           \A q \in 1 .. n : s[q] = Comma => InGid(s, 1, q)
    PROVE  OnePart(s)
<1>1. Len(x) \in Nat /\ Len(x) >= 2
  BY BalancedCloses
<1>2. \A q \in 1 .. Len(x) : s[n + q] = x[q]
  BY DEF Stands
<1>3. \A q \in 1 .. Len(x) + 1 : Nesting(s, n + 1, n + q) = Nesting(x, 1, q)
  BY <1>1, NestingMoves, ZenonT(30)
<1>4. x[1] = Opening
  BY BalancedIs
<1>5. \A q \in 1 .. Len(x) + 1 : Nesting(s, 1, n + q) = Nesting(x, 1, q)
  <2> TAKE q \in 1 .. Len(x) + 1
  <2>1. n + q \in Nat /\ n + 1 \in Nat /\ 1 <= n + 1 /\ n + 1 <= n + q
    OBVIOUS
  <2>2. Nesting(s, 1, n + q) = Nesting(s, 1, n + 1) + Nesting(s, n + 1, n + q)
    BY <2>1, NestingAdds
  <2>3. Nesting(s, 1, n + 1) = 0
    BY NestingFlat
  <2>4. Nesting(s, n + 1, n + q) \in Int
    BY <2>1, NestingStep
  <2>5. QED
    BY <1>3, <2>2, <2>3, <2>4
<1>6. \A q \in 2 .. Len(x) : Nesting(s, 1, n + q) >= 1
  BY <1>1, <1>5, BalancedIs
<1>7. ASSUME NEW q \in 1 .. Len(s), s[q] = Comma
      PROVE  Nesting(s, 1, q) # 0 \/ InGid(s, 1, q)
  <2>1. CASE q <= n
    BY <1>7, <2>1
  <2>2. CASE q > n
    <3>1. q - n \in 1 .. Len(x) /\ n + (q - n) = q
      BY <1>1, <2>2
    <3>2. x[q - n] = Comma
      BY <1>2, <1>7, <3>1
    <3>3. q - n # 1
      BY <1>4, <3>2, Characters
    <3>4. q - n \in 2 .. Len(x)
      BY <1>1, <3>1, <3>3
    <3>5. Nesting(s, 1, n + (q - n)) >= 1
      BY <1>6, <3>4
    <3>6. QED
      BY <3>1, <3>5
  <2>3. QED
    BY <1>1, <2>1, <2>2
<1>8. Nesting(s, 1, Len(s) + 1) = 0
  <2>1. Len(x) + 1 \in 1 .. Len(x) + 1 /\ n + (Len(x) + 1) = Len(s) + 1
    BY <1>1
  <2>2. Nesting(s, 1, n + (Len(x) + 1)) = Nesting(x, 1, Len(x) + 1)
    BY <1>5, <2>1
  <2>3. QED
    BY <2>1, <2>2, BalancedIs
<1>9. ASSUME InGid(s, 1, Len(s) + 1) PROVE FALSE
  <2>1. PICK r \in 1 .. (Len(s) + 1) - 1 :
            /\ s[r] = "[" /\ Nesting(s, 1, r) = 0
            /\ \A i \in r + 1 .. (Len(s) + 1) - 1 : s[i] # "]"
    BY <1>9 DEF InGid
  <2>2. CASE r <= n
    <3>1. r # n
      BY <2>1
    <3>2. n \in r + 1 .. (Len(s) + 1) - 1
      BY <1>1, <2>1, <2>2, <3>1
    <3>3. QED
      BY <2>1, <3>2
  <2>3. CASE r > n
    <3>1. r - n \in 1 .. Len(x) /\ n + (r - n) = r
      BY <1>1, <2>1, <2>3
    <3>2. x[r - n] = "["
      BY <1>2, <2>1, <3>1
    <3>3. r - n # 1
      BY <1>4, <3>2, Characters
    <3>4. r - n \in 2 .. Len(x)
      BY <1>1, <3>1, <3>3
    <3>5. Nesting(s, 1, n + (r - n)) >= 1
      BY <1>6, <3>4
    <3>6. QED
      BY <2>1, <3>1, <3>5
  <2>4. QED
    BY <1>1, <2>1, <2>2, <2>3
<1>10. QED
  BY <1>7, <1>8, <1>9 DEF OnePart

-----------------------------------------------------------------------------
(* Texts put together.                                                     *)

\* Where the two halves of a text stand.
LEMMA StandsLeft ==
    ASSUME NEW x \in Seq(Character), NEW y \in Seq(Character)
    PROVE  /\ x \o y \in Seq(Character) /\ Len(x \o y) = Len(x) + Len(y)
           /\ Stands(x \o y, 0, x) /\ Stands(x \o y, Len(x), y)
<1>1. Len(x) \in Nat /\ Len(y) \in Nat
  BY LenProperties
<1>2. /\ x \o y \in Seq(Character) /\ Len(x \o y) = Len(x) + Len(y)
      /\ \A i \in 1 .. Len(x) + Len(y) :
             (x \o y)[i] = IF i <= Len(x) THEN x[i] ELSE y[i - Len(x)]
  BY ConcatProperties
<1>3. ASSUME NEW i \in 1 .. Len(x) PROVE (x \o y)[0 + i] = x[i]
  <2>1. 0 + i = i /\ i \in 1 .. Len(x) + Len(y) /\ i <= Len(x)
    BY <1>1
  <2>2. QED
    BY <1>2, <2>1
<1>4. ASSUME NEW i \in 1 .. Len(y) PROVE (x \o y)[Len(x) + i] = y[i]
  <2>1. Len(x) + i \in 1 .. Len(x) + Len(y) /\ ~(Len(x) + i <= Len(x))
        /\ (Len(x) + i) - Len(x) = i
    BY <1>1
  <2>2. QED
    BY <1>2, <2>1
<1>5. QED
  BY <1>1, <1>2, <1>3, <1>4 DEF Stands

\* What stands in a part of a text stands in the text.
LEMMA StandsIn ==
    ASSUME NEW s, NEW b \in Nat, NEW x, Stands(s, b, x), Len(s) \in Nat, Len(x) \in Nat,
           NEW c \in Nat, NEW y, Stands(x, c, y), Len(y) \in Nat
    PROVE  Stands(s, b + c, y)
<1>1. (b + c) + Len(y) <= Len(s)
  BY DEF Stands
<1>2. ASSUME NEW i \in 1 .. Len(y) PROVE s[(b + c) + i] = y[i]
  <2>1. c + i \in 1 .. Len(x) /\ b + (c + i) = (b + c) + i
    BY DEF Stands
  <2>2. s[b + (c + i)] = x[c + i] /\ x[c + i] = y[i]
    BY <2>1 DEF Stands
  <2>3. QED
    BY <2>1, <2>2
<1>3. QED
  BY <1>1, <1>2 DEF Stands

\* The same for what a part begins with.
LEMMA StandsFirst ==
    ASSUME NEW s, NEW b \in Nat, NEW x, Stands(s, b, x), Len(s) \in Nat, Len(x) \in Nat,
           NEW y, Stands(x, 0, y), Len(y) \in Nat
    PROVE  Stands(s, b, y)
<1>1. \E c \in Nat : c = 0 /\ b + c = b
  OBVIOUS
<1>2. PICK c \in Nat : c = 0 /\ b + c = b
  BY <1>1
<1>3. Stands(s, b + c, y)
  BY <1>2, StandsIn
<1>4. QED
  BY <1>2, <1>3

-----------------------------------------------------------------------------
(* Ids.                                                                    *)

\* An int keeps a number below its limit.
LEMMA IntKeeps ==
    ASSUME NEW n \in Nat, n < NarrowLimit
    PROVE  ToInt(n) = n
<1>1. /\ WideLimit \in Nat \ {0} /\ NarrowLimit \in Nat \ {0}
      /\ NarrowLimit <= WideLimit
  BY LimitsAssumption
<1>2. Within(n, WideMin, WideMax) = n
  BY <1>1 DEF Within, WideMin, WideMax
<1>3. n \in Int /\ -NarrowLimit <= n
  BY <1>1
<1>4. Wrapped(n, NarrowLimit) = n
  BY <1>1, <1>3, WrappedKeeps
<1>5. QED
  BY <1>2, <1>4 DEF ToInt

\* What an id is made of.
IdChars == Range(Figures) \cup {"."}

\* No character of an id means anything.
LEMMA IdCharacters ==
    /\ IdChars \subseteq Character
    /\ "." \notin Range(Figures) /\ "]" \notin Range(Figures) /\ Comma \notin Range(Figures)
    /\ \A c \in IdChars : c # Opening /\ c # Closing /\ c # Comma /\ c # "[" /\ c # "]"
<1> DEFINE D == {"0", "1", "2", "3", "4", "5", "6", "7", "8", "9"}
<1>1. \A d \in 0 .. 9 : Figures[d + 1] \in D
  BY DEF Figures
<1>2. DOMAIN Figures = 1 .. 10
  <2>1. Len(Figures) = 10
    BY DEF Figures
  <2>2. QED
    BY <2>1, SMT DEF Figures
<1>3. ASSUME NEW i \in 1 .. 10 PROVE Figures[i] \in D
  <2>1. i - 1 \in 0 .. 9 /\ (i - 1) + 1 = i
    OBVIOUS
  <2> HIDE DEF D
  <2>2. QED
    BY <1>1, <2>1
<1>4. Range(Figures) \subseteq D
  <2> HIDE DEF D
  <2>1. QED
    BY <1>2, <1>3 DEF Range
<1>5. \A c \in D \cup {"."} :
          c # Opening /\ c # Closing /\ c # Comma /\ c # "[" /\ c # "]"
  BY Zenon DEF Opening, Closing, Comma
<1>6. "." \notin D
  BY Zenon
<1>7. IdChars \subseteq Character
  BY DEF IdChars, Character
<1> HIDE DEF D
<1>8. "]" \notin Range(Figures) /\ Comma \notin Range(Figures)
  BY <1>4, <1>5
<1>9. QED
  BY <1>4, <1>5, <1>6, <1>7, <1>8 DEF IdChars

\* What stands in a text is a part of it.
LEMMA StandsIsSubSeq ==
    ASSUME NEW S, NEW s, NEW b \in Nat, NEW x \in Seq(S), Stands(s, b, x)
    PROVE  SubSeq(s, b + 1, b + Len(x)) = x
<1>1. Len(x) \in Nat
  BY LenProperties
<1>2. \A i \in 1 .. Len(x) : s[b + i] = x[i]
  BY DEF Stands
<1>3. ASSUME NEW i \in b + 1 .. b + Len(x) PROVE s[i] \in S
  <2>1. i - b \in 1 .. Len(x) /\ b + (i - b) = i
    BY <1>1
  <2>2. s[b + (i - b)] = x[i - b] /\ x[i - b] \in S
    BY <1>2, <2>1, ElementOfSeq
  <2>3. QED
    BY <2>1, <2>2
<1>4. /\ SubSeq(s, b + 1, b + Len(x)) \in Seq(S)
      /\ Len(SubSeq(s, b + 1, b + Len(x))) = Len(x)
      /\ \A i \in 1 .. Len(x) : SubSeq(s, b + 1, b + Len(x))[i] = s[b + i]
  <2> DEFINE m == b + 1
             n == b + Len(x)
  <2>1. m \in Int /\ n \in Int /\ n - m + 1 = Len(x) /\ (m <= n <=> Len(x) # 0)
    BY <1>1
  <2>2. \A i \in m .. n : s[i] \in S
    BY <1>3
  <2>3. \A i \in 1 .. Len(x) : m + i - 1 = b + i
    BY <1>1
  <2> HIDE DEF m, n
  <2>4. /\ SubSeq(s, m, n) \in Seq(S)
        /\ Len(SubSeq(s, m, n)) = IF m <= n THEN n - m + 1 ELSE 0
        /\ \A i \in 1 .. n - m + 1 : SubSeq(s, m, n)[i] = s[m + i - 1]
    BY <2>1, <2>2, SubSeqProperties
  <2>5. Len(SubSeq(s, m, n)) = Len(x)
    BY <2>1, <2>4
  <2>6. \A i \in 1 .. Len(x) : SubSeq(s, m, n)[i] = s[b + i]
    BY <2>1, <2>3, <2>4
  <2>7. QED
    BY <2>4, <2>5, <2>6 DEF m, n
<1> DEFINE y == SubSeq(s, b + 1, b + Len(x))
<1>5. y \in Seq(S) /\ Len(y) = Len(x)
  BY <1>4
<1>6. \A i \in 1 .. Len(y) : y[i] = x[i]
  BY <1>2, <1>4
<1> HIDE DEF y
<1>7. y = x
  BY <1>5, <1>6, SeqEqual
<1>8. QED
  BY <1>7 DEF y

\* strtol reads the digits up to the first other character.
LEMMA DigitsRead ==
    ASSUME NEW s, Len(s) \in Nat, NEW b \in Nat, NEW d \in Seq(Range(Figures)),
           Stands(s, b, d), b + Len(d) < Len(s), s[b + Len(d) + 1] \notin Range(Figures)
    PROVE  Digits(s, b + 1) = d
<1> DEFINE S == {q \in b + 1 .. Len(s) : s[q] \notin Range(Figures)}
           e == b + Len(d) + 1
<1>1. Len(d) \in Nat
  BY LenProperties
<1>2. S \subseteq Nat /\ e \in Nat /\ e # 0
  BY <1>1
<1>3. e \in S
  BY <1>1
<1>4. ASSUME NEW q \in S PROVE e <= q
  <2> SUFFICES ASSUME q < e PROVE FALSE
    BY <1>2
  <2>1. q - b \in 1 .. Len(d) /\ b + (q - b) = q
    BY <1>1
  <2>2. s[b + (q - b)] = d[q - b]
    BY <2>1 DEF Stands
  <2>3. d[q - b] \in Range(Figures)
    BY <2>1, ElementOfSeq
  <2>4. QED
    BY <2>1, <2>2, <2>3
<1>5. Digits(s, b + 1) =
          SubSeq(s, b + 1, IF FirstOf(S) = Null THEN Len(s) ELSE FirstOf(S) - 1)
  BY Zenon DEF Digits
<1>6. e - 1 = b + Len(d)
  BY <1>1
<1> HIDE DEF S, e
<1>7. FirstOf(S) = e
  BY <1>2, <1>3, <1>4, FirstOfIs
<1>8. Digits(s, b + 1) = SubSeq(s, b + 1, e - 1)
  BY <1>2, <1>5, <1>7 DEF Null
<1>9. QED
  BY <1>6, <1>8, StandsIsSubSeq

\* An id is a text of such characters.
LEMMA GidIsText ==
    ASSUME NEW g \in IntGids
    PROVE  /\ GidText(g) \in Seq(IdChars) /\ GidText(g) \in Seq(Character)
           /\ Len(GidText(g)) \in Nat
           /\ \A i \in 1 .. Len(GidText(g)) : GidText(g)[i] \in IdChars
           /\ g.oid \in Nat /\ g.oid < NarrowLimit /\ g.id \in Nat /\ g.id < NarrowLimit
<1>1. g.oid \in Nat /\ g.oid < NarrowLimit /\ g.id \in Nat /\ g.id < NarrowLimit
  BY LimitsAssumption DEF IntGids
<1>2. numeral[g.oid] \in Seq(Range(Figures)) /\ numeral[g.id] \in Seq(Range(Figures))
  BY <1>1, NumeralIsRead
<1>3. Range(Figures) \subseteq IdChars /\ "." \in IdChars
  BY DEF IdChars
<1>4. numeral[g.oid] \in Seq(IdChars) /\ numeral[g.id] \in Seq(IdChars)
  BY <1>2, <1>3, SeqMonotonic
<1>5. <<".">> \in Seq(IdChars)
  <2>1. \A c \in IdChars : <<c>> \in Seq(IdChars)
    OBVIOUS
  <2>2. QED
    BY <1>3, <2>1
<1>6. numeral[g.oid] \o <<".">> \in Seq(IdChars)
  BY <1>4, <1>5, ConcatProperties
<1>7. GidText(g) \in Seq(IdChars)
  BY <1>4, <1>6, ConcatProperties DEF GidText
<1>8. GidText(g) \in Seq(Character)
  BY <1>7, IdCharacters, SeqMonotonic
<1>9. Len(GidText(g)) \in Nat
  BY <1>7, LenProperties
<1>10. \A i \in 1 .. Len(GidText(g)) : GidText(g)[i] \in IdChars
  BY <1>7, ElementOfSeq
<1>11. QED
  BY <1>1, <1>7, <1>8, <1>9, <1>10

-----------------------------------------------------------------------------
(* Texts put together.                                                     *)

\* What stood in a text stands in it when it is made longer.
LEMMA Extended ==
    ASSUME NEW x \in Seq(Character), NEW y \in Seq(Character)
    PROVE  /\ x \o y \in Seq(Character) /\ Len(x \o y) = Len(x) + Len(y)
           /\ Len(x) \in Nat /\ Len(y) \in Nat
           /\ Stands(x \o y, 0, x)
           /\ Stands(x \o y, Len(x), y)
           /\ \A b \in Nat : \A z : Len(z) \in Nat /\ Stands(x, b, z) => Stands(x \o y, b, z)
<1>1. Len(x) \in Nat /\ Len(y) \in Nat
  BY LenProperties
<1>2. /\ x \o y \in Seq(Character) /\ Len(x \o y) = Len(x) + Len(y)
      /\ Stands(x \o y, 0, x) /\ Stands(x \o y, Len(x), y)
  BY StandsLeft
<1>3. ASSUME NEW b \in Nat, NEW z, Len(z) \in Nat, Stands(x, b, z)
      PROVE  Stands(x \o y, b, z)
  <2>1. 0 + b = b /\ 0 \in Nat /\ Len(x \o y) \in Nat
    BY <1>1, <1>2
  <2>2. Stands(x \o y, 0 + b, z)
    BY <1>1, <1>2, <1>3, <2>1, StandsIn
  <2>3. QED
    BY <2>1, <2>2
<1>4. QED
  BY <1>1, <1>2, <1>3

\* A text of one character.
LEMMA OneCharacter ==
    ASSUME NEW c \in Character
    PROVE  /\ <<c>> \in Seq(Character) /\ Len(<<c>>) = 1
           /\ \A s, b : Stands(s, b, <<c>>) => s[b + 1] = c
<1>1. <<c>> \in Seq(Character) /\ Len(<<c>>) = 1 /\ <<c>>[1] = c
  OBVIOUS
<1>2. ASSUME NEW s, NEW b, Stands(s, b, <<c>>) PROVE s[b + 1] = c
  <2>1. \A i \in 1 .. Len(<<c>>) : s[b + i] = <<c>>[i]
    BY <1>2 DEF Stands
  <2>2. 1 \in 1 .. Len(<<c>>)
    BY <1>1
  <2>3. QED
    BY <1>1, <2>1, <2>2
<1>3. QED
  BY <1>1, <1>2

\* The id that is read from a text, up to a character that is no digit.
LEMMA GidIsRead ==
    ASSUME NEW s, Len(s) \in Nat, NEW b \in Nat, NEW g \in IntGids,
           Stands(s, b, GidText(g)), b + Len(GidText(g)) < Len(s),
           s[b + Len(GidText(g)) + 1] \notin Range(Figures)
    PROVE  SetGid(s, b) = g
<1> DEFINE o == numeral[g.oid]
           i == numeral[g.id]
           h == o \o <<".">>
           L == Len(o)
<1>1. g.oid \in Nat /\ g.oid < NarrowLimit /\ g.id \in Nat /\ g.id < NarrowLimit
  BY GidIsText
<1>2. o \in Seq(Range(Figures)) /\ i \in Seq(Range(Figures))
      /\ Value(o) = g.oid /\ Value(i) = g.id
  BY <1>1, NumeralIsRead
<1>3. o \in Seq(Character) /\ i \in Seq(Character) /\ "." \in Character
  <2>1. Range(Figures) \subseteq Character
    BY DEF Character
  <2>2. QED
    BY <1>2, <2>1, SeqMonotonic DEF Character
<1>4. GidText(g) = h \o i
  BY DEF GidText
<1> HIDE DEF o, i
<1>5. /\ <<".">> \in Seq(Character) /\ Len(<<".">>) = 1
      /\ \A t, c : Stands(t, c, <<".">>) => t[c + 1] = "."
  BY <1>3, OneCharacter
<1>6. /\ h \in Seq(Character) /\ Len(h) = L + 1 /\ L \in Nat
      /\ Stands(h, 0, o) /\ Stands(h, L, <<".">>)
  BY <1>3, <1>5, Extended
<1> HIDE DEF h
<1>7. /\ Len(h \o i) = (L + 1) + Len(i) /\ Len(i) \in Nat
      /\ Stands(h \o i, 0, o) /\ Stands(h \o i, L, <<".">>) /\ Stands(h \o i, L + 1, i)
  <2>1. /\ Len(h \o i) = Len(h) + Len(i) /\ Len(i) \in Nat
        /\ Stands(h \o i, Len(h), i)
        /\ \A c \in Nat : \A z : Len(z) \in Nat /\ Stands(h, c, z) => Stands(h \o i, c, z)
    BY <1>3, <1>6, Extended
  <2>2. Stands(h \o i, 0, o)
    BY <1>6, <2>1
  <2>3. Stands(h \o i, L, <<".">>)
    BY <1>5, <1>6, <2>1
  <2>4. QED
    BY <1>6, <2>1, <2>2, <2>3
<1>8. Stands(s, b, o) /\ Stands(s, b + L, <<".">>) /\ Stands(s, b + (L + 1), i)
  <2>1. Stands(s, b, h \o i) /\ Len(h \o i) \in Nat
    BY <1>4, <1>6, <1>7
  <2>2. Stands(s, b, o)
    BY <1>6, <1>7, <2>1, StandsFirst
  <2>3. Stands(s, b + L, <<".">>)
    BY <1>5, <1>6, <1>7, <2>1, StandsIn
  <2>4. Stands(s, b + (L + 1), i)
    <3>1. PICK c \in Nat : c = L + 1
      BY <1>6
    <3>2. Stands(h \o i, c, i)
      BY <1>7, <3>1
    <3>3. Stands(s, b + c, i)
      BY <1>7, <2>1, <3>2, StandsIn
    <3>4. QED
      BY <3>1, <3>3
  <2>5. QED
    BY <2>2, <2>3, <2>4
<1>9. b + L + 1 + Len(i) < Len(s) /\ s[(b + (L + 1)) + Len(i) + 1] \notin Range(Figures)
  <2>1. Len(GidText(g)) = (L + 1) + Len(i)
    BY <1>4, <1>7
  <2>2. b + Len(GidText(g)) + 1 = (b + (L + 1)) + Len(i) + 1
    BY <1>6, <1>7, <2>1
  <2>3. s[(b + (L + 1)) + Len(i) + 1] \notin Range(Figures)
    BY <2>2
  <2>4. QED
    BY <1>6, <1>7, <2>1, <2>3
<1>10. Digits(s, b + 1) = o
  <2>1. s[(b + L) + 1] = "."
    BY <1>5, <1>8
  <2>2. s[b + L + 1] \notin Range(Figures) /\ b + L < Len(s)
    BY <1>6, <1>7, <1>9, <2>1, IdCharacters
  <2>3. QED
    BY <1>2, <1>8, <2>2, DigitsRead
<1>11. Digits(s, (b + (L + 1)) + 1) = i
  <2>1. b + (L + 1) \in Nat /\ (b + (L + 1)) + Len(i) < Len(s)
    BY <1>6, <1>7, <1>9
  <2>2. QED
    BY <1>2, <1>8, <1>9, <2>1, DigitsRead
<1>12. b + Len(o) + 2 = (b + (L + 1)) + 1
  BY <1>6
<1>13. SetGid(s, b) = [oid |-> ToInt(Value(o)), id |-> ToInt(Value(i))]
  <2>1. SetGid(s, b) = [oid |-> ToInt(Value(Digits(s, b + 1))),
                        id  |-> ToInt(Value(Digits(s, b + Len(Digits(s, b + 1)) + 2)))]
    BY Zenon DEF SetGid
  <2>2. Digits(s, b + Len(o) + 2) = i
    BY <1>11, <1>12
  <2>3. QED
    BY <1>10, <2>1, <2>2
<1>14. SetGid(s, b) = [oid |-> g.oid, id |-> g.id]
  BY <1>1, <1>2, <1>13, IntKeeps
<1>15. QED
  BY <1>14 DEF IntGids

-----------------------------------------------------------------------------
(* Tokens of a vertex or an edge.                                          *)

\* Where the next token starts and, by its first character, ends.
LEMMA GetTokenIs ==
    ASSUME NEW s, NEW t, t.end # Len(s) + 1,
           NEW b, b = IF t.end # Null THEN t.end ELSE t.start
    PROVE  /\ s[b] = "[" =>
                  GetToken(s, t) = [start |-> b, end |-> TokStrchr(s, b, "]") + 1]
           /\ s[b] = Opening =>
                  GetToken(s, t) = [start |-> b, end |-> GetProps(s, b) + 1]
           /\ s[b] # "[" /\ s[b] # Opening =>
                  GetToken(s, t) = [start |-> b, end |-> TokStrchr(s, b, "[")]
<1>1. GetToken(s, t) =
          [start |-> b,
           end   |-> IF s[b] = "[" THEN TokStrchr(s, b, "]") + 1
                     ELSE IF s[b] = Opening THEN GetProps(s, b) + 1
                     ELSE TokStrchr(s, b, "[")]
  BY Zenon DEF GetToken, IsEnd, Opening
<1>2. s[b] = Opening => s[b] # "["
  BY Characters
<1>3. QED
  BY <1>1, <1>2

\* tok_strchr finds the first ch from p on.
LEMMA TokStrchrIs ==
    ASSUME NEW s, Len(s) \in Nat, NEW ch, NEW p \in Nat, NEW e \in p .. Len(s), s[e] = ch,
           \A q \in p .. e - 1 : s[q] # ch
    PROVE  TokStrchr(s, p, ch) = e
<1> DEFINE S == {q \in p .. Len(s) : s[q] = ch}
<1>1. S \subseteq Nat /\ e \in S
  OBVIOUS
<1>2. ASSUME NEW q \in S PROVE e <= q
  <2>1. ~(q < e)
    OBVIOUS
  <2>2. QED
    BY <1>1, <2>1
<1>3. TokStrchr(s, p, ch) = FirstOf(S)
  BY DEF TokStrchr
<1> HIDE DEF S
<1>4. QED
  BY <1>1, <1>2, <1>3, FirstOfIs

\* Labels are texts without characters that mean something.
LEMMA LabelIs ==
    ASSUME NEW l \in LabelTexts
    PROVE  /\ l \in Seq(Character) /\ Len(l) \in Nat /\ Len(l) >= 1
           /\ \A i \in 1 .. Len(l) :
                  l[i] # "[" /\ l[i] # Opening /\ l[i] # Closing /\ l[i] # Comma
<1>1. l \in Seq(STRING) /\ l # <<>>
  BY Zenon DEF LabelTexts
<1>2. \A i \in DOMAIN l :
          l[i] # "[" /\ l[i] # Opening /\ l[i] # Closing /\ l[i] # Comma
  BY Zenon DEF LabelTexts, Opening, Closing, Comma
<1>3. DOMAIN l = 1 .. Len(l)
  BY <1>1, LenProperties
<1>4. Len(l) \in Nat /\ Len(l) >= 1
  BY <1>1, EmptySeq
<1>5. STRING \subseteq Character
  BY DEF Character
<1>6. l \in Seq(Character)
  BY <1>1, <1>5, SeqMonotonic
<1>7. QED
  BY <1>2, <1>3, <1>4, <1>6

\* Properties are balanced texts.
LEMMA ObjectIs ==
    ASSUME NEW x \in ObjectTexts
    PROVE  /\ x \in Seq(Character) /\ Balanced(x)
           /\ Len(x) \in Nat /\ Len(x) >= 2 /\ x[1] = Opening
<1>1. x \in Seq(STRING) /\ Balanced(x)
  BY DEF ObjectTexts
<1>2. STRING \subseteq Character
  BY DEF Character
<1>3. x \in Seq(Character)
  BY <1>1, <1>2, SeqMonotonic
<1>4. QED
  BY <1>1, <1>3, BalancedIs, BalancedCloses

\* The label is the text in front of the first "[".
LEMMA LabelToken ==
    ASSUME NEW s, Len(s) \in Nat, NEW l \in LabelTexts, Stands(s, 0, l),
           Len(l) < Len(s), s[Len(l) + 1] = "["
    PROVE  /\ GetToken(s, TokenInit) = [start |-> 1, end |-> Len(l) + 1]
           /\ Token(s, GetToken(s, TokenInit)) = l
<1>1. /\ l \in Seq(Character) /\ Len(l) \in Nat /\ Len(l) >= 1
      /\ \A i \in 1 .. Len(l) : l[i] # "[" /\ l[i] # Opening
  BY LabelIs
<1>2. ASSUME NEW i \in 1 .. Len(l) PROVE s[i] = l[i]
  <2>1. s[0 + i] = l[i] /\ 0 + i = i
    BY DEF Stands
  <2>2. QED
    BY <2>1
<1>3. \A i \in 1 .. Len(l) : s[i] # "[" /\ s[i] # Opening
  BY <1>1, <1>2
<1>4. 1 \in 1 .. Len(l)
  BY <1>1
<1>5. TokStrchr(s, 1, "[") = Len(l) + 1
  <2> DEFINE e == Len(l) + 1
  <2>1. e \in 1 .. Len(s) /\ s[e] = "["
    BY <1>1
  <2>2. \A q \in 1 .. e - 1 : s[q] # "["
    BY <1>1, <1>3
  <2> HIDE DEF e
  <2>3. TokStrchr(s, 1, "[") = e
    BY <2>1, <2>2, TokStrchrIs
  <2>4. QED
    BY <2>3 DEF e
<1>6. GetToken(s, TokenInit) = [start |-> 1, end |-> Len(l) + 1]
  <2>1. TokenInit.end = 0 /\ TokenInit.start = 1
    BY DEF TokenInit, Null
  <2>2. TokenInit.end # Len(s) + 1
    BY <2>1
  <2>3. 1 = IF TokenInit.end # Null THEN TokenInit.end ELSE TokenInit.start
    BY <2>1 DEF Null
  <2>4. GetToken(s, TokenInit) = [start |-> 1, end |-> TokStrchr(s, 1, "[")]
    BY <1>3, <1>4, <2>2, <2>3, GetTokenIs
  <2>5. QED
    BY <1>5, <2>4
<1>7. Token(s, GetToken(s, TokenInit)) = SubSeq(s, 0 + 1, 0 + Len(l))
  BY <1>1, <1>6 DEF Token
<1>8. SubSeq(s, 0 + 1, 0 + Len(l)) = l
  <2>1. PICK b \in Nat : b = 0
    OBVIOUS
  <2>2. SubSeq(s, b + 1, b + Len(l)) = l
    BY <1>1, <2>1, StandsIsSubSeq
  <2>3. QED
    BY <2>1, <2>2
<1>9. QED
  BY <1>6, <1>7, <1>8

\* An id, or two, is the text from "[" to the first "]".
LEMMA IdToken ==
    ASSUME NEW s, Len(s) \in Nat, NEW t, NEW b \in Nat \ {0}, t.end = b,
           s[b] = "[", NEW e \in b + 1 .. Len(s), s[e] = "]",
           \A q \in b + 1 .. e - 1 : s[q] # "]"
    PROVE  GetToken(s, t) = [start |-> b, end |-> e + 1]
<1>1. t.end # Len(s) + 1 /\ t.end # 0
  OBVIOUS
<1>2. b = IF t.end # Null THEN t.end ELSE t.start
  BY <1>1 DEF Null
<1>3. GetToken(s, t) = [start |-> b, end |-> TokStrchr(s, b, "]") + 1]
  BY <1>1, <1>2, GetTokenIs
<1>4. TokStrchr(s, b, "]") = e
  <2>1. ASSUME NEW q \in b .. e - 1 PROVE s[q] # "]"
    <3>1. q = b \/ q \in b + 1 .. e - 1
      OBVIOUS
    <3>2. QED
      BY <3>1
  <2>2. e \in b .. Len(s) /\ b \in Nat
    OBVIOUS
  <2>3. QED
    BY <2>1, <2>2, TokStrchrIs
<1>5. QED
  BY <1>3, <1>4

\* The properties are the rest.
LEMMA PropsToken ==
    ASSUME NEW s, Len(s) \in Nat, NEW t, NEW n \in Nat, t.end = n + 1,
           NEW x \in ObjectTexts, Stands(s, n, x), Len(s) = n + Len(x)
    PROVE  Token(s, GetToken(s, t)) = x
<1>1. x \in Seq(Character) /\ Balanced(x) /\ Len(x) \in Nat /\ Len(x) >= 2
      /\ x[1] = Opening
  BY ObjectIs
<1>2. t.end # Len(s) + 1 /\ t.end # 0
  BY <1>1
<1>3. n + 1 = IF t.end # Null THEN t.end ELSE t.start
  BY <1>2 DEF Null
<1>4. s[n + 1] = Opening
  <2>1. 1 \in 1 .. Len(x)
    BY <1>1
  <2>2. QED
    BY <1>1, <2>1 DEF Stands
<1>5. GetToken(s, t) = [start |-> n + 1, end |-> GetProps(s, n + 1) + 1]
  <2>1. PICK b : b = n + 1
    OBVIOUS
  <2>2. s[b] = Opening /\ b = IF t.end # Null THEN t.end ELSE t.start
    BY <1>3, <1>4, <2>1
  <2>3. GetToken(s, t) = [start |-> b, end |-> GetProps(s, b) + 1]
    BY <1>2, <2>2, GetTokenIs
  <2>4. QED
    BY <2>1, <2>3
<1>6. GetProps(s, n + 1) = n + Len(x)
  <2>1. x \in Seq(Character) /\ Balanced(x)
    BY <1>1
  <2>2. GetProps(s, n + 1) = Len(s)
    BY <2>1, PropsEnd
  <2>3. QED
    BY <2>2
<1>7. Token(s, GetToken(s, t)) = SubSeq(s, n + 1, n + Len(x))
  <2>1. GetToken(s, t).start = n + 1 /\ GetToken(s, t).end = (n + Len(x)) + 1
    BY <1>5, <1>6
  <2>2. ((n + Len(x)) + 1) - 1 = n + Len(x)
    BY <1>1
  <2>3. Token(s, GetToken(s, t)) = SubSeq(s, n + 1, ((n + Len(x)) + 1) - 1)
    BY <2>1 DEF Token
  <2>4. QED
    BY <2>2, <2>3
<1>8. QED
  BY <1>1, <1>7, StandsIsSubSeq

-----------------------------------------------------------------------------
(* The text of a vertex.                                                   *)

\* label[g]x, character by character.
VertexLaid(s, l, g, x) ==
    LET L == Len(l)
        G == Len(g)
    IN  /\ s \in Seq(Character) /\ Len(s) \in Nat /\ Len(s) = L + G + 2 + Len(x)
        /\ Stands(s, 0, l) /\ Stands(s, L + 1, g) /\ Stands(s, L + G + 2, x)
        /\ s[L + 1] = "[" /\ s[L + G + 2] = "]"

\* The text made of the four pieces is laid out so.
LEMMA VertexLayout ==
    ASSUME NEW l \in Seq(Character), NEW g \in Seq(Character), NEW x \in Seq(Character)
    PROVE  VertexLaid(l \o <<"[">> \o g \o <<"]">> \o x, l, g, x)
<1> DEFINE L == Len(l)
           G == Len(g)
           a == l \o <<"[">>
           b == a \o g
           c == b \o <<"]">>
           s == c \o x
<1>1. "[" \in Character /\ "]" \in Character
  BY DEF Character
<1>2. /\ <<"[">> \in Seq(Character) /\ Len(<<"[">>) = 1
      /\ \A t, i : Stands(t, i, <<"[">>) => t[i + 1] = "["
  BY <1>1, OneCharacter
<1>3. /\ <<"]">> \in Seq(Character) /\ Len(<<"]">>) = 1
      /\ \A t, i : Stands(t, i, <<"]">>) => t[i + 1] = "]"
  BY <1>1, OneCharacter
<1>4. /\ a \in Seq(Character) /\ Len(a) = L + 1 /\ L \in Nat
      /\ Stands(a, 0, l) /\ Stands(a, L, <<"[">>)
  BY <1>2, Extended
<1> HIDE DEF a
<1>5. /\ b \in Seq(Character) /\ Len(b) = L + 1 + G /\ G \in Nat
      /\ Stands(b, 0, l) /\ Stands(b, L, <<"[">>) /\ Stands(b, L + 1, g)
  <2>1. /\ b \in Seq(Character) /\ Len(b) = Len(a) + G /\ G \in Nat
        /\ Stands(b, Len(a), g)
        /\ \A i \in Nat : \A z : Len(z) \in Nat /\ Stands(a, i, z) => Stands(b, i, z)
    BY <1>4, Extended
  <2>2. QED
    BY <1>2, <1>4, <2>1
<1> HIDE DEF b
<1>6. /\ c \in Seq(Character) /\ Len(c) = L + G + 2
      /\ Stands(c, 0, l) /\ Stands(c, L, <<"[">>) /\ Stands(c, L + 1, g)
      /\ Stands(c, L + 1 + G, <<"]">>)
  <2>1. /\ c \in Seq(Character) /\ Len(c) = Len(b) + 1
        /\ Stands(c, Len(b), <<"]">>)
        /\ \A i \in Nat : \A z : Len(z) \in Nat /\ Stands(b, i, z) => Stands(c, i, z)
    BY <1>3, <1>5, Extended
  <2>2. QED
    BY <1>2, <1>4, <1>5, <2>1
<1> HIDE DEF c
<1>7. /\ s \in Seq(Character) /\ Len(s) = L + G + 2 + Len(x) /\ Len(x) \in Nat
      /\ Stands(s, 0, l) /\ Stands(s, L, <<"[">>) /\ Stands(s, L + 1, g)
      /\ Stands(s, L + 1 + G, <<"]">>) /\ Stands(s, L + G + 2, x)
  <2>1. /\ s \in Seq(Character) /\ Len(s) = Len(c) + Len(x) /\ Len(x) \in Nat
        /\ Stands(s, Len(c), x)
        /\ \A i \in Nat : \A z : Len(z) \in Nat /\ Stands(c, i, z) => Stands(s, i, z)
    BY <1>6, Extended
  <2>2. QED
    BY <1>2, <1>3, <1>4, <1>5, <1>6, <2>1
<1> HIDE DEF s
<1>8. s[L + 1] = "["
  BY <1>2, <1>7
<1>9. s[L + G + 2] = "]"
  <2>1. s[(L + 1 + G) + 1] = "]" /\ (L + 1 + G) + 1 = L + G + 2
    BY <1>3, <1>4, <1>5, <1>7
  <2>2. QED
    BY <2>1
<1>10. VertexLaid(s, l, g, x)
  BY <1>4, <1>5, <1>7, <1>8, <1>9 DEF VertexLaid
<1>11. QED
  BY <1>10 DEF s, c, b, a

\* The vertices and the edges a server sends.
ServerVertices == [label : LabelTexts, vid : IntGids, props : ObjectTexts, str : {Null}]

\* The characters of such a text up to n = L + G + 2, which is the "]".
LEMMA VertexHead ==
    ASSUME NEW s, NEW v \in ServerVertices,
           VertexLaid(s, v.label, GidText(v.vid), v.props)
    PROVE  LET L == Len(v.label)
               n == Len(v.label) + Len(GidText(v.vid)) + 2
           IN  /\ L \in Nat /\ n \in Nat /\ L + 1 < n
               /\ \A i \in 1 .. n : s[i] # Opening /\ s[i] # Closing /\ s[i] # Comma
               /\ \A i \in L + 2 .. n - 1 : s[i] # "]"
<1> DEFINE l == v.label
           g == GidText(v.vid)
           L == Len(l)
           G == Len(g)
           n == L + G + 2
<1>1. l \in LabelTexts /\ v.vid \in IntGids
  BY DEF ServerVertices
<1>2. /\ L \in Nat /\ L >= 1
      /\ \A i \in 1 .. L : l[i] # Opening /\ l[i] # Closing /\ l[i] # Comma
  BY <1>1, LabelIs
<1>3. G \in Nat /\ \A i \in 1 .. G : g[i] \in IdChars
  BY <1>1, GidIsText
<1>4. /\ Stands(s, 0, l) /\ Stands(s, L + 1, g)
      /\ s[L + 1] = "[" /\ s[L + G + 2] = "]"
  BY DEF VertexLaid
<1> HIDE DEF l, g
<1>5. \A i \in 1 .. L : s[0 + i] = l[i]
  BY <1>4 DEF Stands
<1>6. \A i \in 1 .. G : s[(L + 1) + i] = g[i]
  BY <1>4 DEF Stands
<1>7. n \in Nat /\ L + 1 < n
  BY <1>2, <1>3
<1>8. ASSUME NEW i \in L + 2 .. n - 1
      PROVE  s[i] # Opening /\ s[i] # Closing /\ s[i] # Comma /\ s[i] # "]"
  <2>1. i - (L + 1) \in 1 .. G /\ (L + 1) + (i - (L + 1)) = i
    BY <1>2, <1>3
  <2>2. s[(L + 1) + (i - (L + 1))] = g[i - (L + 1)]
    BY <1>6, <2>1
  <2>3. s[i] \in IdChars
    BY <1>3, <2>1, <2>2
  <2>4. QED
    BY <2>3, IdCharacters
<1>9. ASSUME NEW i \in 1 .. n PROVE s[i] # Opening /\ s[i] # Closing /\ s[i] # Comma
  <2>1. CASE i \in 1 .. L
    <3>1. s[0 + i] = l[i] /\ 0 + i = i
      BY <1>5, <2>1
    <3>2. QED
      BY <1>2, <2>1, <3>1
  <2>2. CASE i = L + 1 \/ i = n
    BY <1>4, <2>2, Characters
  <2>3. CASE i \in L + 2 .. n - 1
    BY <1>8, <2>3
  <2>4. i \in 1 .. L \/ i = L + 1 \/ i = n \/ i \in L + 2 .. n - 1
    BY <1>2, <1>3
  <2>5. QED
    BY <2>1, <2>2, <2>3, <2>4
<1>10. QED
  BY <1>2, <1>7, <1>8, <1>9 DEF l, g

\* So is the text of a vertex.
LEMMA VertexLaidOut ==
    ASSUME NEW v \in ServerVertices
    PROVE  VertexLaid(VertexText(v), v.label, GidText(v.vid), v.props)
<1>1. v.label \in LabelTexts /\ v.vid \in IntGids /\ v.props \in ObjectTexts
  BY DEF ServerVertices
<1>2. v.label \in Seq(Character) /\ GidText(v.vid) \in Seq(Character)
      /\ v.props \in Seq(Character)
  BY <1>1, LabelIs, GidIsText, ObjectIs
<1>3. VertexLaid(v.label \o <<"[">> \o GidText(v.vid) \o <<"]">> \o v.props,
                 v.label, GidText(v.vid), v.props)
  BY <1>2, VertexLayout
<1>4. QED
  BY <1>3 DEF VertexText

\* No comma of a vertex ends it.
LEMMA VertexIsOnePart ==
    ASSUME NEW v \in ServerVertices
    PROVE  VertexText(v) \in Seq(Character) /\ OnePart(VertexText(v))
<1> DEFINE s == VertexText(v)
           n == Len(v.label) + Len(GidText(v.vid)) + 2
           x == v.props
<1>1. VertexLaid(s, v.label, GidText(v.vid), x)
  BY VertexLaidOut
<1>2. x \in ObjectTexts
  BY DEF ServerVertices
<1>3. x \in Seq(Character) /\ Balanced(x) /\ Len(x) \in Nat
  BY <1>2, ObjectIs
<1> HIDE DEF s
<1>4. /\ Len(v.label) \in Nat /\ n \in Nat /\ Len(v.label) + 1 < n
      /\ \A i \in 1 .. n : s[i] # Opening /\ s[i] # Closing /\ s[i] # Comma
  BY <1>1, VertexHead
<1>5. /\ s \in Seq(Character) /\ Len(s) = n + Len(x) /\ Stands(s, n, x) /\ s[n] = "]"
  BY <1>1 DEF VertexLaid
<1>6. n # 0
  <2> HIDE DEF n
  <2>1. QED
    BY <1>4
<1>7. \A q \in 1 .. n : s[q] = Comma => InGid(s, 1, q)
  BY <1>4
<1>8. \A i \in 1 .. n : s[i] # Opening /\ s[i] # Closing
  BY <1>4
<1> HIDE DEF n, x
<1>9. OnePart(s)
  <2>1. /\ n \in Nat /\ n # 0 /\ x \in Seq(Character) /\ Balanced(x) /\ Stands(s, n, x)
        /\ Len(s) = n + Len(x) /\ s[n] = "]"
    BY <1>3, <1>4, <1>5, <1>6
  <2>2. QED
    BY <1>7, <1>8, <2>1, HeadAndProps, Zenon
<1>10. QED
  BY <1>5, <1>9 DEF s

\* A vertex is read as it was sent.
LEMMA VertexIsRead ==
    ASSUME NEW v \in ServerVertices, v.props \in PropsTexts
    PROVE  VertexNew(VertexText(v)) = v
<1> DEFINE s == VertexText(v)
           l == v.label
           g == v.vid
           x == v.props
           L == Len(l)
           n == L + Len(GidText(g)) + 2
           t1 == GetToken(s, TokenInit)
           t2 == GetToken(s, t1)
           t3 == GetToken(s, t2)
<1>1. /\ l \in LabelTexts /\ g \in IntGids /\ x \in ObjectTexts
      /\ v = [label |-> l, vid |-> g, props |-> x, str |-> Null]
  BY DEF ServerVertices
<1>2. VertexLaid(s, l, GidText(g), x)
  BY VertexLaidOut
<1>3. VertexNew(s) = [label |-> Token(s, t1), vid |-> SetGid(s, t2.start),
                      props |-> MakeAgJson(Token(s, t3)), str |-> Null]
  BY Zenon DEF VertexNew
<1> HIDE DEF s
<1>4. /\ L \in Nat /\ n \in Nat /\ L + 1 < n
      /\ \A i \in L + 2 .. n - 1 : s[i] # "]"
  BY <1>2, VertexHead
<1>5. /\ s \in Seq(Character) /\ Len(s) \in Nat /\ Len(s) = n + Len(x)
      /\ Stands(s, 0, l) /\ Stands(s, L + 1, GidText(g)) /\ Stands(s, n, x)
      /\ s[L + 1] = "[" /\ s[n] = "]"
  BY <1>2 DEF VertexLaid
<1>6. Len(x) \in Nat /\ Len(x) >= 2
  BY <1>1, ObjectIs
<1>7. Len(GidText(g)) \in Nat
  BY <1>1, GidIsText
<1>8. (L + 1) + Len(GidText(g)) + 1 = n
  <2>1. \A a, b \in Nat : (a + 1) + b + 1 = a + b + 2
    OBVIOUS
  <2>2. QED
    BY <1>4, <1>7, <2>1, Zenon
<1> HIDE DEF n, l, g, x, t1, t2, t3
<1>9. t1 = [start |-> 1, end |-> L + 1] /\ Token(s, t1) = l
  <2>1. L < Len(s)
    BY <1>4, <1>5, <1>6
  <2>2. /\ GetToken(s, TokenInit) = [start |-> 1, end |-> Len(l) + 1]
        /\ Token(s, GetToken(s, TokenInit)) = l
    BY <1>1, <1>5, <2>1, LabelToken, Zenon
  <2>3. QED
    BY <2>2 DEF t1
<1>10. t2 = [start |-> L + 1, end |-> n + 1]
  <2>1. PICK b \in Nat \ {0} : b = L + 1
    BY <1>4
  <2>2. t1.end = b /\ s[b] = "[" /\ n \in b + 1 .. Len(s)
        /\ \A q \in b + 1 .. n - 1 : s[q] # "]"
    BY <1>4, <1>5, <1>6, <1>9, <2>1
  <2>3. GetToken(s, t1) = [start |-> b, end |-> n + 1]
    BY <1>5, <2>2, IdToken
  <2>4. QED
    BY <2>1, <2>3 DEF t2
<1>11. SetGid(s, L + 1) = g
  <2>1. PICK b \in Nat : b = L + 1
    BY <1>4
  <2>2. /\ b + Len(GidText(g)) + 1 = n /\ b + Len(GidText(g)) < Len(s)
        /\ Stands(s, b, GidText(g))
    BY <1>4, <1>5, <1>6, <1>7, <1>8, <2>1
  <2>3. s[b + Len(GidText(g)) + 1] \notin Range(Figures)
    BY <1>5, <2>2, IdCharacters
  <2>4. SetGid(s, b) = g
    BY <1>1, <1>5, <2>2, <2>3, GidIsRead
  <2>5. QED
    BY <2>1, <2>4
<1>12. Token(s, t3) = x
  <2>1. t2.end = n + 1
    BY <1>10
  <2>2. QED
    BY <1>1, <1>4, <1>5, <2>1, PropsToken DEF t3
<1>13. MakeAgJson(x) = x
  BY DEF MakeAgJson, x
<1>14. t2.start = L + 1
  BY <1>10
<1>15. VertexNew(s) = [label |-> l, vid |-> g, props |-> x, str |-> Null]
  BY <1>3, <1>9, <1>11, <1>12, <1>13, <1>14
<1>16. QED
  BY <1>1, <1>15 DEF s

-----------------------------------------------------------------------------
(* The text of an edge.                                                    *)

\* The positions of the two ids of the ends, of the comma between them, and
\* of the last "]", for a label and ids of L, G, H and K characters.
Second(L, G)       == L + G + 3
Middle(L, G, H)    == L + G + H + 4
Final(L, G, H, K)   == L + G + H + K + 5

\* l[g][h,k]x, character by character.
EdgeLaid(s, l, g, h, k, x) ==
    LET L == Len(l)
        G == Len(g)
        H == Len(h)
        K == Len(k)
    IN  /\ s \in Seq(Character) /\ Len(s) \in Nat
        /\ Len(s) = Final(L, G, H, K) + Len(x)
        /\ Stands(s, 0, l) /\ s[L + 1] = "[" /\ Stands(s, L + 1, g) /\ s[L + G + 2] = "]"
        /\ s[Second(L, G)] = "[" /\ Stands(s, Second(L, G), h)
        /\ s[Middle(L, G, H)] = Comma /\ Stands(s, Middle(L, G, H), k)
        /\ s[Final(L, G, H, K)] = "]" /\ Stands(s, Final(L, G, H, K), x)

\* What is between the ids of an edge.
LEMMA TwoCharacters ==
    /\ <<"]", "[">> \in Seq(Character) /\ Len(<<"]", "[">>) = 2
    /\ \A s, b : b \in Nat /\ Stands(s, b, <<"]", "[">>) => s[b + 1] = "]" /\ s[b + 2] = "["
<1>1. "[" \in Character /\ "]" \in Character
  BY DEF Character
<1>2. \A c, d \in Character :
          /\ <<c, d>> \in Seq(Character) /\ Len(<<c, d>>) = 2
          /\ <<c, d>>[1] = c /\ <<c, d>>[2] = d
  OBVIOUS
<1>3. /\ <<"]", "[">> \in Seq(Character) /\ Len(<<"]", "[">>) = 2
      /\ <<"]", "[">>[1] = "]" /\ <<"]", "[">>[2] = "["
  BY <1>1, <1>2
<1>4. ASSUME NEW s, NEW b \in Nat, Stands(s, b, <<"]", "[">>)
      PROVE  s[b + 1] = "]" /\ s[b + 2] = "["
  <2> DEFINE p == <<"]", "[">>
  <2>1. Len(p) = 2 /\ p[1] = "]" /\ p[2] = "["
    BY <1>3
  <2> HIDE DEF p
  <2>2. \A i \in 1 .. Len(p) : s[b + i] = p[i]
    BY <1>4 DEF Stands, p
  <2>3. 1 \in 1 .. Len(p) /\ 2 \in 1 .. Len(p)
    BY <2>1
  <2>4. QED
    BY <2>1, <2>2, <2>3
<1>5. QED
  BY <1>3, <1>4

\* The text made of the pieces is laid out so.
LEMMA EdgeLayout ==
    ASSUME NEW l \in Seq(Character), NEW g \in Seq(Character), NEW h \in Seq(Character),
           NEW k \in Seq(Character), NEW x \in Seq(Character)
    PROVE  EdgeLaid(l \o <<"[">> \o g \o <<"]", "[">> \o h \o <<",">> \o k \o <<"]">> \o x,
                    l, g, h, k, x)
<1> DEFINE L == Len(l)
           G == Len(g)
           H == Len(h)
           K == Len(k)
           a == l \o <<"[">>
           b == a \o g
           c == b \o <<"]", "[">>
           d == c \o h
           e == d \o <<Comma>>
           f == e \o k
           m == f \o <<"]">>
           s == m \o x
<1>1. "[" \in Character /\ "]" \in Character /\ Comma \in Character
  BY DEF Character
<1>2. /\ <<"[">> \in Seq(Character) /\ Len(<<"[">>) = 1
      /\ \A t, i : Stands(t, i, <<"[">>) => t[i + 1] = "["
  BY <1>1, OneCharacter
<1>3. /\ <<"]">> \in Seq(Character) /\ Len(<<"]">>) = 1
      /\ \A t, i : Stands(t, i, <<"]">>) => t[i + 1] = "]"
  BY <1>1, OneCharacter
<1>4. /\ <<Comma>> \in Seq(Character) /\ Len(<<Comma>>) = 1
      /\ \A t, i : Stands(t, i, <<Comma>>) => t[i + 1] = Comma
  BY <1>1, OneCharacter
<1>5. /\ a \in Seq(Character) /\ Len(a) = L + 1 /\ L \in Nat
      /\ Stands(a, 0, l) /\ Stands(a, L, <<"[">>)
  BY <1>2, Extended
<1>6. Stands(a, 0, l) /\ a[L + 1] = "["
  BY <1>2, <1>5
<1> HIDE DEF a
<1>7. /\ b \in Seq(Character) /\ Len(b) = L + 1 + G /\ G \in Nat
      /\ Stands(b, 0, l) /\ Stands(b, L, <<"[">>) /\ Stands(b, L + 1, g)
  <2>1. /\ b \in Seq(Character) /\ Len(b) = Len(a) + G /\ G \in Nat
        /\ Stands(b, Len(a), g)
        /\ \A i \in Nat : \A z : Len(z) \in Nat /\ Stands(a, i, z) => Stands(b, i, z)
    BY <1>5, Extended
  <2>2. QED
    BY <1>2, <1>5, <2>1
<1> HIDE DEF b
<1>8. /\ c \in Seq(Character) /\ Len(c) = Second(L, G)
      /\ Stands(c, 0, l) /\ Stands(c, L, <<"[">>) /\ Stands(c, L + 1, g)
      /\ Stands(c, L + 1 + G, <<"]", "[">>)
  <2>1. /\ c \in Seq(Character) /\ Len(c) = Len(b) + 2
        /\ Stands(c, Len(b), <<"]", "[">>)
        /\ \A i \in Nat : \A z : Len(z) \in Nat /\ Stands(b, i, z) => Stands(c, i, z)
    BY <1>7, TwoCharacters, Extended
  <2>2. QED
    BY <1>2, <1>5, <1>7, <2>1 DEF Second
<1> HIDE DEF c
<1>9. /\ d \in Seq(Character) /\ Len(d) = Second(L, G) + H /\ H \in Nat
      /\ Stands(d, 0, l) /\ Stands(d, L, <<"[">>) /\ Stands(d, L + 1, g)
      /\ Stands(d, L + 1 + G, <<"]", "[">>) /\ Stands(d, Second(L, G), h)
  <2>1. /\ d \in Seq(Character) /\ Len(d) = Len(c) + H /\ H \in Nat
        /\ Stands(d, Len(c), h)
        /\ \A i \in Nat : \A z : Len(z) \in Nat /\ Stands(c, i, z) => Stands(d, i, z)
    BY <1>8, Extended
  <2>2. L + 1 + G \in Nat
    BY <1>5, <1>7
  <2>3. QED
    BY <1>2, <1>5, <1>7, <1>8, <2>1, <2>2, TwoCharacters
<1> HIDE DEF d
<1>10. /\ Len(<<"[">>) \in Nat /\ Len(<<"]">>) \in Nat /\ Len(<<Comma>>) \in Nat
       /\ Len(<<"]", "[">>) \in Nat /\ Len(l) \in Nat /\ Len(g) \in Nat
       /\ Len(h) \in Nat /\ 0 \in Nat /\ L \in Nat /\ L + 1 \in Nat
  BY <1>2, <1>3, <1>4, <1>5, <1>7, <1>9, TwoCharacters
<1>11. Second(L, G) \in Nat /\ Middle(L, G, H) = Second(L, G) + H + 1
       /\ Middle(L, G, H) \in Nat /\ L + 1 + G \in Nat
  BY <1>5, <1>7, <1>9 DEF Second, Middle
<1>12. /\ e \in Seq(Character) /\ Len(e) = Middle(L, G, H)
       /\ Stands(e, 0, l) /\ Stands(e, L, <<"[">>) /\ Stands(e, L + 1, g)
       /\ Stands(e, L + 1 + G, <<"]", "[">>) /\ Stands(e, Second(L, G), h)
       /\ Stands(e, Second(L, G) + H, <<Comma>>)
  <2>1. /\ e \in Seq(Character) /\ Len(e) = Len(d) + 1
        /\ Stands(e, Len(d), <<Comma>>)
        /\ \A i \in Nat : \A z : Len(z) \in Nat /\ Stands(d, i, z) => Stands(e, i, z)
    BY <1>4, <1>9, Extended
  <2>2. /\ Stands(e, 0, l) /\ Stands(e, L, <<"[">>) /\ Stands(e, L + 1, g)
        /\ Stands(e, L + 1 + G, <<"]", "[">>) /\ Stands(e, Second(L, G), h)
    BY <1>9, <1>11, <1>10, <2>1, Zenon
  <2>3. Len(d) + 1 = Middle(L, G, H)
    BY <1>9, <1>11
  <2>4. QED
    BY <1>9, <2>1, <2>2, <2>3
<1> HIDE DEF e
<1>13. /\ f \in Seq(Character) /\ Len(f) = Middle(L, G, H) + K /\ K \in Nat
       /\ Stands(f, 0, l) /\ Stands(f, L, <<"[">>) /\ Stands(f, L + 1, g)
       /\ Stands(f, L + 1 + G, <<"]", "[">>) /\ Stands(f, Second(L, G), h)
       /\ Stands(f, Second(L, G) + H, <<Comma>>) /\ Stands(f, Middle(L, G, H), k)
  <2>1. /\ f \in Seq(Character) /\ Len(f) = Len(e) + K /\ K \in Nat
        /\ Stands(f, Len(e), k)
        /\ \A i \in Nat : \A z : Len(z) \in Nat /\ Stands(e, i, z) => Stands(f, i, z)
    BY <1>12, Extended
  <2>2. Second(L, G) + H \in Nat
    BY <1>9, <1>11
  <2>3. /\ Stands(f, 0, l) /\ Stands(f, L, <<"[">>) /\ Stands(f, L + 1, g)
        /\ Stands(f, L + 1 + G, <<"]", "[">>) /\ Stands(f, Second(L, G), h)
        /\ Stands(f, Second(L, G) + H, <<Comma>>)
    BY <1>11, <1>12, <1>10, <2>1, <2>2, Zenon
  <2>4. QED
    BY <1>12, <2>1, <2>3
<1> HIDE DEF f
<1>14. Final(L, G, H, K) = Middle(L, G, H) + K + 1 /\ Final(L, G, H, K) \in Nat
       /\ Second(L, G) + H \in Nat /\ Middle(L, G, H) + K \in Nat
  BY <1>5, <1>7, <1>9, <1>11, <1>13 DEF Final, Middle
<1>15. /\ m \in Seq(Character) /\ Len(m) = Final(L, G, H, K)
       /\ Stands(m, 0, l) /\ Stands(m, L, <<"[">>) /\ Stands(m, L + 1, g)
       /\ Stands(m, L + 1 + G, <<"]", "[">>) /\ Stands(m, Second(L, G), h)
       /\ Stands(m, Second(L, G) + H, <<Comma>>) /\ Stands(m, Middle(L, G, H), k)
       /\ Stands(m, Middle(L, G, H) + K, <<"]">>)
  <2>1. /\ m \in Seq(Character) /\ Len(m) = Len(f) + 1
        /\ Stands(m, Len(f), <<"]">>)
        /\ \A i \in Nat : \A z : Len(z) \in Nat /\ Stands(f, i, z) => Stands(m, i, z)
    BY <1>3, <1>13, Extended
  <2>2. /\ Stands(m, 0, l) /\ Stands(m, L, <<"[">>) /\ Stands(m, L + 1, g)
        /\ Stands(m, L + 1 + G, <<"]", "[">>) /\ Stands(m, Second(L, G), h)
        /\ Stands(m, Second(L, G) + H, <<Comma>>) /\ Stands(m, Middle(L, G, H), k)
    BY <1>11, <1>13, <1>14, <1>10, <2>1, Zenon
  <2>3. Len(f) + 1 = Final(L, G, H, K)
    BY <1>13, <1>14
  <2>4. QED
    BY <1>13, <2>1, <2>2, <2>3
<1> HIDE DEF m
<1>16. /\ s \in Seq(Character) /\ Len(s) = Final(L, G, H, K) + Len(x) /\ Len(x) \in Nat
       /\ Stands(s, 0, l) /\ Stands(s, L, <<"[">>) /\ Stands(s, L + 1, g)
       /\ Stands(s, L + 1 + G, <<"]", "[">>) /\ Stands(s, Second(L, G), h)
       /\ Stands(s, Second(L, G) + H, <<Comma>>) /\ Stands(s, Middle(L, G, H), k)
       /\ Stands(s, Middle(L, G, H) + K, <<"]">>) /\ Stands(s, Final(L, G, H, K), x)
  <2>1. /\ s \in Seq(Character) /\ Len(s) = Len(m) + Len(x) /\ Len(x) \in Nat
        /\ Stands(s, Len(m), x)
        /\ \A i \in Nat : \A z : Len(z) \in Nat /\ Stands(m, i, z) => Stands(s, i, z)
    BY <1>15, Extended
  <2>2. /\ Stands(s, 0, l) /\ Stands(s, L, <<"[">>) /\ Stands(s, L + 1, g)
        /\ Stands(s, L + 1 + G, <<"]", "[">>) /\ Stands(s, Second(L, G), h)
        /\ Stands(s, Second(L, G) + H, <<Comma>>) /\ Stands(s, Middle(L, G, H), k)
        /\ Stands(s, Middle(L, G, H) + K, <<"]">>)
    BY <1>11, <1>13, <1>14, <1>15, <1>10, <2>1, Zenon
  <2>3. QED
    BY <1>15, <2>1, <2>2
<1> HIDE DEF s
<1>17. s[L + 1] = "["
  BY <1>2, <1>16
<1>18. s[(L + 1 + G) + 1] = "]" /\ s[(L + 1 + G) + 2] = "["
  BY <1>11, <1>16, TwoCharacters
<1>19. s[L + G + 2] = "]" /\ s[Second(L, G)] = "["
  <2>1. (L + 1 + G) + 1 = L + G + 2 /\ (L + 1 + G) + 2 = Second(L, G)
    BY <1>5, <1>7 DEF Second
  <2>2. QED
    BY <1>18, <2>1
<1>20. s[Middle(L, G, H)] = Comma
  BY <1>4, <1>11, <1>16
<1>21. s[Final(L, G, H, K)] = "]"
  BY <1>3, <1>14, <1>16
<1>22. Len(s) \in Nat
  BY <1>14, <1>16
<1>23. EdgeLaid(s, l, g, h, k, x)
  BY <1>16, <1>17, <1>19, <1>20, <1>21, <1>22 DEF EdgeLaid
<1>24. s = l \o <<"[">> \o g \o <<"]", "[">> \o h \o <<",">> \o k \o <<"]">> \o x
  BY Zenon DEF s, m, f, e, d, c, b, a, Comma
<1>25. QED
  BY <1>23, <1>24, Zenon

\* Edges a server sends.
ServerEdges == [label : LabelTexts, eid : IntGids, startVid : IntGids, endVid : IntGids,
                props : ObjectTexts, str : {Null}]

\* An id that stands in a text.
LEMMA IdRegion ==
    ASSUME NEW s, NEW b \in Nat, NEW g \in IntGids, Stands(s, b, GidText(g))
    PROVE  \A i \in b + 1 .. b + Len(GidText(g)) :
               s[i] # Opening /\ s[i] # Closing /\ s[i] # Comma /\ s[i] # "]"
<1>1. Len(GidText(g)) \in Nat /\ \A i \in 1 .. Len(GidText(g)) : GidText(g)[i] \in IdChars
  BY GidIsText
<1>2. \A i \in 1 .. Len(GidText(g)) : s[b + i] = GidText(g)[i]
  BY DEF Stands
<1>3. TAKE i \in b + 1 .. b + Len(GidText(g))
<1>4. i - b \in 1 .. Len(GidText(g)) /\ b + (i - b) = i
  BY <1>1
<1>5. s[i] \in IdChars
  BY <1>1, <1>2, <1>4
<1>6. QED
  BY <1>5, IdCharacters

\* Where the pieces of the text of an edge begin and end.
LEMMA EdgePositions ==
    ASSUME NEW L \in Nat, NEW G \in Nat, NEW H \in Nat, NEW K \in Nat
    PROVE  /\ Second(L, G) = L + G + 3 /\ Second(L, G) \in Nat
           /\ Middle(L, G, H) = Second(L, G) + H + 1 /\ Middle(L, G, H) \in Nat
           /\ Final(L, G, H, K) = Middle(L, G, H) + K + 1 /\ Final(L, G, H, K) \in Nat
  BY DEF Second, Middle, Final

\* The lengths and positions in the text of edge v.
EdgePlaces(v, L, G, H, K, a, m, n) ==
    /\ L = Len(v.label) /\ G = Len(GidText(v.eid))
    /\ H = Len(GidText(v.startVid)) /\ K = Len(GidText(v.endVid))
    /\ a = Second(L, G) /\ m = Middle(L, G, H) /\ n = Final(L, G, H, K)

\* What stands between them, up to the last "]" at n; the comma is at m.
EdgeShape(s, L, G, H, K, a, m, n) ==
    /\ L \in Nat /\ L >= 1 /\ G \in Nat /\ H \in Nat /\ K \in Nat
    /\ a \in Nat /\ m \in Nat /\ n \in Nat
    /\ a = L + G + 3 /\ m = a + H + 1 /\ n = m + K + 1
    /\ \A i \in 1 .. n : s[i] # Opening /\ s[i] # Closing
    /\ \A i \in 1 .. n : s[i] = Comma => i = m
    /\ \A i \in L + 2 .. L + G + 1 : s[i] # "]"
    /\ \A i \in a + 1 .. n - 1 : s[i] # "]"

\* The characters of the text of an edge up to its last "]", at n; the comma of
\* its second pair of brackets is at m.
LEMMA EdgeHead ==
    ASSUME NEW s, NEW v \in ServerEdges,
           EdgeLaid(s, v.label, GidText(v.eid), GidText(v.startVid), GidText(v.endVid),
                    v.props),
           NEW L, NEW G, NEW H, NEW K, NEW a, NEW m, NEW n,
           EdgePlaces(v, L, G, H, K, a, m, n)
    PROVE  EdgeShape(s, L, G, H, K, a, m, n)
<1>1. PICK l, g, h, k : l = v.label /\ g = v.eid /\ h = v.startVid /\ k = v.endVid
  OBVIOUS
<1>2. l \in LabelTexts /\ g \in IntGids /\ h \in IntGids /\ k \in IntGids
  BY <1>1 DEF ServerEdges
<1>3. /\ L \in Nat /\ L >= 1
      /\ \A i \in 1 .. L : l[i] # Opening /\ l[i] # Closing /\ l[i] # Comma
  BY <1>1, <1>2, LabelIs DEF EdgePlaces
<1>4. G \in Nat /\ H \in Nat /\ K \in Nat
  BY <1>1, <1>2, GidIsText DEF EdgePlaces
<1>5. /\ Stands(s, 0, l) /\ s[L + 1] = "[" /\ Stands(s, L + 1, GidText(g))
      /\ s[L + G + 2] = "]"
      /\ s[a] = "[" /\ Stands(s, a, GidText(h))
      /\ s[m] = Comma /\ Stands(s, m, GidText(k)) /\ s[n] = "]"
  BY <1>1 DEF EdgeLaid, EdgePlaces
<1>6. /\ a \in Nat /\ m \in Nat /\ n \in Nat
      /\ a = L + G + 3 /\ m = a + H + 1 /\ n = m + K + 1
  <2>1. /\ Second(L, G) = L + G + 3 /\ Second(L, G) \in Nat
        /\ Middle(L, G, H) = Second(L, G) + H + 1 /\ Middle(L, G, H) \in Nat
        /\ Final(L, G, H, K) = Middle(L, G, H) + K + 1 /\ Final(L, G, H, K) \in Nat
    BY <1>3, <1>4, EdgePositions, Zenon
  <2>2. a = Second(L, G) /\ m = Middle(L, G, H) /\ n = Final(L, G, H, K)
    BY DEF EdgePlaces
  <2>3. QED
    BY <2>1, <2>2
<1>7. PICK b \in Nat : b = L + 1
  BY <1>3
<1>8. PICK c \in Nat : c = L + G + 2
  BY <1>3, <1>4
<1>9. ASSUME NEW i \in 1 .. L PROVE s[i] # Opening /\ s[i] # Closing /\ s[i] # Comma
  <2>1. s[0 + i] = l[i] /\ 0 + i = i
    BY <1>1, <1>5 DEF Stands, EdgePlaces
  <2>2. QED
    BY <1>3, <2>1
<1>10. \A i \in b + 1 .. b + G :
          s[i] # Opening /\ s[i] # Closing /\ s[i] # Comma /\ s[i] # "]"
  BY <1>1, <1>2, <1>5, <1>7, IdRegion DEF EdgePlaces
<1>11. \A i \in a + 1 .. a + H :
          s[i] # Opening /\ s[i] # Closing /\ s[i] # Comma /\ s[i] # "]"
  BY <1>1, <1>2, <1>5, <1>6, IdRegion DEF EdgePlaces
<1>12. \A i \in m + 1 .. m + K :
          s[i] # Opening /\ s[i] # Closing /\ s[i] # Comma /\ s[i] # "]"
  BY <1>1, <1>2, <1>5, <1>6, IdRegion DEF EdgePlaces
<1>13. \A i \in L + 2 .. L + G + 1 : i \in b + 1 .. b + G
  BY <1>3, <1>4, <1>7
<1>14. ASSUME NEW i \in a + 1 .. n - 1
       PROVE  s[i] # Opening /\ s[i] # Closing /\ s[i] # "]" /\ (s[i] = Comma => i = m)
  <2>1. i \in a + 1 .. a + H \/ i = m \/ i \in m + 1 .. m + K
    BY <1>4, <1>6
  <2>2. QED
    BY <1>5, <1>11, <1>12, <2>1, Characters
<1>15. ASSUME NEW i \in 1 .. n
       PROVE  s[i] # Opening /\ s[i] # Closing /\ (s[i] = Comma => i = m)
  <2>1. \/ i \in 1 .. L
        \/ i \in b + 1 .. b + G
        \/ i \in a + 1 .. n - 1
        \/ i = b \/ i = c \/ i = a \/ i = n
    BY <1>3, <1>4, <1>6, <1>7, <1>8
  <2>2. s[b] = "[" /\ s[c] = "]"
    BY <1>5, <1>7, <1>8
  <2>3. QED
    BY <1>5, <1>9, <1>10, <1>14, <2>1, <2>2, Characters
<1>16. \A i \in L + 2 .. L + G + 1 : s[i] # "]"
  BY <1>10, <1>13
<1>17. QED
  BY <1>3, <1>4, <1>6, <1>14, <1>15, <1>16 DEF EdgeShape

\* So is the text of an edge.
LEMMA EdgeLaidOut ==
    ASSUME NEW v \in ServerEdges
    PROVE  EdgeLaid(EdgeText(v), v.label, GidText(v.eid), GidText(v.startVid),
                    GidText(v.endVid), v.props)
<1>1. /\ v.label \in LabelTexts /\ v.eid \in IntGids /\ v.startVid \in IntGids
      /\ v.endVid \in IntGids /\ v.props \in ObjectTexts
  BY DEF ServerEdges
<1>2. /\ v.label \in Seq(Character) /\ GidText(v.eid) \in Seq(Character)
      /\ GidText(v.startVid) \in Seq(Character) /\ GidText(v.endVid) \in Seq(Character)
      /\ v.props \in Seq(Character)
  BY <1>1, LabelIs, GidIsText, ObjectIs
<1>3. EdgeLaid(v.label \o <<"[">> \o GidText(v.eid) \o <<"]", "[">> \o GidText(v.startVid)
                   \o <<",">> \o GidText(v.endVid) \o <<"]">> \o v.props,
               v.label, GidText(v.eid), GidText(v.startVid), GidText(v.endVid), v.props)
  BY <1>2, EdgeLayout, Zenon
<1>4. QED
  BY <1>3, Zenon DEF EdgeText

\* No comma of an edge ends it: the one between its ends is in brackets.
LEMMA EdgeIsOnePart ==
    ASSUME NEW v \in ServerEdges
    PROVE  EdgeText(v) \in Seq(Character) /\ OnePart(EdgeText(v))
<1>1. PICK s : s = EdgeText(v)
  OBVIOUS
<1>2. PICK L, G, H, K, a, m, n : EdgePlaces(v, L, G, H, K, a, m, n)
  BY DEF EdgePlaces
<1>3. PICK x : x = v.props
  OBVIOUS
<1>4. EdgeLaid(s, v.label, GidText(v.eid), GidText(v.startVid), GidText(v.endVid), v.props)
  BY <1>1, EdgeLaidOut
<1>5. x \in Seq(Character) /\ Balanced(x) /\ Len(x) \in Nat
  BY <1>3, ObjectIs DEF ServerEdges
<1>6. /\ a \in Nat /\ m \in Nat /\ n \in Nat /\ a \in 1 .. m - 1 /\ m < n
      /\ \A i \in 1 .. n : s[i] # Opening /\ s[i] # Closing
      /\ \A i \in 1 .. n : s[i] = Comma => i = m
      /\ \A i \in a + 1 .. n - 1 : s[i] # "]"
  <2>1. /\ L \in Nat /\ L >= 1 /\ G \in Nat /\ H \in Nat /\ K \in Nat
        /\ a \in Nat /\ m \in Nat /\ n \in Nat
        /\ a = L + G + 3 /\ m = a + H + 1 /\ n = m + K + 1
        /\ \A i \in 1 .. n : s[i] # Opening /\ s[i] # Closing
        /\ \A i \in 1 .. n : s[i] = Comma => i = m
        /\ \A i \in a + 1 .. n - 1 : s[i] # "]"
    <3>1. EdgeShape(s, L, G, H, K, a, m, n)
      BY <1>1, <1>2, <1>4, EdgeHead
    <3>2. QED
      BY <3>1 DEF EdgeShape
  <2>2. a \in 1 .. m - 1 /\ m < n
    BY <2>1
  <2>3. QED
    BY <2>1, <2>2
<1>7. /\ s \in Seq(Character) /\ Len(s) = n + Len(x) /\ Stands(s, n, x) /\ s[n] = "]"
      /\ s[a] = "["
  BY <1>2, <1>3, <1>4 DEF EdgeLaid, EdgePlaces
<1>8. InGid(s, 1, m)
  <2>1. \A i \in 1 .. a - 1 : s[i] # Opening /\ s[i] # Closing
    BY <1>6
  <2>2. Nesting(s, 1, a) = 0
    BY <1>6, <2>1, NestingFlat
  <2>3. \A i \in a + 1 .. m - 1 : s[i] # "]"
    BY <1>6
  <2>4. QED
    BY <1>6, <1>7, <2>2, <2>3 DEF InGid
<1>9. \A q \in 1 .. n : s[q] = Comma => InGid(s, 1, q)
  BY <1>6, <1>8
<1>10. n # 0
  BY <1>6
<1>11. OnePart(s)
  BY <1>5, <1>6, <1>7, <1>9, <1>10, HeadAndProps, Zenon
<1>12. QED
  BY <1>1, <1>7, <1>11

\* An edge is read as it was sent.
LEMMA EdgeIsRead ==
    ASSUME NEW v \in ServerEdges, v.props \in PropsTexts
    PROVE  EdgeNew(EdgeText(v)) = v
<1> DEFINE t1 == GetToken(EdgeText(v), TokenInit)
           t2 == GetToken(EdgeText(v), t1)
           t3 == GetToken(EdgeText(v), t2)
           t4 == GetToken(EdgeText(v), t3)
<1>1. EdgeNew(EdgeText(v)) =
          [label |-> Token(EdgeText(v), t1), eid |-> SetGid(EdgeText(v), t2.start),
           startVid |-> SetGid(EdgeText(v), t3.start),
           endVid |-> SetGid(EdgeText(v), TokStrchr(EdgeText(v), t3.start, Comma)),
           props |-> MakeAgJson(Token(EdgeText(v), t4)), str |-> Null]
  BY Zenon DEF EdgeNew, Comma
<1>2. PICK s : s = EdgeText(v)
  OBVIOUS
<1>3. PICK l, g, h, k, x : /\ l = v.label /\ g = v.eid /\ h = v.startVid /\ k = v.endVid
                           /\ x = v.props
  OBVIOUS
<1>4. /\ l \in LabelTexts /\ g \in IntGids /\ h \in IntGids /\ k \in IntGids
      /\ x \in ObjectTexts
      /\ v = [label |-> l, eid |-> g, startVid |-> h, endVid |-> k, props |-> x,
              str |-> Null]
  BY <1>3 DEF ServerEdges
<1>5. PICK L, G, H, K, a, m, n : EdgePlaces(v, L, G, H, K, a, m, n)
  BY DEF EdgePlaces
<1>6. L = Len(l) /\ G = Len(GidText(g)) /\ H = Len(GidText(h)) /\ K = Len(GidText(k))
  BY <1>3, <1>5 DEF EdgePlaces
<1>7. EdgeLaid(s, v.label, GidText(v.eid), GidText(v.startVid), GidText(v.endVid), v.props)
  BY <1>2, EdgeLaidOut
<1>8. /\ L \in Nat /\ L >= 1 /\ G \in Nat /\ H \in Nat /\ K \in Nat
      /\ a \in Nat /\ m \in Nat /\ n \in Nat
      /\ a = L + G + 3 /\ m = a + H + 1 /\ n = m + K + 1
      /\ \A i \in 1 .. n : s[i] # Opening /\ s[i] # Closing
      /\ \A i \in 1 .. n : s[i] = Comma => i = m
      /\ \A i \in L + 2 .. L + G + 1 : s[i] # "]"
      /\ \A i \in a + 1 .. n - 1 : s[i] # "]"
  <2>1. EdgeShape(s, L, G, H, K, a, m, n)
    BY <1>5, <1>7, EdgeHead
  <2>2. QED
    BY <2>1 DEF EdgeShape
<1>9. /\ s \in Seq(Character) /\ Len(s) \in Nat /\ Len(s) = n + Len(x)
      /\ Stands(s, 0, l) /\ s[L + 1] = "[" /\ Stands(s, L + 1, GidText(g))
      /\ s[L + G + 2] = "]" /\ s[a] = "[" /\ Stands(s, a, GidText(h)) /\ s[m] = Comma
      /\ Stands(s, m, GidText(k)) /\ s[n] = "]" /\ Stands(s, n, x)
  BY <1>3, <1>5, <1>7 DEF EdgeLaid, EdgePlaces
<1>10. Len(x) \in Nat /\ Len(x) >= 2
  BY <1>4, ObjectIs
<1>11. PICK b, c \in Nat : b = L + 1 /\ c = L + G + 2
  BY <1>8
<1>12. /\ a \in Nat /\ m \in Nat /\ n \in Nat
       /\ b + G + 1 = c /\ a = c + 1 /\ a + H + 1 = m /\ m + K + 1 = n /\ n < Len(s)
  BY <1>8, <1>9, <1>10, <1>11
<1>13. t1 = [start |-> 1, end |-> b] /\ Token(s, t1) = l
  <2>1. Len(l) < Len(s) /\ s[Len(l) + 1] = "[" /\ Len(l) + 1 = b
    BY <1>6, <1>8, <1>9, <1>11, <1>12
  <2>2. /\ GetToken(s, TokenInit) = [start |-> 1, end |-> Len(l) + 1]
        /\ Token(s, GetToken(s, TokenInit)) = l
    BY <1>4, <1>9, <2>1, LabelToken, Zenon
  <2>3. QED
    BY <1>2, <2>1, <2>2
<1>14. t2 = [start |-> b, end |-> c + 1]
  <2>1. /\ t1.end = b /\ b \in Nat \ {0} /\ s[b] = "[" /\ c \in b + 1 .. Len(s) /\ s[c] = "]"
        /\ \A q \in b + 1 .. c - 1 : s[q] # "]"
    BY <1>8, <1>9, <1>11, <1>12, <1>13
  <2> HIDE DEF t1
  <2>2. GetToken(s, t1) = [start |-> b, end |-> c + 1]
    BY <1>9, <2>1, IdToken
  <2>3. QED
    BY <1>2, <2>2
<1>15. t3 = [start |-> a, end |-> n + 1]
  <2> HIDE DEF t2
  <2>1. /\ t2.end = a /\ a \in Nat \ {0} /\ n \in a + 1 .. Len(s)
    BY <1>8, <1>12, <1>14
  <2>2. GetToken(s, t2) = [start |-> a, end |-> n + 1]
    BY <1>8, <1>9, <2>1, IdToken
  <2>3. QED
    BY <1>2, <2>2
<1> HIDE DEF t1, t2, t3
<1>16. Token(s, t4) = x
  <2>1. t3.end = n + 1
    BY <1>15
  <2>2. Token(s, GetToken(s, t3)) = x
    BY <1>4, <1>9, <1>12, <2>1, PropsToken
  <2>3. QED
    BY <1>2, <2>2
<1> HIDE DEF t4
<1>17. SetGid(s, b) = g
  <2>1. s[b + Len(GidText(g)) + 1] \notin Range(Figures)
    BY <1>6, <1>9, <1>11, <1>12, IdCharacters
  <2>2. Stands(s, b, GidText(g)) /\ b + Len(GidText(g)) < Len(s)
    BY <1>6, <1>8, <1>9, <1>11, <1>12
  <2>3. QED
    BY <1>4, <1>9, <2>1, <2>2, GidIsRead
<1>18. SetGid(s, a) = h
  <2>1. s[a + Len(GidText(h)) + 1] \notin Range(Figures)
    BY <1>6, <1>9, <1>12, IdCharacters
  <2>2. a + Len(GidText(h)) < Len(s)
    BY <1>6, <1>8, <1>12
  <2>3. QED
    BY <1>4, <1>9, <1>12, <2>1, <2>2, GidIsRead
<1>19. SetGid(s, m) = k
  <2>1. s[m + Len(GidText(k)) + 1] \notin Range(Figures)
    BY <1>6, <1>9, <1>12, IdCharacters
  <2>2. m + Len(GidText(k)) < Len(s)
    BY <1>6, <1>8, <1>12
  <2>3. QED
    BY <1>4, <1>9, <1>12, <2>1, <2>2, GidIsRead
<1>20. TokStrchr(s, a, Comma) = m
  <2>1. m \in a .. Len(s) /\ a \in Nat
    BY <1>8, <1>12
  <2>2. ASSUME NEW q \in a .. m - 1 PROVE s[q] # Comma
    <3>1. q \in 1 .. n /\ q # m
      BY <1>8, <1>12
    <3>2. QED
      BY <1>8, <3>1
  <2>3. QED
    BY <1>9, <2>1, <2>2, TokStrchrIs
<1>21. MakeAgJson(x) = x
  BY <1>3 DEF MakeAgJson
<1>22. t2.start = b /\ t3.start = a
  BY <1>14, <1>15
<1>23. EdgeNew(EdgeText(v)) = [label |-> l, eid |-> g, startVid |-> h, endVid |-> k,
                               props |-> x, str |-> Null]
  BY <1>1, <1>2, <1>13, <1>16, <1>17, <1>18, <1>19, <1>20, <1>21, <1>22
<1>24. QED
  BY <1>4, <1>23

-----------------------------------------------------------------------------
(* The text of a path.                                                     *)

\* The value at i of the function f that defines FlattenSeq.
FlatAt(f, q, i) == IF i = 1 THEN q[i] ELSE f[i - 1] \o q[i]

FlatUpto(f, q, n) == f = [i \in 1 .. n |-> FlatAt(f, q, i)]

\* There is such a function for any texts.
LEMMA FlatsExist ==
    ASSUME NEW q
    PROVE  \A n \in Nat : \E f : FlatUpto(f, q, n)
<1> DEFINE S == {n \in Nat : \E f : FlatUpto(f, q, n)}
<1>1. 0 \in S
  <2> DEFINE f == [i \in 1 .. 0 |-> q]
  <2>1. f = [i \in 1 .. 0 |-> FlatAt(f, q, i)]
    OBVIOUS
  <2>2. FlatUpto(f, q, 0)
    BY <2>1, Zenon DEF FlatUpto
  <2>3. QED
    BY <2>2
<1>2. ASSUME NEW n \in Nat, n \in S PROVE n + 1 \in S
  <2>1. PICK f : FlatUpto(f, q, n)
    BY <1>2
  <2> DEFINE g == [i \in 1 .. n + 1 |-> IF i <= n THEN f[i] ELSE FlatAt(f, q, n + 1)]
  <2>2. ASSUME NEW i \in 1 .. n + 1 PROVE FlatAt(g, q, i) = FlatAt(f, q, i)
    <3>1. i # 1 => g[i - 1] = f[i - 1]
      OBVIOUS
    <3> HIDE DEF g
    <3>2. QED
      BY <3>1 DEF FlatAt
  <2>3. ASSUME NEW i \in 1 .. n + 1 PROVE g[i] = FlatAt(g, q, i)
    <3>1. CASE i <= n
      <4>1. g[i] = f[i]
        BY <3>1
      <4>2. i \in 1 .. n
        BY <3>1
      <4>3. f[i] = FlatAt(f, q, i)
        BY <2>1, <4>2 DEF FlatUpto
      <4>4. QED
        BY <2>2, <4>1, <4>3
    <3>2. CASE i = n + 1
      <4>1. g[i] = FlatAt(f, q, n + 1)
        BY <3>2
      <4>2. QED
        BY <2>2, <3>2, <4>1
    <3>3. i <= n \/ i = n + 1
      OBVIOUS
    <3>4. QED
      BY <3>1, <3>2, <3>3
  <2>4. g = [i \in 1 .. n + 1 |-> g[i]]
    OBVIOUS
  <2> HIDE DEF g
  <2>5. g = [i \in 1 .. n + 1 |-> FlatAt(g, q, i)]
    BY <2>3, <2>4
  <2>6. FlatUpto(g, q, n + 1)
    BY <2>5, Zenon DEF FlatUpto
  <2>7. QED
    BY <2>6
<1> HIDE DEF S
<1>3. \A n \in Nat : n \in S
  BY <1>1, <1>2, NatSet
<1>4. QED
  BY <1>3 DEF S

Flats(q) == CHOOSE f : FlatUpto(f, q, Len(q))

\* The recursive definition holds.
LEMMA FlatIs ==
    ASSUME NEW q, NEW n \in Nat \ {0}, Len(q) = n
    PROVE  /\ FlattenSeq(q) = Flats(q)[n]
           /\ \A i \in 1 .. n : Flats(q)[i] = FlatAt(Flats(q), q, i)
<1>1. FlatUpto(Flats(q), q, Len(q))
  BY FlatsExist DEF Flats
<1>2. \A i \in 1 .. Len(q) : Flats(q)[i] = FlatAt(Flats(q), q, i)
  BY <1>1 DEF FlatUpto
<1>3. Len(q) # 0
  OBVIOUS
<1>4. FlattenSeq(q) = Flats(q)[Len(q)]
  BY <1>3, Zenon DEF FlattenSeq, Flats, FlatUpto, FlatAt
<1>5. QED
  BY <1>2, <1>4

\* Where the members of q stand in the one text they are joined to.
Laid(q, n, off, s) ==
    /\ off[0] = 0 /\ off[n] = Len(s) /\ s \in Seq(Character)
    /\ \A i \in 1 .. n :
           /\ off[i - 1] \in Nat /\ off[i] = off[i - 1] + Len(q[i])
           /\ Stands(s, off[i - 1], q[i])

\* Texts that are joined stand one behind the other.
LEMMA Flattened ==
    ASSUME NEW q, NEW n \in Nat \ {0}, Len(q) = n,
           \A i \in 1 .. n : q[i] \in Seq(Character)
    PROVE  \E off : Laid(q, n, off, FlattenSeq(q))
<1>1. PICK f : /\ FlattenSeq(q) = f[n]
               /\ \A i \in 1 .. n : f[i] = FlatAt(f, q, i)
  <2>1. /\ FlattenSeq(q) = Flats(q)[n]
        /\ \A i \in 1 .. n : Flats(q)[i] = FlatAt(Flats(q), q, i)
    BY FlatIs
  <2>2. QED
    BY <2>1
<1>2. PICK off : off = [i \in 0 .. n |-> IF i = 0 THEN 0 ELSE Len(f[i])]
  OBVIOUS
<1>3. off[0] = 0 /\ \A i \in 1 .. n : off[i] = Len(f[i])
  BY <1>2
<1> DEFINE Done(m) == Laid(q, m, off, f[m])
           S == {m \in Nat : m + 1 <= n => Done(m + 1)}
<1>4. \A i \in 1 .. n : Len(q[i]) \in Nat
  BY LenProperties
<1>5. Done(1)
  <2>1. 1 \in 1 .. n
    OBVIOUS
  <2>2. f[1] = q[1]
    BY <1>1, <2>1 DEF FlatAt
  <2>3. off[1] = Len(q[1]) /\ Len(q[1]) \in Nat /\ q[1] \in Seq(Character)
    BY <1>3, <1>4, <2>1, <2>2
  <2>4. Stands(q[1], 0, q[1])
    <3>1. \A i \in 1 .. Len(q[1]) : q[1][0 + i] = q[1][i]
      OBVIOUS
    <3>2. 0 + Len(q[1]) <= Len(q[1])
      BY <2>3
    <3>3. QED
      BY <3>1, <3>2 DEF Stands
  <2>5. \A i \in 1 .. 1 : i = 1 /\ i - 1 = 0
    OBVIOUS
  <2>6. off[1] = 0 + Len(q[1])
    BY <2>3
  <2>7. QED
    BY <1>3, <2>2, <2>3, <2>4, <2>5, <2>6 DEF Laid
<1>6. 0 \in S
  BY <1>5
<1>7. ASSUME NEW m \in 1 .. n - 1, Done(m) PROVE Done(m + 1)
  <2>1. PICK k \in 2 .. n : k = m + 1 /\ k - 1 = m /\ k # 1 /\ k \in 1 .. n
    OBVIOUS
  <2>2. f[k] = f[m] \o q[k]
    BY <1>1, <2>1 DEF FlatAt
  <2>3. f[m] \in Seq(Character) /\ q[k] \in Seq(Character) /\ off[m] = Len(f[m])
    BY <1>7, <2>1 DEF Laid
  <2>4. /\ f[k] \in Seq(Character) /\ Len(f[k]) = Len(f[m]) + Len(q[k])
        /\ Len(f[m]) \in Nat /\ Stands(f[k], Len(f[m]), q[k])
        /\ \A b \in Nat : \A z : Len(z) \in Nat /\ Stands(f[m], b, z) => Stands(f[k], b, z)
    <3>1. PICK x \in Seq(Character), y \in Seq(Character) : x = f[m] /\ y = q[k]
      BY <2>3
    <3>2. /\ x \o y \in Seq(Character) /\ Len(x \o y) = Len(x) + Len(y) /\ Len(x) \in Nat
          /\ Stands(x \o y, Len(x), y)
          /\ \A b \in Nat : \A z :
                 Len(z) \in Nat /\ Stands(x, b, z) => Stands(x \o y, b, z)
      BY Extended
    <3>3. f[k] = x \o y
      BY <2>2, <3>1
    <3>4. QED
      BY <3>1, <3>2, <3>3
  <2>5. off[k] = Len(f[k])
    BY <1>3, <2>1
  <2>6. ASSUME NEW i \in 1 .. k
        PROVE  /\ off[i - 1] \in Nat /\ off[i] = off[i - 1] + Len(q[i])
               /\ Stands(f[k], off[i - 1], q[i])
    <3>1. CASE i = k
      BY <2>1, <2>3, <2>4, <2>5, <3>1
    <3>2. CASE i # k
      <4>1. i \in 1 .. m /\ i \in 1 .. n
        BY <2>1, <3>2
      <4>2. /\ off[i - 1] \in Nat /\ off[i] = off[i - 1] + Len(q[i])
            /\ Stands(f[m], off[i - 1], q[i])
        BY <1>7, <4>1 DEF Laid
      <4>3. QED
        BY <1>4, <2>4, <4>1, <4>2
    <3>3. QED
      BY <3>1, <3>2
  <2>7. Laid(q, k, off, f[k])
    BY <1>3, <2>4, <2>5, <2>6 DEF Laid
  <2>8. QED
    BY <2>1, <2>7
<1> HIDE DEF Done
<1>8. ASSUME NEW m \in Nat, m \in S PROVE m + 1 \in S
  <2> SUFFICES ASSUME (m + 1) + 1 <= n PROVE Done((m + 1) + 1)
    OBVIOUS
  <2>1. m + 1 \in 1 .. n - 1 /\ m + 1 <= n
    OBVIOUS
  <2>2. QED
    <3>1. PICK k \in 1 .. n - 1 : k = m + 1
      BY <2>1
    <3>2. Done(k)
      BY <1>8, <2>1, <3>1
    <3>3. Done(k + 1)
      BY <1>7, <3>2
    <3>4. QED
      BY <3>1, <3>3
<1> HIDE DEF S
<1>9. \A m \in Nat : m \in S
  BY <1>6, <1>8, NatSet
<1>10. Done(n)
  <2>1. PICK k \in Nat : k + 1 = n
    <3>1. n - 1 \in Nat /\ (n - 1) + 1 = n
      OBVIOUS
    <3>2. QED
      BY <3>1
  <2>2. k + 1 <= n => Done(k + 1)
    BY <1>9 DEF S
  <2>3. k + 1 <= n
    BY <2>1
  <2>4. QED
    BY <2>1, <2>2, <2>3
<1>11. QED
  BY <1>1, <1>10 DEF Done

-----------------------------------------------------------------------------
(* The parts of a path.                                                    *)

\* Part k of a path: vertices and edges in turn.
PartText(p, k) == IF k % 2 = 1 THEN VertexText(p.vertices[(k + 1) \div 2])
                  ELSE EdgeText(p.edges[k \div 2])

\* ends[k] is the position of the "," behind part k of n, or of the end.
Split(p, n, ends) ==
    /\ ends[0] = 0 /\ ends[n] = Len(PathText(p)) + 1
    /\ \A k \in 1 .. n :
           /\ ends[k - 1] \in Nat
           /\ ends[k] = ends[k - 1] + Len(PartText(p, k)) + 1
           /\ Stands(PathText(p), ends[k - 1], PartText(p, k))
           /\ k # n => PathText(p)[ends[k]] = Comma

\* The text of a path has its parts, with a "," between two.
LEMMA PathSplits ==
    ASSUME NEW p, NEW n \in Nat \ {0}, n = 2 * Len(p.edges) + 1,
           \A k \in 1 .. n : PartText(p, k) \in Seq(Character)
    PROVE  PathText(p) \in Seq(Character) /\ \E ends : Split(p, n, ends)
<1> DEFINE q == [k \in 1 .. n |-> (IF k = 1 THEN <<>> ELSE <<Comma>>) \o PartText(p, k)]
<1>1. PathText(p) = FlattenSeq(q)
  <2>1. PathText(p) =
            FlattenSeq([k \in 1 .. 2 * Len(p.edges) + 1 |->
                (IF k = 1 THEN <<>> ELSE <<Comma>>) \o PartText(p, k)])
    BY Zenon DEF PathText, PartText, Comma
  <2>2. QED
    BY <2>1
<1>2. Len(q) = n
  OBVIOUS
<1>3. \A k \in 1 .. n : q[k] = (IF k = 1 THEN <<>> ELSE <<Comma>>) \o PartText(p, k)
  OBVIOUS
<1> HIDE DEF q
<1>4. /\ <<Comma>> \in Seq(Character) /\ Len(<<Comma>>) = 1
      /\ \A t, i : Stands(t, i, <<Comma>>) => t[i + 1] = Comma
  <2>1. Comma \in Character
    BY DEF Character
  <2>2. QED
    BY <2>1, OneCharacter
<1>5. ASSUME NEW k \in 1 .. n
      PROVE  /\ q[k] \in Seq(Character) /\ Len(PartText(p, k)) \in Nat
             /\ k = 1 => q[k] = PartText(p, k)
             /\ k # 1 => /\ Len(q[k]) = 1 + Len(PartText(p, k))
                         /\ Stands(q[k], 0, <<Comma>>) /\ Stands(q[k], 1, PartText(p, k))
  <2>1. CASE k = 1
    <3>1. q[k] = <<>> \o PartText(p, k)
      BY <1>3, <2>1
    <3>2. q[k] = PartText(p, k)
      BY <3>1, ConcatEmptySeq
    <3>3. QED
      BY <2>1, <3>2, LenProperties
  <2>2. CASE k # 1
    <3>1. q[k] = <<Comma>> \o PartText(p, k)
      BY <1>3, <2>2
    <3>2. QED
      BY <1>4, <2>2, <3>1, Extended
  <2>3. QED
    BY <2>1, <2>2
<1>6. PICK off : Laid(q, n, off, FlattenSeq(q))
  BY <1>2, <1>5, Flattened
<1>7. PICK s : s = PathText(p)
  OBVIOUS
<1>8. /\ off[0] = 0 /\ off[n] = Len(s) /\ s \in Seq(Character) /\ Len(s) \in Nat
      /\ \A k \in 1 .. n :
             /\ off[k - 1] \in Nat /\ off[k] = off[k - 1] + Len(q[k])
             /\ Stands(s, off[k - 1], q[k])
  BY <1>1, <1>6, <1>7, LenProperties DEF Laid
<1>9. \A k \in 1 .. n : Len(q[k]) \in Nat /\ off[k] \in Nat
  <2> TAKE k \in 1 .. n
  <2>1. Len(q[k]) \in Nat
    BY <1>5, LenProperties
  <2>2. QED
    BY <1>8, <2>1
<1>10. PICK ends : ends = [k \in 0 .. n |-> IF k = 0 THEN 0 ELSE off[k] + 1]
  OBVIOUS
<1>11. ends[0] = 0 /\ \A k \in 1 .. n : ends[k] = off[k] + 1
  BY <1>10
<1>12. ASSUME NEW k \in 1 .. n
       PROVE  /\ ends[k - 1] \in Nat
              /\ ends[k] = ends[k - 1] + Len(PartText(p, k)) + 1
              /\ Stands(s, ends[k - 1], PartText(p, k))
  <2>1. CASE k = 1
    <3>1. k - 1 = 0
      BY <2>1
    <3>2. q[k] = PartText(p, k) /\ off[k - 1] = 0 /\ ends[k - 1] = 0
      BY <1>5, <1>8, <1>11, <2>1, <3>1
    <3>3. off[k] = 0 + Len(PartText(p, k)) /\ Stands(s, 0, PartText(p, k))
      BY <1>8, <3>2
    <3>4. QED
      BY <1>5, <1>11, <3>2, <3>3
  <2>2. CASE k # 1
    <3>1. PICK j \in 1 .. n : k - 1 = j
      BY <2>2
    <3>2. ends[j] = off[j] + 1 /\ ends[k] = off[k] + 1 /\ off[j] \in Nat
      BY <1>9, <1>11
    <3>3. off[k] = off[j] + (1 + Len(PartText(p, k)))
      BY <1>5, <1>8, <2>2, <3>1
    <3>4. Stands(s, off[j], q[k]) /\ Stands(q[k], 1, PartText(p, k))
      BY <1>5, <1>8, <2>2, <3>1
    <3>5. Stands(s, off[j] + 1, PartText(p, k))
      BY <1>5, <1>8, <1>9, <3>2, <3>4, StandsIn
    <3>6. PICK m \in Nat : m = Len(PartText(p, k))
      BY <1>5
    <3>7. ends[k] = ends[j] + m + 1 /\ ends[j] \in Nat
      <4>1. \A i \in Nat : (i + (1 + m)) + 1 = (i + 1) + m + 1 /\ i + 1 \in Nat
        OBVIOUS
      <4>2. off[k] = off[j] + (1 + m)
        BY <3>3, <3>6
      <4>3. QED
        BY <3>2, <4>1, <4>2, Zenon
    <3>8. QED
      BY <3>1, <3>2, <3>5, <3>6, <3>7
  <2>3. QED
    BY <2>1, <2>2
<1>13. ASSUME NEW k \in 1 .. n, k # n PROVE s[ends[k]] = Comma
  <2>1. PICK j \in 1 .. n : j = k + 1 /\ j # 1 /\ j - 1 = k
    BY <1>13
  <2>2. Stands(s, off[k], q[j]) /\ Stands(q[j], 0, <<Comma>>)
    BY <1>5, <1>8, <2>1
  <2>3. Stands(s, off[k], <<Comma>>)
    BY <1>4, <1>8, <1>9, <2>2, StandsFirst
  <2>4. QED
    BY <1>4, <1>11, <2>3
<1>14. ends[n] = Len(s) + 1
  BY <1>8, <1>11, SMTT(30)
<1>15. Split(p, n, ends)
  BY <1>7, <1>11, <1>12, <1>13, <1>14 DEF Split
<1>16. QED
  BY <1>7, <1>8, <1>15

\* The lists of a path whose text can be taken apart.
LEMMA WellFormedIs ==
    ASSUME NEW p \in Paths, WellFormed(p)
    PROVE  /\ p.vertices \in Seq(ServerVertices) /\ p.edges \in Seq(ServerEdges)
           /\ Len(p.edges) \in Nat /\ Len(p.vertices) = Len(p.edges) + 1
           /\ \A i \in 1 .. Len(p.vertices) : p.vertices[i] \in ServerVertices
           /\ \A i \in 1 .. Len(p.edges) : p.edges[i] \in ServerEdges
<1>1. p.vertices \in Seq(ServerVertices) /\ p.edges \in Seq(ServerEdges)
  BY Zenon DEF WellFormed, ServerVertices, ServerEdges
<1>2. Len(p.edges) \in Nat /\ Len(p.vertices) = Len(p.edges) + 1
  BY <1>1, PathsAssumption, LenProperties
<1>3. QED
  BY <1>1, <1>2

\* No comma of a part ends it.
LEMMA PartIsOnePart ==
    ASSUME NEW p \in Paths, WellFormed(p), NEW k \in 1 .. 2 * Len(p.edges) + 1
    PROVE  /\ PartText(p, k) \in Seq(Character) /\ OnePart(PartText(p, k))
           /\ Len(PartText(p, k)) \in Nat
<1>1. PICK E \in Nat : E = Len(p.edges)
  BY WellFormedIs
<1>2. CASE k % 2 = 1
  <2>1. PICK i \in 1 .. E + 1 : i = (k + 1) \div 2
    BY <1>1, <1>2
  <2>2. p.vertices[i] \in ServerVertices
    BY <1>1, <2>1, WellFormedIs
  <2>3. PartText(p, k) = VertexText(p.vertices[i])
    BY <1>2, <2>1 DEF PartText
  <2>4. QED
    BY <2>2, <2>3, VertexIsOnePart, LenProperties
<1>3. CASE k % 2 # 1
  <2>1. PICK i \in 1 .. E : i = k \div 2
    BY <1>1, <1>3
  <2>2. p.edges[i] \in ServerEdges
    BY <1>1, <2>1, WellFormedIs
  <2>3. PartText(p, k) = EdgeText(p.edges[i])
    BY <1>3, <2>1 DEF PartText
  <2>4. QED
    BY <2>2, <2>3, EdgeIsOnePart, LenProperties
<1>4. QED
  BY <1>2, <1>3

\* Reading on at the end of a part reads the next, and there is one until the
\* end of the text.
LEMMA SplitReads ==
    ASSUME NEW p \in Paths, WellFormed(p), NEW n, n = 2 * Len(p.edges) + 1,
           NEW ends, Split(p, n, ends), NEW k \in 1 .. n,
           NEW t, t.end = ends[k - 1], t.end = 0 => t.start = 1
    PROVE  /\ ~IsEnd(PathText(p), t)
           /\ Token(PathText(p), GetPathToken(PathText(p), t)) = PartText(p, k)
           /\ GetPathToken(PathText(p), t).end = ends[k]
           /\ ends[k] # 0
<1>1. PICK s, x : s = PathText(p) /\ x = PartText(p, k)
  OBVIOUS
<1>2. n \in Nat \ {0}
  BY WellFormedIs
<1>3. \A j \in 1 .. n : PartText(p, j) \in Seq(Character)
  BY PartIsOnePart
<1>4. s \in Seq(Character) /\ Len(s) \in Nat
  BY <1>1, <1>2, <1>3, PathSplits, LenProperties
<1>5. x \in Seq(Character) /\ OnePart(x) /\ Len(x) \in Nat
  BY <1>1, PartIsOnePart
<1>6. PICK b \in Nat : b = ends[k - 1]
  BY DEF Split
<1>7. /\ ends[k] = b + Len(x) + 1 /\ Stands(s, b, x)
      /\ k # n => s[ends[k]] = Comma
      /\ ends[n] = Len(s) + 1
  BY <1>1, <1>6 DEF Split
<1>8. b + Len(x) # Len(s) => s[b + Len(x) + 1] = Comma
  <2>1. k = n => b + Len(x) = Len(s)
    BY <1>4, <1>5, <1>7
  <2>2. QED
    BY <1>7, <2>1
<1>9. /\ GetPathToken(s, t) = [start |-> b + 1, end |-> b + Len(x) + 1]
      /\ Token(s, GetPathToken(s, t)) = x
  BY <1>4, <1>5, <1>6, <1>7, <1>8, PartIsRead, SMTT(30)
<1>10. ~IsEnd(s, t)
  <2>1. b + Len(x) <= Len(s)
    BY <1>7 DEF Stands
  <2>2. b # Len(s) + 1
    BY <1>4, <1>5, <2>1
  <2>3. QED
    BY <1>6, <2>2 DEF IsEnd
<1>11. ends[k] # 0
  BY <1>5, <1>7
<1>12. GetPathToken(s, t).end = ends[k]
  BY <1>7, <1>9
<1>13. QED
  BY <1>1, <1>9, <1>10, <1>11, <1>12

\* The properties a server sends parse.
LEMMA PropsAreParsed ==
    ASSUME NEW p \in Paths
    PROVE  /\ \A i \in DOMAIN p.vertices : p.vertices[i].props \in PropsTexts
           /\ \A i \in DOMAIN p.edges : p.edges[i].props \in PropsTexts
  BY DEF PropsTexts, Range

-----------------------------------------------------------------------------
(* The buffer.                                                             *)

\* A pointer of the token is a position.
LEMMA TokenStaysInText ==
    ASSUME NEW s \in Seq(STRING), NEW t, t.start \in Nat, t.end \in Nat
    PROVE  /\ GetPathToken(s, t).start \in Nat
           /\ GetPathToken(s, t).end \in Nat
<1> DEFINE start == IF t.end # Null THEN t.end + 1 ELSE t.start
           stop == {q \in start .. Len(s) :
                       /\ s[q] = "," /\ Nesting(s, start, q) = 0
                       /\ ~InGid(s, start, q)}
<1>1. GetPathToken(s, t) =
          [start |-> start, end |-> IF stop = {} THEN Len(s) + 1 ELSE Min(stop)]
  BY DEF GetPathToken
<1>2. start \in Nat /\ Len(s) \in Nat
  BY LenProperties
<1> HIDE DEF start
<1>3. stop \subseteq start .. Len(s)
  BY Zenon
<1> HIDE DEF stop
<1>4. stop # {} => Min(stop) \in Nat
  <2>1. stop \subseteq Nat
    BY <1>2, <1>3
  <2>2. QED
    BY <2>1, MinIsNat
<1>5. QED
  BY <1>1, <1>2, <1>4

\* A token has a length.
LEMMA TokenHasLength ==
    ASSUME NEW s, NEW t, t.start \in Nat, t.end \in Nat
    PROVE  Len(Token(s, t)) \in Nat
<1> DEFINE S == {s[i] : i \in t.start .. t.end - 1}
<1>1. Token(s, t) \in Seq(S)
  BY SubSeqProperties DEF Token
<1>2. QED
  BY <1>1, LenProperties

\* While a path is read the buffer is one byte longer than buf_len says.
BufInv ==
    /\ buf \in [len : Nat, size : Nat, used : Nat]
    /\ phase = "read" => buf.size = buf.len + 1
    /\ BufferHolds

ReadInv ==
    /\ phase # "none" => sent \in Paths
    /\ tok.start \in Nat /\ tok.end \in Nat

LEMMA CopiedFits ==
    ASSUME NEW n \in Nat, BufInv, phase = "read"
    PROVE  /\ Copied(n) \in [len : Nat, size : Nat, used : Nat]
           /\ Copied(n).size = Copied(n).len + 1
           /\ Copied(n).used <= Copied(n).size
<1>1. PICK len \in Nat, size \in Nat, used \in Nat :
          buf = [len |-> len, size |-> size, used |-> used]
  BY DEF BufInv
<1>2. size = len + 1
  BY <1>1 DEF BufInv
<1>3. CASE n > len
  BY <1>1, <1>3 DEF Copied
<1>4. CASE n <= len
  <2>1. Copied(n) = [len |-> len, size |-> size, used |-> n + 1]
    BY <1>1, <1>4 DEF Copied
  <2>2. QED
    BY <1>2, <1>4, <2>1
<1>5. QED
  BY <1>3, <1>4

LEMMA PathTokenFits ==
    ASSUME ReadInv, BufInv, PathToken
    PROVE  ReadInv' /\ BufInv'
<1>1. phase = "read" /\ phase' = "read" /\ sent' = sent
  BY DEF PathToken
<1>2. text \in Seq(STRING)
  BY <1>1, PathsAssumption DEF ReadInv, text
<1>3. tok' = GetPathToken(text, tok) /\ buf' = Copied(Len(Token(text, tok')))
  BY DEF PathToken
<1>4. tok'.start \in Nat /\ tok'.end \in Nat
  BY <1>2, <1>3, TokenStaysInText DEF ReadInv
<1>5. Len(Token(text, tok')) \in Nat
  BY <1>4, TokenHasLength
<1>6. /\ buf' \in [len : Nat, size : Nat, used : Nat]
      /\ buf'.size = buf'.len + 1
      /\ buf'.used <= buf'.size
  BY <1>1, <1>3, <1>5, CopiedFits
<1>7. QED
  BY <1>1, <1>4, <1>6 DEF ReadInv, BufInv, BufferHolds

LEMMA BufferKept ==
    ASSUME ReadInv, BufInv, [Next]_vars
    PROVE  ReadInv' /\ BufInv'
<1>1. CASE PathNew
  <2>1. sent' \in Paths /\ tok' = TokenInit
    BY <1>1 DEF PathNew
  <2>2. buf' = [len |-> BufLen, size |-> BufLen + 1, used |-> 0]
    BY <1>1 DEF PathNew
  <2>3. BufLen \in Nat
    BY SizeAssumption
  <2>4. QED
    BY <2>1, <2>2, <2>3 DEF ReadInv, BufInv, BufferHolds, TokenInit, Null
<1>2. CASE PathToken
  BY <1>2, PathTokenFits
<1>3. CASE PathEnd
  <2>1. /\ phase = "read" /\ phase' = "ready" /\ sent' = sent /\ tok' = tok
        /\ buf' = [len |-> 0, size |-> 0, used |-> 0]
    BY <1>3 DEF PathEnd
  <2>2. QED
    BY <2>1 DEF ReadInv, BufInv, BufferHolds
<1>4. CASE PathFree
  <2>1. phase' = "none" /\ tok' = TokenInit /\ buf' = buf
    BY <1>4 DEF PathFree
  <2>2. QED
    BY <2>1 DEF ReadInv, BufInv, BufferHolds, TokenInit, Null
<1>5. CASE \/ VertexToString \/ EdgeToString \/ PathToString
           \/ PathToStringPart \/ PathToStringEnd \/ UNCHANGED vars
  <2>1. /\ phase' = phase \/ (phase # "none" /\ phase' # "read")
        /\ sent' = sent /\ tok' = tok /\ buf' = buf
    BY <1>5 DEF VertexToString, EdgeToString, PathToString, PathToStringPart,
                PathToStringEnd, vars
  <2>2. QED
    BY <2>1 DEF ReadInv, BufInv, BufferHolds
<1>6. QED
  BY <1>1, <1>2, <1>3, <1>4, <1>5 DEF Next

LEMMA BufferInvariant == Spec => [](ReadInv /\ BufInv)
<1>1. Init => ReadInv /\ BufInv
  BY DEF Init, ReadInv, BufInv, BufferHolds, TokenInit, Null
<1>2. ReadInv /\ BufInv /\ [Next]_vars => ReadInv' /\ BufInv'
  BY BufferKept
<1>3. QED
  BY <1>1, <1>2, PTL DEF Spec

\* Of ag_path_new_ex: whatever the path and however long its parts, the copy
\* of a part and the 0 behind it fit into the buffer.
THEOREM BufferIsLargeEnough == Spec => []BufferHolds
<1>1. BufInv => BufferHolds
  BY DEF BufInv
<1>2. QED
  BY <1>1, BufferInvariant, PTL

-----------------------------------------------------------------------------
(* The strings.  A list of vertices or edges is all the same here.         *)

IsPart(x)    == /\ x = [f \in DOMAIN x |-> x[f]]
                /\ "str" \in DOMAIN x /\ x.str \in Nat
IsList(list) == /\ list \in Seq(Range(list))
                /\ \A k \in DOMAIN list : IsPart(list[k])

LEMMA ListLength ==
    ASSUME NEW list, IsList(list)
    PROVE  Len(list) \in Nat /\ DOMAIN list = 1 .. Len(list)
BY LenProperties DEF IsList

LEMMA EmptyList == IsList(<<>>) /\ Strs(<<>>) = {} /\ Apart(<<>>)
BY DEF IsList, Strs, Apart, Range

\* What is read has no string yet.
LEMMA ListGrows ==
    ASSUME NEW list, IsList(list), Apart(list),
           NEW x, IsPart(x), x.str = Null
    PROVE  /\ IsList(Append(list, x)) /\ Apart(Append(list, x))
           /\ Strs(Append(list, x)) = Strs(list)
<1> DEFINE S   == Range(list) \cup {x}
           new == Append(list, x)
           n   == Len(list)
<1>1. list \in Seq(S) /\ x \in S
  BY SeqMonotonic DEF IsList
<1>2. n \in Nat /\ DOMAIN list = 1 .. n
  BY ListLength
<1>3. /\ new \in Seq(S) /\ Len(new) = n + 1
      /\ \A i \in 1 .. n : new[i] = list[i]
      /\ new[n + 1] = x
  BY <1>1, AppendProperties
<1>4. DOMAIN new = 1 .. n + 1 /\ new \in [1 .. n + 1 -> S]
  BY <1>3, LenProperties
<1> HIDE DEF new, n, S
<1>5. \A k \in DOMAIN new : IsPart(new[k])
  <2> TAKE k \in DOMAIN new
  <2>1. k \in 1 .. n \/ k = n + 1
    BY <1>2, <1>4
  <2>2. QED
    BY <1>2, <1>3, <2>1 DEF IsList
<1>6. new \in Seq(Range(new))
  <2>1. new \in [1 .. n + 1 -> Range(new)]
    BY <1>4 DEF Range
  <2>2. QED
    BY <1>2, <2>1
<1>7. \A k \in DOMAIN new : \/ k \in DOMAIN list /\ new[k].str = list[k].str
                            \/ k = n + 1 /\ new[k].str = Null
  BY <1>2, <1>3, <1>4
<1>8. \A k \in DOMAIN list : k \in DOMAIN new /\ new[k].str = list[k].str
  BY <1>2, <1>3, <1>4
<1>9. Strs(new) = Strs(list)
  BY <1>7, <1>8 DEF Strs
<1>10. Apart(new)
  BY <1>7, <1>8 DEF Apart
<1>11. QED
  BY <1>5, <1>6, <1>9, <1>10 DEF IsList, new

\* free, then malloc: there is a block, and no string lives in it.
LEMMA NewBlockIsNew ==
    ASSUME NEW h, IsFiniteSet(h)
    PROVE  NewBlock(h) \in Nat \ {Null} /\ NewBlock(h) \notin h
<1> DEFINE n == Cardinality(h)
<1>1. n \in Nat
  BY FS_CardinalityType
<1>2. IsFiniteSet(1 .. n + 1) /\ Cardinality(1 .. n + 1) = n + 1
  BY <1>1, FS_Interval
<1>3. \E b \in 1 .. n + 1 : b \notin h
  <2> SUFFICES ASSUME 1 .. n + 1 \subseteq h PROVE FALSE
    OBVIOUS
  <2>1. n + 1 <= n
    BY <1>2, FS_Subset
  <2>2. QED
    BY <1>1, <2>1
<1>4. NewBlock(h) \in 1 .. n + 1 /\ NewBlock(h) \notin h
  BY <1>3 DEF NewBlock
<1>5. QED
  BY <1>1, <1>4 DEF Null

\* Part k of a list has a new string, which nothing else is; rest is what the
\* others own.
Renewed(list, k, rest, m) ==
    /\ IsList(m[1]) /\ Len(m[1]) = Len(list) /\ Apart(m[1])
    /\ m[2] = Strs(m[1]) \cup rest /\ Strs(m[1]) \cap rest = {}
    /\ IsFiniteSet(m[2]) /\ m[2] \subseteq Nat \ {Null}
    /\ m[3] = m[1][k].str /\ m[3] \in Nat
    /\ \A j \in DOMAIN list : j # k => m[1][j].str = list[j].str

LEMMA StringRenewed ==
    ASSUME NEW list, IsList(list), Apart(list), NEW k \in DOMAIN list,
           NEW rest, heap = Strs(list) \cup rest, Strs(list) \cap rest = {},
           IsFiniteSet(heap), heap \subseteq Nat \ {Null}
    PROVE  Renewed(list, k, rest, MakeStr(list, k))
<1> DEFINE old == list[k].str
           h   == heap \ {old}
           b   == NewBlock(h)
           x   == [list[k] EXCEPT !.str = b]
           new == [list EXCEPT ![k] = x]
           S   == Range(list) \cup {x}
           n   == Len(list)
<1>1. MakeStr(list, k) = <<new, h \cup {b}, b>>
  BY DEF MakeStr
<1>2. IsFiniteSet(h)
  BY FS_Subset
<1>3. b \in Nat \ {Null} /\ b \notin h
  BY <1>2, NewBlockIsNew
<1>4. IsFiniteSet(h \cup {b}) /\ h \cup {b} \subseteq Nat \ {Null}
  BY <1>2, <1>3, FS_AddElement
<1>5. IsPart(list[k]) /\ old \in Nat
  BY DEF IsList, IsPart
<1> HIDE DEF b, h
<1>6. IsPart(x) /\ x.str = b
  BY <1>3, <1>5 DEF IsPart
<1>7. n \in Nat /\ DOMAIN list = 1 .. n
  BY ListLength
<1>8. list \in Seq(S) /\ x \in S
  BY SeqMonotonic DEF IsList
<1> HIDE DEF x
<1>9. /\ new \in Seq(S) /\ Len(new) = n
      /\ \A j \in 1 .. n : new[j] = IF j = k THEN x ELSE list[j]
  BY <1>7, <1>8, ExceptSeq
<1>10. DOMAIN new = 1 .. n /\ new \in [1 .. n -> S]
  BY <1>9, LenProperties
<1> HIDE DEF new, S, n
<1>11. \A j \in DOMAIN list : new[j].str = IF j = k THEN b ELSE list[j].str
  BY <1>6, <1>7, <1>9
<1>12. IsList(new)
  <2>1. \A j \in DOMAIN new : IsPart(new[j])
    BY <1>6, <1>7, <1>9, <1>10 DEF IsList
  <2>2. new \in [1 .. n -> Range(new)]
    BY <1>10 DEF Range
  <2>3. QED
    BY <1>7, <2>1, <2>2 DEF IsList
<1>13. DOMAIN new = DOMAIN list
  BY <1>7, <1>10
<1>14. \A j \in DOMAIN list : j # k /\ list[j].str # Null =>
           list[j].str \in h /\ list[j].str # b
  BY <1>3 DEF Strs, Apart, h
<1>15. Apart(new)
  BY <1>3, <1>11, <1>13, <1>14 DEF Apart
<1>16. Strs(new) = (Strs(list) \ {old}) \cup {b}
  <2>1. b \in Strs(new)
    BY <1>3, <1>11, <1>13 DEF Strs
  <2>2. ASSUME NEW y \in Strs(list), y # old PROVE y \in Strs(new)
    BY <1>11, <1>13, <2>2 DEF Strs
  <2>3. ASSUME NEW y \in Strs(new), y # b PROVE y \in Strs(list) \ {old}
    <3>1. PICK j \in DOMAIN list : new[j].str = y /\ y # Null
      BY <1>13 DEF Strs
    <3>2. j # k /\ list[j].str = y
      BY <1>11, <2>3, <3>1
    <3>3. y # old
      BY <3>1, <3>2 DEF Apart
    <3>4. QED
      BY <3>1, <3>2, <3>3 DEF Strs
  <2>4. old \notin Strs(new) \/ old = b
    BY <2>3
  <2>5. QED
    BY <2>1, <2>2, <2>3, <2>4
<1>17. old \notin rest
  <2>1. old = Null \/ old \in Strs(list)
    BY DEF Strs
  <2>2. QED
    BY <2>1
<1>18. h = (Strs(list) \ {old}) \cup rest
  BY <1>17 DEF h
<1>19. h \cup {b} = Strs(new) \cup rest /\ Strs(new) \cap rest = {}
  BY <1>3, <1>16, <1>18
<1>20. new[k].str = b /\ Len(new) = Len(list)
  BY <1>9, <1>11 DEF n
<1>21. QED
  BY <1>1, <1>3, <1>4, <1>11, <1>12, <1>15, <1>19, <1>20 DEF Renewed

-----------------------------------------------------------------------------
(* The invariant of the strings.                                           *)

\* The strings to be joined are those of the parts so far.
Joined ==
    IF phase = "join"
    THEN /\ strs \in Seq(Nat)
         /\ Len(strs) <= 2 * Len(edges) + 1
         /\ Len(vertices) = Len(edges) + 1
    ELSE strs = <<>>

StrInv ==
    /\ IsList(vertices) /\ IsList(edges) /\ str \in Nat
    /\ IsFiniteSet(heap) /\ heap \subseteq Nat \ {Null}
    /\ phase = "none" => vertices = <<>> /\ edges = <<>> /\ str = Null
    /\ phase \in {"none", "read", "ready", "join"}
    /\ Joined
    /\ StringsOwned

\* What PathKept says of the lengths.
Alternate == phase \in {"ready", "join"} => Len(vertices) = Len(edges) + 1

LEMMA PathKeptAlternates ==
    ASSUME ReadInv, PathKept
    PROVE  Alternate
<1> SUFFICES ASSUME phase \in {"ready", "join"} PROVE Len(vertices) = Len(edges) + 1
  BY DEF Alternate
<1>1. Len(vertices) = Len(sent.vertices) /\ Len(edges) = Len(sent.edges)
  BY DEF PathKept
<1>2. sent \in Paths
  BY DEF ReadInv
<1>3. QED
  BY <1>1, <1>2, PathsAssumption

LEMMA InitOwns == ASSUME Init PROVE StrInv
<1>1. /\ vertices = <<>> /\ edges = <<>> /\ str = Null /\ heap = {} /\ strs = <<>>
      /\ phase = "none"
  BY DEF Init
<1>2. StringsOwned
  BY <1>1, EmptyList DEF StringsOwned, PathStr
<1>3. QED
  BY <1>1, <1>2, EmptyList, FS_EmptySet DEF StrInv, Joined, Null

LEMMA PathNewOwns == ASSUME StrInv, PathNew PROVE StrInv'
<1>1. /\ phase = "none" /\ phase' = "read" /\ heap' = heap /\ strs' = strs
      /\ vertices' = <<>> /\ edges' = <<>> /\ str' = Null
  BY DEF PathNew
<1>2. vertices = <<>> /\ edges = <<>> /\ str = Null /\ strs = <<>>
  BY <1>1 DEF StrInv, Joined
<1>3. heap = {}
  BY <1>1, <1>2, EmptyList DEF StrInv, StringsOwned, PathStr
<1>4. StringsOwned'
  BY <1>1, <1>2, <1>3, EmptyList DEF StringsOwned, PathStr
<1>5. QED
  BY <1>1, <1>2, <1>3, <1>4, EmptyList, FS_EmptySet DEF StrInv, Joined, Null

LEMMA PathTokenOwns == ASSUME StrInv, PathToken PROVE StrInv'
<1>1. /\ phase = "read" /\ phase' = "read" /\ heap' = heap /\ strs' = strs /\ str' = str
  BY DEF PathToken
<1>2. strs = <<>>
  BY <1>1 DEF StrInv, Joined
<1>3. PICK s : \/ vertices' = Append(vertices, VertexNew(s)) /\ edges' = edges
               \/ edges' = Append(edges, EdgeNew(s)) /\ vertices' = vertices
  BY DEF PathToken
<1>4. /\ IsPart(VertexNew(s)) /\ VertexNew(s).str = Null
      /\ IsPart(EdgeNew(s)) /\ EdgeNew(s).str = Null
  BY DEF IsPart, VertexNew, EdgeNew, Null
<1>5. /\ IsList(vertices) /\ Apart(vertices) /\ IsList(edges) /\ Apart(edges)
  BY DEF StrInv, StringsOwned
<1>6. /\ IsList(vertices') /\ Apart(vertices') /\ Strs(vertices') = Strs(vertices)
      /\ IsList(edges') /\ Apart(edges') /\ Strs(edges') = Strs(edges)
  BY <1>3, <1>4, <1>5, ListGrows
<1>7. PathStr' = PathStr
  BY <1>1 DEF PathStr
<1>8. StringsOwned'
  BY <1>1, <1>2, <1>6, <1>7 DEF StrInv, StringsOwned
<1>9. QED
  BY <1>1, <1>2, <1>6, <1>8 DEF StrInv, Joined

LEMMA PathEndOwns == ASSUME StrInv, PathEnd PROVE StrInv'
<1>1. /\ phase = "read" /\ phase' = "ready"
      /\ UNCHANGED <<vertices, edges, str, heap, strs>>
  BY DEF PathEnd
<1>2. StringsOwned'
  BY <1>1 DEF StrInv, StringsOwned, PathStr
<1>3. QED
  BY <1>1, <1>2 DEF StrInv, Joined

LEMMA VertexToStringOwns == ASSUME StrInv, VertexToString PROVE StrInv'
<1>1. phase = "ready" /\ UNCHANGED <<phase, edges, str, strs>>
  BY DEF VertexToString
<1>2. PICK k \in DOMAIN vertices : vertices' = MakeStr(vertices, k)[1]
                                   /\ heap' = MakeStr(vertices, k)[2]
  BY DEF VertexToString
<1> DEFINE rest == Strs(edges) \cup PathStr
           m    == MakeStr(vertices, k)
<1>3. heap = Strs(vertices) \cup rest /\ Strs(vertices) \cap rest = {}
  BY DEF StrInv, StringsOwned
<1>4. Renewed(vertices, k, rest, m)
  BY <1>3, StringRenewed DEF StrInv, StringsOwned
<1> HIDE DEF m
<1>5. /\ IsList(vertices') /\ Apart(vertices')
      /\ heap' = Strs(vertices') \cup rest /\ Strs(vertices') \cap rest = {}
      /\ IsFiniteSet(heap') /\ heap' \subseteq Nat \ {Null}
  BY <1>2, <1>4 DEF Renewed, m
<1>6. PathStr' = PathStr /\ strs = <<>>
  BY <1>1 DEF PathStr, StrInv, Joined
<1>7. StringsOwned'
  BY <1>1, <1>5, <1>6 DEF StrInv, StringsOwned
<1>8. QED
  BY <1>1, <1>5, <1>6, <1>7 DEF StrInv, Joined

LEMMA EdgeToStringOwns == ASSUME StrInv, EdgeToString PROVE StrInv'
<1>1. phase = "ready" /\ UNCHANGED <<phase, vertices, str, strs>>
  BY DEF EdgeToString
<1>2. PICK k \in DOMAIN edges : edges' = MakeStr(edges, k)[1]
                                /\ heap' = MakeStr(edges, k)[2]
  BY DEF EdgeToString
<1> DEFINE rest == Strs(vertices) \cup PathStr
           m    == MakeStr(edges, k)
<1>3. heap = Strs(edges) \cup rest /\ Strs(edges) \cap rest = {}
  BY DEF StrInv, StringsOwned
<1>4. Renewed(edges, k, rest, m)
  BY <1>3, StringRenewed DEF StrInv, StringsOwned
<1> HIDE DEF m
<1>5. /\ IsList(edges') /\ Apart(edges')
      /\ heap' = Strs(edges') \cup rest /\ Strs(edges') \cap rest = {}
      /\ IsFiniteSet(heap') /\ heap' \subseteq Nat \ {Null}
  BY <1>2, <1>4 DEF Renewed, m
<1>6. PathStr' = PathStr /\ strs = <<>>
  BY <1>1 DEF PathStr, StrInv, Joined
<1>7. StringsOwned'
  BY <1>1, <1>5, <1>6 DEF StrInv, StringsOwned
<1>8. QED
  BY <1>1, <1>5, <1>6, <1>7 DEF StrInv, Joined

\* The string of the path is freed before its parts are asked for theirs.
LEMMA PathToStringOwns == ASSUME StrInv, Alternate, PathToString PROVE StrInv'
<1>1. /\ phase = "ready" /\ phase' = "join" /\ heap' = heap \ {str} /\ strs' = <<>>
      /\ UNCHANGED <<vertices, edges, str>>
  BY DEF PathToString
<1>2. heap' = Strs(vertices) \cup Strs(edges)
  BY <1>1 DEF StrInv, StringsOwned, PathStr
<1>3. IsFiniteSet(heap')
  BY <1>1, FS_Subset DEF StrInv
<1>4. StringsOwned'
  BY <1>1, <1>2 DEF StrInv, StringsOwned, PathStr
<1>5. Joined'
  <2>1. Len(edges) \in Nat /\ Len(vertices) = Len(edges) + 1
    BY <1>1, ListLength DEF StrInv, Alternate
  <2>2. strs' \in Seq(Nat) /\ Len(strs') = 0
    BY <1>1
  <2>3. QED
    BY <1>1, <2>1, <2>2 DEF Joined
<1>6. QED
  BY <1>1, <1>3, <1>4, <1>5 DEF StrInv

\* Places in the list of strings, and in the lists of parts.
LEMMA Halves ==
    ASSUME NEW n \in Nat
    PROVE  /\ n % 2 \in {0, 1}
           /\ n % 2 = 0 => /\ (n + 1) % 2 = 1 /\ (n + 1 + 1) \div 2 = n \div 2 + 1
                           /\ 2 * (n \div 2) = n
           /\ n % 2 # 0 => /\ (n + 1) % 2 = 0 /\ (n + 1) \div 2 = n \div 2 + 1
                           /\ 2 * (n \div 2) + 1 = n
           /\ n \div 2 \in Nat
OBVIOUS

\* The string that string j of the joined ones is.
From(vs, es, j) == IF j % 2 = 1 THEN vs[(j + 1) \div 2].str ELSE es[j \div 2].str

LEMMA PathToStringPartOwns == ASSUME StrInv, PathToStringPart PROVE StrInv'
<1>0. PICK n \in Nat : phase = "join" /\ strs \in Seq(Nat) /\ n = Len(strs)
  <2>1. phase = "join" /\ strs \in Seq(Nat)
    BY DEF PathToStringPart, StrInv, Joined
  <2>2. QED
    BY <2>1, LenProperties
<1> DEFINE k  == n \div 2 + 1
           v  == MakeStr(vertices, k)
           e  == MakeStr(edges, k)
<1>1. /\ phase = "join" /\ n <= 2 * Len(edges)
      /\ UNCHANGED <<phase, str>>
      /\ \/ /\ n % 2 = 0
            /\ vertices' = v[1] /\ heap' = v[2] /\ strs' = Append(strs, v[3])
            /\ edges' = edges
         \/ /\ n % 2 # 0
            /\ edges' = e[1] /\ heap' = e[2] /\ strs' = Append(strs, e[3])
            /\ vertices' = vertices
  BY <1>0 DEF PathToStringPart
<1>2. /\ strs \in Seq(Nat) /\ Len(vertices) = Len(edges) + 1
      /\ PathStr = {} /\ PathStr' = {}
  BY <1>1 DEF StrInv, Joined, PathStr
<1>3. n \in Nat /\ DOMAIN strs = 1 .. n
  BY <1>0, LenProperties
<1>4. /\ Len(edges) \in Nat /\ DOMAIN edges = 1 .. Len(edges)
      /\ DOMAIN vertices = 1 .. Len(edges) + 1
  BY <1>2, ListLength DEF StrInv
<1>5. \A j \in 1 .. n : strs[j] = From(vertices, edges, j)
  BY <1>3 DEF StrInv, StringsOwned, From
<1>6. /\ n % 2 = 0 => /\ (n + 1) % 2 = 1 /\ (n + 1 + 1) \div 2 = k /\ 2 * (k - 1) = n
      /\ n % 2 # 0 => /\ (n + 1) % 2 = 0 /\ (n + 1) \div 2 = k /\ 2 * k - 1 = n
      /\ k \in Nat
  BY Halves
<1>7. \A j \in 1 .. n : /\ j % 2 = 1 => 2 * ((j + 1) \div 2) = j + 1
                        /\ j % 2 # 1 => 2 * (j \div 2) = j
                        /\ (j + 1) \div 2 \in Nat /\ j \div 2 \in Nat
  <2> TAKE j \in 1 .. n
  <2>1. j \in Nat
    BY <1>3
  <2>2. QED
    BY <2>1
<1>8. CASE n % 2 = 0
  <2>1. k \in DOMAIN vertices
    BY <1>1, <1>4, <1>6, <1>8
  <2>2. heap = Strs(vertices) \cup Strs(edges) /\ Strs(vertices) \cap Strs(edges) = {}
    BY <1>2 DEF StrInv, StringsOwned
  <2>3. Renewed(vertices, k, Strs(edges), v)
    BY <2>1, <2>2, StringRenewed DEF StrInv, StringsOwned
  <2>4. vertices' = v[1] /\ heap' = v[2] /\ strs' = Append(strs, v[3]) /\ edges' = edges
    BY <1>1, <1>8
  <2> HIDE DEF v, k
  <2>5. /\ IsList(vertices') /\ Len(vertices') = Len(vertices) /\ Apart(vertices')
        /\ heap' = Strs(vertices') \cup Strs(edges)
        /\ Strs(vertices') \cap Strs(edges) = {}
        /\ IsFiniteSet(heap') /\ heap' \subseteq Nat \ {Null}
        /\ v[3] = vertices'[k].str /\ v[3] \in Nat
        /\ \A j \in DOMAIN vertices : j # k => vertices'[j].str = vertices[j].str
    BY <2>3, <2>4 DEF Renewed
  <2>6. /\ strs' \in Seq(Nat) /\ Len(strs') = n + 1
        /\ \A j \in 1 .. n : strs'[j] = strs[j]
        /\ strs'[n + 1] = v[3]
    BY <1>0, <2>4, <2>5, AppendProperties
  <2>7. DOMAIN strs' = 1 .. n + 1
    BY <2>6, LenProperties
  <2>8. strs'[n + 1] = From(vertices', edges', n + 1)
    <3>1. (n + 1) % 2 = 1 /\ (n + 1 + 1) \div 2 = k
      BY <1>6, <1>8
    <3>2. From(vertices', edges', n + 1) = vertices'[k].str
      BY <3>1 DEF From
    <3>3. QED
      BY <2>5, <2>6, <3>2
  <2>9. \A j \in 1 .. n : strs'[j] = From(vertices', edges', j)
    <3> TAKE j \in 1 .. n
    <3>1. strs'[j] = From(vertices, edges, j)
      BY <1>5, <2>6
    <3>2. CASE j % 2 = 1
      <4>1. PICK d \in Nat : d = (j + 1) \div 2 /\ 2 * d = j + 1
        BY <1>7, <3>2
      <4>2. 2 * (k - 1) = n /\ k \in Nat
        BY <1>6, <1>8
      <4>3. d >= 1 /\ d < k
        BY <1>3, <4>1, <4>2
      <4>4. d \in DOMAIN vertices /\ d # k
        BY <1>4, <2>1, <4>1, <4>2, <4>3
      <4>5. QED
        BY <2>5, <3>1, <3>2, <4>1, <4>4 DEF From
    <3>3. CASE j % 2 # 1
      BY <2>4, <3>1, <3>3 DEF From
    <3>4. QED
      BY <3>2, <3>3
  <2>10. \A j \in DOMAIN strs' : strs'[j] = From(vertices', edges', j)
    BY <1>3, <2>7, <2>8, <2>9
  <2>11. StringsOwned'
    BY <1>2, <2>4, <2>5, <2>10 DEF StrInv, StringsOwned, From
  <2>12. Joined'
    BY <1>1, <1>2, <1>3, <1>4, <2>4, <2>5, <2>6 DEF Joined
  <2>13. QED
    BY <1>1, <2>4, <2>5, <2>11, <2>12 DEF StrInv
<1>9. CASE n % 2 # 0
  <2>1. k \in DOMAIN edges
    BY <1>1, <1>4, <1>6, <1>9
  <2>2. heap = Strs(edges) \cup Strs(vertices) /\ Strs(edges) \cap Strs(vertices) = {}
    BY <1>2 DEF StrInv, StringsOwned
  <2>3. Renewed(edges, k, Strs(vertices), e)
    BY <2>1, <2>2, StringRenewed DEF StrInv, StringsOwned
  <2>4. edges' = e[1] /\ heap' = e[2] /\ strs' = Append(strs, e[3])
        /\ vertices' = vertices
    BY <1>1, <1>9
  <2> HIDE DEF e, k
  <2>5. /\ IsList(edges') /\ Len(edges') = Len(edges) /\ Apart(edges')
        /\ heap' = Strs(edges') \cup Strs(vertices)
        /\ Strs(edges') \cap Strs(vertices) = {}
        /\ IsFiniteSet(heap') /\ heap' \subseteq Nat \ {Null}
        /\ e[3] = edges'[k].str /\ e[3] \in Nat
        /\ \A j \in DOMAIN edges : j # k => edges'[j].str = edges[j].str
    BY <2>3, <2>4 DEF Renewed
  <2>6. /\ strs' \in Seq(Nat) /\ Len(strs') = n + 1
        /\ \A j \in 1 .. n : strs'[j] = strs[j]
        /\ strs'[n + 1] = e[3]
    BY <1>0, <2>4, <2>5, AppendProperties
  <2>7. DOMAIN strs' = 1 .. n + 1
    BY <2>6, LenProperties
  <2>8. strs'[n + 1] = From(vertices', edges', n + 1)
    <3>1. (n + 1) % 2 = 0 /\ (n + 1) \div 2 = k
      BY <1>6, <1>9
    <3>2. (n + 1) % 2 # 1
      BY <3>1
    <3>3. From(vertices', edges', n + 1) = edges'[k].str
      BY <3>1, <3>2 DEF From
    <3>4. QED
      BY <2>5, <2>6, <3>3
  <2>9. \A j \in 1 .. n : strs'[j] = From(vertices', edges', j)
    <3> TAKE j \in 1 .. n
    <3>1. strs'[j] = From(vertices, edges, j)
      BY <1>5, <2>6
    <3>2. CASE j % 2 # 1
      <4>1. PICK d \in Nat : d = j \div 2 /\ 2 * d = j
        BY <1>7, <3>2
      <4>2. 2 * k - 1 = n /\ k \in Nat
        BY <1>6, <1>9
      <4>3. d >= 1 /\ d < k
        BY <1>3, <4>1, <4>2
      <4>4. d \in DOMAIN edges /\ d # k
        BY <1>4, <2>1, <4>1, <4>2, <4>3
      <4>5. QED
        BY <2>5, <3>1, <3>2, <4>1, <4>4 DEF From
    <3>3. CASE j % 2 = 1
      BY <2>4, <3>1, <3>3 DEF From
    <3>4. QED
      BY <3>2, <3>3
  <2>10. \A j \in DOMAIN strs' : strs'[j] = From(vertices', edges', j)
    BY <1>3, <2>7, <2>8, <2>9
  <2>11. StringsOwned'
    BY <1>2, <2>4, <2>5, <2>10 DEF StrInv, StringsOwned, From
  <2>12. Joined'
    BY <1>1, <1>2, <1>3, <1>4, <2>4, <2>5, <2>6 DEF Joined
  <2>13. QED
    BY <1>1, <2>4, <2>5, <2>11, <2>12 DEF StrInv
<1>10. QED
  BY <1>8, <1>9

LEMMA PathToStringEndOwns == ASSUME StrInv, PathToStringEnd PROVE StrInv'
<1>1. /\ phase = "join" /\ phase' = "ready" /\ strs' = <<>>
      /\ str' = NewBlock(heap) /\ heap' = heap \cup {str'}
      /\ UNCHANGED <<vertices, edges>>
  BY DEF PathToStringEnd
<1>2. str' \in Nat \ {Null} /\ str' \notin heap
  BY <1>1, NewBlockIsNew DEF StrInv
<1>3. IsFiniteSet(heap') /\ heap' \subseteq Nat \ {Null}
  BY <1>1, <1>2, FS_AddElement DEF StrInv
<1>4. PathStr = {} /\ PathStr' = {str'}
  BY <1>1, <1>2 DEF PathStr
<1>5. StringsOwned'
  <2>1. heap = Strs(vertices) \cup Strs(edges)
    BY <1>4 DEF StrInv, StringsOwned
  <2>2. DOMAIN strs' = {}
    BY <1>1
  <2>3. /\ Apart(vertices) /\ Apart(edges)
        /\ Strs(vertices) \cap Strs(edges) = {}
    BY DEF StrInv, StringsOwned
  <2>4. QED
    BY <1>1, <1>2, <1>4, <2>1, <2>2, <2>3 DEF StringsOwned
<1>6. QED
  BY <1>1, <1>2, <1>3, <1>5 DEF StrInv, Joined

LEMMA PathFreeOwns == ASSUME StrInv, PathFree PROVE StrInv'
<1>1. /\ phase = "ready" /\ phase' = "none"
      /\ vertices' = <<>> /\ edges' = <<>> /\ str' = Null /\ strs' = strs
      /\ heap' = heap \ ({str} \cup {x.str : x \in Range(vertices) \cup Range(edges)})
  BY DEF PathFree
<1>2. strs = <<>> /\ PathStr = {str} \ {Null}
  BY <1>1 DEF StrInv, Joined, PathStr
<1>3. Strs(vertices) \subseteq {x.str : x \in Range(vertices)}
  BY DEF Strs, Range
<1>4. Strs(edges) \subseteq {x.str : x \in Range(edges)}
  BY DEF Strs, Range
<1>5. heap' = {}
  BY <1>1, <1>2, <1>3, <1>4 DEF StrInv, StringsOwned
<1>6. StringsOwned'
  BY <1>1, <1>2, <1>5, EmptyList DEF StringsOwned, PathStr
<1>7. QED
  BY <1>1, <1>2, <1>5, <1>6, EmptyList, FS_EmptySet DEF StrInv, Joined, Null

LEMMA StringsKept ==
    ASSUME StrInv, ReadInv, PathKept, [Next]_vars
    PROVE  StrInv'
<1>1. CASE UNCHANGED vars
  <2>1. UNCHANGED <<phase, vertices, edges, str, heap, strs>>
    BY <1>1 DEF vars
  <2>2. StringsOwned' /\ Joined'
    BY <2>1 DEF StrInv, StringsOwned, PathStr, Joined
  <2>3. QED
    BY <2>1, <2>2 DEF StrInv
<1>2. CASE Next
  BY <1>2, PathKeptAlternates, PathNewOwns, PathTokenOwns, PathEndOwns,
     VertexToStringOwns, EdgeToStringOwns, PathToStringOwns, PathToStringPartOwns,
     PathToStringEndOwns, PathFreeOwns DEF Next
<1>3. QED
  BY <1>1, <1>2

\* If a path is read as it was sent, its strings are owned.
LEMMA OwnedWhenKept == Spec /\ []PathKept => []StringsOwned
<1>1. Init => StrInv
  BY InitOwns
<1>2. StrInv /\ ReadInv /\ PathKept /\ [Next]_vars => StrInv'
  BY StringsKept
<1>3. StrInv => StringsOwned
  BY DEF StrInv
<1>4. QED
  BY <1>1, <1>2, <1>3, BufferInvariant, PTL DEF Spec

-----------------------------------------------------------------------------
(* What has been read of a list.                                           *)

\* A list is the front of another, but for the strings.
Same(list, of) ==
    /\ list \in Seq(Range(list)) /\ Len(list) <= Len(of)
    /\ \A k \in 1 .. Len(list) : [list[k] EXCEPT !.str = Null] = of[k]

\* The next part is read.
LEMMA SameGrows ==
    ASSUME NEW list, NEW of, Same(list, of), Len(of) \in Nat, Len(list) # Len(of),
           NEW x, [x EXCEPT !.str = Null] = of[Len(list) + 1]
    PROVE  Same(Append(list, x), of) /\ Len(Append(list, x)) = Len(list) + 1
<1> DEFINE S   == Range(list) \cup {x}
           new == Append(list, x)
           n   == Len(list)
<1>1. list \in Seq(S) /\ x \in S
  BY SeqMonotonic DEF Same
<1>2. n \in Nat
  BY <1>1, LenProperties
<1>3. /\ new \in Seq(S) /\ Len(new) = n + 1
      /\ \A i \in 1 .. n : new[i] = list[i]
      /\ new[n + 1] = x
  BY <1>1, AppendProperties
<1>4. DOMAIN new = 1 .. n + 1 /\ new \in [1 .. n + 1 -> S]
  BY <1>3, LenProperties
<1> HIDE DEF new
<1>5. n <= Len(of) /\ \A k \in 1 .. n : [list[k] EXCEPT !.str = Null] = of[k]
  BY DEF Same
<1>6. [x EXCEPT !.str = Null] = of[n + 1]
  OBVIOUS
<1> HIDE DEF n, S
<1>7. new \in Seq(Range(new))
  <2>1. new \in [1 .. n + 1 -> Range(new)]
    BY <1>4 DEF Range
  <2>2. QED
    BY <1>2, <2>1
<1>8. n + 1 <= Len(of)
  BY <1>2, <1>5 DEF n
<1>9. ASSUME NEW k \in 1 .. n + 1 PROVE [new[k] EXCEPT !.str = Null] = of[k]
  <2>1. k \in 1 .. n \/ k = n + 1
    BY <1>2
  <2>2. QED
    BY <1>3, <1>5, <1>6, <2>1
<1>10. QED
  BY <1>3, <1>7, <1>8, <1>9 DEF Same, new, n

\* A part gets a string, which is no part of what was sent.
LEMMA SameNamed ==
    ASSUME NEW list, NEW of, Same(list, of), NEW k
    PROVE  Same(MakeStr(list, k)[1], of) /\ Len(MakeStr(list, k)[1]) = Len(list)
<1>1. PICK b : MakeStr(list, k)[1] = [list EXCEPT ![k] = [list[k] EXCEPT !.str = b]]
  BY DEF MakeStr
<1>2. PICK new : new = [list EXCEPT ![k] = [list[k] EXCEPT !.str = b]]
  OBVIOUS
<1>3. PICK n \in Nat : n = Len(list) /\ DOMAIN list = 1 .. n
  BY LenProperties DEF Same
<1>4. /\ DOMAIN new = 1 .. n
      /\ \A j \in 1 .. n : new[j] = list[j]
                           \/ new[j] = [list[j] EXCEPT !.str = b]
      /\ new = [j \in 1 .. n |-> new[j]]
  BY <1>2, <1>3
<1>5. new \in [1 .. n -> Range(new)]
  BY <1>4 DEF Range
<1>6. new \in Seq(Range(new)) /\ Len(new) = n
  BY <1>3, <1>4, <1>5
<1>7. ASSUME NEW j \in 1 .. n
      PROVE  [new[j] EXCEPT !.str = Null] = [list[j] EXCEPT !.str = Null]
  <2>1. \A r : [[r EXCEPT !.str = b] EXCEPT !.str = Null] = [r EXCEPT !.str = Null]
    OBVIOUS
  <2>2. QED
    BY <1>4, <2>1
<1>8. QED
  BY <1>1, <1>2, <1>3, <1>6, <1>7 DEF Same

\* What has been read is the front of what was sent.
LEMMA SamePrefix ==
    ASSUME NEW list, NEW of, Same(list, of)
    PROVE  IsPrefix(Parts(list), of)
<1>1. PICK n \in Nat : n = Len(list) /\ DOMAIN list = 1 .. n
  BY LenProperties DEF Same
<1>2. PICK q : q = Parts(list)
  OBVIOUS
<1>3. /\ DOMAIN q = 1 .. n /\ q = [k \in 1 .. n |-> q[k]]
      /\ \A k \in 1 .. n : q[k] = of[k]
  BY <1>1, <1>2 DEF Same, Parts
<1>4. Len(q) = n
  BY <1>3
<1>5. SubSeq(q, 1, n) = SubSeq(of, 1, n)
  BY <1>3
<1>6. QED
  BY <1>1, <1>2, <1>4, <1>5 DEF IsPrefix, Same

\* The token ends where the last part read does.
Reading ==
    \E ends : /\ Split(sent, 2 * Len(sent.edges) + 1, ends)
              /\ tok.end = ends[Len(vertices) + Len(edges)]
              /\ tok.end = 0 => tok.start = 1

\* What is read is what was sent, and the tokenizer is at its end.
KeptInv ==
    phase # "none" =>
        /\ sent \in Paths
        /\ Same(vertices, sent.vertices) /\ Same(edges, sent.edges)
        /\ Len(vertices) = Len(edges) \/ Len(vertices) = Len(edges) + 1
        /\ phase = "read" => Reading
        /\ phase # "read" => /\ Len(vertices) = Len(sent.vertices)
                             /\ Len(edges) = Len(sent.edges)

\* A list has a length.
LEMMA SameLength ==
    ASSUME NEW list, NEW of, Same(list, of)
    PROVE  Len(list) \in Nat
  BY LenProperties DEF Same

\* The invariant is strong enough.
LEMMA KeptInvKeeps ==
    ASSUME KeptInv PROVE PathKept
<1> SUFFICES ASSUME phase # "none" PROVE PathKept
  BY DEF PathKept
<1>1. IsPrefix(Parts(vertices), sent.vertices) /\ IsPrefix(Parts(edges), sent.edges)
  BY SamePrefix DEF KeptInv
<1>2. Len(vertices) \in Nat /\ Len(edges) \in Nat
  BY SameLength DEF KeptInv
<1>3. Len(vertices) - Len(edges) \in {0, 1}
  BY <1>2 DEF KeptInv
<1>4. QED
  BY <1>1, <1>3 DEF PathKept, KeptInv

\* Nothing is read yet.
LEMMA PathNewKept ==
    ASSUME \A p \in Paths : WellFormed(p), PathNew
    PROVE  KeptInv'
<1>1. PICK p \in Paths : sent' = p
  BY DEF PathNew
<1>2. /\ phase' = "read" /\ tok' = [start |-> 1, end |-> 0]
      /\ vertices' = <<>> /\ edges' = <<>>
  BY DEF PathNew, TokenInit, Null
<1>3. Len(p.edges) \in Nat /\ Len(p.vertices) = Len(p.edges) + 1
  BY WellFormedIs
<1>4. PICK n \in Nat \ {0} : n = 2 * Len(p.edges) + 1
  BY <1>3
<1>5. \A k \in 1 .. n : PartText(p, k) \in Seq(Character)
  BY <1>4, PartIsOnePart
<1>6. PICK ends : Split(p, n, ends)
  BY <1>4, <1>5, PathSplits
<1>7. ends[0] = 0
  BY <1>6 DEF Split
<1>8. Reading'
  <2>1. Len(vertices') + Len(edges') = 0
    BY <1>2
  <2>2. /\ Split(sent', 2 * Len(sent'.edges) + 1, ends)
        /\ tok'.end = ends[Len(vertices') + Len(edges')]
        /\ tok'.end = 0 => tok'.start = 1
    BY <1>1, <1>2, <1>4, <1>6, <1>7, <2>1
  <2>3. QED
    BY <2>2 DEF Reading
<1>9. \A of : Len(of) \in Nat => Same(<<>>, of)
  BY DEF Same
<1>10. Same(vertices', sent'.vertices) /\ Same(edges', sent'.edges)
  BY <1>1, <1>2, <1>3, <1>9
<1>11. Len(vertices') = Len(edges')
  BY <1>2
<1>12. QED
  BY <1>1, <1>2, <1>8, <1>10, <1>11 DEF KeptInv

\* One turn of the loop, for the part that comes next.
LEMMA PathTokenKept ==
    ASSUME \A p \in Paths : WellFormed(p), KeptInv, PathToken
    PROVE  KeptInv'
<1> DEFINE t == GetPathToken(text, tok)
           s == Token(text, t)
<1>1. /\ phase = "read" /\ phase' = "read" /\ sent' = sent /\ ~IsEnd(text, tok)
      /\ tok' = t
      /\ Len(vertices) = Len(edges) =>
             vertices' = Append(vertices, VertexNew(s)) /\ edges' = edges
      /\ Len(vertices) # Len(edges) =>
             edges' = Append(edges, EdgeNew(s)) /\ vertices' = vertices
  BY DEF PathToken
<1>2. PICK p \in Paths : p = sent /\ WellFormed(p)
  BY <1>1 DEF KeptInv
<1>3. /\ Same(vertices, p.vertices) /\ Same(edges, p.edges)
      /\ Len(vertices) = Len(edges) \/ Len(vertices) = Len(edges) + 1
      /\ Reading
  BY <1>1, <1>2 DEF KeptInv
<1>4. PICK E \in Nat : E = Len(p.edges) /\ Len(p.vertices) = E + 1
  BY <1>2, WellFormedIs
<1>5. PICK e \in Nat : e = Len(edges) /\ e <= E
  BY <1>3, <1>4, SameLength DEF Same
<1>6. Len(vertices) = e \/ Len(vertices) = e + 1
  BY <1>3, <1>5
<1>7. PICK n \in Nat : n = 2 * E + 1
  BY <1>4
<1>8. PICK ends : /\ Split(p, n, ends)
                  /\ tok.end = ends[Len(vertices) + Len(edges)]
                  /\ tok.end = 0 => tok.start = 1
  BY <1>2, <1>3, <1>4, <1>7 DEF Reading
<1>9. text = PathText(p)
  BY <1>2 DEF text
<1>10. PICK m \in Nat : m = Len(vertices) + Len(edges)
  BY <1>5, <1>6
<1>11. m # n
  <2>1. ends[n] = Len(PathText(p)) + 1
    BY <1>8 DEF Split
  <2>2. QED
    BY <1>1, <1>8, <1>9, <1>10, <2>1 DEF IsEnd
<1>12. PICK k \in 1 .. n : k = m + 1 /\ k - 1 = m
  BY <1>4, <1>5, <1>6, <1>7, <1>10, <1>11
<1>13. s = PartText(p, k) /\ t.end = ends[k] /\ ends[k] # 0
  BY <1>2, <1>4, <1>7, <1>8, <1>9, <1>10, <1>12, SplitReads
<1> HIDE DEF t, s
<1>14. CASE Len(vertices) = e
  <2>1. vertices' = Append(vertices, VertexNew(s)) /\ edges' = edges
    BY <1>1, <1>5, <1>14
  <2>2. PICK i \in 1 .. E + 1 : i = e + 1
    BY <1>5
  <2>3. k % 2 = 1 /\ (k + 1) \div 2 = i
    BY <1>5, <1>10, <1>12, <1>14, <2>2
  <2>4. PICK v : v = p.vertices[i]
    OBVIOUS
  <2>5. s = VertexText(v)
    BY <1>13, <2>3, <2>4 DEF PartText
  <2>6. v \in ServerVertices
    BY <1>2, <1>4, <2>2, <2>4, WellFormedIs
  <2>7. v.props \in PropsTexts
    <3>1. i \in DOMAIN p.vertices
      BY <1>2, <1>4, <2>2, WellFormedIs
    <3>2. QED
      BY <2>4, <3>1, PropsAreParsed
  <2>8. VertexNew(s) = v
    BY <2>5, <2>6, <2>7, VertexIsRead
  <2>9. [v EXCEPT !.str = Null] = p.vertices[Len(vertices) + 1]
    <3>1. [v EXCEPT !.str = Null] = v
      BY <2>6 DEF ServerVertices
    <3>2. QED
      BY <1>14, <2>2, <2>4, <3>1
  <2>10. Len(p.vertices) \in Nat /\ Len(vertices) # Len(p.vertices)
    BY <1>4, <1>5, <1>14
  <2>11. /\ Same(Append(vertices, v), p.vertices)
         /\ Len(Append(vertices, v)) = Len(vertices) + 1
    BY <1>3, <2>9, <2>10, SameGrows
  <2>12. Same(vertices', sent'.vertices) /\ Same(edges', sent'.edges)
         /\ Len(vertices') = e + 1 /\ Len(edges') = e
    BY <1>1, <1>2, <1>3, <1>5, <1>14, <2>1, <2>8, <2>11
  <2>13. Len(vertices') + Len(edges') = k
    BY <1>5, <1>10, <1>12, <1>14, <2>12
  <2>14. Reading'
    BY <1>1, <1>2, <1>4, <1>7, <1>8, <1>13, <2>13 DEF Reading
  <2>15. QED
    BY <1>1, <1>2, <2>12, <2>14 DEF KeptInv
<1>15. CASE Len(vertices) = e + 1
  <2>1. edges' = Append(edges, EdgeNew(s)) /\ vertices' = vertices
    BY <1>1, <1>5, <1>15
  <2>2. PICK i \in 1 .. E : i = e + 1
    BY <1>5, <1>7, <1>10, <1>11, <1>15
  <2>3. k % 2 # 1 /\ k \div 2 = i
    BY <1>5, <1>10, <1>12, <1>15, <2>2
  <2>4. PICK v : v = p.edges[i]
    OBVIOUS
  <2>5. s = EdgeText(v)
    BY <1>13, <2>3, <2>4 DEF PartText
  <2>6. v \in ServerEdges
    BY <1>2, <1>4, <2>2, <2>4, WellFormedIs
  <2>7. v.props \in PropsTexts
    <3>1. i \in DOMAIN p.edges
      BY <1>2, <1>4, <2>2, WellFormedIs
    <3>2. QED
      BY <2>4, <3>1, PropsAreParsed
  <2>8. EdgeNew(s) = v
    BY <2>5, <2>6, <2>7, EdgeIsRead
  <2>9. [v EXCEPT !.str = Null] = p.edges[Len(edges) + 1]
    <3>1. [v EXCEPT !.str = Null] = v
      BY <2>6 DEF ServerEdges
    <3>2. QED
      BY <1>5, <2>2, <2>4, <3>1
  <2>10. Len(p.edges) \in Nat /\ Len(edges) # Len(p.edges)
    BY <1>4, <1>5, <2>2
  <2>11. /\ Same(Append(edges, v), p.edges)
         /\ Len(Append(edges, v)) = Len(edges) + 1
    BY <1>3, <2>9, <2>10, SameGrows
  <2>12. Same(vertices', sent'.vertices) /\ Same(edges', sent'.edges)
         /\ Len(vertices') = e + 1 /\ Len(edges') = e + 1
    BY <1>1, <1>2, <1>3, <1>5, <1>15, <2>1, <2>8, <2>11
  <2>13. Len(vertices') + Len(edges') = k
    BY <1>5, <1>10, <1>12, <1>15, <2>12
  <2>14. Reading'
    BY <1>1, <1>2, <1>4, <1>7, <1>8, <1>13, <2>13 DEF Reading
  <2>15. QED
    BY <1>1, <1>2, <2>12, <2>14 DEF KeptInv
<1>16. QED
  BY <1>6, <1>14, <1>15

\* The text ends with the last part.
LEMMA PathEndKept ==
    ASSUME \A p \in Paths : WellFormed(p), KeptInv, PathEnd
    PROVE  KeptInv'
<1>1. /\ phase = "read" /\ phase' = "ready" /\ sent' = sent /\ IsEnd(text, tok)
      /\ vertices' = vertices /\ edges' = edges
  BY DEF PathEnd
<1>2. PICK p \in Paths : p = sent /\ WellFormed(p)
  BY <1>1 DEF KeptInv
<1>3. /\ Same(vertices, p.vertices) /\ Same(edges, p.edges)
      /\ Len(vertices) = Len(edges) \/ Len(vertices) = Len(edges) + 1
      /\ Reading
  BY <1>1, <1>2 DEF KeptInv
<1>4. PICK E \in Nat : E = Len(p.edges) /\ Len(p.vertices) = E + 1
  BY <1>2, WellFormedIs
<1>5. PICK e \in Nat : e = Len(edges) /\ e <= E
  BY <1>3, <1>4, SameLength DEF Same
<1>6. Len(vertices) = e \/ Len(vertices) = e + 1
  BY <1>3, <1>5
<1>7. PICK n \in Nat : n = 2 * E + 1
  BY <1>4
<1>8. PICK ends : /\ Split(p, n, ends)
                  /\ tok.end = ends[Len(vertices) + Len(edges)]
                  /\ tok.end = 0 => tok.start = 1
  BY <1>2, <1>3, <1>4, <1>7 DEF Reading
<1>9. PICK m \in Nat : m = Len(vertices) + Len(edges)
  BY <1>5, <1>6
<1>10. m = n
  <2> SUFFICES ASSUME m # n PROVE FALSE
    OBVIOUS
  <2>1. PICK k \in 1 .. n : k = m + 1 /\ k - 1 = m
    BY <1>4, <1>5, <1>6, <1>7, <1>9
  <2>2. ~IsEnd(PathText(p), tok)
    BY <1>2, <1>4, <1>7, <1>8, <1>9, <2>1, SplitReads
  <2>3. QED
    BY <1>1, <1>2, <2>2 DEF text
<1>11. Len(vertices) = E + 1 /\ Len(edges) = E
  BY <1>4, <1>5, <1>6, <1>7, <1>9, <1>10
<1>12. QED
  BY <1>1, <1>2, <1>3, <1>4, <1>11 DEF KeptInv

\* Strings leave the parts alone.
LEMMA StringsKeepParts ==
    ASSUME KeptInv, phase # "none", phase # "read",
           phase' # "none", phase' # "read", sent' = sent,
           vertices' = vertices \/ \E k : vertices' = MakeStr(vertices, k)[1],
           edges' = edges \/ \E k : edges' = MakeStr(edges, k)[1]
    PROVE  KeptInv'
<1>1. Same(vertices', sent.vertices) /\ Len(vertices') = Len(vertices)
  BY SameNamed DEF KeptInv
<1>2. Same(edges', sent.edges) /\ Len(edges') = Len(edges)
  BY SameNamed DEF KeptInv
<1>3. QED
  BY <1>1, <1>2 DEF KeptInv

\* Every step keeps the invariant.
LEMMA PartsKept ==
    ASSUME \A p \in Paths : WellFormed(p), KeptInv, [Next]_vars
    PROVE  KeptInv'
<1>1. CASE PathNew
  BY <1>1, PathNewKept
<1>2. CASE PathToken
  BY <1>2, PathTokenKept
<1>3. CASE PathEnd
  BY <1>3, PathEndKept
<1>4. CASE VertexToString
  BY <1>4, StringsKeepParts DEF VertexToString
<1>5. CASE EdgeToString
  BY <1>5, StringsKeepParts DEF EdgeToString
<1>6. CASE PathToString
  BY <1>6, StringsKeepParts DEF PathToString
<1>7. CASE PathToStringPart
  <2>1. /\ phase = "join" /\ phase' = "join" /\ sent' = sent
        /\ vertices' = vertices \/ \E k : vertices' = MakeStr(vertices, k)[1]
        /\ edges' = edges \/ \E k : edges' = MakeStr(edges, k)[1]
    BY <1>7 DEF PathToStringPart
  <2>2. QED
    BY <2>1, StringsKeepParts
<1>8. CASE PathToStringEnd
  BY <1>8, StringsKeepParts DEF PathToStringEnd
<1>9. CASE PathFree
  BY <1>9 DEF PathFree, KeptInv
<1>10. CASE UNCHANGED vars
  BY <1>10 DEF vars, KeptInv, Reading
<1>11. QED
  BY <1>1, <1>2, <1>3, <1>4, <1>5, <1>6, <1>7, <1>8, <1>9, <1>10 DEF Next

\* Of ag_path_new_ex, ag_vertex_new and ag_edge_new: the parts of a well-formed
\* path are read one by one as they were sent, none is left out or made up, and
\* all of them are there when the path is handed out.
THEOREM PathsAreKept ==
    ASSUME \A p \in Paths : WellFormed(p)
    PROVE  Spec => []PathKept
<1>1. Init => KeptInv
  BY DEF Init, KeptInv
<1>2. KeptInv /\ [Next]_vars => KeptInv'
  BY PartsKept
<1>3. KeptInv => PathKept
  BY KeptInvKeeps
<1>4. QED
  BY <1>1, <1>2, <1>3, PTL DEF Spec

\* Of ag_vertex_to_string, ag_edge_to_string, ag_path_to_string and
\* ag_path_free: however often and in whatever order the strings of well-formed
\* paths are asked for, each has one owner, none is freed under its owner and
\* none is lost.
THEOREM StringsHaveOneOwner ==
    ASSUME \A p \in Paths : WellFormed(p)
    PROVE  Spec => []StringsOwned
BY PathsAreKept, OwnedWhenKept, PTL
=============================================================================
