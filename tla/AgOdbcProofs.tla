---------------------------- MODULE AgOdbcProofs ----------------------------
(***************************************************************************)
(* The ODBC binding, for any column types, parameters, values and texts,   *)
(* any lengths and any number of rows, against a driver of which any call  *)
(* may fail.  Assumed are the named assumptions of AgOdbc.                 *)
(*                                                                         *)
(* The invariant ties the client's buffer to the column it was described   *)
(* for, which is what makes a value arrive in one piece, and what is bound *)
(* to the outcome of the last binding.                                     *)
(***************************************************************************)
EXTENDS AgOdbc, TLAPS

Shape ==
    /\ column.len \in Nat
    /\ cell # None => cell.len \in Nat
    /\ got \in Nat /\ size \in Nat /\ own \in BOOLEAN /\ row \in Nat
    /\ value \in [Json -> Text]
    /\ printed \in [Json -> Text \cup {None}]
    /\ data \in [Param -> Json \cup {None}]
    /\ pind \in [Param -> {"nts", "null"}]
    /\ asked \in [Param -> Text \cup {None, Undefined}]
    /\ kept \in [Param -> BOOLEAN]

\* Without a result there is no buffer, and before the first row nothing has
\* been delivered.
Closed ==
    /\ ~open => size = 0 /\ own = FALSE /\ row = 0 /\ cell = None
    /\ row = 0 => got = 0

\* A buffer the client did not choose itself has the size described.
Described_ ==
    /\ own = FALSE => size = 0 \/ size = column.len + 1
    /\ cell # None => cell.len <= column.len

\* A text is delivered in pieces only into a buffer of the client's own choice,
\* too small for it.
Pieces == got \notin {0, Done} => own = TRUE /\ cell # None /\ cell.len >= size

Settled == settled => bound \in Kind \cup {"no"}

IInv ==
    /\ Shape
    /\ Closed /\ Described_ /\ GotInOnePiece /\ Pieces
    /\ Settled /\ NoTextInTarget
    /\ SentAsBound

-----------------------------------------------------------------------------
(* Initially.                                                              *)

LEMMA InitHolds ==
    ASSUME Init
    PROVE  IInv
<1>1. column.len = 1
  BY DEF Init
<1>2. Shape
  <2>1. /\ column.len \in Nat /\ (cell # None => cell.len \in Nat)
        /\ got \in Nat /\ size \in Nat /\ row \in Nat
    BY <1>1 DEF Init
  <2>2. own \in BOOLEAN
    BY Zenon DEF Init
  <2>3. value \in [Json -> Text] /\ printed \in [Json -> Text \cup {None}]
    BY DEF Init
  <2>4. data \in [Param -> Json \cup {None}] /\ pind \in [Param -> {"nts", "null"}]
    BY DEF Init
  <2>5. asked \in [Param -> Text \cup {None, Undefined}]
    BY DEF Init
  <2>6. kept \in [Param -> BOOLEAN]
    BY DEF Init
  <2>7. QED
    BY <2>1, <2>2, <2>3, <2>4, <2>5, <2>6 DEF Shape
<1>3. Closed /\ Described_ /\ GotInOnePiece /\ Pieces
  BY DEF Init, Closed, Described_, GotInOnePiece, Pieces
<1>4. Settled /\ NoTextInTarget
  BY DEF Init, Settled, NoTextInTarget
<1>5. SentAsBound
  BY DEF Init, SentAsBound
<1>6. QED
  BY <1>2, <1>3, <1>4, <1>5 DEF IInv

-----------------------------------------------------------------------------
(* The invariant part by part: most actions touch one part only.           *)

\* What parameters are bound to is left alone outside the calls about them.
LEMMA ParamsKept ==
    ASSUME IInv, UNCHANGED paramVars
    PROVE  SentAsBound'
BY DEF IInv, SentAsBound, Sends, paramVars

\* So is the column's binding.
LEMMA BindingKept ==
    ASSUME IInv, UNCHANGED <<bound, settled, target>>
    PROVE  Settled' /\ NoTextInTarget'
BY DEF IInv, Settled, NoTextInTarget

\* And the column itself, the row, and what was read of it.
LEMMA ReadingKept ==
    ASSUME IInv, UNCHANGED <<open, column, row, cell, got, size, own>>
    PROVE  Closed' /\ Described_' /\ GotInOnePiece' /\ Pieces'
BY DEF IInv, Closed, Described_, GotInOnePiece, Pieces, Done

LEMMA DescribeColKeeps == ASSUME IInv, DescribeCol PROVE IInv'
<1> USE DEF IInv
<1>1. /\ open /\ row = 0
      /\ UNCHANGED <<open, column, row, cell, got, bound, settled, target, paramVars>>
  BY DEF DescribeCol, resultVars
<1>2. \/ size' = column.len + 1 /\ own' = FALSE
      \/ UNCHANGED <<size, own>>
  BY DEF DescribeCol
<1>3. Shape'
  <2>1. size' \in Nat
    <3>1. CASE size' = column.len + 1
      BY <3>1 DEF Shape
    <3>2. CASE size' = size
      BY <3>2 DEF Shape
    <3>3. QED
      BY <1>2, <3>1, <3>2
  <2>2. own' \in BOOLEAN
    BY <1>2, Zenon DEF Shape
  <2>3. QED
    BY <1>1, <2>1, <2>2 DEF Shape, paramVars
<1>4. Closed' /\ Described_' /\ GotInOnePiece' /\ Pieces'
  BY <1>1, <1>2 DEF Closed, Described_, GotInOnePiece, Pieces, Done
<1>5. QED
  BY <1>1, <1>3, <1>4, ParamsKept, BindingKept

LEMMA AllocateKeeps == ASSUME IInv, Allocate PROVE IInv'
<1> USE DEF IInv
<1>1. /\ open /\ row = 0 /\ own' = TRUE /\ size' \in Nat
      /\ UNCHANGED <<open, column, row, cell, got, bound, settled, target, paramVars>>
  BY LengthAssumption DEF Allocate, resultVars
<1>2. Shape'
  BY <1>1 DEF Shape, paramVars
<1>3. Closed' /\ Described_' /\ GotInOnePiece' /\ Pieces'
  BY <1>1 DEF Closed, Described_, GotInOnePiece, Pieces, Done
<1>4. QED
  BY <1>1, <1>2, <1>3, ParamsKept, BindingKept

\* A buffer of the size described is never too small, so that what has been
\* delivered is nothing or everything.
LEMMA GetDataKeeps ==
    ASSUME IInv, NEW kind \in Kind, GetData(kind)
    PROVE  IInv'
<1> USE DEF IInv
<1>1. /\ open /\ row # 0
      /\ UNCHANGED <<open, column, row, cell, size, own, bound, settled, paramVars>>
  BY DEF GetData
<1>2. \/ UNCHANGED <<got, target>>
      \/ got' = Done /\ target' \in {target, Decode(kind, got)}
      \/ /\ got # Done /\ cell # None /\ size # 0 /\ cell.len - got >= size
         /\ got' = got + size - 1 /\ target' = target
  BY DEF GetData, Fails
<1>3. Done \in Nat
  BY LengthAssumption DEF Done
<1>4. got' \in Nat
  BY <1>2, <1>3 DEF Shape
<1>5. Shape'
  BY <1>1, <1>4 DEF Shape, paramVars
<1>6. GotInOnePiece'
  <2>1. CASE got' \in {got, Done}
    BY <1>1, <2>1 DEF GotInOnePiece
  <2>2. CASE /\ got # Done /\ cell # None /\ size # 0 /\ cell.len - got >= size
             /\ got' = got + size - 1
    <3>1. own = TRUE
      <4> SUFFICES ASSUME own = FALSE PROVE FALSE
        BY DEF Shape
      <4>1. got = 0 /\ size = column.len + 1
        BY <2>2 DEF GotInOnePiece, Described_
      <4>2. cell.len <= column.len
        BY <2>2 DEF Described_
      <4>3. QED
        BY <2>2, <4>1, <4>2 DEF Shape
    <3>2. QED
      BY <1>1, <3>1 DEF GotInOnePiece
  <2>3. QED
    BY <1>2, <2>1, <2>2
<1>7. Closed' /\ Described_'
  BY <1>1 DEF Closed, Described_
<1>8. Pieces'
  <2>1. CASE got' \in {got, Done}
    BY <1>1, <2>1 DEF Pieces, Done
  <2>2. CASE /\ got # Done /\ cell # None /\ size # 0 /\ cell.len - got >= size
             /\ got' = got + size - 1
    <3>1. cell.len >= size
      BY <2>2 DEF Shape
    <3>2. own = TRUE \/ got' \in {0, Done}
      BY <1>1, <1>6, Zenon DEF GotInOnePiece, Shape
    <3>3. QED
      BY <1>1, <2>2, <3>1, <3>2 DEF Pieces
  <2>3. QED
    BY <1>2, <2>1, <2>2
<1>9. Settled' /\ NoTextInTarget'
  <2>1. target' \in {target, Decode(kind, got)}
    BY <1>2
  <2>2. Decode(kind, got) = None \/ Decode(kind, got).kind = kind
    BY DEF Decode
  <2>3. QED
    BY <1>1, <2>1, <2>2 DEF Settled, NoTextInTarget
<1>10. QED
  BY <1>1, <1>5, <1>6, <1>7, <1>8, <1>9, ParamsKept

\* Only a binding of which every call succeeded is used.
LEMMA BindColKeeps ==
    ASSUME IInv, NEW kind, BindCol(kind)
    PROVE  IInv'
<1> USE DEF IInv
<1>1. UNCHANGED <<open, column, row, cell, got, size, own, target, paramVars>>
  BY DEF BindCol, resultVars
<1>2. settled' => bound' \in Kind
  BY DEF BindCol
<1>3. Settled' /\ NoTextInTarget'
  BY <1>1, <1>2 DEF Settled, NoTextInTarget
<1>4. Shape'
  BY <1>1 DEF Shape, paramVars
<1>5. QED
  BY <1>1, <1>3, <1>4, ParamsKept, ReadingKept

LEMMA UnbindKeeps == ASSUME IInv, Unbind PROVE IInv'
<1> USE DEF IInv
<1>1. /\ bound' = "no"
      /\ UNCHANGED <<open, column, row, cell, got, size, own, target, paramVars>>
  BY DEF Unbind, resultVars
<1>2. Settled' /\ NoTextInTarget'
  BY <1>1 DEF Settled, NoTextInTarget
<1>3. Shape'
  BY <1>1 DEF Shape, paramVars
<1>4. QED
  BY <1>1, <1>2, <1>3, ParamsKept, ReadingKept

LEMMA FetchKeeps == ASSUME IInv, Fetch PROVE IInv'
<1> USE DEF IInv
<1>1. /\ open /\ settled /\ row' = row + 1 /\ row' # 0 /\ got' = 0
      /\ UNCHANGED <<open, column, size, own, bound, settled, paramVars>>
  <2>1. row' = row + 1 /\ row \in Nat
    BY DEF Fetch, Shape
  <2>2. row' # 0
    BY <2>1
  <2>3. QED
    BY <2>1, <2>2 DEF Fetch
<1>2. cell' # None => cell'.len \in Nat /\ cell'.len <= column.len
  BY LengthAssumption DEF Fetch, Cell
<1>3. Shape'
  BY <1>1, <1>2 DEF Shape, paramVars
<1>4. Closed' /\ Described_' /\ GotInOnePiece' /\ Pieces'
  BY <1>1, <1>2 DEF Closed, Described_, GotInOnePiece, Pieces, Done
<1>5. \/ target' = target
      \/ bound # "no" /\ target'.kind = bound
  BY DEF Fetch
<1>6. Settled' /\ NoTextInTarget'
  BY <1>1, <1>5 DEF Settled, NoTextInTarget
<1>7. QED
  BY <1>1, <1>3, <1>4, <1>6, ParamsKept

\* What was printed for a parameter is not touched by a change of the value.
LEMMA ChangeKeeps ==
    ASSUME IInv, NEW j \in Json, Change(j)
    PROVE  IInv'
<1> USE DEF IInv
<1>1. /\ UNCHANGED <<open, column, row, cell, got, size, own, bound, settled, target>>
      /\ UNCHANGED <<printed, data, pind, asked, kept>>
      /\ value' \in [Json -> Text]
  BY DEF Change, resultVars, Shape
<1>2. Shape'
  BY <1>1 DEF Shape
<1>3. SentAsBound'
  BY <1>1 DEF SentAsBound, Sends
<1>4. QED
  BY <1>1, <1>2, <1>3, BindingKept, ReadingKept

\* An indicator set by the client alone says nothing of what was bound.
LEMMA SetIndicatorKeeps ==
    ASSUME IInv, NEW p \in Param, SetIndicator(p)
    PROVE  IInv'
<1> USE DEF IInv
<1>1. /\ UNCHANGED <<open, column, row, cell, got, size, own, bound, settled, target>>
      /\ UNCHANGED <<value, printed, data, asked>>
      /\ pind' = [pind EXCEPT ![p] = "nts"]
      /\ kept' = [kept EXCEPT ![p] = FALSE]
  BY DEF SetIndicator, resultVars
<1>2. pind' \in [Param -> {"nts", "null"}] /\ kept' \in [Param -> BOOLEAN]
  BY <1>1 DEF Shape
<1>3. Shape'
  BY <1>1, <1>2 DEF Shape
<1>4. SentAsBound'
  <2>1. SUFFICES ASSUME NEW q \in Param, asked'[q] # Undefined, kept'[q]
                 PROVE  Sends(q)' = asked'[q]
    BY DEF SentAsBound
  <2>2. q # p /\ kept[q] /\ pind'[q] = pind[q]
    BY <1>1, <2>1 DEF Shape
  <2>3. QED
    BY <1>1, <2>1, <2>2 DEF SentAsBound, Sends
<1>5. QED
  BY <1>1, <1>3, <1>4, BindingKept, ReadingKept

\* A binding leaves alone what other parameters send, but for those that wait
\* for an older text of the value it prints.
LEMMA OthersSent ==
    ASSUME IInv, NEW p \in Param, NEW j \in Json \cup {None}, NEW q \in Param, q # p,
           asked[q] # Undefined, kept[q], j # None => ~Waits(q, j),
           data'[q] = data[q], pind'[q] = pind[q],
           printed' = IF j = None THEN printed ELSE [printed EXCEPT ![j] = value[j]]
    PROVE  Sends(q)' = asked[q]
<1> USE DEF IInv
<1>1. Sends(q) = asked[q]
  BY DEF SentAsBound
<1>2. data[q] # None => data[q] \in Json /\ printed'[data[q]] = printed[data[q]]
  BY DEF Shape, Waits
<1>3. QED
  BY <1>1, <1>2 DEF Sends

\* The parameter bound sends what was printed for it, if the indicator says so.
LEMMA BindParameterKeeps ==
    ASSUME IInv, NEW p \in Param, NEW j \in Json \cup {None}, BindParameter(p, j)
    PROVE  IInv'
<1> USE DEF IInv
<1>1. UNCHANGED <<open, column, row, cell, got, size, own, bound, settled, target, value>>
  BY DEF BindParameter, resultVars
<1>2. /\ value \in [Json -> Text] /\ printed \in [Json -> Text \cup {None}]
      /\ data \in [Param -> Json \cup {None}] /\ pind \in [Param -> {"nts", "null"}]
      /\ asked \in [Param -> Text \cup {None, Undefined}]
      /\ kept \in [Param -> BOOLEAN]
  BY DEF Shape
<1>3. CASE /\ UNCHANGED <<printed, data, pind>>
           /\ asked' = [asked EXCEPT ![p] = Undefined]
           /\ kept' = [kept EXCEPT ![p] = FALSE]
  <2>1. /\ asked' \in [Param -> Text \cup {None, Undefined}]
        /\ kept' \in [Param -> BOOLEAN]
    BY <1>2, <1>3
  <2>2. Shape'
    BY <1>1, <1>2, <1>3, <2>1 DEF Shape
  <2>3. SentAsBound'
    <3>1. SUFFICES ASSUME NEW q \in Param, asked'[q] # Undefined, kept'[q]
                   PROVE  Sends(q)' = asked'[q]
      BY DEF SentAsBound
    <3>2. q # p /\ kept[q] /\ asked'[q] = asked[q]
      BY <1>2, <1>3, <3>1
    <3>3. QED
      BY <1>3, <3>1, <3>2 DEF SentAsBound, Sends
  <2>4. QED
    BY <1>1, <2>2, <2>3, BindingKept, ReadingKept
<1>4. ASSUME NEW rc \in DriverRc,
             IF j = None THEN pind' = [pind EXCEPT ![p] = "null"] /\ UNCHANGED printed
             ELSE PrintOver(j) /\ UNCHANGED pind,
             data' = IF rc = "error" THEN data ELSE [data EXCEPT ![p] = j],
             asked' = [asked EXCEPT ![p] =
                          IF rc = "error" THEN Undefined
                          ELSE IF j = None THEN None ELSE value[j]],
             kept' = [q \in Param |->
                        IF q = p THEN rc # "error" /\ (j = None \/ pind[p] = "nts")
                        ELSE kept[q] /\ ~(j # None /\ Waits(q, j))]
      PROVE  IInv'
  <2>1. /\ printed' = IF j = None THEN printed ELSE [printed EXCEPT ![j] = value[j]]
        /\ pind' = IF j = None THEN [pind EXCEPT ![p] = "null"] ELSE pind
    BY <1>4 DEF PrintOver
  <2>2. /\ printed' \in [Json -> Text \cup {None}]
        /\ data' \in [Param -> Json \cup {None}] /\ pind' \in [Param -> {"nts", "null"}]
        /\ asked' \in [Param -> Text \cup {None, Undefined}]
    BY <1>2, <1>4, <2>1
  <2>3. kept' \in [Param -> BOOLEAN]
    BY <1>4, Zenon
  <2>4. Shape'
    BY <1>1, <1>2, <2>2, <2>3 DEF Shape
  <2>5. ASSUME NEW q \in Param, asked'[q] # Undefined, kept'[q]
        PROVE  Sends(q)' = asked'[q]
    <3>1. CASE q # p
      <4>1. asked'[q] = asked[q] /\ data'[q] = data[q] /\ pind'[q] = pind[q]
        BY <1>2, <1>4, <2>1, <3>1
      <4>2. kept[q] /\ (j # None => ~Waits(q, j))
        BY <1>4, <2>5, <3>1, Zenon
      <4>3. QED
        BY <2>1, <2>5, <3>1, <4>1, <4>2, OthersSent
    <3>2. CASE q = p
      <4>1. rc # "error" /\ (j = None \/ pind[p] = "nts")
        BY <1>4, <2>5, <3>2, Zenon
      <4>2. /\ asked'[p] = IF j = None THEN None ELSE value[j]
            /\ data'[p] = j
        BY <1>2, <1>4, <4>1
      <4>3. CASE j = None
        BY <1>2, <2>1, <3>2, <4>2, <4>3 DEF Sends
      <4>4. CASE j # None
        <5>1. j \in Json
          BY <4>4
        <5>2. pind'[p] = "nts" /\ printed'[j] = value[j]
          BY <1>2, <2>1, <4>1, <4>4, <5>1
        <5>3. QED
          BY <3>2, <4>2, <4>4, <5>2 DEF Sends
      <4>5. QED
        BY <4>3, <4>4
    <3>3. QED
      BY <3>1, <3>2
  <2>6. SentAsBound'
    BY <2>5 DEF SentAsBound
  <2>7. QED
    BY <1>1, <2>4, <2>6, BindingKept, ReadingKept
<1>5. QED
  BY <1>3, <1>4 DEF BindParameter

LEMMA ExecuteKeeps == ASSUME IInv, Execute PROVE IInv'
<1> USE DEF IInv
<1>1. /\ ~open /\ open'
      /\ column' \in [name : TypeName, len : 1 .. MaxLen]
      /\ UNCHANGED <<row, cell, got, size, own, bound, settled, target, paramVars>>
  BY DEF Execute
<1>2. column'.len \in Nat
  BY <1>1, LengthAssumption
<1>3. Shape'
  BY <1>1, <1>2 DEF Shape, paramVars
<1>4. Closed' /\ Described_' /\ GotInOnePiece' /\ Pieces'
  BY <1>1 DEF Closed, Described_, GotInOnePiece, Pieces, Done
<1>5. QED
  BY <1>1, <1>3, <1>4, ParamsKept, BindingKept

LEMMA CloseKeeps == ASSUME IInv, Close PROVE IInv'
<1> USE DEF IInv
<1>1. /\ row' = 0 /\ got' = 0 /\ size' = 0 /\ own' = FALSE /\ cell' = None
      /\ target' = None
      /\ UNCHANGED <<column, bound, settled, paramVars>>
  BY DEF Close
<1>2. Shape'
  BY <1>1 DEF Shape, paramVars
<1>3. Closed' /\ Described_' /\ GotInOnePiece' /\ Pieces'
  BY <1>1 DEF Closed, Described_, GotInOnePiece, Pieces, Done
<1>4. Settled' /\ NoTextInTarget'
  BY <1>1 DEF Settled, NoTextInTarget
<1>5. QED
  BY <1>1, <1>2, <1>3, <1>4, ParamsKept

-----------------------------------------------------------------------------
(* The specification.                                                      *)

LEMMA Invariant == Spec => []IInv
<1>1. Init => IInv
  BY InitHolds
<1>2. IInv /\ [Next]_vars => IInv'
  <2> SUFFICES ASSUME IInv, [Next]_vars PROVE IInv'
    OBVIOUS
  <2>1. CASE UNCHANGED vars
    <3>1. /\ UNCHANGED <<open, column, row, cell, got, size, own, bound, settled, target>>
          /\ UNCHANGED paramVars
      BY <2>1 DEF vars, resultVars
    <3>2. Shape'
      BY <3>1 DEF IInv, Shape, paramVars
    <3>3. QED
      BY <3>1, <3>2, ParamsKept, BindingKept, ReadingKept DEF IInv
  <2>2. CASE Next
    BY <2>2, DescribeColKeeps, AllocateKeeps, GetDataKeeps, BindColKeeps, UnbindKeeps,
       FetchKeeps, ChangeKeeps, SetIndicatorKeeps, BindParameterKeeps, ExecuteKeeps, CloseKeeps DEF Next
  <2>3. QED
    BY <2>1, <2>2
<1>3. QED
  BY <1>1, <1>2, PTL DEF Spec

\* Of AG_SQLDescribeCol: a buffer of the size it returns takes every value of
\* the column in one piece, whatever the lengths.
THEOREM DescribedIsEnough == Spec => []GotInOnePiece
<1>1. IInv => GotInOnePiece
  BY DEF IInv
<1>2. QED
  BY <1>1, Invariant, PTL

\* Of AG_SQLBindCol: a client that goes on after success only finds objects in
\* its target, never characters, whichever call of a binding failed before.
THEOREM TargetsAreObjects == Spec => []NoTextInTarget
<1>1. IInv => NoTextInTarget
  BY DEF IInv
<1>2. QED
  BY <1>1, Invariant, PTL

\* Of AG_SQLBindParameter: at every execution each parameter is sent as it was
\* bound, for any number of parameters that share values and their buffers, as
\* long as the client prints no value again whose older text waits, and has set
\* the indicator of a value it binds.
THEOREM ParametersSent == Spec => []SentAsBound
<1>1. IInv => SentAsBound
  BY DEF IInv
<1>2. QED
  BY <1>1, Invariant, PTL

\* Of AG_SQLGetData: a success is an object of this row and type, and of the
\* whole text unless the client chose a buffer too small for it, however often
\* it asks again.
THEOREM SuccessIsThisRow == Spec => []TargetOfThisRow
<1>1. Init => TargetOfThisRow
  BY NoneAssumption DEF Init, TargetOfThisRow
<1>2. ASSUME IInv, NEW kind \in Kind, GetData(kind)
      PROVE  TargetOfThisRow'
  <2>1. CASE last' # "success" \/ ind' = "null"
    BY <2>1 DEF TargetOfThisRow
  <2>2. CASE last' = "success" /\ ind' # "null"
    <3>1. /\ kind = AgType[column.name]
          /\ got # Done
          /\ target' = Decode(kind, got) /\ target' # None
      BY <1>2, <2>2 DEF GetData, Fails
    <3>2. row' = row /\ column' = column /\ cell' = cell /\ own' = own /\ size' = size
      BY <1>2 DEF GetData
    <3>3. target' = [row |-> row, kind |-> kind, whole |-> got = 0, good |-> cell.good]
      BY <3>1 DEF Decode
    <3> DEFINE small == own /\ cell.len >= size
               object(whole) == [row |-> row, kind |-> AgType[column.name],
                                 whole |-> whole, good |-> cell.good]
    <3>4. target' \in {object(TRUE), object(~small)}
      <4>1. CASE got = 0
        <5>1. (got = 0) = TRUE
          BY <4>1
        <5>2. QED
          BY <3>1, <3>3, <5>1
      <4>2. CASE got # 0
        <5>1. small = TRUE
          BY <1>2, <3>1, <4>2 DEF IInv, Pieces
        <5>2. (got = 0) = ~small
          BY <4>2, <5>1
        <5>3. QED
          BY <3>1, <3>3, <5>2
      <4>3. QED
        BY <4>1, <4>2
    <3>5. QED
      BY <3>2, <3>4 DEF TargetOfThisRow
  <2>3. QED
    BY <2>1, <2>2
<1>3. IInv /\ TargetOfThisRow /\ [Next]_vars => TargetOfThisRow'
  <2> SUFFICES ASSUME IInv, TargetOfThisRow, [Next]_vars PROVE TargetOfThisRow'
    OBVIOUS
  <2>1. CASE UNCHANGED <<last, ind, target, row, column, cell, own, size>>
    BY <2>1 DEF TargetOfThisRow
  <2>2. CASE last' = None
    BY <2>2, NoneAssumption DEF TargetOfThisRow
  <2>3. CASE UNCHANGED vars \/ (\E j \in Json : Change(j)) \/ (\E p \in Param : SetIndicator(p))
    BY <2>1, <2>3 DEF vars, resultVars, Change, SetIndicator
  <2>4. CASE \/ DescribeCol \/ Allocate \/ Unbind \/ Fetch \/ Execute \/ Close
             \/ \E kind \in Kind \cup {"none"} : BindCol(kind)
             \/ \E p \in Param, j \in Json \cup {None} : BindParameter(p, j)
    BY <2>2, <2>4 DEF DescribeCol, Allocate, BindCol, Unbind, Fetch, BindParameter,
                      Execute, Close
  <2>5. QED
    BY <1>2, <2>3, <2>4 DEF Next
<1>4. QED
  BY <1>1, <1>3, Invariant, PTL DEF Spec
=============================================================================
