------------------------------- MODULE AgOdbc -------------------------------
(***************************************************************************)
(* The ODBC binding (ag_odbc.c): parameters of a statement and a column of *)
(* its result.  A call is a handful of calls to the driver, each of which  *)
(* may succeed, succeed with a warning or fail; the driver keeps pointers  *)
(* to what is bound and uses them later.  The driver manager's functions   *)
(* are external: Execute, Fetch, Unbind and what SQLGetData delivers.      *)
(*                                                                         *)
(* The client goes on after a success only; when a binding fails it binds  *)
(* again, or unbinds the column.  It binds parameters before it executes,  *)
(* and the column afterwards.  It may ask for a column any number of times *)
(* in a row, after a truncation for instance.                              *)
(***************************************************************************)
EXTENDS Naturals

CONSTANTS TypeName,     \* names of column types the server may report
          Param,        \* parameters of the statement
          Json,         \* JSON values the client binds
          Text,         \* what a JSON value is, and is printed as
          MaxLen,       \* bound: length of a column's text
          MaxRow,       \* bound: rows of a result
          None          \* no text, no parameter, no object: NULL

ASSUME NoneAssumption == None \notin Text \cup Json \cup {"success"}
ASSUME LengthAssumption == MaxLen \in Nat \ {0}

VARIABLES open,         \* a result is open
          column,       \* [name, len]: type name and SQL_DESC_LENGTH of the column
          row,          \* number of the current row, 0 before the first
          cell,         \* its text: [len, good], good if its JSON parses; None: NULL
          got,          \* characters of it SQLGetData has delivered; see Done
          size,         \* size of the client's buffer, 0: not allocated
          own,          \* ... which the client chose without a description
          bound,        \* how the driver fills the target at a fetch
          settled,      \* the last AG_SQLBindCol succeeded, or was undone
          target,       \* the client's variable for the column
          ind,          \* ... and its indicator: "null" or "len"
          last,         \* what the last call returned if it read the column,
                        \* else None
          value,        \* the client's JSON values
          printed,      \* what the print buffer of each holds
          data,         \* the driver's binding of a parameter: a Json or None
          pind,         \* the client's indicator of a parameter: "nts", "null"
          asked,        \* what each parameter was bound to, None: NULL,
                        \* or Undefined
          kept          \* history: the client has done its part for a parameter
                        \* since it was bound; see SentAsBound

resultVars == <<column, row, cell, got, ind>>
paramVars  == <<value, printed, data, pind, asked, kept>>
vars == <<open, resultVars, size, own, bound, settled, target, last, paramVars>>

Done      == MaxLen + 1         \* the cell has been delivered to its end
Undefined == "undefined"
DriverRc  == {"success", "info", "error"}

AgType == [json |-> "property", jsonb |-> "property", vertex |-> "vertex",
           edge |-> "edge", path |-> "path"]
Kind == {AgType[t] : t \in TypeName \cap DOMAIN AgType}

-----------------------------------------------------------------------------
(* Describing a column and reading it.                                     *)

\* AG_SQLDescribeCol up to the type, if SQLColAttribute returns r.
Described(r) ==
    IF r # "success" THEN r
    ELSE IF column.name \in DOMAIN AgType THEN "success" ELSE "error"

DescribeColForgetsNul ==                                         \* mutant
    /\ open /\ row = 0
    /\ size' = column.len /\ own' = FALSE
    /\ last' = None
    /\ UNCHANGED <<open, resultVars, bound, settled, target, paramVars>>

\* AG_SQLDescribeCol; before the first row the client allocates a buffer of the
\* size it returns, if it returns one.
DescribeCol ==
    /\ open /\ row = 0
    /\ \E r1, r2 \in DriverRc :
        IF Described(r1) = "success" /\ r2 = "success"
        THEN size' = column.len + 1 /\ own' = FALSE
        ELSE UNCHANGED <<size, own>>
    /\ last' = None
    /\ UNCHANGED <<open, resultVars, bound, settled, target, paramVars>>

\* The client allocates a buffer of a size of its own.
Allocate ==
    /\ open /\ row = 0
    /\ size' \in 1 .. MaxLen /\ own' = TRUE
    /\ last' = None
    /\ UNCHANGED <<open, resultVars, bound, settled, target, paramVars>>

\* The object made of what is left of the cell after its first n characters.
\* A vertex, edge or path whose properties do not parse is an object too.
Decode(kind, n) ==
    IF kind = "property" /\ ~cell.good THEN None
    ELSE [row |-> row, kind |-> kind, whole |-> n = 0, good |-> cell.good]

Fails(rc) == last' = rc /\ UNCHANGED <<got, target, ind>>

GetDataOfAnyKind(kind) ==                                        \* mutant
    /\ open /\ row # 0 /\ size # 0 /\ cell # None /\ got # Done
    /\ Described("success") = "success"
    /\ got' = Done
    /\ ind' = "len"
    /\ target' = Decode(kind, got)
    /\ last' = "success"
    /\ UNCHANGED <<open, column, row, cell, size, own, bound, settled, paramVars>>

\* AG_SQLGetData with the type the client expects.  SQLGetData delivers a text
\* in pieces of the buffer's size less one, with a warning for all but the
\* last; what comes after that is SQL_NO_DATA.
GetData(kind) ==
    /\ open /\ row # 0
    /\ UNCHANGED <<open, column, row, cell, size, own, bound, settled, paramVars>>
    /\ \/ size = 0 /\ Fails("error")
       \/ /\ size # 0
          /\ \E r \in DriverRc : Described(r) # "success" /\ Fails(Described(r))
       \/ /\ size # 0 /\ Described("success") = "success"
          /\ kind # AgType[column.name]
          /\ Fails("error")
       \/ /\ size # 0 /\ Described("success") = "success"
          /\ kind = AgType[column.name]
          /\ \/ Fails("error")
             \/ got = Done /\ Fails("no_data")
             \/ /\ got # Done /\ cell = None
                /\ got' = Done /\ ind' = "null" /\ UNCHANGED target
                /\ last' = "success"
             \/ /\ got # Done /\ cell # None /\ cell.len - got >= size
                /\ got' = got + size - 1 /\ ind' = "len" /\ UNCHANGED target
                /\ last' = "info"
             \/ /\ got # Done /\ cell # None /\ cell.len - got < size
                /\ got' = Done /\ ind' = "len"
                /\ target' = Decode(kind, got)
                /\ last' = IF target' = None THEN "error" ELSE "success"

-----------------------------------------------------------------------------
(* Binding the column, and what a fetch does with it.                      *)

BindColUntyped(kind) ==                                        \* mutant
    /\ open
    /\ bound' = "text"
    /\ settled' = TRUE
    /\ last' = None
    /\ UNCHANGED <<open, resultVars, size, own, target, paramVars>>

\* AG_SQLBindCol: bind the target as text, get the descriptor, make the scale
\* the type's number (which unbinds the pointer) and bind the pointer again.
\* Each of the four calls to the driver may be the one that fails.
BindCol(kind) ==
    /\ open
    /\ last' = None
    /\ \E rc \in DriverRc :
        /\ settled' = (rc = "success")
        /\ \/ rc # "success" /\ UNCHANGED bound
           \/ rc # "success" /\ bound' = "text"
           \/ rc # "success" /\ kind \in Kind /\ bound' = "no"
           \/ rc # "error" /\ kind \in Kind /\ bound' = kind
    /\ UNCHANGED <<open, resultVars, size, own, target, paramVars>>

\* SQLFreeStmt(SQL_UNBIND)
Unbind ==
    /\ open
    /\ bound # "no" \/ ~settled
    /\ bound' = "no" /\ settled' = TRUE
    /\ last' = None
    /\ UNCHANGED <<open, resultVars, size, own, target, paramVars>>

Cell == [len : 1 .. MaxLen, good : BOOLEAN] \cup {None}

\* SQLFetch: the driver delivers a row into the bound target.  A column bound
\* as text gets characters; NULL is told by the indicator only.
Fetch ==
    /\ open /\ settled /\ row < MaxRow
    /\ row' = row + 1
    /\ \E x \in Cell : (x # None => x.len <= column.len) /\ cell' = x
    /\ got' = 0
    /\ IF bound = "no" THEN UNCHANGED <<target, ind>>
       ELSE /\ ind' = IF cell' = None THEN "null" ELSE "len"
            /\ target' = IF cell' = None THEN target
                         ELSE [row |-> row', kind |-> bound, whole |-> TRUE,
                               good |-> cell'.good]
    /\ last' = None
    /\ UNCHANGED <<open, column, size, own, bound, settled, paramVars>>

-----------------------------------------------------------------------------
(* Parameters.                                                             *)

\* The client changes a JSON value; what was printed stays in its buffer.
Change(j) ==
    /\ ~open
    /\ \E txt \in Text : value' = [value EXCEPT ![j] = txt]
    /\ UNCHANGED <<open, resultVars, size, own, bound, settled, target, last,
                   printed, data, pind, asked, kept>>

\* The client sets its indicator of p to SQL_NTS, as it must before it binds a
\* value: the binding does not.
SetIndicator(p) ==
    /\ ~open
    /\ pind[p] = "null"
    /\ pind' = [pind EXCEPT ![p] = "nts"]
    /\ kept' = [kept EXCEPT ![p] = FALSE]
    /\ UNCHANGED <<open, resultVars, size, own, bound, settled, target, last,
                   value, printed, data, asked>>

\* ag_json_to_string: the value is printed into its own buffer, over what was
\* printed there before.
PrintOver(j) == printed' = [printed EXCEPT ![j] = value[j]]
Waits(q, j) == data[q] = j /\ printed[j] # value[j]

BindParameterWithoutInd(p, j) ==                                 \* mutant
    /\ ~open
    /\ data' = [data EXCEPT ![p] = j]
    /\ asked' = [asked EXCEPT ![p] = IF j = None THEN None ELSE value[j]]
    /\ IF j = None THEN UNCHANGED printed ELSE PrintOver(j)
    /\ kept' = [q \in Param |->
                   IF q = p THEN j = None \/ pind[p] = "nts"
                   ELSE kept[q] /\ ~(j # None /\ Waits(q, j))]
    /\ last' = None
    /\ UNCHANGED <<open, resultVars, size, own, bound, settled, target, value, pind>>

\* AG_SQLBindParameter prints the value and binds the buffer it is printed to;
\* without a value it sets the client's indicator, which it leaves alone
\* otherwise.  It fails before that when the type is not AG_PROPERTY or the
\* value cannot be printed, and after it when the driver does.
BindParameter(p, j) ==
    /\ ~open
    /\ last' = None
    /\ UNCHANGED <<open, resultVars, size, own, bound, settled, target, value>>
    /\ \/ /\ UNCHANGED <<printed, data, pind>>
          /\ asked' = [asked EXCEPT ![p] = Undefined]
          /\ kept' = [kept EXCEPT ![p] = FALSE]
       \/ \E rc \in DriverRc :
          /\ IF j = None THEN pind' = [pind EXCEPT ![p] = "null"] /\ UNCHANGED printed
             ELSE PrintOver(j) /\ UNCHANGED pind
          /\ data' = IF rc = "error" THEN data ELSE [data EXCEPT ![p] = j]
          /\ asked' = [asked EXCEPT ![p] =
                          IF rc = "error" THEN Undefined
                          ELSE IF j = None THEN None ELSE value[j]]
          /\ kept' = [q \in Param |->
                         IF q = p THEN rc # "error" /\ (j = None \/ pind[p] = "nts")
                         ELSE kept[q] /\ ~(j # None /\ Waits(q, j))]

\* What the driver sends for a parameter: it reads indicator and buffer only
\* when the statement is executed, and has no text without either.
Sends(p) == IF pind[p] = "null" THEN None
            ELSE IF data[p] = None THEN Undefined
            ELSE printed[data[p]]

\* SQLExecute, after every parameter was bound; a new result begins.
Execute ==
    /\ ~open
    /\ \A p \in Param : asked[p] # Undefined
    /\ open' = TRUE
    /\ column' \in [name : TypeName, len : 1 .. MaxLen]
    /\ last' = None
    /\ UNCHANGED <<row, cell, got, ind, size, own, bound, settled, target, paramVars>>

\* SQLFreeStmt(SQL_CLOSE); the client frees its buffer and its object.  What is
\* bound stays bound.
Close ==
    /\ open
    /\ open' = FALSE
    /\ row' = 0 /\ got' = 0 /\ size' = 0 /\ own' = FALSE /\ cell' = None
    /\ target' = None /\ ind' = "null"
    /\ last' = None
    /\ UNCHANGED <<column, bound, settled, paramVars>>

Init ==
    /\ open = FALSE
    /\ column \in [name : TypeName, len : {1}]
    /\ row = 0 /\ cell = None /\ got = 0 /\ size = 0 /\ own = FALSE
    /\ bound = "no" /\ settled = TRUE
    /\ target = None /\ ind = "null"
    /\ last = None
    /\ value \in [Json -> Text] /\ printed = [j \in Json |-> None]
    /\ data = [p \in Param |-> None]
    /\ pind = [p \in Param |-> "nts"]
    /\ asked = [p \in Param |-> Undefined]
    /\ kept = [p \in Param |-> FALSE]

Next ==
    \/ DescribeCol
    \/ Allocate
    \/ \E kind \in Kind : GetData(kind)
    \/ \E kind \in Kind \cup {"none"} : BindCol(kind)
    \/ Unbind
    \/ Fetch
    \/ \E j \in Json : Change(j)
    \/ \E p \in Param : SetIndicator(p)
    \/ \E p \in Param, j \in Json \cup {None} : BindParameter(p, j)
    \/ Execute
    \/ Close

Spec == Init /\ [][Next]_vars

-----------------------------------------------------------------------------
(* Properties.                                                             *)

\* AG_SQLGetData returns SQL_SUCCESS for a value that is not NULL only with an
\* object of the current row, of the column's type, made of the whole text; the
\* rest of a text that was truncated before is taken for the whole in a buffer
\* only that the client chose itself, and too small.  (Of a NULL the result
\* says nothing: the indicator tells, and the target is what it was.)
TargetOfThisRow ==
    last = "success" /\ ind # "null" =>
        \E whole \in {TRUE, ~(own /\ cell.len >= size)} :
            target = [row |-> row, kind |-> AgType[column.name], whole |-> whole,
                      good |-> cell.good]

\* A buffer of the size AG_SQLDescribeCol returns takes every value of the
\* column: none is delivered in pieces, of which only the last would be
\* decoded.
GotInOnePiece == ~own => got \in {0, Done}

\* A client that fetches after successful bindings only never finds characters
\* where its pointer was, however a binding before failed.
NoTextInTarget == target # None => target.kind \in Kind

\* Indicator and text are read when the statement is executed, long after the
\* binding: then they are still what the parameter was bound to, whatever value
\* was changed, and whatever parameter bound to the same value or to another,
\* or not bound because a call failed, since.  It takes a client that has
\* done its part (kept): the code lets it print a value again that has changed
\* while an older text of it waits in the same buffer, by binding another
\* parameter to it, and bind a value over the indicator of a NULL; what is
\* sent is then another text, or NULL.
SentAsBound ==
    \A p \in Param : asked[p] # Undefined /\ kept[p] => Sends(p) = asked[p]
=============================================================================
