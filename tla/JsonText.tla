------------------------------ MODULE JsonText ------------------------------
(***************************************************************************)
(* What a JSON text means: a definition of the texts json_tokener accepts  *)
(* and of the value each stands for, given by the shape of the text and    *)
(* not by a machine, for texts put together from given parts.  It is the   *)
(* reference json_tokener is checked against.                              *)
(*                                                                         *)
(* The language is the one json_tokener.c documents by its cases: JSON,    *)
(* with blanks that may be comments, either quote, a separator allowed     *)
(* before a closing bracket, NaN and the infinities.                       *)
(***************************************************************************)
EXTENDS JsonTokener, FiniteSets

CONSTANT Grammars
\* The language is taken in pieces, to keep the texts short.  A piece is a
\* record g:
\*   g.numbers   texts of numbers, without exponent
\*   g.quotes    the quotes used
\*   g.bodies    what strings and field names have between quotes
\*   g.brackets  the containers used: "[" arrays, "{" objects
\*   g.blanks    units of blank space: characters and comments
\*   g.literals  the literals used, "-inf" among them
\*   g.maxText   bound: length of a text
\*   g.maxInside bound: length of what a pair of brackets encloses

Simple == [c_ \in {"\"", "\\", "/"} |-> c_] @@ Control

\* The code unit spelled at position i of a body, if one is.
Unit(b, i) == IF i + 1 + HexDigits <= Len(b) /\ b[i] = "\\" /\ b[i + 1] = "u"
              THEN SubSeq(b, i + 2, i + 1 + HexDigits) ELSE <<>>

\* What a body means from its position i on.
RECURSIVE Reading(_, _)
Reading(b, i) ==
    LET u    == Unit(b, i)
        j    == i + 2 + HexDigits
        low  == Unit(b, j)
    IN  IF i > Len(b) THEN <<>>
        ELSE IF b[i] # "\\" THEN <<<<b[i]>>>> \o Reading(b, i + 1)
        ELSE IF u = <<>> THEN <<<<Simple[b[i + 1]]>>>> \o Reading(b, i + 2)
        ELSE IF u \in High /\ low \in Low
             THEN <<<<"u">> \o u \o low>> \o Reading(b, j + 2 + HexDigits)
        ELSE <<IF u \in High \cup Low THEN Repl ELSE <<"u">> \o u>> \o Reading(b, j)

\* Fields in the order their names first appear, with the values last given.
Fields(pairs) ==
    LET first == {i \in DOMAIN pairs :
                    \A j \in 1 .. i - 1 : pairs[j][1] # pairs[i][1]}
        last(n) == CHOOSE i \in DOMAIN pairs :
                    /\ pairs[i][1] = n
                    /\ \A j \in i + 1 .. Len(pairs) : pairs[j][1] # n
        at(k)   == CHOOSE i \in first : Cardinality({j \in first : j <= i}) = k
    IN  [k \in 1 .. Cardinality(first) |->
            <<pairs[at(k)][1], pairs[last(pairs[at(k)][1])][2]>>]

-----------------------------------------------------------------------------
(* The texts of length n, as records of a text t, its value v and the      *)
(* levels of nesting l it takes; rows holds those of lengths 0 .. n - 1.   *)

More(l1, l2) == IF l1 > l2 THEN l1 ELSE l2

SpellingOf(k) == IF k = "-inf" THEN <<"-">> \o Word["inf"] ELSE Word[k]

\* A body between quotes; where it contains the quote it escapes it.
Quoted(g, n) ==
    UNION {{[t |-> <<q>> \o b \o <<q>>, v |-> Reading(b, 1)] :
              b \in {b \in g.bodies : Len(b) = n - 2 /\ \A i \in DOMAIN b :
                                b[i] = q => i > 1 /\ b[i - 1] = "\\"}} : q \in g.quotes}

Leaves(g, n) ==
    {[t |-> SpellingOf(k), v |-> <<k>>, l |-> 1] :
        k \in {k \in g.literals : Len(SpellingOf(k)) = n}}
    \cup
    {[t |-> x, v |-> <<IF Contains(x, ".") THEN "double" ELSE "int", Chars(x)>>,
      l |-> 1] : x \in {x \in g.numbers : Len(x) = n}}
    \cup
    {[t |-> x.t, v |-> <<"string", x.v>>, l |-> 1] : x \in Quoted(g, n)}

\* One kind of text followed by another, n characters in all.
Row(g, rows, n) ==
    LET at(kind, k) == IF k < 0 THEN {} ELSE rows[k + 1][kind]
        leaf == Leaves(g, n)
        arr  == {[t |-> <<"[">> \o x.t \o <<"]">>, v |-> <<"array", x.v>>, l |-> x.l] :
                    x \in at("list", n - 2)}
        dict == {[t |-> <<"{">> \o x.t \o <<"}">>,
                  v |-> <<"object", Fields(x.v)>>, l |-> x.l] :
                    x \in at("members", n - 2)}
        value == leaf \cup arr \cup dict
        blank == IF n = 0 THEN {<<>>}
                 ELSE UNION {{b \o r : r \in at("blank", n - Len(b))} : b \in g.blanks}
        \* blank, value, blank
        padded == value \cup
            UNION {{[x EXCEPT !.t = b \o @] : x \in at("padded", n - Len(b))}
                   \cup {[x EXCEPT !.t = @ \o b] : x \in at("padded", n - Len(b))} :
                       b \in g.blanks}
        name == {[x EXCEPT !.v = FieldName(@)] : x \in Quoted(g, n)} \cup
            UNION {{[x EXCEPT !.t = b \o @] : x \in at("name", n - Len(b))}
                   \cup {[x EXCEPT !.t = @ \o b] : x \in at("name", n - Len(b))} :
                       b \in g.blanks}
        member == UNION {{[t |-> x.t \o <<":">> \o y.t, v |-> <<x.v, y.v>>, l |-> y.l] :
                            x \in at("name", k), y \in at("padded", n - 1 - k)} :
                                k \in 1 .. n - 2}
        \* members of an array or object: none, one, or one and more
        several(one, kind, rest) ==
            {[t |-> b, v |-> <<>>, l |-> 1] : b \in blank}
            \cup {[t |-> x.t, v |-> <<x.v>>, l |-> x.l + 1] : x \in one}
            \cup UNION {{[t |-> x.t \o <<",">> \o y.t, v |-> <<x.v>> \o y.v,
                          l |-> More(x.l + 1, y.l)] :
                            x \in at(kind, k), y \in at(rest, n - 1 - k)} :
                                k \in 1 .. n - 1}
    IN  [blank |-> blank, padded |-> padded, name |-> name, member |-> member,
         list |-> IF n > g.maxInside \/ "[" \notin g.brackets THEN {} ELSE several(padded, "padded", "list"),
         members |-> IF n > g.maxInside \/ "{" \notin g.brackets THEN {}
                     ELSE several(member, "member", "members")]

RECURSIVE Rows(_, _)
Rows(g, n) == IF n < 0 THEN <<>>
              ELSE LET before == Rows(g, n - 1)
                   IN  Append(before, Row(g, before, n))

\* The texts of values, blanks around them included.
DocumentsOf(g) ==
    LET rows == Rows(g, g.maxText) IN UNION {rows[i].padded : i \in DOMAIN rows}

Documents  == UNION {DocumentsOf(g) : g \in Grammars}
ValidTexts == {d.t : d \in Documents}
DeepTexts  == {d.t : d \in {d \in Documents : d.l > MaxDepth}}

-----------------------------------------------------------------------------
(* Properties.                                                             *)

Read == SubSeq(text, 1, IF pos < Len(text) THEN pos ELSE Len(text))

\* Is there a surrogate pair in txt that json_tokener does not decode, because
\* its code point looks like a surrogate (U+1D800 .. U+1DFFF, U+2D800 ..)?
Mistaken(txt) ==
    \E i \in DOMAIN txt : /\ Unit(txt, i) \in AsHigh \cup AsLow
                          /\ Unit(txt, i + 2 + HexDigits) \in Low

\* A call that succeeds returns what the characters consumed since the last
\* success or reset stand for, however they were cut into chunks, whatever
\* the tokener parsed before; but for texts with a pair that is mistaken for a
\* lone surrogate, of which it returns a replacement character.
ReturnsMeaning ==
    phase = "idle" /\ err = "success" /\ text # <<>> /\ ~Mistaken(Read) =>
        \E n \in 1 .. MaxDepth : [t |-> Read, v |-> ret, l |-> n] \in Documents

\* A complete text that needs no more levels than there are is not refused,
\* and is not to be continued once it has been ended; one that needs more is
\* refused for that reason.
AcceptsValid ==
    phase = "idle" /\ text \in ValidTexts =>
        IF text \in DeepTexts THEN err \in {"depth", "continue"}
        ELSE err = "success" \/ (err = "continue" /\ end <= Len(text))

=============================================================================
