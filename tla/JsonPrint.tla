------------------------------ MODULE JsonPrint ------------------------------
(***************************************************************************)
(* The way of a value through text: json_object_to_json_string_ext prints  *)
(* it piece by piece into the print buffer it keeps (json_object.c,        *)
(* printbuf.c), and the parser reads the text back (ag_json_from_string).  *)
(* The value is a JSON array the client edits between prints (arraylist.c),*)
(* or any other value.                                                     *)
(*                                                                         *)
(* A value is as json_tokener leaves it, except that an integer is <<"num",*)
(* n>>, and that a double of which the text is not kept is <<"real", s>>   *)
(* with s what "%.17g" prints in the locale of the program.                *)
(***************************************************************************)
EXTENDS JsonTokener, ArrayList, PrintBuf, Scalars

CONSTANTS Lone,         \* values printed that are no arrays being edited
          Flags,        \* sets of flags: "SPACED", "PRETTY", "NOZERO"
          Numerals,     \* texts a server may send for an integer
          UnitsBelow    \* code units below the space without an escape of their own

\* A text that begins with an integer, which is not the beginning of a double.
IsNumeral(txt) ==
    /\ txt \in Seq(STRING)
    /\ IsInteger(txt)
    /\ \A k \in DOMAIN txt :
          txt[k] \in {".", "e"} => \E i \in 1 .. k : txt[i] \notin NumberChar

\* A character of a string: one a C string can hold, or a code unit to escape.
IsChar(e) ==
    /\ e # <<>>
    /\ IF Len(e) = 1 THEN e[1] # NUL ELSE e[1] = "u" /\ Tail(e) \in UnitsBelow

\* An integer is an int64_t.
IsPrintable(val) ==
    /\ val # Hole
    /\ val[1] = "num"    => val \in {"num"} \X (WideMin .. WideMax)
    /\ val[1] = "string" => /\ val \in {"string"} \X Seq(Seq(STRING))
                            /\ \A i \in DOMAIN val[2] : IsChar(val[2][i])

\* (That these are strings is no news, but no prover knows it.)
ASSUME StringsAssumption  ==
    NumberChar \cup HexChar \cup {"\"", "\\", "/", "n", "r", "t", "u"} \subseteq STRING
ASSUME LoneAssumption     == \A val \in Lone : IsPrintable(val)
ASSUME UnitsAssumption    ==
    \A u \in UnitsBelow : /\ u \in Seq(HexChar \ {NUL}) /\ Len(u) = HexDigits
                          /\ u \notin High \cup Low
ASSUME NumeralsAssumption == \A txt \in Numerals : IsNumeral(txt)
ASSUME NullAssumption     == Hole \notin {"int"} \X Seq(Seq(STRING))

VARIABLES leaf,         \* the value, or None: it is the array arr
          doing,        \* "edit", "print", "read", "numeral"
          todo          \* calls to the print buffer still to come

printVars == <<pb, leaf, doing, todo>>
allVars   == <<vars, listVars, printVars>>

Printed == IF leaf # None THEN leaf ELSE <<"array", Elements>>

-----------------------------------------------------------------------------
(* The calls the serialisers make to the print buffer, in order: Put(s)    *)
(* writes the characters s (printbuf_memappend, and sprintbuf, which holds *)
(* all of them in one temporary buffer or another), Fill(n) that many      *)
(* spaces (printbuf_memset).                                               *)

Put_(s) == <<[op |-> "append", s |-> s]>>
Fill(n) == <<[op |-> "memset", n |-> n]>>

Letter == [BS |-> "b", LF |-> "n", CR |-> "r", HT |-> "t", FF |-> "f"]

Named == [x \in {"\"", "\\", "/"} \cup DOMAIN Letter |->
             IF x \in DOMAIN Letter THEN Letter[x] ELSE x]

\* What json_escape_str writes for the character e; nothing: e itself.
EscapedWithoutUnits(e) ==                                        \* mutant
    IF e[1] \in DOMAIN Named THEN <<"\\", Named[e[1]]>> ELSE <<>>

Escaped(e) ==
    IF e[1] \in DOMAIN Named THEN <<"\\", Named[e[1]]>>
    ELSE IF e[1] = "u" /\ Len(e) > 1 /\ Tail(e) \in UnitsBelow
    THEN <<"\\", "u">> \o Tail(e) ELSE <<>>

\* What is left of a character in the text when it is written as it is: a code
\* unit below the space would be lost to it.
Bare(e) == IF Len(e) = 1 THEN e[1] ELSE NUL

If(cond, calls) == IF cond THEN calls ELSE <<>>

\* json_escape_str: runs of plain characters, and escapes between them.
EscapeStr(s) ==
    LET calls[i \in 1 .. Len(s) + 1] ==     \* for the characters from i on
            LET j == CHOOSE j \in i .. Len(s) + 1 :
                        /\ \A k \in i .. j - 1 : Escaped(s[k]) = <<>>
                        /\ j <= Len(s) => Escaped(s[j]) # <<>>
            IN  If(j > i, Put_([k \in 1 .. j - i |-> Bare(s[i + k - 1])]))
                    \o IF j > Len(s) THEN <<>> ELSE Put_(Escaped(s[j])) \o calls[j + 1]
    IN  calls[1]

\* JSON_C_TO_STRING_NOZERO: what follows the last digit that is no 0 is
\* dropped; one digit is kept.
Trimmed(txt) ==
    IF ~Contains(txt, ".") THEN txt
    ELSE LET d == CHOOSE i \in DOMAIN txt :
                     txt[i] = "." /\ \A j \in 1 .. i - 1 : txt[j] # "."
             last == CHOOSE i \in d + 1 .. Len(txt) :
                        /\ i = d + 1 \/ txt[i] # "0"
                        /\ \A j \in i + 1 .. Len(txt) : txt[j] = "0"
         IN  SubSeq(txt, 1, last)

WithPoint(txt) == [i \in DOMAIN txt |-> IF txt[i] = "," THEN "." ELSE txt[i]]

Line(flags)          == If("PRETTY" \in flags, Put_(<<"\n">>))
Indent(level, flags) == If("PRETTY" \in flags, Fill(2 * level))

\* What comes before a member: a separator, and space as the flags have it.
Before(i, level, flags) ==
    If(i > 1, Put_(<<",">>) \o Line(flags))
        \o If("SPACED" \in flags, Put_(<<" ">>)) \o Indent(level + 1, flags)

\* What comes after the last of n members: space, and the bracket b.
After(b, n, level, flags) ==
    If(n > 0, Line(flags)) \o Indent(level, flags)
        \o Put_(IF "SPACED" \in flags THEN <<" ", b>> ELSE <<b>>)

Flat(seqs) == FoldLeft(LAMBDA a, b : a \o b, <<>>, seqs)

Plain(e) == e[1]

\* inside[i] are the calls for the member at i.
ObjectCalls(fields, level, flags, inside) ==
    Put_(<<"{">>) \o Line(flags)
        \o Flat([i \in DOMAIN fields |->
                    Before(i, level, flags)
                        \o Put_(<<"\"">>) \o EscapeStr(fields[i][1])
                        \o Put_(IF "SPACED" \in flags THEN <<"\"", ":", " ">>
                                ELSE <<"\"", ":">>)
                        \o inside[i]])
        \o After("}", Len(fields), level, flags)

ArrayCalls(elems, level, flags, inside) ==
    Put_(<<"[">>) \o Line(flags)
        \o Flat([i \in DOMAIN elems |-> Before(i, level, flags) \o inside[i]])
        \o After("]", Len(elems), level, flags)

StringCalls(s) == Put_(<<"\"">>) \o EscapeStr(s) \o Put_(<<"\"">>)

\* A double of which the text was kept prints that text.
UserdataCalls(s) == Put_([i \in DOMAIN s |-> Plain(s[i])])

DoubleCalls(val, flags) ==
    CASE val[1] = "nan"  -> Put_(Word["nan"])
      [] val[1] = "inf"  -> Put_(Word["inf"])
      [] val[1] = "-inf" -> Put_(<<"-">> \o Word["inf"])
      [] val[1] = "real" -> Put_(IF "NOZERO" \in flags THEN Trimmed(WithPoint(val[2]))
                                 ELSE WithPoint(val[2]))

\* The values without members.
ScalarCalls(val, flags) ==
    CASE val = Hole -> Put_(Word["null"])
      [] val[1] \in {"null", "true", "false"} -> Put_(Word[val[1]])
      [] val[1] = "num"    -> Put_(Decimal(val[2]))
      [] val[1] = "double" -> UserdataCalls(val[2])
      [] val[1] = "string" -> StringCalls(val[2])
      [] OTHER             -> DoubleCalls(val, flags)

Holds(val) == val # Hole /\ val[1] \in {"array", "object"}

Member(val, i) == IF val[1] = "object" THEN val[2][i][2] ELSE val[2][i]

\* jso->_to_json_string(jso, pb, level, flags), of which there is one for
\* each type of value.  A value within val is found by the way to it: the
\* places, level by level.
Calls(val, flags) ==
    LET calls[way \in Seq(Nat)] ==
            LET v      == FoldLeft(Member, val, way)
                inside == [i \in DOMAIN v[2] |-> calls[Append(way, i)]]
            IN  CASE ~Holds(v)         -> ScalarCalls(v, flags)
                  [] v[1] = "array"  -> ArrayCalls(v[2], Len(way), flags, inside)
                  [] v[1] = "object" -> ObjectCalls(v[2], Len(way), flags, inside)
    IN  IF Holds(val) THEN calls[<<>>] ELSE ScalarCalls(val, flags)

-----------------------------------------------------------------------------
PrintInit ==
    /\ Init /\ ListInit /\ BufInit
    /\ leaf \in Lone \cup {None}
    /\ doing = "edit"
    /\ todo = <<>>

\* The client edits the array, or releases it and makes another, which has a
\* buffer of its own.
EditArray ==
    /\ doing = "edit"
    /\ leaf = None
    /\ \/ Edit /\ UNCHANGED pb
       \/ FreeList /\ pb' = NewBuf
    /\ UNCHANGED <<vars, leaf, doing, todo>>

\* null, true and false have no buffer: their text is static.
Static == Printed[1] \in {"null", "true", "false"}

\* The beginning of json_object_to_json_string_ext.
ToJsonString ==
    /\ doing = "edit"
    /\ Dealt
    /\ ~Static
    /\ pb' = ResetBuf(pb)
    /\ \E flags \in Flags : todo' = Calls(Printed, flags)
    /\ doing' = "print"
    /\ UNCHANGED <<vars, leaf>>

\* The next call of a serialiser to the print buffer.
Write ==
    /\ doing = "print"
    /\ todo # <<>>
    /\ pb' = IF Head(todo).op = "memset" THEN MemSet(pb, " ", Head(todo).n)
             ELSE MemAppend(pb, Head(todo).s)
    /\ todo' = Tail(todo)
    /\ UNCHANGED <<vars, listVars, leaf, doing>>

\* The text up to its first 0; without one, what follows is read too.
CString(b) ==
    LET s == IF b.ended THEN b.chars ELSE Append(b.chars, "garbage")
        k == CHOOSE k \in 0 .. Len(s) :
                /\ \A i \in 1 .. k : s[i] # NUL
                /\ k < Len(s) => s[k + 1] = NUL
    IN  SubSeq(s, 1, k)

\* ag_json_from_string on the text returned, which it reads up to the 0.
ReadBack ==
    /\ \/ doing = "print" /\ todo = <<>> /\ text' = CString(pb)
       \/ doing = "edit" /\ Static /\ text' = Word[Printed[1]]
    /\ doing' = "read"
    /\ Call(Len(text'))
    /\ UNCHANGED <<pos, listVars, pb, leaf, todo>>

\* ag_json_from_string_ex on a text of the server.
ReadNumeral ==
    /\ doing = "edit" /\ leaf = None /\ arr = NewList /\ pb = NewBuf /\ released = {}
    /\ \E txt \in Numerals : text' = txt
    /\ doing' = "numeral"
    /\ Call(Len(text'))
    /\ UNCHANGED <<pos, listVars, pb, leaf, todo>>

Reading == doing \in {"read", "numeral"}

\* The parser at work; a text that may go on is ended (the 0 of the text,
\* which json_tokener_parse gives to the parser).
Read ==
    /\ Reading
    /\ Machine \/ ParseEnd
    /\ UNCHANGED <<listVars, printVars>>

HasRead == Reading /\ phase = "idle" /\ ~(err = "continue" /\ end = Len(text))

\* The client drops what was read and goes on.
Done ==
    /\ HasRead
    /\ doing' = "edit"
    /\ text' = <<>> /\ pos' = 0 /\ end' = 0 /\ ret' = None /\ err' = "success"
    /\ stack' = <<Fresh>> /\ scan' = Clean
    /\ UNCHANGED <<phase, obj, listVars, pb, leaf, todo>>

PrintNext ==
    \/ EditArray \/ ToJsonString \/ Write \/ ReadBack \/ ReadNumeral \/ Read \/ Done

PrintSpec == PrintInit /\ [][PrintNext]_allVars

-----------------------------------------------------------------------------
(* Properties.                                                             *)

AsText(chars) == [i \in DOMAIN chars |-> Plain(chars[i])]

\* A value up to what JSON keeps apart: a hole is a null, an integer is its
\* number, and a double that was printed as an integer is one.
ScalarMeaning(lib, val) ==
    CASE val = Hole -> <<"null">>
      [] val[1] = "int"  -> <<"num", ParseInt64(lib, AsText(val[2]))>>
      [] val[1] = "real" ->
            IF \E i \in DOMAIN val[2] : val[2][i] \in {".", ",", "e"}
            THEN <<"double", Chars(WithPoint(val[2]))>>
            ELSE <<"num", ParseInt64(lib, val[2])>>
      [] OTHER -> val

Meaning(lib, val) ==
    LET meaning[way \in Seq(Nat)] ==
            LET v == FoldLeft(Member, val, way)
            IN  CASE ~Holds(v) -> ScalarMeaning(lib, v)
                  [] v[1] = "array" ->
                        <<"array", [i \in DOMAIN v[2] |-> meaning[Append(way, i)]]>>
                  [] v[1] = "object" ->
                        <<"object", [i \in DOMAIN v[2] |->
                                        <<v[2][i][1], meaning[Append(way, i)]>>]>>
    IN  IF Holds(val) THEN meaning[<<>>] ELSE ScalarMeaning(lib, val)

\* Whatever the flags, whatever was printed into the buffer before, parsing
\* what was printed gives the value again: escapes, separators, indentation
\* and the 0 at the end are where the parser needs them.
RoundTrip ==
    doing = "read" /\ HasRead =>
        /\ err = "success"
        /\ \A lib \in Libraries : Meaning(lib, ret) = Meaning(lib, Printed)

\* "If the value of too big or too small to fit into 32-bit, INT32_MAX or
\* INT32_MIN are returned" (json_object.h:493-495): through two clamps, and
\* either kind of sscanf, an integer of any length comes out as the nearest
\* int, read from a JSON number and from a string, unless the workaround for
\* sscanf misreads it.
GetIntIsNearest ==
    doing = "numeral" /\ HasRead /\ err = "success" =>
        \A lib \in Libraries :
            (lib = "wraps" => ~Misread(text)) =>
                /\ AgGetInt(lib, Meaning(lib, ret)) = Nearest(text)
                /\ GetInt(lib, <<"string", text>>) = Nearest(text)
=============================================================================
