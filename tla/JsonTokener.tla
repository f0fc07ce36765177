---------------------------- MODULE JsonTokener ----------------------------
(***************************************************************************)
(* The incremental JSON parser (json_tokener.c): a character machine with  *)
(* one record of state per nesting level, fed by any number of calls of    *)
(* json_tokener_parse_ex, and ag_json_from_string_ex (ag_json.c:12-35),    *)
(* which ends the text with a call of its own.  Flags are 0 (not strict).  *)
(*                                                                         *)
(* One action is one case of the switch on one character.  A case that     *)
(* ends in "goto redo_char" leaves pos alone; the tight loops are taken a  *)
(* character at a time.  A character is a string of length one; a letter   *)
(* stands for both of its cases.  What a buffer holds is a sequence of     *)
(* tuples: <<c>> for a character, <<"u", ..>> for a decoded escape.        *)
(***************************************************************************)
EXTENDS Integers, Sequences, SequencesExt

CONSTANTS Whole,        \* texts a client parses in one chunk
          Cut,          \* texts it cuts into chunks
          Reused,       \* texts it cuts into chunks and parses one after another
                        \* with one tokener, giving them up at any time
          MaxDepth,     \* tok->max_depth
          HexDigits,    \* digits of a \u escape (4 in the code)
          High, Low,    \* the code units IS_HIGH_SURROGATE, IS_LOW_SURROGATE
          AsHigh, AsLow,\* high units of which a pair is taken for a high, or
                        \* for a low surrogate itself
          HighOf,       \* the high unit with the ten bits of a low one
          Word          \* spelling of "null", "nan", "true", "false", "inf"

ASSUME DepthAssumption  == MaxDepth \in Nat \ {0}
ASSUME HexAssumption    == HexDigits \in Nat \ {0}
ASSUME SurrogateAssumption ==
    /\ High \cap Low = {}
    /\ AsHigh \cup AsLow \subseteq High /\ AsHigh \cap AsLow = {}
    /\ HighOf \in [Low -> High]
ASSUME TextAssumption   == Whole \cup Cut \cup Reused \subseteq Seq(STRING)

VARIABLES text,         \* the text being parsed
          pos,          \* characters consumed so far (char_offset, over calls)
          end,          \* where the chunk of the current call ends
          phase,        \* "idle", "run", or at label out: "out", "eof" (c = 0)
          stack,        \* tok->stack[0 .. depth]
          obj,          \* the local obj: a value on its way to its container
          scan,         \* what a token in progress has left in tok and locals
          err,          \* tok->err
          ret           \* what the last call returned

vars == <<text, pos, end, phase, stack, obj, scan, err, ret>>

None  == <<"none">>
NUL   == "NUL"
Repl  == <<"U+FFFD">>
Space      == {" ", "\n"}
Quote      == {"\"", "'"}
Digit      == {"0", "1", "2", "3", "4", "5", "6", "7", "8", "9"}
NumberChar == Digit \cup {".", "+", "-", "e"}
HexChar    == Digit \cup {"a", "b", "c", "d", "e", "f"}
                    \cup {NUL}             \* strchr also finds the 0 byte

\* json_tokener_reset_level
Fresh == [state |-> "eatws", saved |-> "start", cur |-> None, name |-> <<>>]

Clean == [pb |-> <<>>, st_pos |-> 0, quote |-> NUL, is_double |-> FALSE,
          ucs |-> <<>>,
          hi |-> <<>>, case_len |-> 0]      \* locals of json_tokener_parse_ex

Top   == stack[Len(stack)]
Depth == Len(stack) - 1

\* The character at position i; ag_json_from_string_ex appends " " and 0.
Char(i) == IF i <= Len(text) THEN text[i]
           ELSE IF i = Len(text) + 1 THEN " " ELSE NUL
c == Char(pos + 1)

-----------------------------------------------------------------------------
(* Steps of the machine.                                                   *)

At(s) == phase = "run" /\ pos < end /\ Top.state = s

Set(level)  == stack' = [stack EXCEPT ![Len(stack)] = level]
Goto(s)     == Set([Top EXCEPT !.state = s])
Await(s)    == Set([Top EXCEPT !.state = "eatws", !.saved = s])
Made(v)     == Set([Top EXCEPT !.state = "eatws", !.saved = "finish", !.cur = v])
Leave       == phase' = IF c = NUL THEN "eof" ELSE "out"

\* ADVANCE_CHAR, which gives up after a 0; the next PEEK_CHAR is EndOfChunk.
Advance == pos' = pos + 1 /\ phase' = IF c = NUL THEN "eof" ELSE "run"
Redo    == UNCHANGED <<pos, phase>>

Fail(e) == Leave /\ err' = e /\ UNCHANGED <<pos, stack>>

Keep == UNCHANGED <<text, end, ret>>        \* what no step of the machine changes
Quiet == Keep /\ UNCHANGED <<obj, scan>>    \* ... nor one that scans no token

EndOfChunkAtAnyDepth ==                                          \* mutant
    /\ phase = "run"
    /\ pos = end
    /\ err' = IF Top.state = "eatws" /\ Top.saved = "finish"
              THEN "success" ELSE "continue"
    /\ phase' = "out"
    /\ Keep /\ UNCHANGED <<pos, stack, obj, scan>>

\* PEEK_CHAR at the end of the chunk.  A pending high surrogate is a local:
\* it is given up (623-627).
EndOfChunk ==
    /\ phase = "run"
    /\ pos = end
    /\ err' = IF Depth = 0 /\ Top.state = "eatws" /\ Top.saved = "finish"
              THEN "success" ELSE "continue"
    /\ phase' = "out"
    /\ scan' = IF scan.hi = <<>> THEN scan
               ELSE [scan EXCEPT !.pb = Append(@, Repl), !.hi = <<>>]
    /\ Keep /\ UNCHANGED <<pos, stack, obj>>

EatWsStays ==                                                    \* mutant
    /\ At("eatws")
    /\ UNCHANGED <<stack, err>> /\ Quiet
    /\ IF c \in Space THEN Advance ELSE Redo

EatWs ==
    /\ At("eatws")
    /\ UNCHANGED err
    /\ \/ c \in Space /\ Advance /\ UNCHANGED stack /\ Quiet
       \/ /\ c = "/"
          /\ Goto("comment_start") /\ Advance
          /\ scan' = [scan EXCEPT !.pb = <<<<c>>>>]
          /\ Keep /\ UNCHANGED obj
       \/ c \notin Space \cup {"/"} /\ Goto(Top.saved) /\ Redo /\ Quiet

\* The state that reads a literal beginning with c.
LiteralState == [i |-> "inf", n |-> "null", t |-> "boolean", f |-> "boolean"]

Start ==
    /\ At("start")
    /\ Keep /\ UNCHANGED obj
    /\ \/ /\ c = "{"
          /\ Set([Top EXCEPT !.state = "eatws", !.saved = "object_field_start",
                             !.cur = <<"object", <<>>>>])
          /\ Advance /\ UNCHANGED <<scan, err>>
       \/ /\ c = "["
          /\ Set([Top EXCEPT !.state = "eatws", !.saved = "array",
                             !.cur = <<"array", <<>>>>])
          /\ Advance /\ UNCHANGED <<scan, err>>
       \/ /\ c \in DOMAIN LiteralState
          /\ Goto(LiteralState[c]) /\ Redo /\ UNCHANGED err
          /\ scan' = [scan EXCEPT !.pb = <<>>, !.st_pos = 0]
       \/ /\ c \in Quote
          /\ Goto("string") /\ Advance /\ UNCHANGED err
          /\ scan' = [scan EXCEPT !.pb = <<>>, !.quote = c]
       \/ /\ c \in Digit \cup {"-"}
          /\ Goto("number") /\ Redo /\ UNCHANGED err
          /\ scan' = [scan EXCEPT !.pb = <<>>, !.is_double = FALSE, !.case_len = 0]
       \/ /\ c \notin {"{", "["} \cup DOMAIN LiteralState \cup Quote
                      \cup Digit \cup {"-"}
          /\ Fail("unexpected") /\ UNCHANGED scan

FinishAtAnyDepth ==                                              \* mutant
    /\ At("finish")
    /\ Keep /\ UNCHANGED <<pos, scan, err, phase>>
    /\ obj' = Top.cur /\ stack' = Front(stack)

\* The value of this level is complete: leave the parser, or hand it to the
\* level below in obj.
Finish ==
    /\ At("finish")
    /\ Keep /\ UNCHANGED <<pos, scan, err>>
    /\ IF Depth = 0 THEN Leave /\ UNCHANGED <<stack, obj>>
       ELSE obj' = Top.cur /\ stack' = Front(stack) /\ UNCHANGED phase

-----------------------------------------------------------------------------
(* Literals, comments, strings, numbers.                                   *)

Chars(w) == [i \in DOMAIN w |-> <<w[i]>>]

\* strncasecmp(word, buf, n) = 0
Matches(w, buf, n) == n <= Len(buf) /\ SubSeq(buf, 1, n) = Chars(SubSeq(w, 1, n))

\* The literals buf may still become, st_pos characters having been read.
Candidates(words, buf) ==
    {k \in words : Matches(Word[k], buf,
                           LET n == Len(Word[k])
                           IN  IF scan.st_pos < n THEN scan.st_pos + 1 ELSE n)}

\* A literal is recognised on the character after it, which is read again.
Literal(s, words, buf, value, error) ==
    LET hits == Candidates(words, buf)
        done == {k \in hits : scan.st_pos = Len(Word[k])}
    IN  /\ At(s)
        /\ Keep /\ UNCHANGED obj
        /\ \/ /\ done # {}
              /\ \E k \in done : Made(value[k])
              /\ Redo /\ UNCHANGED err
              /\ scan' = [scan EXCEPT !.pb = Append(@, <<c>>)]
           \/ /\ hits = {}
              /\ Fail(error)
              /\ scan' = [scan EXCEPT !.pb = Append(@, <<c>>)]
           \/ /\ hits # {} /\ done = {}
              /\ Advance /\ UNCHANGED <<stack, err>>
              /\ scan' = [scan EXCEPT !.pb = Append(@, <<c>>), !.st_pos = @ + 1]

\* An infinity may follow the "-" of a number; st_pos is then whatever the
\* last token that counted has left (681-688).
Inf ==
    LET buf == Append(scan.pb, <<c>>)
        neg == buf[1] = <<"-">>
    IN  Literal("inf", {"inf"}, IF neg THEN Tail(buf) ELSE buf,
                [inf |-> <<IF neg THEN "-inf" ELSE "inf">>], "unexpected")

Null ==
    Literal("null", {"null", "nan"}, Append(scan.pb, <<c>>),
            [null |-> <<"null">>, nan |-> <<"nan">>], "null")

Boolean ==
    Literal("boolean", {"true", "false"}, Append(scan.pb, <<c>>),
            [true |-> <<"true">>, false |-> <<"false">>], "boolean")

\* The four comment states.  A star is taken with the character after it.
Comment ==
    \E s \in {"comment_start", "comment", "comment_eol", "comment_end"} :
        /\ At(s)
        /\ Keep /\ UNCHANGED obj
        /\ scan' = [scan EXCEPT !.pb = Append(@, <<c>>)]
        /\ \/ s = "comment_start" /\ c = "*" /\ Goto("comment") /\ Advance
                                  /\ UNCHANGED err
           \/ s = "comment_start" /\ c = "/" /\ Goto("comment_eol") /\ Advance
                                  /\ UNCHANGED err
           \/ s = "comment_start" /\ c \notin {"*", "/"} /\ Fail("comment")
           \/ s = "comment" /\ Goto(IF c = "*" THEN "comment_end" ELSE s)
                            /\ Advance /\ UNCHANGED err
           \/ s = "comment_eol" /\ Goto(IF c = "\n" THEN "eatws" ELSE s)
                                /\ Advance /\ UNCHANGED err
           \/ s = "comment_end" /\ Goto(IF c = "/" THEN "eatws" ELSE "comment")
                                /\ Advance /\ UNCHANGED err

\* strdup(tok->pb->buf): a field name ends at an escaped 0.
FieldName(pb) ==
    LET ends == {i \in DOMAIN pb :
                    Len(pb[i]) > 1 /\ \A j \in 2 .. Len(pb[i]) : pb[i][j] = "0"}
    IN  IF ends = {} THEN pb
        ELSE SubSeq(pb, 1, (CHOOSE i \in ends : \A j \in ends : i <= j) - 1)

\* A string value or a field name up to its closing quote.
Text ==
    \E s \in {"string", "object_field"} :
        /\ At(s)
        /\ Keep /\ Advance /\ UNCHANGED <<obj, err>>
        /\ \/ /\ c = scan.quote
              /\ IF s = "string" THEN Made(<<"string", scan.pb>>)
                 ELSE Set([Top EXCEPT !.state = "eatws", !.saved = "object_field_end",
                                      !.name = FieldName(scan.pb)])
              /\ UNCHANGED scan
           \/ /\ c = "\\"
              /\ Set([Top EXCEPT !.state = "string_escape", !.saved = s])
              /\ UNCHANGED scan
           \/ /\ c \notin {scan.quote, "\\"}
              /\ UNCHANGED stack
              /\ scan' = [scan EXCEPT !.pb = Append(@, <<c>>)]

Control == [b |-> "BS", n |-> "LF", r |-> "CR", t |-> "HT", f |-> "FF"]

StringEscape ==
    /\ At("string_escape")
    /\ Keep /\ UNCHANGED obj
    /\ \/ /\ c \in {"\"", "\\", "/"} \cup DOMAIN Control
          /\ Goto(Top.saved) /\ Advance /\ UNCHANGED err
          /\ scan' = [scan EXCEPT !.pb =
                         Append(@, <<IF c \in DOMAIN Control THEN Control[c] ELSE c>>)]
       \/ /\ c = "u"
          /\ Goto("escape_unicode") /\ Advance /\ UNCHANGED err
          /\ scan' = [scan EXCEPT !.ucs = <<>>, !.st_pos = 0, !.hi = <<>>]
       \/ /\ c \notin {"\"", "\\", "/", "u"} \cup DOMAIN Control
          /\ Fail("string") /\ UNCHANGED scan

\* Is the complete unit u, hi being the high surrogate before it, taken for a
\* high surrogate?  A pair is one code point by then, tested with the same mask:
\* it passes if the low six bits of hi are those of 0xD836 (AsHigh), and passes
\* for a low surrogate if they are those of 0xD837 (AsLow).
LooksHigh(hi, u) == u \in High \/ (hi \in AsHigh /\ u \in Low)
LooksLow(hi, u)  == u \in Low /\ (hi = <<>> \/ hi \in AsLow)

\* What is then kept as the high surrogate: of it the ten low bits count.
Held(u) == IF u \in Low THEN HighOf[u] ELSE u

\* The replacement character of a high surrogate no low one follows.
Unpaired(hi, u) == IF hi # <<>> /\ u \notin Low THEN <<Repl>> ELSE <<>>

DecodedDroppingHigh(hi, u) ==                                    \* mutant
    IF LooksLow(hi, u) THEN <<Repl>>
    ELSE IF u \in Low THEN <<<<"u">> \o hi \o u>> ELSE <<<<"u">> \o u>>

\* What a complete unit that does not look high adds to the buffer (543-615).
Decoded(hi, u) ==
    IF LooksLow(hi, u) THEN <<Repl>>
    ELSE IF u \in Low THEN <<<<"u">> \o hi \o u>>
    ELSE Append(Unpaired(hi, u), <<"u">> \o u)

\* One digit of a \u escape.  A digit too many (a chunk that ended right
\* after a second \u left st_pos at its end) shifts by a negative amount;
\* what ucs_char becomes is then never used.
EscapeUnicode ==
    LET u    == Append(scan.ucs, c)
        full == scan.st_pos + 1 = HexDigits
        next == pos + 3 <= end /\ Char(pos + 2) = "\\" /\ Char(pos + 3) = "u"
        high == LooksHigh(scan.hi, u)
        lone == Unpaired(scan.hi, u)
    IN  /\ At("escape_unicode")
        /\ Keep /\ UNCHANGED obj
        /\ \/ /\ c \notin HexChar
              /\ Fail("string") /\ UNCHANGED scan
           \/ /\ c \in HexChar /\ ~full
              /\ Advance /\ UNCHANGED <<stack, err>>
              /\ scan' = [scan EXCEPT !.st_pos = @ + 1,
                             !.ucs = IF scan.st_pos < HexDigits THEN u ELSE @]
           \/ /\ c \in HexChar /\ full /\ ~high
              /\ Goto(Top.saved) /\ Advance /\ UNCHANGED err
              /\ scan' = [scan EXCEPT !.pb = @ \o Decoded(scan.hi, u),
                             !.st_pos = @ + 1, !.ucs = u, !.hi = <<>>]
           \/ /\ c \in HexChar /\ full /\ high /\ ~next
              /\ Goto(Top.saved) /\ Advance /\ UNCHANGED err
              /\ scan' = [scan EXCEPT !.pb = @ \o lone \o <<Repl>>,
                             !.st_pos = @ + 1, !.ucs = u, !.hi = <<>>]
           \/ /\ c \in HexChar /\ full /\ high /\ next
              /\ pos' = pos + 3 /\ UNCHANGED <<phase, stack, err>>
              /\ scan' = IF pos + 3 = end
                         THEN [scan EXCEPT !.pb = @ \o lone \o <<Repl>>,
                                  !.st_pos = @ + 1, !.ucs = u, !.hi = <<>>]
                         ELSE [scan EXCEPT !.pb = @ \o lone,
                                  !.st_pos = 0, !.ucs = <<>>, !.hi = Held(u)]

\* sscanf with %lld or %lf on a run of number characters (without exponent):
\* it reads a prefix, and succeeds if that begins like a number.
Scans(txt, is_double) ==
    LET body == IF txt[1] = <<"-">> THEN Tail(txt) ELSE txt
    IN  \/ body # <<>> /\ body[1][1] \in Digit
        \/ /\ is_double /\ Len(body) > 1
           /\ body[1][1] = "." /\ body[2][1] \in Digit

\* A number ends at the first other character; a lone "-" read in this very
\* call (case_len = 1) may begin an infinity.
Number ==
    /\ At("number")
    /\ Keep /\ UNCHANGED obj
    /\ LET toInf == scan.pb # <<>> /\ scan.pb[1] = <<"-">>
                        /\ scan.case_len = 1 /\ c = "i"
           kind  == IF scan.is_double THEN "double" ELSE "int"
       IN  \/ /\ c \in NumberChar
              /\ Advance /\ UNCHANGED <<stack, err>>
              /\ scan' = [scan EXCEPT !.pb = Append(@, <<c>>), !.case_len = @ + 1,
                             !.is_double = @ \/ c \in {".", "e"}]
           \/ /\ c \notin NumberChar /\ toInf
              /\ Goto("inf") /\ Redo /\ UNCHANGED <<scan, err>>
           \/ /\ c \notin NumberChar /\ ~toInf /\ Scans(scan.pb, scan.is_double)
              /\ Made(<<kind, scan.pb>>) /\ Redo /\ UNCHANGED <<scan, err>>
           \/ /\ c \notin NumberChar /\ ~toInf /\ ~Scans(scan.pb, scan.is_double)
              /\ Fail("number") /\ UNCHANGED scan

-----------------------------------------------------------------------------
(* Arrays and objects.                                                     *)

DescendOneTooDeep(s) ==                                          \* mutant
    \/ Depth > MaxDepth - 1 /\ Fail("depth")
    \/ /\ Depth <= MaxDepth - 1
       /\ stack' = Append([stack EXCEPT ![Len(stack)].state = s], Fresh)
       /\ Redo /\ UNCHANGED err

\* Open a level for a member, if the stack has one left.
Descend(s) ==
    \/ Depth >= MaxDepth - 1 /\ Fail("depth")
    \/ /\ Depth < MaxDepth - 1
       /\ stack' = Append([stack EXCEPT ![Len(stack)] = [Top EXCEPT !.state = s]],
                          Fresh)
       /\ Redo /\ UNCHANGED err

ArrayOfSome ==                                                   \* mutant
    /\ At("array") \/ At("array_after_sep")
    /\ Quiet
    /\ Descend("array_add")

\* "]" is taken after a separator too.
Array ==
    /\ At("array") \/ At("array_after_sep")
    /\ Quiet
    /\ \/ c = "]" /\ Await("finish") /\ Advance /\ UNCHANGED err
       \/ c # "]" /\ Descend("array_add")

ArrayAdd ==
    /\ At("array_add")
    /\ Set([Top EXCEPT !.state = "eatws", !.saved = "array_sep",
                       !.cur = <<"array", Append(@[2], obj)>>])
    /\ obj' = None
    /\ Redo /\ Keep /\ UNCHANGED <<scan, err>>

ArraySep ==
    /\ At("array_sep")
    /\ Quiet
    /\ \/ c = "]" /\ Await("finish") /\ Advance /\ UNCHANGED err
       \/ c = "," /\ Await("array_after_sep") /\ Advance /\ UNCHANGED err
       \/ c \notin {"]", ","} /\ Fail("array")

ObjectFieldStart ==
    /\ At("object_field_start") \/ At("object_field_start_after_sep")
    /\ Keep /\ UNCHANGED obj
    /\ \/ c = "}" /\ Await("finish") /\ Advance /\ UNCHANGED <<scan, err>>
       \/ /\ c \in Quote
          /\ Goto("object_field") /\ Advance /\ UNCHANGED err
          /\ scan' = [scan EXCEPT !.pb = <<>>, !.quote = c]
       \/ c \notin {"}"} \cup Quote /\ Fail("object_key_name") /\ UNCHANGED scan

ObjectFieldEnd ==
    /\ At("object_field_end")
    /\ Quiet
    /\ \/ c = ":" /\ Await("object_value") /\ Advance /\ UNCHANGED err
       \/ c # ":" /\ Fail("object_key_sep")

ObjectValue == At("object_value") /\ Quiet /\ Descend("object_value_add")

\* json_object_object_add on the fields read so far.
WithField(fields, name, v) ==
    IF \E i \in DOMAIN fields : fields[i][1] = name
    THEN [i \in DOMAIN fields |->
             IF fields[i][1] = name THEN <<name, v>> ELSE fields[i]]
    ELSE Append(fields, <<name, v>>)

ObjectValueAdd ==
    /\ At("object_value_add")
    /\ Set([Top EXCEPT !.state = "eatws", !.saved = "object_sep",
                       !.cur = <<"object", WithField(@[2], Top.name, obj)>>,
                       !.name = <<>>])
    /\ obj' = None
    /\ Redo /\ Keep /\ UNCHANGED <<scan, err>>

ObjectSep ==
    /\ At("object_sep")
    /\ Quiet
    /\ \/ c = "}" /\ Await("finish") /\ Advance /\ UNCHANGED err
       \/ /\ c = ","
          /\ Await("object_field_start_after_sep") /\ Advance /\ UNCHANGED err
       \/ c \notin {"}", ","} /\ Fail("object_value_sep")

\* From label out to the return: on success the value of the level reached
\* is returned and every level is reset, but not their number: tok->depth
\* stays what it is.
Return ==
    /\ phase \in {"out", "eof"}
    /\ LET e == IF phase = "eof" /\ "finish" \notin {Top.state, Top.saved}
                THEN "eof" ELSE err
       IN  /\ err' = e
           /\ ret' = IF e = "success" THEN Top.cur ELSE None
           /\ stack' = IF e = "success" THEN [i \in DOMAIN stack |-> Fresh] ELSE stack
    /\ phase' = "idle"
    /\ obj' = None
    /\ UNCHANGED <<text, pos, end, scan>>

Machine ==
    \/ EndOfChunk \/ EatWs \/ Start \/ Finish \/ Inf \/ Null \/ Boolean
    \/ Comment \/ Text \/ StringEscape \/ EscapeUnicode \/ Number
    \/ Array \/ ArrayAdd \/ ArraySep
    \/ ObjectFieldStart \/ ObjectFieldEnd \/ ObjectValue \/ ObjectValueAdd
    \/ ObjectSep \/ Return

-----------------------------------------------------------------------------
(* The client.                                                             *)

Init ==
    /\ text = <<>> /\ pos = 0 /\ end = 0
    /\ phase = "idle"
    /\ stack = <<Fresh>> /\ obj = None /\ scan = Clean
    /\ err = "success" /\ ret = None

\* The beginning of json_tokener_parse_ex on the characters up to e.
Call(e) ==
    /\ end' = e
    /\ phase' = "run"
    /\ err' = "success"
    /\ obj' = None
    /\ scan' = [scan EXCEPT !.hi = <<>>, !.case_len = 0]
    /\ ret' = None
    /\ UNCHANGED stack

\* A new text: the only one, or one after others were parsed or given up.
Parse ==
    /\ phase = "idle"
    /\ err = "success"
    /\ \/ /\ text = <<>> /\ scan = Clean
          /\ \E txt \in Whole : text' = txt /\ Call(Len(txt))
       \/ /\ text = <<>> /\ scan = Clean
          /\ \E txt \in Cut : text' = txt /\ \E e \in 1 .. Len(txt) : Call(e)
       \/ /\ text \in Reused \cup {<<>>}
          /\ \E txt \in Reused : text' = txt /\ \E e \in 1 .. Len(txt) : Call(e)
    /\ pos' = 0

\* The next chunk of a text that is incomplete.
ParseMore ==
    /\ phase = "idle"
    /\ err = "continue"
    /\ pos < Len(text)
    /\ \E e \in pos + 1 .. Len(text) : Call(e)
    /\ UNCHANGED <<text, pos>>

\* ag_json_from_string_ex: parse " " and the 0 after it when the text is
\* used up and more is wanted.
ParseEnd ==
    /\ phase = "idle"
    /\ err = "continue"
    /\ pos = Len(text)
    /\ Call(Len(text) + 2)
    /\ UNCHANGED <<text, pos>>

\* json_tokener_reset after an error or to give a text up.
Reset ==
    /\ phase = "idle"
    /\ err # "success" /\ text \in Reused
    /\ stack' = <<Fresh>>
    /\ err' = "success"
    /\ text' = <<>> /\ pos' = 0 /\ end' = 0 /\ ret' = None
    /\ UNCHANGED <<phase, obj, scan>>

Next == Machine \/ Parse \/ ParseMore \/ ParseEnd \/ Reset

Spec == Init /\ [][Next]_vars

\* A call, once made, runs to its end.
LiveSpec == Spec /\ WF_vars(Machine)

-----------------------------------------------------------------------------
(* Properties of the machine; JsonText has those about what texts mean.    *)

Shape(level) ==
    /\ DOMAIN level = {"state", "saved", "cur", "name"}
    /\ level.saved \notin {"eatws", "comment"}

\* Every variable keeps its shape; the locals of a call are dead outside it.
TypeOK ==
    /\ pos \in 0 .. Len(text) + 2 /\ end \in 0 .. Len(text) + 2
    /\ phase \in {"idle", "run", "out", "eof"}
    /\ stack # <<>> /\ \A i \in DOMAIN stack : Shape(stack[i])
    /\ scan.st_pos \in Nat /\ scan.is_double \in BOOLEAN
    /\ scan.quote \in Quote \cup {NUL}
    /\ phase = "idle" => obj = None

\* The stack of levels is never overrun, and the value handed from a level
\* to the one below it is stored there before anything else happens: not
\* lost when a chunk ends or an error is met.
HandedOver ==
    /\ Len(stack) <= MaxDepth
    /\ obj # None <=> phase = "run" /\ Top.state \in {"array_add", "object_value_add"}
    /\ phase = "out" => obj = None

\* After a success the next text is parsed from the beginning, at the lowest
\* level.  Return leaves the number of levels alone: the success must have
\* been met at the lowest one.
StartsFresh == phase = "idle" /\ err = "success" => stack = <<Fresh>>

\* "If the parsing is incomplete, NULL will be returned": a call that succeeds
\* returns the value of the whole text, not one within it.
OnlyWholeValues ==
    [][phase # "idle" /\ phase' = "idle" /\ err' = "success" => Depth = 0]_vars

\* The one way in which a call does otherwise: the text ends, with a 0, in a
\* comment after a complete member of an array or object.  tok->depth stays
\* above 0 then, so that the next text starts within a level, and what it
\* gives is lost.  HandedOver and StartsFresh are of texts without that.
LeftOpen ==
    /\ phase = "eof" /\ Depth > 0
    /\ Top.saved = "finish" /\ Top.state \in {"comment", "comment_eol"}

\* Every call returns: no character is looked at over and over again.
CallsReturn == phase = "run" ~> phase = "idle"
=============================================================================
