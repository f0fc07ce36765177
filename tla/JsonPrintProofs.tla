-------------------------- MODULE JsonPrintProofs --------------------------
(***************************************************************************)
(* The way through text, for values that hold no others.                   *)
(*                                                                         *)
(* The parser on a text that begins with an integer, of any length and for *)
(* integers of any two widths, makes an integer of the numeral, from which *)
(* json_object_get_int returns the nearest int. An integer, or a string of *)
(* any length and with any set of escapes, that is printed into the print  *)
(* buffer call by call and parsed again is what it was.                    *)
(*                                                                         *)
(* Assumed are what a text with an integer is (NumeralsAssumption), which  *)
(* strings and integers there are (LoneAssumption, UnitsAssumption), that  *)
(* NULL is no value (NullAssumption), LimitsAssumption, HexAssumption, and *)
(* StringsAssumption.                                                      *)
(***************************************************************************)
EXTENDS JsonPrint, ScalarsProofs

-----------------------------------------------------------------------------
(* The parser on a text that begins with an integer.                       *)

\* The one level there is, v being its value.
Level(st, sv, v) == [state |-> st, saved |-> sv, cur |-> v, name |-> <<>>]

OneLevel(st, sv, v) == stack = <<Level(st, sv, v)>>

\* What the steps of the machine make of the one level.
LEMMA LevelIsTop ==
    ASSUME NEW st, NEW sv, NEW v, OneLevel(st, sv, v)
    PROVE  /\ Top = Level(st, sv, v) /\ Depth = 0
           /\ Top.state = st /\ Top.saved = sv /\ Top.cur = v
           /\ \A x : Set(x) => stack' = <<x>>
           /\ \A s : Goto(s) => OneLevel(s, sv, v)'
           /\ \A s : Await(s) => OneLevel("eatws", s, v)'
           /\ \A w : Made(w) => OneLevel("eatws", "finish", w)'
<1>1. Len(stack) = 1 /\ stack[1] = Level(st, sv, v)
  BY DEF OneLevel
<1>2. Top = Level(st, sv, v) /\ Depth = 0
  BY <1>1 DEF Top, Depth
<1>3. Top.state = st /\ Top.saved = sv /\ Top.cur = v
  BY <1>2 DEF Level
<1>4. ASSUME NEW x, Set(x) PROVE stack' = <<x>>
  <2>1. stack' = [stack EXCEPT ![1] = x]
    BY <1>1, <1>4 DEF Set
  <2>2. QED
    BY <2>1 DEF OneLevel
<1>5. \A s : [Top EXCEPT !.state = s] = Level(s, sv, v)
  BY <1>2 DEF Level
<1> DEFINE r1    == [Top EXCEPT !.state = "eatws"]
           r2(s) == [r1 EXCEPT !.saved = s]
<1>6. r1 = Level("eatws", sv, v)
  BY <1>5
<1> HIDE DEF r1
<1>7. \A s : r2(s) = Level("eatws", s, v)
  BY <1>6 DEF Level
<1>8. ASSUME NEW s, Goto(s) PROVE OneLevel(s, sv, v)'
  BY <1>4, <1>5, <1>8 DEF Goto, OneLevel
<1>9. ASSUME NEW s, Await(s) PROVE OneLevel("eatws", s, v)'
  <2>1. Set(r2(s))
    BY <1>9 DEF Await, r1
  <2> HIDE DEF r2
  <2>2. QED
    BY <1>4, <1>7, <2>1 DEF OneLevel
<1>10. ASSUME NEW w, Made(w) PROVE OneLevel("eatws", "finish", w)'
  <2> DEFINE r3 == [r2("finish") EXCEPT !.cur = w]
  <2>1. Set(r3)
    BY <1>10 DEF Made, r1
  <2>2. r3 = Level("eatws", "finish", w)
    <3> HIDE DEF r2
    <3>1. QED
      BY <1>7 DEF Level
  <2> HIDE DEF r3
  <2>3. QED
    BY <1>4, <2>1, <2>2 DEF OneLevel
<1>11. QED
  BY <1>2, <1>3, <1>4, <1>8, <1>9, <1>10

\* The digits of the parser are those of the numerals.
LEMMA DigitsAreFigures == Range(Figures) = Digit
<1>1. Len(Figures) = 10
  BY DEF Figures
<1>2. DOMAIN Figures = 1 .. 10
  BY <1>1, SMT DEF Figures
<1>3. \A x : x \in Range(Figures) <=> \E i \in 1 .. 10 : x = Figures[i]
  BY <1>2 DEF Range
<1>4. /\ Figures[1] = "0" /\ Figures[2] = "1" /\ Figures[3] = "2" /\ Figures[4] = "3"
      /\ Figures[5] = "4" /\ Figures[6] = "5" /\ Figures[7] = "6" /\ Figures[8] = "7"
      /\ Figures[9] = "8" /\ Figures[10] = "9"
  BY DEF Figures
<1>5. QED
  BY <1>3, <1>4 DEF Digit

\* What a numeral begins with.
LEMMA NumeralBegins ==
    ASSUME NEW txt, IsNumeral(txt)
    PROVE  /\ Len(txt) \in Nat \ {0}
           /\ txt[1] \in Digit \cup {"-"}
           /\ txt[1] = "-" => Len(txt) > 1 /\ txt[2] \in Digit
<1>1. txt \in Seq(STRING) /\ IsInteger(txt)
  BY DEF IsNumeral
<1> DEFINE u == Unsigned(txt)
<1>2. u \in Seq(STRING) /\ Leading(u) # <<>>
  BY <1>1, ExactIs
<1> HIDE DEF u
<1>3. Len(u) \in Nat
  BY <1>2, LenProperties
<1>4. PICK k : DigitsUpto(u, k)
  BY <1>3, LeadingExists
<1>5. Len(Leading(u)) = k /\ Leading(u) \in Seq(Range(Figures))
  BY <1>3, <1>4, LeadingIs
<1>6. k \in 1 .. Len(u)
  <2>1. k # 0
    BY <1>2, <1>5, EmptySeq
  <2>2. QED
    BY <1>3, <1>4, <2>1 DEF DigitsUpto
<1>7. u[1] \in Digit
  BY <1>3, <1>4, <1>6, DigitsAreFigures DEF DigitsUpto
<1>8. CASE Negative(txt)
  <2>1. u = Tail(txt) /\ txt # <<>> /\ txt[1] = "-"
    BY <1>8 DEF u, Unsigned, Negative
  <2>2. Len(txt) \in Nat \ {0} /\ Len(u) = Len(txt) - 1
    BY <1>1, <2>1, HeadTailProperties, LenProperties, EmptySeq
  <2>3. u[1] = txt[2]
    BY <1>1, <1>3, <1>6, <2>1, HeadTailProperties
  <2>4. QED
    BY <1>6, <1>7, <2>1, <2>2, <2>3
<1>9. CASE ~Negative(txt)
  <2>1. u = txt
    BY <1>9 DEF u, Unsigned
  <2>2. "-" \notin Digit
    BY DEF Digit
  <2>3. QED
    BY <1>3, <1>6, <1>7, <2>1, <2>2
<1>10. QED
  BY <1>8, <1>9

\* The run of number characters text begins with has length k.
AllNumber(k) == \A i \in 1 .. k : text[i] \in NumberChar
RunOf(k) == /\ k \in 1 .. Len(text)
            /\ AllNumber(k)
            /\ k < Len(text) => text[k + 1] \notin NumberChar

Upto(k) == Chars(SubSeq(text, 1, k))
IntUpto(k) == <<"int", Upto(k)>>

\* A token in progress, with none of its locals set.
Scanning(s) == /\ s = [pb |-> s.pb, st_pos |-> s.st_pos, quote |-> s.quote,
                       is_double |-> s.is_double, ucs |-> s.ucs, hi |-> s.hi,
                       case_len |-> s.case_len]
               /\ s.hi = <<>>

\* In front of the number, within it, and behind it; and the value given.
Ahead  == \E st \in {"eatws", "start"} :
             OneLevel(st, "start", None) /\ pos = 0 /\ Scanning(scan)
Within_ == /\ OneLevel("number", "start", None)
           /\ pos \in 0 .. Len(text) /\ AllNumber(pos)
           /\ Scanning(scan) /\ scan.pb = Upto(pos) /\ scan.is_double = FALSE
           /\ pos < Len(text) => scan.case_len = pos
Behind == \E k, st : /\ RunOf(k) /\ OneLevel(st, "finish", IntUpto(k))
                     /\ st \in {"eatws", "finish", "comment_start", "comment",
                                "comment_eol", "comment_end"}
Given  == /\ phase = "idle" /\ err = "success"
          /\ \E k : RunOf(k) /\ ret = IntUpto(k)

\* What holds while a text that begins with an integer is read.
IntInv == \/ /\ phase # "run" => err # "success"
             /\ Ahead \/ Within_
          \/ /\ phase = "idle" => err # "success"
             /\ Behind
          \/ Given

\* The first character in front of pos that is looked at.
LEMMA NextChar ==
    ASSUME IsNumeral(text), pos \in 0 .. Len(text)
    PROVE  /\ pos = 0 => c \in Digit \cup {"-"}
           /\ pos < Len(text) => c = text[pos + 1]
           /\ pos = Len(text) => c = " "
<1>1. Len(text) \in Nat \ {0} /\ text[1] \in Digit \cup {"-"}
  BY NumeralBegins
<1>2. ASSUME pos < Len(text) PROVE c = text[pos + 1]
  <2>1. pos + 1 <= Len(text)
    BY <1>1, <1>2
  <2>2. QED
    BY <2>1 DEF c, Char
<1>3. ASSUME pos = Len(text) PROVE c = " "
  <2>1. ~(pos + 1 <= Len(text)) /\ pos + 1 = Len(text) + 1
    BY <1>1, <1>3
  <2>2. QED
    BY <2>1 DEF c, Char
<1>4. pos = 0 => pos < Len(text) /\ pos + 1 = 1
  BY <1>1
<1>5. QED
  BY <1>1, <1>2, <1>3, <1>4

\* What was read of the text, a character more at a time.
LEMMA UptoAt ==
    ASSUME text \in Seq(STRING), NEW k \in 1 .. Len(text)
    PROVE  /\ DOMAIN Upto(k) = 1 .. k
           /\ \A i \in 1 .. k : Upto(k)[i] = <<text[i]>>
<1>1. Len(text) \in Nat /\ k \in Nat
  BY LenProperties
<1>2. /\ SubSeq(text, 1, k) \in Seq(STRING)
      /\ Len(SubSeq(text, 1, k)) = k
      /\ \A i \in 1 .. k : SubSeq(text, 1, k)[i] = text[i]
  BY <1>1
<1>3. DOMAIN SubSeq(text, 1, k) = 1 .. k
  BY <1>2
<1>4. QED
  BY <1>2, <1>3 DEF Upto, Chars

LEMMA UptoNext ==
    ASSUME text \in Seq(STRING), NEW k \in 0 .. Len(text), k < Len(text)
    PROVE  Append(Upto(k), <<text[k + 1]>>) = Upto(k + 1)
<1> DEFINE s == SubSeq(text, 1, k)
           t == SubSeq(text, 1, k + 1)
<1>1. Len(text) \in Nat /\ k \in Nat /\ k + 1 \in 1 .. Len(text)
  BY LenProperties
<1>2. /\ s \in Seq(STRING) /\ Len(s) = k
      /\ \A i \in 1 .. k : s[i] = text[i]
  BY <1>1
<1>3. /\ t \in Seq(STRING) /\ Len(t) = k + 1
      /\ \A i \in 1 .. k + 1 : t[i] = text[i]
  BY <1>1
<1>4. DOMAIN s = 1 .. k /\ DOMAIN t = 1 .. k + 1
  BY <1>2, <1>3
<1> HIDE DEF s, t
<1> DEFINE T == Seq(STRING)
           u == [i \in 1 .. k |-> <<s[i]>>]
           v == [i \in 1 .. k + 1 |-> <<t[i]>>]
           w == Append(u, <<text[k + 1]>>)
<1>5. \A i \in 1 .. k + 1 : text[i] \in STRING
  BY <1>1
<1>6. u \in Seq(T) /\ v \in Seq(T) /\ Len(u) = k /\ Len(v) = k + 1
  <2>1. \A i \in 1 .. k + 1 : <<text[i]>> \in T
    BY <1>5
  <2>2. \A i \in 1 .. k : <<s[i]>> \in T
    BY <1>1, <1>2, <2>1
  <2>3. \A i \in 1 .. k + 1 : <<t[i]>> \in T
    BY <1>3, <2>1
  <2> HIDE DEF T
  <2>4. u \in Seq(T) /\ Len(u) = k
    BY <1>1, <2>2
  <2>5. v \in Seq(T) /\ Len(v) = k + 1
    BY <1>1, <2>3
  <2>6. QED
    BY <2>4, <2>5
<1>7. <<text[k + 1]>> \in T
  BY <1>1, <1>5
<1>8. /\ w \in Seq(T) /\ Len(w) = k + 1
      /\ \A i \in 1 .. k : w[i] = u[i]
      /\ w[k + 1] = <<text[k + 1]>>
  <2> HIDE DEF u, T
  <2>1. QED
    BY <1>6, <1>7, AppendProperties
<1>9. \A i \in 1 .. k + 1 : w[i] = v[i]
  <2> HIDE DEF w
  <2>1. \A i \in 1 .. k : w[i] = v[i]
    BY <1>1, <1>2, <1>3, <1>8
  <2>2. w[k + 1] = v[k + 1]
    BY <1>1, <1>3, <1>8
  <2>3. \A i \in 1 .. k + 1 : i \in 1 .. k \/ i = k + 1
    BY <1>1
  <2>4. QED
    BY <2>1, <2>2, <2>3
<1>10. w = v
  <2> HIDE DEF w, v, T
  <2>1. QED
    BY <1>6, <1>8, <1>9, SeqEqual
<1>11. Upto(k) = u /\ Upto(k + 1) = v
  BY <1>4 DEF Upto, Chars, s, t
<1>12. QED
  BY <1>10, <1>11

\* A record of scan, changed a field at a time.
Scan(p, n, q, d, u, h, l) ==
    [pb |-> p, st_pos |-> n, quote |-> q, is_double |-> d, ucs |-> u, hi |-> h,
     case_len |-> l]

More(s, x, e) == [s EXCEPT !.pb = Append(@, x), !.case_len = @ + 1, !.is_double = @ \/ e]

\* A character more in the buffer of a number.
LEMMA MoreScanned ==
    ASSUME NEW s, Scanning(s), NEW x, NEW e
    PROVE  More(s, x, e) = Scan(Append(s.pb, x), s.st_pos, s.quote, s.is_double \/ e,
                                s.ucs, s.hi, s.case_len + 1)
<1>1. PICK p, n, q, d, u, h, l : s = Scan(p, n, q, d, u, h, l)
  BY DEF Scanning, Scan
<1> DEFINE p1 == Append(p, x)
           l1 == l + 1
           d1 == d \/ e
           s1 == [s EXCEPT !.pb = p1]
           s2 == [s1 EXCEPT !.case_len = l1]
           s3 == [s2 EXCEPT !.is_double = d1]
<1>2. /\ s.pb = p /\ s.st_pos = n /\ s.quote = q /\ s.is_double = d
      /\ s.ucs = u /\ s.hi = h /\ s.case_len = l
  BY <1>1 DEF Scan
<1>3. More(s, x, e) = s3
  <2>1. s1.case_len = l /\ s2.is_double = d
    BY <1>1 DEF Scan
  <2>2. QED
    BY <1>2, <2>1 DEF More
<1> HIDE DEF l1, d1, p1
<1>4. s1 = Scan(p1, n, q, d, u, h, l)
  BY <1>1 DEF Scan
<1> HIDE DEF s1
<1>5. s2 = Scan(p1, n, q, d, u, h, l1)
  BY <1>4 DEF Scan
<1> HIDE DEF s2
<1>6. s3 = Scan(p1, n, q, d1, u, h, l1)
  BY <1>5 DEF Scan
<1>7. QED
  BY <1>2, <1>3, <1>6 DEF l1, d1, p1

\* The space before a number, and its first character.
LEMMA AheadKeeps ==
    ASSUME IsNumeral(text), Ahead, phase # "run" => err # "success", Machine
    PROVE  text' = text /\ (Ahead \/ Within_)' /\ (phase' # "run" => err' # "success")
<1>1. PICK st \in {"eatws", "start"} :
         OneLevel(st, "start", None) /\ pos = 0 /\ Scanning(scan)
  BY DEF Ahead
<1>2. Top.state = st /\ Top.saved = "start" /\ Depth = 0
  BY <1>1, LevelIsTop
<1>3. Len(text) \in Nat \ {0}
  BY NumeralBegins
<1>4. c \in Digit \cup {"-"}
  <2>1. pos \in 0 .. Len(text)
    BY <1>1, <1>3
  <2>2. QED
    BY <1>1, <2>1, NextChar
<1>5. CASE EndOfChunk
  <2>1. text' = text /\ UNCHANGED <<stack, pos, scan>>
    BY <1>1, <1>5 DEF EndOfChunk, Keep, Scanning
  <2>2. err' = "continue"
    BY <1>2, <1>5 DEF EndOfChunk
  <2>3. Ahead'
    BY <1>1, <2>1 DEF Ahead, OneLevel
  <2>4. QED
    BY <2>1, <2>2, <2>3
<1>6. CASE EatWs
  <2>1. c \notin Space \cup {"/"}
    BY <1>4 DEF Space, Digit
  <2>2. Goto("start") /\ Redo /\ Quiet /\ phase = "run"
    BY <1>2, <1>6, <2>1 DEF EatWs, At
  <2>3. OneLevel("start", "start", None)'
    BY <1>1, <2>2, LevelIsTop
  <2>4. Ahead'
    BY <1>1, <2>2, <2>3 DEF Ahead, Redo, Quiet
  <2>5. QED
    BY <2>2, <2>4 DEF Redo, Quiet, Keep
<1>7. CASE Start
  <2>1. c \notin {"{", "["} \cup DOMAIN LiteralState \cup Quote
    BY <1>4 DEF Digit, LiteralState, Quote
  <2>2. /\ Goto("number") /\ Redo /\ phase = "run" /\ Keep
        /\ scan' = [scan EXCEPT !.pb = <<>>, !.is_double = FALSE, !.case_len = 0]
    BY <1>4, <1>7, <2>1 DEF Start, At
  <2>3. OneLevel("number", "start", None)'
    BY <1>1, <2>2, LevelIsTop
  <2>4. /\ Scanning(scan') /\ scan'.pb = <<>> /\ scan'.is_double = FALSE
        /\ scan'.case_len = 0
    BY <1>1, <2>2 DEF Scanning
  <2>5. text' = text /\ pos' = 0
    BY <1>1, <2>2 DEF Keep, Redo
  <2>6. SubSeq(text, 1, 0) = <<>>
    BY DEF IsNumeral
  <2>7. Upto(0) = <<>>
    BY <2>6 DEF Upto, Chars
  <2>8. Within_'
    BY <1>3, <2>3, <2>4, <2>5, <2>7 DEF Within_, AllNumber, Upto
  <2>9. QED
    BY <2>2, <2>5, <2>8 DEF Redo
<1>8. CASE Return
  <2>1. text' = text /\ UNCHANGED <<pos, scan>>
    BY <1>8 DEF Return
  <2>2. phase # "run"
    BY <1>8 DEF Return
  <2>3. err' # "success"
    BY <1>8, <2>2 DEF Return
  <2>4. stack' = stack
    BY <1>8, <2>3 DEF Return
  <2>5. Ahead'
    BY <1>1, <2>1, <2>4 DEF Ahead, OneLevel
  <2>6. QED
    BY <2>1, <2>3, <2>5
<1>9. EndOfChunk \/ EatWs \/ Start \/ Return
  BY <1>2 DEF Machine, At, Finish, Inf, Null, Boolean, Literal, Comment, Text, StringEscape,
     EscapeUnicode, Number, Array, ArrayAdd, ArraySep, ObjectFieldStart, ObjectFieldEnd,
     ObjectValue, ObjectValueAdd, ObjectSep
<1>10. QED
  BY <1>5, <1>6, <1>7, <1>8, <1>9

\* A number in progress: it goes on, or its value is made.
LEMMA WithinKeeps ==
    ASSUME IsNumeral(text), Within_, phase # "run" => err # "success", Machine
    PROVE  /\ text' = text
           /\ \/ Within_' /\ (phase' # "run" => err' # "success")
              \/ Behind' /\ phase' # "idle"
<1>1. Top.state = "number" /\ Top.saved = "start" /\ Depth = 0
  BY LevelIsTop DEF Within_
<1>2. Len(text) \in Nat \ {0} /\ pos \in 0 .. Len(text) /\ text \in Seq(STRING)
  BY NumeralBegins DEF Within_, IsNumeral
<1>3. Scanning(scan) /\ scan.pb = Upto(pos) /\ scan.is_double = FALSE
  BY DEF Within_
<1>4. CASE EndOfChunk
  <2>1. text' = text /\ UNCHANGED <<stack, pos, scan>>
    BY <1>3, <1>4 DEF EndOfChunk, Keep, Scanning
  <2>2. err' = "continue"
    BY <1>1, <1>4 DEF EndOfChunk
  <2>3. Within_'
    BY <2>1 DEF Within_, OneLevel, Upto, AllNumber
  <2>4. QED
    BY <2>1, <2>2, <2>3
<1>5. CASE Return
  <2>1. text' = text /\ UNCHANGED <<pos, scan>>
    BY <1>5 DEF Return
  <2>2. phase # "run"
    BY <1>5 DEF Return
  <2>3. err' # "success"
    BY <1>5, <2>2 DEF Return
  <2>4. stack' = stack
    BY <1>5, <2>3 DEF Return
  <2>5. Within_'
    BY <2>1, <2>4 DEF Within_, OneLevel, Upto, AllNumber
  <2>6. QED
    BY <2>1, <2>3, <2>5
<1>6. CASE Number
  <2>1. phase = "run" /\ text' = text
    BY <1>6 DEF Number, At, Keep
  <2>2. CASE c \in NumberChar
    <3>1. pos < Len(text) /\ c = text[pos + 1]
      <4>1. " " \notin NumberChar
        BY DEF NumberChar, Digit
      <4>2. /\ pos < Len(text) => c = text[pos + 1]
            /\ pos = Len(text) => c = " "
        BY <1>2, NextChar
      <4>3. pos < Len(text) \/ pos = Len(text)
        BY <1>2
      <4>4. QED
        BY <2>2, <4>1, <4>2, <4>3
    <3>2. /\ Advance /\ UNCHANGED <<stack, err>>
          /\ scan' = [scan EXCEPT !.pb = Append(@, <<c>>), !.case_len = @ + 1,
                         !.is_double = @ \/ c \in {".", "e"}]
      BY <2>2, <1>6 DEF Number
    <3>3. AllNumber(pos + 1)
      <4>1. \A i \in 1 .. pos : text[i] \in NumberChar
        BY DEF Within_, AllNumber
      <4>2. \A i \in 1 .. pos + 1 : i \in 1 .. pos \/ i = pos + 1
        BY <1>2
      <4>3. QED
        BY <2>2, <3>1, <4>1, <4>2 DEF AllNumber
    <3>4. c \notin {".", "e"}
      <4>1. pos + 1 \in DOMAIN text /\ \A i \in 1 .. pos + 1 : text[i] \in NumberChar
        BY <1>2, <3>1, <3>3 DEF AllNumber
      <4>2. QED
        BY <3>1, <4>1 DEF IsNumeral
    <3>5. /\ Scanning(scan') /\ scan'.pb = Append(Upto(pos), <<c>>)
          /\ scan'.is_double = FALSE /\ scan'.case_len = pos + 1
      <4>1. scan.case_len = pos
        BY <3>1 DEF Within_
      <4>2. scan' = Scan(Append(scan.pb, <<c>>), scan.st_pos, scan.quote,
                         scan.is_double \/ c \in {".", "e"}, scan.ucs, scan.hi,
                         scan.case_len + 1)
        <5> DEFINE x == <<c>>
                   e == c \in {".", "e"}
                   new(s) == Scan(Append(s.pb, x), s.st_pos, s.quote, s.is_double \/ e,
                                  s.ucs, s.hi, s.case_len + 1)
        <5>1. scan' = More(scan, x, e)
          BY <3>2 DEF More
        <5> HIDE DEF x, e
        <5>2. More(scan, x, e) = new(scan)
          BY <1>3, MoreScanned, Zenon
        <5>3. QED
          BY <5>1, <5>2 DEF x, e
      <4>3. QED
        BY <1>3, <3>4, <4>1, <4>2 DEF Scanning, Scan
    <3>6. Append(Upto(pos), <<c>>) = Upto(pos + 1)
      BY <1>2, <3>1, UptoNext
    <3>7. c # NUL
      BY <2>2 DEF NumberChar, Digit, NUL
    <3>8. pos' = pos + 1 /\ phase' = "run" /\ stack' = stack
      BY <3>2, <3>7 DEF Advance
    <3>9. pos' \in 0 .. Len(text)
      BY <1>2, <3>1, <3>8
    <3>10. Within_'
      BY <2>1, <3>3, <3>5, <3>6, <3>8, <3>9 DEF Within_, OneLevel, AllNumber, Upto
    <3>11. QED
      BY <2>1, <3>8, <3>10
  <2>3. CASE c \notin NumberChar
    <3>1. pos # 0
      BY <1>2, <2>3, NextChar DEF NumberChar
    <3>2. RunOf(pos)
      <4>1. pos < Len(text) => c = text[pos + 1]
        BY <1>2, NextChar
      <4>2. pos \in 1 .. Len(text)
        BY <1>2, <3>1
      <4>3. QED
        BY <2>3, <4>1, <4>2 DEF RunOf, Within_
    <3>3. ~(scan.pb # <<>> /\ scan.pb[1] = <<"-">> /\ scan.case_len = 1 /\ c = "i")
      <4>1. SUFFICES ASSUME scan.pb[1] = <<"-">>, scan.case_len = 1, c = "i"
                     PROVE  FALSE
        OBVIOUS
      <4>2. pos < Len(text) /\ c = text[pos + 1]
        BY <1>2, <4>1, NextChar
      <4>3. pos = 1
        BY <4>1, <4>2 DEF Within_
      <4>4. scan.pb[1] = <<text[1]>>
        BY <1>2, <1>3, <4>3, UptoAt
      <4>5. text[2] \in Digit
        BY <4>1, <4>4, NumeralBegins
      <4>6. QED
        BY <2>3, <4>2, <4>3, <4>5 DEF NumberChar
    <3>4. CASE Scans(scan.pb, scan.is_double)
      <4>1. Made(<<"int", scan.pb>>) /\ Redo
        BY <1>3, <1>6, <2>3, <3>3, <3>4 DEF Number
      <4>2. OneLevel("eatws", "finish", IntUpto(pos))'
        <5>1. <<"int", scan.pb>> = IntUpto(pos)
          BY <1>3 DEF IntUpto
        <5> DEFINE v == <<"int", scan.pb>>
        <5>2. OneLevel("number", "start", None) /\ Made(v)
          BY <4>1 DEF Within_
        <5> HIDE DEF v
        <5>3. stack' = <<Level("eatws", "finish", v)>>
          BY <5>2, LevelIsTop DEF OneLevel
        <5>4. IntUpto(pos)' = IntUpto(pos)
          BY <2>1, <4>1 DEF IntUpto, Upto, Redo
        <5>5. QED
          BY <5>1, <5>3, <5>4 DEF OneLevel, v
      <4>3. Behind'
        BY <2>1, <3>2, <4>1, <4>2 DEF Behind, RunOf, AllNumber, Redo
      <4>4. QED
        BY <2>1, <4>1, <4>3 DEF Redo
    <3>5. CASE ~Scans(scan.pb, scan.is_double)
      <4>1. Fail("number") /\ UNCHANGED scan
        BY <1>6, <2>3, <3>3, <3>5 DEF Number
      <4>2. Within_'
        BY <2>1, <4>1 DEF Within_, OneLevel, Upto, AllNumber, Fail
      <4>3. QED
        BY <2>1, <4>1, <4>2 DEF Fail
    <3>6. QED
      BY <3>4, <3>5
  <2>4. QED
    BY <2>2, <2>3
<1>7. EndOfChunk \/ Number \/ Return
  BY <1>1 DEF Machine, At, EatWs, Start, Finish, Inf, Null, Boolean, Literal, Comment, Text,
     StringEscape, EscapeUnicode, Array, ArrayAdd, ArraySep, ObjectFieldStart,
     ObjectFieldEnd, ObjectValue, ObjectValueAdd, ObjectSep
<1>8. QED
  BY <1>4, <1>5, <1>6, <1>7

\* Space and comments behind the value, and its return.
LEMMA BehindKeeps ==
    ASSUME Behind, phase = "idle" => err # "success", Machine
    PROVE  /\ text' = text
           /\ \/ Behind' /\ (phase' = "idle" => err' # "success")
              \/ Given'
<1> DEFINE States == {"eatws", "finish", "comment_start", "comment", "comment_eol",
                      "comment_end"}
<1>1. PICK k, st : RunOf(k) /\ OneLevel(st, "finish", IntUpto(k)) /\ st \in States
  BY DEF Behind
<1>2. Top.state = st /\ Top.saved = "finish" /\ Depth = 0 /\ Top.cur = IntUpto(k)
  BY <1>1, LevelIsTop
<1>3. ASSUME NEW s \in States, text' = text, OneLevel(s, "finish", IntUpto(k))'
      PROVE  Behind'
  BY <1>1, <1>3 DEF Behind, RunOf, AllNumber
<1>4. ASSUME text' = text, UNCHANGED stack PROVE Behind'
  <2>1. OneLevel(st, "finish", IntUpto(k))'
    BY <1>1, <1>4 DEF OneLevel, IntUpto, Upto
  <2>2. QED
    BY <1>1, <1>3, <1>4, <2>1
<1>5. ASSUME NEW s \in States, text' = text, Goto(s) PROVE Behind'
  <2>1. stack' = <<Level(s, "finish", IntUpto(k))>>
    <3> DEFINE v == IntUpto(k)
    <3>1. OneLevel(st, "finish", v)
      BY <1>1
    <3> HIDE DEF v
    <3>2. stack' = <<Level(s, "finish", v)>>
      BY <1>5, <3>1, LevelIsTop DEF OneLevel
    <3>3. QED
      BY <3>2 DEF v
  <2>2. OneLevel(s, "finish", IntUpto(k))'
    BY <1>5, <2>1 DEF OneLevel, IntUpto, Upto
  <2>3. QED
    BY <1>3, <1>5, <2>2
<1>6. CASE EndOfChunk
  BY <1>4, <1>6 DEF EndOfChunk, Keep
<1>7. CASE EatWs
  <2>1. text' = text /\ phase = "run"
    BY <1>7 DEF EatWs, Quiet, Keep, At
  <2>2. UNCHANGED stack \/ Goto("comment_start") \/ Goto("finish")
    BY <1>2, <1>7 DEF EatWs
  <2>3. phase' # "idle"
    BY <1>7, <2>1 DEF EatWs, Advance, Redo
  <2>4. QED
    BY <1>4, <1>5, <2>1, <2>2, <2>3
<1>8. CASE Finish
  <2>1. text' = text /\ Leave /\ UNCHANGED stack
    BY <1>2, <1>8 DEF Finish, Keep
  <2>2. QED
    BY <1>4, <2>1 DEF Leave
<1>9. CASE Comment
  <2>1. text' = text /\ phase = "run"
    BY <1>9 DEF Comment, Keep, At
  <2>2. UNCHANGED stack \/ \E s \in States : Goto(s)
    BY <1>9 DEF Comment, Fail
  <2>3. phase' # "idle"
    BY <1>9, <2>1 DEF Comment, Fail, Leave, Advance
  <2>4. QED
    BY <1>4, <1>5, <2>1, <2>2, <2>3
<1>10. CASE Return
  <2>1. text' = text /\ phase' = "idle"
    BY <1>10 DEF Return
  <2>2. CASE err' = "success"
    <3>1. ret' = IntUpto(k)
      BY <1>2, <1>10, <2>2 DEF Return
    <3>2. RunOf(k)' /\ ret' = IntUpto(k)'
      BY <1>1, <2>1, <3>1 DEF RunOf, AllNumber, IntUpto, Upto
    <3>3. QED
      BY <2>1, <2>2, <3>2 DEF Given
  <2>3. CASE err' # "success"
    <3>1. UNCHANGED stack
      BY <1>10, <2>3 DEF Return
    <3>2. QED
      BY <1>4, <2>1, <2>3, <3>1
  <2>4. QED
    BY <2>2, <2>3
<1>11. EndOfChunk \/ EatWs \/ Finish \/ Comment \/ Return
  BY <1>1, <1>2 DEF Machine, At, Start, Inf, Null, Boolean, Literal, Text, StringEscape,
     EscapeUnicode, Number, Array, ArrayAdd, ArraySep, ObjectFieldStart, ObjectFieldEnd,
     ObjectValue, ObjectValueAdd, ObjectSep
<1>12. QED
  BY <1>6, <1>7, <1>8, <1>9, <1>10, <1>11

\* Whatever step the parser takes on such a text.
LEMMA MachineReadsInt ==
    ASSUME IsNumeral(text), IntInv, Machine
    PROVE  text' = text /\ IntInv'
<1>1. CASE (phase # "run" => err # "success") /\ Ahead
  BY <1>1, AheadKeeps DEF IntInv
<1>2. CASE (phase # "run" => err # "success") /\ Within_
  <2>1. text' = text
    BY <1>2, WithinKeeps
  <2>2. \/ Within_' /\ (phase' # "run" => err' # "success")
        \/ Behind' /\ phase' # "idle"
    BY <1>2, WithinKeeps
  <2>3. QED
    BY <2>1, <2>2 DEF IntInv
<1>3. CASE (phase = "idle" => err # "success") /\ Behind
  BY <1>3, BehindKeeps DEF IntInv
<1>4. CASE Given
  <2>1. phase = "idle"
    BY <1>4 DEF Given
  <2>2. FALSE
    BY <2>1 DEF Machine, At, EndOfChunk, EatWs, Start, Finish, Inf, Null, Boolean, Literal,
       Comment, Text, StringEscape, EscapeUnicode, Number, Array, ArrayAdd, ArraySep,
       ObjectFieldStart, ObjectFieldEnd, ObjectValue, ObjectValueAdd, ObjectSep, Return
  <2>3. QED
    BY <2>2
<1>5. QED
  BY <1>1, <1>2, <1>3, <1>4 DEF IntInv

\* The end of the text, given to the parser.
LEMMA EndReadsInt ==
    ASSUME IsNumeral(text), IntInv, ParseEnd
    PROVE  text' = text /\ IntInv'
<1>1. /\ text' = text /\ pos' = pos /\ stack' = stack /\ phase' = "run"
      /\ phase = "idle" /\ err = "continue" /\ pos = Len(text)
      /\ scan' = [scan EXCEPT !.hi = <<>>, !.case_len = 0]
  BY DEF ParseEnd, Call
<1>2. CASE Ahead
  <2>1. Scanning(scan')
    BY <1>1, <1>2 DEF Ahead, Scanning
  <2>2. Ahead'
    BY <1>1, <1>2, <2>1 DEF Ahead, OneLevel
  <2>3. QED
    BY <1>1, <2>2 DEF IntInv
<1>3. CASE Within_
  <2>1. Scanning(scan') /\ scan'.pb = scan.pb /\ scan'.is_double = scan.is_double
    BY <1>1, <1>3 DEF Within_, Scanning
  <2>2. Len(text) \in Nat
    BY NumeralBegins
  <2>3. Within_'
    BY <1>1, <1>3, <2>1, <2>2 DEF Within_, OneLevel, AllNumber, Upto
  <2>4. QED
    BY <1>1, <2>3 DEF IntInv
<1>4. CASE Behind
  <2>1. Behind'
    BY <1>1, <1>4 DEF Behind, OneLevel, RunOf, AllNumber, IntUpto, Upto
  <2>2. QED
    BY <1>1, <2>1 DEF IntInv
<1>5. QED
  BY <1>1, <1>2, <1>3, <1>4 DEF IntInv, Given

\* The integer the characters up to k begin with is the one text begins with.
LEMMA FrontReads ==
    ASSUME IsNumeral(text), NEW k, RunOf(k)
    PROVE  LET p == SubSeq(text, 1, k)
           IN  /\ p \in Seq(STRING) /\ IsInteger(p)
               /\ Exact(p) = Exact(text)
               /\ Misread(p) => Misread(text)
<1> DEFINE p == SubSeq(text, 1, k)
           u == Unsigned(text)
           v == Unsigned(p)
<1>1. /\ text \in Seq(STRING) /\ IsInteger(text) /\ Len(text) \in Nat \ {0}
      /\ k \in 1 .. Len(text)
  BY NumeralBegins DEF IsNumeral, RunOf
<1>2. p \in Seq(STRING) /\ Len(p) = k /\ \A i \in 1 .. k : p[i] = text[i]
  BY <1>1
<1> HIDE DEF p
<1>3. Negative(p) <=> Negative(text)
  <2>1. p # <<>> /\ text # <<>> /\ p[1] = text[1]
    BY <1>1, <1>2, EmptySeq
  <2>2. QED
    BY <2>1 DEF Negative
<1>4. PICK o \in {0, 1} :
         /\ u \in Seq(STRING) /\ v \in Seq(STRING)
         /\ Len(u) = Len(text) - o /\ Len(v) = k - o
         /\ \A i \in 1 .. Len(text) - o : u[i] = text[i + o]
         /\ \A i \in 1 .. k - o : v[i] = text[i + o]
  <2>1. CASE Negative(text)
    <3>1. u = Tail(text) /\ v = Tail(p) /\ text # <<>> /\ p # <<>>
      BY <1>3, <2>1 DEF u, v, Unsigned, Negative
    <3>2. /\ u \in Seq(STRING) /\ Len(u) = Len(text) - 1
          /\ \A i \in 1 .. Len(text) - 1 : u[i] = text[i + 1]
      BY <1>1, <3>1, HeadTailProperties
    <3>3. /\ v \in Seq(STRING) /\ Len(v) = k - 1
          /\ \A i \in 1 .. k - 1 : v[i] = p[i + 1]
      BY <1>1, <1>2, <3>1, HeadTailProperties
    <3>4. \A i \in 1 .. k - 1 : i + 1 \in 1 .. k
      BY <1>1
    <3>5. \A i \in 1 .. k - 1 : v[i] = text[i + 1]
      BY <1>2, <3>3, <3>4
    <3>6. QED
      BY <3>2, <3>3, <3>5
  <2>2. CASE ~Negative(text)
    <3>1. u = text /\ v = p
      BY <1>3, <2>2 DEF u, v, Unsigned
    <3>2. /\ \A i \in 1 .. Len(text) - 0 : u[i] = text[i + 0]
          /\ \A i \in 1 .. k - 0 : v[i] = text[i + 0]
      BY <1>1, <1>2, <3>1
    <3>3. Len(u) = Len(text) - 0 /\ Len(v) = k - 0
      BY <1>1, <1>2, <3>1
    <3>4. QED
      BY <1>1, <1>2, <3>1, <3>2, <3>3
  <2>3. QED
    BY <2>1, <2>2
<1> HIDE DEF u, v
<1>5. Len(u) \in Nat /\ Len(v) \in Nat /\ k \in Nat /\ o \in Nat
  BY <1>1, <1>4, LenProperties
<1>6. PICK m : DigitsUpto(u, m)
  BY <1>5, LeadingExists
<1>7. m \in 0 .. Len(v)
  <2>1. ASSUME m > Len(v) PROVE FALSE
    <3> DEFINE j == k - o + 1
    <3>1. m \in 0 .. Len(u)
      BY <1>6 DEF DigitsUpto
    <3>2. j \in 1 .. m /\ j \in 1 .. Len(text) - o /\ j + o = k + 1 /\ k < Len(text)
      BY <1>1, <1>4, <1>5, <2>1, <3>1
    <3> HIDE DEF j
    <3>3. u[j] \in Range(Figures)
      BY <1>6, <3>2 DEF DigitsUpto
    <3>4. u[j] = text[k + 1]
      BY <1>4, <3>2
    <3>5. text[k + 1] \in NumberChar
      BY <3>3, <3>4, DigitsAreFigures DEF NumberChar
    <3>6. QED
      BY <3>2, <3>5 DEF RunOf
  <2>2. m \in Nat
    BY <1>6 DEF DigitsUpto
  <2>3. QED
    BY <1>5, <2>1, <2>2
<1>8. \A i \in 1 .. Len(v) : v[i] = u[i]
  <2>1. TAKE i \in 1 .. Len(v)
  <2>2. i \in 1 .. k - o /\ i \in 1 .. Len(text) - o
    BY <1>1, <1>4, <1>5
  <2>3. QED
    BY <1>4, <2>2
<1>9. DigitsUpto(v, m)
  <2>1. \A i \in 1 .. m : i \in 1 .. Len(v)
    BY <1>5, <1>7
  <2>2. \A i \in 1 .. m : v[i] \in Range(Figures)
    BY <1>6, <1>8, <2>1 DEF DigitsUpto
  <2>3. m < Len(v) => m + 1 \in 1 .. Len(v) /\ m < Len(u)
    BY <1>1, <1>4, <1>5, <1>7
  <2>4. m < Len(v) => v[m + 1] \notin Range(Figures)
    BY <1>6, <1>8, <2>3 DEF DigitsUpto
  <2>5. QED
    BY <1>7, <2>2, <2>4 DEF DigitsUpto
<1>10. Leading(u) = Leading(v)
  <2>1. /\ Leading(u) \in Seq(Range(Figures)) /\ Len(Leading(u)) = m
        /\ \A i \in 1 .. m : Leading(u)[i] = u[i]
    BY <1>5, <1>6, LeadingIs
  <2>2. /\ Leading(v) \in Seq(Range(Figures)) /\ Len(Leading(v)) = m
        /\ \A i \in 1 .. m : Leading(v)[i] = v[i]
    BY <1>5, <1>9, LeadingIs
  <2>3. \A i \in 1 .. m : u[i] = v[i]
    BY <1>5, <1>7, <1>8
  <2>4. QED
    BY <2>1, <2>2, <2>3, SeqEqual
<1>11. IsInteger(p)
  BY <1>1, <1>10 DEF IsInteger, u, v
<1>12. Exact(p) = Exact(text)
  BY <1>3, <1>10 DEF Exact, u, v
<1>13. Misread(p) => Misread(text)
  <2>1. Len(Leading(v)) < Len(v) => Len(Leading(u)) < Len(u)
    <3>1. Len(Leading(v)) = m
      BY <1>5, <1>9, LeadingIs
    <3>2. Len(v) <= Len(u) /\ m \in Nat
      BY <1>1, <1>4, <1>5, <1>7
    <3>3. QED
      BY <1>5, <1>10, <3>1, <3>2
  <2>2. QED
    BY <1>12, <2>1 DEF Misread, u, v
<1>14. QED
  BY <1>2, <1>11, <1>12, <1>13 DEF p

\* What the digits read mean.
LEMMA IntMeans ==
    ASSUME text \in Seq(STRING), NEW k \in 0 .. Len(text), NEW lib
    PROVE  Meaning(lib, IntUpto(k)) = <<"num", ParseInt64(lib, SubSeq(text, 1, k))>>
<1> DEFINE p == SubSeq(text, 1, k)
<1>1. p \in Seq(STRING)
  BY LenProperties
<1>2. Upto(k) \in Seq(Seq(STRING)) /\ AsText(Upto(k)) = p
  <2> HIDE DEF p
  <2>1. Len(p) \in Nat /\ DOMAIN p = 1 .. Len(p) /\ \A i \in 1 .. Len(p) : p[i] \in STRING
    BY <1>1
  <2>2. p = [i \in 1 .. Len(p) |-> p[i]]
    BY <1>1, <2>1
  <2>3. Chars(p) = [i \in 1 .. Len(p) |-> <<p[i]>>]
    BY <2>1 DEF Chars
  <2>4. Chars(p) \in Seq(Seq(STRING))
    BY <2>1, <2>3
  <2>5. AsText(Chars(p)) = [i \in 1 .. Len(p) |-> p[i]]
    BY <2>3 DEF AsText, Plain
  <2>6. QED
    BY <2>2, <2>4, <2>5 DEF Upto, p
<1> DEFINE v == Upto(k)
           w == IntUpto(k)
<1>3. w = <<"int", v>> /\ v \in Seq(Seq(STRING))
  BY <1>2 DEF IntUpto
<1> HIDE DEF v, w
<1>4. w # Hole /\ w[1] = "int" /\ w[2] = v
  <2>1. <<"int", v>> \in {"int"} \X Seq(Seq(STRING))
    BY <1>3
  <2>2. QED
    BY <1>3, <2>1, NullAssumption
<1>5. ~Holds(w)
  BY <1>4 DEF Holds
<1>6. Meaning(lib, w) = ScalarMeaning(lib, w)
  BY <1>5 DEF Meaning
<1>7. ScalarMeaning(lib, w) = <<"num", ParseInt64(lib, AsText(v))>>
  BY <1>4 DEF ScalarMeaning
<1>8. QED
  BY <1>2, <1>6, <1>7 DEF v, w

-----------------------------------------------------------------------------
(* The whole way of a text of the server.                                  *)

AtRest == /\ text = <<>> /\ pos = 0 /\ phase = "idle" /\ stack = <<Fresh>>
          /\ obj = None /\ scan = Clean

PrintInv == /\ doing \in {"edit", "print"} => AtRest
            /\ doing = "numeral" => IsNumeral(text) /\ IntInv
            /\ phase = "idle" => obj = None

\* No value is on its way between two calls.
LEMMA MachineEndsClean ==
    ASSUME Machine, phase = "idle" => obj = None
    PROVE  phase' = "idle" => obj' = None
<1>1. CASE Return
  BY <1>1 DEF Return
<1>2. CASE ~Return
  <2>1. phase \in {"run"} /\ (phase' = phase \/ phase' \in {"out", "eof", "run"})
    BY <1>2 DEF Machine, At, EndOfChunk, EatWs, Start, Finish, Inf, Null, Boolean, Literal,
       Comment, Text, StringEscape, EscapeUnicode, Number, Array, ArrayAdd, ArraySep,
       ObjectFieldStart, ObjectFieldEnd, ObjectValue, ObjectValueAdd, ObjectSep,
       Advance, Redo, Leave, Fail, Descend
  <2>2. QED
    BY <2>1
<1>3. QED
  BY <1>1, <1>2

\* The parser is at rest while the client edits and prints.
LEMMA PrintInvHolds == PrintSpec => []PrintInv
<1>1. PrintInit => PrintInv
  BY DEF PrintInit, Init, PrintInv, AtRest
<1>2. PrintInv /\ [PrintNext]_allVars => PrintInv'
  <2> SUFFICES ASSUME PrintInv, [PrintNext]_allVars PROVE PrintInv'
    OBVIOUS
  <2>1. CASE EditArray \/ ToJsonString \/ Write
    BY <2>1 DEF EditArray, ToJsonString, Write, vars, PrintInv, AtRest
  <2>2. CASE ReadBack
    BY <2>2 DEF ReadBack, Call, PrintInv
  <2>3. CASE ReadNumeral
    <3>1. AtRest /\ doing' = "numeral"
      BY <2>3 DEF ReadNumeral, PrintInv
    <3>2. IsNumeral(text')
      BY <2>3, NumeralsAssumption DEF ReadNumeral
    <3>3. /\ pos' = 0 /\ phase' = "run" /\ stack' = <<Fresh>>
          /\ scan' = [Clean EXCEPT !.hi = <<>>, !.case_len = 0]
      BY <2>3, <3>1 DEF ReadNumeral, Call, AtRest
    <3>4. OneLevel("eatws", "start", None)'
      BY <3>3 DEF OneLevel, Fresh, Level
    <3>5. Scanning(scan')
      BY <3>3 DEF Scanning, Clean
    <3>6. Ahead'
      BY <3>3, <3>4, <3>5 DEF Ahead
    <3>7. QED
      BY <3>1, <3>2, <3>3, <3>6 DEF PrintInv, IntInv
  <2>4. CASE Read
    <3>1. doing' = doing /\ doing \in {"read", "numeral"}
      BY <2>4 DEF Read, Reading, printVars
    <3>2. CASE Machine
      <4>1. phase' = "idle" => obj' = None
        BY <3>2, MachineEndsClean DEF PrintInv
      <4>2. doing = "numeral" => text' = text /\ IntInv'
        BY <3>2, MachineReadsInt DEF PrintInv
      <4>3. QED
        BY <3>1, <4>1, <4>2 DEF PrintInv
    <3>3. CASE ParseEnd
      <4>1. phase' = "run"
        BY <3>3 DEF ParseEnd, Call
      <4>2. doing = "numeral" => text' = text /\ IntInv'
        BY <3>3, EndReadsInt DEF PrintInv
      <4>3. QED
        BY <3>1, <4>1, <4>2 DEF PrintInv
    <3>4. QED
      BY <2>4, <3>2, <3>3 DEF Read
  <2>5. CASE Done
    BY <2>5 DEF Done, HasRead, PrintInv, AtRest
  <2>6. CASE UNCHANGED allVars
    BY <2>6 DEF allVars, vars, printVars, PrintInv, AtRest, IntInv, Ahead, Within_, Behind,
       Given, OneLevel, RunOf, AllNumber, IntUpto, Upto
  <2>7. QED
    BY <2>1, <2>2, <2>3, <2>4, <2>5, <2>6 DEF PrintNext
<1>3. QED
  BY <1>1, <1>2, PTL DEF PrintSpec

\* "If the value of too big or too small to fit into 32-bit, INT32_MAX or
\* INT32_MIN are returned" (json_object.h:493-495): whatever text that begins with
\* an integer a server sends, and whatever follows it there, json_tokener hands on
\* its digits and ag_json_get_int returns the nearest int.
THEOREM ServerIntIsNearest == PrintSpec => []GetIntIsNearest
<1>1. PrintInv => GetIntIsNearest
  <2> SUFFICES ASSUME PrintInv, doing = "numeral", HasRead, err = "success",
                      NEW lib \in Libraries, lib = "wraps" => ~Misread(text)
               PROVE  /\ AgGetInt(lib, Meaning(lib, ret)) = Nearest(text)
                      /\ GetInt(lib, <<"string", text>>) = Nearest(text)
    BY DEF GetIntIsNearest
  <2>1. IsNumeral(text) /\ text \in Seq(STRING) /\ IsInteger(text)
    BY DEF PrintInv, IsNumeral
  <2>2. PICK k : RunOf(k) /\ ret = IntUpto(k)
    BY DEF PrintInv, IntInv, HasRead, Given
  <2> DEFINE p == SubSeq(text, 1, k)
  <2>3. /\ p \in Seq(STRING) /\ IsInteger(p) /\ Exact(p) = Exact(text)
        /\ Misread(p) => Misread(text)
    BY <2>1, <2>2, FrontReads
  <2>4. k \in 0 .. Len(text)
    BY <2>2 DEF RunOf
  <2>5. Meaning(lib, ret) = <<"num", ParseInt64(lib, p)>>
    BY <2>1, <2>2, <2>4, IntMeans
  <2> HIDE DEF p
  <2>6. AgGetInt(lib, <<"num", ParseInt64(lib, p)>>) = Nearest(p)
    BY <2>3, IntIsNearest
  <2>7. GetInt(lib, <<"string", text>>) = Nearest(text)
    BY <2>1, IntIsNearest
  <2>8. Nearest(p) = Nearest(text)
    BY <2>3 DEF Nearest
  <2>9. QED
    BY <2>5, <2>6, <2>7, <2>8
<1>2. QED
  BY <1>1, PrintInvHolds, PTL

-----------------------------------------------------------------------------
(* What is printed: the calls to the print buffer, and the text they make. *)

CallSeq == Seq([op : {"append"}, s : Seq(STRING)])

\* t spells x: the text of the calls t is x.  Spells is the least such relation.
Closed(R) ==
    /\ << <<>>, <<>> >> \in R
    /\ \A t \in CallSeq : \A x, y \in Seq(STRING) :
          <<t, x>> \in R => <<Put_(y) \o t, y \o x>> \in R

Spells(t, x) ==
    /\ t \in CallSeq /\ x \in Seq(STRING)
    /\ \A R \in SUBSET (CallSeq \X Seq(STRING)) : Closed(R) => <<t, x>> \in R

\* No calls spell nothing.
LEMMA SpellsNothing == Spells(<<>>, <<>>)
BY DEF Spells, Closed, CallSeq

\* A call to put y is one of those calls.
LEMMA PutIsCall ==
    ASSUME NEW y \in Seq(STRING), NEW t \in CallSeq
    PROVE  /\ Put_(y) \in CallSeq /\ Len(Put_(y)) = 1
           /\ Put_(y) \o t \in CallSeq /\ t \o Put_(y) \in CallSeq
           /\ Put_(y) \o t # <<>>
           /\ Head(Put_(y) \o t) = [op |-> "append", s |-> y]
           /\ Tail(Put_(y) \o t) = t
<1> DEFINE C == [op : {"append"}, s : Seq(STRING)]
           e == [op |-> "append", s |-> y]
<1>1. e \in C
  OBVIOUS
<1>2. t \in Seq(C) /\ Put_(y) = <<e>>
  BY DEF CallSeq, Put_
<1> HIDE DEF C, e
<1>3. /\ <<e>> \in Seq(C) /\ <<e>> \o t \in Seq(C) /\ t \o <<e>> \in Seq(C)
      /\ <<e>> \o t # <<>> /\ Head(<<e>> \o t) = e /\ Tail(<<e>> \o t) = t
      /\ Len(<<e>>) = 1
  <2>1. <<e>> \in Seq(C) /\ Len(<<e>>) = 1 /\ <<e>>[1] = e
    BY <1>1
  <2> DEFINE u == <<e>> \o t
  <2>2. /\ u \in Seq(C) /\ Len(u) = 1 + Len(t)
        /\ \A i \in 1 .. 1 + Len(t) : u[i] = IF i <= 1 THEN e ELSE t[i - 1]
    <3> DEFINE a == <<e>>
    <3> HIDE DEF a
    <3>1. a \in Seq(C) /\ Len(a) = 1 /\ a[1] = e
      BY <2>1 DEF a
    <3>2. /\ a \o t \in Seq(C) /\ Len(a \o t) = Len(a) + Len(t)
          /\ \A i \in 1 .. Len(a) + Len(t) :
                 (a \o t)[i] = IF i <= Len(a) THEN a[i] ELSE t[i - Len(a)]
      BY <1>2, <3>1, ConcatProperties
    <3>3. Len(t) \in Nat
      BY <1>2, LenProperties
    <3>4. QED
      BY <3>1, <3>2, <3>3 DEF a
  <2>3. Len(t) \in Nat
    BY <1>2, LenProperties
  <2>4. t \o <<e>> \in Seq(C)
    BY <1>2, <2>1, ConcatProperties
  <2> HIDE DEF u
  <2>5. u # <<>> /\ u[1] = e
    BY <2>2, <2>3
  <2>6. Head(u) = e
    BY <2>2, <2>5
  <2>7. /\ Tail(u) \in Seq(C) /\ Len(Tail(u)) = Len(t)
        /\ \A i \in 1 .. Len(t) : Tail(u)[i] = t[i]
    <3>1. /\ Tail(u) \in Seq(C) /\ Len(Tail(u)) = Len(u) - 1
          /\ \A i \in 1 .. Len(Tail(u)) : Tail(u)[i] = u[i + 1]
      BY <2>2, <2>5, HeadTailProperties
    <3>2. QED
      BY <2>2, <2>3, <3>1
  <2>8. Tail(u) = t
    BY <1>2, <2>7, SeqEqual
  <2>9. QED
    BY <2>1, <2>2, <2>4, <2>5, <2>6, <2>8 DEF u
<1>4. QED
  BY <1>2, <1>3 DEF CallSeq, C, e

\* A call more in front.
LEMMA SpellsMore ==
    ASSUME NEW t, NEW x, Spells(t, x), NEW y \in Seq(STRING)
    PROVE  Spells(Put_(y) \o t, y \o x)
<1>1. t \in CallSeq /\ x \in Seq(STRING)
  BY DEF Spells
<1>2. Put_(y) \o t \in CallSeq /\ y \o x \in Seq(STRING)
  BY <1>1, PutIsCall
<1>3. ASSUME NEW R \in SUBSET (CallSeq \X Seq(STRING)), Closed(R)
      PROVE  <<Put_(y) \o t, y \o x>> \in R
  BY <1>1, <1>3 DEF Spells, Closed
<1>4. QED
  BY <1>2, <1>3 DEF Spells

\* The calls t are one, and others that spell what is left of x.
OneAndMore(t, x) ==
    \E u \in CallSeq, y, z \in Seq(STRING) :
        Spells(u, z) /\ t = Put_(y) \o u /\ x = y \o z

\* Calls that spell x are none, or one and others.
LEMMA SpellsFirst ==
    ASSUME NEW t, NEW x, Spells(t, x)
    PROVE  (t = <<>> /\ x = <<>>) \/ OneAndMore(t, x)
<1> DEFINE P(v, w) == (v = <<>> /\ w = <<>>) \/ OneAndMore(v, w)
           R == {p \in CallSeq \X Seq(STRING) : Spells(p[1], p[2]) /\ P(p[1], p[2])}
<1>1. << <<>>, <<>> >> \in R
  BY SpellsNothing DEF Spells
<1>2. ASSUME NEW v \in CallSeq, NEW w \in Seq(STRING), NEW y \in Seq(STRING), <<v, w>> \in R
      PROVE  <<Put_(y) \o v, y \o w>> \in R
  <2>1. Spells(v, w)
    BY <1>2
  <2>2. Spells(Put_(y) \o v, y \o w)
    BY <2>1, SpellsMore
  <2>3. Put_(y) \o v \in CallSeq /\ y \o w \in Seq(STRING)
    BY <2>2 DEF Spells
  <2>4. P(Put_(y) \o v, y \o w)
    BY <1>2, <2>1 DEF OneAndMore
  <2> HIDE DEF P
  <2>5. QED
    BY <2>2, <2>3, <2>4
<1> HIDE DEF P
<1>3. R \in SUBSET (CallSeq \X Seq(STRING))
  OBVIOUS
<1>4. Closed(R)
  <2> HIDE DEF R
  <2>1. QED
    BY <1>1, <1>2 DEF Closed
<1>5. <<t, x>> \in R
  <2> HIDE DEF R
  <2>1. QED
    BY <1>3, <1>4 DEF Spells
<1>6. P(t, x)
  BY <1>5
<1>7. QED
  BY <1>6 DEF P

\* A call more at the end.
LEMMA SpellsThen ==
    ASSUME NEW t, NEW x, Spells(t, x), NEW y \in Seq(STRING)
    PROVE  Spells(t \o Put_(y), x \o y)
<1> DEFINE R == {p \in CallSeq \X Seq(STRING) : Spells(p[1] \o Put_(y), p[2] \o y)}
<1>1. << <<>>, <<>> >> \in R
  <2>1. Spells(Put_(y) \o <<>>, y \o <<>>)
    BY SpellsNothing, SpellsMore
  <2>2. <<>> \in CallSeq /\ <<>> \in Seq(STRING)
    BY DEF CallSeq
  <2>3. /\ Put_(y) \o <<>> = Put_(y) /\ <<>> \o Put_(y) = Put_(y)
        /\ y \o <<>> = y /\ <<>> \o y = y
    <3>1. Put_(y) \in CallSeq
      BY <2>2, PutIsCall
    <3>2. QED
      BY <3>1, ConcatEmptySeq DEF CallSeq
  <2>4. QED
    BY <2>1, <2>2, <2>3
<1>2. ASSUME NEW v \in CallSeq, NEW w \in Seq(STRING), NEW z \in Seq(STRING), <<v, w>> \in R
      PROVE  <<Put_(z) \o v, z \o w>> \in R
  <2>1. Spells(v \o Put_(y), w \o y)
    BY <1>2
  <2>2. Spells(Put_(z) \o (v \o Put_(y)), z \o (w \o y))
    BY <2>1, SpellsMore
  <2>3. Put_(z) \o v \in CallSeq /\ z \o w \in Seq(STRING)
    BY PutIsCall
  <2>4. (Put_(z) \o v) \o Put_(y) = Put_(z) \o (v \o Put_(y))
    <3>1. Put_(z) \in CallSeq /\ Put_(y) \in CallSeq
      BY PutIsCall
    <3> DEFINE C == [op : {"append"}, s : Seq(STRING)]
               a == Put_(z)
               b == Put_(y)
    <3>2. a \in Seq(C) /\ v \in Seq(C) /\ b \in Seq(C)
      BY <3>1 DEF CallSeq
    <3> HIDE DEF C, a, b
    <3>3. (a \o v) \o b = a \o (v \o b)
      BY <3>2, ConcatAssociative, SMTT(30)
    <3>4. QED
      BY <3>3 DEF a, b
  <2>5. (z \o w) \o y = z \o (w \o y)
    BY ConcatAssociative
  <2>6. QED
    BY <2>2, <2>3, <2>4, <2>5
<1>3. R \in SUBSET (CallSeq \X Seq(STRING))
  OBVIOUS
<1>4. Closed(R)
  <2> HIDE DEF R
  <2>1. QED
    BY <1>1, <1>2 DEF Closed
<1>5. <<t, x>> \in R
  <2> HIDE DEF R
  <2>1. QED
    BY <1>3, <1>4 DEF Spells
<1>6. QED
  BY <1>5

-----------------------------------------------------------------------------
(* What is written for a string.                                           *)

\* The letters, and the characters they stand for.
LEMMA NamedBack ==
    ASSUME NEW x \in DOMAIN Named
    PROVE  /\ Named[x] \in {"\"", "\\", "/"} \cup DOMAIN Control
           /\ x = IF Named[x] \in DOMAIN Control THEN Control[Named[x]] ELSE Named[x]
           /\ Named[x] \in STRING /\ Named[x] # "u" /\ x # "u" /\ Named[x] # NUL
<1>1. DOMAIN Letter = {"BS", "LF", "CR", "HT", "FF"}
  BY DEF Letter
<1>2. DOMAIN Named = {"\"", "\\", "/"} \cup {"BS", "LF", "CR", "HT", "FF"}
  BY <1>1, Zenon DEF Named
<1>3. DOMAIN Control = {"b", "n", "r", "t", "f"}
  BY DEF Control
<1>4. {"\"", "\\", "/", "b", "n", "r", "t", "f"} \subseteq STRING
  BY StringsAssumption DEF HexChar
<1>5. CASE x \in {"\"", "\\", "/"}
  <2>1. Named[x] = x
    BY <1>1, <1>5 DEF Named
  <2>2. x \in STRING
    BY <1>4, <1>5
  <2>3. x \notin DOMAIN Control /\ x # "u" /\ x # "NUL"
    BY <1>3, <1>5
  <2>4. QED
    BY <1>5, <2>1, <2>2, <2>3, Zenon DEF NUL
<1>6. CASE x \in {"BS", "LF", "CR", "HT", "FF"}
  <2>1. Named[x] = Letter[x]
    BY <1>1, <1>2, <1>6 DEF Named
  <2>2. Letter[x] \in DOMAIN Control /\ Control[Letter[x]] = x
    BY <1>3, <1>6 DEF Letter, Control
  <2>3. Letter[x] \in {"b", "n", "r", "t", "f"}
    BY <1>3, <2>2
  <2>4. Letter[x] \in STRING
    BY <1>4, <2>3
  <2>5. Letter[x] # "u" /\ Letter[x] # "NUL"
    BY <2>3
  <2>6. x # "u"
    BY <1>6
  <2>7. QED
    BY <2>1, <2>2, <2>4, <2>5, <2>6, Zenon DEF NUL
<1>7. QED
  BY <1>2, <1>5, <1>6

\* What is written for the character e.
Unit(e) == IF Escaped(e) = <<>> THEN e ELSE Escaped(e)

\* A character is written as it is, or a letter for it, or its code unit.
AsItIs(e)    == /\ Escaped(e) = <<>> /\ e \in Seq(STRING) /\ e = <<e[1]>>
                /\ e[1] \notin {"\"", "\\", NUL}
AsLetter(e)  == /\ e = <<e[1]>> /\ e[1] \in DOMAIN Named
                /\ Escaped(e) = <<"\\", Named[e[1]]>>
AsUnit(e, u) == /\ u \in UnitsBelow /\ e = <<"u">> \o u
                /\ Escaped(e) = <<"\\", "u">> \o u

\* The three ways a character can be written, and no other.
LEMMA CharIsWritten ==
    ASSUME NEW e \in Seq(STRING), IsChar(e)
    PROVE  /\ AsItIs(e) \/ AsLetter(e) \/ \E u : AsUnit(e, u)
           /\ Escaped(e) = <<>> <=> AsItIs(e)
<1>1. Len(e) \in Nat \ {0} /\ e # <<>>
  BY LenProperties, EmptySeq DEF IsChar
<1>2. "u" \notin DOMAIN Named
  BY NamedBack
<1>3. {"\"", "\\"} \subseteq DOMAIN Named
  BY DEF Named
<1>4. \A u \in UnitsBelow : Len(u) \in Nat \ {0}
  BY UnitsAssumption, HexAssumption
<1>5. CASE Len(e) = 1
  <2>1. e = <<e[1]>> /\ e[1] # NUL
    BY <1>1, <1>5 DEF IsChar
  <2>2. ~(Len(e) > 1)
    BY <1>5
  <2>3. CASE e[1] \in DOMAIN Named
    <3>1. Escaped(e) = <<"\\", Named[e[1]]>>
      BY <2>3 DEF Escaped
    <3>2. Escaped(e) # <<>>
      BY <3>1
    <3>3. QED
      BY <2>1, <2>3, <3>1, <3>2 DEF AsLetter, AsItIs
  <2>4. CASE e[1] \notin DOMAIN Named
    <3>1. Escaped(e) = <<>>
      BY <2>2, <2>4 DEF Escaped
    <3>2. QED
      BY <1>3, <2>1, <2>4, <3>1 DEF AsItIs
  <2>5. QED
    BY <2>3, <2>4
<1>6. CASE Len(e) # 1
  <2> DEFINE u == Tail(e)
  <2>1. e[1] = "u" /\ u \in UnitsBelow /\ Len(e) > 1
    BY <1>1, <1>6 DEF IsChar
  <2>2. e[1] \notin DOMAIN Named
    BY <1>2, <2>1
  <2>3. Escaped(e) = <<"\\", "u">> \o u
    BY <2>1, <2>2 DEF Escaped
  <2>4. e = <<"u">> \o u
    <3>1. SubSeq(e, 1, Len(e)) = <<e[1]>> \o SubSeq(e, 2, Len(e))
      <4>1. 1 \in 1 .. Len(e) /\ Len(e) \in 1 .. Len(e)
        BY <1>1
      <4>2. SubSeq(e, 1, Len(e)) = <<e[1]>> \o SubSeq(e, 1 + 1, Len(e))
        BY <4>1, SubSeqRecursiveFirst
      <4>3. QED
        BY <4>2
    <3>2. SubSeq(e, 1, Len(e)) = e
      BY SubSeqFull
    <3>3. Tail(e) = SubSeq(e, 2, Len(e))
      BY <1>1, TailIsSubSeq
    <3>4. QED
      BY <2>1, <3>1, <3>2, <3>3
  <2> HIDE DEF u
  <2>5. Escaped(e) # <<>>
    <3>1. u \in Seq(HexChar \ {NUL})
      BY <2>1, UnitsAssumption
    <3> DEFINE S == HexChar \cup {"\\", "u"}
               a == <<"\\", "u">>
    <3>2. u \in Seq(S)
      <4>1. HexChar \ {NUL} \subseteq S
        OBVIOUS
      <4> HIDE DEF S
      <4>2. QED
        BY <3>1, <4>1, SeqMonotonic
    <3>3. a \in Seq(S) /\ a # <<>>
      <4>1. "\\" \in S /\ "u" \in S
        OBVIOUS
      <4> HIDE DEF S
      <4>2. QED
        BY <4>1
    <3> HIDE DEF S, a
    <3>4. a \o u # <<>>
      BY <3>2, <3>3, ConcatEqualIffEmpty
    <3>5. QED
      BY <2>3, <3>4 DEF a
  <2>6. QED
    BY <2>1, <2>3, <2>4, <2>5 DEF AsUnit, AsItIs
<1>7. QED
  BY <1>5, <1>6

\* So something is written, and no 0.
LEMMA UnitIs ==
    ASSUME NEW e \in Seq(STRING), IsChar(e)
    PROVE  /\ Unit(e) \in Seq(STRING \ {NUL}) /\ Len(Unit(e)) \in Nat \ {0}
           /\ Unit(e) \in Seq(STRING)
<1>1. /\ "\\" \in STRING \ {NUL} /\ "u" \in STRING \ {NUL}
      /\ HexChar \ {NUL} \subseteq STRING \ {NUL}
  BY StringsAssumption DEF NUL
<1> DEFINE T == STRING \ {NUL}
<1>2. ASSUME Unit(e) \in Seq(T), Unit(e) # <<>>
      PROVE  Unit(e) \in Seq(STRING) /\ Len(Unit(e)) \in Nat \ {0}
  <2>1. T \subseteq STRING
    OBVIOUS
  <2>2. Unit(e) \in Seq(STRING)
    BY <1>2, <2>1, SeqMonotonic
  <2> HIDE DEF T
  <2>3. QED
    BY <1>2, <2>2, LenProperties, EmptySeq
<1>3. CASE AsItIs(e)
  <2>1. Unit(e) = e /\ e = <<e[1]>>
    BY <1>3 DEF Unit, AsItIs
  <2>2. e[1] \in T
    <3>1. 1 \in 1 .. Len(e)
      BY LenProperties, EmptySeq DEF IsChar
    <3>2. e[1] \in STRING
      BY <3>1, ElementOfSeq
    <3>3. QED
      BY <1>3, <3>2 DEF AsItIs
  <2> DEFINE x == e[1]
  <2>3. <<x>> \in Seq(T) /\ <<x>> # <<>>
    <3>1. x \in T
      BY <2>2
    <3> HIDE DEF T, x
    <3>2. QED
      BY <3>1
  <2>4. QED
    BY <1>2, <2>1, <2>3
<1>4. CASE AsLetter(e)
  <2> DEFINE y == Named[e[1]]
  <2>1. y \in T
    BY <1>4, NamedBack DEF AsLetter
  <2> HIDE DEF y
  <2>2. <<"\\", y>> \in Seq(T) /\ <<"\\", y>> # <<>>
    <3>1. "\\" \in T
      BY <1>1
    <3> HIDE DEF T
    <3>2. QED
      BY <2>1, <3>1
  <2>3. Escaped(e) = <<"\\", y>>
    BY <1>4 DEF AsLetter, y
  <2>4. Unit(e) = <<"\\", y>>
    BY <2>2, <2>3 DEF Unit
  <2>5. QED
    BY <1>2, <2>2, <2>4
<1>5. CASE \E u : AsUnit(e, u)
  <2>1. PICK u : AsUnit(e, u)
    BY <1>5
  <2>2. Escaped(e) = <<"\\", "u">> \o u /\ u \in UnitsBelow
    BY <2>1 DEF AsUnit
  <2>3. u \in Seq(T)
    <3>1. u \in Seq(HexChar \ {NUL})
      BY <2>2, UnitsAssumption
    <3>2. QED
      BY <1>1, <3>1, SeqMonotonic
  <2> DEFINE a == <<"\\", "u">>
  <2>4. a \in Seq(T) /\ a # <<>>
    <3>1. "\\" \in T /\ "u" \in T
      BY <1>1
    <3> HIDE DEF T
    <3>2. QED
      BY <3>1
  <2> HIDE DEF T, a
  <2>5. a \o u \in Seq(T) /\ a \o u # <<>>
    BY <2>3, <2>4, ConcatProperties, ConcatEqualIffEmpty
  <2>6. Escaped(e) = a \o u
    BY <2>2 DEF a
  <2>7. Unit(e) = a \o u
    BY <2>5, <2>6 DEF Unit
  <2>8. QED
    BY <1>2, <2>5, <2>7 DEF T
<1>6. QED
  BY <1>3, <1>4, <1>5, CharIsWritten

\* A string the parser and the printer agree on.
IsText(s) == s \in Seq(Seq(STRING)) /\ \A i \in DOMAIN s : IsChar(s[i])

\* In the text x of the characters of s from i on, that of character j comes
\* after at[j] others.
Laid(s, i, x, at) ==
    /\ x \in Seq(STRING \ {NUL})
    /\ at \in [i .. Len(s) + 1 -> Nat]
    /\ at[i] = 0 /\ at[Len(s) + 1] = Len(x)
    /\ \A j \in i .. Len(s) :
          /\ at[j + 1] = at[j] + Len(Unit(s[j])) /\ at[j + 1] <= Len(x)
          /\ \A m \in 1 .. Len(Unit(s[j])) : x[at[j] + m] = Unit(s[j])[m]

\* What is written for the characters of a string.
LEMMA TextHas ==
    ASSUME NEW s, IsText(s)
    PROVE  /\ Len(s) \in Nat /\ DOMAIN s = 1 .. Len(s)
           /\ \A i \in 1 .. Len(s) :
                 /\ s[i] \in Seq(STRING) /\ IsChar(s[i])
                 /\ Unit(s[i]) \in Seq(STRING \ {NUL}) /\ Unit(s[i]) \in Seq(STRING)
                 /\ Len(Unit(s[i])) \in Nat \ {0}
<1>1. Len(s) \in Nat /\ DOMAIN s = 1 .. Len(s)
  BY LenProperties DEF IsText
<1>2. ASSUME NEW i \in 1 .. Len(s) PROVE s[i] \in Seq(STRING) /\ IsChar(s[i])
  BY <1>1, <1>2, ElementOfSeq DEF IsText
<1>3. QED
  BY <1>1, <1>2, UnitIs

\* Nothing is left of the end.
LEMMA LaidNothing ==
    ASSUME NEW s, IsText(s)
    PROVE  \E at : Laid(s, Len(s) + 1, <<>>, at)
<1> DEFINE n  == Len(s)
           at == [j \in n + 1 .. n + 1 |-> 0]
<1>1. n \in Nat
  BY TextHas
<1>2. /\ <<>> \in Seq(STRING \ {NUL}) /\ Len(<<>>) = 0
      /\ at \in [n + 1 .. n + 1 -> Nat] /\ at[n + 1] = 0
  BY <1>1
<1>3. n + 1 .. n = {}
  BY <1>1
<1> HIDE DEF at
<1>4. Laid(s, n + 1, <<>>, at)
  BY <1>2, <1>3 DEF Laid
<1>5. QED
  BY <1>4

\* A place further on, n characters having been put in front.
LEMMA Further ==
    ASSUME NEW a \in Nat, NEW n \in Nat, NEW l \in Nat, NEW z \in Nat, a + l <= z,
           NEW m \in 1 .. l
    PROVE  /\ a + n + m \in 1 .. n + z /\ ~(a + n + m <= n)
           /\ (a + n + m) - n = a + m
OBVIOUS

\* A character more in front.
LEMMA LaidMore ==
    ASSUME NEW s, IsText(s), NEW i \in 1 .. Len(s), NEW x, NEW at, Laid(s, i + 1, x, at)
    PROVE  \E bt : Laid(s, i, Unit(s[i]) \o x, bt)
<1> DEFINE T  == STRING \ {NUL}
           u  == Unit(s[i])
           n  == Len(u)
           L  == Len(s)
           y  == u \o x
           bt == [j \in i .. L + 1 |-> IF j = i THEN 0 ELSE at[j] + n]
<1>1. L \in Nat /\ u \in Seq(T) /\ n \in Nat
  BY TextHas
<1>2. /\ x \in Seq(T) /\ at \in [i + 1 .. L + 1 -> Nat]
      /\ at[i + 1] = 0 /\ at[L + 1] = Len(x)
      /\ \A j \in i + 1 .. L :
            /\ at[j + 1] = at[j] + Len(Unit(s[j])) /\ at[j + 1] <= Len(x)
            /\ \A m \in 1 .. Len(Unit(s[j])) : x[at[j] + m] = Unit(s[j])[m]
  BY DEF Laid
<1>3. /\ y \in Seq(T) /\ Len(y) = n + Len(x) /\ Len(x) \in Nat
      /\ \A k \in 1 .. n + Len(x) : y[k] = IF k <= n THEN u[k] ELSE x[k - n]
  BY <1>1, <1>2, ConcatProperties, LenProperties
<1>4. \A j \in 1 .. L : Len(Unit(s[j])) \in Nat \ {0}
  BY TextHas
<1>8. /\ i + 1 \in i + 1 .. L + 1 /\ L + 1 \in i + 1 .. L + 1 /\ i \in Nat \ {0}
      /\ i \in i .. L + 1 /\ L \in Nat /\ i <= L
  BY <1>1 DEF L
<1>15. n \in Nat /\ Len(y) = n + Len(x) /\ Len(x) \in Nat
  BY <1>1, <1>3
<1> HIDE DEF T, y, L, n, u
<1>5. \A j \in i + 1 .. L + 1 : at[j] \in Nat
  BY <1>2
<1>6. bt \in [i .. L + 1 -> Nat] /\ bt[i] = 0
  <2>1. ASSUME NEW j \in i .. L + 1 PROVE (IF j = i THEN 0 ELSE at[j] + n) \in Nat
    <3>1. j = i \/ j \in i + 1 .. L + 1
      BY <1>8
    <3>2. QED
      BY <1>5, <1>15, <3>1
  <2>2. QED
    BY <1>8, <2>1
<1>7. \A j \in i + 1 .. L + 1 : bt[j] = at[j] + n
  <2>1. \A j \in i + 1 .. L + 1 : j \in i .. L + 1 /\ j # i
    BY <1>8
  <2>2. QED
    BY <2>1
<1> HIDE DEF bt
<1>9. bt[i + 1] = n /\ bt[L + 1] = Len(y)
  <2>1. bt[i + 1] = at[i + 1] + n /\ bt[L + 1] = at[L + 1] + n
    BY <1>7, <1>8
  <2>2. at[i + 1] = 0 /\ at[L + 1] = Len(x)
    BY <1>2
  <2>3. QED
    BY <1>15, <2>1, <2>2
<1>10. ASSUME NEW j \in i .. L
       PROVE  /\ bt[j + 1] = bt[j] + Len(Unit(s[j])) /\ bt[j + 1] <= Len(y)
              /\ \A m \in 1 .. Len(Unit(s[j])) : y[bt[j] + m] = Unit(s[j])[m]
  <2>1. CASE j = i
    <3>1. bt[j] = 0 /\ bt[j + 1] = n /\ Unit(s[j]) = u
      BY <1>6, <1>9, <2>1 DEF u
    <3>2. \A m \in 1 .. n : y[0 + m] = u[m]
      BY <1>1, <1>3
    <3>3. QED
      BY <1>1, <1>3, <3>1, <3>2 DEF n
  <2>2. CASE j # i
    <3>1. j \in i + 1 .. L /\ j + 1 \in i + 1 .. L + 1 /\ j \in i + 1 .. L + 1 /\ j \in 1 .. L
      BY <1>8, <2>2
    <3> DEFINE e == Unit(s[j])
    <3>2. /\ at[j + 1] = at[j] + Len(e) /\ at[j + 1] <= Len(x)
          /\ \A m \in 1 .. Len(e) : x[at[j] + m] = e[m]
      BY <1>2, <3>1
    <3>3. bt[j] = at[j] + n /\ bt[j + 1] = at[j + 1] + n
      BY <1>7, <3>1
    <3>4. at[j] \in Nat /\ at[j + 1] \in Nat /\ Len(e) \in Nat
      BY <1>4, <1>5, <3>1
    <3> HIDE DEF e
    <3>8. at[j + 1] = at[j] + Len(e) /\ at[j + 1] <= Len(x)
      BY <3>2
    <3>5. ASSUME NEW m \in 1 .. Len(e) PROVE y[bt[j] + m] = e[m]
      <4>1. /\ bt[j] + m \in 1 .. n + Len(x) /\ ~(bt[j] + m <= n)
            /\ (bt[j] + m) - n = at[j] + m
        <5>1. at[j] + Len(e) <= Len(x)
          BY <3>8
        <5>2. /\ at[j] + n + m \in 1 .. n + Len(x) /\ ~(at[j] + n + m <= n)
              /\ (at[j] + n + m) - n = at[j] + m
          <6> DEFINE a == at[j]
                     l == Len(e)
                     z == Len(x)
          <6>1. /\ a \in Nat /\ l \in Nat /\ z \in Nat /\ n \in Nat /\ a + l <= z
                /\ m \in 1 .. l
            BY <1>15, <3>4, <5>1
          <6> HIDE DEF a, l, z
          <6>2. /\ a + n + m \in 1 .. n + z /\ ~(a + n + m <= n)
                /\ (a + n + m) - n = a + m
            BY <6>1, Further
          <6>3. QED
            BY <6>2 DEF a, l, z
        <5>3. QED
          BY <3>3, <5>2
      <4>2. QED
        BY <1>3, <3>2, <4>1
    <3>6. bt[j + 1] = bt[j] + Len(e) /\ bt[j + 1] <= Len(y)
      BY <1>15, <3>3, <3>4, <3>8, SMTT(30)
    <3>7. QED
      BY <3>5, <3>6 DEF e
  <2>3. QED
    BY <2>1, <2>2
<1>11. Laid(s, i, y, bt)
  BY <1>3, <1>6, <1>9, <1>10 DEF Laid, T, L
<1>12. QED
  BY <1>11 DEF y, u

\* Some characters more in front, that are written as they are.
LEMMA LaidRun ==
    ASSUME NEW s, IsText(s), NEW j \in 1 .. Len(s) + 1, NEW i \in 1 .. j,
           \A k \in i .. j - 1 : Escaped(s[k]) = <<>>,
           NEW x, NEW at, Laid(s, j, x, at)
    PROVE  /\ [k \in 1 .. j - i |-> Bare(s[i + k - 1])] \in Seq(STRING)
           /\ \E bt : Laid(s, i, [k \in 1 .. j - i |-> Bare(s[i + k - 1])] \o x, bt)
<1> DEFINE T  == STRING \ {NUL}
           n  == j - i
           r  == [k \in 1 .. n |-> Bare(s[i + k - 1])]
           L  == Len(s)
           y  == r \o x
           bt == [m \in i .. L + 1 |-> IF m < j THEN m - i ELSE at[m] + n]
<1>1. L \in Nat /\ n \in Nat /\ i \in Nat /\ j \in Nat /\ j = i + n
  BY TextHas
<1>2. ASSUME NEW k \in i .. j - 1
      PROVE  Unit(s[k]) = <<Bare(s[k])>> /\ Bare(s[k]) \in T
  <2>1. k \in 1 .. L
    BY <1>1
  <2> DEFINE e == s[k]
  <2>2. e \in Seq(STRING) /\ IsChar(e) /\ Unit(e) \in Seq(T)
    BY <2>1, TextHas
  <2>3. Escaped(e) = <<>>
    BY <1>2
  <2> HIDE DEF e
  <2>4. AsItIs(e)
    BY <2>2, <2>3, CharIsWritten
  <2>5. Unit(e) = e /\ e = <<e[1]>>
    BY <2>4 DEF Unit, AsItIs
  <2>6. Len(e) = 1
    <3> DEFINE z == e[1]
    <3> HIDE DEF z
    <3>1. e = <<z>>
      BY <2>5 DEF z
    <3>2. QED
      BY <3>1
  <2>7. Bare(e) = e[1]
    BY <2>6 DEF Bare
  <2>8. e[1] \in T
    <3> HIDE DEF T
    <3>1. e \in Seq(T) /\ 1 \in 1 .. Len(e)
      BY <2>2, <2>5, <2>6
    <3>2. QED
      BY <3>1, ElementOfSeq
  <2>9. QED
    BY <2>5, <2>7, <2>8 DEF e
<1>3. r \in Seq(T) /\ Len(r) = n /\ \A k \in 1 .. n : r[k] = Bare(s[i + k - 1])
  <2>1. ASSUME NEW k \in 1 .. n PROVE Bare(s[i + k - 1]) \in T
    <3>1. i + k - 1 \in i .. j - 1
      BY <1>1
    <3>2. QED
      BY <1>2, <3>1
  <2> DEFINE b(k) == Bare(s[i + k - 1])
  <2>2. \A k \in 1 .. n : b(k) \in T
    BY <2>1
  <2> HIDE DEF T, n, b
  <2>3. n \in Nat
    BY <1>1
  <2> DEFINE q == [k \in 1 .. n |-> b(k)]
  <2>4. q \in Seq(T) /\ Len(q) = n /\ \A k \in 1 .. n : q[k] = b(k)
    BY <2>2, <2>3
  <2>5. r = q
    BY DEF b
  <2>6. QED
    BY <2>4, <2>5 DEF b
<1>4. /\ x \in Seq(T) /\ at \in [j .. L + 1 -> Nat]
      /\ at[j] = 0 /\ at[L + 1] = Len(x)
      /\ \A k \in j .. L :
            /\ at[k + 1] = at[k] + Len(Unit(s[k])) /\ at[k + 1] <= Len(x)
            /\ \A m \in 1 .. Len(Unit(s[k])) : x[at[k] + m] = Unit(s[k])[m]
  BY DEF Laid
<1> HIDE DEF r
<1>5. /\ y \in Seq(T) /\ Len(y) = n + Len(x) /\ Len(x) \in Nat
      /\ \A k \in 1 .. n + Len(x) : y[k] = IF k <= n THEN r[k] ELSE x[k - n]
  <2> HIDE DEF n, T
  <2>1. Len(x) \in Nat
    BY <1>4, LenProperties
  <2>2. r \in Seq(T) /\ x \in Seq(T) /\ Len(r) = n
    BY <1>3, <1>4
  <2>3. /\ r \o x \in Seq(T) /\ Len(r \o x) = Len(r) + Len(x)
        /\ \A k \in 1 .. Len(r) + Len(x) :
              (r \o x)[k] = IF k <= Len(r) THEN r[k] ELSE x[k - Len(r)]
    BY <2>2, ConcatProperties
  <2>4. QED
    BY <2>1, <2>2, <2>3
<1>6. \A k \in 1 .. L : Len(Unit(s[k])) \in Nat \ {0}
  BY TextHas
<1>7. r \in Seq(STRING)
  <2>1. T \subseteq STRING
    OBVIOUS
  <2>2. QED
    BY <1>3, <2>1, SeqMonotonic
<1> HIDE DEF T, y, L, n
<1>8. j \in i .. L + 1 /\ L + 1 \in j .. L + 1
  BY <1>1 DEF L
<1>17. n \in Nat /\ Len(y) = n + Len(x) /\ Len(x) \in Nat
  BY <1>1, <1>5
<1>9. \A m \in j .. L + 1 : at[m] \in Nat
  BY <1>4
<1>10. bt \in [i .. L + 1 -> Nat]
  <2>1. ASSUME NEW m \in i .. L + 1 PROVE (IF m < j THEN m - i ELSE at[m] + n) \in Nat
    BY <1>1, <1>8, <1>9
  <2>2. QED
    BY <2>1
<1>11. /\ \A m \in i .. j - 1 : bt[m] = m - i
       /\ \A m \in j .. L + 1 : bt[m] = at[m] + n
  BY <1>1, <1>8
<1> HIDE DEF bt
<1>12. \A m \in i .. j : bt[m] = m - i
  <2>1. at[j] = 0 /\ j \in j .. L + 1
    BY <1>1, <1>4, <1>8
  <2>2. bt[j] = 0 + n
    BY <1>11, <2>1
  <2>3. bt[j] = j - i
    BY <1>1, <2>2
  <2>4. \A m \in i .. j : m = j \/ m \in i .. j - 1
    BY <1>1
  <2>5. QED
    BY <1>11, <2>3, <2>4
<1>13. bt[i] = 0 /\ bt[L + 1] = Len(y)
  <2>1. bt[i] = i - i
    BY <1>1, <1>12
  <2>2. bt[L + 1] = at[L + 1] + n
    BY <1>8, <1>11
  <2>3. QED
    BY <1>1, <1>4, <1>5, <2>1, <2>2
<1>14. ASSUME NEW k \in i .. L
       PROVE  /\ bt[k + 1] = bt[k] + Len(Unit(s[k])) /\ bt[k + 1] <= Len(y)
              /\ \A m \in 1 .. Len(Unit(s[k])) : y[bt[k] + m] = Unit(s[k])[m]
  <2>1. CASE k < j
    <3>1. k \in i .. j - 1 /\ k \in i .. j /\ k + 1 \in i .. j
      BY <1>1, <2>1
    <3>2. bt[k] = k - i /\ bt[k + 1] = (k + 1) - i
      BY <1>12, <3>1
    <3> DEFINE b == Bare(s[k])
    <3>3. Unit(s[k]) = <<b>>
      BY <1>2, <3>1
    <3>4. y[bt[k] + 1] = b
      <4>1. /\ (k - i) + 1 \in 1 .. n /\ (k - i) + 1 \in 1 .. n + Len(x)
            /\ i + ((k - i) + 1) - 1 = k
        BY <1>1, <1>5, <3>1
      <4>2. r[(k - i) + 1] = Bare(s[i + ((k - i) + 1) - 1])
        BY <1>3, <4>1
      <4>3. y[(k - i) + 1] = r[(k - i) + 1]
        BY <1>5, <4>1
      <4>4. QED
        BY <3>2, <4>1, <4>2, <4>3
    <3> HIDE DEF b
    <3>5. Len(Unit(s[k])) = 1 /\ Unit(s[k])[1] = b
      BY <3>3
    <3>6. bt[k + 1] = bt[k] + 1 /\ bt[k + 1] <= Len(y)
      BY <1>1, <1>5, <3>1, <3>2
    <3>7. QED
      BY <3>4, <3>5, <3>6
  <2>2. CASE ~(k < j)
    <3>1. k \in j .. L /\ k + 1 \in j .. L + 1 /\ k \in j .. L + 1 /\ k \in 1 .. L
      BY <1>1, <1>8, <2>2
    <3> DEFINE e == Unit(s[k])
    <3>2. /\ at[k + 1] = at[k] + Len(e) /\ at[k + 1] <= Len(x)
          /\ \A m \in 1 .. Len(e) : x[at[k] + m] = e[m]
      BY <1>4, <3>1
    <3>3. bt[k] = at[k] + n /\ bt[k + 1] = at[k + 1] + n
      BY <1>11, <3>1
    <3>4. at[k] \in Nat /\ at[k + 1] \in Nat /\ Len(e) \in Nat
      BY <1>6, <1>9, <3>1
    <3> HIDE DEF e
    <3>8. at[k + 1] = at[k] + Len(e) /\ at[k + 1] <= Len(x)
      BY <3>2
    <3>5. ASSUME NEW m \in 1 .. Len(e) PROVE y[bt[k] + m] = e[m]
      <4>1. /\ bt[k] + m \in 1 .. n + Len(x) /\ ~(bt[k] + m <= n)
            /\ (bt[k] + m) - n = at[k] + m
        <5>1. at[k] + Len(e) <= Len(x)
          BY <3>8
        <5>2. /\ at[k] + n + m \in 1 .. n + Len(x) /\ ~(at[k] + n + m <= n)
              /\ (at[k] + n + m) - n = at[k] + m
          <6> DEFINE a == at[k]
                     l == Len(e)
                     z == Len(x)
          <6>1. /\ a \in Nat /\ l \in Nat /\ z \in Nat /\ n \in Nat /\ a + l <= z
                /\ m \in 1 .. l
            BY <1>17, <3>4, <5>1
          <6> HIDE DEF a, l, z
          <6>2. /\ a + n + m \in 1 .. n + z /\ ~(a + n + m <= n)
                /\ (a + n + m) - n = a + m
            BY <6>1, Further
          <6>3. QED
            BY <6>2 DEF a, l, z
        <5>3. QED
          BY <3>3, <5>2
      <4>2. QED
        BY <1>5, <3>2, <4>1
    <3>6. bt[k + 1] = bt[k] + Len(e) /\ bt[k + 1] <= Len(y)
      BY <1>17, <3>3, <3>4, <3>8
    <3>7. QED
      BY <3>5, <3>6 DEF e
  <2>3. QED
    BY <2>1, <2>2
<1>15. Laid(s, i, y, bt)
  BY <1>5, <1>10, <1>13, <1>14 DEF Laid, T, L
<1>16. QED
  BY <1>7, <1>15 DEF y, r, n

\* Where the run of plain characters from i on ends.
EndsRun(s, i, j) ==
    /\ \A k \in i .. j - 1 : Escaped(s[k]) = <<>>
    /\ j <= Len(s) => Escaped(s[j]) # <<>>

RunEnd(s, i) == CHOOSE j \in i .. Len(s) + 1 : EndsRun(s, i, j)

\* There is one end of a run.
LEMMA RunEndIs ==
    ASSUME NEW s, Len(s) \in Nat, NEW i \in 1 .. Len(s) + 1
    PROVE  RunEnd(s, i) \in i .. Len(s) + 1 /\ EndsRun(s, i, RunEnd(s, i))
<1> DEFINE J == {j \in i .. Len(s) + 1 : j = Len(s) + 1 \/ Escaped(s[j]) # <<>>}
<1>1. Len(s) + 1 \in J /\ J \subseteq Nat
  OBVIOUS
<1>2. PICK k \in J : \A j \in J : k <= j
  <2> HIDE DEF J
  <2>1. J # {}
    BY <1>1
  <2>2. QED
    BY <1>1, <2>1, MinIsNat
<1>3. k \in i .. Len(s) + 1 /\ (k <= Len(s) => Escaped(s[k]) # <<>>)
  OBVIOUS
<1>4. ASSUME NEW m \in i .. k - 1 PROVE Escaped(s[m]) = <<>>
  <2>1. m \in i .. Len(s) + 1 /\ m < k /\ m # Len(s) + 1 /\ m \in Nat /\ k \in Nat
    BY <1>3
  <2>2. m \notin J
    BY <1>2, <2>1
  <2>3. QED
    BY <2>1, <2>2
<1>5. EndsRun(s, i, k)
  BY <1>3, <1>4 DEF EndsRun
<1>6. QED
  BY <1>3, <1>5 DEF RunEnd

\* The calls for the characters from i on, f having those further on.
CallsAt(f, s, i) ==
    If(RunEnd(s, i) > i, Put_([k \in 1 .. RunEnd(s, i) - i |-> Bare(s[i + k - 1])]))
        \o IF RunEnd(s, i) > Len(s) THEN <<>>
           ELSE Put_(Escaped(s[RunEnd(s, i)])) \o f[RunEnd(s, i) + 1]

CallsFrom(f, s, n) == f = [i \in n .. Len(s) + 1 |-> CallsAt(f, s, i)]

\* There are such calls.
LEMMA CallsExist ==
    ASSUME NEW s, Len(s) \in Nat
    PROVE  \E f : CallsFrom(f, s, 1)
<1> DEFINE L == Len(s)
           S == {k \in Nat : k <= L => \E f : CallsFrom(f, s, L + 1 - k)}
<1>1. ASSUME NEW n \in 1 .. L + 1, NEW f, NEW g,
             \A i \in n + 1 .. L + 1 : f[i] = g[i]
      PROVE  CallsAt(f, s, n) = CallsAt(g, s, n)
  <2> DEFINE e == RunEnd(s, n)
  <2>1. e \in n .. L + 1
    BY RunEndIs
  <2> HIDE DEF e
  <2>2. e > L \/ e + 1 \in n + 1 .. L + 1
    BY <2>1
  <2>3. e > L \/ f[e + 1] = g[e + 1]
    BY <1>1, <2>2
  <2>4. CASE e > L
    BY <2>4 DEF CallsAt, e
  <2>5. CASE ~(e > L)
    <3>1. f[e + 1] = g[e + 1]
      BY <2>3, <2>5
    <3>2. QED
      BY <3>1, Zenon DEF CallsAt, e
  <2>6. QED
    BY <2>4, <2>5
<1>2. 0 \in S
  <2> DEFINE f == [i \in L + 1 .. L + 1 |-> CallsAt(<<>>, s, L + 1)]
  <2>1. \A i \in L + 1 .. L + 1 : CallsAt(f, s, i) = CallsAt(<<>>, s, L + 1)
    <3> HIDE DEF f
    <3>1. L + 1 \in 1 .. L + 1 /\ L + 1 + 1 .. L + 1 = {}
      OBVIOUS
    <3>2. CallsAt(f, s, L + 1) = CallsAt(<<>>, s, L + 1)
      BY <1>1, <3>1
    <3>3. QED
      BY <3>2
  <2>2. f = [i \in L + 1 .. L + 1 |-> CallsAt(f, s, i)]
    BY <2>1, Zenon
  <2>3. L + 1 - 0 = L + 1
    OBVIOUS
  <2> HIDE DEF f
  <2>4. CallsFrom(f, s, L + 1 - 0)
    BY <2>2, <2>3 DEF CallsFrom
  <2>5. QED
    BY <2>4
<1>3. ASSUME NEW k \in Nat, k \in S PROVE k + 1 \in S
  <2> SUFFICES ASSUME k + 1 <= L PROVE \E f : CallsFrom(f, s, L + 1 - (k + 1))
    OBVIOUS
  <2> DEFINE n == L + 1 - k
             m == L + 1 - (k + 1)
  <2>1. n \in 1 .. L + 1 /\ m \in 1 .. L + 1 /\ n = m + 1
    OBVIOUS
  <2>2. PICK f : CallsFrom(f, s, n)
    <3>1. k <= L
      OBVIOUS
    <3>2. QED
      BY <1>3, <3>1
  <2> HIDE DEF n, m, S
  <2> DEFINE g == [i \in m .. L + 1 |-> IF i = m THEN CallsAt(f, s, m) ELSE f[i]]
  <2>3. \A i \in n .. L + 1 : f[i] = g[i]
    BY <2>1
  <2>4. DOMAIN g = m .. L + 1 /\ g[m] = CallsAt(f, s, m)
    BY <2>1
  <2>5. g = [i \in m .. L + 1 |-> g[i]]
    OBVIOUS
  <2> HIDE DEF g
  <2>6. ASSUME NEW i \in m .. L + 1 PROVE g[i] = CallsAt(g, s, i)
    <3>1. i \in 1 .. L + 1
      BY <2>1
    <3>2. \A j \in i + 1 .. L + 1 : j \in n .. L + 1
      BY <2>1
    <3>3. CallsAt(f, s, i) = CallsAt(g, s, i)
      <4>1. \A j \in i + 1 .. L + 1 : f[j] = g[j]
        BY <2>3, <3>2
      <4>2. QED
        BY <1>1, <3>1, <4>1
    <3>4. CASE i = m
      BY <2>4, <3>3, <3>4
    <3>5. CASE i # m
      <4>1. i \in n .. L + 1
        BY <2>1, <3>5
      <4>2. f[i] = CallsAt(f, s, i)
        BY <2>2, <4>1 DEF CallsFrom
      <4>3. QED
        BY <2>3, <3>3, <4>1, <4>2
    <3>6. QED
      BY <3>4, <3>5
  <2>7. CallsFrom(g, s, m)
    BY <2>5, <2>6 DEF CallsFrom
  <2>8. QED
    BY <2>7 DEF m
<1> HIDE DEF S
<1>4. \A k \in Nat : k \in S
  BY <1>2, <1>3, NatSet
<1>5. L \in S /\ L + 1 - L = 1 /\ L <= L
  BY <1>4
<1>6. \E f : CallsFrom(f, s, L + 1 - L)
  BY <1>5 DEF S
<1>7. QED
  BY <1>5, <1>6

\* So the recursive definition holds.
LEMMA EscapeStrIs ==
    ASSUME NEW s, Len(s) \in Nat
    PROVE  \E f : CallsFrom(f, s, 1) /\ EscapeStr(s) = f[1]
<1> DEFINE f == CHOOSE g : CallsFrom(g, s, 1)
<1>1. CallsFrom(f, s, 1)
  BY CallsExist
<1>2. EscapeStr(s) = f[1]
  BY Zenon DEF EscapeStr, CallsFrom, CallsAt, RunEnd, EndsRun
<1>3. QED
  BY <1>1, <1>2

\* json_escape_str writes the characters of a string one after another.
LEMMA EscapeStrSpells ==
    ASSUME NEW s, IsText(s)
    PROVE  \E x, at : Spells(EscapeStr(s), x) /\ Laid(s, 1, x, at)
<1> DEFINE L == Len(s)
<1>1. L \in Nat
  BY TextHas
<1>2. PICK f : CallsFrom(f, s, 1) /\ EscapeStr(s) = f[1]
  BY <1>1, EscapeStrIs
<1>3. ASSUME NEW i \in 1 .. L + 1 PROVE f[i] = CallsAt(f, s, i)
  BY <1>2 DEF CallsFrom
<1> DEFINE Good(i) == \E x, at : Spells(f[i], x) /\ Laid(s, i, x, at)
           S == {k \in Nat : k <= L => Good(L + 1 - k)}
<1>4. ASSUME NEW k \in Nat, \A m \in 0 .. k - 1 : m \in S PROVE k \in S
  <2> SUFFICES ASSUME k <= L PROVE Good(L + 1 - k)
    OBVIOUS
  <2> DEFINE i == L + 1 - k
             j == RunEnd(s, i)
             r == [h \in 1 .. j - i |-> Bare(s[i + h - 1])]
             rest == IF j > L THEN <<>> ELSE Put_(Escaped(s[j])) \o f[j + 1]
  <2>1. i \in 1 .. L + 1
    BY <1>1
  <2>2. j \in i .. L + 1 /\ EndsRun(s, i, j)
    BY <1>1, <2>1, RunEndIs
  <2>3. f[i] = If(j > i, Put_(r)) \o rest
    <3>1. f[i] = CallsAt(f, s, i)
      BY <1>3, <2>1
    <3>2. QED
      BY <3>1, Zenon DEF CallsAt
  <2> HIDE DEF i, j, r, rest
  <2>4. i \in Nat \ {0} /\ j \in Nat \ {0} /\ i \in 1 .. j /\ j \in 1 .. L + 1
    BY <1>1, <2>1, <2>2
  <2>5. \E y, bt : Spells(rest, y) /\ Laid(s, j, y, bt)
    <3>1. CASE j > L
      <4>1. j = L + 1
        BY <1>1, <2>4, <3>1
      <4>2. rest = <<>>
        BY <3>1 DEF rest
      <4>3. QED
        BY <4>1, <4>2, SpellsNothing, LaidNothing
    <3>2. CASE ~(j > L)
      <4>1. j \in 1 .. L /\ Escaped(s[j]) # <<>>
        BY <1>1, <2>2, <2>4, <3>2 DEF EndsRun
      <4> DEFINE m == L + 1 - (j + 1)
      <4>2. m \in 0 .. k - 1 /\ m \in Nat /\ m <= L /\ L + 1 - m = j + 1
        BY <1>1, <2>2, <2>4, <4>1 DEF i
      <4>3. Good(j + 1)
        <5> HIDE DEF m
        <5>1. m \in S
          BY <1>4, <4>2
        <5>2. Good(L + 1 - m)
          BY <4>2, <5>1
        <5>3. QED
          BY <4>2, <5>2
      <4>4. PICK x, at : Spells(f[j + 1], x) /\ Laid(s, j + 1, x, at)
        BY <4>3
      <4> DEFINE e == Escaped(s[j])
      <4>5. Unit(s[j]) = e /\ e \in Seq(STRING)
        BY <4>1, TextHas DEF Unit
      <4>6. PICK bt : Laid(s, j, Unit(s[j]) \o x, bt)
        BY <4>1, <4>4, LaidMore
      <4> HIDE DEF e
      <4>7. Spells(Put_(e) \o f[j + 1], e \o x)
        BY <4>4, <4>5, SpellsMore
      <4>8. rest = Put_(e) \o f[j + 1]
        BY <3>2 DEF rest, e
      <4>9. QED
        BY <4>5, <4>6, <4>7, <4>8
    <3>3. QED
      BY <3>1, <3>2
  <2>6. PICK y, bt : Spells(rest, y) /\ Laid(s, j, y, bt)
    BY <2>5
  <2>7. CASE j > i
    <3>1. f[i] = Put_(r) \o rest
      BY <2>3, <2>7 DEF If
    <3>2. \A h \in i .. j - 1 : Escaped(s[h]) = <<>>
      BY <2>2 DEF EndsRun
    <3>3. r \in Seq(STRING) /\ \E ct : Laid(s, i, r \o y, ct)
      BY <2>4, <2>6, <3>2, LaidRun DEF r
    <3>4. Spells(Put_(r) \o rest, r \o y)
      BY <2>6, <3>3, SpellsMore
    <3>5. Good(i)
      BY <3>1, <3>3, <3>4
    <3>6. QED
      BY <3>5 DEF i
  <2>8. CASE ~(j > i)
    <3>1. j = i
      BY <2>2, <2>4, <2>8
    <3>2. f[i] = <<>> \o rest
      BY <2>3, <2>8 DEF If
    <3>3. rest \in CallSeq
      BY <2>6 DEF Spells
    <3>4. f[i] = rest
      BY <3>2, <3>3, ConcatEmptySeq DEF CallSeq
    <3>5. Good(i)
      BY <2>6, <3>1, <3>4
    <3>6. QED
      BY <3>5 DEF i
  <2>9. QED
    BY <2>7, <2>8
<1> HIDE DEF S
<1>5. \A k \in Nat : k \in S
  BY <1>4, NatSetBelow
<1>6. L \in S /\ L + 1 - L = 1 /\ L <= L
  BY <1>1, <1>5
<1>7. Good(L + 1 - L)
  BY <1>6 DEF S
<1>8. Good(1)
  BY <1>6, <1>7
<1>9. QED
  BY <1>2, <1>8

-----------------------------------------------------------------------------
(* What is printed for a value without members.                            *)

IsScalar(val) == val # None /\ val[1] \in {"num", "string"}

\* The texts of such a value.
TextOf(val, txt) ==
    \/ val[1] = "num" /\ txt = Decimal(val[2])
    \/ val[1] = "string"
       /\ \E x, at : Laid(val[2], 1, x, at) /\ txt = (<<"\"">> \o x) \o <<"\"">>

\* The text of an integer is its digits, behind a sign.
LEMMA DecimalHas ==
    ASSUME NEW n \in Int
    PROVE  /\ Decimal(n) \in Seq(Digit \cup {"-"})
           /\ Len(Decimal(n)) \in Nat \ {0}
           /\ Leading(Unsigned(Decimal(n))) = Unsigned(Decimal(n))
           /\ IsInteger(Decimal(n)) /\ Exact(Decimal(n)) = n
<1> DEFINE m == Magnitude(n)
           s == numeral[m]
           d == Decimal(n)
           T == Digit \cup {"-"}
<1>1. m \in Nat
  BY DEF Magnitude
<1>2. Unsigned(d) = s
  BY DecimalIs
<1> HIDE DEF m
<1>3. s \in Seq(Range(Figures)) /\ s # <<>> /\ Value(s) = m
  BY <1>1, NumeralIsShort, NumeralIsRead
<1>4. s \in Seq(Digit) /\ s \in Seq(T)
  <2>1. s \in Seq(Digit)
    BY <1>3, DigitsAreFigures
  <2>2. Digit \subseteq T
    OBVIOUS
  <2> HIDE DEF T, s
  <2>3. QED
    BY <2>1, <2>2, SeqMonotonic
<1> HIDE DEF s
<1>5. Len(s) \in Nat \ {0} /\ DOMAIN s = 1 .. Len(s)
  BY <1>3, LenProperties, EmptySeq
<1>6. Leading(s) = s
  <2>1. \A i \in 1 .. Len(s) : s[i] \in Range(Figures)
    BY <1>3, ElementOfSeq
  <2>2. DigitsUpto(s, Len(s))
    BY <1>5, <2>1 DEF DigitsUpto
  <2>3. Leading(s) = SubSeq(s, 1, Len(s))
    BY <1>5, <2>2, LeadingIs
  <2>4. QED
    BY <1>3, <2>3, SubSeqFull
<1>7. CASE n < 0
  <2>1. d = <<"-">> \o s /\ m = -n
    BY <1>7 DEF Decimal, s, m, Magnitude
  <2> DEFINE a == <<"-">>
  <2>2. a \in Seq(T) /\ Len(a) = 1 /\ a[1] = "-"
    <3>1. "-" \in T
      OBVIOUS
    <3> HIDE DEF T
    <3>2. QED
      BY <3>1
  <2> HIDE DEF a, T
  <2>3. /\ a \o s \in Seq(T) /\ Len(a \o s) = 1 + Len(s)
        /\ (a \o s)[1] = "-"
    <3>1. /\ a \o s \in Seq(T) /\ Len(a \o s) = Len(a) + Len(s)
          /\ \A i \in 1 .. Len(a) + Len(s) :
                 (a \o s)[i] = IF i <= Len(a) THEN a[i] ELSE s[i - Len(a)]
      BY <1>4, <2>2, ConcatProperties
    <3>2. 1 \in 1 .. Len(a) + Len(s) /\ 1 <= Len(a)
      BY <1>5, <2>2
    <3>3. QED
      BY <2>2, <3>1, <3>2
  <2>4. d \in Seq(T) /\ Len(d) \in Nat \ {0} /\ d[1] = "-" /\ d # <<>>
    BY <1>5, <2>1, <2>3 DEF a
  <2> HIDE DEF d
  <2>5. Negative(d)
    BY <2>4 DEF Negative
  <2>6. IsInteger(d)
    BY <1>2, <1>3, <1>6 DEF IsInteger
  <2>7. Exact(d) = -m
    BY <1>2, <1>3, <1>6, <2>5 DEF Exact
  <2>8. Exact(d) = n
    BY <2>1, <2>7
  <2>9. QED
    BY <1>2, <1>6, <2>4, <2>6, <2>8 DEF d, T
<1>8. CASE ~(n < 0)
  <2>1. d = s /\ m = n
    BY <1>8 DEF Decimal, s, m, Magnitude
  <2>2. ~Negative(s)
    <3>1. s[1] \in Digit
      BY <1>4, <1>5, ElementOfSeq
    <3>2. "-" \notin Digit
      BY DEF Digit
    <3>3. QED
      BY <3>1, <3>2 DEF Negative
  <2> HIDE DEF d, T
  <2>3. IsInteger(d) /\ Exact(d) = m
    BY <1>2, <1>3, <1>6, <2>1, <2>2 DEF IsInteger, Exact
  <2>4. QED
    BY <1>2, <1>4, <1>5, <1>6, <2>1, <2>3 DEF d, T
<1>9. QED
  BY <1>7, <1>8

\* No 0 is in such a text, which is a text.
LEMMA TextIsText ==
    ASSUME NEW val, IsPrintable(val), IsScalar(val), NEW txt, TextOf(val, txt)
    PROVE  txt \in Seq(STRING \ {NUL}) /\ txt \in Seq(STRING)
<1> DEFINE T == STRING \ {NUL}
<1>1. ASSUME txt \in Seq(T) PROVE txt \in Seq(STRING)
  <2>1. T \subseteq STRING
    OBVIOUS
  <2>2. QED
    BY <1>1, <2>1, SeqMonotonic
<1>2. CASE val[1] = "num"
  <2>1. txt = Decimal(val[2]) /\ val[2] \in Int
    BY <1>2, LimitsAssumption DEF TextOf, IsPrintable, WideMin, WideMax
  <2>2. txt \in Seq(Digit \cup {"-"})
    BY <2>1, DecimalHas
  <2>3. Digit \cup {"-"} \subseteq T
    BY StringsAssumption DEF NumberChar, Digit, NUL
  <2>4. txt \in Seq(T)
    BY <2>2, <2>3, SeqMonotonic
  <2>5. QED
    BY <1>1, <2>4
<1>3. CASE val[1] = "string"
  <2>1. PICK x, at : Laid(val[2], 1, x, at) /\ txt = (<<"\"">> \o x) \o <<"\"">>
    BY <1>3 DEF TextOf
  <2>2. x \in Seq(T)
    BY <2>1 DEF Laid
  <2> DEFINE q == <<"\"">>
  <2>3. q \in Seq(T)
    <3> DEFINE z == "\""
    <3>1. z \in T
      BY StringsAssumption DEF NUL
    <3>2. q = <<z>>
      OBVIOUS
    <3> HIDE DEF T, z, q
    <3>3. QED
      BY <3>1, <3>2
  <2> HIDE DEF q, T
  <2>4. q \o x \in Seq(T)
    BY <2>2, <2>3, ConcatProperties
  <2>5. (q \o x) \o q \in Seq(T)
    BY <2>3, <2>4, ConcatProperties
  <2>6. QED
    BY <1>1, <2>1, <2>5 DEF q, T
<1>4. QED
  BY <1>2, <1>3 DEF IsScalar

\* What the serialiser of a value makes of it.
LEMMA CallsSpell ==
    ASSUME NEW val, IsPrintable(val), IsScalar(val), NEW flags
    PROVE  \E txt : TextOf(val, txt) /\ Spells(Calls(val, flags), txt)
<1>1. ~Holds(val)
  BY DEF Holds, IsScalar
<1>2. Calls(val, flags) = ScalarCalls(val, flags)
  BY <1>1, Zenon DEF Calls
<1>3. CASE val[1] = "num"
  <2>1. val # Hole /\ val[1] \notin {"null", "true", "false"}
    BY <1>3 DEF IsPrintable
  <2> DEFINE d == Decimal(val[2])
  <2>2. ScalarCalls(val, flags) = Put_(d)
    BY <1>3, <2>1 DEF ScalarCalls
  <2>3. TextOf(val, d)
    BY <1>3 DEF TextOf
  <2>4. d \in Seq(STRING)
    BY <2>3, TextIsText
  <2> HIDE DEF d
  <2>5. Spells(Put_(d) \o <<>>, d \o <<>>)
    BY <2>4, SpellsNothing, SpellsMore
  <2>6. Put_(d) \o <<>> = Put_(d) /\ d \o <<>> = d
    <3>1. <<>> \in CallSeq
      BY DEF CallSeq
    <3>2. Put_(d) \in CallSeq
      BY <2>4, <3>1, PutIsCall
    <3>3. QED
      BY <2>4, <3>2, ConcatEmptySeq DEF CallSeq
  <2>7. QED
    BY <1>2, <2>2, <2>3, <2>5, <2>6
<1>4. CASE val[1] = "string"
  <2>1. val # Hole /\ val[1] \notin {"null", "true", "false", "num", "double"}
    BY <1>4 DEF IsPrintable
  <2> DEFINE s == val[2]
             q == <<"\"">>
  <2>2. ScalarCalls(val, flags) = (Put_(q) \o EscapeStr(s)) \o Put_(q)
    BY <1>4, <2>1 DEF ScalarCalls, StringCalls
  <2>3. IsText(s)
    BY <1>4 DEF IsPrintable, IsText
  <2>4. PICK x, at : Spells(EscapeStr(s), x) /\ Laid(s, 1, x, at)
    BY <2>3, EscapeStrSpells
  <2>5. q \in Seq(STRING)
    <3> DEFINE z == "\""
               S == STRING
    <3>1. z \in S
      BY StringsAssumption
    <3>2. q = <<z>>
      OBVIOUS
    <3> HIDE DEF z, q, S
    <3>3. q \in Seq(S)
      BY <3>1, <3>2
    <3>4. QED
      BY <3>3 DEF S
  <2>6. TextOf(val, (q \o x) \o q)
    BY <1>4, <2>4 DEF TextOf
  <2> HIDE DEF s, q
  <2>7. Spells(Put_(q) \o EscapeStr(s), q \o x)
    BY <2>4, <2>5, SpellsMore
  <2>8. Spells((Put_(q) \o EscapeStr(s)) \o Put_(q), (q \o x) \o q)
    BY <2>5, <2>7, SpellsThen
  <2>9. QED
    BY <1>2, <2>2, <2>6, <2>8
<1>5. QED
  BY <1>3, <1>4 DEF IsScalar

\* The text ag_json_from_string sees is what was written.
LEMMA CStringIs ==
    ASSUME NEW b, b.ended = TRUE, b.chars \in Seq(STRING \ {NUL})
    PROVE  CString(b) = b.chars
<1> DEFINE s == b.chars
           T == STRING \ {NUL}
<1>1. Len(s) \in Nat /\ \A i \in 1 .. Len(s) : s[i] # NUL
  <2>1. Len(s) \in Nat /\ \A i \in 1 .. Len(s) : s[i] \in T
    BY LenProperties, ElementOfSeq
  <2>2. QED
    BY <2>1
<1>2. s \in Seq(T)
  OBVIOUS
<1> DEFINE P(k) == /\ \A i \in 1 .. k : s[i] # NUL
                   /\ k < Len(s) => s[k + 1] = NUL
<1>3. CString(b) = SubSeq(s, 1, CHOOSE k \in 0 .. Len(s) : P(k))
  BY DEF CString
<1> HIDE DEF s, T
<1>4. Len(s) \in 0 .. Len(s) /\ P(Len(s))
  BY <1>1
<1>5. \A k \in 0 .. Len(s) : P(k) => k = Len(s)
  <2>1. TAKE k \in 0 .. Len(s)
  <2>2. k < Len(s) => k + 1 \in 1 .. Len(s)
    BY <1>1
  <2>3. QED
    BY <1>1, <2>2
<1> HIDE DEF P
<1>6. (CHOOSE k \in 0 .. Len(s) : P(k)) = Len(s)
  BY <1>4, <1>5
<1>7. QED
  BY <1>2, <1>3, <1>6, SubSeqFull DEF s

\* What is in the buffer and what is still to be written make the text.
Printing ==
    doing = "print" /\ IsScalar(leaf) =>
        /\ pb.ended = TRUE /\ pb.chars \in Seq(STRING)
        /\ \E txt, y : TextOf(leaf, txt) /\ Spells(todo, y) /\ txt = pb.chars \o y

\* The beginning of a print, and a call to the print buffer.
LEMMA PrintingKept ==
    ASSUME Printing, IsPrintable(leaf), leaf' = leaf, ToJsonString \/ Write
    PROVE  Printing'
<1> SUFFICES ASSUME IsScalar(leaf)
             PROVE  /\ (pb.ended = TRUE /\ pb.chars \in Seq(STRING))'
                    /\ \E txt, y : TextOf(leaf, txt) /\ Spells(todo', y)
                                   /\ txt = pb'.chars \o y
  BY DEF Printing
<1>1. CASE ToJsonString
  <2>1. PICK flags : todo' = Calls(leaf, flags)
    BY <1>1 DEF ToJsonString, Printed, IsScalar
  <2>2. pb'.ended = TRUE /\ pb'.chars = <<>>
    BY <1>1 DEF ToJsonString, ResetBuf
  <2>3. PICK txt : TextOf(leaf, txt) /\ Spells(Calls(leaf, flags), txt)
    BY CallsSpell
  <2>4. txt = <<>> \o txt
    BY <2>3, TextIsText, ConcatEmptySeq
  <2>5. QED
    BY <2>1, <2>2, <2>3, <2>4
<1>2. CASE Write
  <2>1. PICK txt, y : TextOf(leaf, txt) /\ Spells(todo, y) /\ txt = pb.chars \o y
    BY <1>2 DEF Printing, Write
  <2>2. todo # <<>> /\ pb.chars \in Seq(STRING)
    BY <1>2 DEF Printing, Write
  <2> DEFINE b == pb.chars
             t == todo
  <2> HIDE DEF b, t
  <2>3. PICK u \in CallSeq, v, z \in Seq(STRING) :
           Spells(u, z) /\ todo = Put_(v) \o u /\ y = v \o z
    <3>1. Spells(t, y) /\ t # <<>>
      BY <2>1, <2>2 DEF t
    <3>2. OneAndMore(t, y)
      BY <3>1, SpellsFirst
    <3>3. QED
      BY <3>2 DEF OneAndMore, t
  <2>4. Head(todo) = [op |-> "append", s |-> v] /\ Tail(todo) = u
    BY <2>3, PutIsCall
  <2>5. pb' = MemAppend(pb, v) /\ todo' = u
    <3>1. Head(todo).op = "append" /\ Head(todo).s = v
      BY <2>4
    <3>2. QED
      BY <1>2, <2>4, <3>1 DEF Write
  <2>6. pb'.ended = TRUE /\ pb'.chars = pb.chars \o v
    BY <2>5 DEF MemAppend
  <2>7. pb.chars \o v \in Seq(STRING)
    BY <2>2, ConcatProperties
  <2>8. pb.chars \o (v \o z) = (pb.chars \o v) \o z
    <3>1. b \in Seq(STRING)
      BY <2>2 DEF b
    <3>2. b \o (v \o z) = (b \o v) \o z
      BY <3>1, ConcatAssociative
    <3>3. QED
      BY <3>2 DEF b
  <2>9. QED
    BY <2>1, <2>3, <2>5, <2>6, <2>7, <2>8
<1>3. QED
  BY <1>1, <1>2

-----------------------------------------------------------------------------
(* The parser on the text of an integer.                                   *)

\* Where the parser is on a text of digits, with no error on the way.
IntAhead  == Ahead /\ phase = "run" /\ err = "success" /\ end = Len(text)
IntWithin == \/ /\ Within_ /\ phase = "run" /\ err = "success"
                /\ end = Len(text) \/ (end = Len(text) + 2 /\ pos = Len(text))
             \/ /\ Within_ /\ phase \in {"out", "idle"} /\ err = "continue"
                /\ pos = end /\ end = Len(text)
IntBehind == /\ end = Len(text) + 2 /\ err = "success"
             /\ \/ /\ OneLevel("eatws", "finish", IntUpto(Len(text)))
                   /\ phase = "run" /\ pos \in {Len(text), Len(text) + 1}
                \/ /\ OneLevel("finish", "finish", IntUpto(Len(text)))
                   /\ phase \in {"run", "eof"} /\ pos = Len(text) + 1
IntGiven  == phase = "idle" /\ err = "success" /\ ret = IntUpto(Len(text))

IntRead == IntAhead \/ IntWithin \/ IntBehind \/ IntGiven

AllDigits == IsNumeral(text) /\ AllNumber(Len(text))

\* sscanf reads them.
LEMMA DigitsScan ==
    ASSUME AllDigits
    PROVE  Scans(Upto(Len(text)), FALSE)
<1> DEFINE L == Len(text)
           u == Upto(L)
<1>1. /\ L \in Nat \ {0} /\ text[1] \in Digit \cup {"-"}
      /\ text[1] = "-" => L > 1 /\ text[2] \in Digit
  BY NumeralBegins DEF AllDigits
<1>2. DOMAIN u = 1 .. L /\ \A i \in 1 .. L : u[i] = <<text[i]>>
  <2>1. text \in Seq(STRING) /\ L \in 1 .. L
    BY <1>1 DEF AllDigits, IsNumeral
  <2>2. QED
    BY <2>1, UptoAt
<1>3. u \in Seq(Seq(STRING)) /\ Len(u) = L
  <2>1. text \in Seq(STRING) /\ SubSeq(text, 1, L) = text /\ DOMAIN text = 1 .. L
    BY SubSeqFull DEF AllDigits, IsNumeral
  <2>2. \A i \in 1 .. L : <<text[i]>> \in Seq(STRING)
    BY <2>1
  <2>3. u = [i \in 1 .. L |-> <<text[i]>>]
    BY <2>1 DEF Upto, Chars
  <2> HIDE DEF u
  <2>4. QED
    BY <1>1, <2>2, <2>3
<1> HIDE DEF u
<1>4. u # <<>> /\ u[1] = <<text[1]>>
  BY <1>1, <1>2, <1>3, EmptySeq
<1>5. CASE text[1] = "-"
  <2>1. Tail(u) # <<>> /\ Tail(u)[1] = <<text[2]>>
    <3>1. Len(Tail(u)) = L - 1 /\ \A i \in 1 .. L - 1 : Tail(u)[i] = u[i + 1]
      BY <1>3, <1>4, HeadTailProperties
    <3>2. 1 \in 1 .. L - 1 /\ 2 \in 1 .. L /\ L - 1 # 0
      BY <1>1, <1>5
    <3>3. Tail(u)[1] = u[2]
      BY <3>1, <3>2
    <3>4. Tail(u) # <<>>
      BY <3>1, <3>2, EmptySeq
    <3>5. QED
      BY <1>2, <3>2, <3>3, <3>4
  <2>2. u[1] = <<"-">>
    BY <1>4, <1>5
  <2>3. QED
    BY <1>1, <1>5, <2>1, <2>2 DEF Scans, u
<1>6. CASE text[1] # "-"
  <2>1. u[1] # <<"-">> /\ u[1][1] = text[1]
    BY <1>4, <1>6
  <2>2. QED
    BY <1>1, <1>4, <1>6, <2>1 DEF Scans, u
<1>7. QED
  BY <1>5, <1>6

\* The beginning of a text of digits.
LEMMA IntAheadKeeps ==
    ASSUME AllDigits, IntAhead, Machine
    PROVE  text' = text /\ IntRead'
<1>1. PICK st \in {"eatws", "start"} :
         OneLevel(st, "start", None) /\ pos = 0 /\ Scanning(scan)
  BY DEF IntAhead, Ahead
<1>2. Top.state = st /\ Top.saved = "start"
  BY <1>1, LevelIsTop
<1>3. Len(text) \in Nat \ {0} /\ c \in Digit \cup {"-"}
  <2>1. Len(text) \in Nat \ {0}
    BY NumeralBegins DEF AllDigits
  <2>2. pos \in 0 .. Len(text)
    BY <1>1, <2>1
  <2>3. QED
    BY <1>1, <2>1, <2>2, NextChar DEF AllDigits
<1>4. text' = text /\ (Ahead \/ Within_)'
  BY AheadKeeps DEF AllDigits, IntAhead
<1>5. phase = "run" /\ pos # end /\ err = "success" /\ end = Len(text)
  BY <1>1, <1>3 DEF IntAhead
<1>6. EatWs \/ Start
  BY <1>2, <1>5 DEF Machine, At, EndOfChunk, Return, Finish, Inf, Null, Boolean, Literal,
     Comment, Text, StringEscape, EscapeUnicode, Number, Array, ArrayAdd, ArraySep,
     ObjectFieldStart, ObjectFieldEnd, ObjectValue, ObjectValueAdd, ObjectSep
<1>7. phase' = "run" /\ err' = "success" /\ end' = end
  <2>1. c \notin Space \cup {"/"}
    BY <1>3 DEF Space, Digit
  <2>2. c \notin {"{", "["} \cup DOMAIN LiteralState \cup Quote
    BY <1>3 DEF Digit, LiteralState, Quote
  <2>3. CASE EatWs
    BY <1>5, <2>1, <2>3 DEF EatWs, Redo, Quiet, Keep
  <2>4. CASE Start
    BY <1>3, <1>5, <2>2, <2>4 DEF Start, Redo, Keep
  <2>5. QED
    BY <1>6, <2>3, <2>4
<1>8. QED
  <2>1. end' = Len(text')
    BY <1>4, <1>5, <1>7
  <2>2. QED
    BY <1>4, <1>7, <2>1 DEF IntRead, IntAhead, IntWithin

\* A digit more, or the end of the text, which is no end of the number.
LEMMA IntWithinKeeps ==
    ASSUME AllDigits, IntWithin, Machine
    PROVE  text' = text /\ IntRead'
<1> DEFINE L == Len(text)
<1>1. /\ Within_ /\ pos \in 0 .. L /\ L \in Nat \ {0} /\ text \in Seq(STRING)
      /\ IsNumeral(text) /\ AllNumber(L)
  BY NumeralBegins DEF IntWithin, Within_, AllDigits, IsNumeral
<1>2. OneLevel("number", "start", None) /\ Top.state = "number" /\ Depth = 0
  BY <1>1, LevelIsTop DEF Within_
<1>3. /\ text' = text
      /\ Within_' \/ Behind'
  BY <1>1, WithinKeeps DEF IntWithin
<1>4. UNCHANGED stack => Within_'
  <2>1. SUFFICES ASSUME UNCHANGED stack, Behind' PROVE FALSE
    BY <1>3
  <2>2. PICK k, st : st # "number" /\ OneLevel(st, "finish", IntUpto(k))'
    BY <2>1 DEF Behind
  <2>3. stack[1] = Level("number", "start", None) /\ stack[1].state = st
    BY <1>2, <2>1, <2>2 DEF OneLevel, Level
  <2>4. QED
    BY <2>2, <2>3 DEF Level
<1>5. EndOfChunk \/ Number \/ Return
  BY <1>2 DEF Machine, At, EatWs, Start, Finish, Inf, Null, Boolean, Literal, Comment, Text,
     StringEscape, EscapeUnicode, Array, ArrayAdd, ArraySep, ObjectFieldStart,
     ObjectFieldEnd, ObjectValue, ObjectValueAdd, ObjectSep
<1>6. CASE EndOfChunk
  <2>1. phase' = "out" /\ err' = "continue" /\ UNCHANGED <<stack, pos, end>>
    BY <1>2, <1>6 DEF EndOfChunk, Keep
  <2>2. pos = end /\ end = L
    BY <1>1, <1>6 DEF EndOfChunk, IntWithin
  <2>3. QED
    BY <1>3, <1>4, <2>1, <2>2 DEF IntRead, IntWithin
<1>7. CASE Return
  <2>1. phase = "out" /\ err = "continue" /\ pos = end /\ end = L
    BY <1>7 DEF Return, IntWithin
  <2>2. phase' = "idle" /\ err' = "continue" /\ UNCHANGED <<stack, pos, end>>
    BY <1>7, <2>1 DEF Return
  <2>3. QED
    BY <1>3, <1>4, <2>1, <2>2 DEF IntRead, IntWithin
<1>8. CASE Number
  <2>1. /\ phase = "run" /\ err = "success" /\ end' = end /\ pos < end
        /\ end = L \/ (end = L + 2 /\ pos = L)
    BY <1>8 DEF Number, At, Keep, IntWithin
  <2>2. CASE pos < L
    <3>1. c \in NumberChar
      <4>1. c = text[pos + 1]
        BY <1>1, <2>2, NextChar
      <4>2. pos + 1 \in 1 .. L
        BY <1>1, <2>2
      <4>3. QED
        BY <1>1, <4>1, <4>2 DEF AllNumber
    <3>2. Advance /\ UNCHANGED <<stack, err>>
      BY <1>8, <3>1 DEF Number
    <3>3. c # NUL
      BY <3>1 DEF NumberChar, Digit, NUL
    <3>4. phase' = "run" /\ end = L
      BY <1>1, <2>1, <2>2, <3>2, <3>3 DEF Advance
    <3>5. QED
      BY <1>3, <1>4, <2>1, <3>2, <3>4 DEF IntRead, IntWithin
  <2>3. CASE pos = L
    <3>1. c = " " /\ c \notin NumberChar
      BY <1>1, <2>3, NextChar DEF NumberChar, Digit
    <3>2. scan.pb = Upto(L) /\ scan.is_double = FALSE
      BY <1>1, <2>3 DEF Within_
    <3>3. Scans(scan.pb, scan.is_double)
      BY <3>2, DigitsScan
    <3>4. Made(<<"int", scan.pb>>) /\ Redo /\ err' = err
      BY <1>8, <3>1, <3>2, <3>3 DEF Number
    <3>5. OneLevel("eatws", "finish", IntUpto(L))'
      <4> DEFINE v == <<"int", scan.pb>>
      <4>1. Made(v)
        BY <3>4
      <4>2. v = IntUpto(L)
        BY <3>2 DEF IntUpto
      <4> HIDE DEF v
      <4>3. stack' = <<Level("eatws", "finish", v)>>
        BY <1>2, <4>1, LevelIsTop DEF OneLevel
      <4>4. IntUpto(L)' = IntUpto(L)
        BY <1>3 DEF IntUpto, Upto
      <4>5. QED
        BY <4>2, <4>3, <4>4 DEF OneLevel
    <3>6. end = L + 2
      BY <1>1, <2>1, <2>3
    <3>7. QED
      BY <1>3, <2>1, <2>3, <3>4, <3>5, <3>6 DEF IntRead, IntBehind, Redo
  <2>4. QED
    BY <1>1, <2>2, <2>3
<1>9. QED
  BY <1>3, <1>5, <1>6, <1>7, <1>8

\* The space and the 0 at the end are read as such.
LEMMA IntBehindKeeps ==
    ASSUME AllDigits, IntBehind, Machine
    PROVE  text' = text /\ IntRead'
<1> DEFINE L == Len(text)
<1>1. L \in Nat \ {0} /\ end = L + 2 /\ err = "success"
  BY NumeralBegins DEF IntBehind, AllDigits
<1>2. PICK st \in {"eatws", "finish"} : OneLevel(st, "finish", IntUpto(L))
  BY DEF IntBehind
<1>3. Top.state = st /\ Top.saved = "finish" /\ Depth = 0 /\ Top.cur = IntUpto(L)
  BY <1>2, LevelIsTop
<1>4. ASSUME text' = text, UNCHANGED stack
      PROVE  OneLevel(st, "finish", IntUpto(Len(text)))'
  BY <1>2, <1>4 DEF OneLevel, IntUpto, Upto
<1>5. pos = L \/ pos = L + 1
  BY DEF IntBehind
<1>6. (pos = L => c = " ") /\ (pos = L + 1 => c = NUL)
  <2>1. ASSUME pos = L PROVE c = " "
    <3>1. pos \in 0 .. L
      BY <1>1, <2>1
    <3>2. QED
      BY <2>1, <3>1, NextChar DEF AllDigits
  <2>2. ASSUME pos = L + 1 PROVE c = NUL
    <3>1. ~(pos + 1 <= L) /\ pos + 1 # L + 1
      BY <1>1, <2>2
    <3>2. QED
      BY <3>1 DEF c, Char
  <2>3. QED
    BY <2>1, <2>2
<1>7. EatWs \/ Finish \/ Return
  <2>1. pos # end
    BY <1>1, <1>5
  <2>2. QED
    BY <1>2, <1>3, <2>1 DEF Machine, At, EndOfChunk, Start, Inf, Null, Boolean, Literal,
       Comment, Text, StringEscape, EscapeUnicode, Number, Array, ArrayAdd, ArraySep,
       ObjectFieldStart, ObjectFieldEnd, ObjectValue, ObjectValueAdd, ObjectSep
<1>8. CASE EatWs
  <2>1. phase = "run" /\ st = "eatws" /\ UNCHANGED <<text, end, err>>
    BY <1>3, <1>8 DEF EatWs, At, Quiet, Keep
  <2>2. CASE pos = L
    <3>1. c = " " /\ c \in Space
      BY <1>6, <2>2 DEF Space
    <3>2. Advance /\ UNCHANGED stack
      BY <1>8, <3>1 DEF EatWs
    <3>3. phase' = "run" /\ pos' = L + 1
      BY <2>2, <3>1, <3>2 DEF Advance, NUL
    <3>4. QED
      BY <1>1, <1>4, <2>1, <3>2, <3>3 DEF IntRead, IntBehind
  <2>3. CASE pos = L + 1
    <3>1. c \notin Space \cup {"/"}
      BY <1>6, <2>3 DEF Space, NUL
    <3>2. Goto("finish") /\ Redo
      BY <1>3, <1>8, <3>1 DEF EatWs
    <3>3. OneLevel("finish", "finish", IntUpto(L))'
      <4> DEFINE v == IntUpto(L)
      <4>1. OneLevel(st, "finish", v)
        BY <1>2
      <4>2. v' = v
        BY <2>1 DEF IntUpto, Upto
      <4> HIDE DEF v
      <4>3. stack' = <<Level("finish", "finish", v)>>
        BY <3>2, <4>1, LevelIsTop DEF OneLevel
      <4>4. QED
        BY <4>2, <4>3 DEF OneLevel, v
    <3>4. QED
      BY <1>1, <2>1, <2>3, <3>2, <3>3 DEF IntRead, IntBehind, Redo
  <2>4. QED
    BY <1>5, <2>2, <2>3
<1>9. CASE Finish
  <2>1. /\ UNCHANGED <<text, end, err, pos, stack>> /\ Leave
        /\ st = "finish"
    BY <1>3, <1>9 DEF Finish, Keep, At
  <2>2. pos = L + 1
    <3>1. stack[1].state = "finish"
      BY <1>2, <2>1 DEF OneLevel, Level
    <3>2. ~OneLevel("eatws", "finish", IntUpto(L))
      BY <3>1 DEF OneLevel, Level
    <3>3. QED
      BY <3>2 DEF IntBehind
  <2>3. phase' = "eof"
    BY <1>6, <2>1, <2>2 DEF Leave
  <2>4. QED
    BY <1>1, <1>4, <2>1, <2>2, <2>3 DEF IntRead, IntBehind
<1>10. CASE Return
  <2>1. /\ text' = text /\ phase' = "idle" /\ err' = "success"
        /\ ret' = IntUpto(L)
    BY <1>1, <1>3, <1>10 DEF Return
  <2>2. QED
    BY <2>1 DEF IntRead, IntGiven, IntUpto, Upto
<1>11. QED
  BY <1>7, <1>8, <1>9, <1>10

\* Digits are read to their end, in one call or two.
LEMMA IntReadKeeps ==
    ASSUME AllDigits, IntRead, Machine \/ ParseEnd
    PROVE  text' = text /\ IntRead'
<1>1. CASE Machine
  <2>1. ~IntGiven
    <3>1. phase # "idle"
      BY <1>1 DEF Machine, At, EndOfChunk, EatWs, Start, Finish, Inf, Null, Boolean, Literal,
         Comment, Text, StringEscape, EscapeUnicode, Number, Array, ArrayAdd, ArraySep,
         ObjectFieldStart, ObjectFieldEnd, ObjectValue, ObjectValueAdd, ObjectSep, Return
    <3>2. QED
      BY <3>1 DEF IntGiven
  <2>2. QED
    BY <1>1, <2>1, IntAheadKeeps, IntWithinKeeps, IntBehindKeeps DEF IntRead
<1>2. CASE ParseEnd
  <2>1. /\ text' = text /\ pos' = pos /\ stack' = stack /\ phase' = "run"
        /\ phase = "idle" /\ err = "continue" /\ pos = Len(text)
        /\ err' = "success" /\ end' = Len(text) + 2
        /\ scan' = [scan EXCEPT !.hi = <<>>, !.case_len = 0]
    BY <1>2 DEF ParseEnd, Call
  <2>2. Within_
    BY <2>1 DEF IntRead, IntAhead, IntWithin, IntBehind, IntGiven
  <2>3. Scanning(scan') /\ scan'.pb = scan.pb /\ scan'.is_double = scan.is_double
    BY <2>1, <2>2 DEF Within_, Scanning
  <2>4. Len(text) \in Nat
    BY NumeralBegins DEF AllDigits
  <2>5. Within_'
    BY <2>1, <2>2, <2>3, <2>4 DEF Within_, OneLevel, AllNumber, Upto
  <2>6. QED
    BY <2>1, <2>5 DEF IntRead, IntWithin
<1>3. QED
  BY <1>1, <1>2

-----------------------------------------------------------------------------
(* The parser on the text of a string.                                     *)

Mark == "\""

\* text is that of the string s, between quotes.
Quoted(s, x, at) ==
    IsText(s) /\ Laid(s, 1, x, at) /\ text = (<<Mark>> \o x) \o <<Mark>>

\* Where the quotes are, and the characters between them.
LEMMA QuotedHas ==
    ASSUME NEW s, NEW x, NEW at, Quoted(s, x, at)
    PROVE  /\ Len(x) \in Nat /\ Len(text) = Len(x) + 2
           /\ text[1] = Mark /\ text[Len(x) + 2] = Mark
           /\ \A k \in 1 .. Len(x) : text[k + 1] = x[k] /\ x[k] # NUL
           /\ Len(s) \in Nat /\ s \in Seq(Seq(STRING))
           /\ at[1] = 0 /\ at[Len(s) + 1] = Len(x)
           /\ \A i \in 1 .. Len(s) + 1 : at[i] \in Nat /\ at[i] <= Len(x)
<1> DEFINE S == STRING
           q == <<Mark>>
<1>1. x \in Seq(S \ {NUL}) /\ s \in Seq(Seq(STRING)) /\ IsText(s)
  BY DEF Quoted, Laid, IsText
<1>2. Mark \in S /\ Mark # NUL
  BY StringsAssumption DEF Mark, NUL
<1> HIDE DEF S
<1>3. x \in Seq(S) /\ Len(x) \in Nat /\ \A k \in 1 .. Len(x) : x[k] # NUL
  <2>1. \A k \in 1 .. Len(x) : x[k] \in S \ {NUL}
    BY <1>1, ElementOfSeq
  <2>2. x \in Seq(S)
    <3>1. S \ {NUL} \subseteq S
      OBVIOUS
    <3>2. QED
      BY <1>1, <3>1, SeqMonotonic
  <2>3. QED
    BY <2>1, <2>2, LenProperties
<1>4. q \in Seq(S) /\ Len(q) = 1 /\ q[1] = Mark
  BY <1>2
<1> HIDE DEF q
<1>5. /\ q \o x \in Seq(S) /\ Len(q \o x) = 1 + Len(x)
      /\ (q \o x)[1] = Mark
      /\ \A k \in 1 .. Len(x) : (q \o x)[k + 1] = x[k]
  <2>1. /\ q \o x \in Seq(S) /\ Len(q \o x) = Len(q) + Len(x)
        /\ \A i \in 1 .. Len(q) + Len(x) :
               (q \o x)[i] = IF i <= Len(q) THEN q[i] ELSE x[i - Len(q)]
    BY <1>3, <1>4, ConcatProperties
  <2>2. 1 \in 1 .. Len(q) + Len(x) /\ 1 <= Len(q)
    BY <1>3, <1>4
  <2>3. \A k \in 1 .. Len(x) : /\ k + 1 \in 1 .. Len(q) + Len(x)
                               /\ ~(k + 1 <= Len(q)) /\ (k + 1) - Len(q) = k
    BY <1>3, <1>4
  <2>4. QED
    BY <1>4, <2>1, <2>2, <2>3
<1> DEFINE y == q \o x
<1> HIDE DEF y
<1>6. /\ Len(text) = Len(x) + 2 /\ text[1] = Mark /\ text[Len(x) + 2] = Mark
      /\ \A k \in 1 .. Len(x) : text[k + 1] = x[k]
  <2>1. text = y \o q
    BY DEF Quoted, y, q
  <2>2. y \in Seq(S) /\ Len(y) = 1 + Len(x)
    BY <1>5 DEF y
  <2>3. /\ Len(text) = Len(y) + Len(q)
        /\ \A i \in 1 .. Len(y) + Len(q) :
               text[i] = IF i <= Len(y) THEN y[i] ELSE q[i - Len(y)]
    BY <1>4, <2>1, <2>2, ConcatProperties
  <2>4. /\ 1 \in 1 .. Len(y) + Len(q) /\ 1 <= Len(y)
        /\ Len(x) + 2 \in 1 .. Len(y) + Len(q) /\ ~(Len(x) + 2 <= Len(y))
        /\ (Len(x) + 2) - Len(y) = 1 /\ Len(y) + Len(q) = Len(x) + 2
    BY <1>3, <1>4, <2>2
  <2>5. \A k \in 1 .. Len(x) : k + 1 \in 1 .. Len(y) + Len(q) /\ k + 1 <= Len(y)
    BY <1>3, <1>4, <2>2
  <2>6. text[1] = y[1] /\ text[Len(x) + 2] = q[1] /\ Len(text) = Len(x) + 2
    BY <2>3, <2>4
  <2>7. \A k \in 1 .. Len(x) : text[k + 1] = y[k + 1]
    BY <2>3, <2>5
  <2>8. y[1] = Mark /\ \A k \in 1 .. Len(x) : y[k + 1] = x[k]
    BY <1>5 DEF y
  <2>9. QED
    BY <1>4, <2>6, <2>7, <2>8
<1>7. Len(s) \in Nat /\ at[1] = 0 /\ at[Len(s) + 1] = Len(x)
  BY <1>1, TextHas DEF Quoted, Laid
<1>8. \A i \in 1 .. Len(s) + 1 : at[i] \in Nat /\ at[i] <= Len(x)
  <2>1. TAKE i \in 1 .. Len(s) + 1
  <2>2. at[i] \in Nat
    BY DEF Quoted, Laid
  <2>3. CASE i = Len(s) + 1
    BY <1>3, <1>7, <2>2, <2>3
  <2>4. CASE i # Len(s) + 1
    <3>1. i \in 1 .. Len(s)
      BY <1>7, <2>4
    <3>2. at[i + 1] = at[i] + Len(Unit(s[i])) /\ at[i + 1] <= Len(x)
      BY <3>1 DEF Quoted, Laid
    <3>3. Len(Unit(s[i])) \in Nat
      BY <1>1, <3>1, TextHas
    <3>4. QED
      BY <1>3, <2>2, <3>2, <3>3
  <2>5. QED
    BY <2>3, <2>4
<1>9. QED
  BY <1>1, <1>3, <1>6, <1>7, <1>8

\* The character looked at: the m-th of those written for s[i], or a quote.
LEMMA CharOf ==
    ASSUME NEW s, NEW x, NEW at, Quoted(s, x, at), NEW i \in 1 .. Len(s),
           NEW m \in 1 .. Len(Unit(s[i])), pos = at[i] + m
    PROVE  /\ c = Unit(s[i])[m] /\ c # NUL
           /\ pos \in Nat /\ pos < Len(text)
<1>1. /\ Len(x) \in Nat /\ Len(text) = Len(x) + 2 /\ Len(s) \in Nat
      /\ \A k \in 1 .. Len(x) : text[k + 1] = x[k] /\ x[k] # NUL
      /\ \A j \in 1 .. Len(s) + 1 : at[j] \in Nat /\ at[j] <= Len(x)
  BY QuotedHas
<1>2. i \in 1 .. Len(s) + 1 /\ IsText(s)
  BY <1>1 DEF Quoted
<1>3. /\ at[i + 1] = at[i] + Len(Unit(s[i])) /\ at[i + 1] <= Len(x)
      /\ x[at[i] + m] = Unit(s[i])[m]
  BY DEF Quoted, Laid
<1>4. at[i] \in Nat /\ Len(Unit(s[i])) \in Nat
  BY <1>1, <1>2, TextHas
<1> DEFINE a == at[i]
           l == Len(Unit(s[i]))
           z == Len(x)
<1>5. a + m \in 1 .. z
  <2>1. a \in Nat /\ l \in Nat /\ z \in Nat /\ m \in 1 .. l /\ a + l <= z
    BY <1>1, <1>3, <1>4
  <2> HIDE DEF a, l, z
  <2>2. QED
    BY <2>1
<1>6. pos + 1 <= Len(text) /\ pos \in Nat /\ pos < Len(text)
  <2>1. pos = a + m /\ Len(text) = z + 2 /\ z \in Nat
    BY <1>1
  <2> HIDE DEF a, z
  <2>2. QED
    BY <1>5, <2>1
<1>7. c = text[pos + 1]
  BY <1>6 DEF c, Char
<1>8. text[pos + 1] = x[pos] /\ x[pos] # NUL
  BY <1>1, <1>5
<1>9. QED
  BY <1>3, <1>6, <1>7, <1>8

\* The first and the last character of the text.
LEMMA MarkOf ==
    ASSUME NEW s, NEW x, NEW at, Quoted(s, x, at), pos = 0 \/ pos = at[Len(s) + 1] + 1
    PROVE  /\ c = Mark /\ c # NUL
           /\ pos \in Nat /\ pos < Len(text)
           /\ pos # 0 => pos + 1 = Len(text)
<1>1. /\ Len(x) \in Nat /\ Len(text) = Len(x) + 2
      /\ text[1] = Mark /\ text[Len(x) + 2] = Mark /\ at[Len(s) + 1] = Len(x)
  BY QuotedHas
<1>2. pos = 0 \/ pos = Len(x) + 1
  BY <1>1
<1>3. /\ pos \in Nat /\ pos + 1 <= Len(text) /\ pos < Len(text)
      /\ pos # 0 => pos + 1 = Len(text)
  BY <1>1, <1>2
<1>4. c = text[pos + 1]
  BY <1>3 DEF c, Char
<1>5. c = Mark
  BY <1>1, <1>2, <1>4
<1>6. QED
  BY <1>3, <1>5 DEF Mark, NUL

\* The first i elements of s, one more.
LEMMA OneMore ==
    ASSUME NEW T, NEW s \in Seq(T), NEW i \in 1 .. Len(s)
    PROVE  Append(SubSeq(s, 1, i - 1), s[i]) = SubSeq(s, 1, i)
<1> DEFINE u == SubSeq(s, 1, i - 1)
           v == SubSeq(s, 1, i)
           w == Append(u, s[i])
<1>1. Len(s) \in Nat /\ i \in Nat /\ s[i] \in T
  BY LenProperties, ElementOfSeq
<1>2. u \in Seq(T) /\ Len(u) = i - 1 /\ \A k \in 1 .. i - 1 : u[k] = s[k]
  BY <1>1
<1>3. v \in Seq(T) /\ Len(v) = i /\ \A k \in 1 .. i : v[k] = s[k]
  BY <1>1
<1> HIDE DEF u, v
<1>4. /\ w \in Seq(T) /\ Len(w) = (i - 1) + 1
      /\ \A k \in 1 .. i - 1 : w[k] = u[k]
      /\ w[(i - 1) + 1] = s[i]
  BY <1>1, <1>2, AppendProperties
<1> HIDE DEF w
<1>5. Len(w) = Len(v)
  BY <1>1, <1>3, <1>4
<1>6. \A k \in 1 .. Len(w) : w[k] = v[k]
  <2>1. \A k \in 1 .. i : k \in 1 .. i - 1 \/ k = (i - 1) + 1
    BY <1>1
  <2>2. (i - 1) + 1 = i /\ i \in 1 .. i
    BY <1>1
  <2>3. \A k \in 1 .. i : w[k] = v[k]
    BY <1>2, <1>3, <1>4, <2>1, <2>2
  <2>4. QED
    BY <1>3, <1>5, <2>3
<1>7. QED
  BY <1>3, <1>4, <1>5, <1>6, SeqEqual DEF u, v, w

\* A call on the whole text, without an error so far.
Steady == phase = "run" /\ err = "success" /\ end = Len(text)

\* The characters of s in front of i are in the buffer.
HasText(s, i) == Scanning(scan) /\ scan.quote = Mark /\ scan.pb = SubSeq(s, 1, i - 1)

\* Before the string; at its character i, whole, after its \ or within its code
\* unit; behind the string; and the value given.
StrAhead == Ahead /\ Steady
StrAt(s, at) == \E i \in 1 .. Len(s) + 1 :
    /\ \E sv : OneLevel("string", sv, None)
    /\ pos = at[i] + 1 /\ HasText(s, i) /\ Steady
StrEscape(s, at) == \E i \in 1 .. Len(s) :
    /\ OneLevel("string_escape", "string", None)
    /\ pos = at[i] + 2 /\ HasText(s, i) /\ Steady
    /\ ~AsItIs(s[i])
StrUnit(s, at) == \E i \in 1 .. Len(s), u \in UnitsBelow :
    /\ OneLevel("escape_unicode", "string", None)
    /\ AsUnit(s[i], u)
    /\ scan.st_pos \in 0 .. HexDigits - 1 /\ scan.ucs = SubSeq(u, 1, scan.st_pos)
    /\ pos = at[i] + 3 + scan.st_pos /\ HasText(s, i) /\ Steady
StrBehind(s) ==
    /\ OneLevel("eatws", "finish", <<"string", s>>) /\ err = "success"
    /\ phase = "out" \/ (phase = "run" /\ pos = end /\ pos \in Nat)
StrGiven(s) == phase = "idle" /\ err = "success" /\ ret = <<"string", s>>

StrRead(s, at) ==
    \/ StrAhead \/ StrAt(s, at) \/ StrEscape(s, at) \/ StrUnit(s, at)
    \/ StrBehind(s) \/ StrGiven(s)

\* The characters of an escape.
LEMMA UnitOfUnit ==
    ASSUME NEW e, NEW u, AsUnit(e, u)
    PROVE  /\ Unit(e)[1] = "\\" /\ Len(Unit(e)) = 2 + HexDigits /\ Unit(e)[2] = "u"
           /\ \A m \in 1 .. HexDigits : Unit(e)[2 + m] = u[m]
<1> DEFINE a == <<"\\", "u">>
           S == HexChar \cup {"\\", "u"}
<1>1. u \in UnitsBelow /\ Escaped(e) = a \o u
  BY DEF AsUnit
<1>2. u \in Seq(S) /\ Len(u) = HexDigits /\ HexDigits \in Nat \ {0}
  <2>1. u \in Seq(HexChar \ {NUL}) /\ Len(u) = HexDigits
    BY <1>1, UnitsAssumption
  <2>2. HexChar \ {NUL} \subseteq S
    OBVIOUS
  <2> HIDE DEF S
  <2>3. QED
    BY <2>1, <2>2, SeqMonotonic, HexAssumption
<1>3. a \in Seq(S) /\ Len(a) = 2 /\ a[1] = "\\" /\ a[2] = "u"
  <2>1. "\\" \in S /\ "u" \in S
    OBVIOUS
  <2> HIDE DEF S
  <2>2. QED
    BY <2>1
<1> HIDE DEF a, S
<1>4. /\ Len(a \o u) = Len(a) + Len(u)
      /\ \A i \in 1 .. Len(a) + Len(u) :
             (a \o u)[i] = IF i <= Len(a) THEN a[i] ELSE u[i - Len(a)]
  BY <1>2, <1>3, ConcatProperties
<1>5. Unit(e) = a \o u
  <2>1. Len(a \o u) # 0
    BY <1>2, <1>3, <1>4
  <2>2. a \o u # <<>>
    BY <2>1
  <2>3. QED
    BY <1>1, <2>2 DEF Unit
<1>6. /\ 1 \in 1 .. Len(a) + Len(u) /\ 1 <= Len(a)
      /\ 2 \in 1 .. Len(a) + Len(u) /\ 2 <= Len(a)
      /\ Len(a) + Len(u) = 2 + HexDigits
  BY <1>2, <1>3
<1>7. \A m \in 1 .. HexDigits : /\ 2 + m \in 1 .. Len(a) + Len(u)
                                /\ ~(2 + m <= Len(a)) /\ (2 + m) - Len(a) = m
  BY <1>2, <1>3
<1>8. \A m \in 1 .. HexDigits : Unit(e)[2 + m] = u[m]
  BY <1>4, <1>5, <1>7
<1>9. Unit(e)[1] = "\\" /\ Unit(e)[2] = "u"
  BY <1>3, <1>4, <1>5, <1>6
<1>10. QED
  BY <1>4, <1>5, <1>6, <1>8, <1>9

\* An escape is one of a letter or one of a code unit.
LEMMA EscapeHas ==
    ASSUME NEW e \in Seq(STRING), IsChar(e), ~AsItIs(e)
    PROVE  /\ Unit(e)[1] = "\\"
           /\ \/ AsLetter(e) /\ Len(Unit(e)) = 2 /\ Unit(e)[2] = Named[e[1]]
              \/ \E u \in UnitsBelow :
                    AsUnit(e, u) /\ Len(Unit(e)) = 2 + HexDigits /\ Unit(e)[2] = "u"
<1>1. Escaped(e) # <<>> /\ (AsLetter(e) \/ \E u : AsUnit(e, u))
  BY CharIsWritten
<1>2. CASE AsLetter(e)
  <2>1. Unit(e) = <<"\\", Named[e[1]]>>
    BY <1>1, <1>2 DEF AsLetter, Unit
  <2> DEFINE y == Named[e[1]]
  <2> HIDE DEF y
  <2>2. Unit(e) = <<"\\", y>>
    BY <2>1 DEF y
  <2>3. Unit(e)[1] = "\\" /\ Len(Unit(e)) = 2 /\ Unit(e)[2] = y
    BY <2>2
  <2>4. QED
    BY <1>2, <2>3 DEF y
<1>3. CASE \E u : AsUnit(e, u)
  <2>1. PICK u : AsUnit(e, u)
    BY <1>3
  <2>2. u \in UnitsBelow
    BY <2>1 DEF AsUnit
  <2>3. QED
    BY <2>1, <2>2, UnitOfUnit
<1>4. QED
  BY <1>1, <1>2, <1>3

\* scan with other contents of the buffer.
LEMMA ScanOf ==
    ASSUME Scanning(scan), NEW p, scan' = [scan EXCEPT !.pb = p]
    PROVE  /\ Scanning(scan') /\ scan'.pb = p /\ scan'.quote = scan.quote
BY DEF Scanning

\* The quote in front of a string.
LEMMA StrAheadKeeps ==
    ASSUME NEW s, NEW x, NEW at, Quoted(s, x, at), StrAhead, Machine
    PROVE  text' = text /\ StrRead(s, at)'
<1>1. PICK st \in {"eatws", "start"} :
         OneLevel(st, "start", None) /\ pos = 0 /\ Scanning(scan)
  BY DEF StrAhead, Ahead
<1>2. Top.state = st /\ Top.saved = "start"
  BY <1>1, LevelIsTop
<1>3. c = Mark /\ c # NUL /\ pos < Len(text) /\ pos \in Nat
  BY <1>1, MarkOf
<1>4. phase = "run" /\ pos # end /\ err = "success" /\ end = Len(text)
  BY <1>1, <1>3 DEF StrAhead, Steady
<1>5. EatWs \/ Start
  BY <1>2, <1>4 DEF Machine, At, EndOfChunk, Return, Finish, Inf, Null, Boolean, Literal,
     Comment, Text, StringEscape, EscapeUnicode, Number, Array, ArrayAdd, ArraySep,
     ObjectFieldStart, ObjectFieldEnd, ObjectValue, ObjectValueAdd, ObjectSep
<1>6. CASE EatWs
  <2>1. c \notin Space \cup {"/"}
    BY <1>3 DEF Space, Mark
  <2>2. Goto("start") /\ UNCHANGED <<text, end, err, pos, phase, scan>>
    BY <1>2, <1>6, <2>1 DEF EatWs, Redo, Quiet, Keep
  <2>3. OneLevel("start", "start", None)'
    BY <1>1, <2>2, LevelIsTop
  <2>4. Ahead'
    BY <1>1, <2>2, <2>3 DEF Ahead
  <2>5. QED
    BY <1>4, <2>2, <2>4 DEF StrRead, StrAhead, Steady
<1>7. CASE Start
  <2>1. c \notin {"{", "["} \cup DOMAIN LiteralState /\ c \in Quote
    BY <1>3 DEF LiteralState, Quote, Mark
  <2>2. c \notin Digit \cup {"-"}
    BY <1>3 DEF Digit, Mark
  <2>3. /\ Goto("string") /\ Advance /\ UNCHANGED <<text, end, err>>
        /\ scan' = [scan EXCEPT !.pb = <<>>, !.quote = c]
    BY <1>7, <2>1, <2>2 DEF Start, Keep
  <2>4. OneLevel("string", "start", None)'
    BY <1>1, <2>3, LevelIsTop
  <2>5. pos' = 1 /\ phase' = "run"
    BY <1>1, <1>3, <2>3 DEF Advance
  <2>6. Scanning(scan') /\ scan'.pb = <<>> /\ scan'.quote = Mark
    BY <1>1, <1>3, <2>3 DEF Scanning
  <2>7. SubSeq(s, 1, 1 - 1) = <<>> /\ at[1] = 0 /\ 1 \in 1 .. Len(s) + 1
    <3>1. Len(s) \in Nat /\ at[1] = 0
      BY QuotedHas
    <3>2. QED
      BY <3>1, SubSeqEmpty
  <2>8. HasText(s, 1)'
    BY <2>6, <2>7 DEF HasText
  <2>9. StrAt(s, at)'
    BY <1>4, <2>3, <2>4, <2>5, <2>7, <2>8 DEF StrAt, Steady
  <2>10. QED
    BY <2>3, <2>9 DEF StrRead
<1>8. QED
  BY <1>5, <1>6, <1>7

\* A character of the string that is no escape, a \, or the quote behind it.
LEMMA StrAtKeeps ==
    ASSUME NEW s, NEW x, NEW at, Quoted(s, x, at), StrAt(s, at), Machine
    PROVE  text' = text /\ StrRead(s, at)'
<1>0. PICK i \in 1 .. Len(s) + 1 :
         /\ \E sv : OneLevel("string", sv, None)
         /\ pos = at[i] + 1 /\ HasText(s, i) /\ Steady
  BY DEF StrAt
<1>1. PICK sv : /\ OneLevel("string", sv, None)
                /\ pos = at[i] + 1 /\ HasText(s, i) /\ Steady
  BY <1>0
<1>2. Top.state = "string"
  BY <1>1, LevelIsTop
<1>3. /\ Scanning(scan) /\ scan.quote = Mark /\ scan.pb = SubSeq(s, 1, i - 1)
      /\ phase = "run" /\ err = "success" /\ end = Len(text)
  BY <1>1 DEF HasText, Steady
<1>4. /\ Len(s) \in Nat /\ s \in Seq(Seq(STRING)) /\ IsText(s)
      /\ \A j \in 1 .. Len(s) + 1 : at[j] \in Nat
  BY QuotedHas DEF Quoted
<1> DEFINE U == Unit(s[i])
<1>5. i \in 1 .. Len(s) =>
         /\ s[i] \in Seq(STRING) /\ IsChar(s[i]) /\ Len(U) \in Nat \ {0}
         /\ at[i + 1] = at[i] + Len(U)
         /\ i + 1 \in 1 .. Len(s) + 1 /\ (i + 1) - 1 = i
  <2>1. SUFFICES ASSUME i \in 1 .. Len(s)
                 PROVE  /\ s[i] \in Seq(STRING) /\ IsChar(s[i]) /\ Len(U) \in Nat \ {0}
                        /\ at[i + 1] = at[i] + Len(U)
                        /\ i + 1 \in 1 .. Len(s) + 1 /\ (i + 1) - 1 = i
    OBVIOUS
  <2>2. at[i + 1] = at[i] + Len(U)
    BY <2>1 DEF Quoted, Laid
  <2>3. i + 1 \in 1 .. Len(s) + 1 /\ (i + 1) - 1 = i
    BY <1>4, <2>1
  <2>4. QED
    BY <1>4, <2>1, <2>2, <2>3, TextHas
<1>6. i \in 1 .. Len(s) => c = U[1]
  <2>1. SUFFICES ASSUME i \in 1 .. Len(s) PROVE c = U[1]
    OBVIOUS
  <2>2. 1 \in 1 .. Len(U)
    BY <1>5, <2>1
  <2> HIDE DEF U
  <2>3. QED
    BY <1>1, <2>1, <2>2, CharOf DEF U
<1>7. i \notin 1 .. Len(s) => i = Len(s) + 1 /\ c = Mark /\ pos + 1 = Len(text)
  <2>1. SUFFICES ASSUME i \notin 1 .. Len(s)
                 PROVE  i = Len(s) + 1 /\ c = Mark /\ pos + 1 = Len(text)
    OBVIOUS
  <2>2. i = Len(s) + 1
    BY <1>4, <2>1
  <2>3. pos = at[Len(s) + 1] + 1 /\ pos # 0
    BY <1>1, <1>4, <2>2
  <2>4. QED
    BY <2>2, <2>3, MarkOf
<1>8. c # NUL /\ pos < Len(text) /\ pos \in Nat
  <2>1. CASE i \in 1 .. Len(s)
    <3>1. 1 \in 1 .. Len(U)
      BY <1>5, <2>1
    <3> HIDE DEF U
    <3>2. QED
      BY <1>1, <2>1, <3>1, CharOf DEF U
  <2>2. CASE i \notin 1 .. Len(s)
    <3>1. pos = at[Len(s) + 1] + 1
      BY <1>1, <1>7, <2>2
    <3>2. QED
      BY <3>1, MarkOf
  <2>3. QED
    BY <2>1, <2>2
<1>9. Text
  <2>1. pos # end
    BY <1>3, <1>8
  <2>2. QED
    BY <1>2, <1>3, <2>1 DEF Machine, At, EndOfChunk, Return, EatWs, Start, Finish, Inf,
       Null, Boolean, Literal, Comment, StringEscape, EscapeUnicode, Number, Array,
       ArrayAdd, ArraySep, ObjectFieldStart, ObjectFieldEnd, ObjectValue, ObjectValueAdd,
       ObjectSep
<1>10. /\ Advance /\ UNCHANGED <<text, end, err>>
       /\ \/ c = Mark /\ Made(<<"string", scan.pb>>) /\ UNCHANGED scan
          \/ /\ c = "\\" /\ Set([Top EXCEPT !.state = "string_escape", !.saved = "string"])
             /\ UNCHANGED scan
          \/ /\ c \notin {Mark, "\\"} /\ UNCHANGED stack
             /\ scan' = [scan EXCEPT !.pb = Append(@, <<c>>)]
  BY <1>2, <1>3, <1>9 DEF Text, At, Keep
<1>11. pos' = pos + 1 /\ phase' = "run"
  BY <1>8, <1>10 DEF Advance
<1>12. CASE i \notin 1 .. Len(s)
  <2>1. c = Mark /\ i = Len(s) + 1 /\ pos' = end'
    BY <1>3, <1>7, <1>10, <1>11, <1>12
  <2>2. Made(<<"string", scan.pb>>)
    BY <1>10, <2>1 DEF Mark
  <2>3. scan.pb = s
    <3>1. i - 1 = Len(s)
      BY <1>4, <2>1
    <3>2. QED
      BY <1>3, <1>4, <3>1, SubSeqFull
  <2>4. OneLevel("eatws", "finish", <<"string", s>>)'
    <3> DEFINE v == <<"string", s>>
    <3>1. Made(v)
      BY <2>2, <2>3
    <3> HIDE DEF v
    <3>2. OneLevel("eatws", "finish", v)'
      BY <1>1, <3>1, LevelIsTop
    <3>3. QED
      BY <3>2 DEF v
  <2>5. StrBehind(s)'
    BY <1>3, <1>8, <1>10, <1>11, <2>1, <2>4 DEF StrBehind
  <2>6. QED
    BY <1>10, <2>5 DEF StrRead
<1>13. CASE i \in 1 .. Len(s) /\ AsItIs(s[i])
  <2>1. U = s[i] /\ s[i] = <<s[i][1]>> /\ s[i][1] \notin {"\"", "\\", NUL}
    BY <1>13 DEF Unit, AsItIs
  <2>2. c \notin {Mark, "\\"} /\ <<c>> = s[i] /\ Len(U) = 1
    <3>1. Len(s[i]) = 1
      <4> DEFINE e == s[i][1]
      <4>1. s[i] = <<e>>
        BY <2>1
      <4> HIDE DEF e
      <4>2. QED
        BY <4>1
    <3>2. c = s[i][1]
      BY <1>6, <1>13, <2>1
    <3>3. QED
      BY <2>1, <3>1, <3>2 DEF Mark
  <2>3. UNCHANGED stack /\ scan' = [scan EXCEPT !.pb = Append(@, <<c>>)]
    BY <1>10, <2>2
  <2>4. Append(scan.pb, <<c>>) = SubSeq(s, 1, i)
    BY <1>3, <1>4, <1>13, <2>2, OneMore
  <2>5. HasText(s, i + 1)'
    <3> DEFINE p == Append(scan.pb, <<c>>)
    <3>1. scan' = [scan EXCEPT !.pb = p]
      BY <2>3
    <3> HIDE DEF p
    <3>2. Scanning(scan') /\ scan'.pb = p /\ scan'.quote = scan.quote
      BY <1>3, <3>1, ScanOf
    <3>3. QED
      BY <1>3, <1>5, <1>13, <2>4, <3>2 DEF HasText, p
  <2>6. pos' = at[i + 1] + 1
    BY <1>1, <1>4, <1>5, <1>11, <1>13, <2>2
  <2>7. OneLevel("string", sv, None)'
    BY <1>1, <2>3 DEF OneLevel
  <2>8. StrAt(s, at)'
    BY <1>3, <1>5, <1>10, <1>11, <1>13, <2>5, <2>6, <2>7 DEF StrAt, Steady
  <2>9. QED
    BY <1>10, <2>8 DEF StrRead
<1>14. CASE i \in 1 .. Len(s) /\ ~AsItIs(s[i])
  <2>1. c = "\\"
    BY <1>5, <1>6, <1>14, EscapeHas
  <2>2. /\ Set([Top EXCEPT !.state = "string_escape", !.saved = "string"])
        /\ UNCHANGED scan
    BY <1>10, <2>1 DEF Mark
  <2>3. OneLevel("string_escape", "string", None)'
    <3> DEFINE r1 == [Top EXCEPT !.state = "string_escape"]
               r2 == [r1 EXCEPT !.saved = "string"]
    <3>1. Set(r2)
      BY <2>2
    <3>2. r2 = Level("string_escape", "string", None)
      <4>1. Top = Level("string", sv, None)
        BY <1>1, LevelIsTop
      <4>2. r1 = Level("string_escape", sv, None)
        BY <4>1 DEF Level
      <4> HIDE DEF r1
      <4>3. QED
        BY <4>2 DEF Level
    <3> HIDE DEF r2
    <3>3. stack' = <<r2>>
      BY <1>1, <3>1, LevelIsTop
    <3>4. QED
      BY <3>2, <3>3 DEF OneLevel
  <2>4. HasText(s, i)' /\ pos' = at[i] + 2
    BY <1>1, <1>4, <1>11, <2>2 DEF HasText, Scanning
  <2>5. StrEscape(s, at)'
    BY <1>3, <1>10, <1>11, <1>14, <2>3, <2>4 DEF StrEscape, Steady
  <2>6. QED
    BY <1>10, <2>5 DEF StrRead
<1>15. QED
  BY <1>12, <1>13, <1>14

\* What is known of the character at i.
LEMMA CharHas ==
    ASSUME NEW s, NEW x, NEW at, Quoted(s, x, at), NEW i \in 1 .. Len(s)
    PROVE  /\ s[i] \in Seq(STRING) /\ IsChar(s[i])
           /\ at[i] \in Nat /\ at[i + 1] = at[i] + Len(Unit(s[i]))
           /\ i + 1 \in 1 .. Len(s) + 1 /\ (i + 1) - 1 = i
           /\ s \in Seq(Seq(STRING)) /\ Append(SubSeq(s, 1, i - 1), s[i]) = SubSeq(s, 1, i)
<1>1. Len(s) \in Nat /\ s \in Seq(Seq(STRING)) /\ IsText(s)
  BY QuotedHas DEF Quoted
<1>2. i \in 1 .. Len(s) + 1 /\ i + 1 \in 1 .. Len(s) + 1 /\ (i + 1) - 1 = i
  BY <1>1
<1>3. at[i] \in Nat
  BY <1>2, QuotedHas
<1>4. at[i + 1] = at[i] + Len(Unit(s[i]))
  BY DEF Quoted, Laid
<1>5. QED
  BY <1>1, <1>2, <1>3, <1>4, TextHas, OneMore

\* After the last character of an escape the string goes on.
LEMMA BackInString ==
    ASSUME NEW s, NEW x, NEW at, Quoted(s, x, at), NEW i \in 1 .. Len(s),
           text' = text, phase' = "run", err' = "success", end' = Len(text),
           pos' = at[i] + Len(Unit(s[i])) + 1,
           OneLevel("string", "string", None)',
           Scanning(scan'), scan'.quote = Mark,
           scan'.pb = Append(SubSeq(s, 1, i - 1), s[i])
    PROVE  StrAt(s, at)'
<1>1. /\ at[i + 1] = at[i] + Len(Unit(s[i]))
      /\ i + 1 \in 1 .. Len(s) + 1 /\ (i + 1) - 1 = i
      /\ Append(SubSeq(s, 1, i - 1), s[i]) = SubSeq(s, 1, i)
  BY CharHas
<1>2. HasText(s, i + 1)'
  BY <1>1 DEF HasText
<1>3. pos' = at[i + 1] + 1
  BY <1>1
<1>4. QED
  BY <1>1, <1>2, <1>3 DEF StrAt, Steady

\* The character after a \: a letter, or the u of a code unit.
LEMMA StrEscapeKeeps ==
    ASSUME NEW s, NEW x, NEW at, Quoted(s, x, at), StrEscape(s, at), Machine
    PROVE  text' = text /\ StrRead(s, at)'
<1>1. PICK i \in 1 .. Len(s) :
         /\ OneLevel("string_escape", "string", None)
         /\ pos = at[i] + 2 /\ HasText(s, i) /\ Steady
         /\ ~AsItIs(s[i])
  BY DEF StrEscape
<1>2. Top.state = "string_escape" /\ Top.saved = "string"
  BY <1>1, LevelIsTop
<1>3. /\ Scanning(scan) /\ scan.quote = Mark /\ scan.pb = SubSeq(s, 1, i - 1)
      /\ phase = "run" /\ err = "success" /\ end = Len(text)
  BY <1>1 DEF HasText, Steady
<1> DEFINE e == s[i]
           U == Unit(e)
<1>4. e \in Seq(STRING) /\ IsChar(e) /\ at[i] \in Nat
  BY CharHas
<1>5. HexDigits \in Nat \ {0}
  BY HexAssumption
<1>6. \/ AsLetter(e) /\ Len(U) = 2 /\ U[2] = Named[e[1]]
      \/ \E u \in UnitsBelow : AsUnit(e, u) /\ Len(U) = 2 + HexDigits /\ U[2] = "u"
  <2> HIDE DEF e
  <2>1. ~AsItIs(e)
    BY <1>1 DEF e
  <2>2. QED
    BY <1>4, <2>1, EscapeHas
<1>7. c = U[2] /\ c # NUL /\ pos \in Nat /\ pos < Len(text)
  <2>1. 2 \in 1 .. Len(U)
    BY <1>5, <1>6
  <2> HIDE DEF U
  <2>2. QED
    BY <1>1, <2>1, CharOf DEF U
<1>8. StringEscape
  <2>1. pos # end
    BY <1>3, <1>7
  <2>2. QED
    BY <1>2, <1>3, <2>1 DEF Machine, At, EndOfChunk, Return, EatWs, Start, Finish, Inf,
       Null, Boolean, Literal, Comment, Text, EscapeUnicode, Number, Array,
       ArrayAdd, ArraySep, ObjectFieldStart, ObjectFieldEnd, ObjectValue, ObjectValueAdd,
       ObjectSep
<1>9. text' = text /\ end' = end
  BY <1>8 DEF StringEscape, Keep
<1> HIDE DEF U
<1>10. CASE AsLetter(e) /\ Len(U) = 2 /\ U[2] = Named[e[1]]
  <2>1. c = Named[e[1]] /\ e = <<e[1]>> /\ e[1] \in DOMAIN Named
    BY <1>7, <1>10 DEF AsLetter
  <2>2. /\ c \in {"\"", "\\", "/"} \cup DOMAIN Control
        /\ e[1] = IF c \in DOMAIN Control THEN Control[c] ELSE c
        /\ c # "u"
    BY <2>1, NamedBack
  <2> DEFINE y == IF c \in DOMAIN Control THEN Control[c] ELSE c
             p == Append(scan.pb, <<y>>)
  <2>3. /\ Goto("string") /\ Advance /\ err' = err
        /\ scan' = [scan EXCEPT !.pb = p]
    BY <1>2, <1>8, <2>2 DEF StringEscape
  <2>4. p = Append(SubSeq(s, 1, i - 1), s[i])
    BY <1>3, <2>1, <2>2
  <2> HIDE DEF y, p
  <2>5. Scanning(scan') /\ scan'.pb = p /\ scan'.quote = Mark
    BY <1>3, <2>3, ScanOf
  <2>6. OneLevel("string", "string", None)'
    BY <1>1, <2>3, LevelIsTop
  <2>7. phase' = "run" /\ pos' = at[i] + Len(U) + 1
    BY <1>1, <1>4, <1>7, <1>10, <2>3 DEF Advance
  <2>8. StrAt(s, at)'
    BY <1>3, <1>9, <2>3, <2>4, <2>5, <2>6, <2>7, BackInString DEF U
  <2>9. QED
    BY <1>9, <2>8 DEF StrRead
<1>11. CASE \E u \in UnitsBelow : AsUnit(e, u) /\ Len(U) = 2 + HexDigits /\ U[2] = "u"
  <2>1. PICK u \in UnitsBelow : AsUnit(e, u) /\ Len(U) = 2 + HexDigits /\ U[2] = "u"
    BY <1>11
  <2>2. c = "u" /\ c \notin {"\"", "\\", "/"} \cup DOMAIN Control
    BY <1>7, <2>1 DEF Control
  <2>3. /\ Goto("escape_unicode") /\ Advance /\ err' = err
        /\ scan' = [scan EXCEPT !.ucs = <<>>, !.st_pos = 0, !.hi = <<>>]
    BY <1>8, <2>2 DEF StringEscape
  <2>4. /\ Scanning(scan') /\ scan'.pb = scan.pb /\ scan'.quote = Mark
        /\ scan'.ucs = <<>> /\ scan'.st_pos = 0
    BY <1>3, <2>3 DEF Scanning
  <2>5. OneLevel("escape_unicode", "string", None)'
    BY <1>1, <2>3, LevelIsTop
  <2>6. phase' = "run" /\ pos' = at[i] + 3 + 0
    BY <1>1, <1>4, <1>7, <2>3 DEF Advance
  <2>7. HasText(s, i)'
    BY <1>3, <2>4 DEF HasText
  <2>8. scan'.st_pos \in 0 .. HexDigits - 1 /\ scan'.ucs = SubSeq(u, 1, scan'.st_pos)
    BY <1>5, <2>4, SubSeqEmpty
  <2>9. StrUnit(s, at)'
    BY <1>3, <1>9, <2>1, <2>3, <2>4, <2>5, <2>6, <2>7, <2>8 DEF StrUnit, Steady
  <2>10. QED
    BY <1>9, <2>9 DEF StrRead
<1>12. QED
  BY <1>6, <1>10, <1>11

\* A digit of a code unit.
LEMMA StrUnitKeeps ==
    ASSUME NEW s, NEW x, NEW at, Quoted(s, x, at), StrUnit(s, at), Machine
    PROVE  text' = text /\ StrRead(s, at)'
<1> DEFINE m == scan.st_pos
           g == m + 1
<1>1. PICK i \in 1 .. Len(s), u \in UnitsBelow :
         /\ OneLevel("escape_unicode", "string", None)
         /\ AsUnit(s[i], u)
         /\ m \in 0 .. HexDigits - 1 /\ scan.ucs = SubSeq(u, 1, m)
         /\ pos = at[i] + 3 + m /\ HasText(s, i) /\ Steady
  BY DEF StrUnit
<1>2. Top.state = "escape_unicode" /\ Top.saved = "string"
  BY <1>1, LevelIsTop
<1>3. /\ Scanning(scan) /\ scan.hi = <<>> /\ scan.quote = Mark
      /\ scan.pb = SubSeq(s, 1, i - 1)
      /\ phase = "run" /\ err = "success" /\ end = Len(text)
  BY <1>1 DEF HasText, Steady, Scanning
<1> DEFINE e == s[i]
           U == Unit(e)
<1>4. e \in Seq(STRING) /\ IsChar(e) /\ at[i] \in Nat
  BY CharHas
<1>5. HexDigits \in Nat \ {0} /\ m \in Nat /\ g \in 1 .. HexDigits
  BY <1>1, HexAssumption
<1>6. /\ u \in Seq(HexChar \ {NUL}) /\ Len(u) = HexDigits /\ u \notin High \cup Low
  BY UnitsAssumption
<1>7. Len(U) = 2 + HexDigits /\ \A k \in 1 .. HexDigits : U[2 + k] = u[k]
  <2> HIDE DEF e
  <2>1. AsUnit(e, u)
    BY <1>1 DEF e
  <2>2. QED
    BY <2>1, UnitOfUnit
<1>8. c = u[g] /\ c # NUL /\ pos \in Nat /\ pos < Len(text)
  <2>1. 2 + g \in 1 .. Len(U) /\ pos = at[i] + (2 + g)
    <3> DEFINE a == at[i]
               l == Len(U)
    <3>1. a \in Nat /\ l = 2 + HexDigits /\ pos = a + 3 + m
      BY <1>1, <1>4, <1>7
    <3> HIDE DEF a, l, m
    <3>2. 2 + g \in 1 .. l /\ pos = a + (2 + g)
      BY <1>5, <3>1
    <3>3. QED
      BY <3>2 DEF a, l
  <2> HIDE DEF U, g
  <2>2. c = Unit(s[i])[2 + g] /\ c # NUL /\ pos \in Nat /\ pos < Len(text)
    BY <2>1, CharOf DEF U
  <2>3. QED
    BY <1>5, <1>7, <2>2 DEF U
<1>9. c \in HexChar
  BY <1>5, <1>6, <1>8, ElementOfSeq
<1>10. Append(scan.ucs, c) = SubSeq(u, 1, g)
  <2>1. g - 1 = m
    BY <1>5
  <2> HIDE DEF g, m
  <2>2. Append(SubSeq(u, 1, g - 1), u[g]) = SubSeq(u, 1, g)
    BY <1>5, <1>6, OneMore
  <2>3. QED
    BY <1>1, <1>8, <2>1, <2>2
<1>11. EscapeUnicode
  <2>1. pos # end
    BY <1>3, <1>8
  <2>2. QED
    BY <1>2, <1>3, <2>1 DEF Machine, At, EndOfChunk, Return, EatWs, Start, Finish, Inf,
       Null, Boolean, Literal, Comment, Text, StringEscape, Number, Array,
       ArrayAdd, ArraySep, ObjectFieldStart, ObjectFieldEnd, ObjectValue, ObjectValueAdd,
       ObjectSep
<1>12. text' = text /\ end' = end
  BY <1>11 DEF EscapeUnicode, Keep
<1> DEFINE w == Append(scan.ucs, c)
<1> HIDE DEF U
<1>13. CASE g # HexDigits
  <2>1. /\ Advance /\ UNCHANGED <<stack, err>>
        /\ scan' = [scan EXCEPT !.st_pos = @ + 1,
                       !.ucs = IF scan.st_pos < HexDigits THEN w ELSE @]
    BY <1>9, <1>11, <1>13 DEF EscapeUnicode
  <2>2. scan.st_pos < HexDigits
    BY <1>5
  <2>3. /\ Scanning(scan') /\ scan'.pb = scan.pb /\ scan'.quote = Mark
        /\ scan'.ucs = w /\ scan'.st_pos = g
    <3> HIDE DEF w
    <3>1. scan' = [scan EXCEPT !.st_pos = g, !.ucs = w]
      BY <1>3, <2>1, <2>2 DEF Scanning
    <3> HIDE DEF g
    <3>2. QED
      BY <1>3, <3>1 DEF Scanning
  <2>4. phase' = "run" /\ pos' = at[i] + 3 + g
    <3> DEFINE a == at[i]
    <3>1. a \in Nat /\ pos = a + 3 + m /\ pos' = pos + 1
      BY <1>1, <1>4, <2>1 DEF Advance
    <3> HIDE DEF a, m
    <3>2. pos' = a + 3 + g
      BY <1>5, <3>1
    <3>3. QED
      BY <1>8, <2>1, <3>2 DEF Advance, a
  <2>5. OneLevel("escape_unicode", "string", None)'
    BY <1>1, <2>1 DEF OneLevel
  <2>6. g \in 0 .. HexDigits - 1
    BY <1>5, <1>13
  <2>7. HasText(s, i)'
    BY <1>3, <2>3 DEF HasText
  <2>8. scan'.ucs = SubSeq(u, 1, scan'.st_pos)
    BY <1>10, <2>3
  <2> HIDE DEF g, w
  <2>9. StrUnit(s, at)'
    BY <1>1, <1>3, <1>12, <2>1, <2>3, <2>4, <2>5, <2>6, <2>7, <2>8 DEF StrUnit, Steady
  <2>10. QED
    BY <1>12, <2>9 DEF StrRead
<1>14. CASE g = HexDigits
  <2>1. w = u
    BY <1>6, <1>10, <1>14, SubSeqFull
  <2>2. /\ ~LooksHigh(scan.hi, w) /\ ~LooksLow(scan.hi, w)
        /\ Unpaired(scan.hi, w) = <<>> /\ w \notin Low
    BY <1>3, <1>6, <2>1 DEF LooksHigh, LooksLow, Unpaired
  <2> DEFINE p == scan.pb \o Decoded(scan.hi, w)
  <2>3. /\ Goto("string") /\ Advance /\ err' = err
        /\ scan' = [scan EXCEPT !.pb = p, !.st_pos = @ + 1, !.ucs = w, !.hi = <<>>]
    BY <1>2, <1>9, <1>11, <1>14, <2>2 DEF EscapeUnicode
  <2>4. p = Append(SubSeq(s, 1, i - 1), s[i])
    <3> DEFINE b == SubSeq(s, 1, i - 1)
               S == Seq(STRING)
    <3>1. Decoded(scan.hi, w) = <<e>>
      <4>1. Decoded(scan.hi, w) = Append(<<>>, <<"u">> \o w)
        BY <2>2 DEF Decoded
      <4>2. e = <<"u">> \o w
        BY <1>1, <2>1 DEF AsUnit
      <4> HIDE DEF w, e
      <4>3. Append(<<>>, e) = <<e>>
        OBVIOUS
      <4>4. QED
        BY <4>1, <4>2, <4>3
    <3>2. b \in Seq(S)
      <4>1. s \in Seq(S) /\ Len(s) \in Nat
        BY QuotedHas
      <4>2. QED
        BY <4>1
    <3> HIDE DEF b, S, e
    <3>3. e \in S
      BY <1>4 DEF S
    <3>4. Append(b, e) = b \o <<e>>
      BY <3>2, <3>3, AppendIsConcat
    <3>5. QED
      BY <1>3, <3>1, <3>4 DEF b, e
  <2> DEFINE n == scan.st_pos + 1
  <2>5. Scanning(scan') /\ scan'.pb = p /\ scan'.quote = Mark
    <3>1. scan' = [scan EXCEPT !.pb = p, !.st_pos = n, !.ucs = w, !.hi = <<>>]
      BY <1>3, <2>3 DEF Scanning
    <3> HIDE DEF p, w, n
    <3>2. QED
      BY <1>3, <3>1 DEF Scanning
  <2> HIDE DEF p, w
  <2>6. OneLevel("string", "string", None)'
    BY <1>1, <2>3, LevelIsTop
  <2>7. phase' = "run" /\ pos' = at[i] + Len(U) + 1
    <3> DEFINE a == at[i]
               l == Len(U)
    <3>1. a \in Nat /\ l = 2 + HexDigits /\ pos = a + 3 + m /\ pos' = pos + 1
      BY <1>1, <1>4, <1>7, <2>3 DEF Advance
    <3> HIDE DEF a, l, m
    <3>2. pos' = a + l + 1
      BY <1>5, <1>14, <3>1
    <3>3. QED
      BY <1>8, <2>3, <3>2 DEF Advance, a, l
  <2>8. StrAt(s, at)'
    BY <1>3, <1>12, <2>3, <2>4, <2>5, <2>6, <2>7, BackInString DEF U
  <2>9. QED
    BY <1>12, <2>8 DEF StrRead
<1>15. QED
  BY <1>13, <1>14

\* The end of the text behind the string, and the return.
LEMMA StrBehindKeeps ==
    ASSUME NEW s, StrBehind(s), Machine
    PROVE  text' = text /\ (StrBehind(s) \/ StrGiven(s))'
<1> DEFINE v == <<"string", s>>
<1>1. OneLevel("eatws", "finish", v) /\ err = "success"
  BY DEF StrBehind
<1>2. /\ Top.state = "eatws" /\ Top.saved = "finish" /\ Depth = 0 /\ Top.cur = v
  <2> HIDE DEF v
  <2>1. QED
    BY <1>1, LevelIsTop
<1>3. EndOfChunk \/ Return
  BY <1>2 DEF StrBehind, Machine, At, EatWs, Start, Finish, Inf, Null, Boolean, Literal,
     Comment, Text, StringEscape, EscapeUnicode, Number, Array, ArrayAdd, ArraySep,
     ObjectFieldStart, ObjectFieldEnd, ObjectValue, ObjectValueAdd, ObjectSep
<1>4. CASE EndOfChunk
  <2>1. text' = text /\ stack' = stack /\ phase' = "out" /\ err' = "success"
    BY <1>2, <1>4 DEF EndOfChunk, Keep
  <2>2. OneLevel("eatws", "finish", v)'
    BY <1>1, <2>1 DEF OneLevel
  <2>3. QED
    BY <2>1, <2>2 DEF StrBehind
<1>5. CASE Return
  <2>1. text' = text /\ phase' = "idle" /\ err' = "success" /\ ret' = v
    BY <1>1, <1>2, <1>5 DEF Return
  <2>2. QED
    BY <2>1 DEF StrGiven
<1>6. QED
  BY <1>3, <1>4, <1>5

\* A string is read to its end, in one call.
LEMMA StrReadKeeps ==
    ASSUME NEW s, NEW x, NEW at, Quoted(s, x, at), StrRead(s, at), Machine \/ ParseEnd
    PROVE  text' = text /\ StrRead(s, at)'
<1>1. CASE Machine
  <2>1. ~StrGiven(s)
    <3>1. phase # "idle"
      BY <1>1 DEF Machine, At, EndOfChunk, EatWs, Start, Finish, Inf, Null, Boolean, Literal,
         Comment, Text, StringEscape, EscapeUnicode, Number, Array, ArrayAdd, ArraySep,
         ObjectFieldStart, ObjectFieldEnd, ObjectValue, ObjectValueAdd, ObjectSep, Return
    <3>2. QED
      BY <3>1 DEF StrGiven
  <2>2. CASE StrBehind(s)
    BY <1>1, <2>2, StrBehindKeeps DEF StrRead
  <2>3. CASE ~StrBehind(s)
    BY <1>1, <2>1, <2>3, StrAheadKeeps, StrAtKeeps, StrEscapeKeeps, StrUnitKeeps
    DEF StrRead
  <2>4. QED
    BY <2>2, <2>3
<1>2. CASE ParseEnd
  BY <1>2 DEF ParseEnd, StrRead, StrAhead, StrAt, StrEscape, StrUnit, StrBehind, StrGiven,
     Steady
<1>3. QED
  BY <1>1, <1>2

-----------------------------------------------------------------------------
(* The whole way of an integer and of a string.                            *)

\* A value as the parser reads it.
IsReading ==
    \/ leaf[1] = "num" /\ text = Decimal(leaf[2]) /\ AllDigits /\ IntRead
    \/ leaf[1] = "string" /\ \E x, at : Quoted(leaf[2], x, at) /\ StrRead(leaf[2], at)

ScalarInv ==
    /\ leaf \in Lone \cup {None}
    /\ Printing
    /\ doing = "read" /\ IsScalar(leaf) => IsReading

\* The text of a value, when the parser gets it.
LEMMA ReadingBegins ==
    ASSUME ScalarInv, AtRest, IsScalar(leaf), ReadBack
    PROVE  IsReading'
<1>1. IsPrintable(leaf) /\ leaf[1] \in {"num", "string"} /\ leaf # None
  BY LoneAssumption DEF ScalarInv, IsScalar
<1>2. doing = "print" /\ todo = <<>> /\ text' = CString(pb)
  <2>1. ~Static
    BY <1>1 DEF Static, Printed
  <2>2. QED
    BY <2>1 DEF ReadBack
<1>3. PICK txt, y : TextOf(leaf, txt) /\ Spells(<<>>, y) /\ txt = pb.chars \o y
  BY <1>2 DEF ScalarInv, Printing
<1>4. pb.ended = TRUE /\ pb.chars \in Seq(STRING)
  BY <1>2 DEF ScalarInv, Printing
<1>5. y = <<>>
  <2>1. ~OneAndMore(<<>>, y)
    <3>1. SUFFICES ASSUME NEW u \in CallSeq, NEW z \in Seq(STRING) PROVE Put_(z) \o u # <<>>
      BY DEF OneAndMore
    <3>2. Put_(z) \o u # <<>>
      BY PutIsCall
    <3>3. QED
      BY <3>2
  <2>2. QED
    BY <1>3, <2>1, SpellsFirst
<1>6. pb.chars = txt
  BY <1>3, <1>4, <1>5, ConcatEmptySeq
<1>7. text' = txt
  <2>1. txt \in Seq(STRING \ {NUL})
    BY <1>1, <1>3, TextIsText
  <2>2. QED
    BY <1>2, <1>4, <1>6, <2>1, CStringIs
<1>8. /\ leaf' = leaf /\ pos' = 0 /\ phase' = "run" /\ stack' = <<Fresh>>
      /\ scan' = [Clean EXCEPT !.hi = <<>>, !.case_len = 0]
      /\ err' = "success" /\ end' = Len(text')
  BY DEF ReadBack, Call, AtRest
<1>9. Ahead'
  <2>1. OneLevel("eatws", "start", None)'
    BY <1>8 DEF OneLevel, Fresh, Level
  <2>2. Scanning(scan')
    BY <1>8 DEF Scanning, Clean
  <2>3. QED
    BY <1>8, <2>1, <2>2 DEF Ahead
<1>10. CASE leaf[1] = "num"
  <2>1. txt = Decimal(leaf[2]) /\ leaf[2] \in Int
    BY <1>1, <1>3, <1>10, LimitsAssumption DEF TextOf, IsPrintable, WideMin, WideMax
  <2>2. txt \in Seq(Digit \cup {"-"}) /\ IsInteger(txt)
    BY <2>1, DecimalHas
  <2>3. txt \in Seq(STRING)
    BY <1>1, <1>3, TextIsText
  <2>4. \A k \in DOMAIN txt : txt[k] \in Digit \cup {"-"}
    BY <2>2
  <2>5. "." \notin Digit \cup {"-"} /\ "e" \notin Digit \cup {"-"}
    BY DEF Digit
  <2>6. IsNumeral(txt)
    BY <2>2, <2>3, <2>4, <2>5 DEF IsNumeral
  <2>7. \A i \in 1 .. Len(txt) : txt[i] \in NumberChar
    <3>1. DOMAIN txt = 1 .. Len(txt)
      BY <2>3
    <3>2. QED
      BY <2>4, <3>1 DEF NumberChar
  <2>8. AllDigits'
    BY <1>7, <2>6, <2>7 DEF AllDigits, AllNumber
  <2>9. IntRead'
    BY <1>8, <1>9 DEF IntRead, IntAhead
  <2>10. QED
    BY <1>7, <1>8, <1>10, <2>1, <2>8, <2>9 DEF IsReading
<1>11. CASE leaf[1] = "string"
  <2>1. PICK x, at : Laid(leaf[2], 1, x, at) /\ txt = (<<"\"">> \o x) \o <<"\"">>
    BY <1>3, <1>11 DEF TextOf
  <2>2. IsText(leaf[2])
    BY <1>1, <1>11 DEF IsPrintable, IsText
  <2>3. Quoted(leaf[2], x, at)'
    BY <1>7, <1>8, <2>1, <2>2 DEF Quoted, Mark
  <2>4. StrRead(leaf[2], at)'
    BY <1>8, <1>9 DEF StrRead, StrAhead, Steady
  <2>5. QED
    BY <1>8, <1>11, <2>3, <2>4 DEF IsReading
<1>12. QED
  BY <1>1, <1>10, <1>11

\* A step of the parser.
LEMMA ReadingKept ==
    ASSUME IsReading, leaf' = leaf, Machine \/ ParseEnd
    PROVE  IsReading'
<1>1. CASE leaf[1] = "num" /\ text = Decimal(leaf[2]) /\ AllDigits /\ IntRead
  <2>1. text' = text /\ IntRead'
    BY <1>1, IntReadKeeps
  <2>2. AllDigits'
    BY <1>1, <2>1 DEF AllDigits, AllNumber
  <2>3. QED
    BY <1>1, <2>1, <2>2 DEF IsReading
<1>2. CASE leaf[1] = "string" /\ \E x, at : Quoted(leaf[2], x, at) /\ StrRead(leaf[2], at)
  <2> DEFINE s == leaf[2]
  <2>1. PICK x, at : Quoted(s, x, at) /\ StrRead(s, at)
    BY <1>2
  <2>2. PICK t : t = s
    OBVIOUS
  <2>3. text' = text /\ StrRead(t, at)'
    BY <2>1, <2>2, StrReadKeeps
  <2>4. Quoted(t, x, at)'
    BY <2>1, <2>2, <2>3 DEF Quoted
  <2>5. leaf'[2] = t
    BY <2>2
  <2>6. QED
    BY <1>2, <2>3, <2>4, <2>5 DEF IsReading
<1>3. QED
  BY <1>1, <1>2 DEF IsReading

\* What is printed of such a value is what the parser is at.
LEMMA ScalarInvHolds == PrintSpec => []ScalarInv
<1>1. PrintInit => ScalarInv
  BY DEF PrintInit, ScalarInv, Printing
<1>2. PrintInv /\ ScalarInv /\ [PrintNext]_allVars => ScalarInv'
  <2> SUFFICES ASSUME PrintInv, ScalarInv, [PrintNext]_allVars PROVE ScalarInv'
    OBVIOUS
  <2>1. leaf' = leaf
    BY DEF PrintNext, EditArray, ToJsonString, Write, ReadBack, ReadNumeral, Read, Done,
       printVars, allVars
  <2>2. leaf' \in Lone \cup {None}
    BY <2>1 DEF ScalarInv
  <2>3. CASE EditArray
    BY <2>2, <2>3 DEF EditArray, ScalarInv, Printing
  <2>4. CASE ToJsonString \/ Write
    <3>1. doing' = "print"
      BY <2>4 DEF ToJsonString, Write
    <3>2. CASE IsScalar(leaf)
      <4>1. IsPrintable(leaf)
        BY <3>2, LoneAssumption DEF ScalarInv, IsScalar
      <4>2. Printing'
        BY <2>1, <2>4, <4>1, PrintingKept DEF ScalarInv
      <4>3. QED
        BY <2>2, <3>1, <4>2 DEF ScalarInv
    <3>3. CASE ~IsScalar(leaf)
      <4>1. ~IsScalar(leaf')
        BY <2>1, <3>3
      <4>2. QED
        BY <2>2, <4>1 DEF ScalarInv, Printing
    <3>4. QED
      BY <3>2, <3>3
  <2>5. CASE ReadBack
    <3>1. doing' = "read" /\ AtRest
      BY <2>5 DEF ReadBack, PrintInv
    <3>2. IsScalar(leaf) => IsReading'
      BY <2>5, <3>1, ReadingBegins
    <3>3. IsScalar(leaf') <=> IsScalar(leaf)
      BY <2>1
    <3>4. QED
      BY <2>2, <3>1, <3>2, <3>3 DEF ScalarInv, Printing
  <2>6. CASE ReadNumeral
    BY <2>2, <2>6 DEF ReadNumeral, ScalarInv, Printing
  <2>7. CASE Read
    <3>1. doing' = doing /\ doing # "print" /\ (Machine \/ ParseEnd)
      BY <2>7 DEF Read, Reading, printVars
    <3>2. IsReading => IsReading'
      BY <2>1, <3>1, ReadingKept
    <3>3. IsScalar(leaf') <=> IsScalar(leaf)
      BY <2>1
    <3>4. QED
      BY <2>2, <3>1, <3>2, <3>3 DEF ScalarInv, Printing
  <2>8. CASE Done
    BY <2>2, <2>8 DEF Done, ScalarInv, Printing
  <2>9. CASE UNCHANGED allVars
    BY <2>2, <2>9, ZenonT(30)
       DEF allVars, vars, printVars, ScalarInv, Printing, IsReading, AllDigits, AllNumber, IntRead, IntAhead, IntWithin, IntBehind, IntGiven, IntUpto, Upto, Ahead,
       Within_, OneLevel, Quoted, StrRead, StrAhead, StrAt, StrEscape, StrUnit, StrBehind,
       StrGiven, HasText, Steady
  <2>10. QED
    BY <2>3, <2>4, <2>5, <2>6, <2>7, <2>8, <2>9 DEF PrintNext
<1>3. QED
  BY <1>1, <1>2, PrintInvHolds, PTL DEF PrintSpec

\* Whatever the flags, and whatever was printed before, parsing what was printed for
\* an integer or a string gives it again (json_object.c:98-139, 514-519, 728-737;
\* json_tokener.c:476-630, 665-713): for integers of any width, and strings of any
\* length in which any code units have an escape.
THEOREM ScalarRoundTrip == PrintSpec => [](IsScalar(leaf) => RoundTrip)
<1>1. ScalarInv => (IsScalar(leaf) => RoundTrip)
  <2> SUFFICES ASSUME ScalarInv, IsScalar(leaf), doing = "read", HasRead
               PROVE  /\ err = "success"
                      /\ \A lib \in Libraries : Meaning(lib, ret) = Meaning(lib, Printed)
    BY DEF RoundTrip
  <2>1. /\ IsPrintable(leaf) /\ Printed = leaf /\ IsReading
        /\ phase = "idle" /\ ~(err = "continue" /\ end = Len(text))
    BY LoneAssumption DEF ScalarInv, IsScalar, Printed, HasRead
  <2>2. CASE leaf[1] = "num" /\ text = Decimal(leaf[2]) /\ AllDigits /\ IntRead
    <3> DEFINE n == leaf[2]
    <3>1. leaf = <<"num", n>> /\ n \in WideMin .. WideMax /\ n \in Int /\ leaf # Hole
      BY <2>1, <2>2, LimitsAssumption DEF IsPrintable, WideMin, WideMax
    <3>2. IntGiven
      BY <2>1, <2>2 DEF IntRead, IntAhead, IntWithin, IntBehind
    <3>3. /\ text \in Seq(STRING) /\ Len(text) \in 0 .. Len(text)
          /\ SubSeq(text, 1, Len(text)) = text
      BY <2>2, SubSeqFull, LenProperties DEF AllDigits, IsNumeral
    <3>4. \A lib : Meaning(lib, ret) = <<"num", ParseInt64(lib, text)>>
      BY <3>2, <3>3, IntMeans DEF IntGiven
    <3> HIDE DEF n
    <3>5. /\ IsInteger(text) /\ Exact(text) = n
          /\ Leading(Unsigned(text)) = Unsigned(text)
          /\ Len(Unsigned(text)) \in Nat
      <4>1. text = Decimal(n)
        BY <2>2 DEF n
      <4>2. Unsigned(text) \in Seq(STRING)
        BY <3>1, <3>3, <4>1, DecimalHas, ExactIs
      <4>3. QED
        BY <3>1, <4>1, <4>2, DecimalHas, LenProperties
    <3>6. ~Misread(text)
      <4>1. WideLimit \in Nat \ {0} /\ -WideLimit <= n /\ n < WideLimit
        BY <3>1, LimitsAssumption DEF WideMin, WideMax
      <4>2. Wrapped(n, WideLimit) = n
        BY <3>1, <4>1, WrappedKeeps
      <4>3. QED
        BY <3>1, <3>5, <4>2 DEF Misread
    <3>7. \A lib \in Libraries : ParseInt64(lib, text) = n
      <4>1. \A lib \in Libraries : ParseInt64(lib, text) = Within(n, WideMin, WideMax)
        BY <3>3, <3>5, <3>6, WideIsNearest
      <4>2. Within(n, WideMin, WideMax) = n
        BY <3>1, LimitsAssumption DEF Within, WideMin, WideMax
      <4>3. QED
        BY <4>1, <4>2
    <3>8. \A lib : Meaning(lib, leaf) = leaf
      <4>1. leaf # Hole /\ leaf[1] = "num"
        BY <2>2, <3>1
      <4>2. ~Holds(leaf)
        BY <4>1 DEF Holds
      <4>3. \A lib : Meaning(lib, leaf) = ScalarMeaning(lib, leaf)
        BY <4>2 DEF Meaning
      <4>4. \A lib : ScalarMeaning(lib, leaf) = leaf
        BY <4>1 DEF ScalarMeaning
      <4>5. QED
        BY <4>3, <4>4
    <3>9. QED
      BY <2>1, <3>1, <3>2, <3>4, <3>7, <3>8 DEF IntGiven
  <2>3. CASE leaf[1] = "string" /\ \E x, at : Quoted(leaf[2], x, at) /\ StrRead(leaf[2], at)
    <3>1. PICK x, at : StrRead(leaf[2], at)
      BY <2>3
    <3>2. StrGiven(leaf[2])
      BY <2>1, <3>1 DEF StrRead, StrAhead, StrAt, StrEscape, StrUnit, StrBehind, Steady
    <3>3. leaf = <<"string", leaf[2]>>
      BY <2>1, <2>3 DEF IsPrintable
    <3>4. QED
      BY <2>1, <3>2, <3>3 DEF StrGiven
  <2>4. QED
    BY <2>1, <2>2, <2>3 DEF IsReading
<1>2. QED
  BY <1>1, ScalarInvHolds, PTL
=============================================================================
