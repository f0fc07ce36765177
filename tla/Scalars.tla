------------------------------- MODULE Scalars -------------------------------
(***************************************************************************)
(* Integers and their texts (json_util.c, json_object.c, ag_json.c).  An   *)
(* integer is read into a wide type, whatever the length of its text, and  *)
(* handed out in a narrow one.                                             *)
(*                                                                         *)
(* sscanf is external.  json_parse_int64 finds out at its first call which *)
(* of two kinds it has: one that saturates and sets errno to ERANGE, or    *)
(* one that does not ("wraps").                                            *)
(***************************************************************************)
EXTENDS Integers, Sequences, SequencesExt

CONSTANTS WideLimit,    \* least number too large for an int64_t or a long: 2^63
          NarrowLimit   \* least number too large for an int: 2^31

ASSUME LimitsAssumption ==
    /\ NarrowLimit \in Nat \ {0}
    /\ WideLimit \in Nat \ {0}
    /\ NarrowLimit <= WideLimit

Libraries == {"saturates", "wraps"}

WideMin   == -WideLimit
WideMax   == WideLimit - 1
NarrowMin == -NarrowLimit
NarrowMax == NarrowLimit - 1

Within(n, low, high) == IF n < low THEN low ELSE IF n > high THEN high ELSE n

\* n stored in an integer of that limit.
Wrapped(n, limit) == ((n + limit) % (2 * limit)) - limit

Figures == <<"0", "1", "2", "3", "4", "5", "6", "7", "8", "9">>

DigitOf(c) == CHOOSE d \in 0 .. 9 : Figures[d + 1] = c

\* The digits of a number, and the number of some digits.
numeral[n \in Nat] ==
    IF n < 10 THEN <<Figures[n + 1]>>
    ELSE Append(numeral[n \div 10], Figures[(n % 10) + 1])

Value(digits) ==
    LET value[k \in 0 .. Len(digits)] ==
            IF k = 0 THEN 0 ELSE 10 * value[k - 1] + DigitOf(digits[k])
    IN  value[Len(digits)]

\* printf of an integer.
Decimal(n) == IF n < 0 THEN <<"-">> \o numeral[-n] ELSE numeral[n]

Negative(txt) == txt # <<>> /\ txt[1] = "-"
Unsigned(txt) == IF Negative(txt) THEN Tail(txt) ELSE txt

\* The digits txt begins with, and the integer it begins with.
Leading(txt) ==
    LET k == CHOOSE k \in 0 .. Len(txt) :
                /\ \A i \in 1 .. k : txt[i] \in Range(Figures)
                /\ k < Len(txt) => txt[k + 1] \notin Range(Figures)
    IN  SubSeq(txt, 1, k)

Exact(txt) ==
    LET n == Value(Leading(Unsigned(txt)))
    IN  IF Negative(txt) THEN -n ELSE n

Scanned(lib, txt) ==
    IF lib = "saturates" THEN Within(Exact(txt), WideMin, WideMax)
    ELSE Wrapped(Exact(txt), WideLimit)

OutOfRange(txt) == Exact(txt) < WideMin \/ Exact(txt) > WideMax

\* Leading zeros are skipped; one character at least is kept.
NoZeros(txt) ==
    LET k == CHOOSE k \in 0 .. Len(txt) - 1 :
                /\ \A i \in 1 .. k : txt[i] = "0"
                /\ k < Len(txt) - 1 => txt[k + 1] # "0"
    IN  SubSeq(txt, k + 1, Len(txt))

\* The workaround: printed again, is num what buf says?
PrintsOtherwise(txt, num) ==
    LET sig == NoZeros(Unsigned(txt))
        cmp == Unsigned(Decimal(num))
        n   == Len(cmp)
    IN  \/ (Negative(txt) /\ num # 0) # (num < 0)
        \/ Len(sig) < n \/ SubSeq(sig, 1, n) # cmp
        \/ Len(sig) > n /\ sig[n + 1] \in Range(Figures)

\* Did reading txt go wrong?
Exceeds(lib, txt) ==
    IF lib = "saturates" THEN OutOfRange(txt)
    ELSE PrintsOtherwise(txt, Scanned(lib, txt))

ParseUnchecked(lib, txt) == Scanned(lib, txt)                    \* mutant

\* json_parse_int64, of a text that begins like an integer.  In the
\* workaround a text read as 0 loses its sign.
ParseInt64(lib, txt) ==
    IF ~Exceeds(lib, txt) THEN Scanned(lib, txt)
    ELSE IF Negative(txt) /\ (lib = "saturates" \/ Scanned(lib, txt) # 0)
    THEN WideMin ELSE WideMax

-----------------------------------------------------------------------------
(* Conversions of a value that is no double: <<"num", n>>, <<"string", s>> *)
(* with s the text of an integer or not, <<"true">>, <<"false">>, others.  *)

IsInteger(txt) == Leading(Unsigned(txt)) # <<>>

\* json_object_get_int64
GetInt64(lib, val) ==
    CASE val[1] = "num" -> val[2]
      [] val[1] = "true" -> 1
      [] val[1] = "string" /\ IsInteger(val[2]) -> ParseInt64(lib, val[2])
      [] OTHER -> 0

\* json_object_get_int: as json_object_get_int64, then clamped.
GetInt(lib, val) ==
    IF val[1] = "num" \/ (val[1] = "string" /\ IsInteger(val[2]))
    THEN Within(GetInt64(lib, val), NarrowMin, NarrowMax)
    ELSE IF val[1] = "true" THEN 1 ELSE 0

\* ag_json_get_int
AgGetInt(lib, val) == IF val[1] = "num" THEN GetInt(lib, val) ELSE 0

\* The int that is nearest to the integer a text begins with.
Nearest(txt) == Within(Exact(txt), NarrowMin, NarrowMax)

\* Where the workaround fails: of a zero with something behind it no digit is
\* left, and a negative number that wraps to 0 loses its sign.
Misread(txt) ==
    \/ Exact(txt) = 0 /\ Len(Leading(Unsigned(txt))) < Len(Unsigned(txt))
    \/ Exact(txt) < 0 /\ Wrapped(Exact(txt), WideLimit) = 0
=============================================================================
