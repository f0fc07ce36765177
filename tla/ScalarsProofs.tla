--------------------------- MODULE ScalarsProofs ---------------------------
(***************************************************************************)
(* Integers and their texts, for texts of any length and integers of any   *)
(* two widths: a numeral is read as the number it was written for, digits  *)
(* without zeros in front are the numeral of their value, and reading an   *)
(* int from a text yields the nearest one.  Assumed is LimitsAssumption.   *)
(***************************************************************************)
EXTENDS Scalars, SequenceTheorems, WellFoundedInduction, TLAPS

-----------------------------------------------------------------------------
(* Least elements and induction.                                           *)

\* A non-empty set of naturals has a least element, and Min is one.
LEMMA MinIsNat ==
    ASSUME NEW S, S \subseteq Nat, S # {}
    PROVE  /\ Min(S) \in S
           /\ \A d \in S : Min(S) <= d
<1>1. PICK m \in S : \A d \in S : ~ (<<d, m>> \in OpToRel(<, Nat))
  BY NatLessThanWellFounded, WFMin
<1>2. \A d \in S : ~ (d < m)
  BY <1>1 DEF OpToRel
<1>3. \A d \in S : m <= d
  BY <1>2
<1>4. QED
  BY <1>3 DEF Min

\* Induction over the naturals, for a set of them.
LEMMA NatSet ==
    ASSUME NEW S, 0 \in S, \A n \in Nat : n \in S => n + 1 \in S
    PROVE  \A n \in Nat : n \in S
<1> DEFINE D == {n \in Nat : n \notin S}
<1>1. ASSUME D # {} PROVE FALSE
  <2>1. D \subseteq Nat
    OBVIOUS
  <2>2. PICK m \in D : \A d \in D : m <= d
    BY <1>1, <2>1, MinIsNat
  <2>3. m \in Nat \ {0} /\ m - 1 \in Nat /\ m - 1 \notin D
    BY <2>2
  <2>4. m - 1 \in S
    BY <2>3
  <2>5. (m - 1) + 1 \in S
    BY <2>3, <2>4
  <2>6. QED
    BY <2>2, <2>3, <2>5
<1>2. QED
  BY <1>1

\* Course-of-values induction over the naturals, for a set of them.
LEMMA NatSetBelow ==
    ASSUME NEW S, \A n \in Nat : (\A i \in 0 .. n - 1 : i \in S) => n \in S
    PROVE  \A n \in Nat : n \in S
<1> DEFINE D == {n \in Nat : n \notin S}
<1>1. ASSUME D # {} PROVE FALSE
  <2>1. D \subseteq Nat
    OBVIOUS
  <2>2. PICK m \in D : \A d \in D : m <= d
    BY <1>1, <2>1, MinIsNat
  <2>3. m \in Nat
    BY <2>1
  <2>4. \A i \in 0 .. m - 1 : i \in S
    BY <2>2, <2>3
  <2>5. m \in S
    BY <2>3, <2>4
  <2>6. QED
    BY <2>2, <2>5
<1>2. QED
  BY <1>1

-----------------------------------------------------------------------------
(* Numerals.                                                               *)

\* The value at n of the function f that defines numeral.
NumeralAt(f, n) ==
    IF n < 10 THEN <<Figures[n + 1]>> ELSE Append(f[n \div 10], Figures[(n % 10) + 1])

NumeralUpto(f, n) == f = [m \in 0 .. n |-> NumeralAt(f, m)]

\* A numeral is made from a smaller one only.
LEMMA NumeralLooksBelow ==
    ASSUME NEW f, NEW g, NEW n \in Nat, \A i \in 0 .. n - 1 : f[i] = g[i]
    PROVE  NumeralAt(f, n) = NumeralAt(g, n)
<1>1. n >= 10 => n \div 10 \in 0 .. n - 1
  OBVIOUS
<1>2. n >= 10 => f[n \div 10] = g[n \div 10]
  BY <1>1
<1>3. n >= 10 \/ n < 10
  OBVIOUS
<1>4. QED
  BY <1>2, <1>3 DEF NumeralAt

\* So there is at most one such function.
LEMMA NumeralsAgree ==
    ASSUME NEW f, NEW n \in Nat, NumeralUpto(f, n),
           NEW g, NEW k \in Nat, NumeralUpto(g, k)
    PROVE  \A i \in Nat : i <= n /\ i <= k => f[i] = g[i]
<1> DEFINE S == {i \in Nat : i <= n /\ i <= k => f[i] = g[i]}
<1>1. ASSUME NEW i \in Nat, \A j \in 0 .. i - 1 : j \in S PROVE i \in S
  <2> SUFFICES ASSUME i <= n, i <= k PROVE f[i] = g[i]
    OBVIOUS
  <2>1. ASSUME NEW j \in 0 .. i - 1 PROVE f[j] = g[j]
    <3>1. j \in S /\ j <= n /\ j <= k
      BY <1>1
    <3>2. QED
      BY <3>1
  <2>2. NumeralAt(f, i) = NumeralAt(g, i)
    BY <2>1, NumeralLooksBelow
  <2>3. f[i] = NumeralAt(f, i) /\ g[i] = NumeralAt(g, i)
    <3>1. i \in 0 .. n /\ i \in 0 .. k
      OBVIOUS
    <3>2. QED
      BY <3>1 DEF NumeralUpto
  <2>4. QED
    BY <2>2, <2>3
<1> HIDE DEF S
<1>2. \A i \in Nat : i \in S
  BY <1>1, NatSetBelow
<1>3. QED
  BY <1>2 DEF S

\* And there is one.
LEMMA NumeralsExist ==
    \A n \in Nat : \E f : NumeralUpto(f, n)
<1> DEFINE S == {n \in Nat : \E f : NumeralUpto(f, n)}
<1>1. 0 \in S
  <2> DEFINE f == [m \in 0 .. 0 |-> <<Figures[m + 1]>>]
  <2>1. \A m \in 0 .. 0 : NumeralAt(f, m) = <<Figures[m + 1]>>
    BY DEF NumeralAt
  <2>2. NumeralUpto(f, 0)
    BY <2>1, Zenon DEF NumeralUpto
  <2>3. QED
    BY <2>2
<1>2. ASSUME NEW n \in Nat, n \in S PROVE n + 1 \in S
  <2>1. PICK f : NumeralUpto(f, n)
    BY <1>2
  <2> DEFINE g == [m \in 0 .. n + 1 |-> IF m <= n THEN f[m] ELSE NumeralAt(f, n + 1)]
  <2>2. ASSUME NEW m \in 0 .. n + 1 PROVE NumeralAt(g, m) = NumeralAt(f, m)
    <3>1. \A i \in 0 .. m - 1 : g[i] = f[i]
      OBVIOUS
    <3>2. m \in Nat
      OBVIOUS
    <3> HIDE DEF g
    <3>3. QED
      BY <3>1, <3>2, NumeralLooksBelow
  <2>3. ASSUME NEW m \in 0 .. n + 1 PROVE g[m] = NumeralAt(g, m)
    <3>1. CASE m <= n
      <4>1. g[m] = f[m]
        BY <3>1
      <4>2. f[m] = NumeralAt(f, m)
        BY <2>1, <3>1 DEF NumeralUpto
      <4>3. QED
        BY <2>2, <4>1, <4>2
    <3>2. CASE m = n + 1
      <4>1. g[m] = NumeralAt(f, n + 1)
        BY <3>2
      <4>2. QED
        BY <2>2, <3>2, <4>1
    <3>3. QED
      BY <3>1, <3>2
  <2>4. DOMAIN g = 0 .. n + 1
    OBVIOUS
  <2>5. NumeralUpto(g, n + 1)
    <3>1. g = [m \in 0 .. n + 1 |-> g[m]]
      OBVIOUS
    <3> HIDE DEF g
    <3>2. QED
      BY <2>3, <3>1 DEF NumeralUpto
  <2>6. QED
    BY <2>5
<1> HIDE DEF S
<1>3. \A n \in Nat : n \in S
  BY <1>1, <1>2, NatSet
<1>4. QED
  BY <1>3 DEF S

\* The recursive definition holds.
LEMMA NumeralIs ==
    \A n \in Nat : numeral[n] = NumeralAt(numeral, n)
<1> DEFINE f(n) == CHOOSE g : NumeralUpto(g, n)
           F == [n \in Nat |-> f(n)[n]]
<1>1. \A n \in Nat : NumeralUpto(f(n), n)
  BY NumeralsExist
<1> HIDE DEF f
<1>2. ASSUME NEW n \in Nat PROVE F[n] = NumeralAt(F, n)
  <2>1. \A i \in 0 .. n - 1 : f(n)[i] = f(i)[i]
    BY <1>1, NumeralsAgree
  <2>2. \A i \in 0 .. n - 1 : f(n)[i] = F[i]
    BY <2>1
  <2>3. NumeralAt(f(n), n) = NumeralAt(F, n)
    <3> HIDE DEF F
    <3>1. QED
      BY <2>2, NumeralLooksBelow
  <2>4. f(n)[n] = NumeralAt(f(n), n)
    BY <1>1 DEF NumeralUpto
  <2>5. QED
    BY <2>3, <2>4
<1>3. F = [n \in Nat |-> NumeralAt(F, n)]
  <2>1. F = [n \in Nat |-> F[n]]
    OBVIOUS
  <2> HIDE DEF F
  <2>2. QED
    BY <1>2, <2>1
<1>4. \E G : G = [n \in Nat |-> NumeralAt(G, n)]
  BY <1>3
<1>5. numeral = CHOOSE G : G = [n \in Nat |-> NumeralAt(G, n)]
  BY DEF numeral, NumeralAt
<1>6. numeral = [n \in Nat |-> NumeralAt(numeral, n)]
  BY <1>4, <1>5
<1>7. QED
  BY <1>6

-----------------------------------------------------------------------------
(* Values of digits.                                                       *)

\* A digit of Figures has the value it was made from.
LEMMA DigitIsRead ==
    \A d \in 0 .. 9 : Figures[d + 1] \in Range(Figures) /\ DigitOf(Figures[d + 1]) = d
<1>1. \A d, e \in 0 .. 9 : Figures[d + 1] = Figures[e + 1] => d = e
  BY DEF Figures
<1>2. DOMAIN Figures = 1 .. 10
  <2>1. Len(Figures) = 10
    BY DEF Figures
  <2>2. QED
    BY <2>1, SMT DEF Figures
<1>3. \A d \in 0 .. 9 : DigitOf(Figures[d + 1]) = d
  <2> TAKE d \in 0 .. 9
  <2>1. \A e \in 0 .. 9 : Figures[e + 1] = Figures[d + 1] <=> e = d
    BY <1>1
  <2>2. QED
    BY <2>1 DEF DigitOf
<1>4. \A d \in 0 .. 9 : Figures[d + 1] \in Range(Figures)
  BY <1>2 DEF Range
<1>5. QED
  BY <1>3, <1>4

-----------------------------------------------------------------------------
(* What is read from a numeral.                                         *)

\* The value at k of the function that defines Value.
ValueAt(f, d, k) == IF k = 0 THEN 0 ELSE 10 * f[k - 1] + DigitOf(d[k])

ValueUpto(f, d, n) == f = [k \in 0 .. n |-> ValueAt(f, d, k)]

Values(d) == CHOOSE f : ValueUpto(f, d, Len(d))

\* There is such a function for any digits.
LEMMA ValuesExist ==
    ASSUME NEW d
    PROVE  \A n \in Nat : \E f : ValueUpto(f, d, n)
<1> DEFINE S == {n \in Nat : \E f : ValueUpto(f, d, n)}
<1>1. 0 \in S
  <2> DEFINE f == [k \in 0 .. 0 |-> 0]
  <2>1. \A k \in 0 .. 0 : ValueAt(f, d, k) = 0
    BY DEF ValueAt
  <2>2. ValueUpto(f, d, 0)
    BY <2>1, Zenon DEF ValueUpto
  <2>3. QED
    BY <2>2
<1>2. ASSUME NEW n \in Nat, n \in S PROVE n + 1 \in S
  <2>1. PICK f : ValueUpto(f, d, n)
    BY <1>2
  <2> DEFINE g == [k \in 0 .. n + 1 |-> IF k <= n THEN f[k] ELSE ValueAt(f, d, n + 1)]
  <2>2. ASSUME NEW k \in 0 .. n + 1 PROVE ValueAt(g, d, k) = ValueAt(f, d, k)
    <3>1. k # 0 => g[k - 1] = f[k - 1]
      OBVIOUS
    <3> HIDE DEF g
    <3>2. QED
      BY <3>1 DEF ValueAt
  <2>3. ASSUME NEW k \in 0 .. n + 1 PROVE g[k] = ValueAt(g, d, k)
    <3>1. CASE k <= n
      <4>1. g[k] = f[k]
        BY <3>1
      <4>2. f[k] = ValueAt(f, d, k)
        <5>1. k \in 0 .. n
          BY <3>1
        <5>2. QED
          BY <2>1, <5>1 DEF ValueUpto
      <4>3. QED
        BY <2>2, <4>1, <4>2
    <3>2. CASE k = n + 1
      <4>1. g[k] = ValueAt(f, d, n + 1)
        BY <3>2
      <4>2. QED
        BY <2>2, <3>2, <4>1
    <3>3. QED
      BY <3>1, <3>2
  <2>4. ValueUpto(g, d, n + 1)
    <3>1. g = [k \in 0 .. n + 1 |-> g[k]]
      OBVIOUS
    <3> HIDE DEF g
    <3>2. QED
      BY <2>3, <3>1 DEF ValueUpto
  <2>5. QED
    BY <2>4
<1> HIDE DEF S
<1>3. \A n \in Nat : n \in S
  BY <1>1, <1>2, NatSet
<1>4. QED
  BY <1>3 DEF S

\* The recursive definition holds.
LEMMA ValueIs ==
    ASSUME NEW d, Len(d) \in Nat
    PROVE  /\ Value(d) = Values(d)[Len(d)]
           /\ \A k \in 0 .. Len(d) : Values(d)[k] = ValueAt(Values(d), d, k)
<1>1. ValueUpto(Values(d), d, Len(d))
  BY ValuesExist DEF Values
<1>2. \A k \in 0 .. Len(d) : Values(d)[k] = ValueAt(Values(d), d, k)
  BY <1>1 DEF ValueUpto
<1>3. Value(d) = Values(d)[Len(d)]
  BY Zenon DEF Value, Values, ValueUpto, ValueAt, DigitOf
<1>4. QED
  BY <1>2, <1>3

\* The value of one digit.
LEMMA ValueOfOne ==
    ASSUME NEW c
    PROVE  Value(<<c>>) = 10 * 0 + DigitOf(c)
<1> DEFINE d == <<c>>
<1>1. Len(d) = 1 /\ d[1] = c
  OBVIOUS
<1> HIDE DEF d
<1>2. /\ Value(d) = Values(d)[1]
      /\ \A k \in 0 .. 1 : Values(d)[k] = ValueAt(Values(d), d, k)
  <2>1. Len(d) \in Nat
    BY <1>1
  <2>2. /\ Value(d) = Values(d)[Len(d)]
        /\ \A k \in 0 .. Len(d) : Values(d)[k] = ValueAt(Values(d), d, k)
    BY <2>1, ValueIs
  <2>3. QED
    BY <1>1, <2>2
<1>3. Values(d)[0] = 0
  BY <1>2 DEF ValueAt
<1>4. Values(d)[1] = 10 * Values(d)[0] + DigitOf(c)
  BY <1>1, <1>2 DEF ValueAt
<1>5. QED
  BY <1>2, <1>3, <1>4 DEF d

\* The value of digits with one behind them.
LEMMA ValueOfMore ==
    ASSUME NEW S, NEW d \in Seq(S), NEW c \in S
    PROVE  Value(Append(d, c)) = 10 * Value(d) + DigitOf(c)
<1> DEFINE e == Append(d, c)
           n == Len(d)
<1>1. n \in Nat
  BY LenProperties
<1>2. Len(e) = n + 1 /\ e[n + 1] = c /\ \A i \in 1 .. n : e[i] = d[i]
  BY AppendProperties
<1> HIDE DEF e, n
<1>3. /\ Value(d) = Values(d)[n]
      /\ \A k \in 0 .. n : Values(d)[k] = ValueAt(Values(d), d, k)
  BY <1>1, ValueIs DEF n
<1>4. /\ Value(e) = Values(e)[n + 1]
      /\ \A k \in 0 .. n + 1 : Values(e)[k] = ValueAt(Values(e), e, k)
  BY <1>1, <1>2, ValueIs
<1> DEFINE T == {k \in Nat : k <= n => Values(e)[k] = Values(d)[k]}
<1>5. 0 \in T
  BY <1>1, <1>3, <1>4 DEF ValueAt
<1>6. ASSUME NEW k \in Nat, k \in T PROVE k + 1 \in T
  <2> SUFFICES ASSUME k + 1 <= n PROVE Values(e)[k + 1] = Values(d)[k + 1]
    OBVIOUS
  <2>1. k + 1 \in 0 .. n /\ k + 1 \in 0 .. n + 1 /\ k + 1 \in 1 .. n
        /\ k + 1 # 0 /\ (k + 1) - 1 = k /\ k <= n
    BY <1>1
  <2>2. Values(e)[k] = Values(d)[k]
    BY <1>6, <2>1
  <2>3. Values(e)[k + 1] = 10 * Values(e)[k] + DigitOf(e[k + 1])
    BY <1>4, <2>1 DEF ValueAt
  <2>4. Values(d)[k + 1] = 10 * Values(d)[k] + DigitOf(d[k + 1])
    BY <1>3, <2>1 DEF ValueAt
  <2>5. QED
    BY <1>2, <2>1, <2>2, <2>3, <2>4
<1>7. \A k \in Nat : k \in T
  <2> HIDE DEF T
  <2>1. QED
    BY <1>5, <1>6, NatSet
<1>8. Values(e)[n] = Values(d)[n]
  BY <1>1, <1>7
<1>9. Values(e)[n + 1] = 10 * Values(e)[n] + DigitOf(c)
  <2>1. n + 1 \in 0 .. n + 1 /\ n + 1 # 0 /\ (n + 1) - 1 = n
    BY <1>1
  <2>2. QED
    BY <1>2, <1>4, <2>1 DEF ValueAt
<1>10. Value(e) = 10 * Value(d) + DigitOf(c)
  BY <1>3, <1>4, <1>8, <1>9
<1>11. QED
  BY <1>10 DEF e

\* A numeral is made of digits, and its value is the number.
LEMMA NumeralIsRead ==
    \A n \in Nat : numeral[n] \in Seq(Range(Figures)) /\ Value(numeral[n]) = n
<1> DEFINE S == {n \in Nat : numeral[n] \in Seq(Range(Figures)) /\ Value(numeral[n]) = n}
<1>1. ASSUME NEW n \in Nat, \A i \in 0 .. n - 1 : i \in S PROVE n \in S
  <2>1. CASE n < 10
    <3>1. numeral[n] = <<Figures[n + 1]>>
      BY <2>1, NumeralIs DEF NumeralAt
    <3>2. n \in 0 .. 9
      BY <2>1
    <3>3. Figures[n + 1] \in Range(Figures) /\ DigitOf(Figures[n + 1]) = n
      BY <3>2, DigitIsRead
    <3>4. Value(numeral[n]) = n
      BY <3>1, <3>3, ValueOfOne
    <3>5. numeral[n] \in Seq(Range(Figures))
      <4>1. \A c \in Range(Figures) : <<c>> \in Seq(Range(Figures))
        OBVIOUS
      <4>2. QED
        BY <3>1, <3>3, <4>1
    <3>6. QED
      BY <3>4, <3>5
  <2>2. CASE n >= 10
    <3> DEFINE q == n \div 10
               r == n % 10
    <3>1. q \in 0 .. n - 1 /\ r \in 0 .. 9 /\ n = 10 * q + r
      BY <2>2
    <3>2. ~(n < 10)
      BY <2>2
    <3>3. numeral[n] = Append(numeral[q], Figures[r + 1])
      BY <3>2, NumeralIs DEF NumeralAt
    <3> HIDE DEF q, r
    <3>4. numeral[q] \in Seq(Range(Figures)) /\ Value(numeral[q]) = q
      BY <1>1, <3>1
    <3>5. Figures[r + 1] \in Range(Figures) /\ DigitOf(Figures[r + 1]) = r
      BY <3>1, DigitIsRead
    <3>6. Value(numeral[n]) = 10 * q + r
      BY <3>3, <3>4, <3>5, ValueOfMore
    <3>7. numeral[n] \in Seq(Range(Figures))
      BY <3>3, <3>4, <3>5, AppendProperties
    <3>8. QED
      BY <3>1, <3>6, <3>7
  <2>3. QED
    BY <2>1, <2>2
<1> HIDE DEF S
<1>2. \A n \in Nat : n \in S
  BY <1>1, NatSetBelow
<1>3. QED
  BY <1>2 DEF S

-----------------------------------------------------------------------------
(* Limits.                                                                 *)

\* A number within the limit is stored as it is.
LEMMA WrappedKeeps ==
    ASSUME NEW limit \in Nat \ {0}, NEW n \in Int, -limit <= n, n < limit
    PROVE  Wrapped(n, limit) = n
<1> DEFINE a == n + limit
           m == 2 * limit
<1>1. a \in Nat /\ m \in Nat /\ m > 0 /\ a < m
  OBVIOUS
<1> HIDE DEF a, m
<1>2. a % m = a
  BY <1>1
<1>3. QED
  BY <1>2 DEF Wrapped, a, m

\* And any number as one within the limit.
LEMMA WrappedFits ==
    ASSUME NEW limit \in Nat \ {0}, NEW n \in Int
    PROVE  /\ Wrapped(n, limit) \in Int
           /\ -limit <= Wrapped(n, limit) /\ Wrapped(n, limit) < limit
<1> DEFINE a == n + limit
           m == 2 * limit
<1>1. a \in Int /\ m \in Nat /\ m > 0
  OBVIOUS
<1> HIDE DEF a, m
<1>2. a % m \in 0 .. m - 1
  BY <1>1
<1>3. m = 2 * limit
  BY DEF m
<1>4. Wrapped(n, limit) = (a % m) - limit
  BY DEF Wrapped, a, m
<1>5. QED
  BY <1>2, <1>3, <1>4

-----------------------------------------------------------------------------
(* Digits without zeros in front are the numeral of their value.           *)

\* A digit is the figure of its value.
LEMMA FigureOfDigit ==
    ASSUME NEW c \in Range(Figures)
    PROVE  /\ DigitOf(c) \in 0 .. 9
           /\ Figures[DigitOf(c) + 1] = c
<1>1. Len(Figures) = 10
  BY DEF Figures
<1>2. DOMAIN Figures = 1 .. 10
  BY <1>1, SMT DEF Figures
<1>3. PICK i \in 1 .. 10 : Figures[i] = c
  BY <1>2 DEF Range
<1>4. i - 1 \in 0 .. 9 /\ (i - 1) + 1 = i
  OBVIOUS
<1>5. \E d \in 0 .. 9 : Figures[d + 1] = c
  BY <1>3, <1>4
<1>6. QED
  BY <1>5 DEF DigitOf

\* The figure 0.
LEMMA ZeroIs ==
    /\ "0" \in Range(Figures) /\ DigitOf("0") = 0
    /\ \A c \in Range(Figures) : DigitOf(c) = 0 => c = "0"
<1>1. Figures[0 + 1] = "0"
  BY DEF Figures
<1>2. 0 \in 0 .. 9
  OBVIOUS
<1>3. Figures[0 + 1] \in Range(Figures) /\ DigitOf(Figures[0 + 1]) = 0
  BY <1>2, DigitIsRead
<1>4. \A c \in Range(Figures) : DigitOf(c) = 0 => c = "0"
  BY <1>1, FigureOfDigit
<1>5. QED
  BY <1>1, <1>3, <1>4

\* A number of one figure.
LEMMA NumeralOfDigit == \A n \in 0 .. 9 : numeral[n] = <<Figures[n + 1]>>
<1> TAKE n \in 0 .. 9
<1>1. n \in Nat /\ n < 10
  OBVIOUS
<1>2. numeral[n] = NumeralAt(numeral, n)
  BY <1>1, NumeralIs
<1>3. QED
  BY <1>1, <1>2 DEF NumeralAt

\* Digits have a natural number for their value.
LEMMA ValueIsNat ==
    ASSUME NEW d \in Seq(Range(Figures))
    PROVE  Value(d) \in Nat
<1>1. Len(d) \in Nat /\ \A i \in 1 .. Len(d) : d[i] \in Range(Figures)
  BY ElementOfSeq, LenProperties
<1>2. /\ Value(d) = Values(d)[Len(d)]
      /\ \A k \in 0 .. Len(d) : Values(d)[k] = ValueAt(Values(d), d, k)
  BY <1>1, ValueIs
<1> DEFINE n == Len(d)
           S == {k \in Nat : k <= n => Values(d)[k] \in Nat}
<1>3. 0 \in S
  <2>1. Values(d)[0] = 0
    BY <1>1, <1>2 DEF ValueAt
  <2>2. QED
    BY <2>1
<1>4. ASSUME NEW k \in Nat, k \in S PROVE k + 1 \in S
  <2> SUFFICES ASSUME k + 1 <= n PROVE Values(d)[k + 1] \in Nat
    OBVIOUS
  <2>1. k + 1 \in 0 .. n /\ k + 1 \in 1 .. n /\ k + 1 # 0 /\ (k + 1) - 1 = k /\ k <= n
    BY <1>1
  <2>2. Values(d)[k + 1] = 10 * Values(d)[k] + DigitOf(d[k + 1])
    BY <1>2, <2>1 DEF ValueAt
  <2>3. Values(d)[k] \in Nat
    BY <1>4, <2>1
  <2>4. DigitOf(d[k + 1]) \in Nat
    BY <1>1, <2>1, FigureOfDigit
  <2>5. QED
    BY <2>2, <2>3, <2>4
<1>5. \A k \in Nat : k \in S
  <2> HIDE DEF S
  <2>1. QED
    BY <1>3, <1>4, NatSet
<1>6. QED
  BY <1>1, <1>2, <1>5

\* Zeros in front add nothing: d is z zeros and e.
LEMMA ZerosAddNothing ==
    ASSUME NEW d, NEW e \in Seq(Range(Figures)), NEW z \in Nat,
           Len(d) = z + Len(e), \A i \in 1 .. z : d[i] = "0",
           \A i \in 1 .. Len(e) : d[z + i] = e[i]
    PROVE  Value(d) = Value(e)
<1>1. Len(e) \in Nat /\ Len(d) \in Nat
  BY LenProperties
<1>2. /\ Value(d) = Values(d)[Len(d)]
      /\ \A k \in 0 .. Len(d) : Values(d)[k] = ValueAt(Values(d), d, k)
  BY <1>1, ValueIs
<1>3. /\ Value(e) = Values(e)[Len(e)]
      /\ \A k \in 0 .. Len(e) : Values(e)[k] = ValueAt(Values(e), e, k)
  BY <1>1, ValueIs
<1>4. \A k \in Nat : k <= z => Values(d)[k] = 0
  <2> DEFINE S == {k \in Nat : k <= z => Values(d)[k] = 0}
  <2>1. 0 \in S
    BY <1>1, <1>2 DEF ValueAt
  <2>2. ASSUME NEW k \in Nat, k \in S PROVE k + 1 \in S
    <3> SUFFICES ASSUME k + 1 <= z PROVE Values(d)[k + 1] = 0
      OBVIOUS
    <3>1. k + 1 \in 0 .. Len(d) /\ k + 1 \in 1 .. z /\ k + 1 # 0 /\ (k + 1) - 1 = k /\ k <= z
      BY <1>1
    <3>2. Values(d)[k + 1] = 10 * Values(d)[k] + DigitOf(d[k + 1])
      BY <1>2, <3>1 DEF ValueAt
    <3>3. Values(d)[k] = 0 /\ DigitOf(d[k + 1]) = 0
      BY <2>2, <3>1, ZeroIs
    <3>4. QED
      BY <3>2, <3>3
  <2> HIDE DEF S
  <2>3. \A k \in Nat : k \in S
    BY <2>1, <2>2, NatSet
  <2>4. QED
    BY <2>3 DEF S
<1>5. \A k \in Nat : k <= Len(e) => Values(d)[z + k] = Values(e)[k]
  <2> DEFINE S == {k \in Nat : k <= Len(e) => Values(d)[z + k] = Values(e)[k]}
  <2>1. 0 \in S
    <3>1. Values(e)[0] = 0
      BY <1>1, <1>3 DEF ValueAt
    <3>2. z + 0 = z /\ z <= z
      OBVIOUS
    <3>3. Values(d)[z + 0] = 0
      BY <1>4, <3>2
    <3>4. QED
      BY <3>1, <3>3
  <2>2. ASSUME NEW k \in Nat, k \in S PROVE k + 1 \in S
    <3> SUFFICES ASSUME k + 1 <= Len(e) PROVE Values(d)[z + (k + 1)] = Values(e)[k + 1]
      OBVIOUS
    <3> DEFINE m == z + (k + 1)
    <3>1. m \in 0 .. Len(d) /\ m # 0 /\ m - 1 = z + k
      BY <1>1
    <3>2. k + 1 \in 0 .. Len(e) /\ k + 1 \in 1 .. Len(e) /\ k + 1 # 0 /\ (k + 1) - 1 = k
          /\ k <= Len(e)
      BY <1>1
    <3>3. d[m] = e[k + 1]
      BY <3>2
    <3> HIDE DEF m
    <3>4. Values(d)[m] = 10 * Values(d)[z + k] + DigitOf(e[k + 1])
      BY <1>2, <3>1, <3>3 DEF ValueAt
    <3>5. Values(e)[k + 1] = 10 * Values(e)[k] + DigitOf(e[k + 1])
      BY <1>3, <3>2 DEF ValueAt
    <3>6. Values(d)[z + k] = Values(e)[k]
      BY <2>2, <3>2
    <3>7. QED
      BY <3>4, <3>5, <3>6 DEF m
  <2> HIDE DEF S
  <2>3. \A k \in Nat : k \in S
    BY <2>1, <2>2, NatSet
  <2>4. QED
    BY <2>3 DEF S
<1>6. QED
  BY <1>1, <1>2, <1>3, <1>5

\* Digits that are written without a zero in front: none but a single 0.
Short(d) == d \in Seq(Range(Figures)) /\ d # <<>> /\ (Len(d) > 1 => d[1] # "0")

\* The value of such digits has them for its numeral.
LEMMA NumeralOfValue ==
    ASSUME NEW d, Short(d)
    PROVE  numeral[Value(d)] = d
<1> DEFINE S == {n \in Nat : \A t \in Seq(Range(Figures)) :
                    Len(t) = n + 1 /\ Short(t) => numeral[Value(t)] = t}
<1>1. ASSUME NEW t \in Seq(Range(Figures)), NEW c \in Range(Figures), t = <<c>>
      PROVE  numeral[Value(t)] = t
  <2>1. DigitOf(c) \in 0 .. 9 /\ Figures[DigitOf(c) + 1] = c
    BY FigureOfDigit
  <2>2. Value(t) = DigitOf(c)
    BY <1>1, <2>1, ValueOfOne
  <2>3. numeral[DigitOf(c)] = <<Figures[DigitOf(c) + 1]>>
    BY <2>1, NumeralOfDigit
  <2>4. QED
    BY <1>1, <2>1, <2>2, <2>3
<1>2. 0 \in S
  <2> SUFFICES ASSUME NEW t \in Seq(Range(Figures)), Len(t) = 0 + 1
               PROVE  numeral[Value(t)] = t
    OBVIOUS
  <2>1. t = <<t[1]>> /\ t[1] \in Range(Figures)
    BY ElementOfSeq
  <2>2. QED
    BY <1>1, <2>1
<1>3. ASSUME NEW n \in Nat, n \in S PROVE n + 1 \in S
  <2> SUFFICES ASSUME NEW t \in Seq(Range(Figures)), Len(t) = (n + 1) + 1, Short(t)
               PROVE  numeral[Value(t)] = t
    OBVIOUS
  <2>1. PICK e \in Seq(Range(Figures)), c \in Range(Figures) : t = Append(e, c)
    <3>1. t # <<>>
      BY DEF Short
    <3>2. QED
      BY <3>1, SequenceEmptyOrAppend
  <2>2. Len(e) = n + 1 /\ \A i \in 1 .. Len(e) : t[i] = e[i]
    BY <2>1, AppendProperties, LenProperties
  <2>3. e[1] = t[1] /\ t[1] # "0"
    BY <2>2 DEF Short
  <2>4. Short(e)
    BY <2>2, <2>3, EmptySeq DEF Short
  <2>5. numeral[Value(e)] = e
    BY <1>3, <2>2, <2>4
  <2>6. Value(e) \in Nat
    BY ValueIsNat
  <2>7. Value(e) # 0
    <3> SUFFICES ASSUME Value(e) = 0 PROVE FALSE
      OBVIOUS
    <3>1. numeral[0] = <<Figures[0 + 1]>>
      BY NumeralOfDigit
    <3>2. Figures[0 + 1] = "0"
      BY DEF Figures
    <3>3. e[1] = "0"
      BY <2>5, <3>1, <3>2
    <3>4. QED
      BY <2>3, <3>3
  <2>8. DigitOf(c) \in 0 .. 9 /\ Figures[DigitOf(c) + 1] = c
    BY FigureOfDigit
  <2>9. Value(t) = 10 * Value(e) + DigitOf(c)
    BY <2>1, ValueOfMore
  <2> DEFINE v == Value(t)
             q == Value(e)
             r == DigitOf(c)
  <2>10. q \in Nat \ {0} /\ r \in 0 .. 9 /\ v = 10 * q + r
    BY <2>6, <2>7, <2>8, <2>9
  <2> HIDE DEF v, q, r
  <2>11. v \in Nat /\ ~(v < 10) /\ v \div 10 = q /\ v % 10 = r
    BY <2>10
  <2>12. numeral[v] = Append(numeral[v \div 10], Figures[(v % 10) + 1])
    BY <2>11, NumeralIs DEF NumeralAt
  <2>13. QED
    BY <2>1, <2>5, <2>8, <2>11, <2>12 DEF v, q, r
<1>4. \A n \in Nat : n \in S
  <2> HIDE DEF S
  <2>1. QED
    BY <1>2, <1>3, NatSet
<1>5. d \in Seq(Range(Figures)) /\ Len(d) \in Nat \ {0}
  BY EmptySeq DEF Short
<1>6. Len(d) - 1 \in Nat /\ (Len(d) - 1) + 1 = Len(d)
  BY <1>5
<1>7. QED
  BY <1>4, <1>5, <1>6

\* A numeral is such digits.
LEMMA NumeralIsShort ==
    \A n \in Nat : numeral[n] \in Seq(Range(Figures)) /\ numeral[n] # <<>>
<1> TAKE n \in Nat
<1>1. numeral[n] \in Seq(Range(Figures))
  BY NumeralIsRead
<1>2. CASE n < 10
  <2>1. numeral[n] = <<Figures[n + 1]>>
    BY <1>2, NumeralIs DEF NumeralAt
  <2>2. QED
    BY <1>1, <2>1
<1>3. CASE ~(n < 10)
  <2> DEFINE q == n \div 10
             r == n % 10
  <2>1. q \in Nat /\ r \in 0 .. 9
    BY <1>3
  <2>2. numeral[n] = Append(numeral[q], Figures[r + 1])
    BY <1>3, NumeralIs DEF NumeralAt
  <2> HIDE DEF q, r
  <2>3. numeral[q] \in Seq(Range(Figures)) /\ Figures[r + 1] \in Range(Figures)
    BY <2>1, NumeralIsRead, DigitIsRead
  <2>4. numeral[n] # <<>>
    BY <2>2, <2>3, AppendProperties
  <2>5. QED
    BY <1>1, <2>4
<1>4. QED
  BY <1>2, <1>3

-----------------------------------------------------------------------------
(* What a text begins with.                                                *)

\* In front of place n, the characters from the first on are in T up to some place.
LEMMA RunEnds ==
    ASSUME NEW txt, NEW T, NEW n \in Nat
    PROVE  \E k \in 0 .. n : /\ \A i \in 1 .. k : txt[i] \in T
                             /\ k < n => txt[k + 1] \notin T
<1> DEFINE J == {j \in 0 .. n : j = n \/ txt[j + 1] \notin T}
<1>1. n \in J /\ J \subseteq Nat
  OBVIOUS
<1>2. PICK k \in J : \A j \in J : k <= j
  BY <1>1, MinIsNat
<1>3. ASSUME NEW i \in 1 .. k PROVE txt[i] \in T
  <2>1. i - 1 \in 0 .. n /\ i - 1 < k /\ (i - 1) + 1 = i /\ i - 1 # n
    BY <1>2
  <2>2. i - 1 \notin J
    BY <1>2, <2>1
  <2>3. QED
    BY <2>1, <2>2
<1>4. QED
  BY <1>2, <1>3

\* k digits, and then none.
DigitsUpto(txt, k) ==
    /\ k \in 0 .. Len(txt)
    /\ \A i \in 1 .. k : txt[i] \in Range(Figures)
    /\ k < Len(txt) => txt[k + 1] \notin Range(Figures)

\* There is one such place, and the digits in front of it are those txt begins with.
LEMMA LeadingIs ==
    ASSUME NEW txt, Len(txt) \in Nat, NEW k, DigitsUpto(txt, k)
    PROVE  /\ Leading(txt) = SubSeq(txt, 1, k)
           /\ Leading(txt) \in Seq(Range(Figures))
           /\ Len(Leading(txt)) = k
           /\ \A i \in 1 .. k : Leading(txt)[i] = txt[i]
<1>1. ASSUME NEW m \in 0 .. Len(txt), \A i \in 1 .. m : txt[i] \in Range(Figures),
             m < Len(txt) => txt[m + 1] \notin Range(Figures)
      PROVE  m = k
  <2>1. k \in Nat /\ m \in Nat /\ k <= Len(txt) /\ m <= Len(txt)
    BY DEF DigitsUpto
  <2>2. ~(m < k)
    <3>1. m < k => m + 1 \in 1 .. k /\ m < Len(txt)
      BY <2>1
    <3>2. QED
      BY <1>1, <3>1 DEF DigitsUpto
  <2>3. ~(k < m)
    <3>1. k < m => k + 1 \in 1 .. m /\ k < Len(txt)
      BY <2>1
    <3>2. QED
      BY <1>1, <3>1 DEF DigitsUpto
  <2>4. QED
    BY <2>1, <2>2, <2>3
<1>2. Leading(txt) = SubSeq(txt, 1, k)
  <2> DEFINE P(m) == /\ \A i \in 1 .. m : txt[i] \in Range(Figures)
                     /\ m < Len(txt) => txt[m + 1] \notin Range(Figures)
  <2>1. k \in 0 .. Len(txt) /\ P(k)
    BY DEF DigitsUpto
  <2>2. \A m \in 0 .. Len(txt) : P(m) => m = k
    BY <1>1
  <2>3. Leading(txt) = SubSeq(txt, 1, CHOOSE m \in 0 .. Len(txt) : P(m))
    BY DEF Leading
  <2> HIDE DEF P
  <2>4. (CHOOSE m \in 0 .. Len(txt) : P(m)) = k
    BY <2>1, <2>2
  <2>5. QED
    BY <2>3, <2>4
<1>3. k \in Nat /\ 1 \in Int /\ k \in Int /\ \A i \in 1 .. k : txt[i] \in Range(Figures)
  BY DEF DigitsUpto
<1>4. /\ SubSeq(txt, 1, k) \in Seq(Range(Figures))
      /\ Len(SubSeq(txt, 1, k)) = IF 1 <= k THEN k - 1 + 1 ELSE 0
      /\ \A i \in 1 .. k - 1 + 1 : SubSeq(txt, 1, k)[i] = txt[1 + i - 1]
  BY <1>3, SubSeqProperties
<1>5. k - 1 + 1 = k /\ \A i \in 1 .. k : 1 + i - 1 = i
  BY <1>3
<1>6. QED
  BY <1>2, <1>3, <1>4, <1>5

LEMMA LeadingExists ==
    ASSUME NEW txt, Len(txt) \in Nat
    PROVE  \E k : DigitsUpto(txt, k)
BY RunEnds DEF DigitsUpto

\* NoZeros skips z zeros of txt.
SkipsZeros(C, txt, z) ==
    /\ z \in 0 .. Len(txt) - 1
    /\ \A i \in 1 .. z : txt[i] = "0"
    /\ z < Len(txt) - 1 => txt[z + 1] # "0"
    /\ NoZeros(txt) \in Seq(C)
    /\ Len(NoZeros(txt)) = Len(txt) - z
    /\ \A i \in 1 .. Len(txt) - z : NoZeros(txt)[i] = txt[z + i]

\* All there are in front, so that one character at least is left.
LEMMA NoZerosIs ==
    ASSUME NEW C, NEW txt \in Seq(C), txt # <<>>
    PROVE  \E z : SkipsZeros(C, txt, z)
<1> DEFINE P(k) == /\ \A i \in 1 .. k : txt[i] = "0"
                   /\ k < Len(txt) - 1 => txt[k + 1] # "0"
           z == CHOOSE k \in 0 .. Len(txt) - 1 : P(k)
<1>1. Len(txt) \in Nat \ {0} /\ Len(txt) - 1 \in Nat
  BY EmptySeq
<1>2. \E k \in 0 .. Len(txt) - 1 : P(k)
  <2>1. \E k \in 0 .. Len(txt) - 1 :
            /\ \A i \in 1 .. k : txt[i] \in {"0"}
            /\ k < Len(txt) - 1 => txt[k + 1] \notin {"0"}
    BY <1>1, RunEnds
  <2>2. QED
    BY <2>1
<1>3. NoZeros(txt) = SubSeq(txt, z + 1, Len(txt))
  BY DEF NoZeros
<1> HIDE DEF P
<1>4. z \in 0 .. Len(txt) - 1 /\ P(z)
  BY <1>2
<1> HIDE DEF z
<1>5. z + 1 \in Int /\ Len(txt) \in Int /\ \A i \in z + 1 .. Len(txt) : txt[i] \in C
  BY <1>1, <1>4, ElementOfSeq
<1> DEFINE a == z + 1
           b == Len(txt)
<1>6. a \in Int /\ b \in Int /\ \A i \in a .. b : txt[i] \in C
  BY <1>5
<1> HIDE DEF a, b
<1>7. /\ SubSeq(txt, a, b) \in Seq(C)
      /\ Len(SubSeq(txt, a, b)) = IF a <= b THEN b - a + 1 ELSE 0
      /\ \A i \in 1 .. b - a + 1 : SubSeq(txt, a, b)[i] = txt[a + i - 1]
  BY <1>6, SubSeqProperties
<1>8. /\ a <= b /\ b - a + 1 = Len(txt) - z
      /\ \A i \in 1 .. Len(txt) - z : a + i - 1 = z + i
  BY <1>1, <1>4 DEF a, b
<1>9. /\ NoZeros(txt) \in Seq(C)
      /\ Len(NoZeros(txt)) = Len(txt) - z
      /\ \A i \in 1 .. Len(txt) - z : NoZeros(txt)[i] = txt[z + i]
  BY <1>3, <1>7, <1>8 DEF a, b
<1>10. QED
  BY <1>4, <1>9 DEF P, SkipsZeros

\* A zero with something behind it.
ZeroAndMore(u) == Value(Leading(u)) = 0 /\ Len(Leading(u)) < Len(u)

\* d is what sig begins with, and no digit comes behind it.
Starts(d, sig) ==
    /\ Len(d) <= Len(sig)
    /\ \A i \in 1 .. Len(d) : sig[i] = d[i]
    /\ Len(d) < Len(sig) => sig[Len(d) + 1] \notin Range(Figures)

\* The zeros skipped, the text begins with the shortest digits of its value,
\* except for a zero with something behind it.
LEMMA ShortDigits ==
    ASSUME NEW C, NEW u \in Seq(C), Leading(u) # <<>>, ~ZeroAndMore(u)
    PROVE  \E d : /\ Short(d)
                  /\ Value(d) = Value(Leading(u))
                  /\ Starts(d, NoZeros(u))
<1>1. Len(u) \in Nat
  BY LenProperties
<1>2. PICK k : DigitsUpto(u, k)
  BY <1>1, LeadingExists
<1> DEFINE l == Leading(u)
           sig == NoZeros(u)
<1>3. /\ l \in Seq(Range(Figures)) /\ Len(l) = k
      /\ \A i \in 1 .. k : l[i] = u[i]
  BY <1>1, <1>2, LeadingIs
<1>4. k \in Nat \ {0} /\ k <= Len(u)
  BY <1>2, <1>3, EmptySeq DEF DigitsUpto
<1>5. u # <<>>
  BY <1>1, <1>4
<1> HIDE DEF l, sig
<1>0. PICK z : SkipsZeros(C, u, z)
  BY <1>5, NoZerosIs
<1>6. /\ z \in 0 .. Len(u) - 1
      /\ \A i \in 1 .. z : u[i] = "0"
      /\ z < Len(u) - 1 => u[z + 1] # "0"
      /\ sig \in Seq(C)
      /\ Len(sig) = Len(u) - z
      /\ \A i \in 1 .. Len(u) - z : sig[i] = u[z + i]
  BY <1>0 DEF SkipsZeros, sig
<1>7. z <= k
  <2> SUFFICES ASSUME k < z PROVE FALSE
    BY <1>4, <1>6
  <2>1. k + 1 \in 1 .. z /\ k < Len(u)
    BY <1>1, <1>4, <1>6
  <2>2. u[k + 1] = "0" /\ u[k + 1] \notin Range(Figures)
    BY <1>2, <1>6, <2>1 DEF DigitsUpto
  <2>3. QED
    BY <2>2, ZeroIs
<1> DEFINE d == SubSeq(l, z + 1, k)
<1>8. /\ d \in Seq(Range(Figures)) /\ Len(d) = k - z
      /\ \A i \in 1 .. k - z : d[i] = u[z + i]
  <2> DEFINE a == z + 1
  <2>1. a \in Int /\ k \in Int /\ \A i \in a .. k : l[i] \in Range(Figures)
    BY <1>3, <1>4, <1>6, ElementOfSeq
  <2>2. k - a + 1 = k - z /\ (a <= k <=> z < k) /\ \A i \in 1 .. k - z : a + i - 1 = z + i
    BY <1>4, <1>6
  <2>3. d = SubSeq(l, a, k)
    OBVIOUS
  <2> HIDE DEF a, d
  <2>4. /\ SubSeq(l, a, k) \in Seq(Range(Figures))
        /\ Len(SubSeq(l, a, k)) = IF a <= k THEN k - a + 1 ELSE 0
        /\ \A i \in 1 .. k - a + 1 : SubSeq(l, a, k)[i] = l[a + i - 1]
    BY <2>1, SubSeqProperties
  <2>5. \A i \in 1 .. k - z : z + i \in 1 .. k
    BY <1>4, <1>6
  <2>6. \A i \in 1 .. k - z : d[i] = u[z + i]
    BY <1>3, <2>2, <2>3, <2>4, <2>5
  <2>7. Len(d) = k - z
    BY <1>4, <1>6, <1>7, <2>2, <2>3, <2>4
  <2>8. QED
    BY <2>3, <2>4, <2>6, <2>7
<1> HIDE DEF d
<1>9. Value(l) = Value(d)
  <2>1. z \in Nat /\ Len(l) = z + Len(d)
    BY <1>3, <1>4, <1>6, <1>7, <1>8
  <2>2. \A i \in 1 .. z : i \in 1 .. k
    BY <1>4, <1>6, <1>7
  <2>3. \A i \in 1 .. z : l[i] = "0"
    BY <1>3, <1>6, <2>2
  <2>4. \A i \in 1 .. Len(d) : z + i \in 1 .. k /\ i \in 1 .. k - z
    BY <1>4, <1>6, <1>7, <1>8
  <2>5. \A i \in 1 .. Len(d) : l[z + i] = d[i]
    BY <1>3, <1>8, <2>4
  <2>6. QED
    BY <1>8, <2>1, <2>3, <2>5, ZerosAddNothing
<1>10. z < k
  <2> SUFFICES ASSUME z = k PROVE FALSE
    BY <1>4, <1>6, <1>7
  <2>1. Len(d) = 0
    BY <1>4, <1>8
  <2>2. Value(d) = 0
    <3>1. Len(d) \in Nat /\ 0 \in 0 .. Len(d)
      BY <2>1
    <3>2. /\ Value(d) = Values(d)[Len(d)]
          /\ \A i \in 0 .. Len(d) : Values(d)[i] = ValueAt(Values(d), d, i)
      BY <3>1, ValueIs
    <3>3. QED
      BY <2>1, <3>1, <3>2 DEF ValueAt
  <2>3. Len(l) < Len(u)
    BY <1>1, <1>3, <1>4, <1>6
  <2>4. QED
    BY <1>9, <2>2, <2>3 DEF ZeroAndMore, l
<1>11. Short(d)
  <2>1. d # <<>>
    BY <1>4, <1>6, <1>8, <1>10
  <2>2. ASSUME Len(d) > 1 PROVE d[1] # "0"
    <3>1. z < Len(u) - 1 /\ 1 \in 1 .. k - z
      BY <1>1, <1>4, <1>6, <1>8, <2>2
    <3>2. QED
      BY <1>6, <1>8, <3>1
  <2>3. QED
    BY <1>8, <2>1, <2>2 DEF Short
<1>12. Starts(d, sig)
  <2>1. Len(d) <= Len(sig)
    BY <1>1, <1>4, <1>6, <1>8
  <2>2. \A i \in 1 .. Len(d) : i \in 1 .. Len(u) - z
    BY <1>1, <1>4, <1>6, <1>8
  <2>3. \A i \in 1 .. Len(d) : sig[i] = d[i]
    BY <1>6, <1>8, <2>2
  <2>4. ASSUME Len(d) < Len(sig) PROVE sig[Len(d) + 1] \notin Range(Figures)
    <3>1. k < Len(u) /\ Len(d) + 1 \in 1 .. Len(u) - z /\ z + (Len(d) + 1) = k + 1
      BY <1>1, <1>4, <1>6, <1>7, <1>8, <2>4
    <3>2. u[k + 1] \notin Range(Figures)
      BY <1>2, <3>1 DEF DigitsUpto
    <3>3. QED
      BY <1>6, <3>1, <3>2
  <2>5. QED
    BY <2>1, <2>3, <2>4 DEF Starts
<1>13. QED
  BY <1>9, <1>11, <1>12 DEF l, sig

\* What json_parse_int64 compares: of digits, only those sig begins with pass.
LEMMA OnlyTheseDigits ==
    ASSUME NEW C, NEW sig \in Seq(C), NEW d \in Seq(Range(Figures)), Starts(d, sig),
           NEW cmp \in Seq(Range(Figures))
    PROVE  (\/ Len(sig) < Len(cmp) \/ SubSeq(sig, 1, Len(cmp)) # cmp
            \/ Len(sig) > Len(cmp) /\ sig[Len(cmp) + 1] \in Range(Figures))
               <=> cmp # d
<1> DEFINE n == Len(cmp)
<1>1. Len(sig) \in Nat /\ Len(d) \in Nat /\ n \in Nat
  BY LenProperties
<1>2. ASSUME n <= Len(sig)
      PROVE  /\ SubSeq(sig, 1, n) \in Seq(C)
             /\ Len(SubSeq(sig, 1, n)) = n
             /\ \A i \in 1 .. n : SubSeq(sig, 1, n)[i] = sig[i]
  <2>1. 1 \in Int /\ n \in Int /\ \A i \in 1 .. n : sig[i] \in C
    BY <1>1, <1>2, ElementOfSeq
  <2>2. n - 1 + 1 = n /\ (n = 0 => Len(<<>>) = n) /\ \A i \in 1 .. n : 1 + i - 1 = i
    BY <1>1
  <2> HIDE DEF n
  <2>3. /\ SubSeq(sig, 1, n) \in Seq(C)
        /\ Len(SubSeq(sig, 1, n)) = IF 1 <= n THEN n - 1 + 1 ELSE 0
        /\ \A i \in 1 .. n - 1 + 1 : SubSeq(sig, 1, n)[i] = sig[1 + i - 1]
    BY <2>1, SubSeqProperties
  <2>4. QED
    BY <1>1, <2>2, <2>3
<1>3. ASSUME cmp = d
      PROVE  /\ ~(Len(sig) < n) /\ SubSeq(sig, 1, n) = cmp
             /\ Len(sig) > n => sig[n + 1] \notin Range(Figures)
  <2>1. n <= Len(sig)
    BY <1>3 DEF Starts
  <2>2. SubSeq(sig, 1, n) = cmp
    <3> DEFINE t == SubSeq(sig, 1, n)
    <3>1. /\ t \in Seq(C) /\ Len(t) = n /\ \A i \in 1 .. n : t[i] = sig[i]
      BY <1>2, <2>1
    <3>2. \A i \in 1 .. n : t[i] = cmp[i]
      BY <1>3, <3>1 DEF Starts
    <3> HIDE DEF t
    <3>3. t \in Seq(C \cup Range(Figures)) /\ cmp \in Seq(C \cup Range(Figures))
      BY <3>1, SeqMonotonic
    <3>4. t = cmp
      BY <3>1, <3>2, <3>3, SeqEqual
    <3>5. QED
      BY <3>4 DEF t
  <2>3. QED
    BY <1>1, <1>3, <2>1, <2>2 DEF Starts
<1>4. ASSUME ~(Len(sig) < n), SubSeq(sig, 1, n) = cmp,
             Len(sig) > n => sig[n + 1] \notin Range(Figures)
      PROVE  cmp = d
  <2>1. n <= Len(sig)
    BY <1>1, <1>4
  <2>2. \A i \in 1 .. n : cmp[i] = sig[i]
    BY <1>2, <1>4, <2>1
  <2>3. ~(Len(d) < n)
    <3> SUFFICES ASSUME Len(d) < n PROVE FALSE
      OBVIOUS
    <3>1. Len(d) + 1 \in 1 .. n /\ Len(d) < Len(sig)
      BY <1>1, <2>1
    <3>2. sig[Len(d) + 1] \notin Range(Figures) /\ sig[Len(d) + 1] = cmp[Len(d) + 1]
      BY <2>2, <3>1 DEF Starts
    <3>3. cmp[Len(d) + 1] \in Range(Figures)
      BY <3>1, ElementOfSeq
    <3>4. QED
      BY <3>2, <3>3
  <2>4. ~(n < Len(d))
    <3> SUFFICES ASSUME n < Len(d) PROVE FALSE
      OBVIOUS
    <3>1. n + 1 \in 1 .. Len(d) /\ n < Len(sig)
      BY <1>1 DEF Starts
    <3>2. sig[n + 1] = d[n + 1] /\ d[n + 1] \in Range(Figures)
      BY <3>1, ElementOfSeq DEF Starts
    <3>3. QED
      BY <1>1, <1>4, <3>1, <3>2
  <2>5. Len(d) = Len(cmp)
    BY <1>1, <2>3, <2>4
  <2>6. \A i \in 1 .. Len(cmp) : cmp[i] = d[i]
    BY <2>2, <2>5 DEF Starts
  <2>7. QED
    BY <2>5, <2>6, SeqEqual
<1>5. QED
  BY <1>1, <1>3, <1>4

-----------------------------------------------------------------------------
(* Reading an int.                                                         *)

\* A sign is no digit.
LEMMA SignIsNoDigit == "-" \notin Range(Figures)
<1>1. Len(Figures) = 10
  BY DEF Figures
<1>2. DOMAIN Figures = 1 .. 10
  BY <1>1, SMT DEF Figures
<1>3. \A i \in 1 .. 10 : Figures[i] # "-"
  BY DEF Figures
<1>4. QED
  BY <1>2, <1>3 DEF Range

\* The absolute value.
Magnitude(n) == IF n < 0 THEN -n ELSE n

\* What is printed is the numeral behind the sign.
LEMMA DecimalIs ==
    ASSUME NEW num \in Int
    PROVE  Unsigned(Decimal(num)) = numeral[Magnitude(num)]
<1> DEFINE m == Magnitude(num)
           s == numeral[m]
<1>1. m \in Nat
  BY DEF Magnitude
<1> HIDE DEF m
<1>2. s \in Seq(Range(Figures)) /\ s # <<>>
  BY <1>1, NumeralIsShort
<1> HIDE DEF s
<1>3. CASE num < 0
  <2>1. Decimal(num) = <<"-">> \o s
    BY <1>3 DEF Decimal, s, m, Magnitude
  <2> DEFINE B == Range(Figures) \cup {"-"}
             t == <<"-">>
  <2>2. t \in Seq(B) /\ s \in Seq(B) /\ Len(t) = 1 /\ t[1] = "-"
    <3>1. s \in Seq(B)
      BY <1>2, SeqMonotonic
    <3>2. "-" \in B
      OBVIOUS
    <3> HIDE DEF B
    <3>3. QED
      BY <3>1, <3>2
  <2> HIDE DEF B, t
  <2>3. /\ t \o s \in Seq(B)
        /\ Len(t \o s) = Len(t) + Len(s)
        /\ \A i \in 1 .. Len(t) + Len(s) :
               (t \o s)[i] = IF i <= Len(t) THEN t[i] ELSE s[i - Len(t)]
    BY <2>2, ConcatProperties
  <2>4. Len(s) \in Nat
    BY <1>2, LenProperties
  <2> DEFINE x == t \o s
  <2>5. x \in Seq(B) /\ x # <<>> /\ x[1] = "-" /\ Len(x) = Len(s) + 1
        /\ \A i \in 1 .. Len(s) : x[i + 1] = s[i]
    <3>1. x # <<>>
      BY <2>2, <2>3, <2>4
    <3>2. x[1] = "-"
      BY <2>2, <2>3, <2>4
    <3>3. \A i \in 1 .. Len(s) : i + 1 \in 1 .. Len(t) + Len(s) /\ ~(i + 1 <= Len(t))
                                 /\ (i + 1) - Len(t) = i
      BY <2>2, <2>4
    <3>4. \A i \in 1 .. Len(s) : x[i + 1] = s[i]
      BY <2>3, <3>3
    <3>5. QED
      BY <2>2, <2>3, <2>4, <3>1, <3>2, <3>4
  <2>6. Decimal(num) = x
    BY <2>1 DEF x, t
  <2> HIDE DEF x
  <2>7. Unsigned(x) = Tail(x)
    BY <2>5 DEF Unsigned, Negative
  <2>8. Tail(x) \in Seq(B) /\ Len(Tail(x)) = Len(s)
        /\ \A i \in 1 .. Len(Tail(x)) : Tail(x)[i] = s[i]
    BY <2>4, <2>5, HeadTailProperties
  <2>9. Tail(x) = s
    BY <2>2, <2>8, SeqEqual
  <2>10. QED
    BY <2>6, <2>7, <2>9 DEF s, m
<1>4. CASE ~(num < 0)
  <2>1. Decimal(num) = s
    BY <1>4 DEF Decimal, s, m, Magnitude
  <2>2. s[1] # "-"
    <3>1. 1 \in 1 .. Len(s)
      BY <1>2, EmptySeq
    <3>2. s[1] \in Range(Figures)
      BY <1>2, <3>1, ElementOfSeq
    <3>3. QED
      BY <3>2, SignIsNoDigit
  <2>3. Unsigned(s) = s
    BY <2>2 DEF Unsigned, Negative
  <2>4. QED
    BY <2>1, <2>3 DEF s, m
<1>5. QED
  BY <1>3, <1>4

\* The text behind the sign is a text, and begins with a number.
LEMMA ExactIs ==
    ASSUME NEW C, NEW txt \in Seq(C), IsInteger(txt)
    PROVE  /\ Unsigned(txt) \in Seq(C)
           /\ Leading(Unsigned(txt)) # <<>>
           /\ Value(Leading(Unsigned(txt))) \in Nat
           /\ Exact(txt) = IF Negative(txt) THEN -Value(Leading(Unsigned(txt)))
                           ELSE Value(Leading(Unsigned(txt)))
<1> DEFINE u == Unsigned(txt)
<1>1. u \in Seq(C)
  <2>1. CASE Negative(txt)
    <3>1. u = Tail(txt) /\ txt # <<>>
      BY <2>1 DEF Unsigned, Negative
    <3>2. QED
      BY <3>1, HeadTailProperties
  <2>2. CASE ~Negative(txt)
    BY <2>2 DEF Unsigned
  <2>3. QED
    BY <2>1, <2>2
<1> HIDE DEF u
<1>2. Len(u) \in Nat
  BY <1>1, LenProperties
<1>3. PICK k : DigitsUpto(u, k)
  BY <1>2, LeadingExists
<1>4. Leading(u) \in Seq(Range(Figures))
  BY <1>2, <1>3, LeadingIs
<1>5. Value(Leading(u)) \in Nat
  BY <1>4, ValueIsNat
<1>6. QED
  BY <1>1, <1>5 DEF u, IsInteger, Exact

\* The workaround finds out whether the number is the one in the text, whatever
\* sscanf made of it, unless the text is a zero with something behind it.
LEMMA PrintingTells ==
    ASSUME NEW C, NEW txt \in Seq(C), IsInteger(txt), ~ZeroAndMore(Unsigned(txt)),
           NEW num \in Int
    PROVE  PrintsOtherwise(txt, num) <=> num # Exact(txt)
<1> DEFINE u   == Unsigned(txt)
           v   == Value(Leading(u))
           sig == NoZeros(u)
           m   == Magnitude(num)
           cmp == numeral[m]
<1>1. u \in Seq(C) /\ Leading(u) # <<>> /\ v \in Nat
      /\ Exact(txt) = IF Negative(txt) THEN -v ELSE v
  BY ExactIs
<1>2. PICK d : Short(d) /\ Value(d) = v /\ Starts(d, sig)
  <2> HIDE DEF u
  <2>1. ~ZeroAndMore(u)
    BY DEF u
  <2>2. QED
    BY <1>1, <2>1, ShortDigits
<1>3. sig \in Seq(C)
  <2> HIDE DEF u
  <2>1. CASE u = <<>>
    <3>1. Len(u) = 0
      BY <2>1
    <3>2. PICK k : DigitsUpto(u, k)
      BY <3>1, LeadingExists
    <3>3. k = 0 /\ Leading(u) \in Seq(Range(Figures)) /\ Len(Leading(u)) = k
      BY <3>1, <3>2, LeadingIs DEF DigitsUpto
    <3>4. QED
      BY <1>1, <3>3, EmptySeq
  <2>2. CASE u # <<>>
    <3>1. PICK z : SkipsZeros(C, u, z)
      BY <1>1, <2>2, NoZerosIs
    <3>2. QED
      BY <3>1 DEF SkipsZeros
  <2>3. QED
    BY <2>1, <2>2
<1>4. m \in Nat
  BY DEF Magnitude
<1>5. Unsigned(Decimal(num)) = cmp
  BY DecimalIs
<1> HIDE DEF u, v, sig, m, cmp
<1>6. cmp \in Seq(Range(Figures)) /\ Value(cmp) = m
  BY <1>4, NumeralIsRead DEF cmp
<1>7. numeral[v] = d /\ d \in Seq(Range(Figures))
  BY <1>2, NumeralOfValue DEF Short
<1>8. cmp # d <=> m # v
  BY <1>2, <1>6, <1>7 DEF cmp
<1>9. PrintsOtherwise(txt, num) <=>
        \/ (Negative(txt) /\ num # 0) # (num < 0)
        \/ (\/ Len(sig) < Len(cmp) \/ SubSeq(sig, 1, Len(cmp)) # cmp
            \/ Len(sig) > Len(cmp) /\ sig[Len(cmp) + 1] \in Range(Figures))
  BY <1>5, Zenon DEF PrintsOtherwise, sig, u
<1>10. (\/ Len(sig) < Len(cmp) \/ SubSeq(sig, 1, Len(cmp)) # cmp
        \/ Len(sig) > Len(cmp) /\ sig[Len(cmp) + 1] \in Range(Figures)) <=> cmp # d
  BY <1>2, <1>3, <1>6, <1>7, OnlyTheseDigits
<1>11. PrintsOtherwise(txt, num) <=>
         (Negative(txt) /\ num # 0) # (num < 0) \/ m # v
  BY <1>8, <1>9, <1>10, Zenon
<1>12. Negative(txt) \in BOOLEAN
  BY DEF Negative
<1>13. ((Negative(txt) /\ num # 0) # (num < 0) \/ m # v) <=> num # Exact(txt)
  <2>1. CASE Negative(txt)
    BY <1>1, <2>1 DEF m, Magnitude
  <2>2. CASE ~Negative(txt)
    BY <1>1, <2>2 DEF m, Magnitude
  <2>3. QED
    BY <2>1, <2>2
<1>14. QED
  BY <1>11, <1>13, Zenon

\* A text of any length is read as the nearest number of the wide type, with
\* either kind of sscanf, unless the workaround misreads it.
LEMMA WideIsNearest ==
    ASSUME NEW C, NEW txt \in Seq(C), IsInteger(txt), NEW lib \in Libraries,
           lib = "wraps" => ~Misread(txt)
    PROVE  ParseInt64(lib, txt) = Within(Exact(txt), WideMin, WideMax)
<1> DEFINE n == Exact(txt)
           num == Scanned(lib, txt)
<1>1. WideLimit \in Nat \ {0}
  BY LimitsAssumption
<1> DEFINE v == Value(Leading(Unsigned(txt)))
<1>5. v \in Nat /\ n = IF Negative(txt) THEN -v ELSE v
  BY ExactIs
<1> HIDE DEF v
<1>2. n \in Int /\ (Negative(txt) => n <= 0) /\ (~Negative(txt) => n >= 0)
  BY <1>5
<1>7. v = 0 => n = 0
  <2> HIDE DEF n, num
  <2>1. CASE Negative(txt)
    <3>1. n \in Int /\ n + v = 0
      BY <1>5, <2>1
    <3>2. QED
      BY <3>1
  <2>2. CASE ~Negative(txt)
    BY <1>5, <2>2
  <2>3. QED
    BY <2>1, <2>2
<1>3. CASE lib = "saturates"
  <2> SUFFICES ParseInt64(lib, txt) = Within(n, WideMin, WideMax)
    OBVIOUS
  <2>1. num = Within(n, WideMin, WideMax)
    BY <1>3 DEF Scanned
  <2>2. Exceeds(lib, txt) <=> n < WideMin \/ n > WideMax
    BY <1>3 DEF Exceeds, OutOfRange
  <2> HIDE DEF n, num
  <2>3. ParseInt64(lib, txt) =
          IF ~Exceeds(lib, txt) THEN num ELSE IF Negative(txt) THEN WideMin ELSE WideMax
    BY <1>3 DEF ParseInt64, num
  <2>4. WideMin = -WideLimit /\ WideMax = WideLimit - 1
    BY DEF WideMin, WideMax
  <2>5. QED
    BY <1>1, <1>2, <2>1, <2>2, <2>3, <2>4 DEF Within
<1>4. CASE lib # "saturates"
  <2> SUFFICES ParseInt64(lib, txt) = Within(n, WideMin, WideMax)
    OBVIOUS
  <2>1. lib = "wraps"
    BY <1>4 DEF Libraries
  <2>2. num = Wrapped(n, WideLimit)
    BY <1>4 DEF Scanned
  <2>3. Exceeds(lib, txt) <=> PrintsOtherwise(txt, num)
    BY <1>4, Zenon DEF Exceeds
  <2>4. ~ZeroAndMore(Unsigned(txt)) /\ ~(n < 0 /\ num = 0)
    <3>1. ~Misread(txt)
      BY <2>1
    <3>3. v = 0 => n = 0
      BY <1>7
    <3>4. QED
      BY <2>2, <3>1, <3>3, Zenon DEF Misread, ZeroAndMore, v
  <2> HIDE DEF n
  <2>5. num \in Int /\ -WideLimit <= num /\ num < WideLimit
        /\ (-WideLimit <= n /\ n < WideLimit => num = n)
    <3>1. /\ Wrapped(n, WideLimit) \in Int
          /\ -WideLimit <= Wrapped(n, WideLimit) /\ Wrapped(n, WideLimit) < WideLimit
      BY <1>1, <1>2, WrappedFits
    <3>2. -WideLimit <= n /\ n < WideLimit => Wrapped(n, WideLimit) = n
      BY <1>1, <1>2, WrappedKeeps
    <3> HIDE DEF num
    <3>3. QED
      BY <2>2, <3>1, <3>2
  <2> HIDE DEF num
  <2>6. Exceeds(lib, txt) <=> num # n
    BY <2>3, <2>4, <2>5, PrintingTells DEF n
  <2>7. ParseInt64(lib, txt) =
          IF ~Exceeds(lib, txt) THEN num
          ELSE IF Negative(txt) /\ num # 0 THEN WideMin ELSE WideMax
    BY <1>4 DEF ParseInt64, num
  <2>8. WideMin = -WideLimit /\ WideMax = WideLimit - 1
    BY DEF WideMin, WideMax
  <2>9. Within(n, WideMin, WideMax) =
          IF n < -WideLimit THEN -WideLimit ELSE IF n > WideLimit - 1 THEN WideLimit - 1 ELSE n
    BY <2>8 DEF Within
  <2>10. CASE num = n
    <3>1. ParseInt64(lib, txt) = n
      BY <2>6, <2>7, <2>10
    <3>2. QED
      BY <1>1, <1>2, <2>5, <2>9, <2>10, <3>1
  <2>11. CASE num # n
    <3>1. ParseInt64(lib, txt) = IF Negative(txt) /\ num # 0 THEN WideMin ELSE WideMax
      BY <2>6, <2>7, <2>11
    <3>2. n < -WideLimit \/ n > WideLimit - 1
      BY <1>1, <1>2, <2>5, <2>11
    <3>3. CASE n < -WideLimit
      <4>1. Negative(txt) /\ num # 0
        BY <1>1, <1>2, <2>4, <3>3
      <4>2. QED
        BY <2>8, <2>9, <3>1, <3>3, <4>1
    <3>4. CASE n > WideLimit - 1
      <4>1. ~Negative(txt) /\ ~(n < -WideLimit)
        BY <1>1, <1>2, <3>4
      <4>2. QED
        BY <2>8, <2>9, <3>1, <3>4, <4>1
    <3>5. QED
      BY <3>2, <3>3, <3>4
  <2>12. QED
    BY <2>10, <2>11
<1>6. QED
  BY <1>3, <1>4

\* "If the value of too big or too small to fit into 32-bit, INT32_MAX or
\* INT32_MIN are returned" (json_object.h:493-495): for any two widths, any text
\* that begins with an integer, of whatever length, and either kind of sscanf,
\* json_object_get_int and ag_json_get_int return the nearest int, from a
\* number and from a string, unless the workaround misreads the text.
THEOREM IntIsNearest ==
    ASSUME NEW C, NEW txt \in Seq(C), IsInteger(txt), NEW lib \in Libraries,
           lib = "wraps" => ~Misread(txt)
    PROVE  /\ AgGetInt(lib, <<"num", ParseInt64(lib, txt)>>) = Nearest(txt)
           /\ GetInt(lib, <<"string", txt>>) = Nearest(txt)
<1> DEFINE n == Exact(txt)
           w == ParseInt64(lib, txt)
<1>1. /\ WideLimit \in Nat \ {0} /\ NarrowLimit \in Nat \ {0}
      /\ NarrowLimit <= WideLimit
  BY LimitsAssumption
<1>2. n \in Int
  <2>1. /\ Value(Leading(Unsigned(txt))) \in Nat
        /\ n = IF Negative(txt) THEN -Value(Leading(Unsigned(txt)))
              ELSE Value(Leading(Unsigned(txt)))
    BY ExactIs
  <2>2. QED
    BY <2>1
<1>3. w = Within(n, WideMin, WideMax)
  BY WideIsNearest
<1> HIDE DEF n, w
<1>4. Within(w, NarrowMin, NarrowMax) = Within(n, NarrowMin, NarrowMax)
  BY <1>1, <1>2, <1>3 DEF Within, WideMin, WideMax, NarrowMin, NarrowMax
<1>5. AgGetInt(lib, <<"num", w>>) = Within(w, NarrowMin, NarrowMax)
  BY DEF AgGetInt, GetInt, GetInt64
<1>6. GetInt(lib, <<"string", txt>>) = Within(w, NarrowMin, NarrowMax)
  BY DEF GetInt, GetInt64, w
<1>7. QED
  BY <1>4, <1>5, <1>6 DEF Nearest, n, w
=============================================================================
