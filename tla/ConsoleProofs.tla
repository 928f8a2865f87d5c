----------------------------- MODULE ConsoleProofs -----------------------------
(***************************************************************************)
(* Theorems about the console: what the user sees is what is parsed, the   *)
(* numbers that are parsed are the numbers that were typed, and the ones   *)
(* printed are the ones held -- for every line of any length over any      *)
(* characters, and for every width of the integers.                        *)
(*                                                                         *)
(* What a loop over the digits computes is proved by induction on their    *)
(* number.  The induction is stated for sets of natural numbers, and       *)
(* follows from the least element of a set.                                *)
(***************************************************************************)
EXTENDS Console, SequenceTheorems, WellFoundedInduction, TLAPS

LEMMA LeastElement ==
  ASSUME NEW T, T \subseteq Nat, T # {}
  PROVE  \E m \in T : \A k \in T : m <= k
  <1> DEFINE R == OpToRel(<, Nat)
  <1>1. IsWellFoundedOn(R, Nat)
    BY NatLessThanWellFounded
  <1>2. \A x, y \in T : <<y, x>> \in R <=> y < x
    BY DEF OpToRel
  <1> HIDE DEF R
  <1>3. PICK x \in T : \A y \in T : ~(<<y, x>> \in R)
    BY <1>1, WFMin
  <1>4. \A y \in T : ~(y < x) /\ x \in Nat /\ y \in Nat
    BY <1>2, <1>3
  <1>5. \A y \in T : x <= y
    BY <1>4
  <1> QED
    BY <1>5

LEMMA Induction ==
  ASSUME NEW S, 0 \in S, \A n \in Nat : n \in S => n + 1 \in S
  PROVE  Nat \subseteq S
  <1> SUFFICES ASSUME Nat \ S # {} PROVE FALSE
    OBVIOUS
  <1>1. PICK m \in Nat \ S : \A k \in Nat \ S : m <= k
    BY LeastElement
  <1>2. m # 0 /\ m - 1 \in Nat
    BY <1>1
  <1>3. m - 1 \in S
    BY <1>1, <1>2
  <1> QED
    BY <1>1, <1>2, <1>3

-----------------------------------------------------------------------------
(* Digits *)

LEMMA DigitTyped == \A c \in Digits : DigitOf[c] \in 0 .. 9
  <1> SUFFICES ASSUME NEW c \in Digits PROVE DigitOf[c] \in 0 .. 9
    OBVIOUS
  <1>1. \E n \in 0 .. 9 : c = Numerals[n + 1]
    <2>1. /\ "0" = Numerals[0 + 1] /\ "1" = Numerals[1 + 1] /\ "2" = Numerals[2 + 1]
          /\ "3" = Numerals[3 + 1] /\ "4" = Numerals[4 + 1] /\ "5" = Numerals[5 + 1]
          /\ "6" = Numerals[6 + 1] /\ "7" = Numerals[7 + 1] /\ "8" = Numerals[8 + 1]
          /\ "9" = Numerals[9 + 1]
      BY DEF Numerals
    <2> QED
      BY <2>1 DEF Digits
  <1> QED
    BY <1>1 DEF DigitOf

(* What the loop over the digits of s has after n of them. *)
Counts(u, s) ==
  /\ u \in [0 .. Len(s) -> Nat]
  /\ u[0] = 0
  /\ \A k \in 1 .. Len(s) : u[k] = 10 * u[k - 1] + DigitOf[s[k]]

LEMMA CountsExists ==
  ASSUME NEW s \in Seq(Digits)
  PROVE  \E u : Counts(u, s)
  <1> DEFINE Upto(u, n) == /\ u \in [0 .. n -> Nat] /\ u[0] = 0
                           /\ \A k \in 1 .. n : u[k] = 10 * u[k - 1] + DigitOf[s[k]]
             S == {n \in Nat : n <= Len(s) => \E u : Upto(u, n)}
  <1>1. 0 \in S
    <2>1. Upto([k \in 0 .. 0 |-> 0], 0)
      OBVIOUS
    <2> QED
      BY <2>1
  <1>2. ASSUME NEW n \in Nat, n \in S PROVE n + 1 \in S
    <2> SUFFICES ASSUME n + 1 <= Len(s) PROVE \E u : Upto(u, n + 1)
      <3> HIDE DEF Upto
      <3> QED
        OBVIOUS
    <2>1. n <= Len(s) /\ n + 1 \in 1 .. Len(s) /\ s[n + 1] \in Digits
      OBVIOUS
    <2>2. PICK u : Upto(u, n)
      BY <1>2, <2>1
    <2>3. 10 * u[n] + DigitOf[s[n + 1]] \in Nat
      <3>1. u \in [0 .. n -> Nat] /\ n \in 0 .. n
        BY <2>2
      <3>2. u[n] \in Nat /\ DigitOf[s[n + 1]] \in 0 .. 9
        BY <2>1, <3>1, DigitTyped
      <3> QED
        <4>1. \A x \in Nat, y \in 0 .. 9 : 10 * x + y \in Nat
          OBVIOUS
        <4> QED
          BY <3>2, <4>1
    <2> DEFINE w == [k \in 0 .. n + 1 |-> IF k <= n THEN u[k] ELSE 10 * u[n] + DigitOf[s[n + 1]]]
    <2>4. w \in [0 .. n + 1 -> Nat] /\ w[0] = 0
      BY <2>2, <2>3
    <2>5. \A k \in 1 .. n + 1 : w[k] = 10 * w[k - 1] + DigitOf[s[k]]
      <3> SUFFICES ASSUME NEW k \in 1 .. n + 1 PROVE w[k] = 10 * w[k - 1] + DigitOf[s[k]]
        OBVIOUS
      <3>1. CASE k <= n
        BY <2>2, <3>1
      <3>2. CASE k = n + 1
        BY <3>2
      <3> QED
        BY <3>1, <3>2
    <2> QED
      BY <2>4, <2>5
  <1> HIDE DEF Upto
  <1>3. Nat \subseteq S
    BY <1>1, <1>2, Induction
  <1>4. \E u : Upto(u, Len(s))
    BY <1>3
  <1> QED
    BY <1>4 DEF Upto, Counts

LEMMA CountsUnique ==
  ASSUME NEW s \in Seq(Digits), NEW t \in Seq(Digits), NEW u, NEW v, Counts(u, s), Counts(v, t),
         NEW n \in Nat, n <= Len(s), n <= Len(t), \A k \in 1 .. n : s[k] = t[k]
  PROVE  u[n] = v[n]
  <1> DEFINE S == {k \in Nat : k <= n => u[k] = v[k]}
  <1>1. 0 \in S
    BY DEF Counts
  <1>2. ASSUME NEW k \in Nat, k \in S PROVE k + 1 \in S
    <2> SUFFICES ASSUME k + 1 <= n PROVE u[k + 1] = v[k + 1]
      OBVIOUS
    <2>1. k + 1 \in 1 .. Len(s) /\ k + 1 \in 1 .. Len(t) /\ (k + 1) - 1 = k /\ k <= n
      OBVIOUS
    <2>2. u[k] = v[k] /\ s[k + 1] = t[k + 1]
      BY <1>2, <2>1
    <2> QED
      BY <2>1, <2>2 DEF Counts
  <1>3. Nat \subseteq S
    BY <1>1, <1>2, Induction
  <1> QED
    BY <1>3

LEMMA DecimalCounts ==
  ASSUME NEW s \in Seq(Digits)
  PROVE  \E u : Counts(u, s) /\ Decimal(s) = u[Len(s)]
  <1> DEFINE upto[n \in 0 .. Len(s)] == IF n = 0 THEN 0 ELSE 10 * upto[n - 1] + DigitOf[s[n]]
             Body(f) == [n \in 0 .. Len(s) |-> IF n = 0 THEN 0 ELSE 10 * f[n - 1] + DigitOf[s[n]]]
  <1>1. PICK u : Counts(u, s)
    BY CountsExists
  <1>2. u = Body(u)
    BY <1>1 DEF Counts
  <1>3. upto = Body(upto)
    BY <1>2
  <1>4. Decimal(s) = upto[Len(s)]
    BY DEF Decimal
  <1> HIDE DEF upto
  <1>5. /\ DOMAIN upto = 0 .. Len(s) /\ upto[0] = 0
        /\ \A k \in 1 .. Len(s) : upto[k] = 10 * upto[k - 1] + DigitOf[s[k]]
    <2>1. DOMAIN upto = 0 .. Len(s) /\ 0 \in 0 .. Len(s)
      BY <1>3
    <2>2. \A k \in 0 .. Len(s) : upto[k] = IF k = 0 THEN 0 ELSE 10 * upto[k - 1] + DigitOf[s[k]]
      BY <1>3
    <2> QED
      BY <2>1, <2>2
  <1> HIDE DEF Body
  <1> DEFINE S == {k \in Nat : k <= Len(s) => upto[k] \in Nat}
  <1>6. 0 \in S
    BY <1>5
  <1>7. ASSUME NEW k \in Nat, k \in S PROVE k + 1 \in S
    <2> SUFFICES ASSUME k + 1 <= Len(s) PROVE upto[k + 1] \in Nat
      OBVIOUS
    <2>1. k + 1 \in 1 .. Len(s) /\ k <= Len(s) /\ (k + 1) - 1 = k /\ s[k + 1] \in Digits
      OBVIOUS
    <2>2. upto[k] \in Nat /\ DigitOf[s[k + 1]] \in 0 .. 9
      BY <1>7, <2>1, DigitTyped
    <2>3. upto[k + 1] = 10 * upto[k] + DigitOf[s[k + 1]]
      BY <1>5, <2>1
    <2>4. \A n \in Nat, d \in 0 .. 9 : 10 * n + d \in Nat
      OBVIOUS
    <2>5. 10 * upto[k] + DigitOf[s[k + 1]] \in Nat
      BY <2>2, <2>4
    <2> QED
      BY <2>3, <2>5
  <1>8. Nat \subseteq S
    BY <1>6, <1>7, Induction
  <1>9. upto \in [0 .. Len(s) -> Nat]
    <2>1. \A k \in 0 .. Len(s) : upto[k] \in Nat
      BY <1>8
    <2>2. upto = [k \in 0 .. Len(s) |-> upto[k]]
      BY <1>3 DEF Body
    <2> QED
      BY <2>1, <2>2
  <1>10. Counts(upto, s)
    BY <1>5, <1>9 DEF Counts
  <1> QED
    BY <1>4, <1>10

LEMMA DecimalTyped == ASSUME NEW s \in Seq(Digits) PROVE Decimal(s) \in Nat
  <1>1. PICK u : Counts(u, s) /\ Decimal(s) = u[Len(s)]
    BY DecimalCounts
  <1> QED
    BY <1>1 DEF Counts

(* A further digit. *)
LEMMA DecimalNext ==
  ASSUME NEW s \in Seq(Digits), NEW t \in Seq(Digits),
         Len(t) = Len(s) + 1, \A k \in 1 .. Len(s) : s[k] = t[k]
  PROVE  Decimal(t) = 10 * Decimal(s) + DigitOf[t[Len(t)]]
  <1>1. PICK u : Counts(u, s) /\ Decimal(s) = u[Len(s)]
    BY DecimalCounts
  <1>2. PICK v : Counts(v, t) /\ Decimal(t) = v[Len(t)]
    BY DecimalCounts
  <1>3. Len(s) \in Nat /\ Len(s) <= Len(t) /\ Len(t) \in 1 .. Len(t) /\ Len(t) - 1 = Len(s)
    OBVIOUS
  <1>4. u[Len(s)] = v[Len(s)]
    BY <1>1, <1>2, <1>3, CountsUnique
  <1>5. v[Len(t)] = 10 * v[Len(s)] + DigitOf[t[Len(t)]]
    BY <1>2, <1>3 DEF Counts
  <1> QED
    BY <1>1, <1>2, <1>4, <1>5

(* The hundredths: two digits at most. *)
LEMMA DecimalShort ==
  ASSUME NEW s \in Seq(Digits)
  PROVE  /\ Len(s) = 0 => Decimal(s) = 0
         /\ Len(s) = 1 => Decimal(s) = DigitOf[s[1]]
         /\ Len(s) = 2 => Decimal(s) = 10 * DigitOf[s[1]] + DigitOf[s[2]]
  <1>1. PICK u : Counts(u, s) /\ Decimal(s) = u[Len(s)]
    BY DecimalCounts
  <1>2. CASE Len(s) = 0
    BY <1>1, <1>2 DEF Counts
  <1>3. CASE Len(s) = 1
    <2>1. 1 \in 1 .. Len(s) /\ s[1] \in Digits
      BY <1>3
    <2>2. u[1] = 10 * u[0] + DigitOf[s[1]] /\ u[0] = 0
      BY <1>1, <2>1 DEF Counts
    <2> QED
      BY <1>1, <1>3, <2>1, <2>2, DigitTyped
  <1>4. CASE Len(s) = 2
    <2>1. 1 \in 1 .. Len(s) /\ 2 \in 1 .. Len(s) /\ s[1] \in Digits /\ s[2] \in Digits
      BY <1>4
    <2>2. u[1] = 10 * u[0] + DigitOf[s[1]] /\ u[0] = 0 /\ u[2] = 10 * u[1] + DigitOf[s[2]]
      BY <1>1, <2>1 DEF Counts
    <2> QED
      BY <1>1, <1>4, <2>1, <2>2, DigitTyped
  <1> QED
    BY <1>2, <1>3, <1>4

-----------------------------------------------------------------------------
(* Scanning a line *)

LEMMA MinIsLeast ==
  ASSUME NEW T, T \subseteq Nat, T # {}
  PROVE  Min(T) \in T /\ \A k \in T : Min(T) <= k
  BY LeastElement DEF Min

(* Where a scan over characters of S stops, and what it has passed. *)
LEMMA PastStops ==
  ASSUME NEW s \in Seq(Chars), NEW p \in 1 .. Len(s) + 1, NEW S, "end" \notin S
  PROVE  /\ Past(s, p, S) \in p .. Len(s) + 1
         /\ At(s, Past(s, p, S)) \notin S
         /\ \A q \in p .. Past(s, p, S) - 1 : q \in 1 .. Len(s) /\ s[q] \in S
  <1> DEFINE T == {q \in p .. Len(s) + 1 : At(s, q) \notin S}
  <1>1. Len(s) \in Nat /\ p \in Nat /\ p >= 1 /\ p <= Len(s) + 1
    OBVIOUS
  <1>2. Len(s) + 1 \in T
    BY <1>1 DEF At
  <1>3. T \subseteq Nat /\ T # {}
    BY <1>1, <1>2
  <1>4. Past(s, p, S) \in T /\ \A k \in T : Past(s, p, S) <= k
    BY <1>3, MinIsLeast DEF Past
  <1>5. ASSUME NEW q \in p .. Past(s, p, S) - 1
        PROVE  q \in 1 .. Len(s) /\ s[q] \in S
    <2>1. q \notin T
      BY <1>1, <1>4, <1>5
    <2>2. q \in 1 .. Len(s) /\ q \in p .. Len(s) + 1
      BY <1>1, <1>4, <1>5
    <2> QED
      BY <1>1, <2>1, <2>2 DEF At
  <1> QED
    BY <1>4, <1>5

(* It stops at the first character outside S. *)
LEMMA PastIs ==
  ASSUME NEW s \in Seq(Chars), NEW p \in 1 .. Len(s) + 1, NEW S, "end" \notin S,
         NEW e \in p .. Len(s) + 1, At(s, e) \notin S, \A q \in p .. e - 1 : s[q] \in S
  PROVE  Past(s, p, S) = e
  <1> DEFINE x == Past(s, p, S)
  <1>1. /\ x \in p .. Len(s) + 1 /\ At(s, x) \notin S
        /\ \A q \in p .. x - 1 : q \in 1 .. Len(s) /\ s[q] \in S
    BY PastStops
  <1>2. Len(s) \in Nat /\ p \in Nat /\ p >= 1
    OBVIOUS
  <1> HIDE DEF x
  <1>3. CASE x < e
    <2>1. x \in p .. e - 1 /\ x <= Len(s)
      BY <1>1, <1>2, <1>3
    <2> QED
      BY <1>1, <2>1 DEF At
  <1>4. CASE e < x
    <2>1. e \in p .. x - 1
      BY <1>1, <1>2, <1>4
    <2> QED
      BY <1>1, <2>1 DEF At
  <1>5. CASE e = x
    BY <1>5 DEF x
  <1> QED
    BY <1>1, <1>2, <1>3, <1>4, <1>5

LEMMA PastAll ==
  ASSUME NEW s \in Seq(Chars), NEW p \in Nat, NEW S, "end" \notin S, NEW m \in Nat,
         1 <= p, p <= m + 1, m <= Len(s), At(s, m + 1) \notin S, \A q \in p .. m : s[q] \in S
  PROVE  Past(s, p, S) = m + 1
  <1> DEFINE e == m + 1
  <1>1. Len(s) \in Nat
    OBVIOUS
  <1>2. p \in 1 .. Len(s) + 1 /\ e \in p .. Len(s) + 1 /\ e - 1 = m
    BY <1>1
  <1>3. At(s, e) \notin S
    OBVIOUS
  <1> HIDE DEF e
  <1>4. \A q \in p .. e - 1 : s[q] \in S
    BY <1>2
  <1>5. Past(s, p, S) = e
    BY <1>2, <1>3, <1>4, PastIs
  <1> QED
    BY <1>5 DEF e

-----------------------------------------------------------------------------
(* The places where the scans of the two parsers stop.                     *)
SignAt(s) == Past(s, 1, {" "})
IntAt(s)  == AfterSign(s, SignAt(s))
DotAt(s)  == Past(s, IntAt(s), Digits)
PointAt(s) == IF At(s, DotAt(s)) = "." THEN DotAt(s) + 1 ELSE DotAt(s)
TailAt(s) == IF At(s, DotAt(s)) = "." THEN Past(s, PointAt(s), Digits) ELSE DotAt(s)

WholeDigits(s) == SubSeq(s, IntAt(s), DotAt(s) - 1)
FracDigits(s)  == SubSeq(s, PointAt(s), Min({TailAt(s) - 1, PointAt(s) + 1}))
Hundredths(s)  == Decimal(FracDigits(s)) * <<100, 10, 1>>[Len(FracDigits(s)) + 1]

LEMMA OtherCharacters ==
  /\ "end" \notin Digits /\ " " \notin Digits /\ "." \notin Digits /\ "-" \notin Digits
  /\ "+" \notin Digits
  /\ "0" \in Digits /\ DigitOf["0"] = 0
  <1>1. /\ "end" \notin Digits /\ " " \notin Digits /\ "." \notin Digits /\ "-" \notin Digits
        /\ "+" \notin Digits
    BY DEF Digits
  <1>2. "0" = Numerals[0 + 1]
    BY DEF Numerals
  <1>3. "0" \in Digits
    BY DEF Digits
  <1>4. \A n \in 0 .. 9 : "0" = Numerals[n + 1] => n = 0
    BY DEF Numerals
  <1>5. DigitOf["0"] = CHOOSE n \in 0 .. 9 : "0" = Numerals[n + 1]
    BY <1>3 DEF DigitOf
  <1>6. DigitOf["0"] = 0
    BY <1>2, <1>4, <1>5
  <1> QED
    BY <1>1, <1>3, <1>6

(* They are in this order, in the line or right behind it. *)
LEMMA ScanPlaces ==
  ASSUME NEW s \in Seq(Chars)
  PROVE  /\ SignAt(s) \in Nat /\ IntAt(s) \in Nat /\ DotAt(s) \in Nat /\ PointAt(s) \in Nat
         /\ TailAt(s) \in Nat /\ Len(s) \in Nat
         /\ 1 <= SignAt(s) /\ SignAt(s) <= IntAt(s) /\ IntAt(s) <= DotAt(s)
         /\ DotAt(s) <= PointAt(s) /\ PointAt(s) <= TailAt(s) /\ TailAt(s) <= Len(s) + 1
  <1> DEFINE n == Len(s)
  <1>1. n \in Nat
    OBVIOUS
  <1>2. "end" \notin {" "} /\ "end" \notin Digits
    BY OtherCharacters
  <1>3. \A p : At(s, p) # "end" => p <= n
    BY DEF At
  <1>4. SignAt(s) \in 1 .. n + 1
    <2>1. 1 \in 1 .. Len(s) + 1
      BY <1>1
    <2> QED
      BY <1>2, <2>1, PastStops DEF SignAt
  <1> HIDE DEF n
  <1>5. IntAt(s) \in Nat /\ SignAt(s) <= IntAt(s) /\ IntAt(s) <= n + 1
    <2>1. CASE At(s, SignAt(s)) \in {"-", "+"}
      <3>1. SignAt(s) <= n /\ IntAt(s) = SignAt(s) + 1
        BY <1>3, <2>1 DEF IntAt, AfterSign
      <3> QED
        BY <1>1, <1>4, <3>1
    <2>2. CASE At(s, SignAt(s)) \notin {"-", "+"}
      <3>1. IntAt(s) = SignAt(s)
        BY <2>2 DEF IntAt, AfterSign
      <3> QED
        BY <1>1, <1>4, <3>1
    <2> QED
      BY <2>1, <2>2
  <1>6. DotAt(s) \in IntAt(s) .. n + 1
    <2>1. IntAt(s) \in 1 .. Len(s) + 1
      BY <1>1, <1>4, <1>5 DEF n
    <2> QED
      BY <1>2, <2>1, PastStops DEF DotAt, n
  <1>7. DotAt(s) \in Nat /\ IntAt(s) <= DotAt(s) /\ DotAt(s) <= n + 1
    BY <1>1, <1>4, <1>5, <1>6
  <1>8. PointAt(s) \in Nat /\ DotAt(s) <= PointAt(s) /\ PointAt(s) <= n + 1
    <2>1. CASE At(s, DotAt(s)) = "."
      <3>1. DotAt(s) <= n /\ PointAt(s) = DotAt(s) + 1
        BY <1>3, <2>1 DEF PointAt
      <3> QED
        BY <1>1, <1>7, <3>1
    <2>2. CASE At(s, DotAt(s)) # "."
      <3>1. PointAt(s) = DotAt(s)
        BY <2>2 DEF PointAt
      <3> QED
        BY <1>1, <1>7, <3>1
    <2> QED
      BY <2>1, <2>2
  <1>9. TailAt(s) \in Nat /\ PointAt(s) <= TailAt(s) /\ TailAt(s) <= n + 1
    <2>1. CASE At(s, DotAt(s)) = "."
      <3>1. PointAt(s) \in 1 .. Len(s) + 1
        BY <1>1, <1>4, <1>5, <1>7, <1>8 DEF n
      <3>2. TailAt(s) \in PointAt(s) .. Len(s) + 1
        BY <1>2, <2>1, <3>1, PastStops DEF TailAt
      <3> QED
        BY <1>1, <1>8, <3>2 DEF n
    <2>2. CASE At(s, DotAt(s)) # "."
      <3>1. TailAt(s) = DotAt(s) /\ PointAt(s) = DotAt(s)
        BY <2>2 DEF TailAt, PointAt
      <3> QED
        BY <1>7, <3>1
    <2> QED
      BY <2>1, <2>2
  <1>10. SignAt(s) \in Nat /\ 1 <= SignAt(s)
    BY <1>1, <1>4
  <1> QED
    BY <1>1, <1>5, <1>7, <1>8, <1>9, <1>10 DEF n

(* What the scans have passed, and what stopped them. *)
LEMMA ScanClasses ==
  ASSUME NEW s \in Seq(Chars)
  PROVE  /\ \A q \in 1 .. SignAt(s) - 1 : s[q] \in {" "}
         /\ \A q \in IntAt(s) .. DotAt(s) - 1 : s[q] \in Digits
         /\ \A q \in PointAt(s) .. TailAt(s) - 1 : s[q] \in Digits
  <1>1. 1 \in 1 .. Len(s) + 1 /\ IntAt(s) \in 1 .. Len(s) + 1 /\ PointAt(s) \in 1 .. Len(s) + 1
    BY ScanPlaces
  <1>2. "end" \notin {" "} /\ "end" \notin Digits
    BY OtherCharacters
  <1>3. \A q \in 1 .. SignAt(s) - 1 : s[q] \in {" "}
    BY <1>1, <1>2, PastStops DEF SignAt
  <1>4. \A q \in IntAt(s) .. DotAt(s) - 1 : s[q] \in Digits
    BY <1>1, <1>2, PastStops DEF DotAt
  <1>5. \A q \in PointAt(s) .. TailAt(s) - 1 : s[q] \in Digits
    <2>1. CASE At(s, DotAt(s)) = "."
      BY <1>1, <1>2, <2>1, PastStops DEF TailAt
    <2>2. CASE At(s, DotAt(s)) # "."
      <3>1. TailAt(s) = PointAt(s)
        BY <2>2 DEF TailAt, PointAt
      <3> QED
        BY <3>1, ScanPlaces
    <2> QED
      BY <2>1, <2>2
  <1> QED
    BY <1>3, <1>4, <1>5

LEMMA WholeTyped ==
  ASSUME NEW s \in Seq(Chars)
  PROVE  /\ WholeDigits(s) \in Seq(Digits) /\ Decimal(WholeDigits(s)) \in Nat
  <1>1. IntAt(s) \in Int /\ DotAt(s) - 1 \in Int
    BY ScanPlaces
  <1>2. \A q \in IntAt(s) .. DotAt(s) - 1 : s[q] \in Digits
    BY ScanClasses
  <1>3. WholeDigits(s) \in Seq(Digits)
    BY <1>1, <1>2, SubSeqProperties DEF WholeDigits
  <1> QED
    BY <1>3, DecimalTyped

(* At most two decimals are kept. *)
LEMMA FracTyped ==
  ASSUME NEW s \in Seq(Chars)
  PROVE  /\ FracDigits(s) \in Seq(Digits)
         /\ Len(FracDigits(s)) = IF TailAt(s) - PointAt(s) < 2 THEN TailAt(s) - PointAt(s) ELSE 2
         /\ \A i \in 1 .. Len(FracDigits(s)) : FracDigits(s)[i] = s[PointAt(s) + i - 1]
  <1> DEFINE m == PointAt(s)
             t == TailAt(s)
             last == Min({t - 1, m + 1})
  <1>1. m \in Nat /\ t \in Nat /\ m >= 1 /\ t >= m
    BY ScanPlaces
  <1>2. \A q \in m .. t - 1 : s[q] \in Digits
    BY ScanClasses
  <1> HIDE DEF m, t
  <1>3. last = IF t - 1 <= m + 1 THEN t - 1 ELSE m + 1
    <2>1. {t - 1, m + 1} \subseteq Nat /\ {t - 1, m + 1} # {}
      BY <1>1
    <2>2. last \in {t - 1, m + 1} /\ last <= t - 1 /\ last <= m + 1
      BY <2>1, MinIsLeast
    <2> QED
      BY <1>1, <2>2
  <1> HIDE DEF last
  <1>4. last \in Int /\ last <= t - 1
    BY <1>1, <1>3
  <1>5. last \in Int /\ \A q \in m .. last : s[q] \in Digits
    BY <1>1, <1>2, <1>4
  <1>6. /\ SubSeq(s, m, last) \in Seq(Digits)
        /\ Len(SubSeq(s, m, last)) = IF m <= last THEN last - m + 1 ELSE 0
        /\ \A i \in 1 .. last - m + 1 : SubSeq(s, m, last)[i] = s[m + i - 1]
    BY <1>1, <1>5, SubSeqProperties
  <1>7. FracDigits(s) = SubSeq(s, m, last)
    BY DEF FracDigits, m, t, last
  <1>8. Len(SubSeq(s, m, last)) = last - m + 1 /\ last - m + 1 = IF t - m < 2 THEN t - m ELSE 2
    BY <1>1, <1>3, <1>5, <1>6
  <1> QED
    BY <1>6, <1>7, <1>8 DEF m, t

Cents(f) ==
  IF Len(f) = 0 THEN 0
  ELSE IF Len(f) = 1 THEN 10 * DigitOf[f[1]]
  ELSE 10 * DigitOf[f[1]] + DigitOf[f[2]]

LEMMA CentsTyped ==
  ASSUME NEW f \in Seq(Digits), Len(f) \in 0 .. 2
  PROVE  Cents(f) \in 0 .. 99
  <1>1. \A i \in 1 .. Len(f) : DigitOf[f[i]] \in 0 .. 9
    BY DigitTyped
  <1>2. CASE Len(f) = 0
    <2>1. Cents(f) = 0
      BY <1>2 DEF Cents
    <2> QED
      BY <2>1
  <1>3. CASE Len(f) = 1
    <2>1. DigitOf[f[1]] \in 0 .. 9
      BY <1>1, <1>3
    <2>2. Cents(f) = 10 * DigitOf[f[1]]
      BY <1>3 DEF Cents
    <2>3. \A x \in 0 .. 9 : 10 * x \in 0 .. 99
      OBVIOUS
    <2> QED
      BY <2>1, <2>2, <2>3
  <1>4. CASE Len(f) = 2
    <2>1. DigitOf[f[1]] \in 0 .. 9 /\ DigitOf[f[2]] \in 0 .. 9
      BY <1>1, <1>4
    <2>2. Cents(f) = 10 * DigitOf[f[1]] + DigitOf[f[2]]
      BY <1>4 DEF Cents
    <2>3. \A x, y \in 0 .. 9 : 10 * x + y \in 0 .. 99
      OBVIOUS
    <2> QED
      BY <2>1, <2>2, <2>3
  <1> QED
    BY <1>2, <1>3, <1>4

LEMMA Scaled ==
  ASSUME NEW f \in Seq(Digits), Len(f) \in 0 .. 2
  PROVE  Decimal(f) * <<100, 10, 1>>[Len(f) + 1] = Cents(f)
  <1>1. <<100, 10, 1>>[1] = 100 /\ <<100, 10, 1>>[2] = 10 /\ <<100, 10, 1>>[3] = 1
    OBVIOUS
  <1>2. \A i \in 1 .. Len(f) : DigitOf[f[i]] \in 0 .. 9
    BY DigitTyped
  <1>3. CASE Len(f) = 0
    <2>1. Decimal(f) = 0
      BY <1>3, DecimalShort
    <2>2. <<100, 10, 1>>[Len(f) + 1] = 100
      BY <1>1, <1>3
    <2>3. Cents(f) = 0
      BY <1>3 DEF Cents
    <2> QED
      BY <2>1, <2>2, <2>3
  <1>4. CASE Len(f) = 1
    <2>1. DigitOf[f[1]] \in 0 .. 9
      BY <1>2, <1>4
    <2>2. Decimal(f) = DigitOf[f[1]] /\ Len(f) + 1 = 2
      BY <1>4, DecimalShort
    <2>3. Cents(f) = 10 * DigitOf[f[1]]
      BY <1>4 DEF Cents
    <2> QED
      BY <1>1, <2>1, <2>2, <2>3
  <1>5. CASE Len(f) = 2
    <2>1. DigitOf[f[1]] \in 0 .. 9 /\ DigitOf[f[2]] \in 0 .. 9
      BY <1>2, <1>5
    <2>2. Decimal(f) = 10 * DigitOf[f[1]] + DigitOf[f[2]] /\ Len(f) + 1 = 3
      BY <1>5, DecimalShort
    <2>3. Cents(f) = 10 * DigitOf[f[1]] + DigitOf[f[2]]
      BY <1>5 DEF Cents
    <2>4. <<100, 10, 1>>[Len(f) + 1] = 1
      BY <1>1, <1>5
    <2>5. \A x, y \in 0 .. 9 : (10 * x + y) * 1 = 10 * x + y
      OBVIOUS
    <2> QED
      BY <2>1, <2>2, <2>3, <2>4, <2>5
  <1> QED
    BY <1>3, <1>4, <1>5

LEMMA HundredthsAre ==
  ASSUME NEW s \in Seq(Chars)
  PROVE  Hundredths(s) = Cents(FracDigits(s)) /\ Hundredths(s) \in 0 .. 99
  <1> DEFINE f == FracDigits(s)
  <1>1. f \in Seq(Digits) /\ Len(f) \in 0 .. 2
    <2>1. TailAt(s) - PointAt(s) \in Nat
      BY ScanPlaces
    <2>2. Len(f) = IF TailAt(s) - PointAt(s) < 2 THEN TailAt(s) - PointAt(s) ELSE 2
      BY FracTyped
    <2>3. f \in Seq(Digits)
      BY FracTyped
    <2> HIDE DEF f
    <2> QED
      BY <2>1, <2>2, <2>3
  <1> QED
    BY <1>1, Scaled, CentsTyped DEF Hundredths

(* The number that wraps: within the type, and itself if it fits.          *)
LEMMA WrappedTyped ==
  ASSUME NEW n \in Int
  PROVE  /\ Wrapped(n) \in -IntMax - 1 .. IntMax
         /\ n \in -IntMax - 1 .. IntMax => Wrapped(n) = n
  <1> DEFINE k == 2 * (IntMax + 1)
             x == n + IntMax + 1
  <1>1. IntMax \in Nat
    BY ConsoleAssumption
  <1>2. k \in Nat /\ k > 0 /\ x \in Int /\ Wrapped(n) = (x % k) - (IntMax + 1)
    BY <1>1 DEF Wrapped
  <1>3. k = 2 * (IntMax + 1) /\ x = n + IntMax + 1
    OBVIOUS
  <1> HIDE DEF k, x
  <1>4. x % k \in 0 .. k - 1
    BY <1>2
  <1>5. x \in 0 .. k - 1 => x % k = x
    BY <1>2
  <1> QED
    BY <1>1, <1>2, <1>3, <1>4, <1>5

CentiValue(s) == Wrapped(100 * Decimal(WholeDigits(s)) + Hundredths(s))

Rejected(s) ==
  \/ DotAt(s) = IntAt(s)
  \/ Decimal(SubSeq(s, IntAt(s), DotAt(s) - 2)) > IntMax \div 100
  \/ Past(s, TailAt(s), {" "}) <= Len(s)

LEMMA CentiIs ==
  ASSUME NEW s
  PROVE  parse_centi_c(s) =
           IF Rejected(s) THEN {}
           ELSE {IF At(s, SignAt(s)) = "-" THEN Wrapped(-CentiValue(s)) ELSE CentiValue(s)}
  BY DEF parse_centi_c, Rejected, CentiValue, Hundredths, FracDigits, WholeDigits, TailAt, PointAt,
      DotAt, IntAt, SignAt

LEMMA CentiTyped ==
  ASSUME NEW s \in Seq(Chars)
  PROVE  /\ CentiValue(s) \in -IntMax - 1 .. IntMax
         /\ parse_centi_c(s) \subseteq -IntMax - 1 .. IntMax
  <1>1. IntMax \in Nat
    BY ConsoleAssumption
  <1>2. 100 * Decimal(WholeDigits(s)) + Hundredths(s) \in Int
    <2>1. Decimal(WholeDigits(s)) \in Nat
      BY WholeTyped
    <2>2. Hundredths(s) \in 0 .. 99
      BY HundredthsAre
    <2>3. \A x \in Nat, y \in 0 .. 99 : 100 * x + y \in Int
      OBVIOUS
    <2> QED
      BY <2>1, <2>2, <2>3
  <1>3. CentiValue(s) \in -IntMax - 1 .. IntMax
    BY <1>2, WrappedTyped DEF CentiValue
  <1>4. Wrapped(-CentiValue(s)) \in -IntMax - 1 .. IntMax
    BY <1>1, <1>3, WrappedTyped
  <1> QED
    BY <1>3, <1>4, CentiIs

-----------------------------------------------------------------------------
(* The invariant: what is typed is within the buffer and on the screen,    *)
(* every number within its type, and what is printed is what was measured. *)

LEMMA RangeTyped ==
  ASSUME NEW s \in Seq(Chars), NEW max \in Nat
  PROVE  parse_u32_range(s, 0, max) \subseteq 0 .. max
  <1> DEFINE n == Decimal(WholeDigits(s))
             value == IF At(s, SignAt(s)) = "-" THEN (-n) % (ULongMax + 1) ELSE n
  <1>1. parse_u32_range(s, 0, max) =
          IF \/ DotAt(s) = IntAt(s) \/ n > ULongMax \/ Past(s, DotAt(s), {" "}) <= Len(s)
             \/ value < 0 \/ value > max
          THEN {} ELSE {value}
    BY DEF parse_u32_range, WholeDigits, DotAt, IntAt, SignAt
  <1>2. n \in Nat
    BY WholeTyped
  <1>3. ULongMax \in Nat
    BY ConsoleAssumption
  <1>4. value \in Int
    <2>1. \A x \in Nat, k \in Nat : (-x) % (k + 1) \in Int
      OBVIOUS
    <2> HIDE DEF n
    <2> QED
      BY <1>2, <1>3, <2>1
  <1> HIDE DEF value, n
  <1>5. parse_u32_range(s, 0, max) \subseteq {value} /\ (value < 0 \/ value > max =>
          parse_u32_range(s, 0, max) = {})
    BY <1>1
  <1>6. ~(value < 0 \/ value > max) => value \in 0 .. max
    BY <1>4
  <1> QED
    BY <1>5, <1>6

ConsoleInv ==
  /\ TypeOK
  /\ buf \in Seq(Chars) /\ screen = buf
  /\ printed = print_temp(centi_c_to_sv(measured))

LEMMA ConsoleInit == Init => ConsoleInv
  <1>1. Init => TypeOK
    BY ConsoleAssumption DEF Init, TypeOK
  <1>2. Init => buf \in Seq(Chars) /\ screen = buf
    BY DEF Init
  <1> QED
    BY <1>1, <1>2 DEF Init, ConsoleInv

LEMMA Dialogues ==
  ASSUME NEW p \in {"left", "menu", "threshold", "gate", "delay"}, Dialogue(p)
  PROVE  /\ prompt' \in {"left", "menu", "threshold", "gate", "delay"}
         /\ buf' = <<>> /\ screen' = <<>> /\ buf' \in Seq(Chars)
         /\ Len(buf') <= LineMax /\ Len(screen') <= LineMax
  <1>1. buf' = <<>> /\ screen' = <<>> /\ prompt' = p
    BY DEF Dialogue
  <1>2. <<>> \in Seq(Chars) /\ Len(<<>>) = 0
    OBVIOUS
  <1>3. LineMax \in Nat
    BY ConsoleAssumption
  <1> QED
    BY <1>1, <1>2, <1>3

LEMMA FrontTyped ==
  ASSUME NEW s \in Seq(Chars), s # <<>>
  PROVE  Front(s) \in Seq(Chars) /\ Len(Front(s)) = Len(s) - 1
  <1> DEFINE m == Len(s) - 1
  <1>1. m \in Nat /\ \A q \in 1 .. m : s[q] \in Chars
    OBVIOUS
  <1>2. Front(s) = SubSeq(s, 1, m)
    BY DEF Front
  <1> HIDE DEF m
  <1>3. SubSeq(s, 1, m) \in Seq(Chars) /\ Len(SubSeq(s, 1, m)) = IF 1 <= m THEN m - 1 + 1 ELSE 0
    BY <1>1, SubSeqProperties
  <1>4. Len(SubSeq(s, 1, m)) = m
    BY <1>1, <1>3
  <1> QED
    BY <1>2, <1>3, <1>4 DEF m

LEMMA ConsoleStep == ConsoleInv /\ [Next]_vars => ConsoleInv'
  <1> SUFFICES ASSUME ConsoleInv, [Next]_vars PROVE ConsoleInv'
    OBVIOUS
  <1> USE DEF ConsoleInv, TypeOK
  <1>1. LineMax \in Nat /\ GateMax \in Nat /\ DelayMax \in Nat /\ MaxLines \in Nat
    BY ConsoleAssumption
  <1>2. CASE TypeChar
    <2>1. PICK c \in Chars : buf' = Append(buf, c) /\ screen' = Append(screen, c)
      BY <1>2 DEF TypeChar
    <2>2. Append(buf, c) \in Seq(Chars) /\ Len(Append(buf, c)) = Len(buf) + 1
      OBVIOUS
    <2>3. Len(buf) < LineMax /\ Len(buf) \in Nat
      BY <1>2 DEF TypeChar
    <2>4. buf' \in Seq(Chars) /\ screen' = buf' /\ Len(buf') <= LineMax /\ Len(screen') <= LineMax
      BY <1>1, <2>1, <2>2, <2>3
    <2> QED
      BY <1>2, <2>4 DEF TypeChar
  <1>3. CASE Backspace
    <2>1. buf # <<>> /\ buf' = Front(buf) /\ screen' = Front(screen)
      BY <1>3 DEF Backspace
    <2>2. Front(buf) \in Seq(Chars) /\ Len(Front(buf)) = Len(buf) - 1
      BY <2>1, FrontTyped
    <2>3. buf' \in Seq(Chars) /\ screen' = buf' /\ Len(buf') <= LineMax /\ Len(screen') <= LineMax
      BY <1>1, <2>1, <2>2
    <2> QED
      BY <1>3, <2>3 DEF Backspace
  <1>4. CASE LeavePrompt
    <2>1. PICK p \in {"left", "menu"} : Dialogue(p)
      BY <1>4 DEF LeavePrompt
    <2> QED
      BY <1>4, <2>1, Dialogues DEF LeavePrompt
  <1>5. CASE config_mode_run
    <2>1. PICK p \in {"left", "menu", "threshold", "gate", "delay"} : Dialogue(p)
      BY <1>5 DEF config_mode_run
    <2>2. lines' \in 0 .. MaxLines
      BY <1>1, <1>5 DEF config_mode_run, Return, Typing
    <2> QED
      BY <1>5, <2>1, <2>2, Dialogues DEF config_mode_run, Return
  <1>6. CASE configure_threshold
    <2>1. threshold' \in -IntMax - 1 .. IntMax
      BY <1>6, CentiTyped DEF configure_threshold
    <2>2. lines' \in 0 .. MaxLines
      BY <1>1, <1>6 DEF configure_threshold, Return, Typing
    <2> QED
      BY <1>6, <2>1, <2>2, Dialogues DEF configure_threshold, Return
  <1>7. CASE configure_max_gate
    <2>1. PICK g \in {current.gate} \cup parse_u32_range(buf, 0, GateMax) :
            current' = [current EXCEPT !.gate = g]
      BY <1>7 DEF configure_max_gate
    <2>2. g \in (0 .. GateMax) \cup {5}
      BY <1>1, RangeTyped
    <2>3. current' \in [gate : (0 .. GateMax) \cup {5}, absence : (0 .. DelayMax) \cup {5}]
      BY <2>1, <2>2
    <2>4. lines' \in 0 .. MaxLines
      BY <1>1, <1>7 DEF configure_max_gate, Return, Typing
    <2> QED
      BY <1>7, <2>3, <2>4, Dialogues DEF configure_max_gate, Return
  <1>8. CASE configure_absence_delay
    <2>1. PICK g \in {current.absence} \cup parse_u32_range(buf, 0, DelayMax) :
            current' = [current EXCEPT !.absence = g]
      BY <1>8 DEF configure_absence_delay
    <2>2. g \in (0 .. DelayMax) \cup {5}
      BY <1>1, RangeTyped
    <2>3. current' \in [gate : (0 .. GateMax) \cup {5}, absence : (0 .. DelayMax) \cup {5}]
      BY <2>1, <2>2
    <2>4. lines' \in 0 .. MaxLines
      BY <1>1, <1>8 DEF configure_absence_delay, Return, Typing
    <2> QED
      BY <1>8, <2>3, <2>4, Dialogues DEF configure_absence_delay, Return
  <1>9. CASE EnterMenu
    BY <1>9, Dialogues DEF EnterMenu
  <1>10. CASE PrintSnapshot
    BY <1>10 DEF PrintSnapshot
  <1>11. CASE UNCHANGED vars
    BY <1>11 DEF vars
  <1> QED
    BY <1>2, <1>3, <1>4, <1>5, <1>6, <1>7, <1>8, <1>9, <1>10, <1>11 DEF Next

LEMMA ConsoleInvariant == Spec => []ConsoleInv
  BY ConsoleInit, ConsoleStep, PTL DEF Spec

(* The line is never longer than its buffer, the threshold never outside   *)
(* its type, and the settings never outside the range the node is asked to *)
(* take (or 5, what the menu starts with), whatever is typed.              *)
THEOREM TypeCorrect == Spec => []TypeOK
  BY ConsoleInvariant, PTL DEF ConsoleInv

(* What the user sees on the line is what read_line has in its buffer,     *)
(* after any number of keys too many and of backspaces.                    *)
THEOREM ScreenIsLine == Spec => []ScreenShowsLine
  <1>1. ConsoleInv => ScreenShowsLine
    BY DEF ConsoleInv, ScreenShowsLine
  <1> QED
    BY <1>1, ConsoleInvariant, PTL
-----------------------------------------------------------------------------
(* Temperatures *)

(* Division towards zero: the whole degrees and the rest have the sign of  *)
(* the temperature, unless they are zero.                                  *)
LEMMA Halves ==
  ASSUME NEW t \in Int
  PROVE  /\ CDiv(t, 100) \in Int /\ CMod(t, 100) \in -99 .. 99
         /\ t = 100 * CDiv(t, 100) + CMod(t, 100)
         /\ t >= 0 => CDiv(t, 100) >= 0 /\ CMod(t, 100) >= 0
         /\ t < -99 => CDiv(t, 100) < 0 /\ CMod(t, 100) <= 0
  <1>1. CASE t >= 0
    <2>1. CDiv(t, 100) = t \div 100 /\ CMod(t, 100) = t - 100 * (t \div 100)
      BY <1>1 DEF CDiv, CMod
    <2>2. t \div 100 \in Nat /\ t - 100 * (t \div 100) \in 0 .. 99
      BY <1>1
    <2> QED
      BY <1>1, <2>1, <2>2
  <1>2. CASE t < 0
    <2>1. CDiv(t, 100) = -((-t) \div 100) /\ CMod(t, 100) = t - 100 * (-((-t) \div 100))
      BY <1>2 DEF CDiv, CMod
    <2>2. (-t) \div 100 \in Nat /\ (-t) - 100 * ((-t) \div 100) \in 0 .. 99
      BY <1>2
    <2> QED
      BY <1>2, <2>1, <2>2
  <1> QED
    BY <1>1, <1>2

LEMMA Millionths == \A r \in -99 .. 99 : CDiv(r * 10000, 10000) = r
  <1> SUFFICES ASSUME NEW r \in -99 .. 99 PROVE CDiv(r * 10000, 10000) = r
    OBVIOUS
  <1>1. CASE r >= 0
    <2>1. CDiv(r * 10000, 10000) = (r * 10000) \div 10000
      BY <1>1 DEF CDiv
    <2> QED
      BY <1>1, <2>1
  <1>2. CASE r < 0
    <2>1. CDiv(r * 10000, 10000) = -((-(r * 10000)) \div 10000)
      BY <1>2 DEF CDiv
    <2>2. -(r * 10000) = (-r) * 10000
      OBVIOUS
    <2> QED
      BY <1>2, <2>1, <2>2
  <1> QED
    BY <1>1, <1>2

LEMMA ReadBack ==
  ASSUME NEW t \in Int, NEW p, t \notin -99 .. -1,
         p = [whole |-> CDiv(t, 100), frac |-> Magnitude(CMod(t, 100))]
  PROVE  Reads(p) = t
  <1> DEFINE q == CDiv(t, 100)
             r == CMod(t, 100)
  <1>1. q \in Int /\ r \in -99 .. 99 /\ t = 100 * q + r
    BY Halves
  <1>2. (q >= 0 /\ r >= 0) \/ (q < 0 /\ r <= 0)
    <2>1. t >= 0 \/ t < -99
      OBVIOUS
    <2> QED
      BY <2>1, Halves
  <1>3. p.whole = q /\ p.frac = IF r < 0 THEN -r ELSE r
    BY DEF Magnitude
  <1>4. Reads(p) = 100 * p.whole + (IF p.whole < 0 THEN -p.frac ELSE p.frac)
    BY DEF Reads
  <1> HIDE DEF q, r
  <1>5. CASE q >= 0 /\ r >= 0
    BY <1>1, <1>3, <1>4, <1>5
  <1>6. CASE q < 0 /\ r <= 0
    <2>1. p.whole < 0 /\ p.frac = -r
      BY <1>1, <1>3, <1>6
    <2> QED
      BY <1>1, <1>3, <1>4, <2>1
  <1> QED
    BY <1>2, <1>5, <1>6

LEMMA SnapshotExact ==
  ASSUME NEW t \in Int
  PROVE  /\ print_temp(centi_c_to_sv(t)) = print_threshold(t)
         /\ sensor_value_to_centi_c(centi_c_to_sv(t)) = t
  <1>1. CMod(t, 100) \in -99 .. 99 /\ t = 100 * CDiv(t, 100) + CMod(t, 100)
    BY Halves
  <1>2. CDiv(CMod(t, 100) * 10000, 10000) = CMod(t, 100)
    BY <1>1, Millionths
  <1>3. /\ centi_c_to_sv(t).val1 = CDiv(t, 100)
        /\ centi_c_to_sv(t).val2 = CMod(t, 100) * 10000
    BY DEF centi_c_to_sv
  <1>4. print_temp(centi_c_to_sv(t)) = print_threshold(t)
    BY <1>2, <1>3 DEF print_temp, print_threshold
  <1>5. sensor_value_to_centi_c(centi_c_to_sv(t)) = 100 * CDiv(t, 100) + CMod(t, 100)
    BY <1>2, <1>3 DEF sensor_value_to_centi_c
  <1> QED
    BY <1>1, <1>4, <1>5

(* Every temperature the console shows reads as what it is, unless it is   *)
(* between -1 and 0 degrees; and the one that the alarm compares is what   *)
(* was measured, below zero as well.                                       *)
THEOREM TempsExact == Spec => []TempsAreExact
  <1>1. ASSUME ConsoleInv PROVE TempsAreExact
    <2>1. threshold \in Int /\ measured \in Int
      BY <1>1, ConsoleAssumption DEF ConsoleInv, TypeOK
    <2>2. threshold \notin -99 .. -1 => Reads(print_threshold(threshold)) = threshold
      BY <2>1, ReadBack DEF print_threshold
    <2>3. printed = print_threshold(measured)
      BY <1>1, <2>1, SnapshotExact DEF ConsoleInv
    <2>4. measured \notin -99 .. -1 => Reads(printed) = measured
      BY <2>1, <2>3, ReadBack DEF print_threshold
    <2> QED
      BY <2>1, <2>2, <2>4, SnapshotExact DEF TempsAreExact
  <1> QED
    BY <1>1, ConsoleInvariant, PTL
-----------------------------------------------------------------------------
(* What a line says, cut by cut, and then character by character.          *)

CutsOf(s) ==
  {c \in [1 .. 4 -> 0 .. Len(s)] : c[1] <= c[2] /\ c[2] < c[3] /\ c[3] <= c[4]}
SignPart(s, c)  == SubSeq(s, c[1] + 1, c[2])
WholePart(s, c) == SubSeq(s, c[2] + 1, c[3])
FracPart(s, c)  == SubSeq(s, c[3] + 1, c[4])

FitsAt(s, c) ==
  /\ All(SubSeq(s, 1, c[1]), {" "})
  /\ SignPart(s, c) \in {<<>>, <<"-">>, <<"+">>}
  /\ All(WholePart(s, c), Digits)
  /\ FracPart(s, c) = <<>> \/ (FracPart(s, c)[1] = "." /\ All(Tail(FracPart(s, c)), Digits))
  /\ All(SubSeq(s, c[4] + 1, Len(s)), {" "})

TwoDecimals(f) == Decimal(SubSeq(Tail(f) \o <<"0", "0">>, 1, 2))

SaysAt(s, c) ==
  [minus |-> SignPart(s, c) = <<"-">>, whole |-> Decimal(WholePart(s, c)),
   point |-> FracPart(s, c) # <<>>,
   centi |-> 100 * Decimal(WholePart(s, c)) +
             IF FracPart(s, c) = <<>> THEN 0 ELSE TwoDecimals(FracPart(s, c))]

LEMMA SaidIs ==
  ASSUME NEW s
  PROVE  Said(s) = {SaysAt(s, c) : c \in {d \in CutsOf(s) : FitsAt(s, d)}}
  BY DEF Said, CutsOf, FitsAt, SaysAt, SignPart, WholePart, FracPart, TwoDecimals

FitsScan(s, c) ==
  /\ \A q \in 1 .. c[1] : s[q] \in {" "}
  /\ c[2] = c[1] \/ (c[2] = c[1] + 1 /\ s[c[2]] \in {"-", "+"})
  /\ \A q \in c[2] + 1 .. c[3] : s[q] \in Digits
  /\ \/ c[4] = c[3]
     \/ /\ c[4] > c[3] /\ s[c[3] + 1] = "."
        /\ \A q \in c[3] + 2 .. c[4] : s[q] \in Digits
  /\ \A q \in c[4] + 1 .. Len(s) : s[q] \in {" "}

LEMMA CutPlaces ==
  ASSUME NEW s \in Seq(Chars), NEW c \in CutsOf(s)
  PROVE  /\ c[1] \in Nat /\ c[2] \in Nat /\ c[3] \in Nat /\ c[4] \in Nat /\ Len(s) \in Nat
         /\ c[1] <= c[2] /\ c[2] < c[3] /\ c[3] <= c[4] /\ c[4] <= Len(s)
  <1>1. c \in [1 .. 4 -> 0 .. Len(s)] /\ Len(s) \in Nat
    BY DEF CutsOf
  <1>2. c[1] \in 0 .. Len(s) /\ c[2] \in 0 .. Len(s) /\ c[3] \in 0 .. Len(s) /\ c[4] \in 0 .. Len(s)
    BY <1>1
  <1>3. c[1] <= c[2] /\ c[2] < c[3] /\ c[3] <= c[4]
    BY DEF CutsOf
  <1> QED
    BY <1>1, <1>2, <1>3

(* A part of the line. *)
LEMMA PartIs ==
  ASSUME NEW s \in Seq(Chars), NEW i \in Nat, NEW j \in Nat, 1 <= i, i <= j + 1, j <= Len(s)
  PROVE  /\ SubSeq(s, i, j) \in Seq(Chars)
         /\ Len(SubSeq(s, i, j)) = j - i + 1
         /\ \A k \in 1 .. j - i + 1 : SubSeq(s, i, j)[k] = s[i + k - 1]
  <1>1. Len(s) \in Nat
    OBVIOUS
  <1>2. \A q \in i .. j : q \in 1 .. Len(s)
    BY <1>1
  <1>3. \A q \in i .. j : s[q] \in Chars
    BY <1>2
  <1>4. /\ SubSeq(s, i, j) \in Seq(Chars)
        /\ Len(SubSeq(s, i, j)) = IF i <= j THEN j - i + 1 ELSE 0
        /\ \A k \in 1 .. j - i + 1 : SubSeq(s, i, j)[k] = s[i + k - 1]
    BY <1>3, SubSeqProperties
  <1>5. (IF i <= j THEN j - i + 1 ELSE 0) = j - i + 1
    OBVIOUS
  <1> QED
    BY <1>4, <1>5

LEMMA AllOfPart ==
  ASSUME NEW s \in Seq(Chars), NEW i \in Nat, NEW j \in Nat, 1 <= i, i <= j + 1, j <= Len(s),
         NEW S
  PROVE  All(SubSeq(s, i, j), S) <=> \A q \in i .. j : s[q] \in S
  <1> DEFINE t == SubSeq(s, i, j)
  <1>1. t \in Seq(Chars) /\ Len(t) = j - i + 1 /\ \A k \in 1 .. j - i + 1 : t[k] = s[i + k - 1]
    BY PartIs
  <1>2. DOMAIN t = 1 .. j - i + 1
    <2>1. DOMAIN t = 1 .. Len(t)
      BY <1>1, LenProperties
    <2> QED
      BY <1>1, <2>1
  <1>3. All(t, S) <=> \A k \in 1 .. j - i + 1 : s[i + k - 1] \in S
    BY <1>1, <1>2 DEF All
  <1>4. ASSUME \A k \in 1 .. j - i + 1 : s[i + k - 1] \in S, NEW q \in i .. j
        PROVE  s[q] \in S
    <2>1. q - i + 1 \in 1 .. j - i + 1 /\ i + (q - i + 1) - 1 = q
      OBVIOUS
    <2> QED
      BY <1>4, <2>1
  <1>5. ASSUME \A q \in i .. j : s[q] \in S, NEW k \in 1 .. j - i + 1
        PROVE  s[i + k - 1] \in S
    <2>1. i + k - 1 \in i .. j
      OBVIOUS
    <2> QED
      BY <1>5, <2>1
  <1> QED
    BY <1>3, <1>4, <1>5

LEMMA OneCharacter ==
  ASSUME NEW t \in Seq(Chars), NEW x
  PROVE  t = <<x>> <=> Len(t) = 1 /\ t[1] = x
  <1>1. ASSUME Len(t) = 1, t[1] = x PROVE t = <<x>>
    <2>1. t \in [1 .. 1 -> Chars]
      BY <1>1, LenProperties
    <2> QED
      BY <1>1, <2>1
  <1>2. Len(<<x>>) = 1 /\ <<x>>[1] = x
    OBVIOUS
  <1> QED
    BY <1>1, <1>2

LEMMA EmptyPart == ASSUME NEW t \in Seq(Chars) PROVE t = <<>> <=> Len(t) = 0
  BY EmptySeq

LEMMA SignIs ==
  ASSUME NEW s \in Seq(Chars), NEW c \in CutsOf(s)
  PROVE  /\ SignPart(s, c) = <<>> <=> c[2] = c[1]
         /\ \A x : SignPart(s, c) = <<x>> <=> c[2] = c[1] + 1 /\ s[c[2]] = x
  <1> DEFINE i == c[1] + 1
             j == c[2]
             t == SubSeq(s, i, j)
  <1>1. i \in Nat /\ j \in Nat /\ 1 <= i /\ i <= j + 1 /\ j <= Len(s) /\ c[1] \in Nat
    BY CutPlaces
  <1>2. i = c[1] + 1 /\ j = c[2] /\ SignPart(s, c) = t
    BY DEF SignPart
  <1> HIDE DEF i, j
  <1>3. t \in Seq(Chars) /\ Len(t) = j - i + 1 /\ \A k \in 1 .. j - i + 1 : t[k] = s[i + k - 1]
    BY <1>1, PartIs
  <1> HIDE DEF t
  <1>4. t = <<>> <=> c[2] = c[1]
    <2>1. j - i + 1 = 0 <=> c[2] = c[1]
      BY <1>1, <1>2
    <2> QED
      BY <1>3, <2>1, EmptyPart
  <1>5. ASSUME NEW x PROVE t = <<x>> <=> c[2] = c[1] + 1 /\ s[c[2]] = x
    <2>1. j - i + 1 = 1 <=> c[2] = c[1] + 1
      BY <1>1, <1>2
    <2>2. ASSUME j - i + 1 = 1 PROVE t[1] = s[c[2]]
      <3>1. \A k \in Nat : k + 1 - 1 = k
        OBVIOUS
      <3>2. i = j /\ i + 1 - 1 = i
        BY <1>1, <2>2, <3>1
      <3>3. 1 \in 1 .. j - i + 1
        BY <2>2
      <3>4. t[1] = s[i + 1 - 1]
        BY <1>3, <3>3
      <3> QED
        BY <1>2, <3>2, <3>4
    <2> QED
      BY <1>3, <2>1, <2>2, OneCharacter
  <1> QED
    BY <1>2, <1>4, <1>5

(* The part from the point: whether there is one, its first character, and *)
(* what follows.                                                           *)
LEMMA FracIs ==
  ASSUME NEW s \in Seq(Chars), NEW c \in CutsOf(s)
  PROVE  /\ FracPart(s, c) = <<>> <=> c[4] = c[3]
         /\ c[4] > c[3] => /\ FracPart(s, c)[1] = s[c[3] + 1]
                           /\ Tail(FracPart(s, c)) = SubSeq(s, c[3] + 2, c[4])
  <1> DEFINE i == c[3] + 1
             j == c[4]
             t == SubSeq(s, i, j)
  <1>1. i \in Nat /\ j \in Nat /\ 1 <= i /\ i <= j + 1 /\ j <= Len(s) /\ c[3] \in Nat /\ Len(s) \in Nat
    BY CutPlaces
  <1>2. i = c[3] + 1 /\ j = c[4] /\ FracPart(s, c) = t
    BY DEF FracPart
  <1> HIDE DEF i, j
  <1>3. t \in Seq(Chars) /\ Len(t) = j - i + 1
    BY <1>1, PartIs
  <1>4. t = <<>> <=> c[4] = c[3]
    <2>1. \A a, b \in Nat : b - (a + 1) + 1 = 0 <=> b = a
      OBVIOUS
    <2>2. j - i + 1 = 0 <=> c[4] = c[3]
      BY <1>1, <1>2, <2>1
    <2> QED
      BY <1>3, <2>2, EmptyPart
  <1>5. ASSUME c[4] > c[3] PROVE t[1] = s[c[3] + 1] /\ Tail(t) = SubSeq(s, c[3] + 2, c[4])
    <2>1. i \in 1 .. Len(s) /\ j \in i .. Len(s) /\ i + 1 = c[3] + 2
      BY <1>1, <1>2, <1>5
    <2>2. Tail(t) = SubSeq(s, i + 1, j)
      BY <2>1, HeadTailOfSubSeq
    <2>3. t[1] = s[i]
      <3>1. 1 \in 1 .. j - i + 1 /\ i + 1 - 1 = i
        BY <1>1, <2>1
      <3> QED
        BY <1>1, <3>1, PartIs
    <2> QED
      BY <1>2, <2>1, <2>2, <2>3
  <1> QED
    BY <1>2, <1>4, <1>5

LEMMA FitsIff ==
  ASSUME NEW s \in Seq(Chars), NEW c \in CutsOf(s)
  PROVE  FitsAt(s, c) <=> FitsScan(s, c)
  <1>1. /\ c[1] \in Nat /\ c[2] \in Nat /\ c[3] \in Nat /\ c[4] \in Nat /\ Len(s) \in Nat
        /\ c[1] <= c[2] /\ c[2] < c[3] /\ c[3] <= c[4] /\ c[4] <= Len(s)
    BY CutPlaces
  <1>2. All(SubSeq(s, 1, c[1]), {" "}) <=> \A q \in 1 .. c[1] : s[q] \in {" "}
    <2>1. 1 \in Nat /\ 1 <= 1 /\ 1 <= c[1] + 1 /\ c[1] <= Len(s)
      BY <1>1
    <2> QED
      BY <1>1, <2>1, AllOfPart
  <1>3. SignPart(s, c) \in {<<>>, <<"-">>, <<"+">>} <=>
          c[2] = c[1] \/ (c[2] = c[1] + 1 /\ s[c[2]] \in {"-", "+"})
    <2>1. SignPart(s, c) = <<>> <=> c[2] = c[1]
      BY SignIs
    <2>2. SignPart(s, c) = <<"-">> <=> c[2] = c[1] + 1 /\ s[c[2]] = "-"
      BY SignIs
    <2>3. SignPart(s, c) = <<"+">> <=> c[2] = c[1] + 1 /\ s[c[2]] = "+"
      BY SignIs
    <2> QED
      BY <2>1, <2>2, <2>3
  <1>4. All(WholePart(s, c), Digits) <=> \A q \in c[2] + 1 .. c[3] : s[q] \in Digits
    <2>1. c[2] + 1 \in Nat /\ 1 <= c[2] + 1 /\ c[2] + 1 <= c[3] + 1 /\ c[3] <= Len(s)
      BY <1>1
    <2> QED
      BY <1>1, <2>1, AllOfPart DEF WholePart
  <1>5. FracPart(s, c) = <<>> <=> c[4] = c[3]
    BY FracIs
  <1>6. ASSUME c[4] > c[3]
        PROVE  /\ FracPart(s, c)[1] = s[c[3] + 1]
               /\ All(Tail(FracPart(s, c)), Digits) <=> \A q \in c[3] + 2 .. c[4] : s[q] \in Digits
    <2>1. FracPart(s, c)[1] = s[c[3] + 1] /\ Tail(FracPart(s, c)) = SubSeq(s, c[3] + 2, c[4])
      BY <1>6, FracIs
    <2>2. c[3] + 2 \in Nat /\ 1 <= c[3] + 2 /\ c[3] + 2 <= c[4] + 1 /\ c[4] <= Len(s)
      BY <1>1, <1>6
    <2>3. All(SubSeq(s, c[3] + 2, c[4]), Digits) <=> \A q \in c[3] + 2 .. c[4] : s[q] \in Digits
      BY <1>1, <2>2, AllOfPart
    <2> QED
      BY <2>1, <2>3
  <1>7. All(SubSeq(s, c[4] + 1, Len(s)), {" "}) <=> \A q \in c[4] + 1 .. Len(s) : s[q] \in {" "}
    <2>1. c[4] + 1 \in Nat /\ 1 <= c[4] + 1 /\ c[4] + 1 <= Len(s) + 1 /\ Len(s) <= Len(s)
      BY <1>1
    <2> QED
      BY <1>1, <2>1, AllOfPart
  <1>8. c[4] = c[3] <=> ~(c[4] > c[3])
    BY <1>1
  <1> QED
    BY <1>2, <1>3, <1>4, <1>5, <1>6, <1>7, <1>8 DEF FitsAt, FitsScan

-----------------------------------------------------------------------------
(* The scans find the cut: there is one way at most to read a line.        *)

LEMMA ScanIs ==
  ASSUME NEW s \in Seq(Chars), NEW c \in CutsOf(s), FitsScan(s, c)
  PROVE  /\ SignAt(s) = c[1] + 1 /\ IntAt(s) = c[2] + 1 /\ DotAt(s) = c[3] + 1
         /\ TailAt(s) = c[4] + 1
         /\ At(s, DotAt(s)) = "." <=> c[4] > c[3]
         /\ Past(s, TailAt(s), {" "}) = Len(s) + 1
  <1>1. /\ c[1] \in Nat /\ c[2] \in Nat /\ c[3] \in Nat /\ c[4] \in Nat /\ Len(s) \in Nat
        /\ c[1] <= c[2] /\ c[2] < c[3] /\ c[3] <= c[4] /\ c[4] <= Len(s)
    BY CutPlaces
  <1>2. /\ "end" \notin Digits /\ " " \notin Digits /\ "." \notin Digits /\ "-" \notin Digits
        /\ "+" \notin Digits /\ "end" \notin {" "}
    BY OtherCharacters
  <1>3. \A q \in 1 .. Len(s) : At(s, q) = s[q]
    BY <1>1 DEF At
  <1>4. At(s, Len(s) + 1) = "end"
    BY <1>1 DEF At
  <1>5. s[c[2] + 1] \in Digits /\ At(s, c[2] + 1) = s[c[2] + 1]
    <2>1. c[2] + 1 \in c[2] + 1 .. c[3] /\ c[2] + 1 \in 1 .. Len(s)
      BY <1>1
    <2>2. \A q \in c[2] + 1 .. c[3] : s[q] \in Digits
      BY DEF FitsScan
    <2> QED
      BY <1>3, <2>1, <2>2
  <1>6. /\ At(s, c[1] + 1) \in Digits \cup {"-", "+"}
        /\ c[2] = c[1] + 1 <=> At(s, c[1] + 1) \in {"-", "+"}
    <2>1. CASE c[2] = c[1]
      <3>1. c[2] # c[1] + 1
        BY <1>1, <2>1
      <3>2. At(s, c[1] + 1) \in Digits
        BY <1>5, <2>1
      <3> QED
        BY <1>2, <3>1, <3>2
    <2>2. CASE c[2] = c[1] + 1
      <3>1. c[2] # c[1] /\ c[2] \in 1 .. Len(s)
        BY <1>1, <2>2
      <3>2. s[c[2]] \in {"-", "+"}
        BY <3>1 DEF FitsScan
      <3> QED
        BY <1>3, <2>2, <3>1, <3>2
    <2> QED
      BY <2>1, <2>2 DEF FitsScan
  <1>7. SignAt(s) = c[1] + 1
    <2>1. At(s, c[1] + 1) \notin {" "}
      BY <1>2, <1>6
    <2>2. 1 \in Nat /\ 1 <= 1 /\ 1 <= c[1] + 1 /\ c[1] <= Len(s)
      BY <1>1
    <2>3. \A q \in 1 .. c[1] : s[q] \in {" "}
      BY DEF FitsScan
    <2> QED
      BY <1>1, <1>2, <2>1, <2>2, <2>3, PastAll DEF SignAt
  <1>8. IntAt(s) = c[2] + 1
    <2>1. CASE c[2] = c[1] + 1
      <3>1. IntAt(s) = c[1] + 1 + 1
        BY <1>6, <1>7, <2>1 DEF IntAt, AfterSign
      <3> QED
        BY <2>1, <3>1
    <2>2. CASE c[2] # c[1] + 1
      <3>1. IntAt(s) = c[1] + 1
        BY <1>6, <1>7, <2>2 DEF IntAt, AfterSign
      <3>2. c[2] = c[1]
        BY <2>2 DEF FitsScan
      <3> QED
        BY <3>1, <3>2
    <2> QED
      BY <2>1, <2>2
  <1>9. At(s, c[3] + 1) \in {".", " ", "end"} /\ (At(s, c[3] + 1) = "." <=> c[4] > c[3])
    <2>1. CASE c[4] > c[3]
      <3>1. c[4] # c[3] /\ c[3] + 1 \in 1 .. Len(s)
        BY <1>1, <2>1
      <3>2. s[c[3] + 1] = "."
        BY <3>1 DEF FitsScan
      <3> QED
        BY <1>3, <2>1, <3>1, <3>2
    <2>2. CASE ~(c[4] > c[3])
      <3>1. c[4] = c[3]
        BY <1>1, <2>2
      <3>2. CASE c[3] = Len(s)
        BY <1>4, <2>2, <3>2
      <3>3. CASE c[3] # Len(s)
        <4>1. c[3] + 1 \in c[4] + 1 .. Len(s) /\ c[3] + 1 \in 1 .. Len(s)
          BY <1>1, <3>1, <3>3
        <4>2. s[c[3] + 1] \in {" "}
          BY <4>1 DEF FitsScan
        <4> QED
          BY <1>3, <2>2, <4>1, <4>2
      <3> QED
        BY <3>2, <3>3
    <2> QED
      BY <2>1, <2>2
  <1>10. DotAt(s) = c[3] + 1
    <2>1. At(s, c[3] + 1) \notin Digits
      BY <1>2, <1>9
    <2>2. c[2] + 1 \in Nat /\ 1 <= c[2] + 1 /\ c[2] + 1 <= c[3] + 1 /\ c[3] <= Len(s)
      BY <1>1
    <2>3. \A q \in c[2] + 1 .. c[3] : s[q] \in Digits
      BY DEF FitsScan
    <2>4. Past(s, c[2] + 1, Digits) = c[3] + 1
      BY <1>1, <1>2, <2>1, <2>2, <2>3, PastAll
    <2> QED
      BY <1>8, <2>4 DEF DotAt
  <1>11. At(s, c[4] + 1) \in {" ", "end"}
    <2>1. CASE c[4] = Len(s)
      BY <1>4, <2>1
    <2>2. CASE c[4] # Len(s)
      <3>1. c[4] + 1 \in c[4] + 1 .. Len(s) /\ c[4] + 1 \in 1 .. Len(s)
        BY <1>1, <2>2
      <3>2. s[c[4] + 1] \in {" "}
        BY <3>1 DEF FitsScan
      <3> QED
        BY <1>3, <3>1, <3>2
    <2> QED
      BY <2>1, <2>2
  <1>12. TailAt(s) = c[4] + 1
    <2>1. CASE c[4] > c[3]
      <3>1. At(s, DotAt(s)) = "." /\ PointAt(s) = c[3] + 1 + 1
        BY <1>9, <1>10, <2>1 DEF PointAt
      <3>2. c[3] + 1 + 1 = c[3] + 2 /\ c[4] # c[3]
        BY <1>1, <2>1
      <3>3. TailAt(s) = Past(s, c[3] + 2, Digits)
        BY <3>1, <3>2 DEF TailAt
      <3>4. c[3] + 2 \in Nat /\ 1 <= c[3] + 2 /\ c[3] + 2 <= c[4] + 1 /\ c[4] <= Len(s)
        BY <1>1, <2>1
      <3>5. At(s, c[4] + 1) \notin Digits
        BY <1>2, <1>11
      <3>6. \A q \in c[3] + 2 .. c[4] : s[q] \in Digits
        BY <3>2 DEF FitsScan
      <3> QED
        BY <1>1, <1>2, <3>3, <3>4, <3>5, <3>6, PastAll
    <2>2. CASE ~(c[4] > c[3])
      <3>1. TailAt(s) = c[3] + 1
        BY <1>9, <1>10, <2>2 DEF TailAt
      <3>2. c[4] = c[3]
        BY <1>1, <2>2
      <3> QED
        BY <3>1, <3>2
    <2> QED
      BY <2>1, <2>2
  <1>13. Past(s, TailAt(s), {" "}) = Len(s) + 1
    <2>1. At(s, Len(s) + 1) \notin {" "}
      BY <1>2, <1>4
    <2>2. /\ c[4] + 1 \in Nat /\ 1 <= c[4] + 1 /\ c[4] + 1 <= Len(s) + 1
          /\ Len(s) \in Nat /\ Len(s) <= Len(s) /\ "end" \notin {" "}
      BY <1>1
    <2>3. \A q \in c[4] + 1 .. Len(s) : s[q] \in {" "}
      BY DEF FitsScan
    <2>4. Past(s, c[4] + 1, {" "}) = Len(s) + 1
      BY <2>1, <2>2, <2>3, PastAll
    <2> QED
      BY <1>12, <2>4
  <1> QED
    BY <1>7, <1>8, <1>9, <1>10, <1>12, <1>13

(* And the places where they stop cut the line, if it is not rejected.     *)
Leftover(s) == Past(s, TailAt(s), {" "}) <= Len(s)
CutOf(s) == <<SignAt(s) - 1, IntAt(s) - 1, DotAt(s) - 1, TailAt(s) - 1>>

LEMMA ScanFits ==
  ASSUME NEW s \in Seq(Chars), DotAt(s) # IntAt(s), ~Leftover(s)
  PROVE  CutOf(s) \in CutsOf(s) /\ FitsScan(s, CutOf(s))
  <1> DEFINE sign == SignAt(s)
             int == IntAt(s)
             dot == DotAt(s)
             point == PointAt(s)
             tail == TailAt(s)
             n == Len(s)
             end == Past(s, tail, {" "})
             c == CutOf(s)
  <1>1. /\ sign \in Nat /\ int \in Nat /\ dot \in Nat /\ point \in Nat /\ tail \in Nat /\ n \in Nat
        /\ 1 <= sign /\ sign <= int /\ int < dot /\ dot <= point /\ point <= tail /\ tail <= n + 1
    <2>1. dot # int
      OBVIOUS
    <2> QED
      BY <2>1, ScanPlaces
  <1>2. /\ \A q \in 1 .. sign - 1 : s[q] \in {" "}
        /\ \A q \in int .. dot - 1 : s[q] \in Digits
        /\ \A q \in point .. tail - 1 : s[q] \in Digits
    BY ScanClasses
  <1>3. \A q : At(s, q) # "end" => q <= n /\ At(s, q) = s[q]
    BY DEF At
  <1>4. int = sign \/ (int = sign + 1 /\ s[sign] \in {"-", "+"})
    BY <1>3 DEF IntAt, AfterSign
  <1>5. (tail = dot) \/ (point = dot + 1 /\ s[dot] = ".")
    BY <1>3 DEF TailAt, PointAt
  <1>6. end \in tail .. n + 1 /\ \A q \in tail .. end - 1 : s[q] \in {" "}
    <2>1. tail \in 1 .. Len(s) + 1
      <3> HIDE DEF tail, n, sign, int, dot, point
      <3>1. tail \in 1 .. n + 1
        BY <1>1
      <3> QED
        BY <3>1 DEF n
    <2>2. "end" \notin {" "}
      OBVIOUS
    <2> QED
      BY <2>1, <2>2, PastStops
  <1>7. ~(end <= n)
    BY DEF Leftover
  <1>8. c = <<sign - 1, int - 1, dot - 1, tail - 1>>
    BY DEF CutOf
  <1> HIDE DEF sign, int, dot, point, tail, n, end, c
  <1>9. end - 1 = n
    <2>1. end \in tail .. n + 1
      BY <1>6
    <2> QED
      BY <1>1, <1>7, <2>1
  <1>10. c[1] = sign - 1 /\ c[2] = int - 1 /\ c[3] = dot - 1 /\ c[4] = tail - 1
    BY <1>8
  <1>11. c \in CutsOf(s)
    <2>1. sign - 1 \in 0 .. n /\ int - 1 \in 0 .. n /\ dot - 1 \in 0 .. n /\ tail - 1 \in 0 .. n
      BY <1>1
    <2>2. c \in [1 .. 4 -> 0 .. n]
      BY <1>8, <2>1
    <2>3. sign - 1 <= int - 1 /\ int - 1 < dot - 1 /\ dot - 1 <= tail - 1
      BY <1>1
    <2> QED
      BY <1>10, <2>2, <2>3 DEF CutsOf, n
  <1>12. \A q \in 1 .. c[1] : s[q] \in {" "}
    BY <1>2, <1>10
  <1>13. c[2] = c[1] \/ (c[2] = c[1] + 1 /\ s[c[2]] \in {"-", "+"})
    <2>1. ASSUME int = sign + 1 PROVE int - 1 = sign /\ int - 1 = sign - 1 + 1
      BY <1>1, <2>1
    <2> QED
      BY <1>4, <1>10, <2>1
  <1>14. \A q \in c[2] + 1 .. c[3] : s[q] \in Digits
    <2>1. int - 1 + 1 = int
      BY <1>1
    <2> QED
      BY <1>2, <1>10, <2>1
  <1>15. \/ c[4] = c[3]
         \/ c[4] > c[3] /\ s[c[3] + 1] = "." /\ \A q \in c[3] + 2 .. c[4] : s[q] \in Digits
    <2>1. CASE tail = dot
      BY <1>10, <2>1
    <2>2. CASE point = dot + 1 /\ s[dot] = "."
      <3>1. tail - 1 > dot - 1 /\ dot - 1 + 1 = dot /\ dot - 1 + 2 = point
        BY <1>1, <2>2
      <3> QED
        BY <1>2, <1>10, <2>2, <3>1
    <2> QED
      BY <1>5, <2>1, <2>2
  <1>16. \A q \in c[4] + 1 .. Len(s) : s[q] \in {" "}
    <2>1. tail - 1 + 1 = tail
      BY <1>1
    <2>2. c[4] + 1 = tail /\ Len(s) = end - 1
      BY <1>9, <1>10, <2>1 DEF n
    <2> QED
      BY <1>6, <2>2
  <1>17. FitsScan(s, c)
    BY <1>12, <1>13, <1>14, <1>15, <1>16 DEF FitsScan
  <1> QED
    BY <1>11, <1>17 DEF c

LEMMA SaysSomething ==
  ASSUME NEW s \in Seq(Chars), DotAt(s) # IntAt(s), ~Leftover(s)
  PROVE  SaysAt(s, CutOf(s)) \in Said(s)
  <1>1. CutOf(s) \in CutsOf(s) /\ FitsAt(s, CutOf(s))
    BY ScanFits, FitsIff
  <1> QED
    BY <1>1, SaidIs

(* What the cut says is what the scans have read.                          *)
LEMMA SaysWhole ==
  ASSUME NEW s \in Seq(Chars), NEW c \in CutsOf(s), FitsScan(s, c)
  PROVE  /\ WholePart(s, c) = WholeDigits(s)
         /\ SaysAt(s, c).whole = Decimal(WholeDigits(s))
         /\ SaysAt(s, c).minus <=> At(s, SignAt(s)) = "-"
         /\ SaysAt(s, c).point <=> At(s, DotAt(s)) = "."
  <1>1. IntAt(s) = c[2] + 1 /\ DotAt(s) = c[3] + 1 /\ SignAt(s) = c[1] + 1
    BY ScanIs
  <1>2. c[1] \in Nat /\ c[2] \in Nat /\ c[3] \in Nat /\ c[2] < c[3] /\ c[3] <= Len(s) /\ Len(s) \in Nat
    BY CutPlaces
  <1>3. DotAt(s) - 1 = c[3]
    BY <1>1, <1>2
  <1>4. WholePart(s, c) = WholeDigits(s)
    BY <1>1, <1>3 DEF WholePart, WholeDigits
  <1>5. SaysAt(s, c).minus <=> At(s, SignAt(s)) = "-"
    <2>1. SaysAt(s, c).minus <=> c[2] = c[1] + 1 /\ s[c[2]] = "-"
      BY SignIs DEF SaysAt
    <2>2. CASE c[2] = c[1] + 1
      <3>1. At(s, c[2]) = s[c[2]]
        BY <1>2 DEF At
      <3> QED
        BY <1>1, <2>1, <2>2, <3>1
    <2>3. CASE c[2] # c[1] + 1
      <3>1. c[2] = c[1] /\ \A q \in c[2] + 1 .. c[3] : s[q] \in Digits
        BY <2>3 DEF FitsScan
      <3>2. c[2] + 1 \in c[2] + 1 .. c[3] /\ c[2] + 1 <= Len(s)
        BY <1>2
      <3>3. At(s, SignAt(s)) \in Digits
        BY <1>1, <3>1, <3>2 DEF At
      <3> QED
        BY <2>1, <2>3, <3>3, OtherCharacters
    <2> QED
      BY <2>2, <2>3
  <1>6. SaysAt(s, c).point <=> At(s, DotAt(s)) = "."
    <2>1. SaysAt(s, c).point <=> ~(c[4] = c[3])
      BY FracIs DEF SaysAt
    <2>2. c[4] = c[3] <=> ~(c[4] > c[3])
      BY CutPlaces
    <2> QED
      BY <2>1, <2>2, ScanIs
  <1> QED
    BY <1>4, <1>5, <1>6 DEF SaysAt

-----------------------------------------------------------------------------
(* Settings *)

LEMMA RangeSays ==
  ASSUME NEW s \in Seq(Chars), NEW max \in Nat, NEW v \in parse_u32_range(s, 0, max)
  PROVE  \E n \in Said(s) : ~n.point /\ (n.minus \/ n.whole = v)
  <1> DEFINE w == Decimal(WholeDigits(s))
             value == IF At(s, SignAt(s)) = "-" THEN (-w) % (ULongMax + 1) ELSE w
             over == w > ULongMax \/ value < 0 \/ value > max
             rest == Past(s, DotAt(s), {" "}) <= Len(s)
             n == SaysAt(s, CutOf(s))
  <1>1. parse_u32_range(s, 0, max) =
          IF DotAt(s) = IntAt(s) \/ rest \/ over THEN {} ELSE {value}
    BY DEF parse_u32_range, WholeDigits, DotAt, IntAt, SignAt
  <1>2. DotAt(s) # IntAt(s) /\ ~rest /\ v = value
    <2> HIDE DEF value, over, rest
    <2> QED
      BY <1>1
  <1>3. At(s, DotAt(s)) # "."
    <2>1. DotAt(s) \in 1 .. Len(s) + 1 /\ DotAt(s) \in Nat /\ Len(s) \in Nat
      BY ScanPlaces
    <2>2. CASE DotAt(s) <= Len(s)
      <3> DEFINE x == Past(s, DotAt(s), {" "})
      <3>1. x \in DotAt(s) .. Len(s) + 1 /\ \A q \in DotAt(s) .. x - 1 : s[q] \in {" "}
        BY <2>1, PastStops
      <3>2. ~(x <= Len(s))
        BY <1>2
      <3> HIDE DEF x, rest
      <3>3. x \in DotAt(s) .. Len(s) + 1
        BY <3>1
      <3>4. DotAt(s) \in DotAt(s) .. x - 1
        BY <2>1, <2>2, <3>2, <3>3
      <3>5. s[DotAt(s)] \in {" "}
        BY <3>1, <3>4
      <3> QED
        BY <2>2, <3>5 DEF At
    <2>3. CASE ~(DotAt(s) <= Len(s))
      BY <2>3 DEF At
    <2> QED
      BY <2>2, <2>3
  <1>4. TailAt(s) = DotAt(s)
    BY <1>3 DEF TailAt
  <1>5. ~Leftover(s)
    BY <1>2, <1>4 DEF Leftover
  <1>6. CutOf(s) \in CutsOf(s) /\ FitsScan(s, CutOf(s)) /\ n \in Said(s)
    BY <1>2, <1>5, ScanFits, SaysSomething
  <1>7. n.whole = w /\ (n.minus <=> At(s, SignAt(s)) = "-") /\ ~n.point
    BY <1>3, <1>6, SaysWhole
  <1>8. n.minus \/ n.whole = v
    BY <1>2, <1>7
  <1> QED
    BY <1>6, <1>7, <1>8

(* A gate or a delay is changed by the answer to its own question, to the  *)
(* number on the line, if that has no minus sign; the other one stays.     *)
THEOREM SettingsTyped == Spec => SettingsAreTyped
  <1> DEFINE Answered ==
               \E n \in Said(buf) :
                 /\ ~n.point
                 /\ \/ /\ prompt = "gate" /\ current'.absence = current.absence
                       /\ n.minus \/ current'.gate = n.whole
                    \/ /\ prompt = "delay" /\ current'.gate = current.gate
                       /\ n.minus \/ current'.absence = n.whole
  <1>1. ASSUME ConsoleInv, [Next]_vars, current' # current
        PROVE  Answered
    <2>1. GateMax \in Nat /\ DelayMax \in Nat
      BY ConsoleAssumption
    <2>2. /\ buf \in Seq(Chars)
          /\ current \in [gate : (0 .. GateMax) \cup {5}, absence : (0 .. DelayMax) \cup {5}]
      BY <1>1 DEF ConsoleInv, TypeOK
    <2>3. CASE configure_max_gate
      <3>1. PICK g \in {current.gate} \cup parse_u32_range(buf, 0, GateMax) :
              current' = [current EXCEPT !.gate = g]
        BY <2>3 DEF configure_max_gate
      <3>2. g # current.gate /\ current'.gate = g /\ current'.absence = current.absence
        BY <1>1, <2>2, <3>1
      <3>3. g \in parse_u32_range(buf, 0, GateMax)
        BY <3>1, <3>2
      <3>4. prompt = "gate"
        BY <2>3 DEF configure_max_gate, Return
      <3>5. PICK n \in Said(buf) : ~n.point /\ (n.minus \/ n.whole = g)
        BY <2>1, <2>2, <3>3, RangeSays
      <3> QED
        BY <3>2, <3>4, <3>5
    <2>4. CASE configure_absence_delay
      <3>1. PICK g \in {current.absence} \cup parse_u32_range(buf, 0, DelayMax) :
              current' = [current EXCEPT !.absence = g]
        BY <2>4 DEF configure_absence_delay
      <3>2. g # current.absence /\ current'.absence = g /\ current'.gate = current.gate
        BY <1>1, <2>2, <3>1
      <3>3. g \in parse_u32_range(buf, 0, DelayMax)
        BY <3>1, <3>2
      <3>4. prompt = "delay"
        BY <2>4 DEF configure_absence_delay, Return
      <3>5. PICK n \in Said(buf) : ~n.point /\ (n.minus \/ n.whole = g)
        BY <2>1, <2>2, <3>3, RangeSays
      <3> QED
        BY <3>2, <3>4, <3>5
    <2>5. configure_max_gate \/ configure_absence_delay
      BY <1>1 DEF Next, vars, TypeChar, Backspace, LeavePrompt, config_mode_run,
          configure_threshold, EnterMenu, PrintSnapshot
    <2> QED
      BY <2>3, <2>4, <2>5
  <1>2. ConsoleInv /\ [Next]_vars => [current' # current => Answered]_vars
    BY <1>1
  <1> QED
    BY <1>2, ConsoleInvariant, PTL DEF Spec, SettingsAreTyped

-----------------------------------------------------------------------------
(* The threshold *)

(* Two digits of what is typed, filled up with zeros, are the hundredths   *)
(* that are computed from the digits there are.                            *)
LEMMA TwoDigits ==
  ASSUME NEW g \in Seq(Digits), NEW f \in Seq(Digits),
         Len(f) = IF Len(g) < 2 THEN Len(g) ELSE 2, \A i \in 1 .. Len(f) : f[i] = g[i]
  PROVE  Decimal(SubSeq(g \o <<"0", "0">>, 1, 2)) = Cents(f)
  <1> DEFINE z == <<"0", "0">>
             y == g \o z
             h == SubSeq(y, 1, 2)
  <1>1. "0" \in Digits /\ DigitOf["0"] = 0
    BY OtherCharacters
  <1>2. z \in Seq(Digits) /\ Len(z) = 2 /\ z[1] = "0" /\ z[2] = "0"
    BY <1>1
  <1>3. Len(g) \in Nat
    OBVIOUS
  <1> HIDE DEF z
  <1>4. /\ y \in Seq(Digits) /\ Len(y) = Len(g) + 2
        /\ \A i \in 1 .. Len(g) + 2 : y[i] = IF i <= Len(g) THEN g[i] ELSE z[i - Len(g)]
    <2>1. /\ y \in Seq(Digits) /\ Len(y) = Len(g) + Len(z)
          /\ \A i \in 1 .. Len(g) + Len(z) : y[i] = IF i <= Len(g) THEN g[i] ELSE z[i - Len(g)]
      BY <1>2, ConcatProperties
    <2> HIDE DEF y
    <2> QED
      BY <1>2, <2>1
  <1> HIDE DEF y
  <1>5. y[1] \in Digits /\ y[2] \in Digits
    <2>1. 1 \in 1 .. Len(y) /\ 2 \in 1 .. Len(y)
      BY <1>3, <1>4
    <2> QED
      BY <1>4, <2>1
  <1>6. h \in Seq(Digits) /\ Len(h) = 2 /\ h[1] = y[1] /\ h[2] = y[2]
    <2>1. \A i \in 1 .. 2 : y[i] \in Digits
      BY <1>5
    <2> QED
      BY <2>1
  <1> HIDE DEF h
  <1>7. Decimal(h) = 10 * DigitOf[y[1]] + DigitOf[y[2]]
    BY <1>6, DecimalShort
  <1>8. CASE Len(g) = 0
    <2>1. y[1] = "0" /\ y[2] = "0"
      BY <1>2, <1>4, <1>8
    <2>2. Len(f) = 0
      BY <1>8
    <2>3. Cents(f) = 0
      BY <2>2 DEF Cents
    <2>4. Decimal(h) = 10 * 0 + 0
      BY <1>1, <1>7, <2>1
    <2> QED
      BY <2>3, <2>4 DEF h, y, z
  <1>9. CASE Len(g) = 1
    <2>1. y[1] = g[1] /\ y[2] = "0"
      BY <1>2, <1>4, <1>9
    <2>2. Len(f) = 1 /\ 1 \in 1 .. Len(f)
      BY <1>9
    <2>3. f[1] = g[1] /\ g[1] \in Digits
      BY <2>2, <1>9
    <2>4. Cents(f) = 10 * DigitOf[g[1]]
      <3>1. Len(f) = 1 /\ Len(f) # 0
        BY <2>2
      <3>2. Cents(f) = 10 * DigitOf[f[1]]
        BY <3>1, Zenon DEF Cents
      <3> QED
        BY <2>3, <3>2, Zenon
    <2>5. DigitOf[y[1]] = DigitOf[g[1]] /\ DigitOf[y[2]] = 0
      BY <1>1, <2>1
    <2>6. DigitOf[g[1]] \in 0 .. 9
      BY <2>3, DigitTyped
    <2> QED
      <3>1. \A d \in 0 .. 9 : 10 * d + 0 = 10 * d
        OBVIOUS
      <3>2. Decimal(h) = 10 * DigitOf[g[1]]
        BY <1>7, <2>5, <2>6, <3>1
      <3> QED
        BY <2>4, <3>2 DEF h, y, z
  <1>10. CASE Len(g) >= 2
    <2>1. y[1] = g[1] /\ y[2] = g[2]
      BY <1>4, <1>3, <1>10
    <2>2. Len(f) = 2 /\ 1 \in 1 .. Len(f) /\ 2 \in 1 .. Len(f)
      BY <1>3, <1>10
    <2>3. f[1] = g[1] /\ f[2] = g[2]
      BY <2>2
    <2>4. Cents(f) = 10 * DigitOf[g[1]] + DigitOf[g[2]]
      <3>1. Len(f) # 0 /\ Len(f) # 1
        BY <2>2
      <3>2. Cents(f) = 10 * DigitOf[f[1]] + DigitOf[f[2]]
        BY <3>1, Zenon DEF Cents
      <3> QED
        BY <2>3, <3>2, Zenon
    <2> QED
      BY <1>7, <2>1, <2>4 DEF h, y, z
  <1>11. Len(g) = 0 \/ Len(g) = 1 \/ Len(g) >= 2
    <2>1. \A k \in Nat : k = 0 \/ k = 1 \/ k >= 2
      OBVIOUS
    <2> QED
      BY <1>3, <2>1
  <1> QED
    BY <1>8, <1>9, <1>10, <1>11

LEMMA SaysCenti ==
  ASSUME NEW s \in Seq(Chars), NEW c \in CutsOf(s), FitsScan(s, c)
  PROVE  SaysAt(s, c).centi = 100 * Decimal(WholeDigits(s)) + Hundredths(s)
  <1> DEFINE f == FracDigits(s)
             w == Decimal(WholeDigits(s))
             part == FracPart(s, c)
  <1>1. /\ DotAt(s) = c[3] + 1 /\ TailAt(s) = c[4] + 1
        /\ At(s, DotAt(s)) = "." <=> c[4] > c[3]
    BY ScanIs
  <1>2. /\ f \in Seq(Digits)
        /\ Len(f) = IF TailAt(s) - PointAt(s) < 2 THEN TailAt(s) - PointAt(s) ELSE 2
        /\ \A i \in 1 .. Len(f) : f[i] = s[PointAt(s) + i - 1]
    BY FracTyped
  <1>3. Hundredths(s) = Cents(f)
    BY HundredthsAre
  <1>4. SaysAt(s, c).centi = 100 * w + IF part = <<>> THEN 0 ELSE TwoDecimals(part)
    BY SaysWhole DEF SaysAt
  <1>5. c[3] \in Nat /\ c[4] \in Nat /\ c[3] <= c[4] /\ c[4] <= Len(s) /\ Len(s) \in Nat
    BY CutPlaces
  <1>6. part = <<>> <=> c[4] = c[3]
    BY FracIs
  <1> HIDE DEF f, w
  <1>7. CASE c[4] = c[3]
    <2>1. PointAt(s) = DotAt(s) /\ TailAt(s) = DotAt(s)
      <3>1. ~(c[4] > c[3])
        BY <1>5, <1>7
      <3> QED
        BY <1>1, <1>7, <3>1 DEF PointAt
    <2>2. TailAt(s) - PointAt(s) = 0
      BY <1>1, <1>5, <2>1
    <2>3. Len(f) = 0
      BY <1>2, <2>2
    <2>4. Cents(f) = 0
      BY <2>3 DEF Cents
    <2> QED
      BY <1>3, <1>4, <1>6, <1>7, <2>4 DEF w
  <1>8. CASE c[4] > c[3]
    <2> DEFINE g == SubSeq(s, c[3] + 2, c[4])
    <2>1. Tail(part) = g
      BY <1>8, FracIs
    <2>2. c[4] # c[3]
      BY <1>5, <1>8
    <2>3. PointAt(s) = c[3] + 1 + 1
      BY <1>1, <1>8 DEF PointAt
    <2>4. PointAt(s) = c[3] + 2
      BY <1>5, <2>3
    <2>5. \A q \in c[3] + 2 .. c[4] : s[q] \in Digits
      BY <2>2 DEF FitsScan
    <2>6. c[3] + 2 \in Int /\ c[4] \in Int
      BY <1>5
    <2>7. /\ g \in Seq(Digits)
          /\ Len(g) = IF c[3] + 2 <= c[4] THEN c[4] - (c[3] + 2) + 1 ELSE 0
          /\ \A i \in 1 .. c[4] - (c[3] + 2) + 1 : g[i] = s[c[3] + 2 + i - 1]
      <3> DEFINE m == c[3] + 2
                 e == c[4]
      <3>1. m \in Int /\ e \in Int /\ \A q \in m .. e : s[q] \in Digits
        BY <2>5, <2>6
      <3>2. g = SubSeq(s, m, e)
        OBVIOUS
      <3> HIDE DEF g, m, e
      <3>3. /\ SubSeq(s, m, e) \in Seq(Digits)
            /\ Len(SubSeq(s, m, e)) = IF m <= e THEN e - m + 1 ELSE 0
            /\ \A i \in 1 .. e - m + 1 : SubSeq(s, m, e)[i] = s[m + i - 1]
        BY <3>1, SubSeqProperties
      <3> QED
        BY <3>2, <3>3 DEF m, e
    <2> HIDE DEF g
    <2>8. Len(g) = c[4] - (c[3] + 2) + 1 /\ Len(g) = TailAt(s) - PointAt(s)
      <3>1. \A a, b \in Nat : b > a =>
              /\ (IF a + 2 <= b THEN b - (a + 2) + 1 ELSE 0) = b - (a + 2) + 1
              /\ b - (a + 2) + 1 = (b + 1) - (a + 2)
        OBVIOUS
      <3> QED
        BY <1>1, <1>5, <1>8, <2>4, <2>7, <3>1
    <2>9. Len(f) = IF Len(g) < 2 THEN Len(g) ELSE 2
      BY <1>2, <2>8
    <2>10. \A i \in 1 .. Len(f) : i \in 1 .. Len(g)
      <3>1. Len(g) \in Nat
        BY <2>7
      <3> QED
        BY <2>9, <3>1
    <2>11. \A i \in 1 .. Len(f) : f[i] = g[i]
      BY <1>2, <2>4, <2>7, <2>8, <2>10
    <2>12. Decimal(SubSeq(g \o <<"0", "0">>, 1, 2)) = Cents(f)
      BY <1>2, <2>7, <2>9, <2>11, TwoDigits
    <2>13. TwoDecimals(part) = Cents(f)
      BY <2>1, <2>12 DEF TwoDecimals
    <2> QED
      BY <1>3, <1>4, <1>6, <2>2, <2>13 DEF w
  <1>9. c[4] = c[3] \/ c[4] > c[3]
    BY <1>5
  <1> QED
    BY <1>7, <1>8, <1>9

(* Without its last digit a number is not greater. *)
LEMMA ShorterIsLess ==
  ASSUME NEW s \in Seq(Chars), DotAt(s) # IntAt(s)
  PROVE  /\ Decimal(SubSeq(s, IntAt(s), DotAt(s) - 2)) \in Nat
         /\ Decimal(SubSeq(s, IntAt(s), DotAt(s) - 2)) <= Decimal(WholeDigits(s))
  <1> DEFINE m == IntAt(s)
             e == DotAt(s)
             a == SubSeq(s, m, e - 2)
             b == SubSeq(s, m, e - 1)
  <1>1. m \in Nat /\ e \in Nat /\ m < e
    <2>1. m # e
      OBVIOUS
    <2>2. m \in Nat /\ e \in Nat /\ m <= e
      BY ScanPlaces
    <2> HIDE DEF m, e
    <2> QED
      BY <2>1, <2>2
  <1>2. \A q \in m .. e - 1 : s[q] \in Digits
    BY ScanClasses
  <1>3. WholeDigits(s) = b
    BY DEF WholeDigits
  <1> HIDE DEF m, e
  <1>4. e - 1 \in Int /\ e - 2 \in Int /\ m \in Int
    BY <1>1
  <1>5. \A q \in m .. e - 2 : s[q] \in Digits
    <2>1. \A q \in m .. e - 2 : q \in m .. e - 1
      BY <1>1
    <2> QED
      BY <1>2, <2>1
  <1>6. /\ b \in Seq(Digits) /\ Len(b) = IF m <= e - 1 THEN (e - 1) - m + 1 ELSE 0
        /\ \A i \in 1 .. (e - 1) - m + 1 : b[i] = s[m + i - 1]
    BY <1>2, <1>4, SubSeqProperties
  <1>7. /\ a \in Seq(Digits) /\ Len(a) = IF m <= e - 2 THEN (e - 2) - m + 1 ELSE 0
        /\ \A i \in 1 .. (e - 2) - m + 1 : a[i] = s[m + i - 1]
    BY <1>4, <1>5, SubSeqProperties
  <1> HIDE DEF a, b
  <1>8. Len(b) = Len(a) + 1 /\ Len(b) = (e - 1) - m + 1 /\ Len(a) = (e - 2) - m + 1
    <2>1. \A x, y \in Nat : x < y =>
            /\ (IF x <= y - 1 THEN (y - 1) - x + 1 ELSE 0) = (y - 1) - x + 1
            /\ (IF x <= y - 2 THEN (y - 2) - x + 1 ELSE 0) = (y - 2) - x + 1
            /\ (y - 1) - x + 1 = (y - 2) - x + 1 + 1
      OBVIOUS
    <2> QED
      BY <1>1, <1>6, <1>7, <2>1
  <1>9. \A k \in 1 .. Len(a) : a[k] = b[k]
    <2>1. Len(a) \in Nat
      BY <1>7
    <2>2. \A k \in 1 .. Len(a) : k \in 1 .. Len(b)
      BY <1>8, <2>1
    <2> QED
      BY <1>6, <1>7, <1>8, <2>2
  <1>10. Decimal(b) = 10 * Decimal(a) + DigitOf[b[Len(b)]]
    BY <1>6, <1>7, <1>8, <1>9, DecimalNext
  <1>11. b[Len(b)] \in Digits
    <2>1. Len(a) \in Nat
      BY <1>7
    <2>2. Len(b) \in 1 .. Len(b)
      BY <1>8, <2>1
    <2> QED
      BY <1>6, <2>2
  <1>12. DigitOf[b[Len(b)]] \in 0 .. 9 /\ Decimal(a) \in Nat
    BY <1>7, <1>11, DigitTyped, DecimalTyped
  <1>13. \A x \in Nat, y \in 0 .. 9 : x <= 10 * x + y
    OBVIOUS
  <1>14. Decimal(a) <= Decimal(b)
    BY <1>10, <1>12, <1>13
  <1> QED
    BY <1>3, <1>12, <1>14 DEF a, m, e

LEMMA ThresholdSays ==
  ASSUME NEW s \in Seq(Chars)
  PROVE  /\ Said(s) = {} => parse_centi_c(s) = {}
         /\ \A n \in Said(s) :
              n.whole < IntMax \div 100 =>
                parse_centi_c(s) = {IF n.minus THEN -n.centi ELSE n.centi}
  <1>1. ASSUME Said(s) = {} PROVE parse_centi_c(s) = {}
    <2>1. DotAt(s) = IntAt(s) \/ Leftover(s)
      BY <1>1, SaysSomething
    <2>2. Rejected(s)
      BY <2>1 DEF Rejected, Leftover
    <2> QED
      BY <2>2, CentiIs
  <1>2. ASSUME NEW n \in Said(s), n.whole < IntMax \div 100
        PROVE  parse_centi_c(s) = {IF n.minus THEN -n.centi ELSE n.centi}
    <2> DEFINE w == Decimal(WholeDigits(s))
               h == Hundredths(s)
               prefix == Decimal(SubSeq(s, IntAt(s), DotAt(s) - 2))
    <2>1. PICK c \in CutsOf(s) : FitsAt(s, c) /\ n = SaysAt(s, c)
      BY SaidIs
    <2>2. FitsScan(s, c)
      BY <2>1, FitsIff
    <2>3. n.whole = w /\ (n.minus <=> At(s, SignAt(s)) = "-") /\ n.centi = 100 * w + h
      BY <2>1, <2>2, SaysWhole, SaysCenti
    <2>4. w \in Nat /\ h \in 0 .. 99
      BY WholeTyped, HundredthsAre
    <2>5. DotAt(s) # IntAt(s)
      <3>1. IntAt(s) = c[2] + 1 /\ DotAt(s) = c[3] + 1
        BY <2>2, ScanIs
      <3>2. c[2] \in Nat /\ c[3] \in Nat /\ c[2] < c[3]
        BY CutPlaces
      <3> QED
        BY <3>1, <3>2
    <2>6. prefix \in Nat /\ prefix <= w
      BY <2>5, ShorterIsLess
    <2>7. ~(Past(s, TailAt(s), {" "}) <= Len(s))
      <3>1. Past(s, TailAt(s), {" "}) = Len(s) + 1
        BY <2>2, ScanIs
      <3>2. Len(s) \in Nat
        OBVIOUS
      <3>3. ~(Len(s) + 1 <= Len(s))
        BY <3>2
      <3> QED
        BY <3>1, <3>3
    <2>8. n.minus \in BOOLEAN
      BY <2>1 DEF SaysAt
    <2>9. IntMax \in Nat
      BY ConsoleAssumption
    <2>10. w < IntMax \div 100
      BY <1>2, <2>3
    <2>11. CentiValue(s) = Wrapped(100 * w + h)
      BY DEF CentiValue
    <2>12. ~Rejected(s) <=> ~(prefix > IntMax \div 100)
      BY <2>5, <2>7 DEF Rejected
    <2> HIDE DEF w, h, prefix
    <2>13. ~(prefix > IntMax \div 100)
      BY <2>4, <2>6, <2>9, <2>10
    <2>14. 100 * w + h \in 0 .. IntMax /\ -(100 * w + h) \in -IntMax - 1 .. IntMax
      <3>1. \A x \in Nat, y \in 0 .. 99, m \in Nat :
              x < m \div 100 => 100 * x + y \in 0 .. m /\ -(100 * x + y) \in -m - 1 .. m
        OBVIOUS
      <3> QED
        BY <2>4, <2>9, <2>10, <3>1
    <2>15. CentiValue(s) = 100 * w + h /\ Wrapped(-(100 * w + h)) = -(100 * w + h)
      <3>1. 100 * w + h \in Int /\ 100 * w + h \in -IntMax - 1 .. IntMax
        BY <2>9, <2>14
      <3>2. Wrapped(100 * w + h) = 100 * w + h
        BY <3>1, WrappedTyped
      <3>3. -(100 * w + h) \in Int
        BY <3>1
      <3> QED
        BY <2>11, <2>14, <3>2, <3>3, WrappedTyped
    <2>16. parse_centi_c(s) =
             {IF At(s, SignAt(s)) = "-" THEN Wrapped(-CentiValue(s)) ELSE CentiValue(s)}
      BY <2>12, <2>13, CentiIs
    <2> QED
      BY <2>3, <2>15, <2>16
  <1> QED
    BY <1>1, <1>2

(* The threshold is changed by the answer to its question only, to the     *)
(* temperature that was typed, cut to hundredths, whatever is around it on *)
(* the line; every number on a line is accepted, and nothing else; if a    *)
(* hundred times the whole degrees is within the type.                     *)
THEOREM ThresholdTyped == Spec => ThresholdIsTyped
  <1> DEFINE Parsed ==
               IF Said(buf) = {} THEN parse_centi_c(buf) = {}
               ELSE \A n \in Said(buf) :
                      n.whole < IntMax \div 100 => parse_centi_c(buf) = {Typed(n)}
             Stored ==
               IF Said(buf) = {} THEN parse_centi_c(buf) = {} /\ threshold' = threshold
               ELSE \A n \in Said(buf) :
                      n.whole < IntMax \div 100 =>
                        /\ parse_centi_c(buf) = {Typed(n)}
                        /\ threshold' \in {threshold, Typed(n)}
  <1>1. ASSUME ConsoleInv, [Next]_vars
        PROVE  (threshold' # threshold => prompt = "threshold") /\ (configure_threshold => Stored)
    <2>1. threshold' # threshold => configure_threshold
      BY <1>1 DEF Next, vars, TypeChar, Backspace, LeavePrompt, config_mode_run,
          configure_max_gate, configure_absence_delay, EnterMenu, PrintSnapshot
    <2>2. configure_threshold =>
            prompt = "threshold" /\ threshold' \in {threshold} \cup parse_centi_c(buf)
      BY DEF configure_threshold, Return
    <2>3. Parsed
      BY <1>1, ThresholdSays DEF ConsoleInv, Typed
    <2>4. Parsed /\ threshold' \in {threshold} \cup parse_centi_c(buf) => Stored
      OBVIOUS
    <2> HIDE DEF Parsed, Stored
    <2> QED
      BY <2>1, <2>2, <2>3, <2>4
  <1>2. ConsoleInv /\ [Next]_vars =>
          [(threshold' # threshold => prompt = "threshold") /\ (configure_threshold => Stored)]_vars
    BY <1>1
  <1> QED
    BY <1>2, ConsoleInvariant, PTL DEF Spec, ThresholdIsTyped
=============================================================================
