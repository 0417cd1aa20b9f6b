---------------------------- MODULE DecimalProofs ----------------------------
(***************************************************************************)
(* Decimal text round-trips: mpz_class(s, 10) reads back every integer    *)
(* that Integer::get_str writes, for every integer (DecimalRoundTrip).    *)
(*                                                                         *)
(* DigitSeq and Magnitude's mag are recursive functions, which tlapm      *)
(* reads as a CHOOSE of a solution of their defining equations.  The      *)
(* proofs first build a solution (so that the CHOOSE denotes one), then   *)
(* argue about it by induction, each time by picking a least             *)
(* counterexample (NatLemmas!LeastExists).                                 *)
(***************************************************************************)
EXTENDS Decimal, NatLemmas, SequenceTheorems, TLAPS

\* A natural number of two digits or more has a shorter prefix.
LEMMA DivTen ==
    ASSUME NEW n \in Nat, n >= 10
    PROVE  n \div 10 \in 0..(n - 1) /\ n % 10 \in 0..9 /\ n = 10 * (n \div 10) + (n % 10)
  OBVIOUS

-----------------------------------------------------------------------------
(***************************************************************************)
(* DigitSeq exists.  DBody is the body of its definition, and Approx(f, m) *)
(* says that f solves the definition on 0..m.                              *)
(***************************************************************************)
DBody(f, n) ==
    IF n < 10 THEN <<Digit[n + 1]>>
    ELSE Append(f[n \div 10], Digit[(n % 10) + 1])

Approx(f, m) == f = [k \in 0..m |-> DBody(f, k)]

\* DBody(f, n) reads f at n \div 10 only.
LEMMA DBodyLocal ==
    ASSUME NEW f, NEW g, NEW n \in Nat,
           n >= 10 => f[n \div 10] = g[n \div 10]
    PROVE  DBody(f, n) = DBody(g, n)
  BY DEF DBody

\* A solution on 0..m takes DBody's value at every point of 0..m.
LEMMA ApproxAt ==
    ASSUME NEW f, NEW m, Approx(f, m), NEW k \in 0..m
    PROVE  f[k] = DBody(f, k)
  BY DEF Approx

\* A solution on 0..m exists for every m: extend one on 0..m-1 by DBody.
LEMMA ApproxExists ==
    ASSUME NEW m \in Nat
    PROVE  \E f : Approx(f, m)
<1>. DEFINE Bad == {j \in Nat : ~\E f : Approx(f, j)}
<1>. SUFFICES ASSUME Bad # {} PROVE FALSE
  OBVIOUS
<1>1. PICK m0 \in Bad : \A j \in Bad : m0 <= j
  BY LeastExists
<1>2. CASE m0 = 0
  <2>. DEFINE f0 == [k \in 0..0 |-> <<Digit[1]>>]
  <2>1. Approx(f0, 0)
    BY DEF Approx, DBody
  <2>. QED  BY <1>1, <1>2, <2>1
<1>3. CASE m0 > 0
  <2>1. m0 - 1 \notin Bad
    BY <1>1, <1>3
  <2>2. PICK g : Approx(g, m0 - 1)
    BY <1>3, <2>1
  <2>. DEFINE f == [k \in 0..m0 |-> IF k < m0 THEN g[k] ELSE DBody(g, m0)]
  <2>3. ASSUME NEW k \in 0..m0 PROVE DBody(f, k) = DBody(g, k)
    <3>1. k >= 10 => f[k \div 10] = g[k \div 10]
      BY DivTen
    <3>. QED  BY <3>1, DBodyLocal
  <2>4. ASSUME NEW k \in 0..m0 PROVE f[k] = DBody(f, k)
    <3>1. CASE k < m0
      <4>1. g[k] = DBody(g, k)
        BY <2>2, <3>1 DEF Approx
      <4>. QED  BY <2>3, <3>1, <4>1
    <3>2. CASE k = m0
      BY <2>3, <3>2
    <3>. QED  BY <3>1, <3>2
  <2>5. Approx(f, m0)
    BY <2>4 DEF Approx
  <2>. QED  BY <1>1, <2>5
<1>. QED  BY <1>1, <1>2, <1>3

\* Two solutions agree where both are defined: at a least index where they
\* differed, they would read the same shorter prefix.
LEMMA ApproxAgree ==
    ASSUME NEW f, NEW g, NEW m \in Nat, NEW m2 \in Nat,
           Approx(f, m), Approx(g, m2)
    PROVE  \A k \in 0..m : k <= m2 => f[k] = g[k]
<1>. DEFINE Bad == {k \in 0..m : k <= m2 /\ f[k] # g[k]}
<1>. SUFFICES ASSUME Bad # {} PROVE FALSE
  OBVIOUS
<1>0. Bad \in SUBSET Nat
  OBVIOUS
<1>1. PICK k0 \in Bad : \A j \in Bad : k0 <= j
  BY <1>0, LeastExists
<1>2. k0 >= 10 => f[k0 \div 10] = g[k0 \div 10]
  <2>. SUFFICES ASSUME k0 >= 10 PROVE f[k0 \div 10] = g[k0 \div 10]
    OBVIOUS
  <2>1. k0 \div 10 \in 0..m /\ k0 \div 10 <= m2 /\ k0 \div 10 < k0
    BY <1>1, DivTen
  <2>2. k0 \div 10 \notin Bad
    BY <1>1, <2>1
  <2>. QED  BY <2>1, <2>2
<1>3. f[k0] = DBody(f, k0) /\ g[k0] = DBody(g, k0)
  BY <1>1, ApproxAt
<1>4. DBody(f, k0) = DBody(g, k0)
  BY <1>1, <1>2, DBodyLocal
<1>. QED  BY <1>1, <1>3, <1>4

\* The solutions on 0..n glued together solve DigitSeq's definition.
LEMMA DigitSeqDef ==
    \A n \in Nat : DigitSeq[n] = DBody(DigitSeq, n)
<1>. DEFINE A(n) == CHOOSE f : Approx(f, n)
            W == [n \in Nat |-> A(n)[n]]
<1>1. ASSUME NEW n \in Nat PROVE Approx(A(n), n)
  BY ApproxExists
<1>2. ASSUME NEW n \in Nat PROVE W[n] = DBody(W, n)
  <2>1. W[n] = DBody(A(n), n)
    <3>1. A(n)[n] = DBody(A(n), n)
      BY <1>1, ApproxAt
    <3>2. W[n] = A(n)[n]
      OBVIOUS
    <3>. QED  BY <3>1, <3>2
  <2>2. n >= 10 => A(n)[n \div 10] = W[n \div 10]
    <3>. SUFFICES ASSUME n >= 10 PROVE A(n)[n \div 10] = W[n \div 10]
      OBVIOUS
    <3>1. n \div 10 \in Nat /\ n \div 10 <= n
      BY DivTen
    <3>2. A(n)[n \div 10] = A(n \div 10)[n \div 10]
      BY <1>1, <3>1, ApproxAgree
    <3>. QED  BY <3>1, <3>2
  <2>. QED  BY <2>1, <2>2, DBodyLocal
<1>3. W = [n \in Nat |-> DBody(W, n)]
  BY <1>2
<1>4. \E F : F = [n \in Nat |-> DBody(F, n)]
  BY <1>3
<1>. HIDE DEF W, A
<1>5. DigitSeq = [n \in Nat |-> DBody(DigitSeq, n)]
  BY <1>4 DEF DigitSeq, DBody
<1>. QED  BY <1>5
-----------------------------------------------------------------------------
(***************************************************************************)
(* Magnitude's accumulator.  MA(a, ds, j) says that a solves mag's        *)
(* definition on 0..j for the digits ds.                                   *)
(***************************************************************************)
MBody(a, ds, k) == IF k = 0 THEN 0 ELSE 10 * a[k - 1] + DigitVal(ds[k])

MA(a, ds, j) == a = [k \in 0..j |-> MBody(a, ds, k)]

LEMMA MAAt ==
    ASSUME NEW a, NEW ds, NEW j, MA(a, ds, j), NEW k \in 0..j
    PROVE  a[k] = MBody(a, ds, k)
  BY DEF MA

\* A solution on 0..j exists for every j: extend one on 0..j-1.
LEMMA MAExists ==
    ASSUME NEW ds, NEW j \in Nat
    PROVE  \E a : MA(a, ds, j)
<1>. DEFINE Bad == {i \in Nat : ~\E a : MA(a, ds, i)}
<1>. SUFFICES ASSUME Bad # {} PROVE FALSE
  OBVIOUS
<1>1. PICK j0 \in Bad : \A i \in Bad : j0 <= i
  BY LeastExists
<1>2. CASE j0 = 0
  <2>1. MA([k \in 0..0 |-> 0], ds, 0)
    BY DEF MA, MBody
  <2>. QED  BY <1>1, <1>2, <2>1
<1>3. CASE j0 > 0
  <2>1. j0 - 1 \notin Bad
    BY <1>1, <1>3
  <2>2. PICK b : MA(b, ds, j0 - 1)
    BY <1>3, <2>1
  <2>. DEFINE a == [k \in 0..j0 |-> IF k < j0 THEN b[k]
                                   ELSE 10 * b[j0 - 1] + DigitVal(ds[j0])]
  <2>3. ASSUME NEW k \in 0..j0 PROVE a[k] = MBody(a, ds, k)
    <3>1. CASE k < j0
      <4>1. b[k] = MBody(b, ds, k)
        BY <2>2, <3>1, MAAt
      <4>. QED  BY <3>1, <4>1 DEF MBody
    <3>2. CASE k = j0
      BY <1>3, <3>2 DEF MBody
    <3>. QED  BY <3>1, <3>2
  <2>4. MA(a, ds, j0)
    BY <2>3 DEF MA
  <2>. QED  BY <1>1, <2>4
<1>. QED  BY <1>1, <1>2, <1>3

\* Two solutions for the same digits agree.
LEMMA MAUnique ==
    ASSUME NEW ds, NEW j \in Nat, NEW a, NEW b, MA(a, ds, j), MA(b, ds, j)
    PROVE  \A k \in 0..j : a[k] = b[k]
<1>. DEFINE Bad == {k \in 0..j : a[k] # b[k]}
<1>. SUFFICES ASSUME Bad # {} PROVE FALSE
  OBVIOUS
<1>0. Bad \in SUBSET Nat
  OBVIOUS
<1>1. PICK k0 \in Bad : \A i \in Bad : k0 <= i
  BY <1>0, LeastExists
<1>2. a[k0] = MBody(a, ds, k0) /\ b[k0] = MBody(b, ds, k0)
  BY <1>1, MAAt
<1>3. k0 > 0 => a[k0 - 1] = b[k0 - 1]
  <2>. SUFFICES ASSUME k0 > 0 PROVE a[k0 - 1] = b[k0 - 1]
    OBVIOUS
  <2>1. k0 - 1 \in 0..j /\ k0 - 1 \notin Bad
    BY <1>1
  <2>. QED  BY <2>1
<1>4. MBody(a, ds, k0) = MBody(b, ds, k0)
  BY <1>3 DEF MBody
<1>. QED  BY <1>1, <1>2, <1>4

\* Magnitude is the last entry of any solution for the digits.
LEMMA MagnitudeIs ==
    ASSUME NEW S, NEW ds \in Seq(S), NEW a, MA(a, ds, Len(ds))
    PROVE  Magnitude(ds) = a[Len(ds)]
<1>. DEFINE mag == CHOOSE m : MA(m, ds, Len(ds))
<1>1. Magnitude(ds) = mag[Len(ds)]
  BY DEF Magnitude, MA, MBody
<1>2. MA(mag, ds, Len(ds))
  BY MAExists
<1>. HIDE DEF mag
<1>3. Len(ds) \in Nat
  OBVIOUS
<1>. QED  BY <1>1, <1>2, <1>3, MAUnique

\* The empty text has magnitude 0.
LEMMA MagEmpty == Magnitude(<<>>) = 0
<1>1. MA([k \in 0..0 |-> 0], <<>>, Len(<<>>))
  BY DEF MA, MBody
<1>. QED  BY <1>1, MagnitudeIs, EmptySeq

\* Appending a digit multiplies by ten and adds it (mpz_class's loop).
LEMMA MagAppend ==
    ASSUME NEW S, NEW ds \in Seq(S), NEW c \in S
    PROVE  Magnitude(Append(ds, c)) = 10 * Magnitude(ds) + DigitVal(c)
<1>. DEFINE L == Len(ds)
            e == Append(ds, c)
<1>1. e \in Seq(S) /\ Len(e) = L + 1 /\ e[L + 1] = c
      /\ \A k \in 1..L : e[k] = ds[k]
  BY AppendProperties
<1>0. L + 1 \in Nat
  OBVIOUS
<1>2. PICK a : MA(a, e, L + 1)
  BY <1>0, MAExists
<1>3. Magnitude(e) = 10 * a[L] + DigitVal(c)
  <2>1. Magnitude(e) = a[L + 1]
    BY <1>1, <1>2, MagnitudeIs
  <2>2. a[L + 1] = MBody(a, e, L + 1)
    BY <1>2, MAAt
  <2>. QED  BY <1>1, <2>1, <2>2 DEF MBody
<1>. DEFINE r == [k \in 0..L |-> a[k]]
<1>4. MA(r, ds, L)
  <2>1. ASSUME NEW k \in 0..L PROVE r[k] = MBody(r, ds, k)
    <3>1. a[k] = MBody(a, e, k)
      BY <1>2, MAAt
    <3>. QED  BY <1>1, <3>1 DEF MBody
  <2>. QED  BY <2>1 DEF MA
<1>5. Magnitude(ds) = a[L]
  BY <1>4, MagnitudeIs
<1>. QED  BY <1>3, <1>5
-----------------------------------------------------------------------------
(***************************************************************************)
(* The digits of a natural number.                                        *)
(***************************************************************************)
DigitChars == Range(Digit)

\* mpz_class reads each digit character back as its value.
LEMMA DigitValOf ==
    ASSUME NEW d \in 0..9
    PROVE  DigitVal(Digit[d + 1]) = d /\ Digit[d + 1] \in DigitChars
<1>1. \A e \in 0..9 : Digit[e + 1] = Digit[d + 1] => e = d
  BY DEF Digit
<1>2. Digit[d + 1] \in DigitChars
  BY DEF DigitChars, Range, Digit
<1>. QED  BY <1>1, <1>2 DEF DigitVal

\* The minus sign is no digit.
LEMMA MinusNoDigit == "-" \notin DigitChars
  BY DEF DigitChars, Range, Digit

\* get_str of n is a non-empty text of digits whose magnitude is n.
LEMMA DigitsOfNat ==
    ASSUME NEW n \in Nat
    PROVE  /\ DigitSeq[n] \in Seq(DigitChars)
           /\ DigitSeq[n] # <<>>
           /\ Magnitude(DigitSeq[n]) = n
<1>. DEFINE P(k) == /\ DigitSeq[k] \in Seq(DigitChars)
                    /\ DigitSeq[k] # <<>>
                    /\ Magnitude(DigitSeq[k]) = k
            Bad == {k \in Nat : ~P(k)}
<1>. SUFFICES ASSUME Bad # {} PROVE FALSE
  OBVIOUS
<1>1. PICK n0 \in Bad : \A k \in Bad : n0 <= k
  BY LeastExists
<1>2. CASE n0 < 10
  <2>. DEFINE x == Digit[n0 + 1]
  <2>0. n0 \in Nat /\ DigitSeq[n0] = DBody(DigitSeq, n0)
    BY <1>1, DigitSeqDef
  <2>1. DigitSeq[n0] = Append(<<>>, x)
    BY <1>2, <2>0 DEF DBody
  <2>2. x \in DigitChars /\ DigitVal(x) = n0
    BY <1>1, <1>2, DigitValOf
  <2>3. <<>> \in Seq(DigitChars)
    BY EmptySeq
  <2>4. Append(<<>>, x) \in Seq(DigitChars) /\ Append(<<>>, x) # <<>>
    BY <2>2, <2>3, AppendProperties
  <2>5. Magnitude(Append(<<>>, x)) = 10 * Magnitude(<<>>) + n0
    BY <2>2, <2>3, MagAppend
  <2>6. Magnitude(Append(<<>>, x)) = n0
    BY <1>1, <2>5, MagEmpty
  <2>. QED  BY <1>1, <2>1, <2>4, <2>6
<1>3. CASE n0 >= 10
  <2>. DEFINE j == n0 \div 10
              x == Digit[(n0 % 10) + 1]
  <2>1. j \in Nat /\ j < n0 /\ n0 % 10 \in 0..9 /\ n0 = 10 * j + (n0 % 10)
    BY <1>1, <1>3, DivTen
  <2>2. P(j)
    BY <1>1, <2>1
  <2>0. n0 \in Nat /\ DigitSeq[n0] = DBody(DigitSeq, n0)
    BY <1>1, DigitSeqDef
  <2>3. DigitSeq[n0] = Append(DigitSeq[j], x)
    BY <1>3, <2>0 DEF DBody
  <2>4. x \in DigitChars /\ DigitVal(x) = n0 % 10
    BY <2>1, DigitValOf
  <2>5. Append(DigitSeq[j], x) \in Seq(DigitChars) /\ Append(DigitSeq[j], x) # <<>>
    BY <2>2, <2>4, AppendProperties
  <2>6. Magnitude(Append(DigitSeq[j], x)) = 10 * j + (n0 % 10)
    BY <2>2, <2>4, MagAppend
  <2>. QED  BY <1>1, <2>1, <2>3, <2>5, <2>6
<1>. QED  BY <1>1, <1>2, <1>3
\* The digits of a text are all digit characters.
LEMMA AllDigits ==
    ASSUME NEW d \in Seq(DigitChars)
    PROVE  \A i \in DOMAIN d : d[i] \in Range(Digit)
  BY LenProperties DEF DigitChars

-----------------------------------------------------------------------------
(***************************************************************************)
(* Decimal round trip: for every integer n, mpz_class(n.get_str(), 10)    *)
(* reads back n.  This is what cborToVarIntVal needs of the text written  *)
(* by VarInt::toCBOR and stateToCBOR (Codec's RoundTrip on integers); TLC *)
(* checks it only for the few integers of MCCodec.                        *)
(***************************************************************************)
THEOREM DecimalRoundTrip == \A n \in Int : ParseDecimal(DecimalText(n)) = n
<1>. TAKE n \in Int
<1>1. CASE n >= 0
  <2>. DEFINE d == DigitSeq[n]
  <2>1. d \in Seq(DigitChars) /\ d # <<>> /\ Magnitude(d) = n
    BY <1>1, DigitsOfNat
  <2>2. DecimalText(n) = d
    BY <1>1 DEF DecimalText, DigitsOf
  <2>3. d[1] \in DigitChars
    BY <2>1, EmptySeq, ElementOfSeq
  <2>4. d[1] # "-"
    BY <2>3, MinusNoDigit
  <2>5. \A i \in DOMAIN d : d[i] \in Range(Digit)
    BY <2>1, AllDigits
  <2>. QED  BY <2>1, <2>2, <2>4, <2>5 DEF ParseDecimal
<1>2. CASE n < 0
  <2>. DEFINE m == -n
              d == DigitSeq[m]
              t == <<"-">> \o d
  <2>1. m \in Nat
    BY <1>2
  <2>2. d \in Seq(DigitChars) /\ d # <<>> /\ Magnitude(d) = m
    BY <2>1, DigitsOfNat
  <2>3. DecimalText(n) = t
    BY <1>2 DEF DecimalText, DigitsOf
  <2>4. t # <<>> /\ t[1] = "-" /\ Tail(t) = d
    BY <2>2
  <2>5. \A i \in DOMAIN d : d[i] \in Range(Digit)
    BY <2>2, AllDigits
  <2>6. ParseDecimal(t) = -Magnitude(d)
    BY <2>2, <2>4, <2>5 DEF ParseDecimal
  <2>. QED  BY <2>2, <2>3, <2>6
<1>. QED  BY <1>1, <1>2
=============================================================================
