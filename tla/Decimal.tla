------------------------------- MODULE Decimal -------------------------------
(***************************************************************************)
(* Decimal text of integers, as the codec writes and reads it             *)
(* (VarInt::toCBOR and stateToCBOR write Integer::get_str(), cborToVarIntVal *)
(* reads it with mpz_class(s, 10)).  A text is a sequence of one-character *)
(* strings: an optional "-" and the digits, most significant first.       *)
(*                                                                         *)
(* The recursions are recursive functions, not RECURSIVE operators, so   *)
(* that DecimalProofs can reason about them.                              *)
(***************************************************************************)
EXTENDS Integers, Sequences, Functions

CONSTANT Invalid    \* what mpz_class(s, 10) makes of a text s that is no number

Digit == <<"0", "1", "2", "3", "4", "5", "6", "7", "8", "9">>
DigitVal(c) == CHOOSE d \in 0..9 : Digit[d + 1] = c

\* get_str of a natural number: the digits of n \div 10, then the last one.
DigitSeq[n \in Nat] ==
    IF n < 10 THEN <<Digit[n + 1]>>
    ELSE Append(DigitSeq[n \div 10], Digit[(n % 10) + 1])

DigitsOf(n) == DigitSeq[n]

DecimalText(n) == IF n < 0 THEN <<"-">> \o DigitsOf(-n) ELSE DigitsOf(n)

\* mpz_class's accumulation of the digits, left to right.
Magnitude(ds) ==
    LET mag[k \in 0..Len(ds)] ==
            IF k = 0 THEN 0 ELSE 10 * mag[k - 1] + DigitVal(ds[k])
    IN  mag[Len(ds)]

\* mpz_class(s, 10): an optional sign and at least one digit, else Invalid.
ParseDecimal(s) ==
    LET neg == s /= <<>> /\ s[1] = "-"
        ds  == IF neg THEN Tail(s) ELSE s
    IN  IF ds = <<>> \/ \E i \in DOMAIN ds : ds[i] \notin Range(Digit)
        THEN Invalid
        ELSE IF neg THEN -Magnitude(ds) ELSE Magnitude(ds)
=============================================================================
