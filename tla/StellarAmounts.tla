--------------------------- MODULE StellarAmounts ---------------------------
(***************************************************************************)
(* How wallet.prepare_payment reads an amount: text is exact, a JavaScript  *)
(* number is the binary fraction nearest to what its author wrote.  Doubles *)
(* have Precision = 53 and Stellar amounts Decimals = 7; the ratio of the   *)
(* two is what decides, so smaller ones show the same cases.                *)
(***************************************************************************)
EXTENDS Integers

CONSTANTS Precision,  \* significant bits of a Number
          Decimals,   \* fractional digits of a Stellar amount
          MaxStroops, \* MAX_STELLAR_AMOUNT_STROOPS
          Malformed   \* an amount or text that is no decimal

\* b to the n: a recursive function, so that proofs can unroll it.
Power(b, n) == LET p[k \in Nat] == IF k = 0 THEN 1 ELSE b * p[k - 1] IN p[n]

Scale == Power(10, Decimals) \* STROOPS_PER_UNIT

\* Doubles hold every whole Stellar amount exactly.
ASSUME AmountRange ==
  /\ Precision \in Nat \ {0} /\ Decimals \in Nat \ {0} /\ MaxStroops \in Nat
  /\ MaxStroops < Power(2, Precision) * Scale

\* An amount as written: units / 10^digits, in a string or as a number.
Written(form, units, digits) == [form |-> form, units |-> units, digits |-> digits]
Decimal(units, digits) == Written("text", units, digits)

-----------------------------------------------------------------------------
\* Numbers: m * 2^e with Precision significant bits.

Up(e) == IF e > 0 THEN Power(2, e) ELSE 1
Numerator(f) == f.m * Up(f.e)
Denominator(f) == Up(-f.e)

ExponentOf(a, b) ==
  LET low == Power(2, Precision - 1) * b
  IN IF a >= 2 * low
     THEN CHOOSE e \in 1 .. a : low * Power(2, e) <= a /\ a < 2 * low * Power(2, e)
     ELSE -(CHOOSE q \in 0 .. Precision + b : low <= a * Power(2, q) /\ a * Power(2, q) < 2 * low)

\* The quotient to the nearest significand, ties to the even one.
Rounded(num, den, e) ==
  LET m == num \div den
      r == num % den
  IN [m |-> IF 2 * r > den \/ (2 * r = den /\ m % 2 = 1) THEN m + 1 ELSE m, e |-> e]

Carried(f) == IF f.m = Power(2, Precision) THEN [m |-> Power(2, Precision - 1), e |-> f.e + 1] ELSE f

\* The Number nearest to a / b.
Nearest(a, b) == LET e == ExponentOf(a, b) IN Carried(Rounded(a * Up(-e), b * Up(e), e))

ReadBack(text) == Nearest(text.units, Power(10, text.digits)) \* Number(text)

Whole(f) == Numerator(f) % Denominator(f) = 0
SafeInteger(f) == Whole(f) /\ Numerator(f) < Power(2, Precision) * Denominator(f)
Product(f) == Nearest(Numerator(f) * Scale, Denominator(f)) \* amount * 1e7

\* String(f): the fewest digits that read back as f, the closest of them.
\* Digits beyond Decimals are refused anyway.
Candidates(f, k) ==
  LET q == (Numerator(f) * Power(10, k)) \div Denominator(f)
  IN {u \in {q, q + 1} \ {0} : Nearest(u, Power(10, k)) = f}
Distance(f, u, k) ==
  LET d == Numerator(f) * Power(10, k) - u * Denominator(f) IN IF d < 0 THEN -d ELSE d
Closest(f, k, S) == CHOOSE u \in S : \A v \in S : Distance(f, u, k) <= Distance(f, v, k)
Fewest(K) == CHOOSE k \in K : \A j \in K : k <= j
WithDigits(f, K) ==
  IF K = {} THEN Malformed
  ELSE LET k == Fewest(K) IN Decimal(Closest(f, k, Candidates(f, k)), k)
Shortest(f) == WithDigits(f, {k \in 0 .. Decimals : Candidates(f, k) # {}})

\* toFixed(7), ties away from zero.
Fixed(f) ==
  Decimal((2 * Numerator(f) * Scale + Denominator(f)) \div (2 * Denominator(f)), Decimals)

-----------------------------------------------------------------------------
\* normalizeNumericAmount() and normalizeStellarAmount().

\* String() writes what is below 1e-6 with an exponent.
Exponential(f) == Numerator(f) * Power(10, Decimals - 1) < Denominator(f)

\* Mutation of NumberText: always the fixed notation.
NumberTextFixed(f) ==
  IF ~Whole(f) /\ ~SafeInteger(Product(f)) THEN Malformed ELSE Fixed(f)

NumberText(f) ==
  IF ~Whole(f) /\ ~SafeInteger(Product(f)) THEN Malformed
  ELSE IF ~Exponential(f) THEN Shortest(f)
  ELSE IF Fixed(f).units > 0 /\ ReadBack(Fixed(f)) = f THEN Fixed(f)
  ELSE Malformed

TextOf(a) ==
  IF a = Malformed \/ a.form = "text" THEN a
  ELSE IF a.units = 0 THEN Malformed
  ELSE NumberText(ReadBack(a))

\* No more fractional digits than a stroop has; 0 stands for a refused amount.
InRange(s) == IF s <= MaxStroops THEN s ELSE 0
Parsed(text) ==
  IF text = Malformed \/ text.digits > Decimals THEN 0
  ELSE InRange(text.units * Power(10, Decimals - text.digits))

Stroops(a) == Parsed(TextOf(a))

-----------------------------------------------------------------------------
\* What the properties say of an amount a.

AmountsWritten == [form : {"text", "number"}, units : Nat, digits : Nat]

IsNumber(a) == a # Malformed /\ a.form = "number" /\ a.units > 0

\* What is prepared is what was written ...
KeepsItsValue(a) == Stroops(a) * Power(10, a.digits) = a.units * Scale
\* ... or at least what the program was given.
ReadsBack(a) == ReadBack(Decimal(Stroops(a), Decimals)) = ReadBack(a)

\* Numbers of this size are no further apart than stroops.
StroopsApart(a) == \E p \in 0 .. Precision :
  /\ a.units < Power(2, p) * Power(10, a.digits)
  /\ Power(2, p) * Scale <= Power(2, Precision)

\* Text, and a number small enough for the digits of a stroop to survive.
Exact(a) == IsNumber(a) => StroopsApart(a) /\ a.digits <= Decimals

SameAmount(a, b) == a.units * Power(10, b.digits) = b.units * Power(10, a.digits)
=============================================================================
