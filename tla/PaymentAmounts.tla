--------------------------- MODULE PaymentAmounts ---------------------------
(***************************************************************************)
(* Payments are given their amounts one after the other; Malformed is also  *)
(* the amount when there is none.                                           *)
(***************************************************************************)
EXTENDS StellarAmounts

CONSTANT Amounts \* what may be written

ASSUME AmountValues == Amounts \subseteq AmountsWritten

VARIABLE amount

Given == amount = Malformed /\ amount' \in Amounts
Taken == amount # Malformed /\ amount' = Malformed

AmountInit == amount = Malformed
AmountNext == Given \/ Taken

AmountSpec == AmountInit /\ [][AmountNext]_amount

-----------------------------------------------------------------------------
(* Properties *)

\* The amount of a JavaScript number that is prepared reads back as that very
\* number, and below the point where doubles are further apart than stroops it
\* is what was written; text always is.
AmountsKeepTheirValue ==
  Stroops(amount) > 0 =>
    /\ IsNumber(amount) => ReadsBack(amount)
    /\ Exact(amount) => KeepsItsValue(amount)

\* A fractional number that is accepted is not silently rounded to another
\* amount: normalizeNumericAmount() is to refuse what it cannot keep.
FractionsAreNotRounded ==
  IsNumber(amount) /\ amount.digits <= Decimals /\ ~Whole(ReadBack(amount)) /\ Stroops(amount) > 0
    => KeepsItsValue(amount)
=============================================================================
