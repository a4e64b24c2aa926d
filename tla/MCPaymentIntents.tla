-------------------------- MODULE MCPaymentIntents --------------------------
(***************************************************************************)
(* Payments through policy and executor, and every amount one can write: a  *)
(* behaviour is of one level, the other one rests.                          *)
(***************************************************************************)
EXTENDS PaymentIntentPolicy, PaymentAmounts

CONSTANTS w1, w2, r1, r2, i1, i2, USD, m1

VARIABLE level

allVars == <<payVars, level, amount>>

\* Native payments of one amount in three spellings, one of them too large, one
\* without recipient or memo, and two assets of one code.
Native(a, c) == [wallet |-> w1, amount |-> a, recipient |-> r1, code |-> c, issuer |-> Missing,
                 memo |-> m1]
Issued(i) == [wallet |-> w2, amount |-> Decimal(1, 0), recipient |-> Undefined, code |-> USD,
              issuer |-> i, memo |-> Missing]
SamplePayloads ==
  {Native(Decimal(1, 0), Missing), Native(Written("number", 10, 1), XLM), Native(Decimal(151, 2), XLM),
   [Issued(Missing) EXCEPT !.code = Missing, !.recipient = Missing], Issued(i1), Issued(i2)}

SamplePrototypes ==
  LET empty == [f \in Optional |-> Undefined]
  IN {empty, [empty EXCEPT !.recipient = r2]}

Unruled == [max |-> None, recipients |-> None, assets |-> None, requireRecipient |-> FALSE,
            requireMemo |-> FALSE]
SampleRules == [w \in {w1, w2} |->
  IF w = w2 THEN Unruled
  ELSE [max |-> 150, recipients |-> {r1}, assets |-> {<<XLM, Undefined>>},
        requireRecipient |-> TRUE, requireMemo |-> TRUE]]

SampleAmounts == {Written(form, units, digits) :
                   form \in {"text", "number"}, units \in 0 .. 4200, digits \in 0 .. 3}

\* Bounds of the payments level: no quota, one invocation per task between
\* resets, and an object that no call holds and nobody has frozen is empty.
PaymentBound ==
  /\ \A t \in Tasks : used[t] <= 1
  /\ \A o \in Objects \ frozen : (\A x \in Execs : call[x].obj # o) => payload[o] = Opaque

LevelsInit ==
  /\ PayInit
  /\ payload = [o \in Objects |-> Opaque]
  /\ AmountInit
  /\ \/ level = "payments" /\ ~quota
     \/ level = "budgets" /\ prototype = [f \in Optional |-> Undefined]
     \/ level = "amounts" /\ prototype = [f \in Optional |-> Undefined] /\ ~quota

Levels ==
  /\ LevelsInit
  /\ [][ /\ UNCHANGED level
         /\ \/ level = "payments" /\ PayNext /\ PaymentBound' /\ UNCHANGED amount
            \/ level = "budgets" /\ PayNext /\ UNCHANGED <<payload, frozen, prototype, amount>>
            \/ level = "amounts" /\ AmountNext /\ UNCHANGED payVars ]_allVars

Symmetry == Permutations(Tasks) \union Permutations(Execs) \union Permutations(Objects)
=============================================================================
