------------------------- MODULE PaymentPreparation -------------------------
(***************************************************************************)
(* The tool wallet.prepare_payment: a pure function of the task and of the  *)
(* payment's six fields.  Names and texts are values; what the tool asks of *)
(* them (blank, account checksum, length of a memo) are sets of values.     *)
(***************************************************************************)
EXTENDS Sequences, StellarAmounts

CONSTANTS Undefined, \* a field that is there and says nothing
          Blank,     \* a name of white space
          XLM,       \* the native asset's code
          Codes,     \* asset codes of 1 to 12 alphanumeric characters
          Accounts,  \* account IDs whose checksum is right
          Memos,     \* memos of at most 28 bytes; EmptyMemo is one of them
          EmptyMemo

\* assetCode ?? "XLM"
Code(p) == IF p.code = Undefined THEN XLM ELSE p.code

\* Only the native asset has no issuer.
ValidAsset(p) == /\ Code(p) \in Codes
                 /\ IF Code(p) = XLM THEN p.issuer = Undefined ELSE p.issuer \in Accounts

Valid(p) ==
  /\ p.wallet # Blank /\ p.recipient # Blank
  /\ ValidAsset(p)
  /\ p.memo \in Memos \union {Undefined}
  /\ Stroops(p.amount) > 0

\* Mutation of Stub: the payment is identified by the asset's code alone.
StubByCode(t, p) == <<t, p.wallet, p.recipient, Code(p), Stroops(p.amount), p.memo>>

\* createTransactionStubId(): the hash is taken to be injective.  Metadata is no
\* part of it, and native payments keep the form without an issuer.
Stub(t, p) ==
  LET native == <<t, p.wallet, p.recipient, Code(p), Stroops(p.amount), p.memo>>
  IN IF p.issuer = Undefined THEN native ELSE Append(native, p.issuer)

\* A PaymentPrepResult; only for a valid payment.
Result(t, p) ==
  [wallet |-> p.wallet, stroops |-> Stroops(p.amount), recipient |-> p.recipient,
   code |-> Code(p), issuer |-> p.issuer, memo |-> p.memo, stub |-> Stub(t, p)]
=============================================================================
