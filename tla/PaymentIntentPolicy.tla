------------------------- MODULE PaymentIntentPolicy -------------------------
(***************************************************************************)
(* StellarPaymentIntentPolicy inside ActionExecutor: the policy evaluates a *)
(* snapshot of the payload, awaits, binds the caller's own object to that   *)
(* snapshot and freezes it; later the executor runs the tool on the object. *)
(* The caller may change the object, and anyone the prototype it inherits   *)
(* from, whenever they do not run.                                          *)
(***************************************************************************)
EXTENDS ActionExecutor, PaymentPreparation

CONSTANTS Objects,    \* payload objects
          Payloads,   \* what they may hold
          Prototypes, \* what Object.prototype may hold of the optional fields
          Missing,    \* no own field: it is inherited
          Opaque,     \* a payload of accessors, a proxy, an array ...
          Rules       \* wallet policies: a function of the configured wallets

Fields == <<"wallet", "amount", "recipient", "code", "issuer", "memo">>
Optional == {"recipient", "code", "issuer", "memo"}

ASSUME PaymentValues ==
  /\ None \notin Objects /\ None \notin Payloads /\ Opaque \notin Payloads
  /\ Missing # Undefined
  /\ \A p \in Payloads : /\ DOMAIN p = {"wallet", "amount", "recipient", "code", "issuer", "memo"}
                         /\ p.wallet # Missing /\ p.amount # Missing
                         /\ p.amount \in AmountsWritten \union {Malformed}

VARIABLES payload,   \* object -> its fields
          frozen,    \* objects that are frozen
          prototype, \* Object.prototype
          call       \* slot -> object, snapshot, verdict and outcome of its call

payVars == <<execVars, payload, frozen, prototype, call>>

Called(o) == [obj |-> o, snap |-> None, allowed |-> FALSE, done |-> None]
NoCall == Called(None)

PayInit ==
  /\ ExecInit
  /\ payload \in [Objects -> Payloads \union {Opaque}]
  /\ frozen = {}
  /\ prototype \in Prototypes
  /\ call = [x \in Execs |-> NoCall]

-----------------------------------------------------------------------------
\* Own data fields only: what is missing is undefined.
Own(p) == [f \in DOMAIN p |-> IF p[f] = Missing THEN Undefined ELSE p[f]]

\* What the tool sees: what is missing is inherited.
Looked(p) == [f \in DOMAIN p |-> IF p[f] = Missing THEN prototype[f] ELSE p[f]]

\* A wallet's rule, on a PaymentPrepResult.
Authorized(r) ==
  /\ r.wallet \in DOMAIN Rules
  /\ LET rule == Rules[r.wallet] IN
     /\ rule.max # None => r.stroops <= rule.max
     /\ rule.recipients # None => r.recipient \in rule.recipients
     /\ rule.requireRecipient => r.recipient # Undefined
     /\ rule.assets # None => <<r.code, r.issuer>> \in rule.assets
     /\ rule.requireMemo => r.memo \notin {Undefined, EmptyMemo}

-----------------------------------------------------------------------------
\* execute() with a payload, or of another tool (None).
Request(x, t, o) ==
  /\ Execute(x, t)
  /\ call' = [call EXCEPT ![x] = Called(o)]
  /\ UNCHANGED <<payload, frozen, prototype>>

\* Not a payment: not this policy's business.
PassThrough(x) ==
  /\ exec[x].pc = "policy" /\ call[x].obj = None
  /\ call' = [call EXCEPT ![x].allowed = TRUE]
  /\ UNCHANGED <<execVars, payload, frozen, prototype>>

\* snapshotPaymentPayload(), and the tool on the snapshot.
Snapshot(x) ==
  LET p == payload[call[x].obj] IN
  /\ exec[x].pc = "policy" /\ call[x].obj # None /\ call[x].snap = None
  /\ p # Opaque
  /\ Valid(Own(p))
  /\ call' = [call EXCEPT ![x].snap = Own(p)]
  /\ UNCHANGED <<execVars, payload, frozen, prototype>>

\* Mutation of Bound: the object is sealed whatever it has become.
BoundBlindly(o, p) == payload[o] # Opaque

\* Every field still is what was evaluated, and what is missing can be added.
Bound(o, p) ==
  /\ payload[o] # Opaque
  /\ Own(payload[o]) = p
  /\ o \in frozen => \A f \in DOMAIN p : payload[o][f] # Missing

\* What was missing hides the prototype.
Sealed(p) == Own(p)

\* A binding that fails has hidden the prototype up to the field that changed.
PartlySealed(o, p) ==
  LET same(i) == Own(payload[o])[Fields[i]] = p[Fields[i]]
      reached == {Fields[i] : i \in {j \in DOMAIN Fields : o \notin frozen /\ \A k \in 1 .. j : same(k)}}
  IN [f \in DOMAIN payload[o] |-> IF f \in reached THEN Own(payload[o])[f] ELSE payload[o][f]]

\* The continuation of evaluate(): rule, binding, freeze and verdict in one go.
Authorize(x) ==
  LET o == call[x].obj IN
  /\ exec[x].pc = "policy" /\ call[x].snap # None /\ ~call[x].allowed
  /\ Authorized(Result(exec[x].task, call[x].snap))
  /\ Bound(o, call[x].snap)
  /\ payload' = [payload EXCEPT ![o] = Sealed(@)]
  /\ frozen' = frozen \union {o}
  /\ call' = [call EXCEPT ![x].allowed = TRUE]
  /\ UNCHANGED <<execVars, prototype>>

\* The continuation of evaluate(), when the object has changed.
Disown(x) ==
  LET o == call[x].obj IN
  /\ call[x].snap # None /\ ~call[x].allowed
  /\ Authorized(Result(exec[x].task, call[x].snap))
  /\ ~Bound(o, call[x].snap)
  /\ Refuse(x)
  /\ payload' = [payload EXCEPT ![o] = IF @ = Opaque THEN Opaque ELSE PartlySealed(o, call[x].snap)]
  /\ call' = [call EXCEPT ![x] = NoCall]
  /\ UNCHANGED <<frozen, prototype>>

\* The executor's continuation: the budget is charged and the tool runs.
Prepare(x) ==
  LET o == call[x].obj IN
  /\ call[x].allowed
  /\ Invoke(x)
  /\ call' = [call EXCEPT ![x].done = IF o = None \/ ~Valid(Looked(payload[o])) THEN None
                                      ELSE Result(exec[x].task, Looked(payload[o]))]
  /\ UNCHANGED <<payload, frozen, prototype>>

\* Another denial, a spent budget, or the end of the tool.
Leave(x) ==
  /\ Refuse(x) \/ ToolSettles(x)
  /\ call' = [call EXCEPT ![x] = NoCall]
  /\ UNCHANGED <<payload, frozen, prototype>>

ResetBudget(t) == Reset(t) /\ UNCHANGED <<payload, frozen, prototype, call>>
ResetBudgets == ResetAll /\ UNCHANGED <<payload, frozen, prototype, call>>

-----------------------------------------------------------------------------
\* Meanwhile: the caller changes its object, freezes it, or takes a new one, and
\* a library changes Object.prototype.

Change(o, p) ==
  /\ o \notin frozen
  /\ payload' = [payload EXCEPT ![o] = p]
  /\ UNCHANGED <<execVars, frozen, prototype, call>>

Freeze(o) ==
  /\ frozen' = frozen \union {o}
  /\ UNCHANGED <<execVars, payload, prototype, call>>

NewObject(o, p) ==
  /\ \A x \in Execs : call[x].obj # o
  /\ payload' = [payload EXCEPT ![o] = p]
  /\ frozen' = frozen \ {o}
  /\ UNCHANGED <<execVars, prototype, call>>

Pollute(q) ==
  /\ prototype' = q
  /\ UNCHANGED <<execVars, payload, frozen, call>>

PayNext ==
  \/ \E x \in Execs, t \in Tasks, o \in Objects \union {None} : Request(x, t, o)
  \/ \E x \in Execs : PassThrough(x) \/ Snapshot(x) \/ Authorize(x) \/ Disown(x) \/ Prepare(x) \/ Leave(x)
  \/ \E t \in Tasks : ResetBudget(t)
  \/ ResetBudgets
  \/ \E o \in Objects, p \in Payloads \union {Opaque} : Change(o, p) \/ NewObject(o, p)
  \/ \E o \in Objects : Freeze(o)
  \/ \E q \in Prototypes : Pollute(q)

PaySpec == PayInit /\ [][PayNext]_payVars

-----------------------------------------------------------------------------
(* Properties *)

\* The tool prepares the very payment the policy evaluated, within the rule of
\* its wallet, although the caller holds the payload during two awaits and the
\* tool reads it again, through its prototype.
PreparedAsAuthorized ==
  \A x \in Execs : exec[x].pc = "tool" /\ call[x].obj # None =>
    /\ call[x].done = Result(exec[x].task, call[x].snap)
    /\ Authorized(call[x].done)

\* Two preparations, of whatever calls, share a stub if and only if they are the
\* same payment of the same task, however its amount is spelled: as text, or as a
\* number.  Of numbers too large to tell two stroops apart it is the amount that
\* is prepared that counts.
Identity(x) == <<exec[x].task, call[x].done.wallet, call[x].done.recipient, call[x].done.code,
                 call[x].done.issuer, call[x].done.memo>>
AmountsAgree(x, y) ==
  LET a == call[x].snap.amount
      b == call[y].snap.amount
  IN IF Exact(a) /\ Exact(b) THEN SameAmount(a, b) ELSE call[x].done.stroops = call[y].done.stroops
StubIdentifiesPayment ==
  \A x, y \in Execs : call[x].done # None /\ call[y].done # None =>
    (call[x].done.stub = call[y].done.stub <=> Identity(x) = Identity(y) /\ AmountsAgree(x, y))
=============================================================================
