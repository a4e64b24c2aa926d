----------------------------- MODULE TaskRunner -----------------------------
(***************************************************************************)
(* TaskRunner.run() and TaskRunner.reconcileUnknownOutcome() of several     *)
(* runners, each in a process of its own, over one shared claim store.     *)
(*                                                                         *)
(* A step is what JavaScript runs between two awaits.  A store operation   *)
(* takes two steps: the store performs it (atomic, see TaskClaimStore),     *)
(* later the awaiting function resumes with its answer.  Every claim that  *)
(* succeeds starts one attempt, named by the generation of the claim.      *)
(***************************************************************************)
EXTENDS TaskClaimStore

CONSTANTS Runners,    \* one TaskRunner per process
          Calls,      \* slots for concurrent run() invocations
          Recs,       \* slots for concurrent reconciliations
          Reserving,  \* TRUE: run() and reconcile come through AgentRuntime
          HasTimeout, \* TRUE: the runner has a timeoutMs
          OwnerEnded  \* TRUE: the authority approves only once the run() that
                      \* owns the claim is over, not just its tool invocation

ASSUME FlagsBoolean == {Reserving, HasTimeout, OwnerEnded} \subseteq BOOLEAN

VARIABLES
  call,       \* slot -> run() invocation
  rec,        \* slot -> reconcileUnknownOutcome() invocation
  marker,     \* runner -> unknownOutcomeTaskIds
  active,     \* runner -> activeExecutions: task -> attempt or None
  att,        \* generation -> its attempt: state, task and runner
  applied,    \* attempts whose external effect happened
  recorded,   \* attempts whose result memoryStore.append made durable
  stranded,   \* attempts whose claim the code deliberately left behind
  reconciled  \* generations a reconciliation receipt was issued for

vars == <<claims, issued, call, rec, marker, active, att, applied, recorded,
          stranded, reconciled>>

CallPcs == {"idle", "has", "hasDone", "claim", "claimDone", "exec", "append",
            "release", "released"}
RecPcs == {"idle", "inspect", "verify", "decided", "free", "freed"}
\* An attempt is "claimed" until its run() resumes and starts the tool, and
\* "orphan" when the process died under it but its request may still land.
Live == {"claimed", "running", "orphan"}
AttStates == Live \union {"unused", "ended"}

Call == [pc : CallPcs, runner : Runners \union {None}, task : Tasks \union {None},
         gen : Gens \union {None}, ok : BOOLEAN]
Rec == [pc : RecPcs, runner : Runners \union {None}, task : Tasks \union {None},
        gen : Gens \union {None}]
Attempt == [st : AttStates, runner : Runners \union {None}, task : Tasks \union {None}]

\* A slot nobody uses and a generation nobody claimed under.
NoCall == [pc |-> "idle", runner |-> None, task |-> None, gen |-> None, ok |-> FALSE]
NoRec == [pc |-> "idle", runner |-> None, task |-> None, gen |-> None]
NoAttempt == [st |-> "unused", task |-> None, runner |-> None]

\* A run() owns a claim from the successful claim() to the end of its cleanup.
Owns(k) == \/ k.pc \in {"exec", "append", "release", "released"}
           \/ k.pc = "claimDone" /\ k.ok

CallOK(k) == /\ k.pc # "idle" => k.runner \in Runners /\ k.task \in Tasks
             /\ Owns(k) <=> k.gen \in Gens
RecOK(k) == /\ k.pc # "idle" => k.runner \in Runners /\ k.task \in Tasks
            /\ k.pc \notin {"idle", "inspect"} <=> k.gen \in Gens
AttemptOK(a) == a.st # "unused" => a.runner \in Runners /\ a.task \in Tasks

CallsOK == call \in [Calls -> Call] /\ \A c \in Calls : CallOK(call[c])
RecsOK == rec \in [Recs -> Rec] /\ \A q \in Recs : RecOK(rec[q])
AttemptsOK == att \in [Gens -> Attempt] /\ \A g \in Gens : AttemptOK(att[g])

TypeOK ==
  /\ StoreTypeOK
  /\ CallsOK /\ RecsOK /\ AttemptsOK
  /\ marker \in [Runners -> SUBSET Tasks]
  /\ active \in [Runners -> [Tasks -> Gens \union {None}]]
  /\ applied \subseteq Gens /\ recorded \subseteq Gens
  /\ stranded \subseteq Gens /\ reconciled \subseteq Gens

Init ==
  /\ StoreInit
  /\ call = [c \in Calls |-> NoCall]
  /\ rec = [q \in Recs |-> NoRec]
  /\ att = [g \in Gens |-> NoAttempt]
  /\ marker = [r \in Runners |-> {}]
  /\ active = [r \in Runners |-> [t \in Tasks |-> None]]
  /\ applied = {} /\ recorded = {} /\ stranded = {} /\ reconciled = {}

-----------------------------------------------------------------------------
\* Small steps shared by the handlers.

SetCall(c, k) == call' = [call EXCEPT ![c] = k]
Goto(c, pc) == SetCall(c, [call[c] EXCEPT !.pc = pc])
Finish(c) == SetCall(c, NoCall)

SetRec(q, k) == rec' = [rec EXCEPT ![q] = k]
RecGoto(q, pc) == SetRec(q, [rec[q] EXCEPT !.pc = pc])
RecFinish(q) == SetRec(q, NoRec)

SetAttempt(g, a) == att' = [att EXCEPT ![g] = a]
AttemptOf(c, st) == [st |-> st, task |-> call[c].task, runner |-> call[c].runner]

Mark(r, t) == marker' = [marker EXCEPT ![r] = @ \union {t}]
Unmark(r, t) == marker' = [marker EXCEPT ![r] = @ \ {t}]

\* AgentRuntime's reservation: from executeTask() until run() has ended and
\* the tool invocation it started has settled.
Reserved(r, t) ==
  \/ \E c \in Calls : call[c].pc # "idle" /\ call[c].runner = r /\ call[c].task = t
  \/ active[r][t] # None

attemptVars == <<att, active, applied, recorded, stranded, reconciled>>

-----------------------------------------------------------------------------
\* run()

\* A marker sends the call to the durable authority first.
RunStart(c, r, t) ==
  /\ call[c].pc = "idle"
  /\ Reserving => ~Reserved(r, t)
  /\ SetCall(c, [pc |-> IF t \in marker[r] THEN "has" ELSE "claim",
                 runner |-> r, task |-> t, gen |-> None, ok |-> FALSE])
  /\ UNCHANGED <<storeVars, rec, marker, attemptVars>>

StoreHas(c) ==
  /\ call[c].pc = "has"
  /\ SetCall(c, [call[c] EXCEPT !.pc = "hasDone", !.ok = Has(call[c].task)])
  /\ UNCHANGED <<storeVars, rec, marker, attemptVars>>

HasResumes(c) ==
  /\ call[c].pc = "hasDone"
  /\ IF call[c].ok
     THEN Finish(c) /\ UNCHANGED marker
     ELSE Goto(c, "claim") /\ Unmark(call[c].runner, call[c].task)
  /\ UNCHANGED <<storeVars, rec, attemptVars>>

\* A store read or claim that throws ends run() and changes nothing.
StoreThrows(c) ==
  /\ call[c].pc \in {"has", "claim"}
  /\ Finish(c)
  /\ UNCHANGED <<storeVars, rec, marker, attemptVars>>

StoreClaims(c, g) ==
  /\ call[c].pc = "claim"
  /\ ClaimAs(call[c].task, g)
  /\ SetCall(c, [call[c] EXCEPT !.pc = "claimDone", !.ok = TRUE, !.gen = g])
  /\ SetAttempt(g, AttemptOf(c, "claimed"))
  /\ UNCHANGED <<rec, marker, active, applied, recorded, stranded, reconciled>>

StoreRefusesClaim(c) ==
  /\ call[c].pc = "claim"
  /\ Has(call[c].task)
  /\ SetCall(c, [call[c] EXCEPT !.pc = "claimDone", !.ok = FALSE])
  /\ UNCHANGED <<storeVars, rec, marker, attemptVars>>

\* With the claim in hand the tool starts at once and becomes the runner's
\* active execution of the task; a refusal leaves the marker.
ClaimResumes(c) ==
  /\ call[c].pc = "claimDone"
  /\ IF call[c].ok
     THEN /\ SetAttempt(call[c].gen, AttemptOf(c, "running"))
          /\ active' = [active EXCEPT ![call[c].runner][call[c].task] = call[c].gen]
          /\ Goto(c, "exec")
          /\ UNCHANGED marker
     ELSE /\ Mark(call[c].runner, call[c].task)
          /\ Finish(c)
          /\ UNCHANGED <<att, active>>
  /\ UNCHANGED <<storeVars, rec, applied, recorded, stranded, reconciled>>

\* Mutation of Timeout: the deadline is cleaned up like a rejection.
TimeoutReleases(c) ==
  /\ HasTimeout
  /\ call[c].pc = "exec"
  /\ Goto(c, "release")
  /\ UNCHANGED <<storeVars, rec, marker, attemptVars>>

\* Mutation of Timeout: the deadline marks the task but run() keeps waiting.
TimeoutWaits(c) ==
  /\ HasTimeout
  /\ call[c].pc = "exec"
  /\ Mark(call[c].runner, call[c].task)
  /\ stranded' = stranded \union {call[c].gen}
  /\ UNCHANGED <<storeVars, call, rec, active, att, applied, recorded, reconciled>>

\* The deadline passes while the tool still runs: run() rejects, the tool goes on.
Timeout(c) ==
  /\ HasTimeout
  /\ call[c].pc = "exec"
  /\ Mark(call[c].runner, call[c].task)
  /\ stranded' = stranded \union {call[c].gen}
  /\ Finish(c)
  /\ UNCHANGED <<storeVars, rec, active, att, applied, recorded, reconciled>>

\* The settlement callback forgets the execution if it is still the active one.
Deactivate(r, t, g) ==
  active' = IF active[r][t] = g THEN [active EXCEPT ![r][t] = None] ELSE active

ToolSettles(g) ==
  /\ att[g].st = "running"
  /\ SetAttempt(g, [att[g] EXCEPT !.st = "ended"])
  /\ Deactivate(att[g].runner, att[g].task, g)

Awaits(c, g) == call[c].pc = "exec" /\ call[c].gen = g

ToolResolves(g) ==
  /\ ToolSettles(g)
  /\ call' = [c \in Calls |-> IF Awaits(c, g) THEN [call[c] EXCEPT !.pc = "append"]
                                             ELSE call[c]]
  /\ UNCHANGED <<storeVars, rec, marker, applied, recorded, stranded, reconciled>>

\* Mutation of AfterRejection: no rejection gives the claim back.
AfterRejectionKeeps(c) == NoCall

\* Where the catch block of run() sends a rejected call: an ordinary rejection
\* gives the claim back, unless the runner has marked the task as unknown.
AfterRejection(c) ==
  IF call[c].task \in marker[call[c].runner]
  THEN NoCall
  ELSE [call[c] EXCEPT !.pc = "release"]

\* A tool (or policy, or budget guard) that rejects has applied nothing: the
\* contract behind "ordinary tool rejection" being retryable.
ToolRejects(g) ==
  /\ g \notin applied
  /\ ToolSettles(g)
  /\ call' = [c \in Calls |-> IF Awaits(c, g) THEN AfterRejection(c) ELSE call[c]]
  /\ UNCHANGED <<storeVars, rec, marker, applied, recorded, stranded, reconciled>>

AppendSucceeds(c) ==
  /\ call[c].pc = "append"
  /\ recorded' = recorded \union {call[c].gen}
  /\ Goto(c, "release")
  /\ UNCHANGED <<storeVars, rec, marker, att, active, applied, stranded, reconciled>>

\* Mutation of AppendFails: a failed append is cleaned up like a rejection.
AppendFailsReleases(c) ==
  /\ call[c].pc = "append"
  /\ Goto(c, "release")
  /\ UNCHANGED <<storeVars, rec, marker, attemptVars>>

AppendFails(c) ==
  /\ call[c].pc = "append"
  /\ Mark(call[c].runner, call[c].task)
  /\ stranded' = stranded \union {call[c].gen}
  /\ Finish(c)
  /\ UNCHANGED <<storeVars, rec, att, active, applied, recorded, reconciled>>

\* releaseClaimSafely(): the store drops the task's record, whoever owns it.
StoreReleases(c) ==
  /\ call[c].pc = "release"
  /\ Release(call[c].task)
  /\ Goto(c, "released")
  /\ UNCHANGED <<rec, marker, attemptVars>>

ReleaseResumes(c) ==
  /\ call[c].pc = "released"
  /\ Unmark(call[c].runner, call[c].task)
  /\ Finish(c)
  /\ UNCHANGED <<storeVars, rec, attemptVars>>

ReleaseThrows(c) ==
  /\ call[c].pc = "release"
  /\ Mark(call[c].runner, call[c].task)
  /\ stranded' = stranded \union {call[c].gen}
  /\ Finish(c)
  /\ UNCHANGED <<storeVars, rec, att, active, applied, recorded, reconciled>>

-----------------------------------------------------------------------------
\* reconcileUnknownOutcome()

RecStart(q, r, t) ==
  /\ rec[q].pc = "idle"
  /\ active[r][t] = None
  /\ Reserving => ~Reserved(r, t)
  /\ SetRec(q, [pc |-> "inspect", runner |-> r, task |-> t, gen |-> None])
  /\ UNCHANGED <<storeVars, call, marker, attemptVars>>

\* A task without a claim, or with a legacy one, cannot be reconciled.
StoreInspects(q) ==
  /\ rec[q].pc = "inspect"
  /\ IF claims[rec[q].task] \in Gens
     THEN SetRec(q, [rec[q] EXCEPT !.pc = "verify", !.gen = claims[rec[q].task]])
     ELSE RecFinish(q)
  /\ UNCHANGED <<storeVars, call, marker, attemptVars>>

\* Mutation of Verifiable: not applied so far counts as not applied.
NotAppliedYet(g) == g \notin applied /\ (OwnerEnded => \A c \in Calls : call[c].gen # g)

\* What an honest authority can vouch for: no effect, and none to come.
Verifiable(g) ==
  /\ att[g].st = "ended"
  /\ g \notin applied
  /\ OwnerEnded => \A c \in Calls : call[c].gen # g

AuthorityApproves(q) ==
  /\ rec[q].pc = "verify"
  /\ Verifiable(rec[q].gen)
  /\ RecGoto(q, "decided")
  /\ UNCHANGED <<storeVars, call, marker, attemptVars>>

\* Mutation of RecAborts: an authority that declines is waited for.
RecAbortsOnStore(q) ==
  /\ rec[q].pc \in {"inspect", "free"}
  /\ RecFinish(q)
  /\ UNCHANGED <<storeVars, call, marker, attemptVars>>

\* The store fails, or the authority throws or returns an incomplete proof.
RecAborts(q) ==
  /\ rec[q].pc \in {"inspect", "verify", "free"}
  /\ RecFinish(q)
  /\ UNCHANGED <<storeVars, call, marker, attemptVars>>

\* Local execution is checked again once the authority has answered.
DecisionResumes(q) ==
  /\ rec[q].pc = "decided"
  /\ IF active[rec[q].runner][rec[q].task] = None THEN RecGoto(q, "free") ELSE RecFinish(q)
  /\ UNCHANGED <<storeVars, call, marker, attemptVars>>

StoreFrees(q) ==
  /\ rec[q].pc = "free"
  /\ ReleaseIfMatches(rec[q].task, rec[q].gen)
  /\ RecGoto(q, "freed")
  /\ reconciled' = reconciled \union {rec[q].gen}
  /\ UNCHANGED <<call, marker, att, active, applied, recorded, stranded>>

StoreRefusesToFree(q) ==
  /\ rec[q].pc = "free"
  /\ ~Matches(rec[q].task, rec[q].gen)
  /\ RecFinish(q)
  /\ UNCHANGED <<storeVars, call, marker, attemptVars>>

FreeResumes(q) ==
  /\ rec[q].pc = "freed"
  /\ Unmark(rec[q].runner, rec[q].task)
  /\ RecFinish(q)
  /\ UNCHANGED <<storeVars, call, attemptVars>>

-----------------------------------------------------------------------------
\* The world outside the runner.

\* A tool's request lands, before or after anyone stopped waiting for it.
EffectApplies(g) ==
  /\ att[g].st \in {"running", "orphan"}
  /\ g \notin applied
  /\ applied' = applied \union {g}
  /\ UNCHANGED <<storeVars, call, rec, marker, att, active, recorded, stranded, reconciled>>

\* A request left behind by a dead process can no longer land.
OrphanQuiesces(g) ==
  /\ att[g].st = "orphan"
  /\ SetAttempt(g, [att[g] EXCEPT !.st = "ended"])
  /\ UNCHANGED <<storeVars, call, rec, marker, active, applied, recorded, stranded, reconciled>>

\* The process dies and comes back empty; only the claim store survives.
Crash(r) ==
  /\ call' = [c \in Calls |-> IF call[c].runner = r THEN NoCall ELSE call[c]]
  /\ rec' = [q \in Recs |-> IF rec[q].runner = r THEN NoRec ELSE rec[q]]
  /\ marker' = [marker EXCEPT ![r] = {}]
  /\ active' = [active EXCEPT ![r] = [t \in Tasks |-> None]]
  /\ att' = [g \in Gens |->
               IF att[g].runner = r /\ att[g].st \in {"claimed", "running"}
               THEN [att[g] EXCEPT !.st = IF @ = "running" THEN "orphan" ELSE "ended"]
               ELSE att[g]]
  /\ stranded' = stranded \union {g \in issued : att[g].runner = r}
  /\ UNCHANGED <<storeVars, applied, recorded, reconciled>>

CallStep(c) ==
  \/ StoreHas(c) \/ HasResumes(c) \/ StoreThrows(c)
  \/ \E g \in Gens : StoreClaims(c, g)
  \/ StoreRefusesClaim(c) \/ ClaimResumes(c) \/ Timeout(c)
  \/ AppendSucceeds(c) \/ AppendFails(c)
  \/ StoreReleases(c) \/ ReleaseResumes(c) \/ ReleaseThrows(c)

RecStep(q) ==
  \/ StoreInspects(q) \/ AuthorityApproves(q) \/ RecAborts(q) \/ DecisionResumes(q)
  \/ StoreFrees(q) \/ StoreRefusesToFree(q) \/ FreeResumes(q)

Next ==
  \/ \E c \in Calls : CallStep(c)
  \/ \E c \in Calls, r \in Runners, t \in Tasks : RunStart(c, r, t)
  \/ \E q \in Recs : RecStep(q)
  \/ \E q \in Recs, r \in Runners, t \in Tasks : RecStart(q, r, t)
  \/ \E g \in Gens : ToolResolves(g) \/ ToolRejects(g) \/ EffectApplies(g) \/ OrphanQuiesces(g)
  \/ \E r \in Runners : Crash(r)

Spec == Init /\ [][Next]_vars

\* Store operations, memory writes and the deadline timer come to an end; tools
\* need not settle, authorities answer or throw, processes need not crash.
FairSpec == /\ Spec
            /\ \A c \in Calls : WF_vars(CallStep(c))
            /\ \A q \in Recs : WF_vars(RecStep(q))
-----------------------------------------------------------------------------
(* Properties *)

\* Fence: while an attempt may still touch the outside world (claimed, its
\* tool running, or orphaned by a crash), the store holds the task's claim in
\* that attempt's own generation, so nobody else can start the task.
Fence == \A g \in Gens : att[g].st \in Live => claims[att[g].task] = g

\* An effect that happened and whose result is not durable keeps its task
\* fenced: no timeout, crash, failed append, cleanup or reconciliation may open
\* the task to a second execution of the same side effect.
UnrecordedEffectFenced ==
  \A g \in applied \ recorded : claims[att[g].task] = g

\* A receipt says "not applied": the effect never happens, then or later.
ReceiptsAreTrue == reconciled \intersect applied = {}

\* A claim whose attempt is over and which no run() is still going to clean up
\* is there for a reason the runner knows: deadline, failed append, failed
\* cleanup, or crash. A task that was merely rejected stays retryable.
TombstonesJustified ==
  \A g \in Gens :
    /\ att[g].st = "ended"
    /\ claims[att[g].task] = g
    /\ \A c \in Calls : call[c].gen # g
    => g \in stranded

\* A claim leaves the store only through the cleanup of the run() that owns it
\* or through a reconciliation that inspected that very generation.
ClaimsLeaveByName ==
  [][\A t \in Tasks :
       claims[t] \in Gens /\ claims'[t] # claims[t] =>
         \/ \E c \in Calls : call[c].pc = "release" /\ call[c].gen = claims[t]
         \/ \E q \in Recs : rec[q].pc = "free" /\ rec[q].gen = claims[t]]_vars

\* A record without a generation fences its task for good: neither cleanup nor
\* reconciliation ever removes it.
LegacyStays == [][\A t \in Tasks : claims[t] = Legacy => claims'[t] = Legacy]_vars

\* Claims, deadlines, cleanups and reconciliations of all processes together keep
\* the promise about side effects that TaskEffects states without any of them.
Effects == INSTANCE TaskEffects
  WITH begun <- {g \in Gens : att[g].st # "unused"}, task <- [g \in Gens |-> att[g].task],
       acting <- {g \in Gens : att[g].st \in Live}, refuted <- reconciled
ImplementsTaskEffects == Effects!Spec

\* Whatever the tool does, a run() with a deadline comes to an end.
RunSettles == \A c \in Calls : call[c].pc # "idle" ~> call[c].pc = "idle"

\* A reconciliation comes to an end.
ReconcileSettles == \A q \in Recs : rec[q].pc # "idle" ~> rec[q].pc = "idle"
=============================================================================
