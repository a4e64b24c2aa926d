-------------------------- MODULE TaskRunnerProofs --------------------------
(***************************************************************************)
(* Theorems about TaskRunner for any number of runners, tasks, calls,      *)
(* reconcilers and generations.                                            *)
(***************************************************************************)
EXTENDS TaskRunner, TLAPS

-----------------------------------------------------------------------------
(* What one update of a slot does. *)

LEMMA CallUpdate ==
  ASSUME CallsOK, NEW c \in Calls, NEW k \in Call, CallOK(k), SetCall(c, k)
  PROVE  CallsOK' /\ call'[c] = k /\ \A d \in Calls \ {c} : call'[d] = call[d]
  BY DEF CallsOK, SetCall

LEMMA RecUpdate ==
  ASSUME RecsOK, NEW q \in Recs, NEW k \in Rec, RecOK(k), SetRec(q, k)
  PROVE  RecsOK' /\ rec'[q] = k /\ \A p \in Recs \ {q} : rec'[p] = rec[p]
  BY DEF RecsOK, SetRec

LEMMA AttemptUpdate ==
  ASSUME AttemptsOK, NEW g \in Gens, NEW a \in Attempt, AttemptOK(a), SetAttempt(g, a)
  PROVE  AttemptsOK' /\ att'[g] = a /\ \A h \in Gens \ {g} : att'[h] = att[h]
  BY DEF AttemptsOK, SetAttempt

LEMMA FinishUpdate ==
  ASSUME CallsOK, NEW c \in Calls, Finish(c)
  PROVE  CallsOK' /\ call'[c] = NoCall /\ \A d \in Calls \ {c} : call'[d] = call[d]
<1>1. NoCall \in Call /\ CallOK(NoCall)
  BY ClaimValuesDistinct DEF NoCall, Call, CallPcs, CallOK, Owns
<1> QED
  BY <1>1, CallUpdate DEF Finish

LEMMA RecFinishUpdate ==
  ASSUME RecsOK, NEW q \in Recs, RecFinish(q)
  PROVE  RecsOK' /\ rec'[q] = NoRec /\ \A p \in Recs \ {q} : rec'[p] = rec[p]
<1>1. NoRec \in Rec /\ RecOK(NoRec)
  BY ClaimValuesDistinct DEF NoRec, Rec, RecPcs, RecOK
<1> QED
  BY <1>1, RecUpdate DEF RecFinish

\* Moving on keeps a call well formed as long as it owns as much as before.
LEMMA GotoUpdate ==
  ASSUME CallsOK, NEW c \in Calls, NEW p \in CallPcs, Goto(c, p), call[c].pc # "idle",
         Owns([call[c] EXCEPT !.pc = p]) <=> Owns(call[c])
  PROVE  /\ CallsOK'
         /\ call'[c] = [call[c] EXCEPT !.pc = p]
         /\ \A d \in Calls \ {c} : call'[d] = call[d]
<1> DEFINE k == [call[c] EXCEPT !.pc = p]
<1>1. call[c] \in Call /\ CallOK(call[c])
  BY DEF CallsOK
<1>2. k \in Call
  BY <1>1 DEF Call
<1>3. k.gen = call[c].gen /\ k.runner = call[c].runner /\ k.task = call[c].task
  BY <1>1 DEF Call
<1>4. CallOK(k)
  BY <1>1, <1>3 DEF CallOK
<1> QED
  BY <1>2, <1>4, CallUpdate DEF Goto

LEMMA RecGotoUpdate ==
  ASSUME RecsOK, NEW q \in Recs, NEW p \in RecPcs \ {"idle", "inspect"}, RecGoto(q, p),
         rec[q].pc \notin {"idle", "inspect"}
  PROVE  /\ RecsOK'
         /\ rec'[q] = [rec[q] EXCEPT !.pc = p]
         /\ \A r \in Recs \ {q} : rec'[r] = rec[r]
<1> DEFINE k == [rec[q] EXCEPT !.pc = p]
<1>1. rec[q] \in Rec /\ RecOK(rec[q])
  BY DEF RecsOK
<1>2. k \in Rec /\ k.pc = p /\ k.gen = rec[q].gen /\ k.runner = rec[q].runner /\ k.task = rec[q].task
  BY <1>1 DEF Rec
<1>4. RecOK(k)
  BY <1>1, <1>2 DEF RecOK
<1> QED
  BY <1>2, <1>4, RecUpdate DEF RecGoto

-----------------------------------------------------------------------------
(* Type correctness *)

LEMMA InitTypeOK == Init => TypeOK
  BY ClaimValuesDistinct
  DEF Init, TypeOK, StoreInit, StoreTypeOK, NoCall, NoRec, NoAttempt, Call, Rec, Attempt,
      CallPcs, RecPcs, AttStates, CallsOK, RecsOK, AttemptsOK, CallOK, RecOK, AttemptOK, Owns

LEMMA CallFields ==
  ASSUME TypeOK, NEW c \in Calls
  PROVE  /\ call[c] \in Call
         /\ CallOK(call[c])
         /\ Owns(call[c]) => call[c].gen \in Gens
         /\ call[c].pc \in CallPcs /\ call[c].ok \in BOOLEAN
         /\ call[c].pc # "idle" => call[c].runner \in Runners /\ call[c].task \in Tasks
  BY DEF TypeOK, CallsOK, CallOK, Call

LEMMA StartedAttempt ==
  ASSUME TypeOK, NEW c \in Calls, call[c].pc # "idle", NEW s \in AttStates
  PROVE  AttemptOf(c, s) \in Attempt /\ AttemptOK(AttemptOf(c, s))
  BY CallFields DEF AttemptOf, AttemptOK, Attempt

\* The tool behind attempt g settles; f says what becomes of the awaiting call.
LEMMA SettleTypeOK ==
  ASSUME TypeOK, NEW g \in Gens, ToolSettles(g), NEW f \in [Calls -> Call],
         \A c \in Calls : Awaits(c, g) => CallOK(f[c]),
         call' = [c \in Calls |-> IF Awaits(c, g) THEN f[c] ELSE call[c]]
  PROVE  CallsOK' /\ AttemptsOK' /\ active' \in [Runners -> [Tasks -> Gens \union {None}]]
<1> DEFINE a == [att[g] EXCEPT !.st = "ended"]
<1>1. a \in Attempt /\ AttemptOK(a)
  BY DEF TypeOK, AttemptsOK, AttemptOK, Attempt, ToolSettles, AttStates
<1>2. AttemptsOK'
  BY <1>1, AttemptUpdate DEF TypeOK, ToolSettles
<1>3. CallsOK'
  BY DEF TypeOK, CallsOK
<1>4. active' \in [Runners -> [Tasks -> Gens \union {None}]]
  BY DEF TypeOK, ToolSettles, Deactivate
<1> QED
  BY <1>2, <1>3, <1>4

LEMMA ToolResolvesTypeOK ==
  ASSUME TypeOK, NEW g \in Gens, ToolResolves(g)
  PROVE  TypeOK'
<1> DEFINE f == [c \in Calls |-> [call[c] EXCEPT !.pc = "append"]]
<1>1. f \in [Calls -> Call]
  BY CallFields DEF Call, CallPcs
<1>2. ASSUME NEW c \in Calls, Awaits(c, g)
      PROVE  CallOK(f[c])
  BY <1>2, CallFields DEF Awaits, CallOK, Owns, Call
<1>3. call' = [c \in Calls |-> IF Awaits(c, g) THEN f[c] ELSE call[c]]
  BY DEF ToolResolves
<1>4. ToolSettles(g)
  BY DEF ToolResolves
<1>5. CallsOK' /\ AttemptsOK' /\ active' \in [Runners -> [Tasks -> Gens \union {None}]]
  <2> HIDE DEF f
  <2> QED
    BY <1>1, <1>2, <1>3, <1>4, SettleTypeOK
<1> QED
  BY <1>5 DEF ToolResolves, TypeOK, StoreTypeOK, RecsOK, storeVars

LEMMA ToolRejectsTypeOK ==
  ASSUME TypeOK, NEW g \in Gens, ToolRejects(g)
  PROVE  TypeOK'
<1> DEFINE f == [c \in Calls |-> AfterRejection(c)]
<1>1. f \in [Calls -> Call]
  BY CallFields DEF Call, CallPcs, AfterRejection, NoCall
<1>2. ASSUME NEW c \in Calls, Awaits(c, g)
      PROVE  CallOK(f[c])
  BY <1>2, CallFields, ClaimValuesDistinct DEF Awaits, CallOK, Owns, Call, AfterRejection, NoCall
<1>3. call' = [c \in Calls |-> IF Awaits(c, g) THEN f[c] ELSE call[c]]
  BY DEF ToolRejects
<1>4. ToolSettles(g)
  BY DEF ToolRejects
<1>5. CallsOK' /\ AttemptsOK' /\ active' \in [Runners -> [Tasks -> Gens \union {None}]]
  <2> HIDE DEF f
  <2> QED
    BY <1>1, <1>2, <1>3, <1>4, SettleTypeOK
<1> QED
  BY <1>5 DEF ToolRejects, TypeOK, StoreTypeOK, RecsOK, storeVars

LEMMA RunStartTypeOK ==
  ASSUME TypeOK, NEW c \in Calls, NEW r \in Runners, NEW t \in Tasks, RunStart(c, r, t)
  PROVE  TypeOK'
<1> DEFINE k == [pc |-> IF t \in marker[r] THEN "has" ELSE "claim",
                 runner |-> r, task |-> t, gen |-> None, ok |-> FALSE]
<1>1. k \in Call /\ CallOK(k)
  BY ClaimValuesDistinct DEF Call, CallPcs, CallOK, Owns
<1>2. CallsOK'
  BY <1>1, CallUpdate DEF RunStart, TypeOK
<1> QED
  BY <1>2 DEF RunStart, TypeOK, StoreTypeOK, storeVars, attemptVars, RecsOK, AttemptsOK

LEMMA CallStepTypeOK ==
  ASSUME TypeOK, NEW c \in Calls, CallStep(c)
  PROVE  TypeOK'
<1> USE DEF storeVars, attemptVars
<1>0. call[c] \in Call /\ CallOK(call[c]) /\ CallsOK
  BY CallFields DEF TypeOK
<1>1. CASE StoreHas(c)
  <2> DEFINE k == [call[c] EXCEPT !.pc = "hasDone", !.ok = Has(call[c].task)]
  <2>1. k \in Call
    <3>1. Has(call[c].task) \in BOOLEAN
      BY DEF Has
    <3> QED
      BY <3>1, <1>0 DEF Call, CallPcs
  <2>2. CallOK(k)
    BY <1>0, <1>1 DEF CallOK, Owns, Call, StoreHas
  <2>3. CallsOK'
    BY <1>0, <1>1, <2>1, <2>2, CallUpdate DEF StoreHas
  <2> QED
    BY <1>1, <2>3 DEF StoreHas, TypeOK, StoreTypeOK, RecsOK, AttemptsOK
<1>2. CASE HasResumes(c)
  <2>1. CASE call[c].ok
    BY <1>0, <1>2, <2>1, FinishUpdate DEF HasResumes, TypeOK, StoreTypeOK, RecsOK, AttemptsOK
  <2>2. CASE ~call[c].ok
    <3>1. CallsOK'
      BY <1>0, <1>2, <2>2, GotoUpdate DEF HasResumes, Owns, CallPcs, Call
    <3> QED
      BY <1>2, <2>2, <3>1, CallFields DEF HasResumes, Unmark, TypeOK, StoreTypeOK, RecsOK, AttemptsOK
  <2> QED
    BY <2>1, <2>2
<1>3. CASE StoreThrows(c)
  BY <1>0, <1>3, FinishUpdate DEF StoreThrows, TypeOK, StoreTypeOK, RecsOK, AttemptsOK
<1>4. ASSUME NEW g \in Gens, StoreClaims(c, g)
      PROVE  TypeOK'
  <2> DEFINE k == [call[c] EXCEPT !.pc = "claimDone", !.ok = TRUE, !.gen = g]
  <2>1. k \in Call /\ CallOK(k)
    BY <1>0, <1>4 DEF Call, CallPcs, CallOK, Owns, StoreClaims
  <2>2. CallsOK'
    BY <1>0, <1>4, <2>1, CallUpdate DEF StoreClaims
  <2>4. AttemptsOK'
    BY <1>4, StartedAttempt, AttemptUpdate DEF StoreClaims, TypeOK, AttStates, Live
  <2>5. StoreTypeOK'
    BY <1>4, CallFields DEF StoreClaims, ClaimAs, TypeOK, StoreTypeOK
  <2> QED
    BY <1>4, <2>2, <2>4, <2>5 DEF StoreClaims, TypeOK, RecsOK
<1>5. CASE StoreRefusesClaim(c)
  <2> DEFINE k == [call[c] EXCEPT !.pc = "claimDone", !.ok = FALSE]
  <2>1. k \in Call /\ CallOK(k)
    BY <1>0, <1>5 DEF Call, CallPcs, CallOK, Owns, StoreRefusesClaim
  <2>2. CallsOK'
    BY <1>0, <1>5, <2>1, CallUpdate DEF StoreRefusesClaim
  <2> QED
    BY <1>5, <2>2 DEF StoreRefusesClaim, TypeOK, StoreTypeOK, RecsOK, AttemptsOK
<1>6. CASE ClaimResumes(c)
  <2>1. CASE call[c].ok
    <3> DEFINE g == call[c].gen
    <3>1. g \in Gens /\ call[c].pc = "claimDone"
      BY <1>6, <2>1, CallFields DEF ClaimResumes, Owns
    <3>2. AttemptsOK'
      BY <1>6, <2>1, <3>1, StartedAttempt, AttemptUpdate DEF ClaimResumes, TypeOK, AttStates, Live
    <3>3. CallsOK'
      BY <1>0, <1>6, <2>1, GotoUpdate DEF ClaimResumes, Owns, CallPcs, Call
    <3>4. active' \in [Runners -> [Tasks -> Gens \union {None}]]
      BY <1>6, <2>1, <3>1 DEF ClaimResumes, TypeOK
    <3> QED
      BY <1>6, <2>1, <3>2, <3>3, <3>4 DEF ClaimResumes, TypeOK, StoreTypeOK, RecsOK
  <2>2. CASE ~call[c].ok
    BY <1>0, <1>6, <2>2, FinishUpdate, CallFields
       DEF ClaimResumes, Mark, TypeOK, StoreTypeOK, RecsOK, AttemptsOK
  <2> QED
    BY <2>1, <2>2
<1>7. CASE Timeout(c)
  BY <1>0, <1>7, FinishUpdate, CallFields
     DEF Timeout, Mark, Owns, TypeOK, StoreTypeOK, RecsOK, AttemptsOK
<1>8. CASE AppendSucceeds(c)
  <2>1. CallsOK'
    BY <1>0, <1>8, GotoUpdate DEF AppendSucceeds, Owns, CallPcs, Call
  <2> QED
    BY <1>8, <2>1, CallFields DEF AppendSucceeds, Owns, TypeOK, StoreTypeOK, RecsOK, AttemptsOK
<1>9. CASE AppendFails(c)
  BY <1>0, <1>9, FinishUpdate, CallFields
     DEF AppendFails, Mark, Owns, TypeOK, StoreTypeOK, RecsOK, AttemptsOK
<1>10. CASE StoreReleases(c)
  <2>1. CallsOK'
    BY <1>0, <1>10, GotoUpdate DEF StoreReleases, Owns, CallPcs, Call
  <2> QED
    BY <1>10, <2>1 DEF StoreReleases, Release, TypeOK, StoreTypeOK, RecsOK, AttemptsOK
<1>11. CASE ReleaseResumes(c)
  BY <1>0, <1>11, FinishUpdate, CallFields
     DEF ReleaseResumes, Unmark, TypeOK, StoreTypeOK, RecsOK, AttemptsOK
<1>12. CASE ReleaseThrows(c)
  BY <1>0, <1>12, FinishUpdate, CallFields
     DEF ReleaseThrows, Mark, Owns, TypeOK, StoreTypeOK, RecsOK, AttemptsOK
<1> QED
  BY <1>1, <1>2, <1>3, <1>4, <1>5, <1>6, <1>7, <1>8, <1>9, <1>10, <1>11, <1>12
     DEF CallStep

LEMMA RecStepTypeOK ==
  ASSUME TypeOK, NEW q \in Recs, RecStep(q)
  PROVE  TypeOK'
<1> USE DEF storeVars, attemptVars
<1>0. rec[q] \in Rec /\ RecOK(rec[q]) /\ RecsOK
  BY DEF TypeOK, RecsOK
<1>1. CASE StoreInspects(q)
  <2>1. CASE claims[rec[q].task] \in Gens
    <3> DEFINE k == [rec[q] EXCEPT !.pc = "verify", !.gen = claims[rec[q].task]]
    <3>1. k \in Rec /\ RecOK(k)
      BY <1>0, <1>1, <2>1 DEF Rec, RecPcs, RecOK, StoreInspects
    <3>2. RecsOK'
      BY <1>0, <1>1, <2>1, <3>1, RecUpdate DEF StoreInspects
    <3> QED
      BY <1>1, <3>2 DEF StoreInspects, TypeOK, StoreTypeOK, CallsOK, AttemptsOK
  <2>2. CASE claims[rec[q].task] \notin Gens
    BY <1>0, <1>1, <2>2, RecFinishUpdate DEF StoreInspects, TypeOK, StoreTypeOK, CallsOK, AttemptsOK
  <2> QED
    BY <2>1, <2>2
<1>2. CASE AuthorityApproves(q)
  <2>1. RecsOK'
    BY <1>0, <1>2, RecGotoUpdate DEF AuthorityApproves, RecPcs
  <2> QED
    BY <1>2, <2>1 DEF AuthorityApproves, TypeOK, StoreTypeOK, CallsOK, AttemptsOK
<1>3. CASE RecAborts(q)
  BY <1>0, <1>3, RecFinishUpdate DEF RecAborts, TypeOK, StoreTypeOK, CallsOK, AttemptsOK
<1>4. CASE DecisionResumes(q)
  <2>1. RecsOK'
    BY <1>0, <1>4, RecGotoUpdate, RecFinishUpdate DEF DecisionResumes, RecPcs
  <2> QED
    BY <1>4, <2>1 DEF DecisionResumes, TypeOK, StoreTypeOK, CallsOK, AttemptsOK
<1>5. CASE StoreFrees(q)
  <2>1. RecsOK'
    BY <1>0, <1>5, RecGotoUpdate DEF StoreFrees, RecPcs
  <2> QED
    BY <1>5, <2>1 DEF StoreFrees, ReleaseIfMatches, Matches, Release, TypeOK, StoreTypeOK,
                      CallsOK, AttemptsOK
<1>6. CASE StoreRefusesToFree(q)
  BY <1>0, <1>6, RecFinishUpdate DEF StoreRefusesToFree, TypeOK, StoreTypeOK, CallsOK, AttemptsOK
<1>7. CASE FreeResumes(q)
  BY <1>0, <1>7, RecFinishUpdate
     DEF FreeResumes, Unmark, RecOK, TypeOK, StoreTypeOK, CallsOK, AttemptsOK
<1> QED
  BY <1>1, <1>2, <1>3, <1>4, <1>5, <1>6, <1>7 DEF RecStep

LEMMA RecStartTypeOK ==
  ASSUME TypeOK, NEW q \in Recs, NEW r \in Runners, NEW t \in Tasks, RecStart(q, r, t)
  PROVE  TypeOK'
<1> DEFINE k == [pc |-> "inspect", runner |-> r, task |-> t, gen |-> None]
<1>1. k \in Rec /\ RecOK(k)
  BY ClaimValuesDistinct DEF Rec, RecPcs, RecOK
<1>2. RecsOK'
  BY <1>1, RecUpdate DEF RecStart, TypeOK
<1> QED
  BY <1>2 DEF RecStart, TypeOK, StoreTypeOK, storeVars, attemptVars, CallsOK, AttemptsOK

LEMMA WorldTypeOK ==
  ASSUME TypeOK, NEW g \in Gens, EffectApplies(g) \/ OrphanQuiesces(g)
  PROVE  TypeOK'
<1>1. CASE EffectApplies(g)
  BY <1>1 DEF EffectApplies, TypeOK, StoreTypeOK, storeVars, CallsOK, RecsOK, AttemptsOK
<1>2. CASE OrphanQuiesces(g)
  <2> DEFINE a == [att[g] EXCEPT !.st = "ended"]
  <2>1. a \in Attempt /\ AttemptOK(a)
    BY <1>2 DEF TypeOK, AttemptsOK, AttemptOK, Attempt, OrphanQuiesces, AttStates
  <2>2. AttemptsOK'
    BY <1>2, <2>1, AttemptUpdate DEF TypeOK, OrphanQuiesces
  <2> QED
    BY <1>2, <2>2 DEF OrphanQuiesces, TypeOK, StoreTypeOK, storeVars, CallsOK, RecsOK
<1> QED
  BY <1>1, <1>2

LEMMA CrashTypeOK ==
  ASSUME TypeOK, NEW r \in Runners, Crash(r)
  PROVE  TypeOK'
<1>1. CallsOK'
  BY ClaimValuesDistinct DEF Crash, TypeOK, CallsOK, CallOK, NoCall, Call, CallPcs, Owns
<1>2. RecsOK'
  BY ClaimValuesDistinct DEF Crash, TypeOK, RecsOK, RecOK, NoRec, Rec, RecPcs
<1>3. AttemptsOK'
  BY DEF Crash, TypeOK, AttemptsOK, AttemptOK, Attempt, AttStates, Live
<1>4. active' \in [Runners -> [Tasks -> Gens \union {None}]]
  BY DEF Crash, TypeOK
<1> QED
  BY <1>1, <1>2, <1>3, <1>4 DEF Crash, TypeOK, StoreTypeOK, storeVars

\* Every reachable state is well formed: in particular a run() names a claim
\* generation exactly while it is responsible for cleaning that claim up.
THEOREM TypeCorrect == Spec => []TypeOK
<1>1. TypeOK /\ [Next]_vars => TypeOK'
  <2> SUFFICES ASSUME TypeOK, [Next]_vars PROVE TypeOK'
    OBVIOUS
  <2>1. CASE UNCHANGED vars
    BY <2>1 DEF vars, TypeOK, StoreTypeOK, CallsOK, RecsOK, AttemptsOK
  <2>2. CASE Next
    BY <2>2, CallStepTypeOK, RunStartTypeOK, RecStepTypeOK, RecStartTypeOK,
       ToolResolvesTypeOK, ToolRejectsTypeOK, WorldTypeOK, CrashTypeOK DEF Next
  <2> QED
    BY <2>1, <2>2
<1> QED
  BY InitTypeOK, <1>1, PTL DEF Spec

-----------------------------------------------------------------------------
(* The fence *)

\* The state of the attempt a call owns, by how far the call has come.
StateAt(pc) == IF pc = "claimDone" THEN "claimed"
               ELSE IF pc = "exec" THEN "running" ELSE "ended"

\* A call that owns a claim owns the record in the store until its release,
\* and releases it only when the effect is absent or durable.
CallInv(c) ==
  call[c].gen \in Gens =>
    /\ call[c].gen \in issued
    /\ att[call[c].gen].task = call[c].task
    /\ att[call[c].gen].runner = call[c].runner
    /\ att[call[c].gen].st = StateAt(call[c].pc)
    /\ call[c].pc # "released" => claims[call[c].task] = call[c].gen
    /\ call[c].pc = "release" => call[c].gen \notin applied \ recorded

OneOwner == \A c, d \in Calls : call[c].gen \in Gens /\ call[c].gen = call[d].gen => c = d

\* Over, without effect, and no run() left to clean it up.
Abandoned(g) == /\ att[g].st = "ended" /\ g \notin applied
                /\ \A c \in Calls : call[c].gen # g

RecInv(q) ==
  rec[q].gen \in Gens =>
    /\ rec[q].gen \in issued
    /\ att[rec[q].gen].task = rec[q].task
    /\ rec[q].pc \in {"decided", "free", "freed"} => Abandoned(rec[q].gen)

ClaimsInv == \A t \in Tasks : claims[t] \in Gens =>
               claims[t] \in issued /\ att[claims[t]].task = t

IInv == /\ applied \subseteq issued
        /\ \A g \in reconciled : g \in issued /\ att[g].st = "ended" /\ g \notin applied
        /\ ClaimsInv
        /\ \A c \in Calls : CallInv(c)
        /\ OneOwner
        /\ \A q \in Recs : RecInv(q)
        /\ Fence
        /\ UnrecordedEffectFenced

LEMMA InitIInv == Init => IInv
  BY ClaimValuesDistinct
  DEF Init, IInv, StoreInit, ClaimsInv, CallInv, OneOwner, RecInv, Fence, Live,
      UnrecordedEffectFenced, NoCall, NoRec, NoAttempt

\* Steps that only start, end or idle a slot: nobody gains a generation.
LEMMA DisownIInv ==
  ASSUME TypeOK, IInv,
         \A c \in Calls : call'[c] = call[c] \/ call'[c].gen = None,
         \A q \in Recs : rec'[q] = rec[q] \/ rec'[q].gen = None,
         UNCHANGED <<claims, issued, att, applied, recorded, reconciled>>
  PROVE  IInv'
<1> USE ClaimValuesDistinct
<1>1. (\A c \in Calls : CallInv(c))'
  BY DEF IInv, CallInv, StateAt
<1>2. OneOwner'
  BY DEF IInv, OneOwner
<1>3. (\A q \in Recs : RecInv(q))'
  BY DEF IInv, RecInv, Abandoned, TypeOK, CallsOK, CallOK
<1>4. ClaimsInv' /\ Fence' /\ UnrecordedEffectFenced'
  BY DEF IInv, ClaimsInv, Fence, UnrecordedEffectFenced
<1> QED
  BY <1>1, <1>2, <1>3, <1>4 DEF IInv

LEMMA StoreClaimsIInv ==
  ASSUME TypeOK, IInv, NEW c \in Calls, NEW g \in Gens, StoreClaims(c, g)
  PROVE  IInv'
<1> DEFINE t == call[c].task
<1>1. /\ call[c].pc = "claim" /\ t \in Tasks /\ g \notin issued /\ claims[t] = None
      /\ call[c] \in Call
  BY CallFields DEF StoreClaims, ClaimAs, Has
<1>2. /\ call'[c] = [call[c] EXCEPT !.pc = "claimDone", !.ok = TRUE, !.gen = g]
      /\ \A d \in Calls \ {c} : call'[d] = call[d]
  BY DEF StoreClaims, SetCall, TypeOK, CallsOK
<1>3. call'[c].gen = g /\ call'[c].pc = "claimDone" /\ call'[c].task = t
      /\ call'[c].runner = call[c].runner
  BY <1>1, <1>2 DEF Call
<1>4. /\ att'[g].st = "claimed" /\ att'[g].task = t /\ att'[g].runner = call[c].runner
      /\ \A h \in Gens \ {g} : att'[h] = att[h]
  BY DEF StoreClaims, SetAttempt, AttemptOf, TypeOK, AttemptsOK
<1>5. claims'[t] = g /\ \A u \in Tasks \ {t} : claims'[u] = claims[u]
  BY <1>1 DEF StoreClaims, ClaimAs, TypeOK, StoreTypeOK
<1>6. issued' = issued \union {g}
      /\ UNCHANGED <<rec, applied, recorded, reconciled>>
  BY DEF StoreClaims, ClaimAs
<1>7. ClaimsInv'
  BY <1>1, <1>4, <1>5, <1>6 DEF IInv, ClaimsInv
<1>8. (\A d \in Calls : CallInv(d))'
  <2> SUFFICES ASSUME NEW d \in Calls, call'[d].gen \in Gens PROVE CallInv(d)'
    BY DEF CallInv
  <2>1. CASE d = c
    BY <1>1, <1>3, <1>4, <1>5, <1>6, <2>1 DEF CallInv, StateAt
  <2>2. CASE d # c
    <3>1. call'[d] = call[d] /\ CallInv(d) /\ call[d].gen \in issued /\ call[d].gen # g
      BY <1>1, <1>2, <2>2 DEF IInv, CallInv
    <3>2. call[d].task \in Tasks /\ (call[d].pc # "released" => call[d].task # t)
      BY <3>1, <1>1, CallFields, ClaimValuesDistinct DEF CallInv, TypeOK, CallsOK, CallOK, Owns
    <3> QED
      BY <1>4, <1>5, <1>6, <3>1, <3>2 DEF CallInv, StateAt
  <2> QED
    BY <2>1, <2>2
<1>0. \A d \in Calls : call[d].gen # g
  BY <1>1 DEF IInv, CallInv
<1>9. OneOwner'
  <2> SUFFICES ASSUME NEW d \in Calls, NEW e \in Calls, call'[d].gen \in Gens,
                      call'[d].gen = call'[e].gen
               PROVE  d = e
    BY DEF OneOwner
  <2> QED
    <3>1. (d = c <=> call'[d].gen = g) /\ (e = c <=> call'[e].gen = g)
      BY <1>0, <1>2, <1>3
    <3> QED
      BY <1>2, <3>1 DEF IInv, OneOwner
<1>10. (\A q \in Recs : RecInv(q))'
  <2> SUFFICES ASSUME NEW q \in Recs, rec[q].gen \in Gens PROVE RecInv(q)'
    BY <1>6 DEF RecInv
  <2>1. RecInv(q) /\ rec[q].gen # g
    BY <1>1 DEF IInv, RecInv
  <2> QED
    BY <1>2, <1>3, <1>4, <1>6, <2>1 DEF RecInv, Abandoned
<1>11. Fence'
  BY <1>1, <1>4, <1>5, ClaimValuesDistinct
     DEF IInv, Fence, Live, TypeOK, AttemptsOK, AttemptOK
<1>12. applied' \subseteq issued' /\ (\A h \in reconciled : h \in issued /\ att[h].st = "ended" /\ h \notin applied)'
  BY <1>1, <1>4, <1>6 DEF IInv, TypeOK
<1>13. UnrecordedEffectFenced'
  <2> SUFFICES ASSUME NEW h \in applied \ recorded PROVE claims'[att'[h].task] = h
    BY <1>6 DEF UnrecordedEffectFenced
  <2>1. h # g /\ h \in Gens /\ claims[att[h].task] = h
    BY <1>1 DEF IInv, UnrecordedEffectFenced, TypeOK
  <2>2. att[h].task # t
    BY <1>1, <2>1, ClaimValuesDistinct
  <2> QED
    BY <1>1, <1>4, <2>1, <2>2 DEF StoreClaims, ClaimAs, TypeOK, StoreTypeOK
<1> QED
  BY <1>7, <1>8, <1>9, <1>10, <1>11, <1>12, <1>13 DEF IInv

\* A call moves on and keeps the claim it owns; its attempt may change state.
LEMMA AdvanceIInv ==
  ASSUME TypeOK, IInv, NEW c \in Calls, call[c].gen \in Gens,
         NEW p \in CallPcs, NEW s \in AttStates, Goto(c, p), s = StateAt(p),
         att[call[c].gen].st = "ended" => s = "ended",
         att'[call[c].gen] = [att[call[c].gen] EXCEPT !.st = s],
         \A h \in Gens \ {call[c].gen} : att'[h] = att[h],
         call[c].pc # "released" /\ p # "released",
         recorded \subseteq recorded',
         p = "release" => call[c].gen \notin applied \ recorded',
         UNCHANGED <<claims, issued, rec, applied, reconciled>>
  PROVE  IInv'
<1> DEFINE g == call[c].gen
<1>1. /\ call'[c] = [call[c] EXCEPT !.pc = p] /\ call[c] \in Call
      /\ \A d \in Calls \ {c} : call'[d] = call[d]
  BY DEF Goto, SetCall, TypeOK, CallsOK
<1>2. call'[c].pc = p /\ call'[c].gen = g /\ call'[c].task = call[c].task
      /\ call'[c].runner = call[c].runner
  BY <1>1 DEF Call
<1>3. /\ CallInv(c) /\ g \in issued /\ att[g].task = call[c].task /\ claims[call[c].task] = g
      /\ att[g] \in Attempt
  BY DEF IInv, CallInv, TypeOK, AttemptsOK
<1>4. att'[g].st = s /\ att'[g].task = att[g].task /\ att'[g].runner = att[g].runner
  BY <1>3 DEF Attempt
<1>5. (\A d \in Calls : CallInv(d))'
  <2> SUFFICES ASSUME NEW d \in Calls, call'[d].gen \in Gens PROVE CallInv(d)'
    BY DEF CallInv
  <2>1. CASE d = c
    BY <1>2, <1>3, <1>4, <2>1 DEF CallInv
  <2>2. CASE d # c
    <3>1. call'[d] = call[d] /\ CallInv(d) /\ call[d].gen # g
      BY <1>1, <2>2 DEF IInv, OneOwner
    <3> QED
      BY <3>1 DEF CallInv
  <2> QED
    BY <2>1, <2>2
<1>6. OneOwner'
  <2> SUFFICES ASSUME NEW d \in Calls, NEW e \in Calls, call'[d].gen \in Gens,
                      call'[d].gen = call'[e].gen
               PROVE  d = e
    BY DEF OneOwner
  <2>1. call'[d].gen = call[d].gen /\ call'[e].gen = call[e].gen
    BY <1>1, <1>2
  <2> QED
    BY <2>1 DEF IInv, OneOwner
<1>7. (\A q \in Recs : RecInv(q))'
  <2> SUFFICES ASSUME NEW q \in Recs, rec[q].gen \in Gens PROVE RecInv(q)'
    BY DEF RecInv
  <2>1. RecInv(q) /\ (Abandoned(rec[q].gen) => rec[q].gen # g)
    BY DEF IInv, Abandoned
  <2>2. \A d \in Calls : call'[d].gen = call[d].gen
    BY <1>1, <1>2
  <2> QED
    BY <1>4, <2>1, <2>2 DEF RecInv, Abandoned
<1>8. ClaimsInv' /\ Fence'
  <2>1. \A h \in Gens : att'[h].task = att[h].task
    BY <1>4
  <2>2. ClaimsInv'
    BY <2>1 DEF IInv, ClaimsInv
  <2>3. Fence'
    BY <1>3, <1>4, <2>1 DEF IInv, Fence
  <2>. QED BY <2>2, <2>3
<1>9. UnrecordedEffectFenced'
  BY <1>3, <1>4 DEF IInv, UnrecordedEffectFenced, TypeOK
<1>10. (\A h \in reconciled : h \in issued /\ att[h].st = "ended" /\ h \notin applied)'
  <2> SUFFICES ASSUME NEW h \in reconciled PROVE att'[h].st = "ended"
    BY DEF IInv
  <2>1. h \in Gens /\ att[h].st = "ended"
    BY DEF IInv, TypeOK
  <2> QED
    BY <1>4, <2>1
<1> QED
  BY <1>5, <1>6, <1>7, <1>8, <1>9, <1>10 DEF IInv

LEMMA StoreReleasesIInv ==
  ASSUME TypeOK, IInv, NEW c \in Calls, StoreReleases(c)
  PROVE  IInv'
<1> DEFINE g == call[c].gen
           t == call[c].task
<1>1. /\ call[c].pc = "release" /\ g \in Gens /\ t \in Tasks /\ call[c] \in Call
  BY CallFields DEF StoreReleases, Owns
<1>2. /\ CallInv(c) /\ claims[t] = g /\ att[g].st = "ended" /\ att[g].task = t
      /\ g \notin applied \ recorded
  BY <1>1 DEF IInv, CallInv, StateAt
<1>3. /\ call'[c] = [call[c] EXCEPT !.pc = "released"]
      /\ \A d \in Calls \ {c} : call'[d] = call[d]
  BY DEF StoreReleases, Goto, SetCall, TypeOK, CallsOK
<1>4. call'[c].pc = "released" /\ call'[c].gen = g /\ call'[c].task = t
      /\ call'[c].runner = call[c].runner
  BY <1>1, <1>3 DEF Call
<1>5. claims'[t] = None /\ \A u \in Tasks \ {t} : claims'[u] = claims[u]
  BY <1>1 DEF StoreReleases, Release, TypeOK, StoreTypeOK
<1>6. UNCHANGED <<issued, rec, att, applied, recorded, reconciled>>
  BY DEF StoreReleases, Release, attemptVars
<1>7. (\A d \in Calls : CallInv(d))'
  <2> SUFFICES ASSUME NEW d \in Calls, call'[d].gen \in Gens PROVE CallInv(d)'
    BY DEF CallInv
  <2>1. CASE d = c
    BY <1>1, <1>2, <1>4, <1>6, <2>1 DEF CallInv, StateAt
  <2>2. CASE d # c
    <3>1. call'[d] = call[d] /\ CallInv(d) /\ call[d].gen # g
      BY <1>1, <1>3, <2>2 DEF IInv, OneOwner
    <3>2. call[d].task \in Tasks
      BY <3>1, CallFields DEF TypeOK, CallsOK, CallOK, Owns
    <3> QED
      BY <1>2, <1>5, <1>6, <3>1, <3>2 DEF CallInv
  <2> QED
    BY <2>1, <2>2
<1>8. \A d \in Calls : call'[d].gen = call[d].gen
  BY <1>3, <1>4
<1>9. OneOwner' /\ (\A q \in Recs : RecInv(q))'
  BY <1>6, <1>8 DEF IInv, OneOwner, RecInv, Abandoned
<1>10. ClaimsInv'
  BY <1>5, <1>6, ClaimValuesDistinct DEF IInv, ClaimsInv
<1>11. Fence' /\ UnrecordedEffectFenced'
  <2>1. ASSUME NEW h \in Gens, h # g, claims[att[h].task] = h
        PROVE  claims'[att[h].task] = h
    BY <1>2, <1>5, <2>1 DEF StoreReleases, Release, TypeOK, StoreTypeOK
  <2> QED
    BY <1>2, <1>6, <2>1 DEF IInv, Fence, Live, UnrecordedEffectFenced, TypeOK
<1> QED
  BY <1>6, <1>7, <1>9, <1>10, <1>11 DEF IInv

LEMMA CallStepIInv ==
  ASSUME TypeOK, IInv, NEW c \in Calls, CallStep(c)
  PROVE  IInv'
<1> USE DEF storeVars, attemptVars
<1>0. CallsOK /\ call[c] \in Call
  BY CallFields DEF TypeOK
<1>1. CASE StoreHas(c) \/ StoreThrows(c) \/ StoreRefusesClaim(c)
  <2>0. call[c].gen = None
    BY <1>0, <1>1, CallFields DEF StoreHas, StoreThrows, StoreRefusesClaim, CallOK, Owns, Call
  <2>1. call'[c].gen = None /\ \A d \in Calls \ {c} : call'[d] = call[d]
    <3>1. CASE StoreHas(c)
      <4> DEFINE k == [call[c] EXCEPT !.pc = "hasDone", !.ok = Has(call[c].task)]
      <4>1. k.gen = None
        BY <1>0, <2>0 DEF Call
      <4>2. call' = [call EXCEPT ![c] = k]
        BY <3>1 DEF StoreHas, SetCall
      <4> QED
        BY <1>0, <4>1, <4>2 DEF CallsOK
    <3>2. CASE StoreThrows(c)
      BY <1>0, <3>2 DEF StoreThrows, SetCall, Finish, NoCall, CallsOK
    <3>3. CASE StoreRefusesClaim(c)
      BY <1>0, <2>0, <3>3 DEF StoreRefusesClaim, SetCall, CallsOK, Call
    <3> QED
      BY <1>1, <3>1, <3>2, <3>3
  <2> QED
    BY <1>1, <2>1, DisownIInv DEF StoreHas, StoreThrows, StoreRefusesClaim
<1>2. CASE HasResumes(c)
  <2>1. call'[c].gen = None /\ \A d \in Calls \ {c} : call'[d] = call[d]
    BY <1>0, <1>2, CallFields
       DEF HasResumes, SetCall, Goto, Finish, NoCall, CallsOK, CallOK, Owns, Call
  <2> QED
    BY <1>2, <2>1, DisownIInv DEF HasResumes
<1>3. CASE \E g \in Gens : StoreClaims(c, g)
  BY <1>3, StoreClaimsIInv
<1>4. CASE ClaimResumes(c)
  <2>1. CASE call[c].ok
    <3> DEFINE g == call[c].gen
    <3>1. g \in Gens /\ call[c].pc = "claimDone"
      BY <1>4, <2>1, CallFields DEF ClaimResumes, Owns
    <3>2. CallInv(c) /\ att[g].st = "claimed" /\ att[g].task = call[c].task
          /\ att[g].runner = call[c].runner /\ att[g] \in Attempt
      BY <3>1 DEF IInv, CallInv, StateAt, TypeOK, AttemptsOK
    <3>3. att'[g] = [att[g] EXCEPT !.st = "running"] /\ \A h \in Gens \ {g} : att'[h] = att[h]
      BY <1>4, <2>1, <3>1, <3>2 DEF ClaimResumes, SetAttempt, AttemptOf, Attempt, TypeOK, AttemptsOK
    <3>4. "running" \in AttStates /\ "exec" \in CallPcs
      BY DEF AttStates, Live, CallPcs
    <3> QED
      BY <1>4, <2>1, <3>1, <3>2, <3>3, <3>4, AdvanceIInv DEF ClaimResumes, StateAt
  <2>2. CASE ~call[c].ok
    <3>1. call'[c].gen = None /\ \A d \in Calls \ {c} : call'[d] = call[d]
      BY <1>0, <1>4, <2>2 DEF ClaimResumes, SetCall, Finish, NoCall, CallsOK
    <3> QED
      BY <1>4, <2>2, <3>1, DisownIInv DEF ClaimResumes
  <2> QED
    BY <2>1, <2>2
<1>5. CASE Timeout(c) \/ AppendFails(c) \/ ReleaseResumes(c) \/ ReleaseThrows(c)
  <2>1. call'[c].gen = None /\ \A d \in Calls \ {c} : call'[d] = call[d]
    BY <1>0, <1>5
       DEF Timeout, AppendFails, ReleaseResumes, ReleaseThrows, SetCall, Finish, NoCall, CallsOK
  <2> QED
    BY <1>5, <2>1, DisownIInv DEF Timeout, AppendFails, ReleaseResumes, ReleaseThrows
<1>6. CASE AppendSucceeds(c)
  <2> DEFINE g == call[c].gen
  <2>1. g \in Gens /\ call[c].pc = "append"
    BY <1>6, CallFields DEF AppendSucceeds, Owns
  <2>2. att[g].st = "ended" /\ att[g] \in Attempt
    BY <2>1 DEF IInv, CallInv, StateAt, TypeOK, AttemptsOK
  <2>3. att'[g] = [att[g] EXCEPT !.st = "ended"] /\ \A h \in Gens \ {g} : att'[h] = att[h]
    BY <1>6, <2>2 DEF AppendSucceeds, Attempt
  <2>4. "ended" \in AttStates /\ "release" \in CallPcs
    BY DEF AttStates, CallPcs
  <2> QED
    BY <1>6, <2>1, <2>2, <2>3, <2>4, AdvanceIInv DEF AppendSucceeds, StateAt
<1>7. CASE StoreReleases(c)
  BY <1>7, StoreReleasesIInv
<1> QED
  BY <1>1, <1>2, <1>3, <1>4, <1>5, <1>6, <1>7 DEF CallStep

\* A settling tool sends the call that awaits it to p or lets it go; in the
\* latter case, or when nobody awaits it, only the attempt's state changes.
LEMMA SettleIInv ==
  ASSUME TypeOK, IInv, NEW g \in Gens, ToolSettles(g), NEW p \in {"append", "release"},
         p = "release" => g \notin applied,
         \A c \in Calls : IF Awaits(c, g)
                          THEN call'[c] \in {[call[c] EXCEPT !.pc = p], NoCall}
                          ELSE call'[c] = call[c],
         UNCHANGED <<claims, issued, rec, applied, recorded, reconciled>>
  PROVE  IInv'
<1> USE ClaimValuesDistinct
<1>1. /\ att[g].st = "running" /\ att[g] \in Attempt
      /\ att'[g].st = "ended" /\ att'[g].task = att[g].task /\ att'[g].runner = att[g].runner
      /\ \A h \in Gens \ {g} : att'[h] = att[h]
  BY DEF ToolSettles, SetAttempt, TypeOK, AttemptsOK, Attempt
<1>2. ASSUME NEW c \in Calls, call'[c].gen \in Gens
      PROVE  /\ call'[c].gen = call[c].gen /\ call'[c].task = call[c].task
             /\ call'[c].runner = call[c].runner
             /\ IF Awaits(c, g) THEN call'[c].pc = p ELSE call'[c].pc = call[c].pc
  BY <1>2, CallFields DEF Call, NoCall
<1>3. ASSUME NEW c \in Calls, call[c].gen = g
      PROVE  Awaits(c, g)
  BY <1>1, <1>3, CallFields DEF IInv, CallInv, StateAt, Awaits, CallOK, Owns
<1>4. (\A c \in Calls : CallInv(c))'
  <2> SUFFICES ASSUME NEW c \in Calls, call'[c].gen \in Gens PROVE CallInv(c)'
    BY DEF CallInv
  <2>1. CallInv(c)
    BY DEF IInv
  <2>2. CASE Awaits(c, g)
    BY <1>1, <1>2, <2>1, <2>2 DEF CallInv, StateAt, Awaits
  <2>3. CASE ~Awaits(c, g)
    <3>1. call[c].gen # g
      BY <1>3, <2>3
    <3> QED
      BY <1>1, <1>2, <2>1, <2>3, <3>1 DEF CallInv, StateAt
  <2> QED
    BY <2>2, <2>3
<1>5. OneOwner'
  BY <1>2 DEF IInv, OneOwner
<1>6. (\A q \in Recs : RecInv(q))'
  <2> SUFFICES ASSUME NEW q \in Recs, rec[q].gen \in Gens PROVE RecInv(q)'
    BY DEF RecInv
  <2>1. RecInv(q)
    BY DEF IInv
  <2>2. Abandoned(rec[q].gen) => Abandoned(rec[q].gen)'
    BY <1>1, <1>2 DEF Abandoned
  <2> QED
    BY <1>1, <2>1, <2>2 DEF RecInv
<1>7. ClaimsInv' /\ Fence' /\ UnrecordedEffectFenced'
  BY <1>1 DEF IInv, ClaimsInv, Fence, Live, UnrecordedEffectFenced, TypeOK
<1>8. (\A h \in reconciled : h \in issued /\ att[h].st = "ended" /\ h \notin applied)'
  BY <1>1 DEF IInv, TypeOK
<1> QED
  BY <1>4, <1>5, <1>6, <1>7, <1>8 DEF IInv

LEMMA ToolsIInv ==
  ASSUME TypeOK, IInv, NEW g \in Gens, ToolResolves(g) \/ ToolRejects(g)
  PROVE  IInv'
<1>1. CASE ToolResolves(g)
  <2>1. \A c \in Calls : call'[c] = IF Awaits(c, g) THEN [call[c] EXCEPT !.pc = "append"]
                                                    ELSE call[c]
    BY <1>1 DEF ToolResolves
  <2> QED
    BY <1>1, <2>1, SettleIInv DEF ToolResolves, storeVars
<1>2. CASE ToolRejects(g)
  <2>1. \A c \in Calls : IF Awaits(c, g)
                         THEN call'[c] \in {[call[c] EXCEPT !.pc = "release"], NoCall}
                         ELSE call'[c] = call[c]
    BY <1>2 DEF ToolRejects, AfterRejection
  <2> QED
    BY <1>2, <2>1, SettleIInv DEF ToolRejects, storeVars
<1> QED
  BY <1>1, <1>2

LEMMA RecStepIInv ==
  ASSUME TypeOK, IInv, OwnerEnded, NEW q \in Recs, RecStep(q)
  PROVE  IInv'
<1> USE DEF storeVars, attemptVars
<1>0. rec[q] \in Rec /\ RecOK(rec[q]) /\ RecsOK /\ RecInv(q)
  BY DEF TypeOK, RecsOK, IInv
<1>1. CASE StoreInspects(q)
  <2>1. CASE claims[rec[q].task] \in Gens
    <3> DEFINE g == claims[rec[q].task]
    <3>1. /\ rec'[q].pc = "verify" /\ rec'[q].gen = g /\ rec'[q].task = rec[q].task
          /\ \A p \in Recs \ {q} : rec'[p] = rec[p]
      BY <1>0, <1>1, <2>1 DEF StoreInspects, SetRec, RecsOK, Rec
    <3>2. g \in issued /\ att[g].task = rec[q].task
      BY <1>0, <1>1, <2>1 DEF StoreInspects, RecOK, IInv, ClaimsInv
    <3>3. (\A p \in Recs : RecInv(p))'
      BY <1>1, <3>1, <3>2 DEF StoreInspects, IInv, RecInv, Abandoned
    <3> QED
      BY <1>1, <3>3 DEF StoreInspects, IInv, ClaimsInv, CallInv, OneOwner, Fence,
                        UnrecordedEffectFenced
  <2>2. CASE claims[rec[q].task] \notin Gens
    <3>1. rec'[q].gen = None /\ \A p \in Recs \ {q} : rec'[p] = rec[p]
      BY <1>0, <1>1, <2>2 DEF StoreInspects, RecFinish, SetRec, RecsOK, NoRec
    <3> QED
      BY <1>1, <2>2, <3>1, DisownIInv DEF StoreInspects
  <2> QED
    BY <2>1, <2>2
<1>2. CASE AuthorityApproves(q)
  <2> DEFINE g == rec[q].gen
  <2>1. /\ rec'[q].gen = g /\ rec'[q].task = rec[q].task
        /\ \A p \in Recs \ {q} : rec'[p] = rec[p]
    BY <1>0, <1>2 DEF AuthorityApproves, RecGoto, SetRec, RecsOK, Rec
  <2>2. Abandoned(g)
    BY <1>2 DEF AuthorityApproves, Verifiable, Abandoned
  <2>3. (\A p \in Recs : RecInv(p))'
    BY <1>0, <1>2, <2>1, <2>2 DEF AuthorityApproves, IInv, RecInv, Abandoned
  <2> QED
    BY <1>2, <2>3 DEF AuthorityApproves, IInv, ClaimsInv, CallInv, OneOwner, Fence,
                      UnrecordedEffectFenced
<1>3. CASE RecAborts(q) \/ StoreRefusesToFree(q) \/ FreeResumes(q)
  <2>1. rec'[q].gen = None /\ \A p \in Recs \ {q} : rec'[p] = rec[p]
    BY <1>0, <1>3 DEF RecAborts, StoreRefusesToFree, FreeResumes, RecFinish, SetRec, RecsOK, NoRec
  <2> QED
    BY <1>3, <2>1, DisownIInv DEF RecAborts, StoreRefusesToFree, FreeResumes
<1>4. CASE DecisionResumes(q)
  <2>1. CASE active[rec[q].runner][rec[q].task] = None
    <3>1. /\ rec'[q].gen = rec[q].gen /\ rec'[q].task = rec[q].task
          /\ \A p \in Recs \ {q} : rec'[p] = rec[p]
      BY <1>0, <1>4, <2>1 DEF DecisionResumes, RecGoto, SetRec, RecsOK, Rec
    <3>2. (\A p \in Recs : RecInv(p))'
      BY <1>0, <1>4, <3>1 DEF DecisionResumes, IInv, RecInv, Abandoned
    <3> QED
      BY <1>4, <3>2 DEF DecisionResumes, IInv, ClaimsInv, CallInv, OneOwner, Fence,
                        UnrecordedEffectFenced
  <2>2. CASE active[rec[q].runner][rec[q].task] # None
    <3>1. rec'[q].gen = None /\ \A p \in Recs \ {q} : rec'[p] = rec[p]
      BY <1>0, <1>4, <2>2 DEF DecisionResumes, RecFinish, SetRec, RecsOK, NoRec
    <3> QED
      BY <1>4, <2>2, <3>1, DisownIInv DEF DecisionResumes
  <2> QED
    BY <2>1, <2>2
<1>5. CASE StoreFrees(q)
  <2> DEFINE g == rec[q].gen
             t == rec[q].task
  <2>1. /\ rec[q].pc = "free" /\ g \in Gens /\ t \in Tasks /\ claims[t] = g
        /\ Abandoned(g) /\ g \in issued /\ att[g].task = t
    BY <1>0, <1>5 DEF StoreFrees, ReleaseIfMatches, Matches, RecOK, RecInv
  <2>2. /\ rec'[q].gen = g /\ rec'[q].task = t
        /\ \A p \in Recs \ {q} : rec'[p] = rec[p]
    BY <1>0, <1>5 DEF StoreFrees, RecGoto, SetRec, RecsOK, Rec
  <2>3. claims'[t] = None /\ \A u \in Tasks \ {t} : claims'[u] = claims[u]
    BY <1>5, <2>1 DEF StoreFrees, ReleaseIfMatches, Release, TypeOK, StoreTypeOK
  <2>4. UNCHANGED <<issued, call, att, applied, recorded>> /\ reconciled' = reconciled \union {g}
    BY <1>5 DEF StoreFrees, ReleaseIfMatches, Release
  <2>5. (\A p \in Recs : RecInv(p))'
    BY <2>1, <2>2, <2>4 DEF IInv, RecInv, Abandoned
  <2>6. (\A c \in Calls : CallInv(c))'
    <3> SUFFICES ASSUME NEW c \in Calls, call[c].gen \in Gens PROVE CallInv(c)'
      BY <2>4 DEF CallInv
    <3>1. call[c].gen # g /\ CallInv(c) /\ call[c].task \in Tasks
      BY <2>1, CallFields DEF Abandoned, IInv, CallOK, Owns
    <3> QED
      BY <2>1, <2>3, <2>4, <3>1 DEF CallInv
  <2>7. ClaimsInv'
    BY <2>3, <2>4, ClaimValuesDistinct DEF IInv, ClaimsInv
  <2>8. Fence' /\ UnrecordedEffectFenced'
    <3>1. ASSUME NEW h \in Gens, h # g, claims[att[h].task] = h
          PROVE  claims'[att[h].task] = h
      BY <1>5, <2>1, <2>3, <3>1 DEF StoreFrees, ReleaseIfMatches, Release, TypeOK, StoreTypeOK
    <3> QED
      BY <2>1, <2>4, <3>1 DEF IInv, Abandoned, Fence, Live, UnrecordedEffectFenced, TypeOK
  <2> QED
    BY <2>1, <2>4, <2>5, <2>6, <2>7, <2>8 DEF IInv, OneOwner, Abandoned
<1> QED
  BY <1>1, <1>2, <1>3, <1>4, <1>5 DEF RecStep

LEMMA StartIInv ==
  ASSUME TypeOK, IInv, NEW r \in Runners, NEW t \in Tasks,
         \/ \E c \in Calls : RunStart(c, r, t)
         \/ \E q \in Recs : RecStart(q, r, t)
  PROVE  IInv'
<1> USE DEF storeVars, attemptVars
<1>1. ASSUME NEW c \in Calls, RunStart(c, r, t)
      PROVE  IInv'
  <2>1. call'[c].gen = None /\ \A d \in Calls \ {c} : call'[d] = call[d]
    BY <1>1 DEF RunStart, SetCall, TypeOK, CallsOK
  <2> QED
    BY <1>1, <2>1, DisownIInv DEF RunStart
<1>2. ASSUME NEW q \in Recs, RecStart(q, r, t)
      PROVE  IInv'
  <2>1. rec'[q].gen = None /\ \A p \in Recs \ {q} : rec'[p] = rec[p]
    BY <1>2 DEF RecStart, SetRec, TypeOK, RecsOK
  <2> QED
    BY <1>2, <2>1, DisownIInv DEF RecStart
<1> QED
  BY <1>1, <1>2

LEMMA WorldIInv ==
  ASSUME TypeOK, IInv, NEW g \in Gens, EffectApplies(g) \/ OrphanQuiesces(g)
  PROVE  IInv'
<1> USE DEF storeVars
<1>1. CASE EffectApplies(g)
  <2>1. /\ att[g].st \in {"running", "orphan"} /\ applied' = applied \union {g}
        /\ UNCHANGED <<claims, issued, call, rec, att, recorded, reconciled>>
    BY <1>1 DEF EffectApplies
  <2>2. claims[att[g].task] = g /\ g \in issued
    BY <1>1, <2>1 DEF IInv, Fence, Live, ClaimsInv, TypeOK, AttemptsOK, AttemptOK
  <2>3. (\A c \in Calls : CallInv(c))'
    BY <2>1 DEF IInv, CallInv, StateAt
  <2>4. (\A q \in Recs : RecInv(q))'
    BY <2>1 DEF IInv, RecInv, Abandoned
  <2>5. Fence' /\ UnrecordedEffectFenced' /\ ClaimsInv' /\ OneOwner'
    BY <2>1, <2>2 DEF IInv, Fence, UnrecordedEffectFenced, ClaimsInv, OneOwner
  <2> QED
    BY <2>1, <2>2, <2>3, <2>4, <2>5 DEF IInv
<1>2. CASE OrphanQuiesces(g)
  <2>1. /\ att[g].st = "orphan"
        /\ att'[g].st = "ended" /\ att'[g].task = att[g].task /\ att'[g].runner = att[g].runner
        /\ \A h \in Gens \ {g} : att'[h] = att[h]
        /\ UNCHANGED <<claims, issued, call, rec, applied, recorded, reconciled>>
    BY <1>2 DEF OrphanQuiesces, SetAttempt, TypeOK, AttemptsOK, Attempt
  <2>2. (\A c \in Calls : CallInv(c))'
    BY <2>1 DEF IInv, CallInv, StateAt
  <2>3. (\A q \in Recs : RecInv(q))'
    BY <2>1 DEF IInv, RecInv, Abandoned
  <2>4. Fence' /\ UnrecordedEffectFenced' /\ ClaimsInv' /\ OneOwner'
    BY <2>1 DEF IInv, Fence, Live, UnrecordedEffectFenced, ClaimsInv, OneOwner, TypeOK
  <2>5. (\A h \in reconciled : h \in issued /\ att[h].st = "ended" /\ h \notin applied)'
    BY <2>1 DEF IInv, TypeOK
  <2> QED
    BY <2>1, <2>2, <2>3, <2>4, <2>5 DEF IInv
<1> QED
  BY <1>1, <1>2

LEMMA CrashIInv ==
  ASSUME TypeOK, IInv, NEW r \in Runners, Crash(r)
  PROVE  IInv'
<1> USE ClaimValuesDistinct
<1>1. UNCHANGED <<claims, issued, applied, recorded, reconciled>>
  BY DEF Crash, storeVars
<1>2. \A c \in Calls : (call'[c] = call[c] /\ call[c].runner # r) \/ call'[c].gen = None
  BY DEF Crash, NoCall
<1>3. \A q \in Recs : rec'[q] = rec[q] \/ rec'[q].gen = None
  BY DEF Crash, NoRec
<1>4. ASSUME NEW g \in Gens
      PROVE  /\ att'[g].task = att[g].task /\ att'[g].runner = att[g].runner
             /\ att'[g].st \in Live => att[g].st \in Live
             /\ att[g].st = "ended" => att'[g].st = "ended"
             /\ att[g].runner # r => att'[g] = att[g]
  BY DEF Crash, TypeOK, AttemptsOK, Attempt, Live
<1>5. (\A c \in Calls : CallInv(c))'
  <2> SUFFICES ASSUME NEW c \in Calls, call'[c].gen \in Gens PROVE CallInv(c)'
    BY DEF CallInv
  <2>1. call'[c] = call[c] /\ CallInv(c) /\ call[c].runner # r
    BY <1>2 DEF IInv
  <2> QED
    BY <1>1, <1>4, <2>1 DEF CallInv, StateAt
<1>6. OneOwner'
  BY <1>2 DEF IInv, OneOwner
<1>7. (\A q \in Recs : RecInv(q))'
  <2> SUFFICES ASSUME NEW q \in Recs, rec'[q].gen \in Gens PROVE RecInv(q)'
    BY DEF RecInv
  <2>1. rec'[q] = rec[q] /\ RecInv(q)
    BY <1>3 DEF IInv
  <2>2. Abandoned(rec[q].gen) => Abandoned(rec[q].gen)'
    BY <1>1, <1>2, <1>4, <2>1 DEF Abandoned
  <2> QED
    BY <1>1, <1>4, <2>1, <2>2 DEF RecInv
<1>8. ClaimsInv' /\ Fence' /\ UnrecordedEffectFenced'
  BY <1>1, <1>4 DEF IInv, ClaimsInv, Fence, UnrecordedEffectFenced, TypeOK
<1>9. (\A h \in reconciled : h \in issued /\ att[h].st = "ended" /\ h \notin applied)'
  BY <1>1, <1>4 DEF IInv, TypeOK
<1> QED
  BY <1>1, <1>5, <1>6, <1>7, <1>8, <1>9 DEF IInv

LEMMA NextIInv ==
  ASSUME OwnerEnded, TypeOK, IInv, [Next]_vars
  PROVE  IInv'
<1>1. CASE UNCHANGED vars
  BY <1>1, DisownIInv DEF vars
<1>2. CASE Next
  BY <1>2, CallStepIInv, StartIInv, RecStepIInv, ToolsIInv, WorldIInv, CrashIInv DEF Next
<1> QED
  BY <1>1, <1>2

LEMMA Inductive == ASSUME OwnerEnded PROVE Spec => []IInv
<1>1. TypeOK /\ IInv /\ [Next]_vars => IInv'
  BY NextIInv
<1> QED
  BY InitIInv, <1>1, TypeCorrect, PTL DEF Spec

\* With an authority that waits for the owning run() to end, nobody can start a
\* task while an earlier attempt may still act: claims are never lost, whatever
\* times out, crashes, fails to clean up or is reconciled in between.
THEOREM FenceHolds == ASSUME OwnerEnded PROVE Spec => []Fence
<1>1. IInv => Fence
  BY DEF IInv
<1> QED
  BY <1>1, Inductive, PTL

\* An external effect without a durable result is never executed again.
THEOREM UnrecordedEffectStaysFenced == ASSUME OwnerEnded PROVE Spec => []UnrecordedEffectFenced
<1>1. IInv => UnrecordedEffectFenced
  BY DEF IInv
<1> QED
  BY <1>1, Inductive, PTL

\* No receipt is ever issued, before or after the fact, for an applied effect.
THEOREM ReceiptsStayTrue == ASSUME OwnerEnded PROVE Spec => []ReceiptsAreTrue
<1>1. IInv => ReceiptsAreTrue
  BY DEF IInv, ReceiptsAreTrue
<1> QED
  BY <1>1, Inductive, PTL

-----------------------------------------------------------------------------
(* How a claim leaves the store *)

\* Only three steps touch the store: a claim, a cleanup and a reconciliation.
LEMMA ClaimChanges ==
  ASSUME TypeOK, IInv, [Next]_vars, NEW t \in Tasks, claims'[t] # claims[t]
  PROVE  \/ claims[t] = None
         \/ \E c \in Calls : call[c].pc = "release" /\ call[c].gen = claims[t]
                           /\ claims[t] \in Gens
         \/ \E q \in Recs : rec[q].pc = "free" /\ rec[q].gen = claims[t] /\ claims[t] \in Gens
<1>1. Next
  BY DEF vars
<1>2. CASE \E c \in Calls : CallStep(c)
  <2>1. PICK c \in Calls : CallStep(c)
    BY <1>2
  <2>2. CASE \E g \in Gens : StoreClaims(c, g)
    BY <2>2, CallFields DEF StoreClaims, ClaimAs, Has, TypeOK, StoreTypeOK
  <2>3. CASE StoreReleases(c)
    <3>1. call[c].pc = "release" /\ call[c].gen \in Gens
      BY <2>3, CallFields DEF StoreReleases, Owns
    <3>2. claims[call[c].task] = call[c].gen
      BY <3>1 DEF IInv, CallInv
    <3>3. t = call[c].task
      BY <2>3 DEF StoreReleases, Release, TypeOK, StoreTypeOK
    <3> QED
      BY <3>1, <3>2, <3>3
  <2> QED
    BY <2>1, <2>2, <2>3
    DEF CallStep, StoreHas, HasResumes, StoreThrows, StoreRefusesClaim, ClaimResumes, Timeout,
        AppendSucceeds, AppendFails, ReleaseResumes, ReleaseThrows, storeVars
<1>3. CASE \E q \in Recs : RecStep(q)
  <2>1. PICK q \in Recs : RecStep(q)
    BY <1>3
  <2>2. CASE StoreFrees(q)
    BY <2>2 DEF StoreFrees, ReleaseIfMatches, Matches, Release, TypeOK, StoreTypeOK
  <2> QED
    BY <2>1, <2>2
    DEF RecStep, StoreInspects, AuthorityApproves, RecAborts, DecisionResumes,
        StoreRefusesToFree, FreeResumes, storeVars
<1> QED
  BY <1>1, <1>2, <1>3
  DEF Next, RunStart, RecStart, ToolResolves, ToolRejects, EffectApplies, OrphanQuiesces,
      Crash, storeVars

\* A claim leaves only through its owner's cleanup or a reconciliation naming it.
THEOREM ClaimsOnlyLeaveByName == ASSUME OwnerEnded PROVE Spec => ClaimsLeaveByName
<1>1. TypeOK /\ IInv /\ [Next]_vars =>
        [\A t \in Tasks :
           claims[t] \in Gens /\ claims'[t] # claims[t] =>
             \/ \E c \in Calls : call[c].pc = "release" /\ call[c].gen = claims[t]
             \/ \E q \in Recs : rec[q].pc = "free" /\ rec[q].gen = claims[t]]_vars
  BY ClaimChanges, ClaimValuesDistinct
<1> QED
  BY <1>1, TypeCorrect, Inductive, PTL DEF Spec, ClaimsLeaveByName

\* A legacy record is never removed by any step of any runner.
THEOREM LegacyIsPermanent == ASSUME OwnerEnded PROVE Spec => LegacyStays
<1>1. TypeOK /\ IInv /\ [Next]_vars =>
        [\A t \in Tasks : claims[t] = Legacy => claims'[t] = Legacy]_vars
  BY ClaimChanges, ClaimValuesDistinct
<1> QED
  BY <1>1, TypeCorrect, Inductive, PTL DEF Spec, LegacyStays

-----------------------------------------------------------------------------
(* Why a claim stays behind *)

\* Under AgentRuntime a runner has one call per task, so nobody else can mark
\* the task while that call claims it and runs its tool.
OneCallPerTask ==
  \A c, d \in Calls :
    /\ call[c].pc # "idle" /\ call[d].pc # "idle"
    /\ call[c].runner = call[d].runner /\ call[c].task = call[d].task
    => c = d

UnmarkedWhileRunning ==
  \A c \in Calls :
    call[c].pc = "claim" \/ (Owns(call[c]) /\ call[c].pc \in {"claimDone", "exec"}) =>
      call[c].task \notin marker[call[c].runner]

ReleasedIsGone ==
  \A c \in Calls : call[c].pc = "released" => claims[call[c].task] # call[c].gen

\* A claim that no call owns was left behind knowingly.
UnownedIsStranded ==
  \A g \in Gens : /\ att[g].st # "unused" /\ claims[att[g].task] = g
                  /\ \A c \in Calls : call[c].gen # g
                  => g \in stranded

JInv == OneCallPerTask /\ UnmarkedWhileRunning /\ ReleasedIsGone /\ UnownedIsStranded

LEMMA InitJInv == Init => JInv
  BY ClaimValuesDistinct
  DEF Init, JInv, StoreInit, OneCallPerTask, UnmarkedWhileRunning, ReleasedIsGone,
      UnownedIsStranded, NoCall, NoAttempt, Owns

\* A step of one call leaves the others alone and never changes what the call is
\* about; what it owns it keeps until it finishes.
LEMMA CallStepFrame ==
  ASSUME TypeOK, NEW c \in Calls, CallStep(c)
  PROVE  /\ \A d \in Calls \ {c} : call'[d] = call[d]
         /\ call[c].pc # "idle"
         /\ \/ call'[c] = NoCall
            \/ /\ call'[c].runner = call[c].runner /\ call'[c].task = call[c].task
               /\ call[c].gen \in Gens => call'[c].gen = call[c].gen
<1> USE DEF SetCall, Goto, Finish
<1>0. call[c] \in Call /\ call \in [Calls -> Call] /\ CallOK(call[c])
  BY CallFields DEF TypeOK, CallsOK
<1>1. CASE StoreHas(c)
  <2> DEFINE k == [call[c] EXCEPT !.pc = "hasDone", !.ok = Has(call[c].task)]
  <2>1. k.gen = call[c].gen /\ k.runner = call[c].runner /\ k.task = call[c].task
    BY <1>0 DEF Call
  <2>2. call' = [call EXCEPT ![c] = k] /\ call[c].pc = "has"
    BY <1>1 DEF StoreHas
  <2> QED
    BY <1>0, <2>1, <2>2
<1>2. CASE HasResumes(c)
  BY <1>0, <1>2 DEF HasResumes, Call
<1>3. CASE StoreThrows(c)
  BY <1>0, <1>3 DEF StoreThrows, Call
<1>4. ASSUME NEW g \in Gens, StoreClaims(c, g)
      PROVE  /\ \A d \in Calls \ {c} : call'[d] = call[d]
             /\ call[c].pc = "claim"
             /\ call'[c].runner = call[c].runner /\ call'[c].task = call[c].task
             /\ call[c].gen \notin Gens
  BY <1>0, <1>4 DEF StoreClaims, Call, CallOK, Owns
<1>5. CASE StoreRefusesClaim(c)
  BY <1>0, <1>5 DEF StoreRefusesClaim, Call
<1>6. CASE ClaimResumes(c)
  BY <1>0, <1>6 DEF ClaimResumes, Call
<1>7. CASE Timeout(c) \/ AppendFails(c) \/ ReleaseResumes(c) \/ ReleaseThrows(c)
  BY <1>0, <1>7 DEF Timeout, AppendFails, ReleaseResumes, ReleaseThrows
<1>8. CASE AppendSucceeds(c)
  BY <1>0, <1>8 DEF AppendSucceeds, Call
<1>9. CASE StoreReleases(c)
  BY <1>0, <1>9 DEF StoreReleases, Call
<1> QED
  BY <1>1, <1>2, <1>3, <1>4, <1>5, <1>6, <1>7, <1>8, <1>9 DEF CallStep

LEMMA CallStepOneCall ==
  ASSUME TypeOK, OneCallPerTask, NEW c \in Calls, CallStep(c)
  PROVE  OneCallPerTask'
<1> SUFFICES ASSUME NEW d \in Calls, NEW e \in Calls,
                    call'[d].pc # "idle", call'[e].pc # "idle",
                    call'[d].runner = call'[e].runner, call'[d].task = call'[e].task
             PROVE  d = e
  BY DEF OneCallPerTask
<1>1. ASSUME NEW f \in Calls, call'[f].pc # "idle"
      PROVE  call[f].pc # "idle" /\ call'[f].runner = call[f].runner /\ call'[f].task = call[f].task
  BY <1>1, CallStepFrame DEF NoCall
<1> QED
  BY <1>1 DEF OneCallPerTask

LEMMA CallStepUnmarked ==
  ASSUME TypeOK, JInv, NEW c \in Calls, CallStep(c)
  PROVE  UnmarkedWhileRunning'
<1> DEFINE Clean(d) == call[d].pc = "claim" \/ (Owns(call[d]) /\ call[d].pc \in {"claimDone", "exec"})
           r == call[c].runner
           t == call[c].task
<1>1. ASSUME NEW d \in Calls \ {c}, call[d].pc # "idle", call[d].runner = r
      PROVE  call[d].task # t
  BY <1>1, CallStepFrame DEF JInv, OneCallPerTask
<1>2. ASSUME NEW d \in Calls \ {c}, Clean(d)
      PROVE  call'[d].task \notin marker'[call'[d].runner]
  <2>1. call'[d] = call[d] /\ call[d].runner \in Runners /\ call[d].task \notin marker[call[d].runner]
        /\ call[d].pc # "idle"
    BY <1>2, CallStepFrame, CallFields DEF JInv, UnmarkedWhileRunning, Owns
  <2>2. \/ marker' = marker \/ Mark(r, t) \/ Unmark(r, t)
    BY DEF CallStep, StoreHas, HasResumes, StoreThrows, StoreClaims, StoreRefusesClaim, ClaimResumes,
           Timeout, AppendSucceeds, AppendFails, StoreReleases, ReleaseResumes, ReleaseThrows
  <2> QED
    BY <1>1, <2>1, <2>2 DEF Mark, Unmark, TypeOK
<1>3. CASE Clean(c)' => t \notin marker'[r] /\ call'[c].runner = r /\ call'[c].task = t
  BY <1>2, <1>3, CallStepFrame DEF UnmarkedWhileRunning
<1>4. Clean(c)' => t \notin marker'[r] /\ call'[c].runner = r /\ call'[c].task = t
  <2> SUFFICES ASSUME Clean(c)' PROVE t \notin marker'[r]
    BY CallStepFrame DEF NoCall, Owns
  <2>0. call[c] \in Call /\ call \in [Calls -> Call] /\ CallOK(call[c]) /\ r \in Runners
    BY CallFields, CallStepFrame DEF TypeOK, CallsOK
  <2>1. CASE HasResumes(c)
    BY <2>0, <2>1 DEF HasResumes, Unmark, Finish, SetCall, NoCall, Owns, TypeOK
  <2>2. CASE \E g \in Gens : StoreClaims(c, g)
    BY <2>2 DEF StoreClaims, JInv, UnmarkedWhileRunning
  <2>3. CASE ClaimResumes(c)
    <3>1. CASE call[c].ok
      BY <2>3, <3>1 DEF ClaimResumes, JInv, UnmarkedWhileRunning, Owns
    <3>2. CASE ~call[c].ok
      BY <2>0, <2>3, <3>2 DEF ClaimResumes, Finish, SetCall, NoCall, Owns
    <3> QED
      BY <3>1, <3>2
  <2>4. CASE StoreHas(c) \/ StoreRefusesClaim(c) \/ AppendSucceeds(c) \/ StoreReleases(c)
    <3>1. CASE StoreHas(c)
      <4> DEFINE k == [call[c] EXCEPT !.pc = "hasDone", !.ok = Has(call[c].task)]
      <4>1. k.pc = "hasDone"
        BY <2>0 DEF Call
      <4>2. call' = [call EXCEPT ![c] = k]
        BY <3>1 DEF StoreHas, SetCall
      <4>3. call'[c].pc = "hasDone"
        BY <2>0, <4>1, <4>2
      <4> QED
        BY <4>3 DEF Owns
    <3>2. CASE StoreRefusesClaim(c)
      BY <2>0, <3>2 DEF StoreRefusesClaim, SetCall, Owns, Call
    <3>3. CASE AppendSucceeds(c) \/ StoreReleases(c)
      BY <2>0, <3>3 DEF AppendSucceeds, StoreReleases, Goto, SetCall, Owns, Call
    <3> QED
      BY <2>4, <3>1, <3>2, <3>3
  <2>5. CASE StoreThrows(c) \/ Timeout(c) \/ AppendFails(c) \/ ReleaseResumes(c) \/ ReleaseThrows(c)
    BY <2>0, <2>5
    DEF StoreThrows, Timeout, AppendFails, ReleaseResumes, ReleaseThrows, Finish, SetCall, NoCall, Owns
  <2> QED
    BY <2>1, <2>2, <2>3, <2>4, <2>5 DEF CallStep
<1> QED
  BY <1>3, <1>4

LEMMA CallStepReleased ==
  ASSUME TypeOK, IInv, JInv, NEW c \in Calls, CallStep(c)
  PROVE  ReleasedIsGone'
<1> SUFFICES ASSUME NEW d \in Calls, call'[d].pc = "released"
             PROVE  claims'[call'[d].task] # call'[d].gen
  BY DEF ReleasedIsGone
<1>0. call[c] \in Call /\ call \in [Calls -> Call] /\ CallOK(call[c])
  BY CallFields DEF TypeOK, CallsOK
<1>1. CASE StoreReleases(c)
  <2>1. /\ call[c].pc = "release" /\ call[c].gen \in Gens /\ call[c].task \in Tasks
        /\ claims[call[c].task] = call[c].gen
        /\ claims' = [claims EXCEPT ![call[c].task] = None]
    BY <1>1, CallFields DEF StoreReleases, Release, Owns, IInv, CallInv
  <2>2. CASE d = c
    BY <1>0, <1>1, <2>1, <2>2, ClaimValuesDistinct
       DEF StoreReleases, Goto, SetCall, Call, TypeOK, StoreTypeOK
  <2>3. CASE d # c
    <3>1. call'[d] = call[d] /\ call[d].gen \in Gens /\ call[d].task \in Tasks
      BY <2>3, CallStepFrame, CallFields DEF Owns
    <3> QED
      BY <2>1, <3>1, ClaimValuesDistinct DEF JInv, ReleasedIsGone, TypeOK, StoreTypeOK
  <2> QED
    BY <2>2, <2>3
<1>2. CASE ~StoreReleases(c)
  <2>1. d # c
    <3>1. ASSUME StoreHas(c)
          PROVE  call'[c].pc = "hasDone"
      <4> DEFINE k == [call[c] EXCEPT !.pc = "hasDone", !.ok = Has(call[c].task)]
      <4>1. k.pc = "hasDone" /\ call' = [call EXCEPT ![c] = k]
        BY <1>0, <3>1 DEF Call, StoreHas, SetCall
      <4> QED
        BY <1>0, <4>1
    <3>2. ASSUME HasResumes(c) \/ ClaimResumes(c) \/ AppendSucceeds(c)
          PROVE  call'[c].pc # "released"
      BY <1>0, <3>2 DEF HasResumes, ClaimResumes, AppendSucceeds, SetCall, Goto, Finish, NoCall, Call
    <3>3. ASSUME StoreThrows(c) \/ Timeout(c) \/ AppendFails(c) \/ ReleaseResumes(c) \/ ReleaseThrows(c)
          PROVE  call'[c].pc # "released"
      BY <1>0, <3>3
      DEF StoreThrows, Timeout, AppendFails, ReleaseResumes, ReleaseThrows, SetCall, Finish, NoCall
    <3>4. ASSUME StoreRefusesClaim(c) \/ \E g \in Gens : StoreClaims(c, g)
          PROVE  call'[c].pc # "released"
      <4>1. PICK k \in Call : k.pc = "claimDone" /\ call' = [call EXCEPT ![c] = k]
        <5>1. CASE StoreRefusesClaim(c)
          <6>1. [call[c] EXCEPT !.pc = "claimDone", !.ok = FALSE] \in Call
            BY <1>0 DEF Call, CallPcs
          <6>. QED BY <1>0, <5>1, <6>1 DEF StoreRefusesClaim, SetCall, Call
        <5>2. ASSUME NEW g \in Gens, StoreClaims(c, g)
              PROVE  \E k \in Call : k.pc = "claimDone" /\ call' = [call EXCEPT ![c] = k]
          <6>1. [call[c] EXCEPT !.pc = "claimDone", !.ok = TRUE, !.gen = g] \in Call
            BY <1>0 DEF Call, CallPcs
          <6>. QED BY <1>0, <5>2, <6>1 DEF StoreClaims, SetCall, Call
        <5>. QED BY <3>4, <5>1, <5>2
      <4>. QED BY <1>0, <4>1
    <3> QED
      BY <1>2, <3>1, <3>2, <3>3, <3>4 DEF CallStep
  <2>2. call'[d] = call[d] /\ call[d].gen \in Gens /\ call[d].task \in Tasks
        /\ claims[call[d].task] # call[d].gen
    BY <2>1, CallStepFrame, CallFields DEF Owns, JInv, ReleasedIsGone
  <2>3. CASE \E g \in Gens : StoreClaims(c, g)
    <3>1. PICK g \in Gens : StoreClaims(c, g)
      BY <2>3
    <3>2. call[d].gen # g
      BY <2>2, <3>1 DEF StoreClaims, ClaimAs, IInv, CallInv
    <3> QED
      BY <2>2, <3>1, <3>2 DEF StoreClaims, ClaimAs, TypeOK, StoreTypeOK
  <2>4. CASE claims' = claims
    BY <2>2, <2>4
  <2> QED
    BY <1>2, <2>3, <2>4
    DEF CallStep, StoreHas, HasResumes, StoreThrows, StoreRefusesClaim, ClaimResumes,
        Timeout, AppendSucceeds, AppendFails, ReleaseResumes, ReleaseThrows, storeVars
<1> QED
  BY <1>1, <1>2

LEMMA CallStepUnowned ==
  ASSUME TypeOK, IInv, JInv, NEW c \in Calls, CallStep(c)
  PROVE  UnownedIsStranded'
<1> SUFFICES ASSUME NEW g \in Gens, att'[g].st # "unused", claims'[att'[g].task] = g,
                    \A d \in Calls : call'[d].gen # g
             PROVE  g \in stranded'
  BY DEF UnownedIsStranded
<1>0. call[c] \in Call /\ call \in [Calls -> Call] /\ CallOK(call[c]) /\ call[c].pc # "idle"
  BY CallFields, CallStepFrame DEF TypeOK, CallsOK
<1>1. CASE \E h \in Gens : StoreClaims(c, h)
  <2>1. PICK h \in Gens : StoreClaims(c, h)
    BY <1>1
  <2>2. call'[c].gen = h
    BY <1>0, <2>1 DEF StoreClaims, SetCall, Call
  <2>3. g # h /\ att'[g] = att[g] /\ claims[att[g].task] = g /\ stranded' = stranded
    BY <2>1, <2>2 DEF StoreClaims, ClaimAs, SetAttempt, TypeOK, StoreTypeOK, AttemptsOK, AttemptOK
  <2>4. \A d \in Calls : call[d].gen # g
    <3>1. call[c].gen \notin Gens
      BY <1>0, <2>1 DEF StoreClaims, CallOK, Owns
    <3> QED
      BY <3>1, CallStepFrame
  <2> QED
    BY <2>3, <2>4 DEF JInv, UnownedIsStranded
<1>2. ASSUME \A h \in Gens : ~StoreClaims(c, h)
      PROVE  g \in stranded'
  <2>1. att'[g].task = att[g].task /\ att[g].st # "unused"
    <3>1. CASE ClaimResumes(c) /\ call[c].ok
      <4>1. call[c].gen \in Gens /\ CallInv(c) /\ call[c].pc = "claimDone"
        BY <1>0, <3>1 DEF ClaimResumes, CallOK, Owns, IInv
      <4>2. att[call[c].gen].st = "claimed" /\ att[call[c].gen].task = call[c].task
        BY <4>1 DEF CallInv, StateAt
      <4> QED
        BY <3>1, <4>1, <4>2 DEF ClaimResumes, SetAttempt, AttemptOf, TypeOK, AttemptsOK
    <3>2. CASE att' = att
      BY <3>2
    <3> QED
      BY <1>2, <3>1, <3>2
      DEF CallStep, StoreHas, HasResumes, StoreThrows, StoreRefusesClaim, ClaimResumes, Timeout,
          AppendSucceeds, AppendFails, StoreReleases, ReleaseResumes, ReleaseThrows, attemptVars
  <2>2. claims[att[g].task] = g /\ att[g].task \in Tasks
    <3>1. att[g].task \in Tasks
      BY <2>1 DEF TypeOK, AttemptsOK, AttemptOK
    <3>2. CASE StoreReleases(c)
      BY <2>1, <3>1, <3>2, ClaimValuesDistinct DEF StoreReleases, Release, TypeOK, StoreTypeOK
    <3>3. CASE claims' = claims
      BY <2>1, <3>1, <3>3
    <3> QED
      BY <1>2, <3>2, <3>3
      DEF CallStep, StoreHas, HasResumes, StoreThrows, StoreRefusesClaim, ClaimResumes, Timeout,
          AppendSucceeds, AppendFails, ReleaseResumes, ReleaseThrows, storeVars
  <2>3. stranded \subseteq stranded'
    BY DEF CallStep, StoreHas, HasResumes, StoreThrows, StoreClaims, StoreRefusesClaim, ClaimResumes,
           Timeout, AppendSucceeds, AppendFails, StoreReleases, ReleaseResumes, ReleaseThrows,
           attemptVars
  <2>4. CASE \A d \in Calls : call[d].gen # g
    BY <2>1, <2>2, <2>3, <2>4 DEF JInv, UnownedIsStranded
  <2>5. CASE \E d \in Calls : call[d].gen = g
    <3>1. call[c].gen = g /\ call'[c] = NoCall
      BY <2>5, CallStepFrame
    <3>2. Owns(call[c]) /\ CallInv(c) /\ call[c].task = att[g].task
      BY <1>0, <3>1 DEF CallOK, IInv, CallInv
    <3>3. ~ReleaseResumes(c)
      BY <2>2, <3>1, <3>2 DEF ReleaseResumes, JInv, ReleasedIsGone
    <3>4. CASE Timeout(c) \/ AppendFails(c) \/ ReleaseThrows(c)
      BY <3>1, <3>4 DEF Timeout, AppendFails, ReleaseThrows
    <3>5. ~StoreHas(c) /\ ~HasResumes(c) /\ ~StoreThrows(c) /\ ~StoreRefusesClaim(c)
      BY <3>2 DEF Owns, StoreHas, HasResumes, StoreThrows, StoreRefusesClaim
    <3>6. ~ClaimResumes(c) /\ ~AppendSucceeds(c) /\ ~StoreReleases(c)
      BY <1>0, <3>1, <3>2 DEF Owns, ClaimResumes, AppendSucceeds, StoreReleases, Goto, SetCall, NoCall, Call
    <3> QED
      BY <1>2, <3>3, <3>4, <3>5, <3>6 DEF CallStep
  <2> QED
    BY <2>4, <2>5
<1> QED
  BY <1>1, <1>2

LEMMA CallStepJInv ==
  ASSUME TypeOK, IInv, JInv, NEW c \in Calls, CallStep(c)
  PROVE  JInv'
  BY CallStepOneCall, CallStepUnmarked, CallStepReleased, CallStepUnowned DEF JInv

LEMMA RunStartJInv ==
  ASSUME TypeOK, JInv, Reserving, NEW c \in Calls, NEW r \in Runners, NEW t \in Tasks,
         RunStart(c, r, t)
  PROVE  JInv'
<1>1. /\ call'[c].runner = r /\ call'[c].task = t /\ call'[c].gen = None /\ call'[c].ok = FALSE
      /\ call'[c].pc \in {"has", "claim"} /\ (call'[c].pc = "claim" => t \notin marker[r])
      /\ \A d \in Calls \ {c} : call'[d] = call[d]
  BY DEF RunStart, SetCall, TypeOK, CallsOK
<1>2. \A d \in Calls : call[d].pc # "idle" /\ call[d].runner = r => call[d].task # t
  BY DEF RunStart, Reserved
<1>3. UNCHANGED <<claims, att, marker, stranded>> /\ call[c].pc = "idle" /\ call[c].gen \notin Gens
  BY CallFields DEF RunStart, storeVars, attemptVars, CallOK, Owns
<1>4. OneCallPerTask'
  <2> SUFFICES ASSUME NEW d \in Calls, NEW e \in Calls, call'[d].pc # "idle", call'[e].pc # "idle",
                      call'[d].runner = call'[e].runner, call'[d].task = call'[e].task
               PROVE  d = e
    BY DEF OneCallPerTask
  <2> QED
    BY <1>1, <1>2 DEF JInv, OneCallPerTask
<1>5. UnmarkedWhileRunning' /\ ReleasedIsGone'
  BY <1>1, <1>3 DEF JInv, UnmarkedWhileRunning, ReleasedIsGone, Owns
<1>6. UnownedIsStranded'
  BY <1>1, <1>3 DEF JInv, UnownedIsStranded
<1> QED
  BY <1>4, <1>5, <1>6 DEF JInv

\* Steps of everybody else take nothing from a call and only remove markers.
LEMMA OtherJInv ==
  ASSUME TypeOK, JInv,
         \A c \in Calls : \/ call'[c] = call[c]
                         \/ /\ call'[c].pc \in {"append", "release"}
                            /\ call'[c].gen = call[c].gen /\ call'[c].task = call[c].task
                            /\ call'[c].runner = call[c].runner /\ call[c].pc # "idle",
         \A r \in Runners : marker'[r] \subseteq marker[r],
         \A t \in Tasks : claims'[t] \in {claims[t], None},
         \A g \in Gens : att'[g].task = att[g].task
                        /\ (att'[g].st # "unused" => att[g].st # "unused"),
         stranded' = stranded
  PROVE  JInv'
<1>1. OneCallPerTask'
  BY DEF JInv, OneCallPerTask
<1>2. UnmarkedWhileRunning'
  <2> SUFFICES ASSUME NEW c \in Calls,
                      call'[c].pc = "claim" \/ (Owns(call'[c]) /\ call'[c].pc \in {"claimDone", "exec"})
               PROVE  call'[c].task \notin marker'[call'[c].runner]
    BY DEF UnmarkedWhileRunning
  <2>1. call'[c] = call[c] /\ call[c].runner \in Runners
    BY CallFields
  <2> QED
    BY <2>1 DEF JInv, UnmarkedWhileRunning
<1>3. ReleasedIsGone'
  <2> SUFFICES ASSUME NEW c \in Calls, call'[c].pc = "released"
               PROVE  claims'[call'[c].task] # call'[c].gen
    BY DEF ReleasedIsGone
  <2>1. call'[c] = call[c] /\ call[c].gen \in Gens /\ call[c].task \in Tasks
    BY CallFields DEF Owns
  <2> QED
    BY <2>1, ClaimValuesDistinct DEF JInv, ReleasedIsGone
<1>4. UnownedIsStranded'
  <2> SUFFICES ASSUME NEW g \in Gens, att'[g].st # "unused", claims'[att'[g].task] = g,
                      \A c \in Calls : call'[c].gen # g
               PROVE  g \in stranded
    BY DEF UnownedIsStranded
  <2>1. att[g].st # "unused" /\ att[g].task \in Tasks /\ claims[att[g].task] = g
    BY ClaimValuesDistinct DEF TypeOK, AttemptsOK, AttemptOK
  <2> QED
    BY <2>1 DEF JInv, UnownedIsStranded
<1> QED
  BY <1>1, <1>2, <1>3, <1>4 DEF JInv

LEMMA ToolsJInv ==
  ASSUME TypeOK, IInv, JInv, NEW g \in Gens, ToolResolves(g) \/ ToolRejects(g)
  PROVE  JInv'
<1>1. ToolSettles(g) /\ UNCHANGED <<claims, marker, stranded>>
  BY DEF ToolResolves, ToolRejects, storeVars
<1>2. \A h \in Gens : att'[h].task = att[h].task /\ (att'[h].st # "unused" => att[h].st # "unused")
  BY <1>1 DEF ToolSettles, SetAttempt, TypeOK, AttemptsOK, Attempt
<1>3. ASSUME NEW c \in Calls
      PROVE  \/ call'[c] = call[c]
             \/ /\ call'[c].pc \in {"append", "release"}
                /\ call'[c].gen = call[c].gen /\ call'[c].task = call[c].task
                /\ call'[c].runner = call[c].runner /\ call[c].pc # "idle"
  <2>0. call[c] \in Call
    BY CallFields
  <2>1. CASE Awaits(c, g)
    <3>1. AfterRejection(c) = [call[c] EXCEPT !.pc = "release"] /\ call[c].pc = "exec"
      BY <2>1 DEF Awaits, AfterRejection, JInv, UnmarkedWhileRunning, Owns
    <3> QED
      BY <2>0, <2>1, <3>1 DEF ToolResolves, ToolRejects, Call
  <2>2. CASE ~Awaits(c, g)
    BY <2>2 DEF ToolResolves, ToolRejects
  <2> QED
    BY <2>1, <2>2
<1> QED
  BY <1>1, <1>2, <1>3, OtherJInv

LEMMA RecsJInv ==
  ASSUME TypeOK, JInv, NEW q \in Recs,
         RecStep(q) \/ \E r \in Runners, t \in Tasks : RecStart(q, r, t)
  PROVE  JInv'
<1>1. UNCHANGED <<call, att, stranded>>
  BY DEF RecStep, RecStart, StoreInspects, AuthorityApproves, RecAborts, DecisionResumes,
         StoreFrees, StoreRefusesToFree, FreeResumes, attemptVars
<1>2. \A t \in Tasks : claims'[t] \in {claims[t], None}
  BY DEF RecStep, RecStart, StoreInspects, AuthorityApproves, RecAborts, DecisionResumes,
         StoreFrees, ReleaseIfMatches, Release, StoreRefusesToFree, FreeResumes, storeVars,
         TypeOK, StoreTypeOK
<1>3. \A r \in Runners : marker'[r] \subseteq marker[r]
  BY DEF RecStep, RecStart, StoreInspects, AuthorityApproves, RecAborts, DecisionResumes,
         StoreFrees, StoreRefusesToFree, FreeResumes, Unmark, TypeOK
<1> QED
  BY <1>1, <1>2, <1>3, OtherJInv

LEMMA WorldJInv ==
  ASSUME TypeOK, JInv, NEW g \in Gens, EffectApplies(g) \/ OrphanQuiesces(g)
  PROVE  JInv'
<1>1. \A h \in Gens : att'[h].task = att[h].task /\ (att'[h].st # "unused" => att[h].st # "unused")
  BY DEF EffectApplies, OrphanQuiesces, SetAttempt, TypeOK, AttemptsOK, Attempt
<1>2. UNCHANGED <<call, claims, marker, stranded>>
  BY DEF EffectApplies, OrphanQuiesces, storeVars
<1> QED
  BY <1>1, <1>2, OtherJInv

LEMMA CrashJInv ==
  ASSUME TypeOK, IInv, JInv, NEW r \in Runners, Crash(r)
  PROVE  JInv'
<1>1. \A c \in Calls : call'[c] = IF call[c].runner = r THEN NoCall ELSE call[c]
  BY DEF Crash
<1>2. claims' = claims /\ \A p \in Runners : marker'[p] \subseteq marker[p]
  BY DEF Crash, storeVars, TypeOK
<1>3. OneCallPerTask'
  BY <1>1 DEF JInv, OneCallPerTask, NoCall
<1>4. UnmarkedWhileRunning' /\ ReleasedIsGone'
  BY <1>1, <1>2, CallFields DEF JInv, UnmarkedWhileRunning, ReleasedIsGone, NoCall, Owns
<1>5. UnownedIsStranded'
  <2> SUFFICES ASSUME NEW g \in Gens, att'[g].st # "unused", claims[att'[g].task] = g,
                      \A c \in Calls : call'[c].gen # g
               PROVE  g \in stranded'
    BY <1>2 DEF UnownedIsStranded
  <2>1. att'[g].task = att[g].task /\ att[g].st # "unused"
        /\ stranded' = stranded \union {h \in issued : att[h].runner = r}
    BY DEF Crash, TypeOK, AttemptsOK, Attempt
  <2>2. g \in issued
    BY <2>1 DEF IInv, ClaimsInv, TypeOK, AttemptsOK, AttemptOK
  <2>3. CASE \E c \in Calls : call[c].gen = g
    <3>1. PICK c \in Calls : call[c].gen = g
      BY <2>3
    <3>2. call[c].runner = r /\ CallInv(c)
      BY <1>1, <3>1 DEF IInv
    <3> QED
      BY <2>1, <2>2, <3>1, <3>2 DEF CallInv
  <2>4. CASE \A c \in Calls : call[c].gen # g
    BY <2>1, <2>4 DEF JInv, UnownedIsStranded
  <2> QED
    BY <2>3, <2>4
<1> QED
  BY <1>3, <1>4, <1>5 DEF JInv

\* Behind AgentRuntime, a claim stays behind an ended attempt only for a reason
\* the runner knows; in particular an ordinary rejection stays retryable.
THEOREM TombstonesAreJustified ==
  ASSUME OwnerEnded, Reserving PROVE Spec => []TombstonesJustified
<1>1. TypeOK /\ IInv /\ JInv /\ [Next]_vars => JInv'
  <2> SUFFICES ASSUME TypeOK, IInv, JInv, [Next]_vars PROVE JInv'
    OBVIOUS
  <2>1. CASE UNCHANGED vars
    BY <2>1, OtherJInv DEF vars
  <2>2. CASE Next
    BY <2>2, CallStepJInv, RunStartJInv, RecsJInv, ToolsJInv, WorldJInv, CrashJInv DEF Next
  <2> QED
    BY <2>1, <2>2
<1>2. JInv => TombstonesJustified
  BY DEF JInv, UnownedIsStranded, TombstonesJustified
<1> QED
  BY InitJInv, <1>1, <1>2, TypeCorrect, Inductive, PTL DEF Spec

-----------------------------------------------------------------------------
(* What the runners do to their store *)

\* Whatever runners, reconcilers and crashes do, the store sees nothing but its
\* own operations, so what is proved of a store holds below the runners.
THEOREM RunnersUseTheStore == Spec => StoreSpec
<1>1. Init => StoreInit
  BY DEF Init
<1>2. TypeOK /\ [Next]_vars => [StoreNext]_storeVars
  <2> SUFFICES ASSUME TypeOK, Next PROVE StoreNext \/ UNCHANGED storeVars
    BY DEF vars, storeVars
  <2>1. CASE \E c \in Calls : CallStep(c)
    <3>1. PICK c \in Calls : CallStep(c)
      BY <2>1
    <3>2. call[c].pc # "idle" => call[c].task \in Tasks
      BY CallFields
    <3>3. CASE \E g \in Gens : StoreClaims(c, g)
      BY <3>2, <3>3 DEF StoreClaims, StoreNext
    <3>4. CASE StoreReleases(c)
      BY <3>2, <3>4 DEF StoreReleases, StoreNext
    <3> QED
      BY <3>1, <3>3, <3>4
      DEF CallStep, StoreHas, HasResumes, StoreThrows, StoreRefusesClaim, ClaimResumes, Timeout,
          AppendSucceeds, AppendFails, ReleaseResumes, ReleaseThrows
  <2>2. CASE \E q \in Recs : RecStep(q)
    <3>1. PICK q \in Recs : RecStep(q)
      BY <2>2
    <3>2. CASE StoreFrees(q)
      <4>1. rec[q].task \in Tasks
        BY <3>2 DEF StoreFrees, TypeOK, RecsOK, RecOK
      <4> QED
        BY <3>2, <4>1 DEF StoreFrees, ReleaseIfMatches, StoreNext
    <3> QED
      BY <3>1, <3>2 DEF RecStep, StoreInspects, AuthorityApproves, RecAborts, DecisionResumes,
                        StoreRefusesToFree, FreeResumes
  <2> QED
    BY <2>1, <2>2 DEF Next, RunStart, RecStart, ToolResolves, ToolRejects, EffectApplies,
                      OrphanQuiesces, Crash
<1> QED
  BY <1>1, <1>2, TypeCorrect, PTL DEF Spec, StoreSpec

-----------------------------------------------------------------------------
(* What the runners do to the world *)

Begun == {g \in Gens : att[g].st # "unused"}
Acting == {g \in Gens : att[g].st \in Live}
TaskOf == [g \in Gens |-> att[g].task]

\* One attempt changes its state under the same task.
LEMMA AttemptEffects ==
  ASSUME TypeOK, NEW g \in Gens, NEW a \in Attempt, SetAttempt(g, a), a.st # "unused",
         att[g].st # "unused", a.task = att[g].task
  PROVE  /\ Begun' = Begun /\ TaskOf' = TaskOf
         /\ Acting' = IF a.st \in Live THEN Acting \union {g} ELSE Acting \ {g}
<1>1. att'[g] = a /\ \A h \in Gens \ {g} : att'[h] = att[h]
  BY DEF SetAttempt, TypeOK, AttemptsOK
<1> QED
  BY <1>1 DEF Begun, Acting, TaskOf

\* A generation nobody was given has no attempt.
BegunIsIssued == \A g \in Gens : att[g].st # "unused" => g \in issued

\* Steps that leave attempts and effects alone.
LEMMA NoEffect ==
  UNCHANGED <<att, applied, recorded, reconciled>> => UNCHANGED Effects!effectVars
  BY DEF Effects!effectVars

\* A claim that succeeds finds the task at rest: every attempt that may act, and
\* every effect that is not recorded, would still hold the task's claim.
LEMMA ClaimBegins ==
  ASSUME TypeOK, IInv, BegunIsIssued, NEW c \in Calls, NEW g \in Gens, StoreClaims(c, g)
  PROVE  Effects!Next
<1> DEFINE t == call[c].task
<1>1. t \in Tasks /\ claims[t] = None /\ g \notin issued
  BY CallFields DEF StoreClaims, ClaimAs, Has
<1>2. att[g].st = "unused"
  BY <1>1 DEF BegunIsIssued
<1>3. \A h \in Effects!AtRisk : TaskOf[h] # t
  BY <1>1, ClaimValuesDistinct DEF Effects!AtRisk, IInv, Fence, UnrecordedEffectFenced, TaskOf, TypeOK
<1>4. att' = [att EXCEPT ![g] = AttemptOf(c, "claimed")] /\ UNCHANGED <<applied, recorded, reconciled>>
  BY DEF StoreClaims, SetAttempt
<1>5. att'[g].st = "claimed" /\ att'[g].task = t /\ \A h \in Gens \ {g} : att'[h] = att[h]
  BY <1>4 DEF AttemptOf, TypeOK, AttemptsOK
<1>6. Begun' = Begun \union {g} /\ Acting' = Acting \union {g} /\ TaskOf' = [TaskOf EXCEPT ![g] = t]
  BY <1>5 DEF Begun, Acting, TaskOf, Live
<1>7. Effects!Begin(g, t)
  <2>1. g \notin Begun
    BY <1>2 DEF Begun
  <2>. QED BY <2>1, <1>3, <1>4, <1>6 DEF Effects!Begin, Begun, Acting, TaskOf
<1> QED
  BY <1>1, <1>7 DEF Effects!Next, Effects!Begin

\* Attempts are begun by claims only.
LEMMA BegunKeeps ==
  ASSUME TypeOK, IInv, BegunIsIssued, [Next]_vars
  PROVE  BegunIsIssued'
<1> SUFFICES ASSUME NEW g \in Gens, att'[g].st # "unused" PROVE g \in issued'
  BY DEF BegunIsIssued
<1>1. CASE \E c \in Calls : CallStep(c)
  <2>1. PICK c \in Calls : CallStep(c)
    BY <1>1
  <2>2. CASE \E h \in Gens : StoreClaims(c, h)
    BY <2>2 DEF StoreClaims, ClaimAs, SetAttempt, TypeOK, AttemptsOK, BegunIsIssued
  <2>3. CASE ClaimResumes(c)
    <3>1. call[c].ok => call[c].gen \in issued
      BY <2>3, CallFields DEF ClaimResumes, Owns, IInv, CallInv
    <3> QED
      BY <2>3, <3>1 DEF ClaimResumes, SetAttempt, storeVars, TypeOK, AttemptsOK, BegunIsIssued
  <2> QED
    BY <2>1, <2>2, <2>3
    DEF CallStep, StoreHas, HasResumes, StoreThrows, StoreRefusesClaim, Timeout, AppendSucceeds,
        AppendFails, StoreReleases, Release, ReleaseResumes, ReleaseThrows, storeVars, attemptVars,
        BegunIsIssued
<1>2. CASE \E q \in Recs : RecStep(q)
  BY <1>2 DEF RecStep, StoreInspects, AuthorityApproves, RecAborts, DecisionResumes, StoreFrees,
              ReleaseIfMatches, Release, StoreRefusesToFree, FreeResumes, storeVars, attemptVars,
              BegunIsIssued
<1>3. CASE \E h \in Gens : ToolResolves(h) \/ ToolRejects(h) \/ EffectApplies(h) \/ OrphanQuiesces(h)
  <2>1. issued' = issued /\ att[g].st # "unused"
    BY <1>3 DEF ToolResolves, ToolRejects, ToolSettles, EffectApplies, OrphanQuiesces, SetAttempt,
                storeVars, TypeOK, AttemptsOK
  <2> QED
    BY <2>1 DEF BegunIsIssued
<1>4. CASE \E r \in Runners : Crash(r)
  <2>1. issued' = issued /\ att[g].st # "unused"
    BY <1>4 DEF Crash, storeVars
  <2> QED
    BY <2>1 DEF BegunIsIssued
<1>5. CASE UNCHANGED <<issued, att>>
  BY <1>5 DEF BegunIsIssued
<1> QED
  BY <1>1, <1>2, <1>3, <1>4, <1>5 DEF Next, RunStart, RecStart, attemptVars, storeVars, vars

\* A call steps: it claims, starts its tool, or records what came of it.
LEMMA CallEffects ==
  ASSUME TypeOK, IInv, BegunIsIssued, NEW c \in Calls, CallStep(c)
  PROVE  Effects!Next \/ UNCHANGED Effects!effectVars
<1>1. CASE \E g \in Gens : StoreClaims(c, g)
  BY <1>1, ClaimBegins
<1>2. CASE ClaimResumes(c)
  <2>1. CASE ~call[c].ok
    BY <1>2, <2>1, NoEffect DEF ClaimResumes
  <2>2. CASE call[c].ok
    <3> DEFINE g == call[c].gen
               a == AttemptOf(c, "running")
    <3>1. g \in Gens /\ call[c].task \in Tasks /\ call[c].runner \in Runners
      BY <1>2, <2>2, CallFields DEF ClaimResumes, Owns
    <3>2. att[g].st = "claimed" /\ att[g].task = call[c].task
      BY <1>2, <3>1 DEF ClaimResumes, IInv, CallInv, StateAt
    <3>3. a \in Attempt /\ a.st = "running" /\ a.task = att[g].task
      BY <3>1, <3>2 DEF AttemptOf, Attempt, AttStates, Live
    <3>4. SetAttempt(g, a) /\ UNCHANGED <<applied, recorded, reconciled>>
      BY <1>2, <2>2 DEF ClaimResumes
    <3> HIDE DEF a
    <3>5. UNCHANGED <<Begun, TaskOf, Acting>>
      BY <3>1, <3>2, <3>3, <3>4, AttemptEffects DEF Live, Acting
    <3> QED
      BY <3>4, <3>5 DEF Effects!effectVars, Begun, TaskOf, Acting
  <2> QED
    BY <2>1, <2>2
<1>3. CASE AppendSucceeds(c)
  <2> DEFINE g == call[c].gen
  <2>1. g \in Gens /\ att[g].st = "ended"
    BY <1>3, CallFields DEF AppendSucceeds, Owns, IInv, CallInv, StateAt
  <2>2. g \in Begun \ Acting
    BY <2>1 DEF Begun, Acting, Live
  <2>3. Effects!Record(g)
    BY <1>3, <2>2 DEF AppendSucceeds, Effects!Record, Begun, Acting
  <2> QED
    BY <2>1, <2>3 DEF Effects!Next, Effects!Record
<1> QED
  BY <1>1, <1>2, <1>3, NoEffect
  DEF CallStep, StoreHas, HasResumes, StoreThrows, StoreRefusesClaim, Timeout, AppendFails,
      StoreReleases, ReleaseResumes, ReleaseThrows, attemptVars

\* A reconciliation issues its receipt for an attempt that is over without effect.
LEMMA RecEffects ==
  ASSUME TypeOK, IInv, NEW q \in Recs, RecStep(q)
  PROVE  Effects!Next \/ UNCHANGED Effects!effectVars
<1>1. CASE StoreFrees(q)
  <2> DEFINE g == rec[q].gen
  <2>1. g \in Gens /\ att[g].st = "ended" /\ g \notin applied
    BY <1>1 DEF StoreFrees, ReleaseIfMatches, Matches, IInv, RecInv, Abandoned
  <2>2. g \in Begun \ (Acting \union applied)
    BY <2>1 DEF Begun, Acting, Live
  <2>3. Effects!Refute(g)
    BY <1>1, <2>2 DEF StoreFrees, Effects!Refute, Begun, Acting
  <2> QED
    BY <2>1, <2>3 DEF Effects!Next, Effects!Refute
<1> QED
  BY <1>1, NoEffect
  DEF RecStep, StoreInspects, AuthorityApproves, RecAborts, DecisionResumes, StoreRefusesToFree,
      FreeResumes, attemptVars

\* Effects land and attempts come to their end, one by one.
LEMMA AttemptsAct ==
  ASSUME TypeOK, NEW g \in Gens,
         ToolResolves(g) \/ ToolRejects(g) \/ EffectApplies(g) \/ OrphanQuiesces(g)
  PROVE  Effects!Next \/ UNCHANGED Effects!effectVars
<1>1. CASE EffectApplies(g)
  <2>1. g \in Acting
    BY <1>1 DEF EffectApplies, Acting, Live
  <2>2. Effects!Happen(g)
    BY <1>1, <2>1 DEF EffectApplies, Effects!Happen, Acting
  <2> QED
    BY <2>2 DEF Effects!Next, Effects!Happen
<1>2. CASE ToolResolves(g) \/ ToolRejects(g) \/ OrphanQuiesces(g)
  <2> DEFINE a == [att[g] EXCEPT !.st = "ended"]
  <2>1. /\ SetAttempt(g, a) /\ att[g].st \in {"running", "orphan"}
        /\ UNCHANGED <<applied, recorded, reconciled>>
    BY <1>2 DEF ToolResolves, ToolRejects, ToolSettles, OrphanQuiesces
  <2>2. a \in Attempt /\ a.st = "ended" /\ a.task = att[g].task
    BY DEF TypeOK, AttemptsOK, Attempt, AttStates
  <2> HIDE DEF a
  <2>3. Begun' = Begun /\ TaskOf' = TaskOf /\ Acting' = Acting \ {g}
    BY <2>1, <2>2, AttemptEffects DEF Live
  <2>4. {g} \in SUBSET Acting
    BY <2>1 DEF Acting, Live
  <2>5. Effects!Cease({g})
    BY <2>1, <2>3 DEF Effects!Cease, Begun, TaskOf, Acting
  <2> QED
    BY <2>4, <2>5 DEF Effects!Next, Effects!Cease, Acting
<1> QED
  BY <1>1, <1>2

\* A crash ends what had claimed its task and not yet started; what had started
\* may still act.
LEMMA CrashEffects ==
  ASSUME TypeOK, NEW r \in Runners, Crash(r)
  PROVE  Effects!Next
<1> DEFINE S == {g \in Gens : att[g].runner = r /\ att[g].st = "claimed"}
<1>1. \A g \in Gens :
        /\ att'[g].task = att[g].task
        /\ att'[g].st # "unused" <=> att[g].st # "unused"
        /\ att'[g].st \in Live <=> att[g].st \in Live /\ g \notin S
  <2> TAKE g \in Gens
  <2>1. att[g] \in Attempt
    BY DEF TypeOK, AttemptsOK
  <2>2. att'[g] = IF att[g].runner = r /\ att[g].st \in {"claimed", "running"}
                  THEN [att[g] EXCEPT !.st = IF att[g].st = "running" THEN "orphan" ELSE "ended"]
                  ELSE att[g]
    BY DEF Crash
  <2> QED
    BY <2>1, <2>2 DEF Attempt, Live
<1>2. Begun' = Begun /\ TaskOf' = TaskOf /\ Acting' = Acting \ S
  BY <1>1 DEF Begun, TaskOf, Acting
<1>3. S \in SUBSET Acting
  BY DEF Acting, Live
<1> HIDE DEF S
<1>4. Effects!Cease(S)
  BY <1>2 DEF Effects!Cease, Begun, TaskOf, Acting, Crash
<1> QED
  BY <1>3, <1>4 DEF Effects!Next, Effects!Cease, Acting

\* Nothing runners, deadlines, crashes, failures and reconciliations do together
\* starts a task next to an effect that may still come or was not recorded.
THEOREM RunnersKeepEffectsApart == ASSUME OwnerEnded PROVE Spec => ImplementsTaskEffects
<1>1. Init => Effects!Init /\ BegunIsIssued
  BY DEF Init, NoAttempt, Effects!Init, BegunIsIssued, Live
<1>2. TypeOK /\ IInv /\ BegunIsIssued /\ [Next]_vars => BegunIsIssued'
  BY BegunKeeps
<1>3. TypeOK /\ IInv /\ BegunIsIssued /\ [Next]_vars => [Effects!Next]_Effects!effectVars
  <2> SUFFICES ASSUME TypeOK, IInv, BegunIsIssued, [Next]_vars
               PROVE  Effects!Next \/ UNCHANGED Effects!effectVars
    OBVIOUS
  <2>1. CASE UNCHANGED vars
    BY <2>1, NoEffect DEF vars
  <2>2. ASSUME NEW c \in Calls, NEW r \in Runners, NEW t \in Tasks, RunStart(c, r, t)
        PROVE  UNCHANGED Effects!effectVars
    BY <2>2, NoEffect DEF RunStart, attemptVars
  <2>3. ASSUME NEW q \in Recs, NEW r \in Runners, NEW t \in Tasks, RecStart(q, r, t)
        PROVE  UNCHANGED Effects!effectVars
    BY <2>3, NoEffect DEF RecStart, attemptVars
  <2>4. CASE Next
    BY <2>2, <2>3, <2>4, CallEffects, RecEffects, AttemptsAct, CrashEffects DEF Next
  <2> QED
    BY <2>1, <2>4
<1> QED
  BY <1>1, <1>2, <1>3, TypeCorrect, Inductive, PTL DEF Spec, ImplementsTaskEffects, Effects!Spec
=============================================================================
