---------------------- MODULE PaymentIntentPolicyProofs ----------------------
(***************************************************************************)
(* For any payments, rules, objects and executions: what is prepared is     *)
(* what was authorized, whatever the callers do with their objects and      *)
(* anyone with the prototype.  The invariant is that the object of a call   *)
(* that is allowed is frozen, is the very snapshot that was authorized, and *)
(* has every field of its own.                                              *)
(*                                                                         *)
(* Before that, what the executor promises on its own, for any tasks,       *)
(* slots, quota and capacity.  A task's tools are never invoked more often  *)
(* than its quota between two resets: under a quota, the retained count is  *)
(* the true number of invocations, as nothing but a reset ever forgets one. *)
(* And the counters stay within their capacity: no task has two of them.    *)
(***************************************************************************)
EXTENDS PaymentIntentPolicy, PaymentAmounts, DataLemmas

-----------------------------------------------------------------------------
(* ActionExecutor *)

CountInv ==
  /\ quota \in BOOLEAN
  /\ counts \in [Tasks -> Nat] /\ used \in [Tasks -> Nat]
  /\ exec \in [Execs -> Execution]
  /\ \A x \in Execs : exec[x].pc # "idle" => exec[x].task \in Tasks
  /\ quota => used = counts /\ \A t \in Tasks : counts[t] <= MaxToolCalls

LEMMA CountInit == ExecInit => CountInv
  BY BudgetParameters DEF ExecInit, CountInv, Execution, NoExecution

\* Under a quota an invocation that goes through evicts nobody.
LEMMA NoEviction ==
  ASSUME quota, NEW t \in Tasks, CanTrack(t)
  PROVE  Evicted(t) = {}
  BY DEF CanTrack, Overflow, Evicted

LEMMA InvokeKeeps ==
  ASSUME CountInv, NEW x \in Execs, Invoke(x)
  PROVE  CountInv'
<1> DEFINE t == exec[x].task
<1>1. t \in Tasks /\ quota' = quota
  BY DEF CountInv, Invoke
<1>2. counts' \in [Tasks -> Nat] /\ used' \in [Tasks -> Nat]
  BY <1>1 DEF CountInv, Invoke
<1>3. exec' \in [Execs -> Execution] /\ \A y \in Execs : exec'[y].pc # "idle" => exec'[y].task \in Tasks
  BY DEF CountInv, Invoke, Execution
<1>4. ASSUME quota PROVE used' = counts' /\ \A u \in Tasks : counts'[u] <= MaxToolCalls
  <2>1. Evicted(t) = {} /\ counts[t] < MaxToolCalls
    BY <1>1, <1>4, NoEviction DEF Invoke, WithinBudget
  <2>2. \A u \in Tasks : counts'[u] = (IF u = t THEN counts[t] + 1 ELSE counts[u])
    BY <2>1 DEF Invoke
  <2>3. \A u \in Tasks : used'[u] = counts'[u]
    BY <1>1, <1>4, <2>2 DEF CountInv, Invoke
  <2>4. \A u \in Tasks : counts'[u] <= MaxToolCalls
    BY <1>1, <1>4, <2>1, <2>2, BudgetParameters DEF CountInv
  <2>. QED BY <1>2, <2>3, <2>4
<1>. QED BY <1>1, <1>2, <1>3, <1>4 DEF CountInv

LEMMA ForgetKeeps ==
  ASSUME CountInv, NEW S, NEW rest, Forget(S, rest)
  PROVE  CountInv'
<1>1. counts' \in [Tasks -> Nat] /\ used' \in [Tasks -> Nat] /\ exec' = exec /\ quota' = quota
  BY DEF CountInv, Forget
<1>2. ASSUME quota PROVE used' = counts' /\ \A u \in Tasks : counts'[u] <= MaxToolCalls
  BY <1>2, BudgetParameters DEF CountInv, Forget
<1>. QED BY <1>1, <1>2 DEF CountInv

LEMMA CountStep == CountInv /\ [ExecNext]_execVars => CountInv'
<1> SUFFICES ASSUME CountInv, [ExecNext]_execVars PROVE CountInv'
  OBVIOUS
<1>1. ASSUME NEW x \in Execs, NEW t \in Tasks, Execute(x, t) PROVE CountInv'
  BY <1>1 DEF CountInv, Execute, Execution
<1>2. ASSUME NEW x \in Execs, Refuse(x) \/ ToolSettles(x) PROVE CountInv'
  BY <1>2 DEF CountInv, Refuse, ToolSettles, Settled, Execution, NoExecution
<1>3. ASSUME NEW t \in Tasks, Reset(t) PROVE CountInv'
  BY <1>3, ForgetKeeps DEF Reset
<1>4. CASE ResetAll
  BY <1>4, ForgetKeeps DEF ResetAll
<1>5. CASE UNCHANGED execVars
  BY <1>5 DEF CountInv, execVars
<1>. QED BY <1>1, <1>2, <1>3, <1>4, <1>5, InvokeKeeps DEF ExecNext

\* The budget holds for every interleaving of policy answers, settlements,
\* resets and new executions, whatever the capacity of the counter map.
THEOREM BudgetIsRespected == ExecSpec => []BudgetRespected
<1>1. CountInv => BudgetRespected
  BY DEF CountInv, BudgetRespected
<1>. QED BY <1>1, CountInit, CountStep, PTL DEF ExecSpec

\* The keys of toolCallCounts: no more than the capacity, none twice, and
\* exactly the tasks that were charged.
TrackInv ==
  /\ CountInv
  /\ tracked \in Seq(Tasks) /\ IsInjective(tracked)
  /\ TrackingBounded

LEMMA IsTrackedIsMember == \A t : IsTracked(t) <=> t \in ToSet(tracked)
  BY DEF IsTracked, ToSet

LEMMA TrackedThen == (\A t : IsTracked(t) <=> t \in ToSet(tracked))'
  BY DEF IsTracked, ToSet

\* The oldest keys make room: the map is full at most when the new one is in.
LEMMA InvokeTracks ==
  ASSUME TrackInv, NEW x \in Execs, Invoke(x)
  PROVE  tracked' \in Seq(Tasks) /\ IsInjective(tracked') /\ TrackingBounded'
<1> DEFINE t == exec[x].task
           n == Len(tracked)
           k == Overflow(t)
           kept == SubSeq(tracked, k + 1, n)
<1>1. t \in Tasks /\ counts \in [Tasks -> Nat] /\ tracked \in Seq(Tasks) /\ IsInjective(tracked)
  BY DEF TrackInv, CountInv, Invoke
<1>2. n \in Nat /\ MaxTracked \in Nat \ {0} /\ n <= MaxTracked
  BY <1>1, LenProperties, BudgetParameters DEF TrackInv, TrackingBounded
<1>3. \A u \in Tasks : counts'[u] = IF u = t THEN counts[t] + 1
                                    ELSE IF u \in Evicted(t) THEN 0 ELSE counts[u]
  BY DEF Invoke
<1>4. \A u \in Tasks : counts[u] \in Nat /\ (u \in ToSet(tracked) <=> counts[u] > 0)
  BY <1>1, IsTrackedIsMember DEF TrackInv, TrackingBounded
<1>5. ToSet(tracked') = (ToSet(tracked) \ Evicted(t)) \union {t}
      /\ tracked' \in Seq(Tasks) /\ IsInjective(tracked') /\ Len(tracked') <= MaxTracked
  <2>1. CASE IsTracked(t)
    <3>1. tracked' = tracked /\ Evicted(t) = {} /\ t \in ToSet(tracked)
      BY <2>1, IsTrackedIsMember DEF Invoke, Evicted, Overflow
    <3>. QED BY <1>1, <1>2, <3>1
  <2>2. CASE ~IsTracked(t)
    <3>1. k \in 0 .. n /\ n - k < MaxTracked
      BY <1>2, <2>2 DEF Overflow
    <3>2. kept \in Seq(Tasks) /\ Len(kept) = n - k
      <4>1. tracked \in Seq(Tasks) /\ k \in 0 .. Len(tracked)
        BY <1>1, <3>1
      <4> HIDE DEF k
      <4>. QED BY <4>1, DropFirst
    <3>3. IsInjective(kept) /\ ToSet(kept) = ToSet(tracked) \ Evicted(t)
      BY <1>1, <3>1, DropDistinct DEF Evicted
    <3>4. tracked' = Append(kept, t) /\ t \notin ToSet(kept)
      BY <2>2, <3>3, IsTrackedIsMember DEF Invoke
    <3> HIDE DEF kept
    <3>5. tracked' \in Seq(Tasks) /\ Len(tracked') = n - k + 1
      BY <1>1, <3>2, <3>4, AppendProperties
    <3>6. IsInjective(tracked') /\ ToSet(tracked') = ToSet(kept) \union {t}
      <4>1. kept \in Seq(Tasks) /\ IsInjective(kept) /\ t \in Tasks
        BY <1>1, <3>2, <3>3
      <4> HIDE DEF t
      <4>. QED BY <3>4, <4>1, AppendDistinct
    <3>7. Len(tracked') <= MaxTracked
      BY <1>2, <3>1, <3>5
    <3>. QED BY <3>3, <3>5, <3>6, <3>7
  <2>. QED BY <2>1, <2>2
<1>6. \A u \in Tasks : u \in ToSet(tracked') <=> counts'[u] > 0
  BY <1>1, <1>3, <1>4, <1>5
<1>. QED BY <1>5, <1>6, TrackedThen DEF TrackingBounded

\* delete() takes out the one counter of the task; the others keep theirs.
LEMMA ResetTracks ==
  ASSUME TrackInv, NEW t \in Tasks, Reset(t)
  PROVE  tracked' \in Seq(Tasks) /\ IsInjective(tracked') /\ TrackingBounded'
<1>1. tracked \in Seq(Tasks) /\ IsInjective(tracked) /\ tracked' = RemoveFirst(tracked, t)
  BY DEF TrackInv, Reset, Forget
<1>2. /\ tracked' \in Seq(Tasks) /\ IsInjective(tracked')
      /\ ToSet(tracked') = ToSet(tracked) \ {t}
      /\ Len(tracked') = IF t \in ToSet(tracked) THEN Len(tracked) - 1 ELSE Len(tracked)
  BY <1>1, RemoveFirstDistinct
<1>3. Len(tracked') <= MaxTracked
  BY <1>1, <1>2, LenProperties, BudgetParameters DEF TrackInv, TrackingBounded
<1>4. \A u \in Tasks : counts'[u] = IF u = t THEN 0 ELSE counts[u]
  BY DEF Reset, Forget
<1>5. \A u \in Tasks : u \in ToSet(tracked') <=> counts'[u] > 0
  BY <1>2, <1>4, IsTrackedIsMember DEF TrackInv, TrackingBounded
<1>. QED BY <1>2, <1>3, <1>5, TrackedThen DEF TrackingBounded

LEMMA ResetAllTracks ==
  ASSUME TrackInv, ResetAll
  PROVE  tracked' \in Seq(Tasks) /\ IsInjective(tracked') /\ TrackingBounded'
<1>1. tracked' = <<>> /\ \A u \in Tasks : counts'[u] = 0
  BY DEF ResetAll, Forget
<1>2. ~ \E i \in DOMAIN tracked' : TRUE
  BY <1>1
<1>. QED BY <1>1, <1>2, BudgetParameters DEF IsInjective, TrackingBounded, IsTracked

LEMMA TrackStep == TrackInv /\ [ExecNext]_execVars => TrackInv'
<1> SUFFICES ASSUME TrackInv, [ExecNext]_execVars PROVE TrackInv'
  OBVIOUS
<1>1. CountInv'
  BY CountStep DEF TrackInv
<1>2. ASSUME tracked' = tracked, counts' = counts PROVE TrackInv'
  BY <1>1, <1>2 DEF TrackInv, TrackingBounded, IsInjective, IsTracked
<1>3. ASSUME NEW x \in Execs, NEW t \in Tasks, Execute(x, t) PROVE TrackInv'
  BY <1>2, <1>3 DEF Execute
<1>4. ASSUME NEW x \in Execs, Refuse(x) \/ ToolSettles(x) PROVE TrackInv'
  BY <1>2, <1>4 DEF Refuse, ToolSettles
<1>5. CASE UNCHANGED execVars
  <2>1. tracked' = tracked /\ counts' = counts
    BY <1>5 DEF execVars
  <2>. QED BY <1>2, <2>1
<1>6. ASSUME NEW x \in Execs, Invoke(x) PROVE TrackInv'
  BY <1>1, <1>6, InvokeTracks DEF TrackInv
<1>7. ASSUME NEW t \in Tasks, Reset(t) PROVE TrackInv'
  BY <1>1, <1>7, ResetTracks DEF TrackInv
<1>8. CASE ResetAll
  BY <1>1, <1>8, ResetAllTracks DEF TrackInv
<1>. QED BY <1>3, <1>4, <1>5, <1>6, <1>7, <1>8 DEF ExecNext

\* The counter map never outgrows its capacity, no task is counted twice in it,
\* and it holds exactly the tasks that were charged: what is evicted is forgotten
\* in full, what is reset makes room for one more.
THEOREM TrackingIsBounded == ExecSpec => []TrackingBounded
<1>1. ExecInit => TrackInv
  <2> SUFFICES ASSUME ExecInit PROVE TrackInv
    OBVIOUS
  <2>1. tracked = <<>> /\ ~ \E i \in DOMAIN tracked : TRUE
    BY DEF ExecInit
  <2>. QED BY <2>1, CountInit, BudgetParameters
           DEF TrackInv, ExecInit, TrackingBounded, IsTracked, IsInjective
<1>2. TrackInv => TrackingBounded
  BY DEF TrackInv
<1>. QED BY <1>1, <1>2, TrackStep, PTL DEF ExecSpec

-----------------------------------------------------------------------------
(* StellarPaymentIntentPolicy *)

\* A payload all of whose fields are its own.
Complete(p) == p = [f \in DOMAIN p |-> p[f]] /\ \A f \in DOMAIN p : p[f] # Missing

Shapes ==
  /\ exec \in [Execs -> Execution]
  /\ DOMAIN payload = Objects /\ DOMAIN call = Execs
  /\ \A x \in Execs : /\ DOMAIN call[x] = {"obj", "snap", "allowed", "done"}
                      /\ call[x].obj \in Objects \union {None}
                      /\ call[x].allowed \in BOOLEAN

SnapshotsAreValid ==
  \A x \in Execs : call[x].snap # None => Complete(call[x].snap) /\ Valid(call[x].snap)

Bindings ==
  \A x \in Execs : call[x].allowed /\ call[x].obj # None =>
    /\ call[x].obj \in frozen
    /\ call[x].snap # None /\ payload[call[x].obj] = call[x].snap
    /\ Authorized(Result(exec[x].task, call[x].snap))

Preparations ==
  \A x \in Execs : exec[x].pc = "tool" /\ call[x].obj # None =>
    call[x].allowed /\ call[x].done = Result(exec[x].task, call[x].snap)

PInv == Shapes /\ SnapshotsAreValid /\ Bindings /\ Preparations

\* Reading own fields leaves a complete payload, and a complete one as it is;
\* nothing of a complete payload is inherited.
LEMMA OwnIsComplete == ASSUME NEW p PROVE Complete(Own(p))
  BY PaymentValues DEF Own, Complete

LEMMA CompleteIsOwn == ASSUME NEW p, Complete(p) PROVE Own(p) = p /\ Looked(p) = p
<1>1. Own(p) = [f \in DOMAIN p |-> p[f]]
  BY DEF Own, Complete
<1>2. Looked(p) = [f \in DOMAIN p |-> p[f]]
  BY DEF Looked, Complete
<1>. QED BY <1>1, <1>2 DEF Complete

LEMMA PInit == PayInit => PInv
<1> SUFFICES ASSUME PayInit PROVE PInv
  OBVIOUS
<1>1. \A x \in Execs : call[x] = NoCall /\ exec[x].pc = "idle"
  BY DEF PayInit, ExecInit, NoExecution
<1>2. exec \in [Execs -> Execution]
  BY DEF PayInit, ExecInit, NoExecution, Execution
<1>3. Shapes
  BY <1>1, <1>2 DEF PayInit, Shapes, NoCall, Called
<1>. QED BY <1>1, <1>3 DEF PInv, SnapshotsAreValid, Bindings, Preparations, NoCall, Called

\* A call that begins or ends; the other calls and the frozen objects stay as
\* they are.
LEMMA FreshKeeps ==
  ASSUME PInv, NEW x \in Execs, NEW o \in Objects \union {None}, NEW e \in Execution, e.pc # "tool",
         exec' = [exec EXCEPT ![x] = e], call' = [call EXCEPT ![x] = Called(o)],
         frozen' = frozen, DOMAIN payload' = Objects,
         \A y \in Execs : call[y].allowed /\ call[y].obj # None =>
           payload'[call[y].obj] = payload[call[y].obj]
  PROVE  PInv'
<1> DEFINE c == Called(o)
<1>1. DOMAIN c = {"obj", "snap", "allowed", "done"} /\ c.obj = o /\ c.snap = None /\ c.allowed = FALSE
  BY DEF Called
<1> HIDE DEF c
<1>2. /\ call'[x] = c /\ exec'[x] = e
      /\ \A y \in Execs \ {x} : call'[y] = call[y] /\ exec'[y] = exec[y]
  BY DEF PInv, Shapes, c
<1>3. exec' \in [Execs -> Execution] /\ DOMAIN call' = Execs
  BY DEF PInv, Shapes
<1>4. Shapes'
  BY <1>1, <1>2, <1>3 DEF PInv, Shapes
<1>5. SnapshotsAreValid'
  BY <1>1, <1>2 DEF PInv, SnapshotsAreValid
<1>6. Bindings'
  BY <1>1, <1>2 DEF PInv, Bindings
<1>7. Preparations'
  BY <1>1, <1>2 DEF PInv, Preparations
<1>. QED BY <1>4, <1>5, <1>6, <1>7 DEF PInv

LEMMA PassThroughKeeps ==
  ASSUME PInv, NEW x \in Execs, PassThrough(x)
  PROVE  PInv'
<1>1. /\ call'[x] = [call[x] EXCEPT !.allowed = TRUE] /\ call[x].obj = None
      /\ \A y \in Execs \ {x} : call'[y] = call[y]
      /\ DOMAIN call' = Execs /\ UNCHANGED <<exec, payload, frozen>>
  BY DEF PInv, Shapes, PassThrough, execVars
<1>2. /\ DOMAIN call'[x] = {"obj", "snap", "allowed", "done"}
      /\ call'[x].obj = None /\ call'[x].snap = call[x].snap /\ call'[x].allowed = TRUE
  BY <1>1 DEF PInv, Shapes
<1>3. Shapes'
  BY <1>1, <1>2 DEF PInv, Shapes
<1>4. SnapshotsAreValid'
  BY <1>1, <1>2 DEF PInv, SnapshotsAreValid
<1>5. Bindings'
  BY <1>1, <1>2 DEF PInv, Bindings
<1>6. Preparations'
  BY <1>1, <1>2 DEF PInv, Preparations
<1>. QED BY <1>3, <1>4, <1>5, <1>6 DEF PInv

\* The snapshot is complete and valid, and authorizes nothing yet.
LEMMA SnapshotKeeps ==
  ASSUME PInv, NEW x \in Execs, Snapshot(x)
  PROVE  PInv'
<1> DEFINE s == Own(payload[call[x].obj])
<1>1. Valid(s) /\ Complete(s) /\ ~(call[x].allowed /\ call[x].obj # None) /\ exec[x].pc = "policy"
  BY OwnIsComplete DEF PInv, Bindings, Snapshot
<1>2. call' = [call EXCEPT ![x].snap = s] /\ UNCHANGED <<exec, payload, frozen>>
  BY DEF Snapshot, execVars
<1> HIDE DEF s
<1>3. /\ DOMAIN call'[x] = {"obj", "snap", "allowed", "done"}
      /\ call'[x].obj = call[x].obj /\ call'[x].snap = s /\ call'[x].allowed = call[x].allowed
      /\ \A y \in Execs \ {x} : call'[y] = call[y]
      /\ DOMAIN call' = Execs
  BY <1>2 DEF PInv, Shapes
<1>4. Shapes'
  BY <1>2, <1>3 DEF PInv, Shapes
<1>5. SnapshotsAreValid'
  BY <1>1, <1>3 DEF PInv, SnapshotsAreValid
<1>6. Bindings'
  BY <1>1, <1>2, <1>3 DEF PInv, Bindings
<1>7. Preparations'
  BY <1>1, <1>2, <1>3 DEF PInv, Preparations
<1>. QED BY <1>4, <1>5, <1>6, <1>7 DEF PInv

\* Binding an object again changes nothing of it: a call that was allowed on the
\* same object keeps its payment.
LEMMA AuthorizeKeeps ==
  ASSUME PInv, NEW x \in Execs, Authorize(x)
  PROVE  PInv'
<1> DEFINE o == call[x].obj
<1>1. /\ exec[x].pc = "policy" /\ call[x].snap # None
      /\ Authorized(Result(exec[x].task, call[x].snap)) /\ Own(payload[o]) = call[x].snap
      /\ payload' = [payload EXCEPT ![o] = Own(payload[o])] /\ frozen' = frozen \union {o}
      /\ call' = [call EXCEPT ![x].allowed = TRUE] /\ exec' = exec
  BY DEF Authorize, Bound, Sealed, execVars
<1>2. /\ DOMAIN call'[x] = {"obj", "snap", "allowed", "done"}
      /\ call'[x].obj = o /\ call'[x].snap = call[x].snap /\ call'[x].allowed = TRUE
      /\ \A y \in Execs \ {x} : call'[y] = call[y]
      /\ DOMAIN call' = Execs
  BY <1>1 DEF PInv, Shapes
<1>3. Shapes'
  BY <1>1, <1>2 DEF PInv, Shapes
<1>4. SnapshotsAreValid'
  BY <1>1, <1>2 DEF PInv, SnapshotsAreValid
<1>5. ASSUME NEW y \in Execs, call'[y].allowed, call'[y].obj # None
      PROVE  /\ call'[y].obj \in frozen'
             /\ call'[y].snap # None /\ payload'[call'[y].obj] = call'[y].snap
             /\ Authorized(Result(exec'[y].task, call'[y].snap))
  <2>1. CASE y = x
    BY <1>1, <1>2, <1>5, <2>1 DEF PInv, Shapes
  <2>2. CASE y # x
    <3>1. /\ call'[y] = call[y] /\ call[y].obj \in frozen /\ call[y].obj \in Objects
          /\ payload[call[y].obj] = call[y].snap /\ call[y].snap # None
          /\ Authorized(Result(exec[y].task, call[y].snap))
      BY <1>2, <1>5, <2>2 DEF PInv, Shapes, Bindings
    <3>2. Own(payload[call[y].obj]) = payload[call[y].obj]
      BY <3>1, CompleteIsOwn DEF PInv, SnapshotsAreValid
    <3>3. payload'[call[y].obj] = payload[call[y].obj]
      BY <1>1, <3>1, <3>2 DEF PInv, Shapes
    <3>. QED BY <1>1, <3>1, <3>3
  <2>. QED BY <2>1, <2>2
<1>6. Bindings'
  BY <1>5 DEF Bindings
<1>7. Preparations'
  BY <1>1, <1>2 DEF PInv, Preparations
<1>. QED BY <1>3, <1>4, <1>6, <1>7 DEF PInv

\* What the tool looks up is the snapshot, prototype or not: it is complete.
LEMMA PrepareKeeps ==
  ASSUME PInv, NEW x \in Execs, Prepare(x)
  PROVE  PInv'
<1> DEFINE o == call[x].obj
           d == IF o = None \/ ~Valid(Looked(payload[o])) THEN None
                ELSE Result(exec[x].task, Looked(payload[o]))
<1>1. /\ call[x].allowed /\ exec' = [exec EXCEPT ![x].pc = "tool"]
      /\ call' = [call EXCEPT ![x].done = d] /\ UNCHANGED <<payload, frozen>>
  BY DEF Prepare, Invoke
<1>2. o # None => d = Result(exec[x].task, call[x].snap)
  BY <1>1, CompleteIsOwn DEF PInv, SnapshotsAreValid, Bindings
<1> HIDE DEF d
<1>3. /\ DOMAIN call'[x] = {"obj", "snap", "allowed", "done"}
      /\ call'[x].obj = o /\ call'[x].snap = call[x].snap /\ call'[x].allowed = call[x].allowed
      /\ call'[x].done = d
      /\ \A y \in Execs \ {x} : call'[y] = call[y]
      /\ DOMAIN call' = Execs
  BY <1>1 DEF PInv, Shapes
<1>4. /\ exec' \in [Execs -> Execution] /\ exec'[x].task = exec[x].task
      /\ \A y \in Execs \ {x} : exec'[y] = exec[y]
  BY <1>1 DEF PInv, Shapes, Execution
<1>5. Shapes'
  BY <1>1, <1>3, <1>4 DEF PInv, Shapes
<1>6. SnapshotsAreValid'
  BY <1>3 DEF PInv, SnapshotsAreValid
<1>7. Bindings'
  BY <1>1, <1>3, <1>4 DEF PInv, Bindings
<1>8. Preparations'
  BY <1>1, <1>2, <1>3, <1>4 DEF PInv, Preparations
<1>. QED BY <1>5, <1>6, <1>7, <1>8 DEF PInv

\* The calls stay as they are, and so do the objects of those that are allowed.
LEMMA ObjectsKeep ==
  ASSUME PInv, UNCHANGED <<exec, call>>, DOMAIN payload' = Objects,
         \A x \in Execs : call[x].allowed /\ call[x].obj # None =>
           payload'[call[x].obj] = payload[call[x].obj] /\ call[x].obj \in frozen'
  PROVE  PInv'
<1>1. Shapes'
  BY DEF PInv, Shapes
<1>2. SnapshotsAreValid'
  BY DEF PInv, SnapshotsAreValid
<1>3. Bindings'
  BY DEF PInv, Bindings
<1>4. Preparations'
  BY DEF PInv, Preparations
<1>. QED BY <1>1, <1>2, <1>3, <1>4 DEF PInv

LEMMA ObjectsStep ==
  ASSUME PInv, NEW o \in Objects,
         \/ \E p \in Payloads \union {Opaque} : Change(o, p) \/ NewObject(o, p)
         \/ Freeze(o)
  PROVE  PInv'
<1>1. ASSUME NEW p, Change(o, p) PROVE PInv'
  BY <1>1, ObjectsKeep DEF Change, PInv, Shapes, Bindings, execVars
<1>2. ASSUME NEW p, NewObject(o, p) PROVE PInv'
  BY <1>2, ObjectsKeep DEF NewObject, PInv, Shapes, Bindings, execVars
<1>3. CASE Freeze(o)
  BY <1>3, ObjectsKeep DEF Freeze, PInv, Shapes, Bindings, execVars
<1>. QED BY <1>1, <1>2, <1>3

LEMMA RequestKeeps ==
  ASSUME PInv, NEW x \in Execs, NEW t \in Tasks, NEW o \in Objects \union {None}, Request(x, t, o)
  PROVE  PInv'
<1> DEFINE e == [pc |-> "policy", task |-> t]
<1>1. /\ exec' = [exec EXCEPT ![x] = e] /\ call' = [call EXCEPT ![x] = Called(o)]
      /\ UNCHANGED <<payload, frozen>>
  BY DEF Request, Execute
<1>2. e \in Execution /\ e.pc # "tool"
  BY DEF Execution
<1> HIDE DEF e
<1>3. DOMAIN payload' = Objects
  BY <1>1 DEF PInv, Shapes
<1>. QED BY <1>1, <1>2, <1>3, FreshKeeps

LEMMA EndKeeps ==
  ASSUME PInv, NEW x \in Execs, Settled(x), call' = [call EXCEPT ![x] = NoCall],
         frozen' = frozen, DOMAIN payload' = Objects,
         \A y \in Execs : call[y].allowed /\ call[y].obj # None =>
           payload'[call[y].obj] = payload[call[y].obj]
  PROVE  PInv'
<1>1. NoExecution \in Execution /\ NoExecution.pc # "tool"
  BY DEF Execution, NoExecution
<1>2. exec' = [exec EXCEPT ![x] = NoExecution] /\ call' = [call EXCEPT ![x] = Called(None)]
  BY DEF Settled, NoCall
<1>. QED BY <1>1, <1>2, FreshKeeps

LEMMA LeaveKeeps ==
  ASSUME PInv, NEW x \in Execs, Leave(x)
  PROVE  PInv'
<1>1. /\ Settled(x) /\ call' = [call EXCEPT ![x] = NoCall] /\ UNCHANGED <<payload, frozen>>
  BY DEF Leave, Refuse, ToolSettles
<1>2. DOMAIN payload' = Objects
  BY <1>1 DEF PInv, Shapes
<1>. QED BY <1>1, <1>2, EndKeeps

\* A binding that fails changes nothing of an object that is frozen and complete:
\* a call that was allowed on the same object keeps its payment.
LEMMA DisownKeeps ==
  ASSUME PInv, NEW x \in Execs, Disown(x)
  PROVE  PInv'
<1> DEFINE o == call[x].obj
           q == IF payload[o] = Opaque THEN Opaque ELSE PartlySealed(o, call[x].snap)
<1>1. /\ Settled(x) /\ call' = [call EXCEPT ![x] = NoCall] /\ frozen' = frozen
      /\ payload' = [payload EXCEPT ![o] = q]
  BY DEF Disown, Refuse
<1>2. ASSUME o \in frozen, Complete(payload[o]) PROVE q = payload[o]
  <2>1. PartlySealed(o, call[x].snap) = [f \in DOMAIN payload[o] |-> payload[o][f]]
    BY <1>2 DEF PartlySealed
  <2>. QED BY <1>2, <2>1 DEF Complete
<1> HIDE DEF q
<1>3. DOMAIN payload' = Objects
  BY <1>1 DEF PInv, Shapes
<1>4. ASSUME NEW y \in Execs, call[y].allowed, call[y].obj # None
      PROVE  payload'[call[y].obj] = payload[call[y].obj]
  <2>1. call[y].obj \in Objects /\ call[y].obj \in frozen /\ Complete(payload[call[y].obj])
    BY <1>4 DEF PInv, Shapes, Bindings, SnapshotsAreValid
  <2>. QED BY <1>1, <1>2, <2>1 DEF PInv, Shapes
<1>. QED BY <1>1, <1>3, <1>4, EndKeeps

\* What touches neither calls nor objects.
LEMMA IdleKeeps ==
  ASSUME PInv, UNCHANGED <<exec, call, payload, frozen>>
  PROVE  PInv'
  BY ObjectsKeep DEF PInv, Shapes, Bindings

LEMMA PStep == PInv /\ [PayNext]_payVars => PInv'
<1> SUFFICES ASSUME PInv, [PayNext]_payVars PROVE PInv'
  OBVIOUS
<1>1. ASSUME NEW t \in Tasks, ResetBudget(t) PROVE PInv'
  BY <1>1, IdleKeeps DEF ResetBudget, Reset, Forget
<1>2. CASE ResetBudgets
  BY <1>2, IdleKeeps DEF ResetBudgets, ResetAll, Forget
<1>3. ASSUME NEW q \in Prototypes, Pollute(q) PROVE PInv'
  BY <1>3, IdleKeeps DEF Pollute, execVars
<1>4. CASE UNCHANGED payVars
  BY <1>4, IdleKeeps DEF payVars, execVars
<1>. QED BY <1>1, <1>2, <1>3, <1>4, RequestKeeps, PassThroughKeeps, SnapshotKeeps, AuthorizeKeeps,
            DisownKeeps, PrepareKeeps, LeaveKeeps, ObjectsStep DEF PayNext

\* Whatever callers do with their objects, and anyone with the prototype, while
\* the policy and the executor await, the tool prepares the payment that was
\* authorized.
THEOREM PreparationsAreAuthorized == PaySpec => []PreparedAsAuthorized
<1>1. PInv => PreparedAsAuthorized
  BY DEF PInv, Preparations, Bindings, PreparedAsAuthorized
<1>. QED BY <1>1, PInit, PStep, PTL DEF PaySpec

\* Payments add nothing to what the executor does: its budget holds for them.
THEOREM PaymentsAreExecutions == PaySpec => ExecSpec
<1>1. PayInit => ExecInit
  BY DEF PayInit
<1>2. [PayNext]_payVars => [ExecNext]_execVars
  <2> SUFFICES ASSUME [PayNext]_payVars PROVE [ExecNext]_execVars
    OBVIOUS
  <2>1. ASSUME NEW x \in Execs, NEW t \in Tasks, NEW o, Request(x, t, o) PROVE ExecNext
    BY <2>1 DEF Request, ExecNext
  <2>2. ASSUME NEW x \in Execs, PassThrough(x) \/ Snapshot(x) \/ Authorize(x)
        PROVE  UNCHANGED execVars
    BY <2>2 DEF PassThrough, Snapshot, Authorize
  <2>3. ASSUME NEW x \in Execs, Disown(x) \/ Prepare(x) \/ Leave(x) PROVE ExecNext
    BY <2>3 DEF Disown, Prepare, Leave, ExecNext
  <2>4. ASSUME NEW t \in Tasks, ResetBudget(t) PROVE ExecNext
    BY <2>4 DEF ResetBudget, ExecNext
  <2>5. CASE ResetBudgets
    BY <2>5 DEF ResetBudgets, ExecNext
  <2>6. ASSUME NEW o, NEW p, Change(o, p) \/ NewObject(o, p) \/ Freeze(o) PROVE UNCHANGED execVars
    BY <2>6 DEF Change, NewObject, Freeze
  <2>7. ASSUME NEW q, Pollute(q) PROVE UNCHANGED execVars
    BY <2>7 DEF Pollute
  <2>8. CASE UNCHANGED payVars
    BY <2>8 DEF payVars
  <2>. QED BY <2>1, <2>2, <2>3, <2>4, <2>5, <2>6, <2>7, <2>8 DEF PayNext
<1>. QED BY <1>1, <1>2, PTL DEF PaySpec, ExecSpec

LEMMA AppendSeventh ==
  ASSUME NEW a, NEW b, NEW c, NEW d, NEW e, NEW f, NEW g
  PROVE  Append(<<a, b, c, d, e, f>>, g) = <<a, b, c, d, e, f, g>>
<1> DEFINE S == {a, b, c, d, e, f, g}
<1>1. <<a, b, c, d, e, f>> \in Seq(S) /\ <<a, b, c, d, e, f, g>> \in Seq(S) /\ g \in S
  OBVIOUS
<1> DEFINE long == Append(<<a, b, c, d, e, f>>, g)
           tuple == <<a, b, c, d, e, f, g>>
<1>2. /\ long \in Seq(S) /\ Len(long) = 7
      /\ long[1] = a /\ long[2] = b /\ long[3] = c /\ long[4] = d /\ long[5] = e /\ long[6] = f /\ long[7] = g
  BY <1>1
<1>3. /\ tuple \in Seq(S) /\ Len(tuple) = 7
      /\ tuple[1] = a /\ tuple[2] = b /\ tuple[3] = c /\ tuple[4] = d /\ tuple[5] = e /\ tuple[6] = f /\ tuple[7] = g
  OBVIOUS
<1> HIDE DEF long, tuple
<1>4. ASSUME NEW i \in 1 .. 7 PROVE long[i] = tuple[i]
  <2>1. i = 1 \/ i = 2 \/ i = 3 \/ i = 4 \/ i = 5 \/ i = 6 \/ i = 7
    OBVIOUS
  <2>. QED BY <1>2, <1>3, <2>1
<1>5. long = tuple
  BY <1>2, <1>3, <1>4, SeqEqual
<1>. QED BY <1>5 DEF long, tuple

\* The stub of a payment has a part for whatever tells two payments of a task
\* apart: the short, native form is never the form of an issued asset.
THEOREM StubsAreInjective ==
  ASSUME NEW t, NEW p, NEW u, NEW q
  PROVE  Stub(t, p) = Stub(u, q) <=>
           /\ t = u /\ p.wallet = q.wallet /\ p.recipient = q.recipient /\ Code(p) = Code(q)
           /\ Stroops(p.amount) = Stroops(q.amount) /\ p.memo = q.memo /\ p.issuer = q.issuer
<1> DEFINE Native(v, r) == <<v, r.wallet, r.recipient, Code(r), Stroops(r.amount), r.memo>>
           Issued(v, r) == <<v, r.wallet, r.recipient, Code(r), Stroops(r.amount), r.memo, r.issuer>>
<1>1. Append(Native(t, p), p.issuer) = Issued(t, p) /\ Append(Native(u, q), q.issuer) = Issued(u, q)
  BY AppendSeventh
<1>2. /\ Stub(t, p) = IF p.issuer = Undefined THEN Native(t, p) ELSE Issued(t, p)
      /\ Stub(u, q) = IF q.issuer = Undefined THEN Native(u, q) ELSE Issued(u, q)
  BY <1>1 DEF Stub
<1>3. Len(Native(t, p)) # Len(Issued(u, q)) /\ Len(Issued(t, p)) # Len(Native(u, q))
  OBVIOUS
<1>4. CASE p.issuer = Undefined /\ q.issuer = Undefined
  BY <1>2, <1>4
<1>5. CASE p.issuer # Undefined /\ q.issuer # Undefined
  BY <1>2, <1>5
<1>6. CASE ~(p.issuer = Undefined <=> q.issuer = Undefined)
  BY <1>2, <1>3, <1>6
<1>. QED BY <1>4, <1>5, <1>6

-----------------------------------------------------------------------------
(* StellarAmounts: powers *)

\* The powers of b up to the n-th.
Approx(b, g, n) == g \in [0 .. n -> Nat] /\ g[0] = 1 /\ \A i \in 1 .. n : g[i] = b * g[i - 1]

\* They exist, they agree, and together they are the function Power() is defined by.
LEMMA Approximations ==
  ASSUME NEW b \in Nat
  PROVE  \A n \in Nat : \E g : Approx(b, g, n)
<1> DEFINE T == {n \in Nat : \E g : Approx(b, g, n)}
<1>1. 0 \in T
  <2> DEFINE g == [i \in 0 .. 0 |-> 1]
  <2>1. Approx(b, g, 0)
    BY DEF Approx
  <2>. QED BY <2>1
<1>2. ASSUME NEW n \in Nat, n \in T PROVE n + 1 \in T
  <2>1. PICK g : Approx(b, g, n)
    BY <1>2
  <2> DEFINE h == [i \in 0 .. n + 1 |-> IF i = n + 1 THEN b * g[n] ELSE g[i]]
  <2>2. n + 1 \in Nat /\ g[n] \in Nat /\ b * g[n] \in Nat
    BY <2>1 DEF Approx
  <2>3. h \in [0 .. n + 1 -> Nat] /\ h[0] = 1
    BY <2>1, <2>2 DEF Approx
  <2>4. ASSUME NEW i \in 1 .. n + 1 PROVE h[i] = b * h[i - 1]
    <3>1. CASE i = n + 1
      BY <2>1, <2>2, <3>1
    <3>2. CASE i \in 1 .. n
      BY <2>1, <3>2 DEF Approx
    <3>. QED BY <3>1, <3>2
  <2>5. Approx(b, h, n + 1)
    BY <2>3, <2>4 DEF Approx
  <2>. QED BY <2>2, <2>5
<1> HIDE DEF T
<1>3. Nat \subseteq T
  BY <1>1, <1>2, Induct
<1>. QED BY <1>3 DEF T

LEMMA ApproximationsAgree ==
  ASSUME NEW b \in Nat, NEW n \in Nat, NEW m \in Nat, NEW g, NEW h, n <= m, Approx(b, g, n), Approx(b, h, m)
  PROVE  \A i \in 0 .. n : g[i] = h[i]
<1> DEFINE T == {i \in Nat : i <= n => g[i] = h[i]}
<1>1. 0 \in T
  BY DEF Approx
<1>2. ASSUME NEW i \in Nat, i \in T PROVE i + 1 \in T
  <2>1. CASE i + 1 <= n
    <3>1. i + 1 \in 1 .. n /\ i + 1 \in 1 .. m /\ i + 1 - 1 = i /\ i <= n
      BY <2>1
    <3>. QED BY <1>2, <3>1 DEF Approx
  <2>. QED BY <2>1
<1> HIDE DEF T
<1>3. Nat \subseteq T
  BY <1>1, <1>2, Induct
<1>. QED BY <1>3 DEF T

LEMMA PowersExist ==
  ASSUME NEW b \in Nat
  PROVE  \E f : f = [k \in Nat |-> IF k = 0 THEN 1 ELSE b * f[k - 1]]
<1> DEFINE G(n) == CHOOSE g : Approx(b, g, n)
           f == [n \in Nat |-> G(n)[n]]
<1>1. \A n \in Nat : Approx(b, G(n), n)
  BY Approximations
<1> HIDE DEF G
<1>2. f[0] = 1
  BY <1>1 DEF Approx
<1>3. ASSUME NEW n \in Nat, n # 0 PROVE f[n] = b * f[n - 1]
  <2>1. n - 1 \in Nat /\ n - 1 <= n /\ n \in 1 .. n /\ n - 1 \in 0 .. n - 1
    BY <1>3
  <2>2. G(n)[n] = b * G(n)[n - 1]
    BY <1>1, <2>1 DEF Approx
  <2>3. G(n - 1)[n - 1] = G(n)[n - 1]
    BY <1>1, <2>1, ApproximationsAgree
  <2>. QED BY <2>1, <2>2, <2>3
<1>4. f = [k \in Nat |-> IF k = 0 THEN 1 ELSE b * f[k - 1]]
  <2>1. \A k \in Nat : f[k] = IF k = 0 THEN 1 ELSE b * f[k - 1]
    BY <1>2, <1>3
  <2>. QED BY <2>1
<1>. QED BY <1>4

\* Power() can therefore be unrolled.
LEMMA PowerUnrolls ==
  ASSUME NEW b \in Nat
  PROVE  Power(b, 0) = 1 /\ \A n \in Nat : Power(b, n + 1) = b * Power(b, n)
<1> DEFINE p == CHOOSE f : f = [k \in Nat |-> IF k = 0 THEN 1 ELSE b * f[k - 1]]
<1>1. p = [k \in Nat |-> IF k = 0 THEN 1 ELSE b * p[k - 1]]
  BY PowersExist
<1>2. \A n : Power(b, n) = p[n]
  BY DEF Power
<1> HIDE DEF p
<1>3. p[0] = 1
  BY <1>1
<1>4. ASSUME NEW n \in Nat PROVE p[n + 1] = b * p[n]
  <2>1. n + 1 \in Nat /\ n + 1 # 0 /\ n + 1 - 1 = n
    OBVIOUS
  <2>. QED BY <1>1, <2>1
<1>. QED BY <1>2, <1>3, <1>4

\* Products of positive numbers, and factors common to both sides.
LEMMA Positive ==
  ASSUME NEW a \in Nat \ {0}, NEW b \in Nat \ {0}
  PROVE  a * b \in Nat \ {0} /\ a <= a * b
  OBVIOUS

LEMMA Factor ==
  ASSUME NEW a \in Int, NEW b \in Int, NEW c \in Nat \ {0}
  PROVE  /\ a <= b <=> a * c <= b * c
         /\ a < b <=> a * c < b * c
         /\ a = b <=> a * c = b * c
  OBVIOUS

\* Powers are positive, they add their exponents, and they grow.
LEMMA PowerIsPositive ==
  ASSUME NEW b \in Nat \ {0}
  PROVE  \A n \in Nat : Power(b, n) \in Nat \ {0}
<1> DEFINE T == {n \in Nat : Power(b, n) \in Nat \ {0}}
<1>1. 0 \in T
  BY PowerUnrolls
<1>2. ASSUME NEW n \in Nat, n \in T PROVE n + 1 \in T
  BY <1>2, PowerUnrolls, Positive
<1> HIDE DEF T
<1>3. Nat \subseteq T
  BY <1>1, <1>2, Induct
<1>. QED BY <1>3 DEF T

LEMMA PowerAdds ==
  ASSUME NEW b \in Nat \ {0}, NEW m \in Nat
  PROVE  \A n \in Nat : Power(b, m + n) = Power(b, m) * Power(b, n)
<1> DEFINE T == {n \in Nat : Power(b, m + n) = Power(b, m) * Power(b, n)}
<1>1. 0 \in T
  BY PowerUnrolls, PowerIsPositive
<1>2. ASSUME NEW n \in Nat, n \in T PROVE n + 1 \in T
  <2>1. /\ Power(b, m + (n + 1)) = b * Power(b, m + n) /\ Power(b, n + 1) = b * Power(b, n)
        /\ Power(b, m + n) = Power(b, m) * Power(b, n)
    <3>1. m + n \in Nat /\ m + (n + 1) = (m + n) + 1
      OBVIOUS
    <3>. QED BY <1>2, <3>1, PowerUnrolls
  <2>2. Power(b, m) \in Nat /\ Power(b, n) \in Nat
    BY PowerIsPositive
  <2>3. Power(b, m + (n + 1)) = Power(b, m) * Power(b, n + 1)
    BY <2>1, <2>2
  <2>. QED BY <2>3
<1> HIDE DEF T
<1>3. Nat \subseteq T
  BY <1>1, <1>2, Induct
<1>. QED BY <1>3 DEF T

LEMMA PowerGrows ==
  ASSUME NEW b \in Nat \ {0}, NEW m \in Nat, NEW n \in Nat, m <= n
  PROVE  Power(b, m) <= Power(b, n)
<1>1. n - m \in Nat /\ m + (n - m) = n
  OBVIOUS
<1>2. Power(b, n) = Power(b, m) * Power(b, n - m)
  BY <1>1, PowerAdds
<1>. QED BY <1>1, <1>2, PowerIsPositive, Positive

LEMMA PowerStep ==
  ASSUME NEW b \in Nat \ {0}, NEW n \in Nat \ {0}
  PROVE  Power(b, n) = b * Power(b, n - 1) /\ Power(b, n - 1) \in Nat \ {0}
<1> DEFINE k == n - 1
<1>1. k \in Nat /\ n = k + 1
  OBVIOUS
<1> HIDE DEF k
<1>2. Power(b, n) = b * Power(b, k) /\ Power(b, k) \in Nat \ {0}
  BY <1>1, PowerUnrolls, PowerIsPositive
<1>. QED BY <1>2 DEF k

\* There is a power of two above every number.
LEMMA PowerExceeds == \A n \in Nat : n < Power(2, n)
<1> DEFINE T == {n \in Nat : n < Power(2, n)}
<1>1. 0 \in T
  BY PowerUnrolls
<1>2. ASSUME NEW n \in Nat, n \in T PROVE n + 1 \in T
  BY <1>2, PowerUnrolls, PowerIsPositive
<1> HIDE DEF T
<1>3. Nat \subseteq T
  BY <1>1, <1>2, Induct
<1>. QED BY <1>3 DEF T

\* Quotient and remainder, and that there is one of each.
LEMMA Quotient ==
  ASSUME NEW n \in Nat, NEW d \in Nat \ {0}
  PROVE  /\ (n \div d) \in Nat /\ (n % d) \in 0 .. d - 1
         /\ n = d * (n \div d) + (n % d)
  OBVIOUS

LEMMA OneQuotient ==
  ASSUME NEW n \in Nat, NEW d \in Nat \ {0}, NEW q \in Nat, NEW r \in 0 .. d - 1, n = d * q + r
  PROVE  n \div d = q /\ n % d = r
<1> DEFINE p == n \div d
           s == n % d
<1>1. p \in Nat /\ s \in 0 .. d - 1 /\ n = d * p + s
  BY Quotient
<1> HIDE DEF p, s
<1>2. ~(p < q)
  <2>1. ASSUME p < q PROVE d * (p + 1) <= d * q
    BY <1>1, <2>1
  <2>. QED BY <1>1, <2>1
<1>3. ~(q < p)
  <2>1. ASSUME q < p PROVE d * (q + 1) <= d * p
    BY <1>1, <2>1
  <2>. QED BY <1>1, <2>1
<1>4. p = q
  BY <1>1, <1>2, <1>3
<1>. QED BY <1>1, <1>4 DEF p, s

\* A fraction may be expanded before it is rounded.
LEMMA RoundedScales ==
  ASSUME NEW n \in Nat, NEW d \in Nat \ {0}, NEW c \in Nat \ {0}, NEW e
  PROVE  Rounded(n * c, d * c, e) = Rounded(n, d, e)
<1> DEFINE q == n \div d
           r == n % d
<1>1. q \in Nat /\ r \in 0 .. d - 1 /\ n = d * q + r
  BY Quotient
<1>2. n * c \in Nat /\ d * c \in Nat \ {0} /\ r * c \in 0 .. d * c - 1 /\ n * c = (d * c) * q + r * c
  <2> HIDE DEF q, r
  <2>1. n * c \in Nat /\ d * c \in Nat \ {0} /\ r * c \in Nat
    BY <1>1, Positive
  <2>2. r * c < d * c
    BY <1>1, Factor
  <2>3. n * c = (d * c) * q + r * c
    BY <1>1
  <2>. QED BY <2>1, <2>2, <2>3
<1>3. (n * c) \div (d * c) = q /\ (n * c) % (d * c) = r * c
  <2> DEFINE nc == n * c
             dc == d * c
             rc == r * c
  <2>1. nc \in Nat /\ dc \in Nat \ {0} /\ q \in Nat /\ rc \in 0 .. dc - 1 /\ nc = dc * q + rc
    BY <1>1, <1>2
  <2> HIDE DEF nc, dc, rc, q
  <2>2. nc \div dc = q /\ nc % dc = rc
    BY <2>1, OneQuotient
  <2>. QED BY <2>2 DEF nc, dc, rc
<1>4. (2 * (r * c) > d * c <=> 2 * r > d) /\ (2 * (r * c) = d * c <=> 2 * r = d)
  <2> HIDE DEF r
  <2>1. 2 * (r * c) = (2 * r) * c /\ r \in Int
    BY <1>1
  <2>. QED BY <2>1, Factor
<1> HIDE DEF r
<1>. QED BY <1>3, <1>4 DEF Rounded, r

-----------------------------------------------------------------------------
(* StellarAmounts: Numbers *)

\* The binary exponent e of a / b, stated without division.
IsExponent(a, b, e) ==
  /\ e \in Int
  /\ Power(2, Precision - 1) * (b * Up(e)) <= a * Up(-e)
  /\ a * Up(-e) < 2 * (Power(2, Precision - 1) * (b * Up(e)))

\* Up() is positive, and it grows with its exponent.
LEMMA UpIs ==
  ASSUME NEW n \in Nat
  PROVE  Up(n) = Power(2, n) /\ Up(-n) = 1
<1>1. CASE n = 0
  BY <1>1, PowerUnrolls DEF Up
<1>2. CASE n > 0
  BY <1>2 DEF Up
<1>. QED BY <1>1, <1>2

LEMMA UpIsPositive ==
  ASSUME NEW e \in Int
  PROVE  Up(e) \in Nat \ {0}
  BY PowerIsPositive DEF Up

LEMMA UpGrows ==
  ASSUME NEW e \in Int, NEW g \in Int, e < g
  PROVE  2 * (Up(e) * Up(-g)) <= Up(g) * Up(-e)
<1>1. ASSUME NEW n \in Nat, NEW m \in Nat, n < m PROVE 2 * Power(2, n) <= Power(2, m)
  <2>1. n + 1 \in Nat /\ n + 1 <= m
    BY <1>1
  <2>. QED BY <2>1, PowerGrows, PowerUnrolls
<1>2. CASE 0 <= e
  <2>1. Up(e) = Power(2, e) /\ Up(-e) = 1 /\ Up(g) = Power(2, g) /\ Up(-g) = 1
    BY <1>2, UpIs
  <2>2. Power(2, e) \in Nat /\ Power(2, g) \in Nat /\ 2 * Power(2, e) <= Power(2, g)
    BY <1>1, <1>2, PowerIsPositive
  <2>. QED BY <2>1, <2>2
<1>3. CASE g <= 0
  <2>1. -e \in Nat /\ -g \in Nat /\ -(-e) = e /\ -(-g) = g /\ -g < -e
    BY <1>3
  <2>2. Up(-e) = Power(2, -e) /\ Up(e) = 1 /\ Up(-g) = Power(2, -g) /\ Up(g) = 1
    BY <2>1, UpIs
  <2>3. Power(2, -e) \in Nat /\ Power(2, -g) \in Nat /\ 2 * Power(2, -g) <= Power(2, -e)
    BY <1>1, <2>1, PowerIsPositive
  <2>. QED BY <2>2, <2>3
<1>4. CASE e < 0 /\ 0 < g
  <2>1. -e \in Nat /\ -(-e) = e /\ 0 < -e /\ g \in Nat
    BY <1>4
  <2>2. Up(-e) = Power(2, -e) /\ Up(e) = 1 /\ Up(-g) = 1 /\ Up(g) = Power(2, g)
    BY <2>1, UpIs
  <2>3. Power(2, -e) \in Nat /\ Power(2, g) \in Nat \ {0} /\ 2 <= Power(2, -e)
    <3>1. 2 * Power(2, 0) <= Power(2, -e) /\ Power(2, 0) = 1
      BY <1>1, <2>1, PowerUnrolls
    <3>. QED BY <2>1, <3>1, PowerIsPositive
  <2>4. Power(2, -e) <= Power(2, g) * Power(2, -e)
    BY <2>3
  <2>. QED BY <2>2, <2>3, <2>4
<1>. QED BY <1>2, <1>3, <1>4

\* A fraction has one exponent at most ...
LEMMA OneExponent ==
  ASSUME NEW a \in Nat \ {0}, NEW b \in Nat \ {0}, NEW e, NEW g,
         IsExponent(a, b, e), IsExponent(a, b, g)
  PROVE  e = g
<1>1. ASSUME NEW i, NEW j, IsExponent(a, b, i), IsExponent(a, b, j), i < j PROVE FALSE
  <2> DEFINE h == Power(2, Precision - 1)
             u == Up(i)
             v == Up(-i)
             x == Up(j)
             y == Up(-j)
  <2>1. i \in Int /\ j \in Int /\ -i \in Int /\ -j \in Int
    BY <1>1 DEF IsExponent
  <2>2. u \in Nat \ {0} /\ v \in Nat \ {0} /\ x \in Nat \ {0} /\ y \in Nat \ {0} /\ 2 * (u * y) <= x * v
    BY <1>1, <2>1, UpIsPositive, UpGrows
  <2>3. h \in Nat \ {0}
    BY AmountRange, PowerIsPositive
  <2>4. h * (b * x) <= a * y /\ a * v < 2 * (h * (b * u))
    BY <1>1 DEF IsExponent
  <2> HIDE DEF h, u, v, x, y
  <2>5. (h * (b * x)) * v <= (a * y) * v
    <3>1. h * (b * x) \in Int /\ a * y \in Int
      BY <2>2, <2>3
    <3>. QED BY <2>2, <2>4, <3>1, Factor
  <2>6. (a * v) * y < (2 * (h * (b * u))) * y
    <3>1. 2 * (h * (b * u)) \in Int /\ a * v \in Int
      BY <2>2, <2>3
    <3>. QED BY <2>2, <2>4, <3>1, Factor
  <2>7. (2 * (u * y)) * (h * b) <= (x * v) * (h * b)
    <3>1. h * b \in Nat \ {0} /\ 2 * (u * y) \in Int /\ x * v \in Int
      BY <2>2, <2>3, Positive
    <3>. QED BY <2>2, <3>1, Factor
  <2>8. /\ (h * (b * x)) * v = (x * v) * (h * b) /\ (a * v) * y = (a * y) * v
        /\ (2 * (h * (b * u))) * y = (2 * (u * y)) * (h * b)
    BY <2>2, <2>3
  <2> DEFINE p == (x * v) * (h * b)
             q == (a * y) * v
             r == (2 * (u * y)) * (h * b)
  <2>9. p \in Int /\ q \in Int /\ r \in Int
    BY <2>2, <2>3
  <2>10. p <= q /\ q < r /\ r <= p
    BY <2>5, <2>6, <2>7, <2>8
  <2> HIDE DEF p, q, r
  <2>. QED BY <2>9, <2>10
<1>2. e \in Int /\ g \in Int
  BY DEF IsExponent
<1>. QED BY <1>1, <1>2

\* ... and ExponentOf() is it.
LEMMA ExponentIs ==
  ASSUME NEW a \in Nat \ {0}, NEW b \in Nat \ {0}
  PROVE  IsExponent(a, b, ExponentOf(a, b))
<1> DEFINE h == Power(2, Precision - 1)
           low == h * b
<1>1. h \in Nat \ {0} /\ low \in Nat \ {0}
  <2>1. Precision - 1 \in Nat
    BY AmountRange
  <2>2. h \in Nat \ {0}
    BY <2>1, PowerIsPositive
  <2> HIDE DEF h
  <2>. QED BY <2>2, Positive
<1>2. CASE a >= 2 * low
  <2> DEFINE E == {e \in 1 .. a : low * Power(2, e) <= a /\ a < 2 * low * Power(2, e)}
             T == {n \in Nat : a < 2 * low * Power(2, n)}
  <2>1. a \in T
    <3>1. a \in Nat /\ Power(2, a) \in Nat \ {0} /\ a < Power(2, a) /\ 2 * low \in Nat \ {0}
      <4>1. a \in Nat /\ Power(2, a) \in Nat \ {0} /\ a < Power(2, a)
        BY PowerExceeds, PowerIsPositive
      <4> HIDE DEF low
      <4>2. 2 * low \in Nat \ {0}
        BY <1>1
      <4>. QED BY <4>1, <4>2
    <3>2. Power(2, a) <= 2 * low * Power(2, a)
      <4>1. Power(2, a) <= Power(2, a) * (2 * low) /\ Power(2, a) * (2 * low) = 2 * low * Power(2, a)
        BY <3>1, Positive
      <4>. QED BY <4>1
    <3>3. 2 * low * Power(2, a) \in Nat
      BY <3>1
    <3>. QED BY <3>1, <3>2, <3>3
  <2>2. PICK m \in T : \A k \in T : m <= k
    <3>1. T \subseteq Nat
      OBVIOUS
    <3> HIDE DEF T
    <3>. QED BY <2>1, <3>1, LeastElement
  <2>3. m \in Nat /\ a < 2 * low * Power(2, m) /\ m <= a
    BY <2>1, <2>2
  <2>4. m # 0
    BY <1>1, <1>2, <2>3, PowerUnrolls
  <2>5. m - 1 \in Nat /\ ~(m <= m - 1)
    BY <2>3, <2>4
  <2>6. ~(a < 2 * low * Power(2, m - 1))
    BY <2>2, <2>5
  <2>7. Power(2, m) = 2 * Power(2, m - 1) /\ Power(2, m - 1) \in Nat
    BY <2>3, <2>4, PowerStep
  <2>8. low * Power(2, m) <= a
    <3>1. low * (2 * Power(2, m - 1)) = 2 * low * Power(2, m - 1) /\ 2 * low * Power(2, m - 1) \in Int
      BY <1>1, <2>7
    <3>. QED BY <2>6, <2>7, <3>1
  <2>9. m \in E
    BY <2>3, <2>4, <2>8
  <2> DEFINE e == ExponentOf(a, b)
  <2>10. e = CHOOSE i \in 1 .. a : low * Power(2, i) <= a /\ a < 2 * low * Power(2, i)
    BY <1>2 DEF ExponentOf
  <2>11. e \in 1 .. a /\ low * Power(2, e) <= a /\ a < 2 * low * Power(2, e)
    <3> HIDE DEF low, e
    <3>. QED BY <2>9, <2>10
  <2> HIDE DEF e
  <2>12. e \in Nat /\ Up(e) = Power(2, e) /\ Up(-e) = 1 /\ Power(2, e) \in Nat
    BY <2>11, UpIs, PowerIsPositive
  <2>13. h * (b * Power(2, e)) = low * Power(2, e) /\ 2 * (h * (b * Power(2, e))) = 2 * low * Power(2, e)
    BY <1>1, <2>12
  <2>14. IsExponent(a, b, e)
    BY <2>11, <2>12, <2>13 DEF IsExponent
  <2>. QED BY <2>14 DEF e
<1>3. CASE ~(a >= 2 * low)
  <2> DEFINE Q == {q \in 0 .. Precision + b : low <= a * Power(2, q) /\ a * Power(2, q) < 2 * low}
             T == {n \in Nat : low <= a * Power(2, n)}
             top == Precision - 1 + b
  <2>1. top \in T
    <3>1. Precision - 1 \in Nat /\ top \in Nat
      BY AmountRange
    <3>2. Power(2, top) = h * Power(2, b) /\ b < Power(2, b) /\ Power(2, b) \in Nat
      BY <3>1, PowerAdds, PowerExceeds, PowerIsPositive
    <3>3. h * b <= h * Power(2, b)
      BY <1>1, <3>2
    <3>4. h * Power(2, b) \in Nat \ {0}
      BY <1>1, <3>1, <3>2, PowerIsPositive
    <3>5. h * Power(2, b) <= (h * Power(2, b)) * a /\ (h * Power(2, b)) * a = a * Power(2, top)
      <4> DEFINE w == h * Power(2, b)
      <4>1. w \in Nat \ {0} /\ Power(2, top) = w
        BY <3>2, <3>4
      <4> HIDE DEF w
      <4>2. w <= w * a /\ w * a = a * w
        BY <4>1, Positive
      <4>. QED BY <4>1, <4>2 DEF w
    <3>6. low <= a * Power(2, top)
      BY <1>1, <3>2, <3>3, <3>4, <3>5
    <3>. QED BY <3>1, <3>6
  <2>2. PICK m \in T : \A k \in T : m <= k
    <3>1. T \subseteq Nat
      OBVIOUS
    <3> HIDE DEF T, top
    <3>. QED BY <2>1, <3>1, LeastElement
  <2>3. m \in Nat /\ low <= a * Power(2, m) /\ m <= Precision + b
    BY <2>1, <2>2, AmountRange
  <2>4. a * Power(2, m) < 2 * low
    <3>1. CASE m = 0
      BY <1>1, <1>3, <3>1, PowerUnrolls
    <3>2. CASE m # 0
      <4>1. m - 1 \in Nat /\ ~(m <= m - 1) /\ m = (m - 1) + 1
        BY <2>3, <3>2
      <4>2. ~(low <= a * Power(2, m - 1))
        BY <2>2, <4>1
      <4>3. Power(2, m) = 2 * Power(2, m - 1) /\ Power(2, m - 1) \in Nat
        BY <2>3, <3>2, PowerStep
      <4>4. a * (2 * Power(2, m - 1)) = 2 * (a * Power(2, m - 1)) /\ a * Power(2, m - 1) \in Int
        BY <4>3
      <4>. QED BY <1>1, <4>2, <4>3, <4>4
    <3>. QED BY <3>1, <3>2
  <2>5. m \in Q
    BY <2>3, <2>4
  <2> DEFINE q == CHOOSE i \in 0 .. Precision + b : low <= a * Power(2, i) /\ a * Power(2, i) < 2 * low
  <2>6. ExponentOf(a, b) = -q
    BY <1>3 DEF ExponentOf
  <2>7. q \in 0 .. Precision + b /\ low <= a * Power(2, q) /\ a * Power(2, q) < 2 * low
    <3> HIDE DEF low
    <3>. QED BY <2>5
  <2> HIDE DEF q
  <2>8. q \in Nat /\ -q \in Int /\ -(-q) = q /\ Up(q) = Power(2, q) /\ Up(-q) = 1
    BY <2>7, UpIs, AmountRange
  <2>9. h * (b * 1) = low
    BY <1>1
  <2>10. IsExponent(a, b, -q)
    BY <2>7, <2>8, <2>9 DEF IsExponent
  <2>. QED BY <2>6, <2>10
<1>. QED BY <1>2, <1>3

\* Rounding is to a nearest significand, and exact where that is possible.
LEMMA RoundedIs ==
  ASSUME NEW n \in Nat, NEW d \in Nat \ {0}, NEW e
  PROVE  LET m == Rounded(n, d, e).m
         IN /\ Rounded(n, d, e) = [m |-> m, e |-> e] /\ m \in Nat
            /\ 2 * (m * d) <= 2 * n + d /\ 2 * n <= 2 * (m * d) + d
            /\ \A x \in Nat : /\ n = d * x => m = x
                              /\ d * x <= n => x <= m
                              /\ n < d * x => m <= x
<1> DEFINE q == n \div d
           r == n % d
           m == Rounded(n, d, e).m
<1>1. q \in Nat /\ r \in 0 .. d - 1 /\ n = d * q + r
  BY Quotient
<1>2. Rounded(n, d, e) = [m |-> m, e |-> e] /\ m = IF 2 * r > d \/ (2 * r = d /\ q % 2 = 1) THEN q + 1 ELSE q
  BY DEF Rounded
<1> HIDE DEF q, r, m
<1>3. m \in {q, q + 1} /\ (m = q => 2 * r <= d) /\ (m = q + 1 => 2 * r >= d)
  BY <1>1, <1>2
<1>4. m * d = (IF m = q THEN d * q ELSE d * q + d) /\ m \in Nat
  BY <1>1, <1>3
<1>5. 2 * (m * d) <= 2 * n + d /\ 2 * n <= 2 * (m * d) + d
  <2> DEFINE z == d * q
  <2>1. z \in Nat /\ n = z + r /\ m * d = IF m = q THEN z ELSE z + d
    BY <1>1, <1>4
  <2> HIDE DEF z
  <2>. QED BY <1>1, <1>3, <2>1
<1>6. ASSUME NEW x \in Nat
      PROVE  /\ n = d * x => m = x
             /\ d * x <= n => x <= m
             /\ n < d * x => m <= x
  <2>1. ASSUME d * x <= n PROVE x <= q
    <3>1. ASSUME q + 1 <= x PROVE d * (q + 1) <= d * x
      BY <1>1, <3>1
    <3>2. d * (q + 1) = d * q + d /\ d * q \in Int /\ d * x \in Int
      BY <1>1
    <3>. QED BY <1>1, <2>1, <3>1, <3>2
  <2>2. ASSUME n < d * x PROVE q + 1 <= x
    <3>1. ASSUME x <= q PROVE d * x <= d * q
      BY <1>1, <3>1
    <3>2. d * q \in Int /\ d * x \in Int
      BY <1>1
    <3>. QED BY <1>1, <2>2, <3>1, <3>2
  <2>3. ASSUME n = d * x PROVE m = x
    <3>1. q = x /\ r = 0
      <4>1. 0 \in 0 .. d - 1 /\ n = d * x + 0
        BY <2>3
      <4>. QED BY <4>1, OneQuotient DEF q, r
    <3>. QED BY <1>3, <3>1
  <2>. QED BY <1>1, <1>3, <2>1, <2>2, <2>3
<1>. QED BY <1>2, <1>4, <1>5, <1>6 DEF m

\* The constants the code fixes.
LEMMA PrecisionIs ==
  /\ Precision - 1 \in Nat /\ Power(2, Precision - 1) \in Nat \ {0}
  /\ Power(2, Precision) = 2 * Power(2, Precision - 1) /\ Power(2, Precision) \in Nat \ {0}
  /\ Decimals \in Nat \ {0} /\ Scale \in Nat \ {0}
  BY AmountRange, PowerStep, PowerIsPositive DEF Scale

\* A positive amount has a nearest Number, and it is positive.
LEMMA NearestIsNumber ==
  ASSUME NEW a \in Nat \ {0}, NEW b \in Nat \ {0}
  PROVE  Nearest(a, b) \in [m : Nat \ {0}, e : Int]
<1> DEFINE e == ExponentOf(a, b)
           n == a * Up(-e)
           d == b * Up(e)
           h == Power(2, Precision - 1)
           m == Rounded(n, d, e).m
<1>1. IsExponent(a, b, e)
  BY ExponentIs
<1>2. e \in Int /\ h * d <= n
  BY <1>1 DEF IsExponent
<1> HIDE DEF e
<1>3. Up(-e) \in Nat \ {0} /\ Up(e) \in Nat \ {0} /\ h \in Nat \ {0}
  BY <1>2, UpIsPositive, PrecisionIs
<1>4. n \in Nat /\ d \in Nat \ {0}
  BY <1>3, Positive
<1> HIDE DEF n, d, h
<1>5. Rounded(n, d, e) = [m |-> m, e |-> e] /\ m \in Nat /\ (d * h <= n => h <= m)
  BY <1>3, <1>4, RoundedIs
<1>6. m \in Nat \ {0}
  <2>1. d * h = h * d
    BY <1>3, <1>4
  <2>. QED BY <1>2, <1>3, <1>5, <2>1
<1> HIDE DEF m
<1>7. Nearest(a, b) = Carried([m |-> m, e |-> e])
  BY <1>5 DEF Nearest, n, d, e
<1>8. [m |-> m, e |-> e] \in [m : Nat \ {0}, e : Int] /\ [m |-> h, e |-> e + 1] \in [m : Nat \ {0}, e : Int]
  BY <1>2, <1>3, <1>6
<1>. QED BY <1>7, <1>8 DEF Carried, h

\* A fraction may be expanded: its nearest Number stays the same.
LEMMA NearestScales ==
  ASSUME NEW a \in Nat \ {0}, NEW b \in Nat \ {0}, NEW c \in Nat \ {0}
  PROVE  Nearest(a * c, b * c) = Nearest(a, b)
<1> DEFINE e == ExponentOf(a, b)
           v == Up(-e)
           u == Up(e)
           h == Power(2, Precision - 1)
           ac == a * c
           bc == b * c
<1>1. IsExponent(a, b, e)
  BY ExponentIs
<1>2. e \in Int /\ h * (b * u) <= a * v /\ a * v < 2 * (h * (b * u))
  BY <1>1 DEF IsExponent
<1>3. v \in Nat \ {0} /\ u \in Nat \ {0} /\ h \in Nat \ {0} /\ ac \in Nat \ {0} /\ bc \in Nat \ {0}
  <2> HIDE DEF e
  <2>. QED BY <1>2, UpIsPositive, PrecisionIs, Positive
<1>4. IsExponent(ac, bc, e)
  <2> HIDE DEF e, v, u, h
  <2>1. h * (b * u) \in Int /\ a * v \in Int /\ 2 * (h * (b * u)) \in Int
    BY <1>3
  <2>2. (h * (b * u)) * c <= (a * v) * c /\ (a * v) * c < (2 * (h * (b * u))) * c
    BY <1>2, <2>1, Factor
  <2>3. (h * (b * u)) * c = h * (bc * u) /\ (a * v) * c = ac * v /\ (2 * (h * (b * u))) * c = 2 * (h * (bc * u))
    BY <1>3
  <2>4. h * (bc * u) <= ac * v /\ ac * v < 2 * (h * (bc * u))
    BY <2>2, <2>3
  <2>. QED BY <1>2, <2>4 DEF IsExponent, h, u, v
<1>5. ExponentOf(ac, bc) = e
  <2> HIDE DEF ac, bc, e
  <2>. QED BY <1>3, <1>4, ExponentIs, OneExponent
<1>6. Rounded(ac * v, bc * u, e) = Rounded(a * v, b * u, e)
  <2> DEFINE n == a * v
             d == b * u
  <2>1. n \in Nat /\ d \in Nat \ {0} /\ ac * v = n * c /\ bc * u = d * c
    <3> HIDE DEF e, v, u
    <3>1. ac * v = n * c /\ bc * u = d * c
      BY <1>3
    <3>. QED BY <1>3, <3>1, Positive
  <2> HIDE DEF n, d
  <2>2. Rounded(n * c, d * c, e) = Rounded(n, d, e)
    BY <2>1, RoundedScales
  <2> HIDE DEF ac, bc, v, u, e
  <2>3. Rounded(ac * v, bc * u, e) = Rounded(n, d, e)
    BY <2>1, <2>2
  <2>. QED BY <2>3 DEF n, d
<1>7. Nearest(ac, bc) = Carried(Rounded(ac * v, bc * u, e))
  BY <1>5 DEF Nearest
<1>8. Nearest(a, b) = Carried(Rounded(a * v, b * u, e))
  BY DEF Nearest
<1>. QED BY <1>6, <1>7, <1>8

\* A Stellar amount has no exponent above 0, and its significand, before it is
\* carried, is within half a unit of the amount.
LEMMA SmallNumber ==
  ASSUME NEW z \in Nat \ {0}, z < Power(2, Precision) * Scale
  PROVE  \E q \in Nat, m \in Nat :
           LET h == Power(2, Precision - 1)
               w == z * Power(2, q)
           IN /\ Nearest(z, Scale) = IF m = 2 * h THEN [m |-> h, e |-> 1 - q] ELSE [m |-> m, e |-> -q]
              /\ h * Scale <= w /\ w < 2 * (h * Scale)
              /\ 2 * (m * Scale) <= 2 * w + Scale /\ 2 * w <= 2 * (m * Scale) + Scale
              /\ Power(2, q) = Scale => m = z
<1> DEFINE e == ExponentOf(z, Scale)
           h == Power(2, Precision - 1)
           q == -e
           w == z * Power(2, q)
           m == Rounded(w, Scale, e).m
<1>1. IsExponent(z, Scale, e)
  BY PrecisionIs, ExponentIs
<1>2. e \in Int /\ h * (Scale * Up(e)) <= z * Up(-e) /\ z * Up(-e) < 2 * (h * (Scale * Up(e)))
  BY <1>1 DEF IsExponent
<1>3. h \in Nat \ {0} /\ Scale \in Nat \ {0} /\ z < (2 * h) * Scale
  BY PrecisionIs
<1>4. ~(e > 0)
  <2> HIDE DEF e, h
  <2>1. ASSUME e > 0 PROVE FALSE
    <3>1. e \in Nat /\ Up(e) = Power(2, e) /\ Up(-e) = 1 /\ e \in Nat \ {0}
      BY <1>2, <2>1, UpIs
    <3>2. Power(2, e) = 2 * Power(2, e - 1) /\ Power(2, e - 1) \in Nat \ {0}
      BY <3>1, PowerStep
    <3> DEFINE k == Power(2, e - 1)
    <3>3. h * (Scale * (2 * k)) = ((2 * h) * Scale) * k /\ (2 * h) * Scale \in Nat \ {0}
      BY <1>3, <3>2
    <3>4. (2 * h) * Scale <= ((2 * h) * Scale) * k
      <4> DEFINE s == (2 * h) * Scale
      <4>1. s \in Nat \ {0} /\ k \in Nat \ {0}
        BY <3>2, <3>3
      <4> HIDE DEF s, k
      <4>. QED BY <4>1, Positive DEF s
    <3>5. ((2 * h) * Scale) * k <= z
      BY <1>2, <3>1, <3>2, <3>3
    <3> DEFINE s == (2 * h) * Scale
               t == s * k
    <3>6. s \in Nat /\ t \in Nat /\ s <= t /\ t <= z /\ z < s
      BY <1>3, <3>2, <3>3, <3>4, <3>5
    <3> HIDE DEF s, t
    <3>. QED BY <3>6
  <2>. QED BY <2>1
<1>5. q \in Nat /\ -q = e /\ Up(-e) = Power(2, q) /\ Up(e) = 1
  <2>1. q \in Nat /\ -q = e
    BY <1>2, <1>4
  <2> HIDE DEF q
  <2>2. Up(q) = Power(2, q) /\ Up(-q) = 1
    BY <2>1, UpIs
  <2>. QED BY <2>1, <2>2 DEF q
<1>6. Nearest(z, Scale) = Carried(Rounded(w, Scale, e))
  <2>1. Nearest(z, Scale) = Carried(Rounded(z * Up(-e), Scale * Up(e), e))
    BY DEF Nearest
  <2>2. Scale * 1 = Scale
    BY <1>3
  <2>. QED BY <1>5, <2>1, <2>2
<1>7. w \in Nat /\ h * Scale <= w /\ w < 2 * (h * Scale)
  <2>1. Scale * 1 = Scale /\ Power(2, q) \in Nat \ {0}
    BY <1>3, <1>5, PowerIsPositive
  <2> HIDE DEF q
  <2>2. w \in Nat
    BY <2>1
  <2>. QED BY <1>2, <1>5, <2>1, <2>2
<1> HIDE DEF e, q, w, h
<1>8. /\ Rounded(w, Scale, e) = [m |-> m, e |-> e] /\ m \in Nat
      /\ 2 * (m * Scale) <= 2 * w + Scale /\ 2 * w <= 2 * (m * Scale) + Scale
      /\ w = Scale * z => m = z
  BY <1>3, <1>7, RoundedIs
<1> HIDE DEF m
<1>9. Nearest(z, Scale) = IF m = 2 * h THEN [m |-> h, e |-> 1 - q] ELSE [m |-> m, e |-> -q]
  <2>1. Power(2, Precision) = 2 * h /\ e + 1 = 1 - q /\ e = -q
    BY <1>5, PrecisionIs DEF h
  <2>2. Carried([m |-> m, e |-> e]) = IF m = 2 * h THEN [m |-> h, e |-> e + 1] ELSE [m |-> m, e |-> e]
    BY <2>1 DEF Carried, h
  <2>. QED BY <1>6, <1>8, <2>1, <2>2
<1>10. Power(2, q) = Scale => m = z
  <2>1. ASSUME Power(2, q) = Scale PROVE w = Scale * z
    BY <1>3, <2>1 DEF w
  <2>. QED BY <1>8, <2>1
<1>. QED BY <1>5, <1>7, <1>8, <1>9, <1>10 DEF w, h

\* An amount that is rounded up to a power of two does not meet one above it.
LEMMA CarryApart ==
  ASSUME NEW u \in Nat \ {0}, NEW v \in Nat \ {0}, NEW r \in Nat \ {0}, NEW h \in Nat \ {0},
         NEW S \in Nat \ {0},
         h = Power(2, Precision - 1), S <= Power(2, r), S <= 2 * h,
         u * Power(2, r) < 2 * (h * S), 2 * ((2 * h) * S) <= 2 * (u * Power(2, r)) + S,
         h * S <= v * Power(2, r - 1), 2 * (v * Power(2, r - 1)) <= 2 * (h * S) + S
  PROVE  FALSE
<1> DEFINE k == Power(2, r - 1)
           t == h * S
<1>1. k \in Nat \ {0} /\ Power(2, r) = 2 * k /\ t \in Nat
  BY PowerStep
<1>2. /\ u * (2 * k) = 2 * (u * k) /\ (2 * h) * S = 2 * t
      /\ u * k \in Nat /\ v * k \in Nat
  BY <1>1
<1> DEFINE x == u * k
           y == v * k
<1>3. /\ x \in Nat /\ y \in Nat /\ t \in Nat /\ S <= 2 * k /\ x < t /\ 4 * t <= 4 * x + S
      /\ t <= y /\ 2 * y <= 2 * t + S
  BY <1>1, <1>2
<1>4. u < v /\ v = u + 1
  <2>1. x < y /\ y < x + 2 * k
    <3> HIDE DEF k, x, y, t
    <3>. QED BY <1>1, <1>3
  <2>2. u < v
    <3>1. u * k < v * k
      BY <2>1
    <3> HIDE DEF k
    <3>. QED BY <1>1, <3>1, Factor
  <2>3. v < u + 2
    <3>1. v * k < (u + 2) * k
      <4>1. (u + 2) * k = u * k + 2 * k
        BY <1>1
      <4>. QED BY <2>1, <4>1
    <3> HIDE DEF k
    <3>. QED BY <1>1, <3>1, Factor
  <2>. QED BY <2>2, <2>3
<1>5. y = x + k
  <2>1. (u + 1) * k = u * k + k
    BY <1>1
  <2>. QED BY <1>4, <2>1
<1>6. Precision \in Nat /\ Power(2, Precision) = 2 * h
  BY PrecisionIs, AmountRange
<1>7. CASE r <= Precision
  <2>1. Precision - r \in Nat /\ r + (Precision - r) = Precision
    BY <1>6, <1>7
  <2> DEFINE g == Power(2, Precision - r)
  <2>2. g \in Nat \ {0} /\ 2 * h = (2 * k) * g
    <3>1. Power(2, r + (Precision - r)) = Power(2, r) * g /\ g \in Nat \ {0}
      BY <2>1, PowerAdds, PowerIsPositive
    <3> HIDE DEF g, k
    <3>. QED BY <1>1, <1>6, <2>1, <3>1
  <2> HIDE DEF g, k
  <2>3. t = (g * S) * k
    <3>1. h = k * g
      BY <1>1, <2>2
    <3>. QED BY <1>1, <2>2, <3>1
  <2> DEFINE N == g * S
  <2>4. N \in Nat /\ t = N * k
    BY <2>2, <2>3
  <2> HIDE DEF N
  <2>5. u * k < N * k /\ N * k <= v * k
    BY <1>3, <2>4
  <2>6. u < N /\ N <= v
    BY <1>1, <2>4, <2>5, Factor
  <2>7. N = v
    BY <1>4, <2>4, <2>6
  <2>8. t = y
    BY <2>4, <2>7
  <2> HIDE DEF x, y, t
  <2>. QED BY <1>1, <1>3, <1>5, <2>8
<1>8. CASE Precision < r
  <2>1. Precision + 1 \in Nat /\ Precision + 1 <= r
    BY <1>6, <1>8
  <2>2. Power(2, Precision + 1) <= Power(2, r) /\ Power(2, Precision + 1) = 2 * Power(2, Precision)
    BY <1>6, <2>1, PowerGrows, PowerUnrolls
  <2>3. 2 * h <= k
    BY <1>1, <1>6, <2>2
  <2> HIDE DEF x, y, t, k
  <2>. QED BY <1>1, <1>3, <1>5, <2>3
<1>. QED BY <1>6, <1>7, <1>8

\* Where Numbers are no further apart than stroops, two amounts never share one.
LEMMA OneAmount ==
  ASSUME NEW x \in Nat \ {0}, NEW y \in Nat \ {0}, NEW p \in 0 .. Precision,
         x < Power(2, p) * Scale, Power(2, p) * Scale <= Power(2, Precision),
         y < Power(2, Precision) * Scale, Nearest(x, Scale) = Nearest(y, Scale)
  PROVE  x = y
<1> DEFINE h == Power(2, Precision - 1)
           S == Scale
<1>1. h \in Nat \ {0} /\ S \in Nat \ {0} /\ Power(2, Precision) = 2 * h /\ Precision \in Nat
  BY PrecisionIs, AmountRange
<1>2. p \in Nat /\ Power(2, p) \in Nat \ {0} /\ S <= Power(2, p) * S /\ Power(2, p) <= Power(2, p) * S
  <2>1. p \in Nat /\ Power(2, p) \in Nat \ {0}
    BY <1>1, PowerIsPositive
  <2> HIDE DEF S
  <2>. QED BY <1>1, <2>1, Positive
<1>3. S <= 2 * h /\ x < Power(2, Precision) * S
  <2> DEFINE c == Power(2, p)
  <2>1. c \in Nat /\ c * S <= 2 * h /\ S <= c * S /\ c <= c * S
    BY <1>1, <1>2
  <2>2. c <= 2 * h /\ S <= 2 * h /\ c * S \in Nat
    <3> HIDE DEF c, S, h
    <3>. QED BY <1>1, <2>1
  <2>3. c * S <= (2 * h) * S
    <3> HIDE DEF c, S, h
    <3>1. 2 * h \in Int
      BY <1>1
    <3>. QED BY <1>1, <2>1, <2>2, <3>1, Factor
  <2>4. (2 * h) * S \in Nat
    <3> HIDE DEF S, h
    <3>. QED BY <1>1
  <2>. QED BY <1>1, <2>2, <2>3, <2>4
<1>4. PICK q \in Nat, m \in Nat :
        /\ Nearest(x, S) = IF m = 2 * h THEN [m |-> h, e |-> 1 - q] ELSE [m |-> m, e |-> -q]
        /\ h * S <= x * Power(2, q) /\ x * Power(2, q) < 2 * (h * S)
        /\ 2 * (m * S) <= 2 * (x * Power(2, q)) + S /\ 2 * (x * Power(2, q)) <= 2 * (m * S) + S
        /\ Power(2, q) = S => m = x
  BY <1>3, SmallNumber
<1>5. PICK r \in Nat, n \in Nat :
        /\ Nearest(y, S) = IF n = 2 * h THEN [m |-> h, e |-> 1 - r] ELSE [m |-> n, e |-> -r]
        /\ h * S <= y * Power(2, r) /\ y * Power(2, r) < 2 * (h * S)
        /\ 2 * (n * S) <= 2 * (y * Power(2, r)) + S /\ 2 * (y * Power(2, r)) <= 2 * (n * S) + S
        /\ Power(2, r) = S => n = y
  BY SmallNumber
<1>6. S <= Power(2, q)
  <2> DEFINE a == Power(2, q)
             c == Power(2, p)
  <2>1. a \in Nat \ {0} /\ c \in Nat \ {0}
    BY <1>2, PowerIsPositive
  <2>2. h < c * a
    <3>1. x * a < (c * S) * a
      <4> HIDE DEF a, S
      <4>1. c * S \in Int
        BY <1>1, <1>2
      <4>. QED BY <2>1, <4>1, Factor DEF S
    <3>2. (c * S) * a = (c * a) * S /\ x * a \in Int /\ (c * a) * S \in Int /\ h * S \in Int /\ c * a \in Int
      <4> HIDE DEF a, c, S, h
      <4>. QED BY <1>1, <2>1
    <3>3. h * S < (c * a) * S
      <4>1. h * S <= x * a
        BY <1>4
      <4> HIDE DEF a, c, S, h
      <4>. QED BY <3>1, <3>2, <4>1
    <3> HIDE DEF a, c, S, h
    <3>. QED BY <1>1, <3>2, <3>3, Factor
  <2>3. c * a = Power(2, p + q)
    BY <1>2, PowerAdds
  <2>4. Precision <= p + q
    <3>1. CASE p + q <= Precision - 1
      <4>1. p + q \in Nat /\ Precision - 1 \in Nat
        BY <1>2, PrecisionIs
      <4>2. Power(2, p + q) <= h /\ Power(2, p + q) \in Nat
        BY <3>1, <4>1, PowerGrows, PowerIsPositive
      <4> HIDE DEF h, a, c
      <4>. QED BY <1>1, <2>2, <2>3, <4>2
    <3>. QED BY <1>1, <1>2, <3>1
  <2>5. Power(2, Precision) <= c * a
    <3>1. p + q \in Nat
      BY <1>2
    <3>. QED BY <1>1, <2>3, <2>4, <3>1, PowerGrows
  <2>6. c * S <= c * a
    <3>1. c * S \in Int /\ c * a \in Int /\ c * S <= Power(2, Precision)
      <4> HIDE DEF a
      <4>. QED BY <1>1, <1>2, <2>1
    <3>. QED BY <1>1, <2>5, <3>1
  <2>7. S * c <= a * c
    <3> HIDE DEF a, c, S
    <3>. QED BY <1>1, <2>1, <2>6
  <2> HIDE DEF a, c, S
  <2>8. S <= a
    BY <1>1, <2>1, <2>7, Factor
  <2>. QED BY <2>8 DEF a
<1>7. CASE m = 2 * h /\ n # 2 * h
  <2>1. [m |-> h, e |-> 1 - q] = [m |-> n, e |-> -r]
    <3> HIDE DEF h, S
    <3>. QED BY <1>4, <1>5, <1>7 DEF S
  <2>2. n = h /\ q \in Nat \ {0} /\ r = q - 1
    <3>1. n = h /\ 1 - q = -r
      BY <2>1
    <3>. QED BY <3>1
  <2>3. /\ S <= Power(2, q) /\ S <= 2 * h
        /\ x * Power(2, q) < 2 * (h * S) /\ 2 * ((2 * h) * S) <= 2 * (x * Power(2, q)) + S
        /\ h * S <= y * Power(2, q - 1) /\ 2 * (y * Power(2, q - 1)) <= 2 * (h * S) + S
    <3> HIDE DEF h, S
    <3>. QED BY <1>3, <1>4, <1>5, <1>6, <1>7, <2>2
  <2>4. h \in Nat \ {0} /\ S \in Nat \ {0} /\ h = Power(2, Precision - 1)
    BY <1>1
  <2> HIDE DEF h, S
  <2>. QED BY <2>2, <2>3, <2>4, CarryApart
<1>8. CASE n = 2 * h /\ m # 2 * h
  <2>1. [m |-> h, e |-> 1 - r] = [m |-> m, e |-> -q]
    <3> HIDE DEF h, S
    <3>. QED BY <1>4, <1>5, <1>8 DEF S
  <2>2. m = h /\ r \in Nat \ {0} /\ q = r - 1 /\ q <= r
    <3>1. m = h /\ 1 - r = -q
      BY <2>1
    <3>. QED BY <3>1
  <2>3. S <= Power(2, r)
    <3>1. Power(2, q) <= Power(2, r) /\ Power(2, q) \in Nat /\ Power(2, r) \in Nat
      <4>1. q <= r /\ Power(2, q) \in Nat /\ Power(2, r) \in Nat
        BY <2>2, PowerIsPositive
      <4>. QED BY <4>1, PowerGrows
    <3> HIDE DEF S
    <3>. QED BY <1>1, <1>6, <3>1
  <2>4. /\ S <= 2 * h
        /\ y * Power(2, r) < 2 * (h * S) /\ 2 * ((2 * h) * S) <= 2 * (y * Power(2, r)) + S
        /\ h * S <= x * Power(2, r - 1) /\ 2 * (x * Power(2, r - 1)) <= 2 * (h * S) + S
    <3> HIDE DEF h, S
    <3>. QED BY <1>3, <1>4, <1>5, <1>8, <2>2
  <2>5. h \in Nat \ {0} /\ S \in Nat \ {0} /\ h = Power(2, Precision - 1)
    BY <1>1
  <2>6. r \in Nat \ {0}
    BY <2>2
  <2> HIDE DEF h, S
  <2>. QED BY <2>3, <2>4, <2>5, <2>6, CarryApart
<1>9. CASE m = 2 * h <=> n = 2 * h
  <2>1. m = n /\ q = r
    <3>1. CASE m = 2 * h
      <4>1. [m |-> h, e |-> 1 - q] = [m |-> h, e |-> 1 - r]
        <5> HIDE DEF h, S
        <5>. QED BY <1>4, <1>5, <1>9, <3>1 DEF S
      <4>2. 1 - q = 1 - r
        BY <4>1
      <4>. QED BY <1>9, <3>1, <4>2
    <3>2. CASE m # 2 * h
      <4>1. [m |-> m, e |-> -q] = [m |-> n, e |-> -r]
        <5> HIDE DEF h, S
        <5>. QED BY <1>4, <1>5, <1>9, <3>2 DEF S
      <4>2. m = n /\ -q = -r
        BY <4>1
      <4>. QED BY <4>2
    <3>. QED BY <3>1, <3>2
  <2>2. CASE Power(2, q) = S
    BY <1>4, <1>5, <2>1, <2>2
  <2>3. CASE Power(2, q) # S
    <3> DEFINE a == Power(2, q)
               i == x * a
               j == y * a
               t == m * S
    <3>1. a \in Nat \ {0} /\ S < a
      <4>1. a \in Nat \ {0} /\ S <= a /\ a # S
        BY <1>6, <2>3, PowerIsPositive
      <4> HIDE DEF a, S
      <4>. QED BY <1>1, <4>1
    <3>2. i \in Nat /\ j \in Nat /\ t \in Nat
      <4> HIDE DEF a, S
      <4>. QED BY <1>1, <3>1
    <3>3. 2 * t <= 2 * i + S /\ 2 * i <= 2 * t + S /\ 2 * t <= 2 * j + S /\ 2 * j <= 2 * t + S
      BY <1>4, <1>5, <2>1
    <3>4. i < j + a /\ j < i + a
      <4> HIDE DEF a, S, i, j, t
      <4>. QED BY <1>1, <3>1, <3>2, <3>3
    <3> HIDE DEF a
    <3>5. x * a < (y + 1) * a /\ y * a < (x + 1) * a
      <4>1. (y + 1) * a = j + a /\ (x + 1) * a = i + a
        BY <3>1
      <4>. QED BY <3>4, <4>1
    <3>6. x < y + 1 /\ y < x + 1
      BY <3>1, <3>5, Factor
    <3>. QED BY <3>6
  <2>. QED BY <2>2, <2>3
<1>. QED BY <1>7, <1>8, <1>9

-----------------------------------------------------------------------------
(* StellarAmounts: what is prepared *)

\* Stroops are a decimal with as many digits as Stellar has.
LEMMA Expanded ==
  ASSUME NEW u \in Nat, NEW k \in 0 .. Decimals
  PROVE  /\ Power(10, k) \in Nat \ {0} /\ Power(10, Decimals - k) \in Nat \ {0}
         /\ Scale = Power(10, k) * Power(10, Decimals - k)
         /\ u * Power(10, Decimals - k) \in Nat
         /\ (u * Power(10, Decimals - k)) * Power(10, k) = u * Scale
         /\ u > 0 => Nearest(u * Power(10, Decimals - k), Scale) = Nearest(u, Power(10, k))
<1> DEFINE b == Power(10, k)
           c == Power(10, Decimals - k)
<1>1. k \in Nat /\ Decimals - k \in Nat /\ k + (Decimals - k) = Decimals
  BY AmountRange
<1>2. b \in Nat \ {0} /\ c \in Nat \ {0}
  BY <1>1, PowerIsPositive
<1>3. Scale = b * c
  <2>1. Power(10, k + (Decimals - k)) = b * c
    BY <1>1, PowerAdds
  <2>. QED BY <1>1, <2>1 DEF Scale
<1> HIDE DEF b, c
<1>4. u * c \in Nat /\ (u * c) * b = u * (b * c)
  BY <1>2
<1>5. u > 0 => Nearest(u * c, b * c) = Nearest(u, b)
  BY <1>2, NearestScales
<1>. QED BY <1>2, <1>3, <1>4, <1>5 DEF b, c

\* A Number is a fraction of positive numbers.
LEMMA FractionIs ==
  ASSUME NEW f \in [m : Nat \ {0}, e : Int]
  PROVE  Numerator(f) \in Nat \ {0} /\ Denominator(f) \in Nat \ {0}
<1>1. f.m \in Nat \ {0} /\ f.e \in Int /\ -f.e \in Int
  OBVIOUS
<1>2. Up(f.e) \in Nat \ {0} /\ Up(-f.e) \in Nat \ {0}
  BY <1>1, UpIsPositive
<1>. QED BY <1>1, <1>2, Positive DEF Numerator, Denominator

\* Of the decimals that read back as f there is a closest one ...
LEMMA ClosestIs ==
  ASSUME NEW f \in [m : Nat \ {0}, e : Int], NEW k \in Nat, NEW C, C \subseteq Nat, C # {}
  PROVE  Closest(f, k, C) \in C
<1> DEFINE Distances == {Distance(f, u, k) : u \in C}
<1>1. Numerator(f) \in Nat \ {0} /\ Denominator(f) \in Nat \ {0} /\ Power(10, k) \in Nat \ {0}
  BY FractionIs, PowerIsPositive
<1>2. ASSUME NEW u \in C PROVE Distance(f, u, k) \in Nat
  <2>1. u \in Nat
    OBVIOUS
  <2>. QED BY <1>1, <2>1 DEF Distance
<1>3. Distances \subseteq Nat /\ Distances # {}
  BY <1>2
<1>4. PICK d \in Distances : \A i \in Distances : d <= i
  <2> HIDE DEF Distances
  <2>. QED BY <1>3, LeastElement
<1>5. \E u \in C : \A v \in C : Distance(f, u, k) <= Distance(f, v, k)
  BY <1>4
<1>. QED BY <1>5 DEF Closest

\* ... and it is a positive one.
LEMMA CandidatesAre ==
  ASSUME NEW f \in [m : Nat \ {0}, e : Int], NEW k \in Nat
  PROVE  \A u \in Candidates(f, k) : u \in Nat \ {0} /\ Nearest(u, Power(10, k)) = f
<1> DEFINE q == (Numerator(f) * Power(10, k)) \div Denominator(f)
<1>1. Numerator(f) \in Nat \ {0} /\ Denominator(f) \in Nat \ {0} /\ Power(10, k) \in Nat \ {0}
  BY FractionIs, PowerIsPositive
<1>2. q \in Nat
  <2> DEFINE n == Numerator(f) * Power(10, k)
  <2>1. n \in Nat
    BY <1>1
  <2> HIDE DEF n
  <2>2. (n \div Denominator(f)) \in Nat
    BY <1>1, <2>1, Quotient
  <2>. QED BY <2>2 DEF n
<1>3. Candidates(f, k) = {u \in {q, q + 1} \ {0} : Nearest(u, Power(10, k)) = f}
  BY DEF Candidates
<1> HIDE DEF q
<1>. QED BY <1>2, <1>3

\* What String() or toFixed() write, if anything, reads back as the Number.
LEMMA NumberTextReadsBack ==
  ASSUME NEW f \in [m : Nat \ {0}, e : Int], NumberText(f) # Malformed
  PROVE  \E u \in Nat \ {0}, k \in 0 .. Decimals :
           NumberText(f) = Decimal(u, k) /\ Nearest(u, Power(10, k)) = f
<1>1. CASE NumberText(f) = Shortest(f)
  <2> DEFINE K == {k \in 0 .. Decimals : Candidates(f, k) # {}}
             k == Fewest(K)
             u == Closest(f, k, Candidates(f, k))
  <2>1. K # {} /\ NumberText(f) = Decimal(u, k)
    BY <1>1 DEF Shortest, WithDigits
  <2>2. k \in K
    <3>1. K \subseteq Nat
      BY AmountRange
    <3> HIDE DEF K
    <3>2. \E m \in K : \A j \in K : m <= j
      BY <2>1, <3>1, LeastElement
    <3>. QED BY <3>2 DEF Fewest
  <2>3. k \in 0 .. Decimals /\ k \in Nat /\ Candidates(f, k) # {}
    BY <2>2, AmountRange
  <2> HIDE DEF k, K
  <2>4. u \in Candidates(f, k)
    <3> DEFINE C == Candidates(f, k)
    <3>1. C \subseteq Nat /\ C # {}
      BY <2>3, CandidatesAre
    <3> HIDE DEF C
    <3>2. Closest(f, k, C) \in C
      BY <2>3, <3>1, ClosestIs
    <3>. QED BY <3>2 DEF C
  <2> HIDE DEF u
  <2>. QED BY <2>1, <2>3, <2>4, CandidatesAre
<1>2. CASE NumberText(f) = Fixed(f) /\ Fixed(f).units > 0 /\ ReadBack(Fixed(f)) = f
  <2> DEFINE n == 2 * Numerator(f) * Scale + Denominator(f)
             d == 2 * Denominator(f)
             u == n \div d
  <2>1. Numerator(f) \in Nat \ {0} /\ Denominator(f) \in Nat \ {0}
    BY FractionIs
  <2>2. n \in Nat /\ d \in Nat \ {0}
    BY <2>1, PrecisionIs
  <2>3. Fixed(f) = Decimal(u, Decimals)
    BY DEF Fixed
  <2>4. u \in Nat
    <3> HIDE DEF n, d
    <3>. QED BY <2>2, Quotient
  <2> HIDE DEF u
  <2>5. Fixed(f).units = u /\ Fixed(f).digits = Decimals
    BY <2>3 DEF Decimal, Written
  <2>6. u \in Nat \ {0} /\ Nearest(u, Power(10, Decimals)) = f
    BY <1>2, <2>4, <2>5 DEF ReadBack
  <2>. QED BY <1>2, <2>3, <2>6, AmountRange
<1>. QED BY <1>1, <1>2 DEF NumberText

\* Text keeps its value ...
LEMMA TextIsKept ==
  ASSUME NEW a, NEW u \in Nat, NEW k \in Nat, TextOf(a).units = u, TextOf(a).digits = k, Stroops(a) > 0
  PROVE  k \in 0 .. Decimals /\ Stroops(a) = u * Power(10, Decimals - k) /\ Stroops(a) <= MaxStroops
<1>1. k <= Decimals /\ Stroops(a) = InRange(u * Power(10, Decimals - k))
  BY AmountRange DEF Stroops, Parsed
<1>. QED BY <1>1, AmountRange DEF InRange

\* ... and of a number what is prepared reads back as that number.
LEMMA NumberIsKept ==
  ASSUME NEW a \in AmountsWritten, IsNumber(a), Stroops(a) > 0
  PROVE  /\ Stroops(a) \in Nat \ {0} /\ Stroops(a) <= MaxStroops
         /\ Nearest(Stroops(a), Scale) = Nearest(a.units, Power(10, a.digits))
<1> DEFINE f == Nearest(a.units, Power(10, a.digits))
<1>1. a.units \in Nat \ {0} /\ a.digits \in Nat /\ Power(10, a.digits) \in Nat \ {0}
  BY PowerIsPositive DEF AmountsWritten, IsNumber
<1>2. f \in [m : Nat \ {0}, e : Int]
  BY <1>1, NearestIsNumber
<1>3. TextOf(a) = NumberText(f)
  <2>1. a # Malformed /\ a.form # "text" /\ a.units # 0
    BY <1>1 DEF IsNumber
  <2>. QED BY <2>1 DEF TextOf, ReadBack
<1> HIDE DEF f
<1>4. TextOf(a) # Malformed
  BY DEF Stroops, Parsed
<1>5. PICK u \in Nat \ {0}, k \in 0 .. Decimals :
        TextOf(a) = Decimal(u, k) /\ Nearest(u, Power(10, k)) = f
  BY <1>2, <1>3, <1>4, NumberTextReadsBack
<1>6. TextOf(a).units = u /\ TextOf(a).digits = k /\ u \in Nat /\ k \in Nat
  BY <1>5, AmountRange DEF Decimal, Written
<1>7. Stroops(a) = u * Power(10, Decimals - k) /\ Stroops(a) <= MaxStroops
  BY <1>6, TextIsKept
<1>8. u * Power(10, Decimals - k) \in Nat /\ Nearest(u * Power(10, Decimals - k), Scale) = Nearest(u, Power(10, k))
  BY <1>5, Expanded
<1>. QED BY <1>5, <1>7, <1>8 DEF f

\* The amount that was written reads back as that number, too.
LEMMA NumberKeepsItsValue ==
  ASSUME NEW a \in AmountsWritten, IsNumber(a), Stroops(a) > 0, StroopsApart(a), a.digits <= Decimals
  PROVE  KeepsItsValue(a)
<1> DEFINE d == a.digits
           c == Power(10, Decimals - d)
           x == a.units * c
           y == Stroops(a)
<1>1. a.units \in Nat \ {0} /\ d \in 0 .. Decimals
  BY DEF AmountsWritten, IsNumber
<1>2. /\ Power(10, d) \in Nat \ {0} /\ c \in Nat \ {0} /\ x \in Nat \ {0}
      /\ x * Power(10, d) = a.units * Scale
      /\ Nearest(x, Scale) = Nearest(a.units, Power(10, d))
  <2>1. /\ Power(10, d) \in Nat \ {0} /\ c \in Nat \ {0}
        /\ x * Power(10, d) = a.units * Scale
        /\ Nearest(x, Scale) = Nearest(a.units, Power(10, d))
    BY <1>1, Expanded
  <2>2. x \in Nat \ {0}
    <3> HIDE DEF c, d
    <3>. QED BY <1>1, <2>1, Positive
  <2>. QED BY <2>1, <2>2
<1>3. y \in Nat \ {0} /\ y <= MaxStroops /\ Nearest(y, Scale) = Nearest(a.units, Power(10, d))
  BY NumberIsKept
<1>4. PICK p \in 0 .. Precision :
        a.units < Power(2, p) * Power(10, d) /\ Power(2, p) * Scale <= Power(2, Precision)
  BY DEF StroopsApart
<1>5. x < Power(2, p) * Scale
  <2> DEFINE b == Power(10, d)
             t == Power(2, p)
  <2>1. t \in Nat /\ b \in Nat \ {0} /\ Scale = c * b
    <3>1. Scale = b * c /\ b \in Nat \ {0} /\ c \in Nat
      BY <1>1, Expanded
    <3>2. p \in Nat
      BY AmountRange
    <3>3. t \in Nat
      BY <3>2, PowerIsPositive
    <3> HIDE DEF b, c, t
    <3>. QED BY <3>1, <3>3
  <2> HIDE DEF b, c, t
  <2>2. a.units * c < (t * b) * c
    <3>1. t * b \in Int /\ a.units < t * b
      BY <1>4, <2>1 DEF b, t
    <3>. QED BY <1>1, <1>2, <3>1, Factor
  <2>3. (t * b) * c = t * (c * b)
    BY <1>2, <2>1
  <2>. QED BY <2>1, <2>2, <2>3 DEF t
<1>6. y < Power(2, Precision) * Scale
  <2> DEFINE z == Power(2, Precision) * Scale
  <2>1. z \in Nat /\ MaxStroops < z /\ MaxStroops \in Nat
    BY AmountRange, PrecisionIs
  <2> HIDE DEF z
  <2>2. y < z
    <3> HIDE DEF y
    <3>. QED BY <1>3, <2>1
  <2>. QED BY <2>2 DEF z
<1> HIDE DEF x, y, c
<1>7. x = y
  BY <1>2, <1>3, <1>4, <1>5, <1>6, OneAmount
<1>. QED BY <1>2, <1>7 DEF KeepsItsValue, y

\* What is accepted is a number of stroops.
LEMMA StroopsAreNumbers ==
  ASSUME NEW a \in AmountsWritten, Stroops(a) > 0
  PROVE  Stroops(a) \in Nat
<1>1. CASE IsNumber(a)
  BY <1>1, NumberIsKept
<1>2. CASE ~IsNumber(a)
  <2>1. TextOf(a) # Malformed
    BY DEF Stroops, Parsed
  <2>2. TextOf(a) = a /\ a.units \in Nat /\ a.digits \in Nat
    BY <1>2, <2>1 DEF AmountsWritten, IsNumber, TextOf
  <2>3. a.digits \in 0 .. Decimals /\ Stroops(a) = a.units * Power(10, Decimals - a.digits)
    BY <2>2, TextIsKept
  <2>. QED BY <2>2, <2>3, Expanded
<1>. QED BY <1>1, <1>2

\* Whatever amount is accepted, of any form: the number that was given is the
\* number that is prepared, and what is exact is prepared as it was written.
THEOREM AmountsAreKept ==
  ASSUME NEW a \in AmountsWritten \union {Malformed}, Stroops(a) > 0
  PROVE  /\ IsNumber(a) => ReadsBack(a)
         /\ Exact(a) => KeepsItsValue(a)
<1>1. TextOf(a) # Malformed
  BY DEF Stroops, Parsed
<1>2. a # Malformed /\ a \in AmountsWritten
  BY <1>1 DEF TextOf
<1>3. CASE IsNumber(a)
  <2>1. Decimal(Stroops(a), Decimals).units = Stroops(a) /\ Decimal(Stroops(a), Decimals).digits = Decimals
    BY DEF Decimal, Written
  <2>2. ReadsBack(a)
    BY <1>2, <1>3, <2>1, NumberIsKept DEF ReadsBack, ReadBack, Scale
  <2>. QED BY <1>2, <1>3, <2>2, NumberKeepsItsValue DEF Exact
<1>4. CASE ~IsNumber(a)
  <2>1. a.form = "text" /\ TextOf(a) = a /\ a.units \in Nat /\ a.digits \in Nat
    <3>1. a.form \in {"text", "number"} /\ a.units \in Nat /\ a.digits \in Nat
      BY <1>2 DEF AmountsWritten
    <3>2. a.form = "text"
      BY <1>1, <1>2, <1>4, <3>1 DEF IsNumber, TextOf
    <3>. QED BY <3>1, <3>2 DEF TextOf
  <2>2. a.digits \in 0 .. Decimals /\ Stroops(a) = a.units * Power(10, Decimals - a.digits)
    BY <2>1, TextIsKept
  <2>3. (a.units * Power(10, Decimals - a.digits)) * Power(10, a.digits) = a.units * Scale
    BY <2>1, <2>2, Expanded
  <2>. QED BY <1>4, <2>2, <2>3 DEF KeepsItsValue
<1>. QED BY <1>3, <1>4

\* So it is for any amounts that payments are given, for every precision of a
\* number, every number of decimals and every largest amount.
THEOREM AmountsAreNeverChanged == AmountSpec => []AmountsKeepTheirValue
<1> DEFINE AInv == amount \in AmountsWritten \union {Malformed}
<1>1. AmountInit => AInv
  BY DEF AmountInit
<1>2. AInv /\ [AmountNext]_amount => AInv'
  BY AmountValues DEF AmountNext, Given, Taken
<1>3. AInv => AmountsKeepTheirValue
  BY AmountsAreKept DEF AmountsKeepTheirValue
<1>. QED BY <1>1, <1>2, <1>3, PTL DEF AmountSpec

-----------------------------------------------------------------------------
(* Stubs and amounts *)

\* Every payload has an amount of its own, as somebody wrote it, and so has what
\* was evaluated; only a tool that runs on a payment has prepared anything.
HasAmount(p) ==
  /\ "amount" \in DOMAIN p /\ p.amount # Missing
  /\ p.amount \in AmountsWritten \union {Malformed}

Amounted ==
  /\ \A o \in Objects : payload[o] # Opaque => HasAmount(payload[o])
  /\ \A x \in Execs : call[x].snap # None => HasAmount(call[x].snap)

DoneByTools ==
  \A x \in Execs : call[x].done # None =>
    exec[x].pc = "tool" /\ call[x].obj # None /\ call[x].snap # None

SInv == PInv /\ Amounted /\ DoneByTools

\* Hiding the prototype leaves the amount what it is.
LEMMA AmountStays ==
  ASSUME NEW p, HasAmount(p)
  PROVE  /\ HasAmount(Own(p)) /\ Own(p).amount = p.amount
         /\ \A q : DOMAIN q = DOMAIN p /\ q["amount"] = p["amount"] => HasAmount(q)
<1>1. Own(p).amount = p.amount /\ DOMAIN Own(p) = DOMAIN p
  BY DEF HasAmount, Own
<1>. QED BY <1>1 DEF HasAmount

LEMMA GivenPayloads == \A p \in Payloads : HasAmount(p)
  BY PaymentValues DEF HasAmount

LEMMA SInit == PayInit => SInv
<1> SUFFICES ASSUME PayInit PROVE SInv
  OBVIOUS
<1>1. \A x \in Execs : call[x].snap = None /\ call[x].done = None
  BY DEF PayInit, NoCall, Called
<1>2. \A o \in Objects : payload[o] # Opaque => HasAmount(payload[o])
  BY GivenPayloads DEF PayInit
<1>. QED BY <1>1, <1>2, PInit DEF SInv, Amounted, DoneByTools

\* A payload that changes holds a payment again, or is sealed.
LEMMA AmountedStep == SInv /\ [PayNext]_payVars => Amounted'
<1> SUFFICES ASSUME SInv, [PayNext]_payVars PROVE Amounted'
  OBVIOUS
<1> USE DEF SInv
<1>1. /\ DOMAIN payload = Objects /\ DOMAIN call = Execs
      /\ \A x \in Execs : DOMAIN call[x] = {"obj", "snap", "allowed", "done"}
  BY DEF PInv, Shapes
<1>2. ASSUME UNCHANGED <<payload, call>> PROVE Amounted'
  BY <1>2 DEF Amounted
<1>3. ASSUME NEW x \in Execs, NEW o, payload' = payload, call' = [call EXCEPT ![x] = Called(o)]
      PROVE  Amounted'
  <2>1. call'[x].snap = None /\ \A y \in Execs \ {x} : call'[y] = call[y]
    BY <1>1, <1>3 DEF Called
  <2>. QED BY <1>3, <2>1 DEF Amounted
<1>4. ASSUME NEW x \in Execs, NEW c, payload' = payload, call' = [call EXCEPT ![x] = c], c.snap = call[x].snap
      PROVE  Amounted'
  <2>1. \A y \in Execs : call'[y].snap = call[y].snap
    BY <1>1, <1>4
  <2>. QED BY <1>4, <2>1 DEF Amounted
<1>5. ASSUME NEW x \in Execs, NEW t \in Tasks, NEW o, Request(x, t, o) PROVE Amounted'
  BY <1>3, <1>5 DEF Request
<1>6. ASSUME NEW x \in Execs, PassThrough(x) PROVE Amounted'
  <2>1. call' = [call EXCEPT ![x] = [call[x] EXCEPT !.allowed = TRUE]] /\ payload' = payload
    BY <1>6 DEF PassThrough
  <2>2. [call[x] EXCEPT !.allowed = TRUE].snap = call[x].snap
    BY <1>1
  <2>. QED BY <1>4, <2>1, <2>2
<1>7. ASSUME NEW x \in Execs, Snapshot(x), call[x].obj \in Objects PROVE Amounted'
  <2>1. payload' = payload /\ HasAmount(Own(payload[call[x].obj]))
    BY <1>7, AmountStays DEF Snapshot, Amounted
  <2>2. call' = [call EXCEPT ![x].snap = Own(payload[call[x].obj])]
    BY <1>7 DEF Snapshot
  <2>3. \A y \in Execs : call'[y].snap = IF y = x THEN Own(payload[call[x].obj]) ELSE call[y].snap
    BY <1>1, <2>2
  <2>. QED BY <2>1, <2>3 DEF Amounted
<1>8. ASSUME NEW x \in Execs, Authorize(x) PROVE Amounted'
  <2>1. /\ payload' = [payload EXCEPT ![call[x].obj] = Own(payload[call[x].obj])]
        /\ call' = [call EXCEPT ![x].allowed = TRUE] /\ payload[call[x].obj] # Opaque
    BY <1>8 DEF Authorize, Bound, Sealed
  <2>2. \A y \in Execs : call'[y].snap = call[y].snap
    BY <1>1, <2>1
  <2>3. \A o \in Objects : payload'[o] # Opaque => HasAmount(payload'[o])
    BY <1>1, <2>1, AmountStays DEF Amounted
  <2>. QED BY <2>2, <2>3 DEF Amounted
<1>9. ASSUME NEW x \in Execs, Disown(x) PROVE Amounted'
  <2> DEFINE o == call[x].obj
             s == PartlySealed(o, call[x].snap)
  <2>1. /\ payload' = [payload EXCEPT ![o] = IF payload[o] = Opaque THEN Opaque ELSE s]
        /\ call' = [call EXCEPT ![x] = Called(None)]
    BY <1>9 DEF Disown, NoCall
  <2>2. call'[x].snap = None /\ \A y \in Execs \ {x} : call'[y] = call[y]
    BY <1>1, <2>1 DEF Called
  <2>3. ASSUME HasAmount(payload[o]) PROVE HasAmount(s)
    <3>1. DOMAIN s = DOMAIN payload[o] /\ s["amount"] = payload[o]["amount"]
      BY <2>3, AmountStays DEF PartlySealed, HasAmount
    <3>. QED BY <2>3, <3>1, AmountStays
  <2> HIDE DEF s
  <2>4. \A u \in Objects : payload'[u] # Opaque => HasAmount(payload'[u])
    BY <1>1, <2>1, <2>3 DEF Amounted
  <2>. QED BY <2>2, <2>4 DEF Amounted
<1>10. ASSUME NEW x \in Execs, Prepare(x) PROVE Amounted'
  <2> DEFINE d == IF call[x].obj = None \/ ~Valid(Looked(payload[call[x].obj])) THEN None
                  ELSE Result(exec[x].task, Looked(payload[call[x].obj]))
  <2>1. payload' = payload /\ call' = [call EXCEPT ![x].done = d]
    BY <1>10 DEF Prepare
  <2> HIDE DEF d
  <2>2. \A y \in Execs : call'[y].snap = call[y].snap
    BY <1>1, <2>1
  <2>. QED BY <2>1, <2>2 DEF Amounted
<1>11. ASSUME NEW x \in Execs, Leave(x) PROVE Amounted'
  BY <1>3, <1>11 DEF Leave, NoCall
<1>12. ASSUME NEW o \in Objects, NEW p \in Payloads \union {Opaque}, Change(o, p) \/ NewObject(o, p)
       PROVE  Amounted'
  <2>1. payload' = [payload EXCEPT ![o] = p] /\ call' = call
    BY <1>12 DEF Change, NewObject
  <2>2. \A u \in Objects : payload'[u] # Opaque => HasAmount(payload'[u])
    BY <1>1, <2>1, GivenPayloads DEF Amounted
  <2>. QED BY <2>1, <2>2 DEF Amounted
<1>13. ASSUME NEW x \in Execs, Snapshot(x) PROVE call[x].obj \in Objects
  BY <1>13 DEF Snapshot, PInv, Shapes
<1>14. ASSUME NEW o \in Objects, Freeze(o) PROVE Amounted'
  BY <1>2, <1>14 DEF Freeze
<1>15. ASSUME NEW q, Pollute(q) PROVE Amounted'
  BY <1>2, <1>15 DEF Pollute
<1>16. ASSUME NEW t \in Tasks, ResetBudget(t) PROVE Amounted'
  BY <1>2, <1>16 DEF ResetBudget
<1>17. CASE ResetBudgets
  BY <1>2, <1>17 DEF ResetBudgets
<1>18. CASE UNCHANGED payVars
  BY <1>2, <1>18 DEF payVars
<1>. QED BY <1>5, <1>6, <1>7, <1>8, <1>9, <1>10, <1>11, <1>12, <1>13, <1>14, <1>15, <1>16, <1>17, <1>18
         DEF PayNext

LEMMA DoneStep == SInv /\ [PayNext]_payVars => DoneByTools'
<1> SUFFICES ASSUME SInv, [PayNext]_payVars PROVE DoneByTools'
  OBVIOUS
<1> USE DEF SInv
<1>1. /\ DOMAIN exec = Execs /\ DOMAIN call = Execs
      /\ \A x \in Execs : DOMAIN call[x] = {"obj", "snap", "allowed", "done"}
  BY DEF PInv, Shapes
<1>2. ASSUME UNCHANGED <<exec, call>> PROVE DoneByTools'
  BY <1>2 DEF DoneByTools
<1>3. ASSUME NEW x \in Execs, NEW o, NEW e, call' = [call EXCEPT ![x] = Called(o)],
             exec' = [exec EXCEPT ![x] = e]
      PROVE  DoneByTools'
  <2>1. call'[x].done = None /\ \A y \in Execs \ {x} : call'[y] = call[y] /\ exec'[y] = exec[y]
    BY <1>1, <1>3 DEF Called
  <2>. QED BY <2>1 DEF DoneByTools
<1>4. ASSUME NEW x \in Execs, exec[x].pc = "policy", exec' = exec, DOMAIN call' = Execs,
             call'[x].done = call[x].done, \A y \in Execs \ {x} : call'[y] = call[y]
      PROVE  DoneByTools'
  BY <1>4 DEF DoneByTools
<1>5. ASSUME NEW x \in Execs, NEW t \in Tasks, NEW o, Request(x, t, o) PROVE DoneByTools'
  BY <1>3, <1>5 DEF Request, Execute
<1>6. ASSUME NEW x \in Execs, PassThrough(x) \/ Snapshot(x) \/ Authorize(x) PROVE DoneByTools'
  <2>1. /\ exec[x].pc = "policy" /\ exec' = exec
        /\ DOMAIN call' = Execs /\ call'[x].done = call[x].done
        /\ \A y \in Execs \ {x} : call'[y] = call[y]
    BY <1>1, <1>6 DEF PassThrough, Snapshot, Authorize, execVars
  <2>. QED BY <1>4, <2>1
<1>7. ASSUME NEW x \in Execs, Disown(x) \/ Leave(x) PROVE DoneByTools'
  <2>1. call' = [call EXCEPT ![x] = Called(None)] /\ exec' = [exec EXCEPT ![x] = NoExecution]
    BY <1>7 DEF Disown, Leave, Refuse, ToolSettles, Settled, NoCall
  <2>. QED BY <1>3, <2>1
<1>8. ASSUME NEW x \in Execs, Prepare(x) PROVE DoneByTools'
  <2> DEFINE d == IF call[x].obj = None \/ ~Valid(Looked(payload[call[x].obj])) THEN None
                  ELSE Result(exec[x].task, Looked(payload[call[x].obj]))
  <2>1. /\ exec' = [exec EXCEPT ![x].pc = "tool"] /\ call' = [call EXCEPT ![x].done = d]
        /\ call[x].allowed
    BY <1>8 DEF Prepare, Invoke
  <2>2. d # None => call[x].obj # None
    OBVIOUS
  <2> HIDE DEF d
  <2>3. d # None => call[x].snap # None
    BY <2>1, <2>2 DEF PInv, Bindings
  <2>4. /\ exec'[x].pc = "tool" /\ call'[x].done = d /\ call'[x].obj = call[x].obj
        /\ call'[x].snap = call[x].snap
        /\ \A y \in Execs \ {x} : call'[y] = call[y] /\ exec'[y] = exec[y]
    <3>1. exec[x] \in Execution
      BY DEF PInv, Shapes
    <3>. QED BY <1>1, <2>1, <3>1 DEF Execution
  <2>. QED BY <2>2, <2>3, <2>4 DEF DoneByTools
<1>9. ASSUME NEW o, NEW p, Change(o, p) \/ NewObject(o, p) \/ Freeze(o) \/ Pollute(p) PROVE DoneByTools'
  BY <1>2, <1>9 DEF Change, NewObject, Freeze, Pollute, execVars
<1>10. ASSUME NEW t \in Tasks, ResetBudget(t) PROVE DoneByTools'
  BY <1>2, <1>10 DEF ResetBudget, Reset, Forget
<1>11. CASE ResetBudgets
  BY <1>2, <1>11 DEF ResetBudgets, ResetAll, Forget
<1>12. CASE UNCHANGED payVars
  BY <1>2, <1>12 DEF payVars, execVars
<1>. QED BY <1>5, <1>6, <1>7, <1>8, <1>9, <1>10, <1>11, <1>12 DEF PayNext

\* Amounts that are exact come to the same number of stroops if and only if they
\* are the same amount.
LEMMA ExactAmounts ==
  ASSUME NEW a \in AmountsWritten, NEW b \in AmountsWritten, Exact(a), Exact(b), Stroops(a) > 0, Stroops(b) > 0
  PROVE  Stroops(a) = Stroops(b) <=> SameAmount(a, b)
<1> DEFINE s == Stroops(a)
           t == Stroops(b)
           i == Power(10, a.digits)
           j == Power(10, b.digits)
<1>1. s * i = a.units * Scale /\ t * j = b.units * Scale
  BY AmountsAreKept DEF KeepsItsValue
<1>2. /\ a.units \in Nat /\ b.units \in Nat /\ Scale \in Nat \ {0}
      /\ i \in Nat \ {0} /\ j \in Nat \ {0}
  BY PowerIsPositive, PrecisionIs DEF AmountsWritten
<1>3. s \in Nat /\ t \in Nat
  BY StroopsAreNumbers
<1>4. (a.units * j) * Scale = s * (i * j) /\ (b.units * i) * Scale = t * (i * j)
  <2> DEFINE u == a.units
             v == b.units
  <2> HIDE DEF s, t, i, j, u, v
  <2>1. s * i = u * Scale /\ t * j = v * Scale /\ u \in Nat /\ v \in Nat
    BY <1>1, <1>2 DEF u, v
  <2>2. (u * Scale) * j = (u * j) * Scale /\ (v * Scale) * i = (v * i) * Scale
    BY <1>2, <2>1
  <2>3. (s * i) * j = s * (i * j) /\ (t * j) * i = t * (i * j)
    BY <1>2, <1>3
  <2>. QED BY <2>1, <2>2, <2>3 DEF u, v
<1>5. a.units * j = b.units * i <=> (a.units * j) * Scale = (b.units * i) * Scale
  <2>1. a.units * j \in Int /\ b.units * i \in Int
    <3> HIDE DEF i, j
    <3>. QED BY <1>2
  <2> HIDE DEF i, j
  <2>. QED BY <1>2, <2>1, Factor
<1>6. s = t <=> s * (i * j) = t * (i * j)
  <2>1. i * j \in Nat \ {0}
    <3> HIDE DEF i, j
    <3>. QED BY <1>2, Positive
  <2> HIDE DEF s, t, i, j
  <2>. QED BY <1>3, <2>1, Factor
<1>. QED BY <1>4, <1>5, <1>6 DEF SameAmount

\* For any amounts, however they are written: two preparations, concurrent or
\* not, have the same stub if and only if they are the same payment of the same
\* task.  What prepared them is their snapshot, whose amount nobody can change.
THEOREM StubsIdentifyPayments == PaySpec => []StubIdentifiesPayment
<1>1. SInv /\ [PayNext]_payVars => SInv'
  BY PStep, AmountedStep, DoneStep DEF SInv
<1>2. SInv => StubIdentifiesPayment
  <2> SUFFICES ASSUME SInv, NEW x \in Execs, NEW y \in Execs, call[x].done # None, call[y].done # None
               PROVE  call[x].done.stub = call[y].done.stub <=> Identity(x) = Identity(y) /\ AmountsAgree(x, y)
    BY DEF StubIdentifiesPayment
  <2> DEFINE t == exec[x].task
             u == exec[y].task
             p == call[x].snap
             q == call[y].snap
  <2>1. /\ call[x].done = Result(t, p) /\ call[y].done = Result(u, q)
        /\ HasAmount(p) /\ HasAmount(q) /\ Valid(p) /\ Valid(q)
    BY DEF SInv, DoneByTools, Amounted, PInv, Preparations, SnapshotsAreValid
  <2>2. Stroops(p.amount) > 0 /\ Stroops(q.amount) > 0
    BY <2>1 DEF Valid
  <2>3. p.amount \in AmountsWritten /\ q.amount \in AmountsWritten
    <3>1. \A a : Stroops(a) > 0 => a # Malformed
      BY DEF Stroops, TextOf, Parsed
    <3>. QED BY <2>1, <2>2, <3>1 DEF HasAmount
  <2> HIDE DEF t, u, p, q
  <2>4. Stub(t, p) = Stub(u, q) <=>
          /\ t = u /\ p.wallet = q.wallet /\ p.recipient = q.recipient /\ Code(p) = Code(q)
          /\ Stroops(p.amount) = Stroops(q.amount) /\ p.memo = q.memo /\ p.issuer = q.issuer
    BY StubsAreInjective
  <2>5. Identity(x) = Identity(y) <=>
          /\ t = u /\ p.wallet = q.wallet /\ p.recipient = q.recipient /\ Code(p) = Code(q)
          /\ p.issuer = q.issuer /\ p.memo = q.memo
    <3>1. /\ Identity(x) = <<t, p.wallet, p.recipient, Code(p), p.issuer, p.memo>>
          /\ Identity(y) = <<u, q.wallet, q.recipient, Code(q), q.issuer, q.memo>>
      BY <2>1 DEF Identity, Result, t, u
    <3>. QED BY <3>1
  <2>6. AmountsAgree(x, y) <=> Stroops(p.amount) = Stroops(q.amount)
    <3>1. /\ call[x].done.stroops = Stroops(p.amount) /\ call[y].done.stroops = Stroops(q.amount)
      BY <2>1 DEF Result
    <3>2. CASE Exact(p.amount) /\ Exact(q.amount)
      BY <2>2, <2>3, <3>2, ExactAmounts DEF AmountsAgree, p, q
    <3>3. CASE ~(Exact(p.amount) /\ Exact(q.amount))
      BY <3>1, <3>3 DEF AmountsAgree, p, q
    <3>. QED BY <3>2, <3>3
  <2>7. call[x].done.stub = Stub(t, p) /\ call[y].done.stub = Stub(u, q)
    BY <2>1 DEF Result
  <2>. QED BY <2>4, <2>5, <2>6, <2>7
<1>. QED BY <1>1, <1>2, SInit, PTL DEF PaySpec

=============================================================================
