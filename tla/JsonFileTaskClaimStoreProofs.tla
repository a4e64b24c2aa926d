-------------------- MODULE JsonFileTaskClaimStoreProofs --------------------
(***************************************************************************)
(* For every set of processes, operations, tasks and generations: the lock  *)
(* directory is a mutex, and the file-backed store implements the atomic    *)
(* TaskClaimStore.  The argument needs one fact beyond the mutex itself: a  *)
(* writer that has read the claims and not yet renamed its temporary file   *)
(* still holds exactly what is on disk (BaseIsCurrent).                     *)
(***************************************************************************)
EXTENDS JsonFileTaskClaimStore, SequenceTheorems, TLAPS

\* What a writer decided on is still what the file says.
BaseIsCurrent ==
  \A o \in Ops : op[o].pc = "flush" => op[o].base = file /\ Writes(op[o], file)

\* Who is inside is the first of its process's queue.
InsideIsFirst == \A o \in Ops : Critical(o) => First(o)

MInv == TypeOK /\ MutualExclusion /\ BaseIsCurrent /\ InsideIsFirst

\* Emptying a process's queue, appending to it and taking its head keep it a
\* sequence of slots.
LEMMA NoOpTyped == NoOp \in Operation /\ OperationOK(NoOp) /\ NoOp.pc = "idle"
  BY DEF NoOp, Operation, OperationOK, Pcs, Kinds, Contents, Empty, Answers

\* The initial state satisfies the invariant.
LEMMA MInit == Init => MInv
<1> SUFFICES ASSUME Init PROVE MInv
  OBVIOUS
<1>1. TypeOK
  <2>1. queue \in [Procs -> Seq(Ops)]
    BY DEF Init
  <2>2. op \in [Ops -> Operation] /\ \A o \in Ops : OperationOK(op[o])
    BY NoOpTyped DEF Init
  <2>. QED BY <2>1, <2>2 DEF Init, TypeOK, Contents
<1>2. \A o \in Ops : op[o].pc = "idle"
  BY NoOpTyped DEF Init
<1>. QED BY <1>1, <1>2 DEF MInv, MutualExclusion, BaseIsCurrent, InsideIsFirst, Critical

\* A step that changes one slot o, and neither the file nor the lock, keeps
\* the invariant if the new operation is well typed, is inside the critical
\* section only if it was before, and is about to write only what it should.
LEMMA OneSlot ==
  ASSUME MInv, NEW o \in Ops, NEW k \in Operation, OperationOK(k),
         op' = [op EXCEPT ![o] = k],
         UNCHANGED <<file, lock>>, issued' \subseteq Gens, queue' \in [Procs -> Seq(Ops)],
         k.pc \in {"load", "flush", "unlock"} => Critical(o),
         k.pc = "flush" => k.base = file /\ Writes(k, file),
         InsideIsFirst'
  PROVE  MInv'
<1>1. op'[o] = k /\ \A x \in Ops \ {o} : op'[x] = op[x]
  BY DEF MInv, TypeOK
<1>2. TypeOK'
  BY <1>1 DEF MInv, TypeOK
<1>3. MutualExclusion'
  BY <1>1 DEF MInv, MutualExclusion, Critical
<1>4. BaseIsCurrent'
  BY <1>1 DEF MInv, BaseIsCurrent, Writes
<1>. QED BY <1>2, <1>3, <1>4 DEF MInv

\* What remains of a queue when its first operation settles.
LEMMA SettledQueue ==
  ASSUME TypeOK, NEW o \in Ops, First(o), op[o].pc # "idle",
         queue' = [queue EXCEPT ![op[o].proc] = Tail(@)]
  PROVE  queue' \in [Procs -> Seq(Ops)]
<1>1. op[o].proc \in Procs
  BY DEF TypeOK, OperationOK
<1>2. queue[op[o].proc] \in Seq(Ops) /\ queue[op[o].proc] # <<>>
  BY <1>1 DEF TypeOK, First
<1>3. Tail(queue[op[o].proc]) \in Seq(Ops)
  BY <1>2
<1>. QED BY <1>1, <1>3 DEF TypeOK

\* Only the operation in the critical section replaces the file, so no other
\* writer is left with claims it read before.
LEMMA ReplaceKeeps ==
  ASSUME MInv, NEW o \in Ops, NEW new \in Contents, NEW g \in Gens \union {None},
         Replace(o, new, g), g = op[o].gen \/ op[o].kind = "claim", issued' \subseteq Gens
  PROVE  MInv'
<1> DEFINE k == [op[o] EXCEPT !.pc = "unlock", !.answer = "yes", !.gen = g, !.base = Empty]
<1>0. op \in [Ops -> Operation] /\ op[o] \in Operation /\ OperationOK(op[o]) /\ op[o].pc = "flush"
  BY DEF MInv, TypeOK, Replace
<1>1. op' = [op EXCEPT ![o] = op'[o]] /\ op'[o].pc = "unlock" /\ op'[o].kind = op[o].kind
      /\ op'[o].proc = op[o].proc /\ op'[o] \in Operation /\ OperationOK(op'[o])
  <2>1. k \in Operation /\ k.pc = "unlock" /\ k.kind = op[o].kind /\ k.proc = op[o].proc
        /\ k.task = op[o].task /\ k.gen = g
    BY <1>0 DEF Operation, Pcs, Answers, Contents, Empty
  <2>2. OperationOK(k)
    BY <1>0, <2>1 DEF OperationOK
  <2>3. op' = [op EXCEPT ![o] = k]
    BY <1>0 DEF Replace
  <2> HIDE DEF k
  <2>. QED BY <1>0, <2>1, <2>2, <2>3
<1> HIDE DEF k
<1>2. \A x \in Ops \ {o} : op'[x] = op[x] /\ ~Critical(x)
  BY DEF MInv, TypeOK, Replace, MutualExclusion, Critical
<1>3. TypeOK'
  BY <1>1, <1>2 DEF MInv, TypeOK, Replace
<1>4. MutualExclusion'
  BY <1>1, <1>2 DEF MInv, MutualExclusion, Critical, Replace
<1>5. BaseIsCurrent'
  BY <1>1, <1>2 DEF BaseIsCurrent, Critical
<1>6. InsideIsFirst'
  BY <1>1, <1>2 DEF MInv, InsideIsFirst, Critical, First, Replace
<1>. QED BY <1>3, <1>4, <1>5, <1>6 DEF MInv

LEMMA FlushClaimKeeps ==
  ASSUME MInv, NEW o \in Ops, NEW g \in Gens, FlushClaim(o, g)
  PROVE  MInv'
<1>1. [op[o].base EXCEPT ![op[o].task] = g] \in Contents
  BY DEF MInv, TypeOK, Operation, Contents
<1>. QED BY <1>1, ReplaceKeeps DEF FlushClaim, MInv, TypeOK

LEMMA FlushReleaseKeeps ==
  ASSUME MInv, NEW o \in Ops, FlushRelease(o)
  PROVE  MInv'
<1>1. [op[o].base EXCEPT ![op[o].task] = None] \in Contents /\ op[o].gen \in Gens \union {None}
  BY DEF MInv, TypeOK, Operation, Contents
<1>. QED BY <1>1, ReplaceKeeps DEF FlushRelease, MInv, TypeOK

LEMMA SubmitKeeps ==
  ASSUME MInv, NEW o \in Ops, NEW p \in Procs, NEW kind \in Kinds, NEW t \in Tasks,
         NEW g \in Gens \union {None}, Submit(o, p, kind, t, g)
  PROVE  MInv'
<1> DEFINE k == [NoOp EXCEPT !.pc = "queued", !.kind = kind, !.proc = p, !.task = t, !.gen = g]
<1>1. k \in Operation /\ OperationOK(k) /\ k.pc = "queued"
  BY DEF Submit, NoOp, Operation, OperationOK, Pcs, Contents, Empty, Answers, MInv, TypeOK
<1>2. queue' \in [Procs -> Seq(Ops)]
  BY DEF Submit, MInv, TypeOK
<1>3. op' = [op EXCEPT ![o] = k] /\ UNCHANGED <<file, lock>> /\ issued' \subseteq Gens
  BY DEF Submit, MInv, TypeOK
<1>4. ASSUME NEW x \in Ops, Critical(x)' PROVE First(x)'
  <2>1. x # o /\ op'[x] = op[x] /\ Critical(x) /\ First(x)
    BY <1>1, <1>3, <1>4 DEF MInv, TypeOK, InsideIsFirst, Critical
  <2>2. op[x].proc \in Procs /\ queue[op[x].proc] \in Seq(Ops)
    BY <2>1 DEF MInv, TypeOK, OperationOK, Critical
  <2>3. queue'[op[x].proc] = queue[op[x].proc] \/ queue'[op[x].proc] = Append(queue[op[x].proc], o)
    BY <2>2 DEF Submit, MInv, TypeOK
  <2>. QED BY <2>1, <2>2, <2>3 DEF First
<1> HIDE DEF k
<1>. QED BY <1>1, <1>2, <1>3, <1>4, OneSlot DEF InsideIsFirst

LEMMA LoadKeeps ==
  ASSUME MInv, NEW o \in Ops, Load(o)
  PROVE  MInv'
<1> DEFINE k == IF Writes(op[o], file) THEN [op[o] EXCEPT !.pc = "flush", !.base = file]
                ELSE Answered(op[o], file)
<1>1. op[o] \in Operation /\ OperationOK(op[o]) /\ op[o].pc = "load" /\ file \in Contents
  BY DEF MInv, TypeOK, Load
<1>2. k \in Operation /\ OperationOK(k)
  <2>1. CASE Writes(op[o], file)
    BY <1>1, <2>1 DEF Operation, OperationOK, Pcs
  <2>2. CASE ~Writes(op[o], file)
    <3>1. file[op[o].task] \in Gens \/ op[o].gen = Answered(op[o], file).gen
      BY <1>1 DEF Answered, Operation
    <3>. QED BY <1>1, <2>2, <3>1 DEF Answered, Operation, OperationOK, Pcs, Answers
  <2>. QED BY <2>1, <2>2
<1>3. k.pc = "flush" => k.base = file /\ Writes(k, file)
  BY <1>1 DEF Answered, Operation, Writes
<1>4. op' = [op EXCEPT ![o] = k]
  BY DEF Load, MInv, TypeOK
<1>5. Critical(o)
  BY <1>1 DEF Critical
<1>6. UNCHANGED <<file, lock>> /\ issued' \subseteq Gens /\ queue' \in [Procs -> Seq(Ops)]
  BY DEF Load, MInv, TypeOK
<1>7. k.proc = op[o].proc
  BY <1>1 DEF Answered, Operation
<1> HIDE DEF k
<1>8. InsideIsFirst'
  BY <1>4, <1>5, <1>7 DEF Load, MInv, TypeOK, InsideIsFirst, Critical, First
<1>. QED BY <1>2, <1>3, <1>4, <1>5, <1>6, <1>8, OneSlot

LEMMA FailKeeps ==
  ASSUME MInv, NEW o \in Ops, Fail(o)
  PROVE  MInv'
<1> DEFINE k == [op[o] EXCEPT !.pc = "unlock", !.answer = "error", !.base = Empty]
<1>0. op \in [Ops -> Operation] /\ op[o] \in Operation /\ OperationOK(op[o]) /\ op[o].pc \in {"load", "flush"}
  BY DEF MInv, TypeOK, Fail
<1>1. k \in Operation /\ OperationOK(k) /\ k.pc = "unlock" /\ Critical(o)
  <2>1. k \in Operation /\ k.pc = "unlock" /\ k.kind = op[o].kind /\ k.proc = op[o].proc
        /\ k.task = op[o].task /\ k.gen = op[o].gen
    BY <1>0 DEF Operation, Pcs, Answers, Contents, Empty
  <2> HIDE DEF k
  <2>. QED BY <1>0, <2>1 DEF OperationOK, Critical
<1>2. op' = [op EXCEPT ![o] = k]
  BY <1>0 DEF Fail, Operation
<1>3. UNCHANGED <<file, lock>> /\ issued' \subseteq Gens /\ queue' \in [Procs -> Seq(Ops)]
  BY DEF Fail, MInv, TypeOK
<1>4. k.proc = op[o].proc
  BY DEF MInv, TypeOK, Operation
<1> HIDE DEF k
<1>5. InsideIsFirst'
  BY <1>1, <1>2, <1>4 DEF Fail, MInv, TypeOK, InsideIsFirst, Critical, First
<1>. QED BY <1>1, <1>2, <1>3, <1>5, OneSlot

LEMMA GiveUpKeeps ==
  ASSUME MInv, NEW o \in Ops, GiveUp(o)
  PROVE  MInv'
<1>1. queue' \in [Procs -> Seq(Ops)]
  BY SettledQueue DEF GiveUp, Settle, MInv
<1>2. op' = [op EXCEPT ![o] = NoOp] /\ UNCHANGED <<file, lock>> /\ issued' \subseteq Gens
  BY DEF GiveUp, Settle, MInv, TypeOK
<1>3. ASSUME NEW x \in Ops, Critical(x)' PROVE First(x)'
  <2>1. x # o /\ op'[x] = op[x] /\ Critical(x) /\ First(x)
    BY <1>2, <1>3, NoOpTyped DEF MInv, TypeOK, InsideIsFirst, Critical
  <2>2. op[x].proc # op[o].proc
    BY <2>1 DEF First, GiveUp
  <2>3. op[x].proc \in Procs
    BY <2>1 DEF MInv, TypeOK, OperationOK, Critical
  <2>. QED BY <2>1, <2>2, <2>3 DEF First, GiveUp, Settle, MInv, TypeOK
<1>. QED BY <1>1, <1>2, <1>3, NoOpTyped, OneSlot DEF InsideIsFirst

\* mkdir found no directory, so nobody was in the critical section.
LEMMA AcquireLockKeeps ==
  ASSUME MInv, NEW o \in Ops, AcquireLock(o)
  PROVE  MInv'
<1>1. \A x \in Ops : ~Critical(x)
  BY DistinctValues DEF MInv, MutualExclusion, AcquireLock
<1>2. /\ op'[o] \in Operation /\ OperationOK(op'[o]) /\ op'[o].pc = "load"
      /\ \A x \in Ops \ {o} : op'[x] = op[x]
  BY DEF MInv, TypeOK, AcquireLock, Operation, OperationOK, Pcs
<1>3. TypeOK'
  BY <1>2 DEF MInv, TypeOK, AcquireLock
<1>4. MutualExclusion' /\ BaseIsCurrent'
  BY <1>1, <1>2 DEF MutualExclusion, BaseIsCurrent, Critical, AcquireLock
<1>5. op'[o].proc = op[o].proc
  BY DEF AcquireLock, MInv, TypeOK, Operation
<1>6. InsideIsFirst'
  BY <1>1, <1>2, <1>5 DEF InsideIsFirst, Critical, First, AcquireLock
<1>. QED BY <1>3, <1>4, <1>6 DEF MInv

LEMMA UnlockKeeps ==
  ASSUME MInv, NEW o \in Ops, Unlock(o)
  PROVE  MInv'
<1>1. \A x \in Ops : op'[x] = IF x = o THEN NoOp ELSE op[x]
  BY DEF MInv, TypeOK, Unlock, Settle
<1>2. \A x \in Ops \ {o} : ~Critical(x)
  BY DEF MInv, MutualExclusion, Critical, Unlock
<1>3. queue' \in [Procs -> Seq(Ops)]
  BY SettledQueue DEF Unlock, Settle, MInv, InsideIsFirst, Critical
<1>4. TypeOK'
  BY <1>1, <1>3, NoOpTyped DEF MInv, TypeOK, Unlock, Settle
<1>5. MutualExclusion' /\ BaseIsCurrent' /\ InsideIsFirst'
  BY <1>1, <1>2, NoOpTyped DEF MutualExclusion, BaseIsCurrent, InsideIsFirst, Critical
<1>. QED BY <1>4, <1>5 DEF MInv

LEMMA CrashKeeps ==
  ASSUME MInv, NEW p \in Procs, Crash(p)
  PROVE  MInv'
<1>1. \A x \in Ops : op'[x] = IF op[x].proc = p THEN NoOp ELSE op[x]
  BY DEF Crash
<1>2. TypeOK'
  <2>1. queue' \in [Procs -> Seq(Ops)]
    BY DEF Crash, MInv, TypeOK
  <2>. QED BY <1>1, <2>1, NoOpTyped DEF MInv, TypeOK, Crash
<1>3. MutualExclusion'
  BY <1>1, NoOpTyped DEF MInv, MutualExclusion, Critical, Crash
<1>4. BaseIsCurrent'
  BY <1>1, NoOpTyped DEF MInv, BaseIsCurrent, Writes, Crash
<1>5. InsideIsFirst'
  <2> SUFFICES ASSUME NEW x \in Ops, Critical(x)' PROVE First(x)'
    BY DEF InsideIsFirst
  <2>1. op'[x] = op[x] /\ op[x].proc # p /\ Critical(x)
    BY <1>1, NoOpTyped DEF Critical
  <2>2. op[x].proc \in Procs /\ First(x)
    BY <2>1 DEF MInv, TypeOK, OperationOK, Critical, InsideIsFirst
  <2>. QED BY <2>1, <2>2 DEF First, Crash, MInv, TypeOK
<1>. QED BY <1>2, <1>3, <1>4, <1>5 DEF MInv

LEMMA OperatorKeeps ==
  ASSUME MInv, OperatorClearsLock
  PROVE  MInv'
<1>1. \A o \in Ops : op[o].pc = "idle" /\ op' = op
  BY NoOpTyped DEF OperatorClearsLock
<1>. QED BY <1>1 DEF MInv, TypeOK, MutualExclusion, BaseIsCurrent, InsideIsFirst, Critical,
                     OperatorClearsLock

\* The invariant is inductive.
LEMMA MStep == MInv /\ [Next]_vars => MInv'
<1> SUFFICES ASSUME MInv, [Next]_vars PROVE MInv'
  OBVIOUS
<1>1. CASE \E o \in Ops : OpStep(o)
  <2> PICK o \in Ops : OpStep(o)
    BY <1>1
  <2>1. CASE \E g \in Gens : FlushClaim(o, g)
    BY <2>1, FlushClaimKeeps
  <2>. QED BY <2>1, AcquireLockKeeps, GiveUpKeeps, LoadKeeps, FailKeeps, FlushReleaseKeeps,
              UnlockKeeps DEF OpStep
<1>2. CASE \E o \in Ops, p \in Procs, kind \in Kinds, t \in Tasks, g \in Gens \union {None} :
             Submit(o, p, kind, t, g)
  BY <1>2, SubmitKeeps
<1>3. CASE \E p \in Procs : Crash(p)
  BY <1>3, CrashKeeps
<1>4. CASE OperatorClearsLock
  BY <1>4, OperatorKeeps
<1>5. CASE UNCHANGED vars
  BY <1>5 DEF MInv, TypeOK, MutualExclusion, BaseIsCurrent, InsideIsFirst, Critical, First,
              Writes, vars
<1>. QED BY <1>1, <1>2, <1>3, <1>4, <1>5 DEF Next

\* The lock directory is a mutex between processes, and the types hold: at most
\* one operation is between its mkdir and its rm, however processes die.
THEOREM LockIsMutex == Spec => [](TypeOK /\ MutualExclusion)
<1>1. MInv => TypeOK /\ MutualExclusion
  BY DEF MInv
<1>. QED BY <1>1, MInit, MStep, PTL DEF Spec

\* A step of the file-backed store is a step of the atomic one or changes no claim.
LEMMA StoreStep == MInv /\ [Next]_vars => [Atomic!StoreNext]_(Atomic!storeVars)
<1> SUFFICES ASSUME MInv, [Next]_vars PROVE [Atomic!StoreNext]_<<file, issued>>
  BY DEF Atomic!storeVars
<1>1. ASSUME NEW o \in Ops, NEW g \in Gens, FlushClaim(o, g)
      PROVE  \E t \in Tasks : Atomic!ClaimAs(t, g)
  <2>1. op[o].base = file /\ Writes(op[o], file) /\ op[o].task \in Tasks
    BY <1>1 DEF MInv, TypeOK, OperationOK, BaseIsCurrent, FlushClaim, Replace
  <2>. QED BY <1>1, <2>1 DEF FlushClaim, Replace, Writes, Atomic!ClaimAs, Atomic!Has
<1>2. ASSUME NEW o \in Ops, FlushRelease(o)
      PROVE  \E t \in Tasks : Atomic!Release(t)
  <2>1. op[o].base = file /\ op[o].task \in Tasks
    BY <1>2 DEF MInv, TypeOK, OperationOK, BaseIsCurrent, FlushRelease, Replace
  <2>. QED BY <1>2, <2>1 DEF FlushRelease, Replace, Atomic!Release
<1>3. CASE UNCHANGED <<file, issued>>
  BY <1>3
<1>4. [Next]_vars =>
        \/ \E o \in Ops : FlushRelease(o) \/ \E g \in Gens : FlushClaim(o, g)
        \/ UNCHANGED <<file, issued>>
  BY DEF Next, OpStep, Submit, AcquireLock, GiveUp, Load, Fail, Unlock, Crash,
         OperatorClearsLock, vars
<1>. QED BY <1>1, <1>2, <1>3, <1>4 DEF Atomic!StoreNext

\* The file-backed store implements the atomic store: no process overwrites what
\* another one wrote, and every claim, release and compare-and-delete happens at
\* the rename, in one step.
THEOREM ImplementsAtomicStore == Spec => ImplementsTaskClaimStore
<1>1. Init => Atomic!StoreInit
  BY DEF Init, Atomic!StoreInit
<1>. QED BY <1>1, MInit, MStep, StoreStep, PTL DEF Spec, ImplementsTaskClaimStore, Atomic!StoreSpec

\* The answer an operation settles on when it is done with the file.
LEMMA AnswerStep ==
  ASSUME MInv, [Next]_vars, NEW o \in Ops, op[o].pc # "unlock", op[o]'.pc = "unlock"
  PROVE  Truthful(op[o]', file, file')
<1>. USE DEF MInv
<1>1. op[o] \in Operation /\ OperationOK(op[o]) /\ file \in Contents
  BY DEF TypeOK
<1>2. Load(o) \/ Fail(o) \/ FlushRelease(o) \/ \E g \in Gens : FlushClaim(o, g)
  <2>1. ASSUME NEW x \in Ops, OpStep(x) PROVE x = o /\ ~AcquireLock(x) /\ ~GiveUp(x) /\ ~Unlock(x)
    <3>1. x = o
      BY <2>1 DEF OpStep, AcquireLock, GiveUp, Load, Fail, FlushRelease, FlushClaim, Replace,
                  Unlock, Settle, TypeOK
    <3>. QED BY <3>1, NoOpTyped DEF AcquireLock, GiveUp, Unlock, Settle, TypeOK, Operation
  <2>2. ASSUME NEW x \in Ops, NEW p \in Procs, NEW kind \in Kinds, NEW t \in Tasks,
               NEW g \in Gens \union {None}, Submit(x, p, kind, t, g)
        PROVE  FALSE
    BY <2>2 DEF Submit, NoOp, TypeOK
  <2>3. ASSUME NEW p \in Procs, Crash(p) PROVE FALSE
    BY <2>3, NoOpTyped DEF Crash
  <2>4. ~OperatorClearsLock /\ ~UNCHANGED vars
    BY DEF OperatorClearsLock, vars
  <2>5. PICK x \in Ops : OpStep(x)
    BY <2>2, <2>3, <2>4 DEF Next
  <2>. QED BY <2>1, <2>5 DEF OpStep
<1>3. CASE Load(o)
  <2>1. op[o]' = Answered(op[o], file) /\ ~Writes(op[o], file) /\ file' = file
    BY <1>1, <1>3 DEF Load, TypeOK, Operation
  <2>2. /\ op[o]'.kind = op[o].kind /\ op[o]'.task = op[o].task
        /\ op[o]'.answer = IF SaysYes(op[o], file) THEN "yes" ELSE "no"
        /\ op[o]'.gen = IF op[o].kind = "inspect" /\ file[op[o].task] \in Gens
                        THEN file[op[o].task] ELSE op[o].gen
    BY <1>1, <2>1 DEF Answered, Operation
  <2>3. op[o].kind \in Kinds
    BY <1>1 DEF Operation
  <2>. QED BY <2>1, <2>2, <2>3 DEF Truthful, SaysYes, Writes, Kinds
<1>4. CASE Fail(o)
  BY <1>1, <1>4 DEF Fail, Truthful, TypeOK, Operation
<1>5. CASE FlushRelease(o)
  <2>1. op[o].base = file /\ Writes(op[o], file) /\ op[o].task \in Tasks
    BY <1>1, <1>5 DEF OperationOK, BaseIsCurrent, FlushRelease, Replace
  <2>2. /\ op[o]'.kind = op[o].kind /\ op[o]'.task = op[o].task
        /\ op[o]'.answer = "yes" /\ op[o]'.gen = op[o].gen
    BY <1>1, <1>5 DEF FlushRelease, Replace, TypeOK, Operation
  <2>3. file'[op[o].task] = None
    BY <1>1, <1>5, <2>1 DEF FlushRelease, Replace, Contents
  <2>. QED BY <1>5, <2>1, <2>2, <2>3 DEF Truthful, Writes, FlushRelease
<1>6. ASSUME NEW g \in Gens, FlushClaim(o, g) PROVE Truthful(op[o]', file, file')
  <2>1. op[o].base = file /\ Writes(op[o], file) /\ op[o].task \in Tasks
    BY <1>1, <1>6 DEF OperationOK, BaseIsCurrent, FlushClaim, Replace
  <2>2. op[o]'.kind = "claim" /\ op[o]'.task = op[o].task /\ op[o]'.answer = "yes" /\ op[o]'.gen = g
    BY <1>1, <1>6 DEF FlushClaim, Replace, TypeOK, Operation
  <2>3. file'[op[o].task] = g
    BY <1>1, <1>6, <2>1 DEF FlushClaim, Replace, Contents
  <2>. QED BY <1>6, <2>1, <2>2, <2>3 DEF Truthful, Writes, FlushClaim
<1>. QED BY <1>2, <1>3, <1>4, <1>5, <1>6

\* What an operation answers is true of the file at the moment it is done with
\* it: nobody else's write can come between its read and its rename.
THEOREM AnswersAreTruthful == Spec => AnswersTruthful
<1>1. MInv /\ [Next]_vars =>
        [\A o \in Ops : op[o].pc # "unlock" /\ op[o].pc' = "unlock" =>
           Truthful(op[o]', file, file')]_vars
  BY AnswerStep
<1>. QED BY <1>1, MInit, MStep, PTL DEF Spec, AnswersTruthful
=============================================================================
