----------------------- MODULE JsonFileTaskClaimStore -----------------------
(***************************************************************************)
(* The file-backed claim store used by several processes.  An operation    *)
(* waits its turn in its process's queue, creates the lock directory (or   *)
(* gives up with STORAGE_LOCKED), reads the JSON file, possibly replaces    *)
(* the whole file, and removes the directory.                              *)
(***************************************************************************)
EXTENDS Sequences

CONSTANTS Tasks, Gens, None, Legacy,  \* as in TaskClaimStore
          Procs,                      \* operating-system processes
          Ops,                        \* slots for concurrent operations
          Stale                       \* the lock directory outlived its owner

ASSUME DistinctValues ==
  /\ None # Legacy /\ None \notin Gens /\ Legacy \notin Gens
  /\ Stale \notin Ops /\ None \notin Ops /\ Stale # None

VARIABLES file,    \* the claims array on disk: task -> generation, Legacy, None
          issued,  \* claimIds drawn so far
          lock,    \* lock directory: absent (None), its creator, or Stale
          queue,   \* process -> operations in submission order
          op       \* slot -> operation

vars == <<file, issued, lock, queue, op>>

Kinds == {"claim", "release", "has", "inspect", "releaseIfMatches"}
Pcs == {"idle", "queued", "load", "flush", "unlock"}
Contents == [Tasks -> Gens \union {None, Legacy}]
Answers == {"pending", "yes", "no", "error"}
Empty == [t \in Tasks |-> None]

NoOp == [pc |-> "idle", kind |-> "has", proc |-> None, task |-> None, gen |-> None,
         base |-> Empty, answer |-> "pending"]

Critical(o) == op[o].pc \in {"load", "flush", "unlock"}

Operation == [pc : Pcs, kind : Kinds, proc : Procs \union {None}, task : Tasks \union {None},
              gen : Gens \union {None}, base : Contents, answer : Answers]
OperationOK(k) == /\ k.pc # "idle" => k.proc \in Procs /\ k.task \in Tasks
                  /\ k.pc # "idle" /\ k.kind = "releaseIfMatches" => k.gen \in Gens

TypeOK ==
  /\ file \in Contents
  /\ issued \subseteq Gens
  /\ lock \in Ops \union {None, Stale}
  /\ queue \in [Procs -> Seq(Ops)]
  /\ op \in [Ops -> Operation]
  /\ \A o \in Ops : OperationOK(op[o])

Init == /\ file \in [Tasks -> {None, Legacy}]
        /\ issued = {}
        /\ lock = None
        /\ queue = [p \in Procs |-> <<>>]
        /\ op = [o \in Ops |-> NoOp]

-----------------------------------------------------------------------------
\* serializeFileOperation(): chain behind the process's previous operation.
Submit(o, p, kind, t, g) ==
  /\ op[o] = NoOp
  /\ g \in IF kind = "releaseIfMatches" THEN issued ELSE {None}
  /\ op' = [op EXCEPT ![o] = [NoOp EXCEPT !.pc = "queued", !.kind = kind, !.proc = p,
                                          !.task = t, !.gen = g]]
  /\ queue' = [queue EXCEPT ![p] = Append(@, o)]
  /\ UNCHANGED <<file, issued, lock>>

First(o) == queue[op[o].proc] # <<>> /\ Head(queue[op[o].proc]) = o

\* The operation settles: the next one of its process may begin.
Settle(o) == /\ op' = [op EXCEPT ![o] = NoOp]
             /\ queue' = [queue EXCEPT ![op[o].proc] = Tail(@)]

\* Mutation of AcquireLock: an existing directory is no obstacle.
AcquireLockAnyway(o) ==
  /\ op[o].pc = "queued" /\ First(o)
  /\ lock' = o
  /\ op' = [op EXCEPT ![o].pc = "load"]
  /\ UNCHANGED <<file, issued, queue>>

\* mkdir succeeds only where there is no directory.
AcquireLock(o) ==
  /\ op[o].pc = "queued" /\ First(o)
  /\ lock = None
  /\ lock' = o
  /\ op' = [op EXCEPT ![o].pc = "load"]
  /\ UNCHANGED <<file, issued, queue>>

\* Mutation of GiveUp: EEXIST is retried without a deadline.
GiveUpOnlyOnErrors(o) ==
  /\ op[o].pc = "queued" /\ First(o)
  /\ lock = None
  /\ Settle(o)
  /\ UNCHANGED <<file, issued, lock>>

\* EEXIST until lockTimeoutMs has passed (STORAGE_LOCKED), or another mkdir error.
GiveUp(o) ==
  /\ op[o].pc = "queued" /\ First(o)
  /\ Settle(o)
  /\ UNCHANGED <<file, issued, lock>>

\* Which operations replace the file, given the claims they have read.
Writes(k, claims) == \/ k.kind = "claim" /\ claims[k.task] = None
                     \/ k.kind = "release" /\ claims[k.task] # None
                     \/ k.kind = "releaseIfMatches" /\ claims[k.task] = k.gen

\* Mutation of SaysYes: inspect() takes a legacy record for a claim.
SaysYesToLegacy(k, claims) == \/ k.kind = "release"
                              \/ k.kind \in {"has", "inspect"} /\ claims[k.task] # None

\* What the others answer; inspect() also returns the generation it found, and
\* takes a legacy record for none.
SaysYes(k, claims) == \/ k.kind = "release"
                      \/ k.kind = "has" /\ claims[k.task] # None
                      \/ k.kind = "inspect" /\ claims[k.task] \in Gens
Answered(k, claims) ==
  [k EXCEPT !.pc = "unlock",
            !.answer = IF SaysYes(k, claims) THEN "yes" ELSE "no",
            !.gen = IF k.kind = "inspect" /\ claims[k.task] \in Gens THEN claims[k.task] ELSE @]

\* loadClaims(), then the decision each operation takes on the result.
Load(o) ==
  /\ op[o].pc = "load"
  /\ op' = [op EXCEPT ![o] = IF Writes(@, file)
                             THEN [@ EXCEPT !.pc = "flush", !.base = file]
                             ELSE Answered(@, file)]
  /\ UNCHANGED <<file, issued, lock, queue>>

\* flushAtomic(): the temporary file replaces the claims in one rename.
Replace(o, new, g) ==
  /\ op[o].pc = "flush"
  /\ file' = new
  /\ op' = [op EXCEPT ![o] = [@ EXCEPT !.pc = "unlock", !.answer = "yes",
                                      !.gen = g, !.base = Empty]]
  /\ UNCHANGED <<lock, queue>>

FlushClaim(o, g) ==
  /\ op[o].kind = "claim"
  /\ g \in Gens \ issued
  /\ Replace(o, [op[o].base EXCEPT ![op[o].task] = g], g)
  /\ issued' = issued \union {g}

FlushRelease(o) ==
  /\ op[o].kind \in {"release", "releaseIfMatches"}
  /\ Replace(o, [op[o].base EXCEPT ![op[o].task] = None], op[o].gen)
  /\ UNCHANGED issued

\* Unreadable or corrupted claims, or a failed write or rename: nothing changes
\* on disk and the error travels through the finally block.
Fail(o) ==
  /\ op[o].pc \in {"load", "flush"}
  /\ op' = [op EXCEPT ![o].pc = "unlock", ![o].answer = "error", ![o].base = Empty]
  /\ UNCHANGED <<file, issued, lock, queue>>

\* rm of the lock directory; its failure is ignored and leaves the directory.
Unlock(o) ==
  /\ op[o].pc = "unlock"
  /\ lock' \in {None, Stale}
  /\ Settle(o)
  /\ UNCHANGED <<file, issued>>

\* A process dies: its queue and operations vanish, its lock directory stays.
Crash(p) ==
  /\ op' = [o \in Ops |-> IF op[o].proc = p THEN NoOp ELSE op[o]]
  /\ queue' = [queue EXCEPT ![p] = <<>>]
  /\ lock' = IF lock \in Ops /\ op[lock].proc = p THEN Stale ELSE lock
  /\ UNCHANGED <<file, issued>>

\* The operator removes an orphaned directory when no process uses the file.
OperatorClearsLock ==
  /\ lock = Stale
  /\ \A o \in Ops : op[o] = NoOp
  /\ lock' = None
  /\ UNCHANGED <<file, issued, queue, op>>

OpStep(o) == \/ AcquireLock(o) \/ GiveUp(o) \/ Load(o) \/ Fail(o) \/ FlushRelease(o)
             \/ \E g \in Gens : FlushClaim(o, g)
             \/ Unlock(o)

Next ==
  \/ \E o \in Ops : OpStep(o)
  \/ \E o \in Ops, p \in Procs, kind \in Kinds, t \in Tasks, g \in Gens \union {None} :
       Submit(o, p, kind, t, g)
  \/ \E p \in Procs : Crash(p)
  \/ OperatorClearsLock

Spec == Init /\ [][Next]_vars

\* File operations return and the retry timer fires.
FairSpec == Spec /\ \A o \in Ops : WF_vars(OpStep(o))

-----------------------------------------------------------------------------
(* Properties *)

\* The lock directory works as a mutex: who is between mkdir and rm created the
\* directory that is there, so at most one process reads or replaces the file.
MutualExclusion == \A o \in Ops : Critical(o) => lock = o

\* The store behaves like the atomic one, with the rename as the moment an
\* operation happens: no update of another process is overwritten by a writer
\* working from claims it read earlier.
Atomic == INSTANCE TaskClaimStore WITH claims <- file
ImplementsTaskClaimStore == Atomic!StoreSpec

\* An answer is true of the file at the moment it is settled: claim() is TRUE
\* only for the one who created the record, FALSE only if there is one, and so on.
Truthful(k, before, after) ==
  LET was == before[k.task]
      is == after[k.task]
      said == k.answer = "yes"
  IN IF k.answer = "error" THEN after = before
     ELSE
     CASE k.kind = "claim" -> IF said THEN was = None /\ is = k.gen ELSE was # None
       [] k.kind = "release" -> is = None
       [] k.kind = "has" -> said <=> was # None
       [] k.kind = "inspect" -> IF said THEN was = k.gen ELSE was \notin Gens
       [] OTHER -> IF said THEN was = k.gen /\ is = None ELSE was # k.gen
AnswersTruthful ==
  [][\A o \in Ops : op[o].pc # "unlock" /\ op[o].pc' = "unlock" =>
       Truthful(op[o]', file, file')]_vars

\* Every operation settles, with an answer or an error, whatever other processes
\* do with the lock (a crashed owner included).
OperationsSettle == \A o \in Ops : op[o].pc # "idle" ~> op[o].pc = "idle"
=============================================================================
