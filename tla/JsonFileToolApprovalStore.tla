---------------------- MODULE JsonFileToolApprovalStore ----------------------
(***************************************************************************)
(* The file-backed approval store used by several processes, hardened and   *)
(* plain.  An operation waits its turn in its process's queue, creates the  *)
(* lock directory, reads and validates the file, reads its clock, possibly  *)
(* replaces the whole file, and removes the directory.                      *)
(* Clocks of different processes, and of one process at different times,    *)
(* need not agree in any way.                                               *)
(***************************************************************************)
EXTENDS Naturals, Sequences, ApprovalRecords

CONSTANTS Procs,     \* operating-system processes
          Runtimes,  \* runtime identities ...
          RuntimeOf, \* ... and the one each process's store is built for
          Ops,       \* slots for concurrent operations
          Stale,     \* the lock directory outlived its owner
          Times      \* instants, in milliseconds since some origin

ASSUME FileStoreValues ==
  /\ RuntimeOf \in [Procs -> Runtimes]
  /\ Times \subseteq Nat
  /\ None \notin Grants \union Keys \union Digests \union Procs \union Ops \union Runtimes \union Nat
  /\ Stale \notin Ops /\ Stale # None

VARIABLES file,  \* runtime it belongs to (None: no file yet) and approvals
          lock,  \* lock directory: absent (None), its creator, or Stale
          queue, \* process -> operations in the order they entered
          op     \* slot -> operation

fileVars == <<file, lock, queue, op>>

Instant == Times \union {None}
Record == [id : Grants, key : Keys, digest : Digests, granted : Times,
           expires : Instant, consumed : Instant, revoked : Instant]

Kinds == {"approve", "revoke", "get", "consume"}
\* An operation is in the queue ("queued"), holds the lock and reads ("load"),
\* replaces the file ("flush"), is done ("unlock").
Stages == {"idle", "queued", "load", "flush", "unlock"}
Operation == [pc : Stages, kind : Kinds, proc : Procs \union {None}, id : Grants \union {None},
              key : Keys \union {None}, digest : Digests \union {None}, expires : Instant,
              next : Seq(Record), answer : {"pending", "yes", "no", "error"}]
NoOp == [pc |-> "idle", kind |-> "get", proc |-> None, id |-> None, key |-> None,
         digest |-> None, expires |-> None, next |-> <<>>, answer |-> "pending"]

FileTypeOK ==
  /\ file \in [runtime : Runtimes \union {None}, approvals : Seq(Record)]
  /\ lock \in Ops \union {None, Stale}
  /\ queue \in [Procs -> Seq(Ops)]
  /\ op \in [Ops -> Operation]
  /\ \A o \in Ops : op[o].pc # "idle" => op[o].proc \in Procs

FileInit ==
  /\ file = [runtime |-> None, approvals |-> <<>>]
  /\ lock = None
  /\ queue = [p \in Procs |-> <<>>]
  /\ op = [o \in Ops |-> NoOp]

-----------------------------------------------------------------------------
\* What loadState() accepts.

Unspent(r) == r.consumed = None /\ r.revoked = None

\* validateRecord(), as far as it compares instants.
ValidRecord(r) ==
  /\ r.expires # None => r.granted < r.expires
  /\ r.consumed # None => r.granted <= r.consumed /\ (r.expires # None => r.consumed < r.expires)
  /\ r.revoked # None => r.granted <= r.revoked
  /\ r.consumed = None \/ r.revoked = None

Readable(approvals) ==
  /\ \A i \in DOMAIN approvals : ValidRecord(approvals[i])
  /\ \A i, j \in DOMAIN approvals : approvals[i].id = approvals[j].id => i = j

-----------------------------------------------------------------------------
\* What an operation k decides on the approvals as it has read them at time now
\* (None: a clock that has no valid time).

With(approvals, id) == {i \in DOMAIN approvals : approvals[i].id = id}

\* Mutation of Revocable: the clock is not compared with the grant.
RevocableAnytime(k, r, now) == Unspent(r) /\ now # None

Revocable(k, r, now) == Unspent(r) /\ now # None /\ r.granted <= now

\* Mutation of Spendable: a spent approval is only told by its revocation.
SpendableAgain(k, r, now) ==
  /\ r.key = k.key /\ r.digest = k.digest /\ r.revoked = None
  /\ now # None /\ r.granted <= now
  /\ r.expires # None => now < r.expires

Spendable(k, r, now) ==
  /\ r.key = k.key /\ r.digest = k.digest /\ Unspent(r)
  /\ now # None /\ r.granted <= now
  /\ r.expires # None => now < r.expires

\* The records the operation may change: the first that can be spent, or the
\* one it names.
Chosen(k, approvals, now) ==
  CASE k.kind = "consume" ->
         LET S == {i \in DOMAIN approvals : Spendable(k, approvals[i], now)}
         IN {i \in S : \A j \in S : i <= j}
    [] k.kind = "revoke" -> {i \in With(approvals, k.id) : Revocable(k, approvals[i], now)}
    [] OTHER -> {}

Grantable(k, approvals, now) ==
  /\ k.kind = "approve" /\ With(approvals, k.id) = {}
  /\ now # None
  /\ k.expires # None => now < k.expires

NewRecord(k, now) == [id |-> k.id, key |-> k.key, digest |-> k.digest, granted |-> now,
                      expires |-> k.expires, consumed |-> None, revoked |-> None]

Marked(k, r, now) == IF k.kind = "consume" THEN [r EXCEPT !.consumed = now]
                                           ELSE [r EXCEPT !.revoked = now]

\* Without a change: get() and a revocation that finds nothing to revoke answer,
\* consume() refuses, and everything else is an error.
Reply(k, approvals) ==
  CASE k.kind = "consume" -> "no"
    [] k.kind = "get" -> IF With(approvals, k.id) # {} THEN "yes" ELSE "no"
    [] k.kind = "revoke" -> IF \E i \in With(approvals, k.id) : Unspent(approvals[i])
                            THEN "error" ELSE "no"
    [] OTHER -> "error"

-----------------------------------------------------------------------------
\* A call reaches serializeFileOperation() and chains behind the process's
\* previous operation.  One that is turned away before, for an unsafe path, an
\* argument that cannot be bound or another runtime's consumption, changes nothing.
Enter(o, k) ==
  /\ op[o] = NoOp
  /\ op' = [op EXCEPT ![o] = k]
  /\ queue' = [queue EXCEPT ![k.proc] = Append(@, o)]
  /\ UNCHANGED <<file, lock>>

Queued(kind, p, g, k, d, t) ==
  [pc |-> "queued", kind |-> kind, proc |-> p, id |-> g, key |-> k, digest |-> d, expires |-> t,
   next |-> <<>>, answer |-> "pending"]

CallApprove(o, p, g, k, d, t) == Enter(o, Queued("approve", p, g, k, d, t))
CallById(o, p, kind, g) == Enter(o, Queued(kind, p, g, None, None, None))
CallConsume(o, p, k, d) == Enter(o, Queued("consume", p, None, k, d, None))

First(o) == op[o].pc = "queued" /\ Head(queue[op[o].proc]) = o

Settle(o) == /\ op' = [op EXCEPT ![o] = NoOp]
             /\ queue' = [queue EXCEPT ![op[o].proc] = Tail(@)]

\* Mutation of AcquireLock: an existing directory is no obstacle.
AcquireLockAnyway(o) ==
  /\ First(o)
  /\ lock' = o
  /\ op' = [op EXCEPT ![o].pc = "load"]
  /\ UNCHANGED <<file, queue>>

\* mkdir succeeds only where there is no directory.
AcquireLock(o) ==
  /\ First(o)
  /\ lock = None
  /\ lock' = o
  /\ op' = [op EXCEPT ![o].pc = "load"]
  /\ UNCHANGED <<file, queue>>

\* EEXIST until lockTimeoutMs has passed (STORAGE_LOCKED), or another mkdir error.
GiveUp(o) ==
  /\ First(o)
  /\ Settle(o)
  /\ UNCHANGED <<file, lock>>

\* A file of one's own runtime that passes validation, or none at all.
Loadable(p) == file.runtime \in {None, RuntimeOf[p]} /\ Readable(file.approvals)

Decided(k, approvals, now) ==
  IF Grantable(k, approvals, now)
  THEN [k EXCEPT !.pc = "flush", !.next = Append(approvals, NewRecord(k, now))]
  ELSE IF Chosen(k, approvals, now) = {}
  THEN [k EXCEPT !.pc = "unlock", !.answer = Reply(k, approvals)]
  ELSE LET i == CHOOSE i \in Chosen(k, approvals, now) : TRUE
       IN [k EXCEPT !.pc = "flush", !.id = approvals[i].id,
                    !.next = [approvals EXCEPT ![i] = Marked(k, @, now)]]

\* loadState() and the decision each operation takes on the result.
Load(o, now) ==
  /\ op[o].pc = "load"
  /\ Loadable(op[o].proc)
  /\ op' = [op EXCEPT ![o] = Decided(@, file.approvals, now)]
  /\ UNCHANGED <<file, lock, queue>>

\* flushAtomic(): the temporary file replaces the approvals in one rename.
Flush(o) ==
  /\ op[o].pc = "flush"
  /\ file' = [runtime |-> RuntimeOf[op[o].proc], approvals |-> op[o].next]
  /\ op' = [op EXCEPT ![o].pc = "unlock", ![o].next = <<>>, ![o].answer = "yes"]
  /\ UNCHANGED <<lock, queue>>

\* The file is unreadable, corrupted or another runtime's, or a write or the
\* rename fails: nothing changes on disk.
Fail(o) ==
  /\ op[o].pc \in {"load", "flush"}
  /\ op' = [op EXCEPT ![o].pc = "unlock", ![o].next = <<>>, ![o].answer = "error"]
  /\ UNCHANGED <<file, lock, queue>>

\* rm of the lock directory; its failure is ignored and leaves the directory.
Unlock(o) ==
  /\ op[o].pc = "unlock"
  /\ lock' \in {None, Stale}
  /\ Settle(o)
  /\ UNCHANGED file

\* A process dies: its queue and operations vanish, its lock directory stays.
ProcessDies(p) ==
  /\ op' = [o \in Ops |-> IF op[o].proc = p THEN NoOp ELSE op[o]]
  /\ queue' = [queue EXCEPT ![p] = <<>>]
  /\ lock' = IF lock \in Ops /\ op[lock].proc = p THEN Stale ELSE lock
  /\ UNCHANGED file

\* The operator removes an orphaned directory when no process uses the file.
OperatorReconciles ==
  /\ lock = Stale
  /\ \A o \in Ops : op[o] = NoOp
  /\ lock' = None
  /\ UNCHANGED <<file, queue, op>>

FileOpStep(o) ==
  \/ AcquireLock(o) \/ GiveUp(o)
  \/ \E now \in Instant : Load(o, now)
  \/ Flush(o) \/ Fail(o) \/ Unlock(o)

FileNext ==
  \/ \E o \in Ops, p \in Procs :
       \/ \E g \in Grants, k \in Keys, d \in Digests, t \in Instant : CallApprove(o, p, g, k, d, t)
       \/ \E g \in Grants, kind \in {"revoke", "get"} : CallById(o, p, kind, g)
       \/ \E k \in Keys, d \in Digests : CallConsume(o, p, k, d)
  \/ \E o \in Ops : FileOpStep(o)
  \/ \E p \in Procs : ProcessDies(p)
  \/ OperatorReconciles

FileSpec == FileInit /\ [][FileNext]_fileVars

-----------------------------------------------------------------------------
(* Properties *)

Status(r) == IF r.consumed # None THEN "consumed" ELSE IF r.revoked # None THEN "revoked" ELSE "granted"
GrantIn(f, g) ==
  IF With(f.approvals, g) = {} THEN FreshGrant
  ELSE LET r == f.approvals[CHOOSE i \in With(f.approvals, g) : TRUE] IN
       [status |-> Status(r), key |-> r.key, digest |-> r.digest]

\* To its users the file is one atomic store: nobody who works from approvals
\* he read earlier brings a spent or revoked one back, or drops a new one.
Atomic == INSTANCE ApprovalStore WITH grant <- [g \in Grants |-> GrantIn(file, g)]
ImplementsApprovalStore == Atomic!ApprovalSpec

\* Who is told so has done it himself: of several operations that spend or
\* revoke one approval, in whatever processes, only one hears that it did.
AnswersAreTheirOwn ==
  [][\A o \in Ops : op[o].pc = "flush" /\ op[o].pc' = "unlock" =>
       LET before == GrantIn(file, op[o].id).status
           after == GrantIn(file', op[o].id).status
       IN IF op[o].answer' # "yes" THEN file' = file
          ELSE CASE op[o].kind = "approve" -> before = "fresh" /\ after = "granted"
                 [] op[o].kind = "revoke" -> before = "granted" /\ after = "revoked"
                 [] OTHER -> before = "granted" /\ after = "consumed"]_fileVars

\* Whatever the clocks of the processes show, the store never writes a file that
\* it will itself refuse to read: one such record would end all approvals.
FileStaysReadable == Readable(file.approvals)
=============================================================================
