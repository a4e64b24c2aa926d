------------------------- MODULE JsonFileMemoryStore -------------------------
(***************************************************************************)
(* JsonFileMemoryStore: appends and clears of several processes, each with  *)
(* limits of its own, on one JSON file.  Writers take a place in their      *)
(* process's queue and then the lock directory; readers only the former.    *)
(***************************************************************************)
EXTENDS MemoryEntries

CONSTANTS None,
          Procs,    \* operating-system processes
          LimitsOf, \* process -> [total, perAgent] of its store
          Ops,      \* slots for concurrent operations
          Stale     \* the lock directory outlived its owner

ASSUME FileValues ==
  /\ \A p \in Procs : LimitsOf[p].total \in Nat \ {0} /\ LimitsOf[p].perAgent \in Nat
  /\ Stale \notin Ops /\ None \notin Ops \union Procs \union Entry

VARIABLES file, lock, queue, op,
          history \* every entry in the file since the last clear()

fileVars == <<file, lock, queue, op, history>>

Kinds == {"append", "clear", "read"}
Operation == [pc : {"idle", "queued", "load", "flush", "unlock"}, kind : Kinds,
              proc : Procs \union {None}, entry : Entry \union {None},
              base : Seq(Entry), ok : BOOLEAN]
NoOp == [pc |-> "idle", kind |-> "read", proc |-> None, entry |-> None, base |-> <<>>, ok |-> FALSE]

FileTypeOK ==
  /\ file \in Seq(Entry) /\ history \in Seq(Entry)
  /\ lock \in Ops \union {None, Stale}
  /\ queue \in [Procs -> Seq(Ops)]
  /\ op \in [Ops -> Operation]
  /\ \A o \in Ops : op[o].pc # "idle" => op[o].proc \in Procs

FileInit ==
  /\ file = <<>> /\ history = <<>>
  /\ lock = None
  /\ queue = [p \in Procs |-> <<>>]
  /\ op = [o \in Ops |-> NoOp]

-----------------------------------------------------------------------------
\* append()'s work on the entries it has loaded.

\* How many of n must go to leave room for one more.
Surplus(n, limit) == IF n >= limit THEN n - limit + 1 ELSE 0

\* The oldest places of an agent that has no room for one more.
AgentSurplus(es, a, perAgent) ==
  {i \in PlacesOf(es, a) : Cardinality({j \in PlacesOf(es, a) : j < i})
                             < Surplus(Cardinality(PlacesOf(es, a)), perAgent)}

WithEntry(es, e, limits) ==
  LET left == IF limits.perAgent > 0
              THEN Without(es, AgentSurplus(es, e.agent, limits.perAgent)) ELSE es
  IN Append(SubSeq(left, Surplus(Len(left), limits.total) + 1, Len(left)), e)

-----------------------------------------------------------------------------
IdsInUse == IdsOf(history) \union {e.id : e \in {op[o].entry : o \in Ops} \ {None}}

Submit(o, p, kind, e) ==
  /\ op[o].pc = "idle"
  /\ IF kind = "append" THEN e \in Entry /\ e.id \notin IdsInUse ELSE e = None
  /\ op' = [op EXCEPT ![o] = [NoOp EXCEPT !.pc = "queued", !.kind = kind, !.proc = p, !.entry = e]]
  /\ queue' = [queue EXCEPT ![p] = Append(@, o)]
  /\ UNCHANGED <<file, lock, history>>

First(o) == op[o].pc = "queued" /\ Head(queue[op[o].proc]) = o

Settle(o) == /\ op' = [op EXCEPT ![o] = NoOp]
             /\ queue' = [queue EXCEPT ![op[o].proc] = Tail(@)]

\* size(), listByAgent(), countByAgent(): whatever file is there, or an error.
Read(o) ==
  /\ First(o) /\ op[o].kind = "read"
  /\ Settle(o)
  /\ UNCHANGED <<file, lock, history>>

\* Mutation of AcquireLock: an existing directory is no obstacle.
AcquireLockAnyway(o) ==
  /\ First(o) /\ op[o].kind # "read"
  /\ lock' = o
  /\ op' = [op EXCEPT ![o].pc = IF op[o].kind = "append" THEN "load" ELSE "flush"]
  /\ UNCHANGED <<file, queue, history>>

AcquireLock(o) ==
  /\ First(o) /\ op[o].kind # "read"
  /\ lock = None
  /\ lock' = o
  /\ op' = [op EXCEPT ![o].pc = IF op[o].kind = "append" THEN "load" ELSE "flush"]
  /\ UNCHANGED <<file, queue, history>>

\* STORAGE_LOCKED, or mkdir fails otherwise.
GiveUp(o) ==
  /\ First(o) /\ op[o].kind # "read"
  /\ Settle(o)
  /\ UNCHANGED <<file, lock, history>>

Load(o) ==
  /\ op[o].pc = "load"
  /\ op' = [op EXCEPT ![o].pc = "flush", ![o].base = file]
  /\ UNCHANGED <<file, lock, queue, history>>

\* flushAtomic(): one rename.
Flush(o) ==
  /\ op[o].pc = "flush"
  /\ IF op[o].kind = "append"
     THEN /\ file' = WithEntry(op[o].base, op[o].entry, LimitsOf[op[o].proc])
          /\ history' = Append(history, op[o].entry)
     ELSE file' = <<>> /\ history' = <<>>
  /\ op' = [op EXCEPT ![o].pc = "unlock", ![o].base = <<>>, ![o].ok = TRUE]
  /\ UNCHANGED <<lock, queue>>

\* Mutation of Fail: an error on the way is not reported.
FailSilently(o) ==
  /\ op[o].pc \in {"load", "flush"}
  /\ op' = [op EXCEPT ![o].pc = "unlock", ![o].base = <<>>, ![o].ok = TRUE]
  /\ UNCHANGED <<file, lock, queue, history>>

\* Unreadable or corrupted entries, or a failed write or rename.
Fail(o) ==
  /\ op[o].pc \in {"load", "flush"}
  /\ op' = [op EXCEPT ![o].pc = "unlock", ![o].base = <<>>]
  /\ UNCHANGED <<file, lock, queue, history>>

\* A lock directory that cannot be removed does not fail the operation.
Unlock(o) ==
  /\ op[o].pc = "unlock"
  /\ lock' \in {None, Stale}
  /\ Settle(o)
  /\ UNCHANGED <<file, history>>

Crash(p) ==
  /\ op' = [o \in Ops |-> IF op[o].proc = p THEN NoOp ELSE op[o]]
  /\ queue' = [queue EXCEPT ![p] = <<>>]
  /\ lock' = IF lock \in Ops /\ op[lock].proc = p THEN Stale ELSE lock
  /\ UNCHANGED <<file, history>>

OperatorClearsLock ==
  /\ lock = Stale
  /\ \A o \in Ops : op[o] = NoOp
  /\ lock' = None
  /\ UNCHANGED <<file, queue, op, history>>

FileNext ==
  \/ \E o \in Ops, p \in Procs, kind \in Kinds, e \in Entry \union {None} : Submit(o, p, kind, e)
  \/ \E o \in Ops :
       \/ Read(o) \/ AcquireLock(o) \/ GiveUp(o)
       \/ Load(o) \/ Flush(o) \/ Fail(o) \/ Unlock(o)
  \/ \E p \in Procs : Crash(p)
  \/ OperatorClearsLock

FileSpec == FileInit /\ [][FileNext]_fileVars

-----------------------------------------------------------------------------
(* Properties *)

\* To its users the file is one log, appended and cleared atomically under the
\* limits of whoever appends: no append of another process is overwritten
\* (ImplementsMemoryLog).
FileLog == INSTANCE MemoryLog WITH log <- file, Limits <- {LimitsOf[p] : p \in Procs}

\* An append that rejects has stored nothing, one that resolves has stored its
\* entry: this is what TaskRunner's "outcome unknown" rests on.
AppendsAnswerTruly ==
  \A o \in Ops : op[o].pc = "unlock" /\ op[o].kind = "append" =>
    (op[o].ok <=> op[o].entry \in ToSet(history) /\ Last(file) = op[o].entry)
=============================================================================
