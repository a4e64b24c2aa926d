-------------------------- MODULE RuntimeAuditLedger --------------------------
(***************************************************************************)
(* JsonlRuntimeAuditLedger: a hash-chained file appended by one process,    *)
(* through one ledger object at a time, and verified before every reopening. *)
(* Between a write and its fsync the process may be killed or the machine    *)
(* may lose power, which cuts the file anywhere after its durable part.      *)
(*                                                                         *)
(* A line is [seq, prev, digest]; the digest, unique to what it covers,      *)
(* stands for event and body.  Only complete lines are in the variable file. *)
(***************************************************************************)
EXTENDS Naturals, Sequences, SequencesExt

CONSTANTS Ledgers,   \* slots for JsonlRuntimeAuditLedger objects of the process
          Digests, None,
          Garbled,   \* a line that does not parse or does not hash to its digest
          MaxLength  \* bound of the model: lines

VARIABLES file,    \* complete lines
          torn,    \* an incomplete line follows them
          durable, \* how many of these (the incomplete one counted) are on the disk
          issued,  \* digests computed so far
          held,    \* the path is in activeLedgerPaths
          ledger,  \* slot -> ledger object
          acked,   \* records append() returned
          anchor,  \* lines of a ledger whose head the operator has noted
          edited   \* somebody else has edited the closed file

vars == <<file, torn, durable, issued, held, ledger, acked, anchor, edited>>

Line == [seq : Nat \ {0}, prev : Digests \union {None}, digest : Digests]

ASSUME LedgerParameters ==
  None \notin Digests /\ Garbled \notin Line /\ MaxLength \in Nat

\* "unsynced": the line is written, the answer of fsync outstanding.  "missed" is
\* history: an event came over the bus while the ledger was attached, and append()
\* did not return a record for it.
Ledger == [st : {"new", "failed", "open", "unsynced", "closed"}, healthy : BOOLEAN,
           count : Nat, head : Digests \union {None}, attached : BOOLEAN, missed : BOOLEAN]
NewLedger == [st |-> "new", healthy |-> TRUE, count |-> 0, head |-> None,
              attached |-> FALSE, missed |-> FALSE]

Written == Len(file) + IF torn THEN 1 ELSE 0

TypeOK ==
  /\ file \in Seq(Line \union {Garbled})
  /\ torn \in BOOLEAN /\ held \in BOOLEAN /\ edited \in BOOLEAN
  /\ durable \in 0 .. Written
  /\ issued \subseteq Digests
  /\ ledger \in [Ledgers -> Ledger]
  /\ acked \subseteq Line
  /\ anchor \in Seq(Line)

Init ==
  /\ file = <<>> /\ anchor = <<>> /\ durable = 0
  /\ torn = FALSE /\ held = FALSE /\ edited = FALSE
  /\ issued = {} /\ acked = {}
  /\ ledger = [l \in Ledgers |-> NewLedger]

-----------------------------------------------------------------------------
HeadOf(lines) == IF lines = <<>> THEN None ELSE Last(lines).digest

\* Mutation of Chained: the links between the lines are not checked.
ChainedBySequence(lines) ==
  Garbled \notin ToSet(lines) /\ \A i \in DOMAIN lines : lines[i].seq = i

\* verifyParsedRuntimeAuditRecord() on every line, the head so far in hand.
Chained(lines) ==
  /\ Garbled \notin ToSet(lines)
  /\ \A i \in DOMAIN lines :
       /\ lines[i].seq = i
       /\ lines[i].prev = HeadOf(SubSeq(lines, 1, i - 1))

\* verifyRuntimeAuditLedger()
Verifies == ~torn /\ Chained(file)

fileVars == <<file, torn, durable>>
Set(l, record) == ledger' = [ledger EXCEPT ![l] = record]

\* Mutation of Open: a reopened ledger starts a chain of its own.
OpenAfresh(l) ==
  /\ ledger[l].st = "new"
  /\ ~held
  /\ Verifies
  /\ Set(l, [NewLedger EXCEPT !.st = "open"])
  /\ held' = TRUE
  /\ UNCHANGED <<fileVars, issued, acked, anchor, edited>>

\* Mutation of Open: nobody looks whether the path is taken.
OpenAlongside(l) ==
  /\ ledger[l].st = "new"
  /\ Verifies
  /\ Set(l, [NewLedger EXCEPT !.st = "open", !.count = Len(file), !.head = HeadOf(file)])
  /\ held' = TRUE
  /\ UNCHANGED <<fileVars, issued, acked, anchor, edited>>

\* The constructor: one ledger per path, and only on a history that verifies.
Open(l) ==
  /\ ledger[l].st = "new"
  /\ ~held
  /\ Verifies
  /\ Set(l, [NewLedger EXCEPT !.st = "open", !.count = Len(file), !.head = HeadOf(file)])
  /\ held' = TRUE
  /\ UNCHANGED <<fileVars, issued, acked, anchor, edited>>

\* The constructor throws; a path it did not take stays taken.
OpenFails(l) ==
  /\ ledger[l].st = "new"
  /\ Set(l, [NewLedger EXCEPT !.st = "failed"])
  /\ UNCHANGED <<fileVars, issued, held, acked, anchor, edited>>

CanAppend(l) == ledger[l].st = "open" /\ ledger[l].healthy

\* append() throws, and marks the ledger.
Failed(l) == [ledger[l] EXCEPT !.st = "open", !.healthy = FALSE, !.missed = @ \/ ledger[l].attached]

\* append() up to its fsync.
Write(l, d) ==
  /\ CanAppend(l)
  /\ Len(file) < MaxLength
  /\ d \in Digests \ issued
  /\ file' = Append(file, [seq |-> ledger[l].count + 1, prev |-> ledger[l].head, digest |-> d])
  /\ issued' = issued \union {d}
  /\ Set(l, [ledger[l] EXCEPT !.st = "unsynced"])
  /\ UNCHANGED <<torn, durable, held, acked, anchor, edited>>

\* The event cannot be recorded, or nothing or only a part of its line is written.
WriteFails(l) ==
  /\ CanAppend(l)
  /\ torn' \in BOOLEAN
  /\ Set(l, Failed(l))
  /\ UNCHANGED <<file, durable, issued, held, acked, anchor, edited>>

\* Mutation of SyncSucceeds: append() returns without waiting for the disk.
ReturnsUnsynced(l) ==
  /\ ledger[l].st = "unsynced"
  /\ Set(l, [ledger[l] EXCEPT !.st = "open", !.count = @ + 1, !.head = Last(file).digest])
  /\ acked' = acked \union {Last(file)}
  /\ UNCHANGED <<fileVars, issued, held, anchor, edited>>

SyncSucceeds(l) ==
  /\ ledger[l].st = "unsynced"
  /\ durable' = Written
  /\ Set(l, [ledger[l] EXCEPT !.st = "open", !.count = @ + 1, !.head = Last(file).digest])
  /\ acked' = acked \union {Last(file)}
  /\ UNCHANGED <<file, torn, issued, held, anchor, edited>>

\* Mutation of SyncFails: the ledger stays usable.
SyncFailureForgotten(l) ==
  /\ ledger[l].st = "unsynced"
  /\ Set(l, [Failed(l) EXCEPT !.healthy = TRUE])
  /\ UNCHANGED <<fileVars, issued, held, acked, anchor, edited>>

SyncFails(l) ==
  /\ ledger[l].st = "unsynced"
  /\ Set(l, Failed(l))
  /\ UNCHANGED <<fileVars, issued, held, acked, anchor, edited>>

\* close(): a last fsync, which may fail, and the path is free again.
Close(l) ==
  /\ ledger[l].st = "open"
  /\ \/ durable' = Written /\ Set(l, [ledger[l] EXCEPT !.st = "closed"])
     \/ UNCHANGED durable /\ Set(l, [ledger[l] EXCEPT !.st = "closed", !.healthy = FALSE])
  /\ held' = FALSE
  /\ UNCHANGED <<file, torn, issued, acked, anchor, edited>>

-----------------------------------------------------------------------------
\* attachRuntimeAuditLedger(): appends from now on are also the bus's events.  A
\* bus without room for all its listeners takes none of them.
Attach(l) ==
  /\ ledger[l].st \in {"open", "closed"}
  /\ Set(l, [ledger[l] EXCEPT !.attached = TRUE])
  /\ UNCHANGED <<fileVars, issued, held, acked, anchor, edited>>

\* Its result is called, or the bus cleared by stop().
Detach(l) ==
  /\ ledger[l].st \in {"open", "closed"} /\ ledger[l].attached
  /\ Set(l, [ledger[l] EXCEPT !.attached = FALSE])
  /\ UNCHANGED <<fileVars, issued, held, acked, anchor, edited>>

\* An event for a ledger that is closed or unhealthy: append() throws at once, and
\* the bus contains it.
Refused(l) ==
  /\ ledger[l].attached
  /\ ledger[l].st \in {"open", "closed"} /\ ~CanAppend(l)
  /\ Set(l, [ledger[l] EXCEPT !.missed = TRUE])
  /\ UNCHANGED <<fileVars, issued, held, acked, anchor, edited>>

-----------------------------------------------------------------------------
\* Nothing of a process survives it, activeLedgerPaths included.
ProcessEnds == ledger' = [l \in Ledgers |-> NewLedger] /\ held' = FALSE

Crash == ProcessEnds /\ UNCHANGED <<fileVars, issued, acked, anchor, edited>>

\* What is not durable is lost from some byte on.
PowerLoss ==
  /\ ProcessEnds
  /\ \E kept \in durable .. Written :
       /\ file' = SubSeq(file, 1, IF kept > Len(file) THEN Len(file) ELSE kept)
       /\ torn' \in IF kept > Len(file) THEN {TRUE} ELSE {FALSE, kept < Written}
       /\ durable' = kept + IF torn' /\ kept <= Len(file) THEN 1 ELSE 0
  /\ UNCHANGED <<issued, acked, anchor, edited>>

\* The operator notes getStatus() of a healthy ledger in a trusted place.
NoteHead(l) ==
  /\ CanAppend(l)
  /\ anchor' = file
  /\ UNCHANGED <<fileVars, issued, held, ledger, acked, edited>>

\* Only between two processes: a closed ledger of a live one never reads the file,
\* and the next one reads it as a new process would.
Edited(lines) ==
  /\ \A l \in Ledgers : ledger[l] = NewLedger
  /\ file' = lines
  /\ edited' = TRUE
  /\ durable' = Len(lines) + IF torn THEN 1 ELSE 0
  /\ UNCHANGED <<torn, held, ledger, acked, anchor>>

\* Somebody edits the closed file: a line goes, is repeated, moved or damaged ...
Tamper ==
  /\ \E i, j \in DOMAIN file :
       \/ Edited(RemoveAt(file, i))
       \/ Edited(ReplaceAt(file, i, Garbled))
       \/ Edited([file EXCEPT ![i] = file[j], ![j] = file[i]])
       \/ Len(file) < MaxLength /\ Edited(InsertAt(file, i, file[j]))
  /\ UNCHANGED issued

\* ... or rewritten together with its digest.
Forge(d) ==
  /\ d \in Digests \ issued
  /\ \E i \in DOMAIN file : file[i] # Garbled /\ Edited(ReplaceAt(file, i, [file[i] EXCEPT !.digest = d]))
  /\ issued' = issued \union {d}

Next ==
  \/ \E l \in Ledgers :
       \/ Open(l) \/ OpenFails(l) \/ WriteFails(l) \/ SyncSucceeds(l) \/ SyncFails(l)
       \/ Close(l) \/ NoteHead(l) \/ Attach(l) \/ Detach(l) \/ Refused(l)
       \/ \E d \in Digests : Write(l, d)
  \/ \E d \in Digests : Forge(d)
  \/ Crash \/ PowerLoss \/ Tamper

Spec == Init /\ [][Next]_vars

-----------------------------------------------------------------------------
(* Properties *)

\* The process never has two descriptors that append to the path.
OneWriter ==
  \A l, m \in Ledgers : {ledger[l].st, ledger[m].st} \subseteq {"open", "unsynced"} => l = m

\* While nobody else touches the file, failed writes, failed fsyncs, restarts
\* and power losses leave a verifiable chain, except for at most one incomplete line at its end.
ChainSurvives == edited \/ Chained(file)

\* A record append() has returned is in the file for good, in its place, unless
\* somebody edits it away.
AcknowledgedSurvive ==
  edited \/ \A r \in acked : r.seq <= Len(file) /\ file[r.seq] = r

\* What a healthy open ledger reports is what verifying the file reports, and no
\* event that came over the bus while it was attached is missing from it: looking
\* at its health is enough to trust the evidence.
StatusIsTrue ==
  \A l \in Ledgers : CanAppend(l) =>
    /\ Verifies
    /\ ledger[l].count = Len(file) /\ ledger[l].head = HeadOf(file)
    /\ ~ledger[l].missed

\* A head noted in a trusted place identifies the whole history before it: no
\* deletion, repetition, reordering, rewriting or truncation verifies to that head.
NotedHeadIdentifiesHistory == Verifies /\ HeadOf(file) = HeadOf(anchor) => file = anchor
=============================================================================
