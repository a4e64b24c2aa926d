------------------------- MODULE ToolApprovalsProofs -------------------------
(***************************************************************************)
(* One use per approval, and nothing but the approved payload, for any      *)
(* number of invocations, processes, payload objects and approvals.  What   *)
(* makes both inductive: from the moment the store spends an approval until *)
(* its tool ends, exactly one invocation holds it, its status is spent, and *)
(* from the seal on the object it refers to is frozen.                      *)
(*                                                                         *)
(* The second part is about the file-backed store, for any processes,       *)
(* operations, grants and clocks: its file is always one it will read       *)
(* again, and it implements the atomic ApprovalStore.  An operation that    *)
(* has decided and not yet renamed its temporary file still works from what *)
(* is on disk (Pending), since the lock directory is its own (Mutex);       *)
(* queues need not be looked at.                                            *)
(***************************************************************************)
EXTENDS ToolApprovals, JsonFileToolApprovalStore, SequenceTheorems, TLAPS

Spent(g) == grant[g].status \in {"consumed", "lost"}

\* An invocation holds an approval exactly between the store's answer and its end.
Holding == \A x \in Slots :
  /\ inv[x].pc \in {"answered", "allowed", "tool"} => inv[x].by \in Grants
  /\ inv[x].pc \notin {"answered", "allowed", "tool"} => inv[x].by = None
  /\ inv[x].by # None => Spent(inv[x].by) /\ grant[inv[x].by].key = inv[x].key

HoldsAlone == \A x, y \in Slots : inv[x].by = inv[y].by /\ inv[x].by # None => x = y

Counted == \A g \in Grants :
  /\ uses[g] <= 1
  /\ uses[g] > 0 => Spent(g) /\ \A x \in Slots : inv[x].by = g => inv[x].pc = "tool"

Sealed == \A x \in Slots : inv[x].pc \in {"allowed", "tool"} =>
  inv[x].obj \in frozen /\ Seen(x) = grant[inv[x].by].digest

HInv == TypeOK /\ Holding /\ HoldsAlone /\ Counted /\ Sealed

LEMMA HInit == Init => HInv
  BY ApprovalValues DEF Init, ApprovalInit, FreshGrant, HInv, TypeOK, Holding, HoldsAlone, Counted, Sealed, Grant, Statuses,
     Invocation, NoInvocation, Pcs

LEMMA ApproveKeeps ==
  ASSUME HInv, NEW g \in Grants, NEW k \in Keys, NEW d \in Digests, Approve(g, k, d)
  PROVE  HInv'
<1> USE DEF HInv
<1>1. TypeOK'
  BY DEF Approve, ApproveAs, Granted, TypeOK, Grant, Statuses
<1>2. \A x \in Slots : inv[x].by # g
  BY ApprovalValues DEF Approve, ApproveAs, FreshGrant, Holding, Spent, TypeOK
<1>3. \A h \in Grants \ {g} : grant'[h] = grant[h]
  BY DEF Approve, ApproveAs, TypeOK
<1>4. Holding' /\ HoldsAlone' /\ Counted' /\ Sealed'
  BY <1>2, <1>3, ApprovalValues DEF Approve, ApproveAs, Granted, FreshGrant, Holding, HoldsAlone, Counted, Sealed, Spent, Seen, TypeOK
<1>. QED BY <1>1, <1>4

LEMMA RevokeKeeps ==
  ASSUME HInv, NEW g \in Grants, Revoke(g)
  PROVE  HInv'
<1> USE DEF HInv
<1>1. TypeOK'
  BY DEF Revoke, RevokeGrant, TypeOK, Grant, Statuses
<1>2. \A x \in Slots : inv[x].by # g
  BY ApprovalValues DEF Revoke, RevokeGrant, Holding, Spent, TypeOK
<1>3. \A h \in Grants \ {g} : grant'[h] = grant[h]
  BY DEF Revoke, RevokeGrant, TypeOK
<1>4. Holding' /\ HoldsAlone' /\ Counted' /\ Sealed'
  BY <1>2, <1>3, ApprovalValues DEF Revoke, RevokeGrant, Holding, HoldsAlone, Counted, Sealed, Spent, Seen, TypeOK
<1>. QED BY <1>1, <1>4

\* Callers change only what is not sealed.
LEMMA PayloadKeeps ==
  ASSUME HInv, NEW o \in Objects, NEW d \in Digests \union {Unsupported},
         Mutate(o, d) \/ Replace(o, d)
  PROVE  HInv'
<1> USE DEF HInv
<1>1. TypeOK'
  BY DEF Mutate, Replace, TypeOK
<1>2. Holding' /\ HoldsAlone' /\ Counted'
  BY DEF Mutate, Replace, Holding, HoldsAlone, Counted, Spent
<1>3. Sealed'
  BY DEF Mutate, Replace, Sealed, Seen, TypeOK
<1>. QED BY <1>1, <1>2, <1>3

\* A slot that holds no approval afterwards.
LEMMA LooseSlot ==
  ASSUME HInv, NEW x \in Slots, NEW k \in Invocation, k.by = None,
         k.pc \in {"idle", "base", "consume", "decide"},
         k.pc # "idle" => k.key \in Keys /\ k.obj \in Objects,
         inv' = [inv EXCEPT ![x] = k], UNCHANGED <<grant, content, frozen, uses>>
  PROVE  HInv'
<1> USE DEF HInv
<1>1. inv'[x] = k /\ \A y \in Slots \ {x} : inv'[y] = inv[y]
  BY DEF TypeOK
<1>2. TypeOK'
  BY <1>1 DEF TypeOK
<1>3. Holding' /\ HoldsAlone' /\ Counted' /\ Sealed'
  BY <1>1, ApprovalValues DEF Holding, HoldsAlone, Counted, Sealed, Spent, Seen
<1>. QED BY <1>2, <1>3

LEMMA LooseKeeps ==
  ASSUME HInv, NEW x \in Slots,
         \/ \E k \in Keys, o \in Objects : Submit(x, k, o)
         \/ Leave(x) \/ BaseAllows(x) \/ StoreDigests(x)
  PROVE  HInv'
<1> USE DEF HInv
<1>1. CASE \E k \in Keys, o \in Objects : Submit(x, k, o)
  <2> PICK k \in Keys, o \in Objects : Submit(x, k, o)
    BY <1>1
  <2> DEFINE n == [NoInvocation EXCEPT !.pc = "base", !.key = k, !.obj = o]
  <2>1. n \in Invocation /\ n.by = None /\ n.pc = "base" /\ n.key \in Keys /\ n.obj \in Objects
    BY DEF NoInvocation, Invocation, Pcs
  <2>2. inv' = [inv EXCEPT ![x] = n] /\ UNCHANGED <<grant, content, frozen, uses>>
    BY DEF Submit
  <2> HIDE DEF n
  <2>. QED BY <2>1, <2>2, LooseSlot
<1>2. CASE Leave(x)
  <2>1. NoInvocation \in Invocation /\ NoInvocation.by = None /\ NoInvocation.pc = "idle"
    BY DEF NoInvocation, Invocation, Pcs
  <2>. QED BY <1>2, <2>1, LooseSlot DEF Leave
<1>3. CASE BaseAllows(x) \/ StoreDigests(x)
  <2>1. inv[x] \in Invocation /\ inv[x].by = None /\ inv[x].key \in Keys /\ inv[x].obj \in Objects
    BY <1>3 DEF BaseAllows, StoreDigests, TypeOK, Holding
  <2>2. inv'[x] \in Invocation /\ inv'[x].by = None /\ inv'[x].pc \in {"consume", "decide"}
        /\ inv'[x].key \in Keys /\ inv'[x].obj \in Objects
    BY <1>3, <2>1 DEF BaseAllows, StoreDigests, TypeOK, Invocation, Pcs
  <2>3. inv' = [inv EXCEPT ![x] = inv'[x]] /\ UNCHANGED <<grant, content, frozen, uses>>
    BY <1>3 DEF BaseAllows, StoreDigests, TypeOK
  <2>. QED BY <2>2, <2>3, LooseSlot
<1>. QED BY <1>1, <1>2, <1>3

\* The store hands an approval nobody holds to one invocation.
LEMMA ConsumeKeeps ==
  ASSUME HInv, NEW x \in Slots, NEW g \in Grants, StoreConsumes(x, g)
  PROVE  HInv'
<1> USE DEF HInv
<1>1. /\ grant[g].status = "granted" /\ grant[g].key = inv[x].key
      /\ inv[x].pc = "decide" /\ inv[x].by = None
  BY DEF StoreConsumes, ConsumeGrant, Granted, Holding
<1>2. /\ grant'[g].status = "consumed" /\ grant'[g].key = inv[x].key /\ grant' \in [Grants -> Grant]
      /\ \A h \in Grants : grant'[h].digest = grant[h].digest /\ grant'[h].key = grant[h].key
      /\ \A h \in Grants \ {g} : grant'[h] = grant[h]
  BY <1>1 DEF StoreConsumes, ConsumeGrant, TypeOK, Grant, Statuses
<1>3. /\ inv'[x].pc = "answered" /\ inv'[x].by = g /\ inv'[x].key = inv[x].key
      /\ inv'[x].obj = inv[x].obj /\ inv' \in [Slots -> Invocation]
      /\ \A y \in Slots \ {x} : inv'[y] = inv[y]
  <2> DEFINE n == [inv[x] EXCEPT !.pc = "answered", !.by = g]
  <2>1. inv \in [Slots -> Invocation] /\ inv[x] \in Invocation
    BY DEF TypeOK
  <2>2. n \in Invocation /\ n.pc = "answered" /\ n.by = g /\ n.key = inv[x].key /\ n.obj = inv[x].obj
    BY <2>1 DEF Invocation, Pcs
  <2>3. inv' = [inv EXCEPT ![x] = n]
    BY <2>1 DEF StoreConsumes, Invocation
  <2> HIDE DEF n
  <2>. QED BY <2>1, <2>2, <2>3
<1>4. \A y \in Slots : inv[y].by # g
  BY <1>1, ApprovalValues DEF Holding, Spent
<1>5. uses[g] = 0 /\ uses' = uses /\ content' = content /\ frozen' = frozen
  BY <1>1 DEF StoreConsumes, Counted, Spent, TypeOK
<1>6. TypeOK'
  BY <1>1, <1>2, <1>3, <1>5 DEF TypeOK
<1>7. Holding' /\ HoldsAlone'
  BY <1>1, <1>2, <1>3, <1>4, ApprovalValues DEF Holding, HoldsAlone, Spent
<1>8. Counted'
  BY <1>2, <1>3, <1>4, <1>5 DEF Counted, Spent
<1>9. Sealed'
  BY <1>2, <1>3, <1>5 DEF Sealed, Seen, Holding
<1>. QED BY <1>6, <1>7, <1>8, <1>9

LEMMA SealKeeps ==
  ASSUME HInv, NEW x \in Slots, PolicySeals(x) \/ ToolStarts(x)
  PROVE  HInv'
<1> USE DEF HInv
<1>1. /\ inv'[x].pc \in {"allowed", "tool"} /\ inv'[x].by = inv[x].by /\ inv'[x].key = inv[x].key
      /\ inv'[x].obj = inv[x].obj /\ inv' \in [Slots -> Invocation]
      /\ \A y \in Slots \ {x} : inv'[y] = inv[y]
  BY DEF PolicySeals, ToolStarts, TypeOK, Invocation, Pcs
<1>2. inv[x].pc \in {"answered", "allowed"} /\ inv[x].by \in Grants
  BY DEF PolicySeals, ToolStarts, Holding
<1>3. grant' = grant /\ content' = content
  BY DEF PolicySeals, ToolStarts
<1>4. frozen' \subseteq Objects /\ frozen \subseteq frozen' /\ inv[x].obj \in frozen'
      /\ Seen(x) = grant[inv[x].by].digest
  BY DEF PolicySeals, ToolStarts, TypeOK, Sealed, Unchanged
<1>5. Counted'
  <2>1. CASE PolicySeals(x)
    <3>1. uses[inv[x].by] = 0
      BY <1>2, <2>1 DEF Counted, PolicySeals, TypeOK
    <3>. QED BY <1>1, <1>2, <1>3, <2>1, <3>1 DEF Counted, Spent, PolicySeals
  <2>2. CASE ToolStarts(x)
    <3>1. uses[inv[x].by] = 0
      BY <1>2, <2>2 DEF Counted, ToolStarts, TypeOK
    <3>2. uses'[inv[x].by] = 1 /\ \A h \in Grants \ {inv[x].by} : uses'[h] = uses[h]
      BY <1>2, <2>2, <3>1 DEF ToolStarts, TypeOK
    <3>3. Spent(inv[x].by) /\ \A y \in Slots : inv[y].by = inv[x].by => y = x
      BY <1>2, ApprovalValues DEF Holding, HoldsAlone
    <3>4. inv'[x].pc = "tool"
      BY <2>2 DEF ToolStarts, TypeOK
    <3>. QED BY <1>1, <1>3, <3>2, <3>3, <3>4 DEF Counted, Spent
  <2>. QED BY <2>1, <2>2
<1>6. TypeOK'
  BY <1>1, <1>2, <1>3, <1>4 DEF TypeOK, PolicySeals, ToolStarts
<1>7. Holding' /\ HoldsAlone'
  BY <1>1, <1>2, <1>3, ApprovalValues DEF Holding, HoldsAlone, Spent
<1>8. Sealed'
  BY <1>1, <1>3, <1>4 DEF Sealed, Seen
<1>. QED BY <1>5, <1>6, <1>7, <1>8

LEMMA ProcessCrashKeeps ==
  ASSUME HInv, NEW S \in SUBSET Slots, Crash(S)
  PROVE  HInv'
<1> USE DEF HInv
<1>1. \A y \in Slots : inv'[y] = NoInvocation \/ (y \notin S /\ inv'[y] = inv[y])
  BY DEF Crash
<1>2. \A g \in Grants :
        /\ grant'[g] \in Grant
        /\ grant'[g].digest = grant[g].digest /\ grant'[g].key = grant[g].key
        /\ Spent(g) => Spent(g)'
  <2>1. CASE Durable
    BY <2>1 DEF Crash, TypeOK, Spent
  <2>2. CASE ~Durable
    BY <2>2 DEF Crash, LoseGrants, FreshGrant, TypeOK, Spent, Grant, Statuses
  <2>. QED BY <2>1, <2>2 DEF TypeOK
<1>3. TypeOK'
  <2>1. inv' \in [Slots -> Invocation]
    BY DEF Crash, TypeOK, NoInvocation, Invocation, Pcs
  <2>2. grant' \in [Grants -> Grant]
    <3>1. CASE Durable
      BY <3>1 DEF Crash, TypeOK
    <3>2. CASE ~Durable
      BY <3>2 DEF Crash, LoseGrants, TypeOK, Grant, Statuses
    <3>. QED BY <3>1, <3>2
  <2>. QED BY <1>1, <2>1, <2>2 DEF Crash, TypeOK, NoInvocation
<1>4. Holding' /\ HoldsAlone'
  BY <1>1, <1>2 DEF Holding, HoldsAlone, NoInvocation
<1>5. Counted' /\ Sealed'
  BY <1>1, <1>2, ApprovalValues DEF Counted, Sealed, Seen, NoInvocation, Crash, Holding
<1>. QED BY <1>3, <1>4, <1>5

LEMMA HStep == HInv /\ [Next]_vars => HInv'
<1> SUFFICES ASSUME HInv, [Next]_vars PROVE HInv'
  OBVIOUS
<1>1. CASE UNCHANGED vars
  BY <1>1 DEF HInv, vars, TypeOK, Holding, HoldsAlone, Counted, Sealed, Spent, Seen
<1>2. ASSUME NEW g \in Grants, Revoke(g) PROVE HInv'
  BY <1>2, RevokeKeeps
<1>3. ASSUME NEW x \in Slots, Invoking(x) PROVE HInv'
  BY <1>3, LooseKeeps, ConsumeKeeps, SealKeeps DEF Invoking
<1>. QED BY <1>1, <1>2, <1>3, ApproveKeeps, PayloadKeeps, LooseKeeps, ProcessCrashKeeps DEF Next

\* An approval is good for one tool invocation, in whatever process.
THEOREM ApprovalsAreSingleUse == Spec => []OneUse
<1>1. HInv => OneUse
  BY DEF HInv, Counted, OneUse
<1>. QED BY <1>1, HInit, HStep, PTL DEF Spec

\* Protected tools run on exactly what was approved.
THEOREM ApprovedPayloadRuns == Spec => []RunsWhatWasApproved
<1>1. HInv => RunsWhatWasApproved
  BY ApprovalValues DEF HInv, Sealed, Holding, RunsWhatWasApproved
<1>. QED BY <1>1, HInit, HStep, PTL DEF Spec

\* A revocation that succeeded can no longer be overtaken.
THEOREM RevocationHolds == Spec => []RevokedStaysUnused
<1>1. HInv => RevokedStaysUnused
  BY ApprovalValues DEF HInv, TypeOK, Counted, Holding, Spent, RevokedStaysUnused
<1>. QED BY <1>1, HInit, HStep, PTL DEF Spec

\* What an invocation brings to the store was taken from a key and a digest.
Asking == \A x \in Slots : inv[x].pc = "decide" => inv[x].bound \in Digests

\* A policy over a durable store, its callers and the people who approve do
\* nothing to the store but its own operations, crashes included.
THEOREM PoliciesUseTheStore == ASSUME Durable PROVE Spec => ApprovalSpec
<1>1. Init => ApprovalInit /\ Asking
  BY DEF Init, NoInvocation, Asking
<1>2. HInv /\ Asking /\ [Next]_vars => Asking'
  <2> SUFFICES ASSUME TypeOK, Asking, [Next]_vars PROVE Asking'
    BY DEF HInv
  <2>1. \A x \in Slots : inv'[x].pc = "decide" => inv'[x].bound \in Digests
    <3>1. CASE \E y \in Slots : StoreDigests(y)
      BY <3>1 DEF StoreDigests, TypeOK, Invocation, Asking
    <3>2. CASE \E y \in Slots : \E g \in Grants : StoreConsumes(y, g)
      BY <3>2 DEF StoreConsumes, TypeOK, Invocation, Asking
    <3>3. CASE \E y \in Slots : BaseAllows(y) \/ PolicySeals(y) \/ ToolStarts(y) \/ Leave(y)
      BY <3>3 DEF BaseAllows, PolicySeals, ToolStarts, Leave, NoInvocation, TypeOK, Invocation, Asking
    <3>4. CASE \E y \in Slots, k \in Keys, o \in Objects : Submit(y, k, o)
      BY <3>4 DEF Submit, NoInvocation, TypeOK, Invocation, Asking
    <3>5. CASE \E S \in (SUBSET Slots) \ {{}} : Crash(S)
      BY <3>5 DEF Crash, NoInvocation, Asking
    <3>6. CASE UNCHANGED inv
      BY <3>6 DEF Asking
    <3> QED
      BY <3>1, <3>2, <3>3, <3>4, <3>5, <3>6
      DEF Next, Invoking, Revoke, Approve, Mutate, Replace, vars
  <2>. QED BY <2>1 DEF Asking
<1>3. HInv /\ Asking /\ [Next]_vars => [ApprovalNext]_grant
  <2> SUFFICES ASSUME TypeOK, Asking, Next PROVE ApprovalNext \/ UNCHANGED grant
    BY DEF HInv, vars
  <2>1. CASE \E x \in Slots : \E g \in Grants : StoreConsumes(x, g)
    <3>1. PICK x \in Slots, g \in Grants : StoreConsumes(x, g)
      BY <2>1
    <3>2. inv[x].key \in Keys /\ inv[x].bound \in Digests
      BY <3>1 DEF StoreConsumes, TypeOK, Asking
    <3>. QED BY <3>1, <3>2 DEF StoreConsumes, ApprovalNext
  <2>. QED BY <2>1 DEF Next, Invoking, Revoke, Approve, Mutate, Replace, Submit, Leave, BaseAllows,
                       StoreDigests, PolicySeals, ToolStarts, Crash, ApprovalNext
<1>. QED BY <1>1, <1>2, <1>3, HInit, HStep, PTL DEF Spec, ApprovalSpec
-----------------------------------------------------------------------------
(* JsonFileToolApprovalStore *)

Critical(o) == op[o].pc \in {"load", "flush", "unlock"}

Mutex == \A o \in Ops : Critical(o) => lock = o

\* What flush is about to write: one more approval, or the end of one.
Granting(k, a) ==
  /\ k.kind = "approve" /\ With(a, k.id) = {}
  /\ \E now \in Times : /\ k.next = Append(a, NewRecord(k, now))
                        /\ k.expires # None => now < k.expires
Ending(k, a) ==
  /\ k.kind \in {"consume", "revoke"}
  /\ \E i \in DOMAIN a, now \in Times :
       /\ a[i].id = k.id /\ Unspent(a[i])
       /\ a[i].granted <= now
       /\ k.kind = "consume" /\ a[i].expires # None => now < a[i].expires
       /\ k.next = [a EXCEPT ![i] = Marked(k, a[i], now)]

Pending ==
  \A o \in Ops : op[o].pc = "flush" =>
    Granting(op[o], file.approvals) \/ Ending(op[o], file.approvals)

\* An approval that is being granted has all its parts.
Bound(k) == k.pc # "idle" /\ k.kind = "approve" => k.id \in Grants /\ k.key \in Keys /\ k.digest \in Digests

Types ==
  /\ file \in [runtime : Runtimes \union {None}, approvals : Seq(Record)]
  /\ op \in [Ops -> Operation]
  /\ \A o \in Ops : (op[o].pc # "idle" => op[o].proc \in Procs) /\ Bound(op[o])

FInv == Types /\ Mutex /\ Pending /\ FileStaysReadable

-----------------------------------------------------------------------------
\* What is written.

LEMMA NewRecordIsValid ==
  ASSUME NEW k \in Operation, k.id \in Grants, k.key \in Keys, k.digest \in Digests,
         NEW now \in Times, k.expires # None => now < k.expires
  PROVE  NewRecord(k, now) \in Record /\ ValidRecord(NewRecord(k, now))
  BY FileStoreValues DEF NewRecord, Record, ValidRecord, Instant, Operation

LEMMA MarkedIsValid ==
  ASSUME NEW k, NEW r \in Record, ValidRecord(r), Unspent(r), NEW now \in Times, r.granted <= now,
         k.kind = "consume" /\ r.expires # None => now < r.expires
  PROVE  /\ Marked(k, r, now) \in Record /\ ValidRecord(Marked(k, r, now))
         /\ Marked(k, r, now).id = r.id
         /\ Marked(k, r, now).key = r.key /\ Marked(k, r, now).digest = r.digest
         /\ Status(Marked(k, r, now)) = IF k.kind = "consume" THEN "consumed" ELSE "revoked"
<1>1. now # None
  BY FileStoreValues
<1>2. CASE k.kind = "consume"
  BY <1>1, <1>2, FileStoreValues DEF Marked, Record, ValidRecord, Instant, Unspent, Status
<1>3. CASE k.kind # "consume"
  BY <1>1, <1>3, FileStoreValues DEF Marked, Record, ValidRecord, Instant, Unspent, Status
<1>. QED BY <1>2, <1>3

LEMMA AppendKeepsReadable ==
  ASSUME NEW a \in Seq(Record), Readable(a), NEW r \in Record, ValidRecord(r), With(a, r.id) = {}
  PROVE  /\ Append(a, r) \in Seq(Record) /\ Readable(Append(a, r))
         /\ With(Append(a, r), r.id) = {Len(a) + 1}
         /\ \A g \in Grants \ {r.id} : With(Append(a, r), g) = With(a, g)
<1> DEFINE b == Append(a, r)
<1>1. /\ b \in Seq(Record) /\ Len(b) = Len(a) + 1 /\ b[Len(a) + 1] = r
      /\ \A i \in 1 .. Len(a) : b[i] = a[i]
  BY AppendProperties
<1>2. DOMAIN a = 1 .. Len(a) /\ DOMAIN b = 1 .. Len(a) + 1 /\ Len(a) \in Nat
  BY <1>1
<1> HIDE DEF b
<1>3. ASSUME NEW i \in DOMAIN b PROVE (i \in DOMAIN a /\ b[i] = a[i]) \/ (i = Len(a) + 1 /\ b[i] = r)
  <2>1. i \in 1 .. Len(a) \/ i = Len(a) + 1
    BY <1>2
  <2>2. CASE i \in 1 .. Len(a)
    <3>1. b[i] = a[i]
      BY <1>1, <2>2
    <3>2. i \in DOMAIN a
      BY <1>2, <2>2
    <3>. QED BY <3>1, <3>2
  <2>3. CASE i = Len(a) + 1
    BY <1>1, <2>3
  <2>. QED BY <2>1, <2>2, <2>3
<1>4. \A i \in DOMAIN a : a[i].id # r.id
  BY DEF With
<1>5. Readable(b)
  BY <1>3, <1>4 DEF Readable
<1>6. With(b, r.id) = {Len(a) + 1}
  BY <1>1, <1>2, <1>3, <1>4 DEF With
<1>7. ASSUME NEW g \in Grants \ {r.id} PROVE With(b, g) = With(a, g)
  BY <1>1, <1>2, <1>3 DEF With
<1>. QED BY <1>1, <1>5, <1>6, <1>7 DEF b

LEMMA ReplaceKeepsReadable ==
  ASSUME NEW a \in Seq(Record), Readable(a), NEW i \in DOMAIN a,
         NEW r \in Record, ValidRecord(r), r.id = a[i].id
  PROVE  /\ [a EXCEPT ![i] = r] \in Seq(Record) /\ Readable([a EXCEPT ![i] = r])
         /\ \A g \in Grants : With([a EXCEPT ![i] = r], g) = With(a, g)
<1> DEFINE b == [a EXCEPT ![i] = r]
<1>1. /\ b \in Seq(Record) /\ DOMAIN b = DOMAIN a /\ b[i] = r
      /\ \A j \in DOMAIN a \ {i} : b[j] = a[j]
  OBVIOUS
<1> HIDE DEF b
<1>2. Readable(b)
  BY <1>1 DEF Readable
<1>3. ASSUME NEW g \in Grants PROVE With(b, g) = With(a, g)
  BY <1>1 DEF With
<1>. QED BY <1>1, <1>2, <1>3 DEF b

\* An ID that is in use is used once, so its grant is that of any of its records.
LEMMA GrantOfRecord ==
  ASSUME NEW f, NEW i \in DOMAIN f.approvals, Readable(f.approvals)
  PROVE  GrantIn(f, f.approvals[i].id) =
           [status |-> Status(f.approvals[i]), key |-> f.approvals[i].key, digest |-> f.approvals[i].digest]
<1> DEFINE S == With(f.approvals, f.approvals[i].id)
<1>1. S = {i}
  BY DEF With, Readable
<1>2. (CHOOSE j \in S : TRUE) = i
  BY <1>1
<1>. QED BY <1>1, <1>2 DEF GrantIn

\* The grants after an approval and after its end: no other grant has changed.
LEMMA GrantingStep ==
  ASSUME NEW f, NEW k \in Operation, f.approvals \in Seq(Record), Readable(f.approvals),
         k.id \in Grants, k.key \in Keys, k.digest \in Digests, Granting(k, f.approvals)
  PROVE  /\ k.next \in Seq(Record) /\ Readable(k.next)
         /\ GrantIn(f, k.id) = FreshGrant
         /\ \A h : h.approvals = k.next =>
              /\ GrantIn(h, k.id) = Granted(k.key, k.digest)
              /\ \A g \in Grants \ {k.id} : GrantIn(h, g) = GrantIn(f, g)
<1> DEFINE a == f.approvals
<1>1. PICK now \in Times : k.next = Append(a, NewRecord(k, now)) /\ (k.expires # None => now < k.expires)
  BY DEF Granting
<1> DEFINE r == NewRecord(k, now)
<1>2. r \in Record /\ ValidRecord(r)
  BY <1>1, NewRecordIsValid
<1>3. r.id = k.id /\ r.key = k.key /\ r.digest = k.digest /\ Status(r) = "granted"
  BY DEF NewRecord, Status
<1> HIDE DEF r
<1> HIDE DEF a
<1>4. /\ k.next = Append(a, r) /\ k.next \in Seq(Record) /\ Readable(k.next)
      /\ With(k.next, k.id) = {Len(a) + 1}
      /\ \A g \in Grants \ {k.id} : With(k.next, g) = With(a, g)
  <2>1. k.next = Append(a, r) /\ With(a, r.id) = {} /\ a \in Seq(Record) /\ Readable(a)
    BY <1>1, <1>3 DEF Granting, r, a
  <2>2. /\ Append(a, r) \in Seq(Record) /\ Readable(Append(a, r))
        /\ With(Append(a, r), r.id) = {Len(a) + 1}
        /\ \A g \in Grants \ {r.id} : With(Append(a, r), g) = With(a, g)
    BY <1>2, <2>1, AppendKeepsReadable
  <2>. QED BY <1>3, <2>1, <2>2
<1>5. Len(a) + 1 \in DOMAIN k.next /\ k.next[Len(a) + 1] = r /\ \A i \in DOMAIN a : k.next[i] = a[i]
  BY <1>2, <1>4, AppendProperties
<1>6. GrantIn(f, k.id) = FreshGrant
  BY DEF Granting, GrantIn, a
<1>7. ASSUME NEW h, h.approvals = k.next
      PROVE  /\ GrantIn(h, k.id) = Granted(k.key, k.digest)
             /\ \A g \in Grants \ {k.id} : GrantIn(h, g) = GrantIn(f, g)
  <2>1. GrantIn(h, k.id) = Granted(k.key, k.digest)
    <3>1. h.approvals[Len(a) + 1] = r /\ Len(a) + 1 \in DOMAIN h.approvals /\ Readable(h.approvals)
      BY <1>4, <1>5, <1>7
    <3>2. GrantIn(h, r.id) = [status |-> Status(r), key |-> r.key, digest |-> r.digest]
      BY <3>1, GrantOfRecord
    <3>. QED BY <1>3, <3>2 DEF Granted
  <2>2. ASSUME NEW g \in Grants \ {k.id} PROVE GrantIn(h, g) = GrantIn(f, g)
    <3>1. CASE With(a, g) = {}
      BY <1>4, <1>7, <3>1 DEF GrantIn, a
    <3>2. ASSUME NEW i \in With(a, g) PROVE GrantIn(h, g) = GrantIn(f, g)
      <4>1. i \in DOMAIN a /\ a[i].id = g /\ i \in With(k.next, g)
        BY <1>4, <3>2 DEF With
      <4>2. i \in DOMAIN k.next /\ k.next[i] = a[i]
        BY <1>5, <4>1 DEF With
      <4>3. GrantIn(f, f.approvals[i].id) = GrantIn(h, h.approvals[i].id)
        BY <1>4, <1>7, <4>1, <4>2, GrantOfRecord DEF a
      <4>. QED BY <1>7, <4>1, <4>2, <4>3 DEF a
    <3>. QED BY <3>1, <3>2
  <2>. QED BY <2>1, <2>2
<1>. QED BY <1>4, <1>6, <1>7

LEMMA EndingStep ==
  ASSUME NEW f, NEW k \in Operation, f.approvals \in Seq(Record), Readable(f.approvals),
         Ending(k, f.approvals)
  PROVE  /\ k.next \in Seq(Record) /\ Readable(k.next) /\ k.id \in Grants
         /\ \E key \in Keys, d \in Digests :
              /\ GrantIn(f, k.id) = Granted(key, d)
              /\ \A h : h.approvals = k.next =>
                   /\ GrantIn(h, k.id) = [status |-> IF k.kind = "consume" THEN "consumed" ELSE "revoked",
                                          key |-> key, digest |-> d]
                   /\ \A g \in Grants \ {k.id} : GrantIn(h, g) = GrantIn(f, g)
<1> DEFINE a == f.approvals
<1>1. PICK i \in DOMAIN a, now \in Times :
        /\ a[i].id = k.id /\ Unspent(a[i])
        /\ a[i].granted <= now
        /\ k.kind = "consume" /\ a[i].expires # None => now < a[i].expires
        /\ k.next = [a EXCEPT ![i] = Marked(k, a[i], now)]
  BY DEF Ending
<1>2. a[i] \in Record /\ ValidRecord(a[i])
  BY <1>1 DEF Readable
<1> DEFINE r == Marked(k, a[i], now)
<1>3. /\ r \in Record /\ ValidRecord(r) /\ r.id = k.id /\ r.key = a[i].key /\ r.digest = a[i].digest
      /\ Status(r) = IF k.kind = "consume" THEN "consumed" ELSE "revoked"
  BY <1>1, <1>2, MarkedIsValid
<1>4. Status(a[i]) = "granted" /\ a[i].key \in Keys /\ a[i].digest \in Digests /\ a[i].id \in Grants
  BY <1>1, <1>2 DEF Status, Unspent, Record
<1> HIDE DEF r
<1>5. /\ k.next = [a EXCEPT ![i] = r] /\ k.next \in Seq(Record) /\ Readable(k.next)
      /\ \A g \in Grants : With(k.next, g) = With(a, g)
  BY <1>1, <1>2, <1>3, ReplaceKeepsReadable DEF r
<1>6. DOMAIN k.next = DOMAIN a /\ k.next[i] = r /\ \A j \in DOMAIN a \ {i} : k.next[j] = a[j]
  BY <1>1, <1>5
<1>7. GrantIn(f, k.id) = Granted(a[i].key, a[i].digest)
  BY <1>1, <1>4, GrantOfRecord DEF Granted
<1>8. ASSUME NEW h, h.approvals = k.next
      PROVE  /\ GrantIn(h, k.id) = [status |-> IF k.kind = "consume" THEN "consumed" ELSE "revoked",
                                    key |-> a[i].key, digest |-> a[i].digest]
             /\ \A g \in Grants \ {k.id} : GrantIn(h, g) = GrantIn(f, g)
  <2>1. GrantIn(h, h.approvals[i].id) = [status |-> Status(r), key |-> r.key, digest |-> r.digest]
    BY <1>5, <1>6, <1>8, GrantOfRecord
  <2>2. ASSUME NEW g \in Grants \ {k.id} PROVE GrantIn(h, g) = GrantIn(f, g)
    <3>1. CASE With(a, g) = {}
      BY <1>5, <1>8, <3>1 DEF GrantIn
    <3>2. ASSUME NEW j \in With(a, g) PROVE GrantIn(h, g) = GrantIn(f, g)
      <4>1. j \in DOMAIN a /\ a[j].id = g /\ j # i
        BY <1>1, <3>2 DEF With
      <4>2. j \in DOMAIN k.next /\ k.next[j] = a[j]
        BY <1>6, <4>1
      <4>3. GrantIn(f, g) = [status |-> Status(a[j]), key |-> a[j].key, digest |-> a[j].digest]
        BY <4>1, GrantOfRecord
      <4>4. GrantIn(h, g) = [status |-> Status(a[j]), key |-> a[j].key, digest |-> a[j].digest]
        <5>1. j \in DOMAIN h.approvals /\ Readable(h.approvals) /\ h.approvals[j] = a[j]
          BY <1>5, <1>8, <4>2
        <5>2. GrantIn(h, h.approvals[j].id) =
                [status |-> Status(h.approvals[j]), key |-> h.approvals[j].key, digest |-> h.approvals[j].digest]
          BY <5>1, GrantOfRecord
        <5>. QED BY <4>1, <5>1, <5>2
      <4>. QED BY <4>3, <4>4
    <3>. QED BY <3>1, <3>2
  <2>. QED BY <1>3, <1>6, <1>8, <2>1, <2>2
<1>. QED BY <1>1, <1>4, <1>5, <1>7, <1>8

-----------------------------------------------------------------------------
\* The invariant.

LEMMA NoOpTyped == NoOp \in Operation /\ NoOp.pc = "idle" /\ NoOp.kind = "get"
  BY DEF NoOp, Operation, Stages, Kinds, Instant

LEMMA FInit == FileInit => FInv
<1> SUFFICES ASSUME FileInit PROVE FInv
  OBVIOUS
<1>1. Types
  BY NoOpTyped DEF FileInit, Types, Bound
<1>2. Mutex /\ Pending /\ FileStaysReadable
  BY NoOpTyped DEF FileInit, Mutex, Critical, Pending, FileStaysReadable, Readable
<1>. QED BY <1>1, <1>2 DEF FInv

\* A step of one operation that leaves file and lock alone.
LEMMA OneOp ==
  ASSUME FInv, NEW o \in Ops, NEW k \in Operation, op' = [op EXCEPT ![o] = k],
         UNCHANGED <<file, lock>>,
         k.pc # "idle" => k.proc \in Procs, Bound(k),
         k.pc \in {"load", "flush", "unlock"} => lock = o,
         k.pc = "flush" => Granting(k, file.approvals) \/ Ending(k, file.approvals)
  PROVE  FInv'
<1>1. op'[o] = k /\ \A x \in Ops \ {o} : op'[x] = op[x]
  BY DEF FInv, Types
<1>2. op' \in [Ops -> Operation]
  BY DEF FInv, Types
<1>3. Types'
  BY <1>1, <1>2 DEF FInv, Types, Bound
<1>4. Mutex'
  BY <1>1 DEF FInv, Mutex, Critical
<1>5. Pending'
  BY <1>1 DEF FInv, Pending
<1>6. FileStaysReadable'
  BY DEF FInv, FileStaysReadable, Readable
<1>. QED BY <1>3, <1>4, <1>5, <1>6 DEF FInv

LEMMA EnterKeeps ==
  ASSUME FInv, NEW o \in Ops, NEW k \in Operation, k.pc = "queued", k.proc \in Procs, Bound(k),
         Enter(o, k)
  PROVE  FInv'
  BY OneOp DEF Enter

LEMMA QueuedTyped ==
  ASSUME NEW kind \in Kinds, NEW p \in Procs, NEW g \in Grants \union {None}, NEW k \in Keys \union {None},
         NEW d \in Digests \union {None}, NEW t \in Instant,
         kind = "approve" => g \in Grants /\ k \in Keys /\ d \in Digests
  PROVE  LET c == Queued(kind, p, g, k, d, t)
         IN c \in Operation /\ c.pc = "queued" /\ c.proc \in Procs /\ Bound(c)
  BY DEF Queued, Operation, Stages, Bound

LEMMA CallKeeps ==
  ASSUME FInv, NEW o \in Ops, NEW p \in Procs,
         \/ \E g \in Grants, k \in Keys, d \in Digests, t \in Instant : CallApprove(o, p, g, k, d, t)
         \/ \E g \in Grants, kind \in {"revoke", "get"} : CallById(o, p, kind, g)
         \/ \E k \in Keys, d \in Digests : CallConsume(o, p, k, d)
  PROVE  FInv'
<1>1. ASSUME NEW g \in Grants, NEW k \in Keys, NEW d \in Digests, NEW t \in Instant,
             CallApprove(o, p, g, k, d, t)
      PROVE  FInv'
  BY <1>1, QueuedTyped, EnterKeeps DEF CallApprove, Kinds
<1>2. ASSUME NEW g \in Grants, NEW kind \in {"revoke", "get"}, CallById(o, p, kind, g) PROVE FInv'
  BY <1>2, QueuedTyped, EnterKeeps DEF CallById, Kinds, Instant
<1>3. ASSUME NEW k \in Keys, NEW d \in Digests, CallConsume(o, p, k, d) PROVE FInv'
  BY <1>3, QueuedTyped, EnterKeeps DEF CallConsume, Kinds, Instant
<1>. QED BY <1>1, <1>2, <1>3

\* mkdir found no directory, so nobody was in the critical section.
LEMMA AcquireKeeps ==
  ASSUME FInv, NEW o \in Ops, AcquireLock(o)
  PROVE  FInv'
<1>1. \A x \in Ops : ~Critical(x)
  BY FileStoreValues DEF FInv, Mutex, AcquireLock
<1>2. op' = [op EXCEPT ![o].pc = "load"] /\ lock' = o /\ file' = file /\ op[o].pc = "queued"
  BY DEF AcquireLock, First
<1>3. /\ op' \in [Ops -> Operation] /\ \A x \in Ops \ {o} : op'[x] = op[x]
      /\ op'[o].pc = "load" /\ op'[o].proc = op[o].proc /\ op'[o].kind = op[o].kind
      /\ op'[o].id = op[o].id /\ op'[o].key = op[o].key /\ op'[o].digest = op[o].digest
  <2> DEFINE n == [op[o] EXCEPT !.pc = "load"]
  <2>1. op \in [Ops -> Operation] /\ op[o] \in Operation /\ op' = [op EXCEPT ![o] = n]
    BY <1>2 DEF FInv, Types
  <2>2. /\ n \in Operation /\ n.pc = "load" /\ n.proc = op[o].proc /\ n.kind = op[o].kind
        /\ n.id = op[o].id /\ n.key = op[o].key /\ n.digest = op[o].digest
    BY <2>1 DEF Operation, Stages
  <2> HIDE DEF n
  <2>. QED BY <2>1, <2>2
<1>4. Types'
  BY <1>2, <1>3 DEF FInv, Types, Bound
<1>5. Mutex' /\ Pending'
  BY <1>1, <1>2, <1>3 DEF Mutex, Pending, Critical
<1>6. FileStaysReadable'
  BY <1>2 DEF FInv, FileStaysReadable, Readable
<1>. QED BY <1>4, <1>5, <1>6 DEF FInv

\* What load leaves to be flushed is what the rules of its kind allow.
LEMMA DecidedKeeps ==
  ASSUME NEW k \in Operation, k.pc = "load", Bound(k), NEW a \in Seq(Record), Readable(a),
         NEW now \in Instant
  PROVE  LET c == Decided(k, a, now)
         IN /\ c \in Operation /\ Bound(c) /\ c.proc = k.proc /\ c.pc \in {"flush", "unlock"}
            /\ c.pc = "flush" => Granting(c, a) \/ Ending(c, a)
<1> DEFINE c == Decided(k, a, now)
<1>1. CASE Grantable(k, a, now)
  <2>1. now \in Times /\ k.kind = "approve" /\ With(a, k.id) = {} /\ (k.expires # None => now < k.expires)
    BY <1>1 DEF Grantable, Instant
  <2> DEFINE n == Append(a, NewRecord(k, now))
  <2>2. n \in Seq(Record)
    BY <2>1, NewRecordIsValid, AppendProperties DEF Bound
  <2>3. NewRecord([k EXCEPT !.pc = "flush", !.next = n], now) = NewRecord(k, now)
    BY DEF NewRecord, Operation
  <2> HIDE DEF n
  <2>4. c = [k EXCEPT !.pc = "flush", !.next = n]
    BY <1>1 DEF Decided, n
  <2>5. /\ c \in Operation /\ c.kind = k.kind /\ c.id = k.id /\ c.key = k.key /\ c.digest = k.digest
        /\ c.expires = k.expires /\ c.proc = k.proc /\ c.pc = "flush" /\ c.next = n
    BY <2>2, <2>4 DEF Operation, Stages
  <2> HIDE DEF c
  <2>6. Granting(c, a)
    BY <2>1, <2>3, <2>4, <2>5 DEF Granting, n
  <2>. QED BY <2>5, <2>6 DEF Bound, c
<1>2. CASE ~Grantable(k, a, now) /\ Chosen(k, a, now) = {}
  <2>1. Reply(k, a) \in {"yes", "no", "error"}
    BY DEF Reply
  <2> DEFINE y == Reply(k, a)
  <2>2. c = [k EXCEPT !.pc = "unlock", !.answer = y]
    BY <1>2 DEF Decided
  <2> HIDE DEF y
  <2>3. /\ c \in Operation /\ c.kind = k.kind /\ c.id = k.id /\ c.key = k.key /\ c.digest = k.digest
        /\ c.proc = k.proc /\ c.pc = "unlock"
    BY <2>1, <2>2 DEF Operation, Stages, y
  <2>. QED BY <2>3 DEF Bound
<1>3. CASE ~Grantable(k, a, now) /\ Chosen(k, a, now) # {}
  <2> DEFINE i == CHOOSE i \in Chosen(k, a, now) : TRUE
             r == Marked(k, a[i], now)
             n == [a EXCEPT ![i] = r]
             g == a[i].id
  <2>1. i \in Chosen(k, a, now)
    BY <1>3
  <2> HIDE DEF i
  <2>2. k.kind \in {"consume", "revoke"} /\ i \in DOMAIN a /\ Unspent(a[i]) /\ now \in Times
        /\ a[i].granted <= now
        /\ (k.kind = "consume" /\ a[i].expires # None => now < a[i].expires)
    <3>1. CASE k.kind = "consume"
      BY <2>1, <3>1 DEF Chosen, Spendable, Instant
    <3>2. CASE k.kind = "revoke"
      BY <2>1, <3>2 DEF Chosen, Revocable, Instant, With
    <3>3. k.kind = "consume" \/ k.kind = "revoke"
      BY <2>1 DEF Chosen
    <3>. QED BY <3>1, <3>2, <3>3
  <2>3. a[i] \in Record /\ ValidRecord(a[i]) /\ g \in Grants
    <3>1. a[i] \in Record
      BY <2>2
    <3>2. ValidRecord(a[i])
      BY <2>2 DEF Readable
    <3>. QED BY <3>1, <3>2 DEF Record
  <2>4. r \in Record
    BY <2>2, <2>3, MarkedIsValid
  <2>5. n \in Seq(Record)
    BY <2>2, <2>4
  <2>6. c = [k EXCEPT !.pc = "flush", !.id = g, !.next = n]
    BY <1>3 DEF Decided, i
  <2> HIDE DEF n, r, g
  <2>7. /\ c \in Operation /\ c.kind = k.kind /\ c.id = g /\ c.proc = k.proc /\ c.pc = "flush" /\ c.next = n
    BY <2>3, <2>5, <2>6 DEF Operation, Stages
  <2> HIDE DEF c
  <2>8. Marked(c, a[i], now) = r
    BY <2>7 DEF Marked, r
  <2>9. Ending(c, a)
    BY <2>2, <2>7, <2>8 DEF Ending, n, g
  <2>. QED BY <2>2, <2>7, <2>9 DEF Bound, c
<1>. QED BY <1>1, <1>2, <1>3

LEMMA LoadKeeps ==
  ASSUME FInv, NEW o \in Ops, NEW now \in Instant, Load(o, now)
  PROVE  FInv'
<1> DEFINE c == Decided(op[o], file.approvals, now)
<1>1. /\ op[o] \in Operation /\ op[o].pc = "load" /\ op[o].proc \in Procs /\ Bound(op[o]) /\ lock = o
      /\ file.approvals \in Seq(Record) /\ Readable(file.approvals)
  BY DEF FInv, Types, Mutex, Critical, FileStaysReadable, Load
<1>2. op' = [op EXCEPT ![o] = c] /\ UNCHANGED <<file, lock>>
  BY DEF Load
<1>3. /\ c \in Operation /\ Bound(c) /\ c.proc = op[o].proc /\ c.pc \in {"flush", "unlock"}
      /\ c.pc = "flush" => Granting(c, file.approvals) \/ Ending(c, file.approvals)
  BY <1>1, DecidedKeeps
<1> HIDE DEF c
<1>. QED BY <1>1, <1>2, <1>3, OneOp

LEMMA FailKeeps ==
  ASSUME FInv, NEW o \in Ops, Fail(o)
  PROVE  FInv'
<1> DEFINE nothing == <<>>
           c == [op[o] EXCEPT !.pc = "unlock", !.next = nothing, !.answer = "error"]
<1>1. op[o] \in Operation /\ op[o].pc \in {"load", "flush"} /\ op[o].proc \in Procs /\ Bound(op[o]) /\ lock = o
  BY DEF FInv, Types, Mutex, Critical, Fail
<1>2. op' = [op EXCEPT ![o] = c] /\ UNCHANGED <<file, lock>>
  BY DEF Fail, FInv, Types
<1>3. nothing \in Seq(Record)
  OBVIOUS
<1> HIDE DEF nothing
<1>4. /\ c \in Operation /\ c.kind = op[o].kind /\ c.id = op[o].id /\ c.key = op[o].key
      /\ c.digest = op[o].digest /\ c.proc = op[o].proc /\ c.pc = "unlock"
  BY <1>1, <1>3 DEF Operation, Stages
<1> HIDE DEF c
<1>5. Bound(c)
  BY <1>1, <1>4 DEF Bound
<1>. QED BY <1>1, <1>2, <1>4, <1>5, OneOp

LEMMA GiveUpKeeps ==
  ASSUME FInv, NEW o \in Ops, GiveUp(o)
  PROVE  FInv'
<1>1. op' = [op EXCEPT ![o] = NoOp] /\ UNCHANGED <<file, lock>>
  BY DEF GiveUp, Settle
<1>. QED BY <1>1, NoOpTyped, OneOp DEF Bound

\* The rename is by the only operation inside: nobody else decided on what the
\* file was before, and what is written can be read again.
LEMMA FlushKeeps ==
  ASSUME FInv, NEW o \in Ops, Flush(o)
  PROVE  FInv'
<1>1. /\ op[o] \in Operation /\ op[o].pc = "flush" /\ op[o].proc \in Procs /\ Bound(op[o]) /\ lock = o
      /\ file.approvals \in Seq(Record) /\ Readable(file.approvals)
      /\ Granting(op[o], file.approvals) \/ Ending(op[o], file.approvals)
  BY DEF FInv, Types, Mutex, Critical, Pending, FileStaysReadable, Flush
<1>2. op[o].next \in Seq(Record) /\ Readable(op[o].next)
  <2>1. CASE Granting(op[o], file.approvals)
    <3>1. op[o].id \in Grants /\ op[o].key \in Keys /\ op[o].digest \in Digests
      BY <1>1, <2>1 DEF Bound, Granting
    <3>. QED BY <1>1, <2>1, <3>1, GrantingStep
  <2>2. CASE Ending(op[o], file.approvals)
    BY <1>1, <2>2, EndingStep
  <2>. QED BY <1>1, <2>1, <2>2
<1>3. file' \in [runtime : Runtimes \union {None}, approvals : Seq(Record)] /\ file'.approvals = op[o].next
  BY <1>1, <1>2, FileStoreValues DEF Flush
<1> DEFINE nothing == <<>>
           c == [op[o] EXCEPT !.pc = "unlock", !.next = nothing, !.answer = "yes"]
<1>4. op' = [op EXCEPT ![o] = c] /\ lock' = lock
  BY DEF Flush, FInv, Types
<1>5. nothing \in Seq(Record)
  OBVIOUS
<1> HIDE DEF nothing
<1>6. /\ c \in Operation /\ c.kind = op[o].kind /\ c.id = op[o].id /\ c.key = op[o].key
      /\ c.digest = op[o].digest /\ c.proc = op[o].proc /\ c.pc = "unlock"
  BY <1>1, <1>5 DEF Operation, Stages
<1> HIDE DEF c
<1>7. \A x \in Ops \ {o} : ~Critical(x)
  BY <1>1 DEF FInv, Mutex
<1>8. Types'
  <2>1. op' \in [Ops -> Operation]
    BY <1>4, <1>6 DEF FInv, Types
  <2>2. ASSUME NEW x \in Ops PROVE (op'[x].pc # "idle" => op'[x].proc \in Procs) /\ Bound(op'[x])
    BY <1>1, <1>4, <1>6 DEF FInv, Types, Bound
  <2>. QED BY <1>3, <2>1, <2>2 DEF Types
<1>9. Mutex' /\ Pending'
  BY <1>1, <1>4, <1>6, <1>7 DEF FInv, Types, Mutex, Pending, Critical
<1>10. FileStaysReadable'
  BY <1>2, <1>3 DEF FileStaysReadable, Readable
<1>. QED BY <1>8, <1>9, <1>10 DEF FInv

LEMMA UnlockKeeps ==
  ASSUME FInv, NEW o \in Ops, Unlock(o)
  PROVE  FInv'
<1>1. \A x \in Ops \ {o} : ~Critical(x)
  BY DEF FInv, Mutex, Critical, Unlock
<1>2. /\ op' \in [Ops -> Operation] /\ op'[o] = NoOp /\ \A x \in Ops \ {o} : op'[x] = op[x]
      /\ file' = file
  BY NoOpTyped DEF Unlock, Settle, FInv, Types
<1>3. Types'
  BY <1>2, NoOpTyped DEF FInv, Types, Bound
<1>4. Mutex' /\ Pending'
  BY <1>1, <1>2, NoOpTyped DEF Mutex, Pending, Critical
<1>5. FileStaysReadable'
  BY <1>2 DEF FInv, FileStaysReadable, Readable
<1>. QED BY <1>3, <1>4, <1>5 DEF FInv

\* A process that dies inside leaves its directory, and nobody else was inside.
LEMMA DeathKeeps ==
  ASSUME FInv, NEW p \in Procs, ProcessDies(p)
  PROVE  FInv'
<1>1. /\ op' = [o \in Ops |-> IF op[o].proc = p THEN NoOp ELSE op[o]] /\ file' = file
      /\ lock' = IF lock \in Ops /\ op[lock].proc = p THEN Stale ELSE lock
  BY DEF ProcessDies
<1>2. \A o \in Ops : op'[o] = NoOp \/ (op'[o] = op[o] /\ op[o].proc # p)
  BY <1>1
<1>3. Types'
  <2>1. op' \in [Ops -> Operation]
    BY <1>1, NoOpTyped DEF FInv, Types
  <2>2. \A o \in Ops : (op'[o].pc # "idle" => op'[o].proc \in Procs) /\ Bound(op'[o])
    BY <1>2, NoOpTyped DEF FInv, Types, Bound
  <2>. QED BY <1>1, <2>1, <2>2 DEF FInv, Types
<1>4. Mutex'
  BY <1>1, <1>2, NoOpTyped DEF FInv, Mutex, Critical
<1>5. Pending'
  BY <1>1, <1>2, NoOpTyped DEF FInv, Pending
<1>6. FileStaysReadable'
  BY <1>1 DEF FInv, FileStaysReadable, Readable
<1>. QED BY <1>3, <1>4, <1>5, <1>6 DEF FInv

LEMMA ReconcileKeeps ==
  ASSUME FInv, OperatorReconciles
  PROVE  FInv'
<1>1. Types' /\ Pending' /\ FileStaysReadable'
  BY DEF OperatorReconciles, FInv, Types, Bound, Pending, FileStaysReadable, Readable
<1>2. Mutex'
  BY NoOpTyped DEF OperatorReconciles, Mutex, Critical
<1>. QED BY <1>1, <1>2 DEF FInv

LEMMA FStep == FInv /\ [FileNext]_fileVars => FInv'
<1> SUFFICES ASSUME FInv, [FileNext]_fileVars PROVE FInv'
  OBVIOUS
<1>1. ASSUME NEW o \in Ops, FileOpStep(o) PROVE FInv'
  BY <1>1, AcquireKeeps, GiveUpKeeps, LoadKeeps, FlushKeeps, FailKeeps, UnlockKeeps DEF FileOpStep
<1>2. CASE UNCHANGED fileVars
  BY <1>2 DEF fileVars, FInv, Types, Bound, Mutex, Critical, Pending, FileStaysReadable, Readable
<1>. QED BY <1>1, <1>2, CallKeeps, DeathKeeps, ReconcileKeeps DEF FileNext

-----------------------------------------------------------------------------
\* Whatever the clocks of the processes show and whichever of them die, the
\* store never writes a file that it would refuse to read.
THEOREM FileIsAlwaysReadable == FileSpec => []FileStaysReadable
<1>1. FInv => FileStaysReadable
  BY DEF FInv
<1>. QED BY <1>1, FInit, FStep, PTL DEF FileSpec

\* Only the rename changes grants, and it does what the atomic store allows.
LEMMA GrantStep == FInv /\ [FileNext]_fileVars => [Atomic!ApprovalNext]_([g \in Grants |-> GrantIn(file, g)])
<1> SUFFICES ASSUME FInv, [FileNext]_fileVars
             PROVE  \/ Atomic!ApprovalNext
                    \/ [g \in Grants |-> GrantIn(file, g)]' = [g \in Grants |-> GrantIn(file, g)]
  OBVIOUS
<1>1. CASE file' = file
  BY <1>1
<1>2. ASSUME NEW o \in Ops, Flush(o) PROVE Atomic!ApprovalNext
  <2> DEFINE k == op[o]
  <2>1. /\ k \in Operation /\ k.pc = "flush" /\ Bound(k)
        /\ file.approvals \in Seq(Record) /\ Readable(file.approvals)
        /\ Granting(k, file.approvals) \/ Ending(k, file.approvals)
        /\ file'.approvals = k.next
    BY <1>2 DEF FInv, Types, Pending, FileStaysReadable, Flush
  <2>2. CASE Granting(k, file.approvals)
    <3>1. k.id \in Grants /\ k.key \in Keys /\ k.digest \in Digests
      BY <2>1, <2>2 DEF Bound, Granting
    <3>2. /\ GrantIn(file, k.id) = FreshGrant /\ GrantIn(file', k.id) = Granted(k.key, k.digest)
          /\ \A g \in Grants \ {k.id} : GrantIn(file', g) = GrantIn(file, g)
      BY <2>1, <2>2, <3>1, GrantingStep
    <3>3. Atomic!ApproveAs(k.id, k.key, k.digest)
      BY <3>1, <3>2 DEF Atomic!ApproveAs, Atomic!FreshGrant, Atomic!Granted, FreshGrant, Granted
    <3>. QED BY <3>1, <3>3 DEF Atomic!ApprovalNext
  <2>3. CASE Ending(k, file.approvals)
    <3>1. PICK key \in Keys, d \in Digests :
            /\ GrantIn(file, k.id) = Granted(key, d)
            /\ GrantIn(file', k.id) = [status |-> IF k.kind = "consume" THEN "consumed" ELSE "revoked",
                                       key |-> key, digest |-> d]
            /\ \A g \in Grants \ {k.id} : GrantIn(file', g) = GrantIn(file, g)
      <4> HIDE DEF k
      <4>1. /\ k.next \in Seq(Record) /\ Readable(k.next) /\ k.id \in Grants
            /\ \E key \in Keys, d \in Digests :
                 /\ GrantIn(file, k.id) = Granted(key, d)
                 /\ \A h : h.approvals = k.next =>
                      /\ GrantIn(h, k.id) = [status |-> IF k.kind = "consume" THEN "consumed" ELSE "revoked",
                                             key |-> key, digest |-> d]
                      /\ \A g \in Grants \ {k.id} : GrantIn(h, g) = GrantIn(file, g)
        BY <2>1, <2>3, EndingStep
      <4>. QED BY <2>1, <4>1
    <3>2. k.id \in Grants
      <4> HIDE DEF k
      <4>. QED BY <2>1, <2>3, EndingStep
    <3>3. CASE k.kind = "consume"
      <4>1. Atomic!ConsumeGrant(k.id, key, d)
        BY <3>1, <3>2, <3>3 DEF Atomic!ConsumeGrant, Atomic!Granted, Granted
      <4>. QED BY <3>2, <4>1 DEF Atomic!ApprovalNext
    <3>4. CASE k.kind # "consume"
      <4>1. Atomic!RevokeGrant(k.id)
        BY <3>1, <3>2, <3>4 DEF Atomic!RevokeGrant, Granted
      <4>. QED BY <3>2, <4>1 DEF Atomic!ApprovalNext
    <3>. QED BY <3>3, <3>4
  <2>. QED BY <2>1, <2>2, <2>3
<1>3. file' = file \/ \E o \in Ops : Flush(o)
  <2>1. ASSUME NEW o \in Ops, FileOpStep(o) PROVE file' = file \/ Flush(o)
    BY <2>1 DEF FileOpStep, AcquireLock, GiveUp, Load, Fail, Unlock
  <2>2. ASSUME NEW o \in Ops, NEW k, Enter(o, k) PROVE file' = file
    BY <2>2 DEF Enter
  <2>3. ASSUME NEW p \in Procs, ProcessDies(p) PROVE file' = file
    BY <2>3 DEF ProcessDies
  <2>4. OperatorReconciles \/ UNCHANGED fileVars => file' = file
    BY DEF OperatorReconciles, fileVars
  <2>. QED BY <2>1, <2>2, <2>3, <2>4 DEF FileNext, CallApprove, CallById, CallConsume
<1>. QED BY <1>1, <1>2, <1>3

\* To its users the file is one atomic store, whichever process writes it: a
\* grant is made once and ends once.
THEOREM FileImplementsApprovalStore == FileSpec => ImplementsApprovalStore
<1>1. FileInit => Atomic!ApprovalInit
  BY DEF FileInit, Atomic!ApprovalInit, GrantIn, With, FreshGrant, Atomic!FreshGrant
<1>. QED BY <1>1, FInit, FStep, GrantStep, PTL
         DEF FileSpec, ImplementsApprovalStore, Atomic!ApprovalSpec

\* An operation leaves "flush" by its own rename or its own failure.
LEMMA FlushEnds ==
  ASSUME FInv, [FileNext]_fileVars, NEW o \in Ops, op[o].pc = "flush", op'[o].pc = "unlock"
  PROVE  Flush(o) \/ Fail(o)
<1>1. ASSUME NEW x \in Ops, NEW k, Enter(x, k) PROVE FALSE
  <2>1. x # o
    BY <1>1, NoOpTyped DEF Enter
  <2>. QED BY <1>1, <2>1 DEF Enter, FInv, Types
<1>2. ASSUME NEW x \in Ops, FileOpStep(x) PROVE Flush(o) \/ Fail(o)
  <2>1. x = o
    BY <1>2 DEF FileOpStep, AcquireLock, GiveUp, Load, Flush, Fail, Unlock, Settle, FInv, Types
  <2>. QED BY <1>2, <2>1 DEF FileOpStep, AcquireLock, GiveUp, First, Load, Unlock
<1>3. ASSUME NEW p \in Procs, ProcessDies(p) PROVE FALSE
  BY <1>3, NoOpTyped DEF ProcessDies
<1>4. ~OperatorReconciles /\ ~UNCHANGED fileVars
  BY NoOpTyped DEF OperatorReconciles, fileVars
<1>. QED BY <1>1, <1>2, <1>3, <1>4 DEF FileNext, CallApprove, CallById, CallConsume

LEMMA AnswerStep ==
  ASSUME FInv, [FileNext]_fileVars, NEW o \in Ops, op[o].pc = "flush", op'[o].pc = "unlock"
  PROVE  LET before == GrantIn(file, op[o].id).status
             after == GrantIn(file', op[o].id).status
         IN IF op'[o].answer # "yes" THEN file' = file
            ELSE CASE op[o].kind = "approve" -> before = "fresh" /\ after = "granted"
                   [] op[o].kind = "revoke" -> before = "granted" /\ after = "revoked"
                   [] OTHER -> before = "granted" /\ after = "consumed"
<1> DEFINE k == op[o]
<1>1. k \in Operation
  BY DEF FInv, Types
<1>2. CASE Fail(o)
  <2>1. op'[o].answer = "error" /\ file' = file
    BY <1>1, <1>2 DEF Fail, FInv, Types, Operation
  <2>. QED BY <2>1
<1>3. CASE Flush(o)
  <2>1. op'[o].answer = "yes"
    BY <1>1, <1>3 DEF Flush, FInv, Types, Operation
  <2>2. /\ Bound(k) /\ file.approvals \in Seq(Record) /\ Readable(file.approvals)
        /\ Granting(k, file.approvals) \/ Ending(k, file.approvals)
        /\ file'.approvals = k.next
    BY <1>3 DEF FInv, Types, Pending, FileStaysReadable, Flush
  <2>3. CASE Granting(k, file.approvals)
    <3>1. k.kind = "approve" /\ k.id \in Grants /\ k.key \in Keys /\ k.digest \in Digests
      BY <2>2, <2>3 DEF Bound, Granting
    <3>2. GrantIn(file, k.id) = FreshGrant /\ GrantIn(file', k.id) = Granted(k.key, k.digest)
      BY <1>1, <2>2, <2>3, <3>1, GrantingStep
    <3>3. GrantIn(file, k.id).status = "fresh" /\ GrantIn(file', k.id).status = "granted"
      BY <3>2 DEF FreshGrant, Granted
    <3>. QED BY <2>1, <3>1, <3>3
  <2>4. CASE Ending(k, file.approvals)
    <3>1. PICK key \in Keys, d \in Digests :
            /\ GrantIn(file, k.id) = Granted(key, d)
            /\ \A h : h.approvals = k.next =>
                 /\ GrantIn(h, k.id) = [status |-> IF k.kind = "consume" THEN "consumed" ELSE "revoked",
                                        key |-> key, digest |-> d]
                 /\ \A g \in Grants \ {k.id} : GrantIn(h, g) = GrantIn(file, g)
      BY <1>1, <2>2, <2>4, EndingStep
    <3>2. /\ GrantIn(file, k.id).status = "granted"
          /\ GrantIn(file', k.id).status = IF k.kind = "consume" THEN "consumed" ELSE "revoked"
      BY <2>2, <3>1 DEF Granted
    <3>3. k.kind = "consume" \/ k.kind = "revoke"
      BY <2>4 DEF Ending
    <3>. QED BY <2>1, <3>2, <3>3
  <2>. QED BY <2>2, <2>3, <2>4
<1>. QED BY <1>2, <1>3, FlushEnds

\* Of several operations that spend or revoke one approval, in whatever
\* processes, only the one that did it is told so.
THEOREM AnswersAreOwn == FileSpec => AnswersAreTheirOwn
<1>1. FInv /\ [FileNext]_fileVars =>
        [\A o \in Ops : op[o].pc = "flush" /\ op[o].pc' = "unlock" =>
           LET before == GrantIn(file, op[o].id).status
               after == GrantIn(file', op[o].id).status
           IN IF op[o].answer' # "yes" THEN file' = file
              ELSE CASE op[o].kind = "approve" -> before = "fresh" /\ after = "granted"
                     [] op[o].kind = "revoke" -> before = "granted" /\ after = "revoked"
                     [] OTHER -> before = "granted" /\ after = "consumed"]_fileVars
  BY AnswerStep
<1>. QED BY <1>1, FInit, FStep, PTL DEF FileSpec, AnswersAreTheirOwn

=============================================================================
