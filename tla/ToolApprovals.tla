---------------------------- MODULE ToolApprovals ----------------------------
(***************************************************************************)
(* Human approvals: the ToolApprovalPolicy that spends one approval of the  *)
(* store per protected invocation, and the payload objects that callers can *)
(* change while the policy awaits the store.  The content of a payload      *)
(* stands for its digest.                                                   *)
(***************************************************************************)
EXTENDS Naturals, ApprovalStore

CONSTANTS Slots,       \* concurrent protected invocations, of any process
          Objects,     \* payload objects
          Unsupported, \* payloads without a digest (cycles, accessors, proxies)
          Durable      \* TRUE: JSON file shared by processes; FALSE: in memory

ASSUME ApprovalValues ==
  /\ Unsupported \notin Digests
  /\ None \notin Grants /\ None \notin Digests
  /\ Durable \in BOOLEAN

VARIABLES content, \* payload object -> what its digest would be
          frozen,  \* payload objects that can no longer change
          inv,     \* slot -> invocation
          uses     \* approval -> tool invocations started under it

vars == <<grant, content, frozen, inv, uses>>

\* An invocation awaits the base policy ("base"), the store's canonical path
\* ("consume"), its turn with the store ("decide"), the policy's continuation
\* ("answered"), the executor's ("allowed"), and finally its tool.
Pcs == {"idle", "base", "consume", "decide", "answered", "allowed", "tool"}
Invocation == [pc : Pcs, key : Keys \union {None}, obj : Objects \union {None},
               pre : Digests \union {None}, bound : Digests \union {None},
               by : Grants \union {None}]
NoInvocation == [pc |-> "idle", key |-> None, obj |-> None, pre |-> None,
                 bound |-> None, by |-> None]

TypeOK ==
  /\ grant \in [Grants -> Grant]
  /\ content \in [Objects -> Digests \union {Unsupported}]
  /\ frozen \subseteq Objects
  /\ inv \in [Slots -> Invocation]
  /\ \A x \in Slots : inv[x].pc # "idle" => inv[x].key \in Keys /\ inv[x].obj \in Objects
  /\ uses \in [Grants -> Nat]

Init ==
  /\ ApprovalInit
  /\ content \in [Objects -> Digests \union {Unsupported}]
  /\ frozen = {}
  /\ inv = [x \in Slots |-> NoInvocation]
  /\ uses = [g \in Grants |-> 0]

-----------------------------------------------------------------------------
\* The store's operations for people: each runs under the store's lock.

Approve(g, k, d) ==
  /\ ApproveAs(g, k, d)
  /\ UNCHANGED <<content, frozen, inv, uses>>

Revoke(g) ==
  /\ RevokeGrant(g)
  /\ UNCHANGED <<content, frozen, inv, uses>>

-----------------------------------------------------------------------------
\* The caller: payloads change under the feet of everyone who awaits.

Mutate(o, d) ==
  /\ o \notin frozen
  /\ content' = [content EXCEPT ![o] = d]
  /\ UNCHANGED <<grant, frozen, inv, uses>>

\* A payload nobody uses any more is replaced by a new object.
Replace(o, d) ==
  /\ \A x \in Slots : inv[x].obj # o
  /\ frozen' = frozen \ {o}
  /\ content' = [content EXCEPT ![o] = d]
  /\ UNCHANGED <<grant, inv, uses>>

Submit(x, k, o) ==
  /\ inv[x].pc = "idle"
  /\ inv' = [inv EXCEPT ![x] = [NoInvocation EXCEPT !.pc = "base", !.key = k, !.obj = o]]
  /\ UNCHANGED <<grant, content, frozen, uses>>

-----------------------------------------------------------------------------
\* ToolApprovalPolicy.evaluate() and the executor around it.

Seen(x) == content[inv[x].obj]

\* Base denial, unsupported or changed payload, no matching or only an expired
\* approval, storage error, refused budget, or the end of the tool.
Leave(x) ==
  /\ inv[x].pc # "idle"
  /\ inv' = [inv EXCEPT ![x] = NoInvocation]
  /\ UNCHANGED <<grant, content, frozen, uses>>

BaseAllows(x) ==
  /\ inv[x].pc = "base"
  /\ Seen(x) \in Digests
  /\ inv' = [inv EXCEPT ![x].pc = "consume", ![x].pre = Seen(x)]
  /\ UNCHANGED <<grant, content, frozen, uses>>

\* The store takes a digest of its own when consume() reaches it.
StoreDigests(x) ==
  /\ inv[x].pc = "consume"
  /\ Seen(x) \in Digests
  /\ inv' = [inv EXCEPT ![x].pc = "decide", ![x].bound = Seen(x)]
  /\ UNCHANGED <<grant, content, frozen, uses>>

\* Mutation of StoreConsumes: the approval is found but not spent.
StoreFinds(x, g) ==
  /\ inv[x].pc = "decide"
  /\ grant[g] = Granted(inv[x].key, inv[x].bound)
  /\ inv' = [inv EXCEPT ![x].pc = "answered", ![x].by = g]
  /\ UNCHANGED <<grant, content, frozen, uses>>

\* Under the lock, the approval is spent before anyone hears of it.
StoreConsumes(x, g) ==
  /\ inv[x].pc = "decide"
  /\ ConsumeGrant(g, inv[x].key, inv[x].bound)
  /\ inv' = [inv EXCEPT ![x].pc = "answered", ![x].by = g]
  /\ UNCHANGED <<content, frozen, uses>>

\* Mutation of Unchanged: what the approval is bound to is not looked at.
UnchangedSinceBase(x) == Seen(x) = inv[x].pre

\* The payload must be what it was before, and what the approval is bound to.
Unchanged(x) == Seen(x) = inv[x].pre /\ Seen(x) = grant[inv[x].by].digest

\* The continuation checks and seals the payload in one go.
PolicySeals(x) ==
  /\ inv[x].pc = "answered"
  /\ Unchanged(x)
  /\ frozen' = frozen \union {inv[x].obj}
  /\ inv' = [inv EXCEPT ![x].pc = "allowed"]
  /\ UNCHANGED <<grant, content, uses>>

ToolStarts(x) ==
  /\ inv[x].pc = "allowed"
  /\ inv' = [inv EXCEPT ![x].pc = "tool"]
  /\ uses' = [uses EXCEPT ![inv[x].by] = @ + 1]
  /\ UNCHANGED <<grant, content, frozen>>

\* A process dies with its invocations; a store in memory dies with it.
Crash(S) ==
  /\ Durable \/ S = Slots
  /\ inv' = [x \in Slots |-> IF x \in S THEN NoInvocation ELSE inv[x]]
  /\ IF Durable THEN UNCHANGED grant ELSE LoseGrants
  /\ UNCHANGED <<content, frozen, uses>>

Invoking(x) ==
  \/ BaseAllows(x) \/ StoreDigests(x)
  \/ \E g \in Grants : StoreConsumes(x, g)
  \/ PolicySeals(x) \/ ToolStarts(x)

Next ==
  \/ \E g \in Grants : Revoke(g)
  \/ \E g \in Grants, k \in Keys, d \in Digests : Approve(g, k, d)
  \/ \E o \in Objects, d \in Digests \union {Unsupported} : Mutate(o, d) \/ Replace(o, d)
  \/ \E x \in Slots, k \in Keys, o \in Objects : Submit(x, k, o)
  \/ \E x \in Slots : Invoking(x) \/ Leave(x)
  \/ \E S \in (SUBSET Slots) \ {{}} : Crash(S)

Spec == Init /\ [][Next]_vars

-----------------------------------------------------------------------------
(* Properties *)

\* One approval, one invocation: whatever processes race for it, retry it or
\* crash around it, at most one tool invocation ever starts under a grant.
OneUse == \A g \in Grants : uses[g] <= 1

\* A protected tool runs on the payload and for the task, agent and tool the
\* human approved, from its first instruction to its last, although the caller
\* keeps a reference to the payload during every await of the policy.
RunsWhatWasApproved ==
  \A x \in Slots : inv[x].pc = "tool" =>
    /\ Seen(x) = grant[inv[x].by].digest
    /\ inv[x].key = grant[inv[x].by].key

\* revoke() that answered true kept its promise: nothing started or starts
\* under that approval.
RevokedStaysUnused ==
  \A g \in Grants : grant[g].status = "revoked" =>
    uses[g] = 0 /\ \A x \in Slots : inv[x].by # g
=============================================================================
