---------------------------- MODULE ApprovalStore ----------------------------
(***************************************************************************)
(* What every approval store promises (interface ToolApprovalStore and its  *)
(* in-memory implementation): an approval is granted once under its ID, and *)
(* leaves that state once, consumed by an invocation it is bound to or      *)
(* revoked.  Each operation is atomic here; JsonFileToolApprovalStore shows *)
(* how the file-backed store makes it so.  A store may always refuse to     *)
(* consume: an expired approval is one it refuses.                          *)
(***************************************************************************)
EXTENDS ApprovalRecords

VARIABLE grant \* approval -> status and binding

ApprovalInit == grant = [g \in Grants |-> FreshGrant]

\* An ID that is in use is refused.
ApproveAs(g, k, d) ==
  /\ grant[g] = FreshGrant
  /\ grant' = [grant EXCEPT ![g] = Granted(k, d)]

\* Mutation of RevokeGrant: a spent approval can still be revoked.
RevokeSpent(g) ==
  /\ grant[g].status \in {"granted", "consumed"}
  /\ grant' = [grant EXCEPT ![g].status = "revoked"]

\* revoke() answers true, perhaps for an approval that has expired.
RevokeGrant(g) ==
  /\ grant[g].status = "granted"
  /\ grant' = [grant EXCEPT ![g].status = "revoked"]

\* The approval is spent by the invocation it is bound to.
ConsumeGrant(g, k, d) ==
  /\ grant[g] = Granted(k, d)
  /\ grant' = [grant EXCEPT ![g].status = "consumed"]

\* A store in memory is lost with its process.
LoseGrants ==
  grant' = [g \in Grants |-> IF grant[g] = FreshGrant THEN FreshGrant
                             ELSE [grant[g] EXCEPT !.status = "lost"]]

ApprovalNext ==
  \/ \E g \in Grants : RevokeGrant(g)
  \/ \E g \in Grants, k \in Keys, d \in Digests : ApproveAs(g, k, d) \/ ConsumeGrant(g, k, d)

ApprovalSpec == ApprovalInit /\ [][ApprovalNext]_grant
=============================================================================
