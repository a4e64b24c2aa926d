--------------------------- MODULE ApprovalRecords ---------------------------
(***************************************************************************)
(* What the approval stores keep: ToolApprovalRecord without its instants.  *)
(* A key stands for the bound runtime, task, agent and tool together.       *)
(***************************************************************************)

CONSTANTS Keys,    \* runtime, task, agent and tool of an invocation
          Digests, \* digests of the payloads the canonical form supports
          Grants,  \* approval IDs
          None

\* An approval no store knows yet, one that can be spent, and its ends: a store
\* in memory loses its approvals with its process.
Statuses == {"fresh", "granted", "revoked", "consumed", "lost"}
Grant == [status : Statuses, key : Keys \union {None}, digest : Digests \union {None}]
FreshGrant == [status |-> "fresh", key |-> None, digest |-> None]
Granted(k, d) == [status |-> "granted", key |-> k, digest |-> d]
=============================================================================
