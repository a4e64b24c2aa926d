--------------------------- MODULE MCToolApprovals ---------------------------
(***************************************************************************)
(* The two levels of the approval authority in one run: the policy over the *)
(* atomic store, and the file that has to be that store.  A behaviour is of *)
(* one level; the other one rests in its initial state.                     *)
(***************************************************************************)
EXTENDS ToolApprovals, JsonFileToolApprovalStore, TLC

CONSTANTS p1, p2, r1, k1

VARIABLE level

allVars == <<vars, fileVars, level>>

SameRuntime == (p1 :> r1) @@ (p2 :> r1)
Instants == 0 .. 1

\* Bounds of the file level: requests and approvals differ by their digests only,
\* and nobody asks for an expiry that is over before any clock starts.
FileBound == \A o \in Ops : op[o].key \in {None, k1} /\ op[o].expires # 0

LevelsInit ==
  /\ FileInit
  /\ \/ level = "policy" /\ Init
     \/ level = "file" /\ Init /\ content = [o \in Objects |-> Unsupported]

Levels ==
  /\ LevelsInit
  /\ [][ /\ UNCHANGED level
         /\ \/ level = "policy" /\ Next /\ UNCHANGED fileVars
            \/ level = "file" /\ FileNext /\ FileBound' /\ UNCHANGED vars ]_allVars

\* The slots of one level are the operations of the other, and its objects the
\* other's processes: fewer permutations do for both.
Symmetry == UNION {Permutations(S) : S \in {Slots, Objects, Digests, Grants, Procs, Ops}}
=============================================================================
