--------------------------- MODULE MCMemoryStores ---------------------------
(***************************************************************************)
(* The memory stores, in memory and on file, and the bounded containers: a  *)
(* behaviour is of one of them, the others rest in their initial states.    *)
(***************************************************************************)
EXTENDS MemoryStores, BoundedStores, TLC

CONSTANTS p1, p2

VARIABLE store

allVars == <<memVars, fileVars, boundedVars, store>>

\* A process without a limit per agent, and one with it and room for more in all.
TwoLimits == (p1 :> [total |-> 2, perAgent |-> 0]) @@ (p2 :> [total |-> 3, perAgent |-> 2])

\* Bound of the file level: one entry less, as its operations interleave.
FileBound == Cardinality(IdsInUse) < Cardinality(Ids)

StoresInit ==
  /\ MemInit /\ FileInit /\ BoundedInit
  /\ store \in {"memory", "file", "containers"}

Stores ==
  /\ StoresInit
  /\ [][ /\ UNCHANGED store
         /\ \/ store = "memory" /\ MemNext /\ UNCHANGED <<fileVars, boundedVars>>
            \/ store = "file" /\ FileNext /\ FileBound' /\ UNCHANGED <<memVars, boundedVars>>
            \/ store = "containers" /\ BoundedNext /\ UNCHANGED <<memVars, fileVars>> ]_allVars

Symmetry == Permutations(Agents) \union Permutations(Ids) \union Permutations(Ops)
=============================================================================
