---------------------------- MODULE MCTaskRunner ----------------------------
EXTENDS TaskRunner, TLC

Symmetry == Permutations(Runners) \union Permutations(Calls) \union
            Permutations(Gens) \union Permutations(Recs)
=============================================================================
