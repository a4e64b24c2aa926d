-------------------------- MODULE MCRuntimeEventBus --------------------------
EXTENDS RuntimeEventBus, TLC

Symmetry == Permutations(Listeners) \union Permutations(Wraps)
=============================================================================
