------------------------ MODULE MCRuntimeAuditLedger ------------------------
EXTENDS RuntimeAuditLedger, TLC

Symmetry == Permutations(Ledgers) \union Permutations(Digests)
=============================================================================
