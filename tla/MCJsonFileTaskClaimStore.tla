---------------------- MODULE MCJsonFileTaskClaimStore ----------------------
\* No symmetry: the run checks liveness.
EXTENDS JsonFileTaskClaimStore
=============================================================================
