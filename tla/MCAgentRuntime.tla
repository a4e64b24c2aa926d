--------------------------- MODULE MCAgentRuntime ---------------------------
\* No symmetry: the run checks liveness.
EXTENDS AgentRuntime
=============================================================================
