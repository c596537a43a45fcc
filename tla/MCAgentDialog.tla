--------------------------- MODULE MCAgentDialog ---------------------------
\* The values of the constants of AgentDialog for TLC.
EXTENDS AgentDialog
RemoteSymmetry == Permutations(Remotes)
=============================================================================
