---------------------------- MODULE MCAgentRuntime ----------------------------
\* AgentRuntime on small instances: requests are interchangeable for safety, and
\* so are sessions.
EXTENDS AgentRuntime, TLC

Symmetry == Permutations(Requests) \cup Permutations(Sessions)
=============================================================================
