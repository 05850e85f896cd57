----------------------------- MODULE MCCompletion -----------------------------
\* Completion on small instances.
EXTENDS Completion

CONSTANTS t1, t2, s1, s2

\* One turn leaves the choice to the row, one asks for a model of codex.
MCOptions ==
    [t \in {t1, t2} |-> IF t = t1 THEN [provider |-> "", model |-> ""]
                                  ELSE [provider |-> "or", model |-> "codex"]]

\* Two calls that patch one field in common.
MCPatch ==
    [s \in {s1, s2} |-> IF s = s1 THEN [provider |-> "openrouter", key |-> "k"]
                                  ELSE [provider |-> "mock"]]

MCText == <<"a", "b">>

MCFirstFile == FirstTokens
=============================================================================
