--------------------------------- MODULE LLM ---------------------------------
(***************************************************************************)
(* pkg/llm: the completions of the turns and the providers they may go to.   *)
(***************************************************************************)
CONSTANT Turns \* turns that ask for a completion

Providers == {"mock", "codex", "openrouter"}

\* The names a caller may give; any other stands for the configured provider.
normalizeProvider(name) ==
    CASE name \in {"openrouter", "or"} -> "openrouter"
      [] name \in {"codex", "openai"} -> "codex"
      [] name \in {"mock", "native"} -> "mock"
      [] OTHER -> ""
=============================================================================
