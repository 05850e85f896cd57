------------------------------ MODULE Completion ------------------------------
(***************************************************************************)
(* A completion from the configuration to its text: the row of the tenant    *)
(* (RuntimeConfig), the choice of the provider (routing.go), for codex the   *)
(* credentials (CodexAuth), and the stream (CompletionStream).  Turns of     *)
(* several sessions complete at once, while the configuration is changed.    *)
(***************************************************************************)
EXTENDS FiniteSets, RuntimeConfig, CodexAuth, CompletionStream

CONSTANTS Options,         \* provider and model that a turn asks for itself
          DefaultProvider, \* the configured provider
          HasModel,        \* a model is configured
          MaxBusy          \* bound: turns and changes of the row under way at once

VARIABLE route \* the provider that each turn was sent to

vars == <<configVars, codexVars, streamVars, route>>

\* A model that is named after a provider stands for one with its prefix, as
\* codex#m, and its provider goes before the one that is asked for.
Prefix(model) == normalizeProvider(model)

First(name, fallback) == IF name = "" THEN fallback ELSE name

Init ==
    /\ ConfigInit /\ CodexInit /\ StreamInit
    /\ route = [t \in Turns |-> "none"]

Completing(t) == route[t] # "none" /\ ~(result[t] # "none" /\ reader[t] \in {"none", "closed"})

Room ==
    Cardinality({t \in Turns : Completing(t)}) + Cardinality({s \in Setters : setter[s] = "patch"})
        < MaxBusy

-----------------------------------------------------------------------------
(* sendTurn, resolve and Stream *)

Model(t) == First(Options[t].model, row.model)

\* What the caller asks for goes before the row, field by field.
Routed(t) ==
    First(Prefix(Model(t)),
          First(normalizeProvider(First(Options[t].provider, row.provider)),
                First(normalizeProvider(DefaultProvider), "mock")))

\* codex uses the configured model and the mock has one of its own.
Ready(t) ==
    Routed(t) = "openrouter" => (row.key # "" \/ HasAPIKey) /\ (Model(t) # "" \/ HasModel)

Route(t) ==
    /\ route[t] = "none" /\ Room
    /\ route' = [route EXCEPT ![t] = Routed(t)]
    /\ IF Routed(t) = "codex"
       THEN /\ AuthGoes(t, "none", "load")
            /\ UNCHANGED <<credential, allowRefresh, file, serviceVars, lost, faults>>
       ELSE UNCHANGED codexVars
    /\ IF Ready(t) THEN UNCHANGED streamVars ELSE NoStream(t)
    /\ UNCHANGED configVars

\* The mock client opens its stream at once; openrouter posts its request, which
\* may fail; codex has posted it.
Streams(t) ==
    /\ route[t] \in Providers
    /\ route[t] = "codex" => auth[t] = "streams"
    /\ result[t] = "none"
    /\ Open(t, route[t])
    /\ UNCHANGED <<configVars, codexVars, route>>

CompletionFails(t) ==
    /\ \/ auth[t] = "failed" /\ UNCHANGED codexVars
       \/ /\ route[t] = "openrouter" /\ Fault
          /\ UNCHANGED <<turnVars, file, serviceVars, lost>>
    /\ NoStream(t)
    /\ UNCHANGED <<configVars, route>>

-----------------------------------------------------------------------------
(* The parts *)

SetCall(s) ==
    /\ setter[s] = "idle" => Room
    /\ \/ SetStep(s) /\ UNCHANGED codexVars
       \/ SetFails(s) /\ Fault /\ UNCHANGED <<turnVars, file, serviceVars, lost>>
    /\ UNCHANGED <<streamVars, route>>

Authorization(t) ==
    /\ Authorize(t)
    /\ UNCHANGED <<configVars, streamVars, route>>

Reads(t) ==
    /\ ReadStream(t) \/ (route[t] # "mock" /\ Breaks(t))
    /\ UNCHANGED <<configVars, codexVars, route>>

Collects(t) ==
    /\ Collect(t)
    /\ UNCHANGED <<configVars, codexVars, route>>

Outside ==
    /\ Expire \/ Bar \/ LogIn \/ \E t \in Turns : AuthFails(t)
    /\ UNCHANGED <<configVars, streamVars, route>>

\* The host ends: turns and calls under way are gone, the row and the file stay.
Ends ==
    /\ HostEnds
    /\ setter' = [s \in Setters |-> IF setter[s] = "patch" THEN "over" ELSE setter[s]]
    /\ reader' = [t \in Turns |-> IF route[t] = "none" THEN "none" ELSE "closed"]
    /\ result' = [t \in Turns |-> IF route[t] # "none" /\ result[t] = "none" THEN "error" ELSE result[t]]
    /\ UNCHANGED <<row, draft, atomic, contested, feed, whole, events, done, waits, text, route>>

-----------------------------------------------------------------------------

Next ==
    \/ \E s \in Setters : SetCall(s)
    \/ \E t \in Turns :
         Route(t) \/ Streams(t) \/ CompletionFails(t) \/ Authorization(t) \/ Reads(t) \/ Collects(t)
    \/ Outside \/ Ends

\* Goroutines are scheduled; a request is answered or fails, and a body goes on
\* or breaks, within the 90 seconds of the HTTP client.
Fairness ==
    WF_vars(\E t \in Turns :
        Streams(t) \/ CompletionFails(t) \/ Authorization(t) \/ Reads(t) \/ Collects(t))

Spec == Init /\ [][Next]_vars /\ Fairness

-----------------------------------------------------------------------------
(* Properties *)

\* A completion ends, and so does the goroutine of its stream, whatever the
\* provider and the service of tokens answer: the queue of its session goes on.
CompletionEnds == <>[](\A t \in Turns : ~Completing(t))
=============================================================================
