--------------------------------- MODULE Host ---------------------------------
(***************************************************************************)
(* cmd/elok/main.go, runCommand: the host opens and migrates its store,      *)
(* starts its plugins and its channels, serves, and closes one part after    *)
(* the other when a signal arrives or a part fails, the log last.            *)
(* Goroutines of turns, connections and texts are not waited for: they go    *)
(* on, and log, until the process ends.  Other hosts may use the database.   *)
(***************************************************************************)
EXTENDS ChannelManager, LogExporter, Store

CONSTANTS This,   \* this host
          Plugins \* plugins it is configured with

ASSUME HostAssumption == This \in Hosts /\ Plugins \in Nat

VARIABLES main,   \* where runCommand stands
          plugins \* plugins that were started and not stopped

hostVars == <<main, plugins>>
vars == <<channelVars, logVars, storeVars, hostVars>>

TypeOK ==
    /\ ChannelTypeOK /\ LogTypeOK /\ StoreTypeOK
    /\ plugins \in 0..Plugins
    /\ main \in {"open", "migrate", "register", "start", "serve", "channels", "plugins", "store", "log", "wait", "end"}

Init == ChannelInit /\ LogInit /\ StoreInit /\ main = "open" /\ plugins = 0

\* The process lives.
Alive == main # "end" /\ ~panicked

Advance(from, to) == main = from /\ main' = to

-----------------------------------------------------------------------------
(* runCommand *)

OpenDatabase ==
    /\ \/ OpenStore(This) /\ Advance("open", "migrate")
       \/ Advance("open", "log") /\ UNCHANGED storeVars
    /\ UNCHANGED <<channelVars, logVars, plugins>>

MigrateStore ==
    /\ main = "migrate"
    /\ Migrate(This) \/ MigrateFails(This)
    /\ main' = CASE boot'[This] = "ready" -> "register"
                 [] boot'[This] = "failed" -> "store"
                 [] OTHER -> "migrate"
    /\ UNCHANGED <<channelVars, logVars, plugins>>

\* Bound: other hosts are followed until this one goes on from its store, and it
\* goes on when none is starting.
OthersEnded == \A h \in Hosts \ {This} : boot[h] = "off"

\* One plugin after the other.  When one does not start, those before it are left
\* to the end of the process: the deferred Stop is not set up yet.
StartPlugin ==
    /\ main = "register" /\ OthersEnded
    /\ \/ plugins < Plugins /\ plugins' = plugins + 1 /\ UNCHANGED main
       \/ plugins < Plugins /\ Advance("register", "store") /\ UNCHANGED plugins
       \/ plugins = Plugins /\ Advance("register", "start") /\ UNCHANGED plugins
    /\ UNCHANGED <<channelVars, logVars, storeVars>>

StartChannels ==
    /\ main = "start"
    /\ StartStep
    /\ main' = CASE phase' = "started" -> "serve"
                 [] phase' = "failed" -> "plugins"
                 [] OTHER -> "start"
    /\ UNCHANGED <<logVars, storeVars, plugins>>

\* A signal, or the gateway fails.  Its shutdown does not wait for connections.
GatewayEnds ==
    /\ Advance("serve", "channels")
    /\ UNCHANGED <<channelVars, logVars, storeVars, plugins>>

CloseChannels ==
    /\ main = "channels"
    /\ CloseStep
    /\ main' = IF phase' = "closed" THEN "plugins" ELSE "channels"
    /\ UNCHANGED <<logVars, storeVars, plugins>>

\* One after the other: a stop ends, see PluginRPC, also when it fails.
StopPlugin ==
    /\ \/ plugins > 0 /\ plugins' = plugins - 1 /\ UNCHANGED main
       \/ plugins = 0 /\ Advance("plugins", "store") /\ UNCHANGED plugins
    /\ main = "plugins"
    /\ UNCHANGED <<channelVars, logVars, storeVars>>

CloseStore ==
    /\ Advance("store", "log")
    /\ HostGone(This)
    /\ UNCHANGED <<channelVars, logVars, plugins>>

CloseLog ==
    /\ \/ CloseInput /\ Advance("log", "wait")
       \/ CloseDone /\ Advance("wait", "end")
    /\ UNCHANGED <<channelVars, storeVars, plugins>>

Start == OpenDatabase \/ MigrateStore \/ StartPlugin \/ StartChannels

Shutdown == CloseChannels \/ StopPlugin \/ CloseStore \/ CloseLog

\* Another host starts, ends or is killed, whatever this one does.
OtherHost ==
    /\ main \in {"open", "migrate", "register"}
    /\ \E h \in Hosts \ {This} :
         OpenStore(h) \/ Migrate(h) \/ MigrateFails(h) \/ HostGone(h)
    /\ UNCHANGED <<channelVars, logVars, hostVars>>

-----------------------------------------------------------------------------
(* The goroutines around it *)

Client == (LinkChange \/ HandleEvent \/ \E m \in Messages : Arrives(m)) /\ UNCHANGED <<logVars, storeVars, hostVars>>

\* A turn ends well only while the store is open.
TextAnswered(m) ==
    /\ main \notin {"log", "wait"}
    /\ Answered(m)
    /\ UNCHANGED <<logVars, storeVars, hostVars>>

TextStep(m) ==
    /\ RespondFails(m) \/ SendReply(m)
    /\ UNCHANGED <<logVars, storeVars, hostVars>>

Write == (WriteBegins \/ WriteEnds) /\ UNCHANGED <<channelVars, storeVars, hostVars>>

Export == LogLoop /\ UNCHANGED <<channelVars, storeVars, hostVars>>

Next ==
    /\ Alive
    /\ \/ Start \/ GatewayEnds \/ Shutdown \/ OtherHost
       \/ Client \/ \E m \in Messages : TextAnswered(m) \/ TextStep(m)
       \/ Write \/ Export

\* Goroutines are scheduled; posts and texts have timeouts, and a plugin's stop
\* ends, see PluginRPC.
Fairness ==
    /\ WF_vars(Alive /\ (Start \/ Shutdown))
    /\ WF_vars(Alive /\ Export)
    /\ \A m \in Messages : WF_vars(Alive /\ TextStep(m))

Spec == Init /\ [][Next]_vars /\ Fairness

-----------------------------------------------------------------------------
(* Properties *)

\* A host that begins to shut down, or whose start fails, comes to its end, whatever
\* its channel, its turns, its log and other hosts are doing.
HostExits == main \in {"channels", "plugins", "store"} ~> ~Alive

\* No text is handled for ever, also when the runtime never answers.
TextsEnd ==
    \A m \in Messages : message[m] = "handling" ~> message[m] \in {"replied", "failed"} \/ ~Alive
=============================================================================
