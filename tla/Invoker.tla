-------------------------------- MODULE Invoker --------------------------------
(***************************************************************************)
(* plugins/invoker-poc: the plugin that pairs the host with a tunnel service *)
(* and runs the tunnel's process.  Its loop handles one command at a time;   *)
(* beside it only the processes it started, and a goroutine for each that    *)
(* waits for its end.  What it has learned is kept in memory and in a file.  *)
(* The service, the browser of the user and cloudflared are external.        *)
(*                                                                           *)
(* Left out: the endpoints and names of the configuration, which every       *)
(* command resolves anew (only the save of it is kept), and the script that  *)
(* turns a text into an action, which is a copy of the one of PlanMode.      *)
(***************************************************************************)
EXTENDS Naturals

CONSTANTS Actions,     \* actions the script may ask for
          MaxAttempts, \* bound: logins that are started
          MaxTunnels,  \* bound: tunnel processes that are started
          MaxFaults,   \* bound: calls, writes and processes that fail, kills of the plugin
          MaxAges,     \* bound: logins that expire before the user is done
          MaxOther     \* bound: commands other than the pairing

ASSUME ActionsAssumption ==
    Actions \subseteq {"pair", "status", "auth_start", "auth_complete", "register",
                       "tunnel_on", "tunnel_off", "reset"}
ASSUME BoundsAssumption ==
    /\ MaxAttempts \in Nat /\ MaxTunnels \in Nat
    /\ MaxFaults \in Nat /\ MaxAges \in Nat /\ MaxOther \in Nat

VARIABLES
    at,       \* where the loop stands
    call,     \* the action it executes
    saving,   \* where saveLocked stands
    heed,     \* an error of the save ends the call
    mem,      \* the persisted state, as the plugin has it
    disk,     \* the file, as a start of the plugin takes it
    login,    \* what the service knows of each login
    old,      \* logins that are more than ten minutes old
    shown,    \* the last login whose URL the user was given, 0 for none
    attempts, \* logins started so far
    tunnel,   \* the tunnel the plugin knows, 0 for none
    proc,     \* the process of each tunnel
    told,     \* tunnels that were told to stop
    orphans,  \* tunnels whose plugin was killed
    tunnels,  \* tunnels started so far
    faults, ages, others

handlerVars == <<at, call, saving, heed>>
stateVars == <<mem, disk>>
loginVars == <<login, old, shown, attempts>>
tunnelVars == <<tunnel, proc, told, orphans, tunnels>>
boundVars == <<faults, ages, others>>
invokerVars == <<handlerVars, stateVars, loginVars, tunnelVars, boundVars>>

Attempts == 1..MaxAttempts
Tunnels == 1..MaxTunnels

\* The state: a machine token, a login that is pending (0 for none), the id of the
\* machine and its registration with subdomain and tunnel token.
State == [jwt : BOOLEAN, pending : {0} \cup Attempts, machine : BOOLEAN, registered : BOOLEAN]

Empty == [jwt |-> FALSE, pending |-> 0, machine |-> FALSE, registered |-> FALSE]

InvokerTypeOK ==
    /\ at \in {"off", "idle", "pair", "url", "complete", "poll", "exchange", "registered?",
               "register", "post", "running?", "tunnel", "spawn", "show", "answer"}
    /\ call \in Actions \cup {"none"}
    /\ saving \in {"no", "write", "rename"} /\ heed \in BOOLEAN
    /\ mem \in State /\ disk \in State
    /\ login \in [Attempts -> {"none", "open", "done", "spent"}]
    /\ old \subseteq Attempts /\ shown \in {0} \cup Attempts
    /\ attempts \in 0..MaxAttempts
    /\ tunnel \in {0} \cup Tunnels
    /\ proc \in [Tunnels -> {"none", "alive", "exited", "reaped", "gone"}]
    /\ told \subseteq Tunnels /\ orphans \subseteq Tunnels
    /\ tunnels \in 0..MaxTunnels
    /\ faults \in 0..MaxFaults /\ ages \in 0..MaxAges /\ others \in 0..MaxOther

InvokerInit ==
    /\ at = "off" /\ call = "none" /\ saving = "no" /\ heed = FALSE
    /\ mem = Empty /\ disk = Empty
    /\ login = [a \in Attempts |-> "none"] /\ old = {} /\ shown = 0 /\ attempts = 0
    /\ tunnel = 0 /\ proc = [t \in Tunnels |-> "none"] /\ told = {} /\ orphans = {}
    /\ tunnels = 0
    /\ faults = 0 /\ ages = 0 /\ others = 0

-----------------------------------------------------------------------------
(* Helpers *)

Fault ==
    /\ faults < MaxFaults
    /\ faults' = faults + 1
    /\ UNCHANGED <<ages, others>>

\* The loop takes a step of its call.
Goes(from, to) ==
    /\ at = from /\ saving = "no"
    /\ at' = to
    /\ UNCHANGED <<call, saving, heed>>

\* updatePersisted: memory changes, then the file is saved.
Updates(from, state, to, heeds) ==
    /\ at = from /\ saving = "no"
    /\ at' = to
    /\ mem' = state
    /\ saving' = "write" /\ heed' = heeds
    /\ UNCHANGED <<call, disk>>

\* The rest of a call after one that only pair continues.
Continues(to) == IF call = "pair" THEN to ELSE "answer"

\* tunnelRunning: the process was not waited for yet.
Running == tunnel # 0 /\ proc[tunnel] \in {"alive", "exited"}

\* Mutant: the process is not killed.
ForgetTunnel ==
    /\ tunnel' = 0
    /\ UNCHANGED <<proc, told, orphans, tunnels>>

StopTunnel ==
    /\ tunnel' = 0
    /\ told' = told \cup ({tunnel} \ {0})
    /\ UNCHANGED <<proc, orphans, tunnels>>

-----------------------------------------------------------------------------
(* The process of the plugin *)

Starts ==
    /\ Goes("off", "idle")
    /\ mem' = disk
    /\ UNCHANGED <<disk, loginVars, tunnelVars, boundVars>>

\* A file that cannot be read or decoded is taken as empty: what it says is lost
\* with the next save.
StartsEmpty ==
    /\ Fault
    /\ Goes("off", "idle")
    /\ mem' = Empty
    /\ shown' = 0
    /\ UNCHANGED <<disk, login, old, attempts, tunnelVars>>

\* The host closes stdin and the deferred stop runs.
Ends ==
    /\ Goes("idle", "off")
    /\ others < MaxOther /\ others' = others + 1
    /\ tunnel' = 0
    /\ told' = told \cup ({tunnel} \ {0})
    /\ orphans' = orphans \cup told'
    /\ UNCHANGED <<stateVars, loginVars, proc, tunnels, faults, ages>>

\* The host kills it: nothing is deferred, its tunnels go on.
Killed ==
    /\ at # "off"
    /\ Fault
    /\ at' = "off" /\ call' = "none" /\ saving' = "no" /\ heed' = FALSE
    /\ tunnel' = 0
    /\ orphans' = 1..tunnels
    /\ UNCHANGED <<stateVars, loginVars, proc, told, tunnels>>

-----------------------------------------------------------------------------
(* saveLocked *)

SaveEnds ==
    /\ saving' = "no" /\ heed' = FALSE
    /\ UNCHANGED call

\* Mutant: the file itself is written, and is empty before it is whole.
WriteFile ==
    /\ saving = "write"
    /\ saving' = "rename"
    /\ disk' = Empty
    /\ UNCHANGED <<at, call, heed, mem, loginVars, tunnelVars, boundVars>>

WriteTmp ==
    /\ saving = "write"
    /\ saving' = "rename"
    /\ UNCHANGED <<at, call, heed, stateVars, loginVars, tunnelVars, boundVars>>

Rename ==
    /\ saving = "rename"
    /\ SaveEnds
    /\ disk' = mem
    /\ UNCHANGED <<at, mem, loginVars, tunnelVars, boundVars>>

\* Memory keeps what the file did not get.
SaveFails ==
    /\ saving # "no"
    /\ Fault
    /\ SaveEnds
    /\ at' = IF heed THEN "answer" ELSE at
    /\ UNCHANGED <<stateVars, loginVars, tunnelVars>>

-----------------------------------------------------------------------------
(* handleCall and executeAction *)

\* Every action that needs the configuration resolves it, which saves.
First(a) ==
    CASE a = "pair" -> "pair"
      [] a = "auth_start" -> "url"
      [] a = "auth_complete" -> "complete"
      [] a = "register" -> "register"
      [] a = "tunnel_on" -> "tunnel"
      [] OTHER -> "answer"

CommandWith(a, change) ==
    /\ at = "idle" /\ saving = "no"
    /\ call' = a
    /\ at' = First(a)
    /\ mem' = change
    /\ saving' = IF a = "tunnel_off" THEN "no" ELSE "write"
    /\ heed' = (a = "reset")
    /\ shown' = IF a = "reset" THEN 0 ELSE shown
    /\ IF a \in {"tunnel_off", "reset"} THEN StopTunnel ELSE UNCHANGED tunnelVars
    /\ UNCHANGED <<disk, login, old, attempts, faults, ages>>

Pair ==
    /\ "pair" \in Actions
    /\ CommandWith("pair", mem)
    /\ UNCHANGED others

HandleCall ==
    /\ others < MaxOther /\ others' = others + 1
    /\ \E a \in Actions \ {"pair"} :
         CommandWith(a, IF a = "reset" THEN [Empty EXCEPT !.machine = mem.machine] ELSE mem)

AnswerCall ==
    /\ at = "answer" /\ saving = "no"
    /\ at' = "idle" /\ call' = "none"
    /\ UNCHANGED <<saving, heed, stateVars, loginVars, tunnelVars, boundVars>>

\* A request that fails before or at the service ends the call with its error.
RequestFails(from) ==
    /\ Goes(from, "answer")
    /\ Fault
    /\ UNCHANGED <<stateVars, loginVars, tunnelVars>>

-----------------------------------------------------------------------------
(* pair *)

Decides(from, to) ==
    /\ Goes(from, to)
    /\ UNCHANGED <<stateVars, loginVars, tunnelVars, boundVars>>

PairBegins ==
    Decides("pair", IF mem.jwt THEN "registered?" ELSE IF mem.pending = 0 THEN "url" ELSE "complete")

PairRegisters == Decides("registered?", IF mem.registered THEN "running?" ELSE "register")

\* A pairing that had nothing to do shows the status, which saves once more.
PairTunnels ==
    \/ Decides("running?", IF Running THEN "answer" ELSE "tunnel")
    \/ /\ Running
       /\ Updates("running?", mem, "answer", FALSE)
       /\ UNCHANGED <<loginVars, tunnelVars, boundVars>>

-----------------------------------------------------------------------------
(* authStart *)

Authorizes(keeps) ==
    /\ attempts < MaxAttempts
    /\ attempts' = attempts + 1
    /\ login' = [login EXCEPT ![attempts'] = "open"]
    /\ shown' = IF call = "auth_start" THEN 0 ELSE shown
    /\ keeps
    /\ UNCHANGED <<old, tunnelVars, boundVars>>

WithPending(a) == [mem EXCEPT !.pending = a]

\* Mutant: the login is kept in memory only.
AuthStartUnsaved ==
    Authorizes(Goes("url", "show") /\ mem' = WithPending(attempts + 1) /\ UNCHANGED disk)

AuthStart == Authorizes(Updates("url", WithPending(attempts + 1), "show", TRUE))

\* The URL is the answer.
ShowUrl ==
    /\ at = "show" /\ saving = "no"
    /\ at' = "idle" /\ call' = "none"
    /\ shown' = mem.pending
    /\ UNCHANGED <<saving, heed, stateVars, login, old, attempts, tunnelVars, boundVars>>

-----------------------------------------------------------------------------
(* authComplete *)

AuthComplete ==
    /\ mem.pending \notin old
    /\ Decides("complete", IF mem.pending = 0 THEN "answer" ELSE "poll")

\* Mutant: a login does not expire.
AuthNeverExpires == FALSE

AuthExpires ==
    /\ mem.pending \in old
    /\ Updates("complete", WithPending(0), "answer", FALSE)
    /\ UNCHANGED <<loginVars, tunnelVars, boundVars>>

\* What the service says of a login whose code was exchanged is its own affair.
Poll ==
    \E ready \in BOOLEAN :
        /\ Decides("poll", IF ready THEN "exchange" ELSE "answer")
        /\ login[mem.pending] \in {"spent", IF ready THEN "done" ELSE "open"}

Spends == login' = [login EXCEPT ![mem.pending] = "spent"]

Exchange ==
    /\ Updates("exchange", [mem EXCEPT !.jwt = TRUE, !.pending = 0], Continues("registered?"), TRUE)
    /\ login[mem.pending] = "done"
    /\ Spends
    /\ UNCHANGED <<old, shown, attempts, tunnelVars, boundVars>>

ExchangeRefused ==
    /\ Decides("exchange", "answer")
    /\ login[mem.pending] = "spent"

\* The code is spent, but the answer does not arrive.
ExchangeLost ==
    /\ Fault
    /\ Goes("exchange", "answer")
    /\ login[mem.pending] = "done"
    /\ Spends
    /\ UNCHANGED <<stateVars, old, shown, attempts, tunnelVars>>

-----------------------------------------------------------------------------
(* registerMachine *)

Register ==
    /\ \/ ~mem.jwt /\ Goes("register", "answer") /\ UNCHANGED stateVars
       \/ mem.jwt /\ mem.machine /\ Goes("register", "post") /\ UNCHANGED stateVars
       \/ mem.jwt /\ ~mem.machine /\ Updates("register", [mem EXCEPT !.machine = TRUE], "post", TRUE)
    /\ UNCHANGED <<loginVars, tunnelVars, boundVars>>

\* The service registers a machine once more when its answer was lost.
Registered ==
    /\ Updates("post", [mem EXCEPT !.registered = TRUE], Continues("running?"), TRUE)
    /\ UNCHANGED <<loginVars, tunnelVars, boundVars>>

-----------------------------------------------------------------------------
(* startTunnel and waitTunnel *)

StartTunnel ==
    Decides("tunnel", IF ~mem.registered \/ Running THEN "answer" ELSE "spawn")

\* Mutant: it is not looked whether a tunnel runs.
StartAnyTunnel == Decides("tunnel", IF ~mem.registered THEN "answer" ELSE "spawn")

SpawnTunnel ==
    /\ tunnels < MaxTunnels
    /\ Goes("spawn", "answer")
    /\ tunnels' = tunnels + 1
    /\ tunnel' = tunnels'
    /\ proc' = [proc EXCEPT ![tunnels'] = "alive"]
    /\ UNCHANGED <<stateVars, loginVars, told, orphans, boundVars>>

ProcessGoes(t, from, to) ==
    /\ proc[t] = from
    /\ proc' = [proc EXCEPT ![t] = to]
    /\ UNCHANGED <<handlerVars, stateVars, loginVars, told, orphans, tunnels>>

\* A process ends when it is told to, or by itself.
Exits(t) ==
    /\ ProcessGoes(t, "alive", "exited")
    /\ UNCHANGED tunnel
    /\ \/ t \in told /\ UNCHANGED boundVars
       \/ t \notin told /\ Fault

\* Wait returns: the state of the process is set before the lock is taken.
Waited(t) ==
    /\ at # "off" /\ t \notin orphans
    /\ ProcessGoes(t, "exited", "reaped")
    /\ UNCHANGED <<tunnel, boundVars>>

ForgetsWhen(t, known) ==
    /\ at # "off" /\ t \notin orphans
    /\ ProcessGoes(t, "reaped", "gone")
    /\ tunnel' = IF known THEN 0 ELSE tunnel
    /\ UNCHANGED boundVars

\* Mutant: whatever tunnel is known is forgotten.
ForgetsAny(t) == ForgetsWhen(t, TRUE)

Forgets(t) == ForgetsWhen(t, tunnel = t)

-----------------------------------------------------------------------------
(* The user and time *)

Login ==
    /\ shown # 0
    /\ login[shown] = "open"
    /\ login' = [login EXCEPT ![shown] = "done"]
    /\ UNCHANGED <<handlerVars, stateVars, old, shown, attempts, tunnelVars, boundVars>>

Ages(a) ==
    /\ a <= attempts /\ a \notin old
    /\ old' = old \cup {a}
    /\ UNCHANGED <<handlerVars, stateVars, login, shown, attempts, tunnelVars, faults, others>>

\* Time passes until a login expires that nobody can finish any more; it does not
\* while the login is started.
StuckAges ==
    \E a \in Attempts :
        /\ a # shown \/ login[a] = "spent"
        /\ at = "show" => a # mem.pending
        /\ Ages(a)
        /\ UNCHANGED ages

\* The user is slow.
LoginAges ==
    /\ shown # 0
    /\ ages < MaxAges /\ ages' = ages + 1
    /\ Ages(shown)

-----------------------------------------------------------------------------

Request ==
    \/ AuthStart \/ Poll \/ Exchange \/ ExchangeRefused \/ Registered

Loop ==
    \/ WriteTmp \/ Rename
    \/ PairBegins \/ PairRegisters \/ PairTunnels
    \/ ShowUrl \/ AuthComplete \/ AuthExpires \/ Request
    \/ Register \/ StartTunnel \/ SpawnTunnel \/ AnswerCall

Failure ==
    \/ StartsEmpty \/ Killed \/ SaveFails \/ ExchangeLost
    \/ \E from \in {"url", "poll", "exchange", "post", "spawn"} : RequestFails(from)

Process(t) == Waited(t) \/ Forgets(t)

InvokerNext ==
    \/ Starts \/ Ends \/ Pair \/ HandleCall \/ Loop \/ Failure
    \/ \E t \in Tunnels : Process(t) \/ Exits(t)
    \/ Login \/ StuckAges \/ LoginAges

\* The loop is scheduled and its requests have a timeout of thirty seconds; the
\* host runs, and the user goes on with the pairing and with the login shown.
Fairness ==
    /\ WF_invokerVars(Loop)
    /\ WF_invokerVars(Starts) /\ WF_invokerVars(Pair)
    /\ WF_invokerVars(Login) /\ WF_invokerVars(StuckAges)
    /\ \A t \in Tunnels : WF_invokerVars(Process(t))

InvokerSpec == InvokerInit /\ [][InvokerNext]_invokerVars /\ Fairness

-----------------------------------------------------------------------------
(* Properties *)

\* No tunnel runs that the plugin does not know and cannot stop, unless the plugin
\* was killed: no end of an old process makes it forget a new one, no second
\* process is started beside one that runs, and an orderly end leaves none.
TunnelIsKnown ==
    \A t \in Tunnels \ (told \cup orphans) : proc[t] = "alive" => tunnel = t

\* README.md:29 of the plugin, "after browser login, call again and it continues":
\* a login whose URL the user was shown is on file, whatever write fails and
\* whenever the plugin is killed, until it expires or its code is spent.
ShownIsKept ==
    shown # 0 /\ shown \notin old /\ login[shown] # "spent" =>
        disk.pending = shown

\* A user who goes on with /cstunnel comes to a tunnel that runs, after whatever
\* failures, and also from a login whose URL was never shown or whose code was
\* spent in vain.
PairingEnds == <>[]Running
=============================================================================
