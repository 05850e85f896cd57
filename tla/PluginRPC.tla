------------------------------ MODULE PluginRPC ------------------------------
(***************************************************************************)
(* pkg/plugins/manager.go: one plugin process and the calls the host makes  *)
(* to it.  Callers write a line to the plugin's stdin under mu and wait for *)
(* a response on a channel of their own; readLoop matches the lines of the  *)
(* plugin's stdout with the pending calls; stop closes stdin and kills a    *)
(* plugin that does not go.  Stdin and stdout are pipes: a write to a full  *)
(* one blocks.  The plugin is any process that speaks the protocol.         *)
(***************************************************************************)
EXTENDS Naturals, Sequences

CONSTANTS Calls,      \* calls of runtimePlugin.call; each is its own request id
          Register,   \* the "register" call startPlugin makes
          Deadlines,  \* calls whose context may end; a turn's calls have none
          StdinSize,  \* lines the stdin pipe holds
          StdoutSize, \* lines the stdout pipe holds
          MaxNoise    \* bound: lines of stdout that answer no open call

ASSUME PluginAssumption ==
    /\ Register \in Calls
    /\ Deadlines \subseteq Calls
    /\ StdinSize \in Nat \ {0} /\ StdoutSize \in Nat \ {0} /\ MaxNoise \in Nat

VARIABLES
    call,     \* where each call stands
    ctxDone,  \* calls whose context is done
    pending,  \* keys of runtimePlugin.pending
    ch,       \* the response channel of each call: room for one
    late,     \* calls registered after readLoop ended, a history
    stdin,    \* calls in the stdin pipe
    stdout,   \* lines in the stdout pipe
    reader,   \* where readLoop stands
    line,     \* the line it looks at
    plugin,   \* the process
    working,  \* calls the plugin read and has not answered
    answered, \* calls it has answered, a history
    noise,    \* lines of stdout so far that answer no open call
    loaded,   \* startPlugin returned: the plugin is in Manager.plugins
    host      \* what startPlugin and stop are at

callVars == <<call, ctxDone, ch, late>>
pluginVars == <<plugin, working, answered, noise>>
vars == <<callVars, pending, stdin, stdout, reader, line, pluginVars, loaded, host>>

Response == {"result", "error"}
Line == [type : Response \cup {"event", "eof"}, id : Calls]
Over == {"ok", "failed"}

TypeOK ==
    /\ call \in [Calls -> {"idle", "lock", "write", "undo", "wait", "drop"} \cup Over]
    /\ ctxDone \in SUBSET Deadlines
    /\ pending \in SUBSET Calls
    /\ \A c \in Calls : ch[c] \in Seq(Response) /\ Len(ch[c]) <= 1
    /\ late \in SUBSET Calls
    /\ stdin \in Seq(Calls) /\ Len(stdin) <= StdinSize
    /\ stdout \in Seq(Line) /\ Len(stdout) <= StdoutSize
    /\ reader \in {"scan", "lookup", "send", "fail", "done"}
    /\ line \in Line
    /\ plugin \in {"alive", "hung", "dead"}
    /\ working \in SUBSET Calls
    /\ answered \in SUBSET Calls
    /\ noise \in 0..MaxNoise
    /\ loaded \in BOOLEAN
    /\ host \in {"starting", "serving", "closing", "killed", "stopped"}

\* startPlugin has started the process and its readLoop, and calls "register".
Init ==
    /\ call = [c \in Calls |-> IF c = Register THEN "lock" ELSE "idle"]
    /\ ctxDone = {}
    /\ pending = {}
    /\ ch = [c \in Calls |-> <<>>]
    /\ late = {}
    /\ stdin = <<>>
    /\ stdout = <<>>
    /\ reader = "scan"
    /\ line = [type |-> "event", id |-> Register]
    /\ plugin = "alive"
    /\ working = {}
    /\ answered = {}
    /\ noise = 0
    /\ loaded = FALSE
    /\ host = "starting"

\* mu is held over one step only, except by a call while it writes to stdin.
Unlocked == \A c \in Calls : call[c] # "write"

StdinOpen == host \in {"starting", "serving"} /\ plugin # "dead"

-----------------------------------------------------------------------------
(* call *)

Goto(c, next) == call' = [call EXCEPT ![c] = next]

\* A turn or a listing makes a call.  The runtime is not told of stop: a worker
\* that has the plugin in its hands may still call it.
Begin(c) ==
    /\ loaded
    /\ call[c] = "idle"
    /\ Goto(c, "lock")
    /\ UNCHANGED <<ctxDone, pending, ch, late, stdin, stdout, reader, line, pluginVars, loaded, host>>

\* mu.Lock, and the response channel is registered.
AddPending(c) ==
    /\ call[c] = "lock"
    /\ Unlocked
    /\ Goto(c, "write")
    /\ pending' = pending \cup {c}
    /\ late' = IF reader = "done" THEN late \cup {c} ELSE late
    /\ UNCHANGED <<ctxDone, ch, stdin, stdout, reader, line, pluginVars, loaded, host>>

\* io.WriteString under mu: it waits while the pipe is full, and fails when
\* stdin was closed or the process is gone.
Write(c) ==
    /\ call[c] = "write"
    /\ \/ /\ StdinOpen
          /\ Len(stdin) < StdinSize
          /\ stdin' = Append(stdin, c)
          /\ Goto(c, "wait")
       \/ /\ ~StdinOpen
          /\ Goto(c, "undo")
          /\ UNCHANGED stdin
    /\ UNCHANGED <<ctxDone, pending, ch, late, stdout, reader, line, pluginVars, loaded, host>>

EndContext(c) ==
    /\ c \in Deadlines \ ctxDone
    /\ call[c] \in {"lock", "write", "wait"}
    /\ ctxDone' = ctxDone \cup {c}
    /\ UNCHANGED <<call, pending, ch, late, stdin, stdout, reader, line, pluginVars, loaded, host>>

\* The select takes either ready branch.
Abandon(c) ==
    /\ call[c] = "wait"
    /\ c \in ctxDone
    /\ Goto(c, "drop")
    /\ UNCHANGED <<ctxDone, pending, ch, late, stdin, stdout, reader, line, pluginVars, loaded, host>>

\* The delete after a failed write, and after the context ended.
Remove(c, next) ==
    /\ call[c] \in {"undo", "drop"}
    /\ Unlocked
    /\ pending' = pending \ {c}
    /\ Goto(c, next)
    /\ UNCHANGED <<ctxDone, ch, late, stdin, stdout, reader, line, pluginVars, loaded, host>>

\* Mutant: a call whose context ended goes on waiting.
RemoveAndWait(c) == Remove(c, IF call[c] = "drop" THEN "wait" ELSE "failed")

RemovePending(c) == Remove(c, "failed")

Receive(c) ==
    /\ call[c] = "wait"
    /\ ch[c] # <<>>
    /\ Goto(c, IF Head(ch[c]) = "result" THEN "ok" ELSE "failed")
    /\ ch' = [ch EXCEPT ![c] = Tail(@)]
    /\ UNCHANGED <<ctxDone, pending, late, stdin, stdout, reader, line, pluginVars, loaded, host>>

-----------------------------------------------------------------------------
(* readLoop *)

\* Events are logged.  The scanner ends when the plugin closed its stdout or
\* sent a line above the limit of 2 MiB, with the process alive or dead.
ReadLine ==
    /\ reader = "scan"
    /\ stdout # <<>>
    /\ line' = Head(stdout)
    /\ stdout' = Tail(stdout)
    /\ reader' = CASE line'.type \in Response -> "lookup"
                   [] line'.type = "event" -> "scan"
                   [] line'.type = "eof" -> "fail"
    /\ UNCHANGED <<callVars, pending, stdin, pluginVars, loaded, host>>

LookupUnder(found, rest, id) ==
    /\ reader = "lookup"
    /\ Unlocked
    /\ pending' = rest
    /\ reader' = IF found THEN "send" ELSE "scan"
    /\ line' = [line EXCEPT !.id = id]
    /\ UNCHANGED <<callVars, stdin, stdout, pluginVars, loaded, host>>

\* Mutants: the entry stays in the map; the response goes to any pending call.
LookupKeeps == LookupUnder(line.id \in pending, pending, line.id)
LookupAny == \E c \in Calls :
    LookupUnder(c \in pending, pending \ {c}, c)

Lookup == LookupUnder(line.id \in pending, pending \ {line.id}, line.id)

\* ch <- env, outside mu.
Deliver ==
    /\ reader = "send"
    /\ ch[line.id] = <<>>
    /\ ch' = [ch EXCEPT ![line.id] = <<line.type>>]
    /\ reader' = "scan"
    /\ UNCHANGED <<call, ctxDone, pending, late, stdin, stdout, line, pluginVars, loaded, host>>

Eof ==
    /\ reader = "scan"
    /\ stdout = <<>>
    /\ plugin = "dead"
    /\ reader' = "fail"
    /\ UNCHANGED <<callVars, pending, stdin, stdout, line, pluginVars, loaded, host>>

FailWith(told) ==
    /\ reader = "fail"
    /\ Unlocked
    /\ \A c \in told : ch[c] = <<>>
    /\ ch' = [c \in Calls |-> IF c \in told THEN <<"error">> ELSE ch[c]]
    /\ pending' = {}
    /\ reader' = "done"
    /\ UNCHANGED <<call, ctxDone, late, stdin, stdout, line, pluginVars, loaded, host>>

\* Mutant: the map is cleared and nobody is told.
FailNobody == FailWith({})

\* plugin_closed for every pending call, under mu.
FailPending == FailWith(pending)

-----------------------------------------------------------------------------
(* The plugin process, any program that speaks the protocol *)

PluginReads ==
    /\ plugin = "alive"
    /\ stdin # <<>>
    /\ working' = working \cup {Head(stdin)}
    /\ stdin' = Tail(stdin)
    /\ UNCHANGED <<callVars, pending, stdout, reader, line, plugin, answered, noise, loaded, host>>

PluginAnswers(c) ==
    /\ plugin = "alive"
    /\ c \in working
    /\ Len(stdout) < StdoutSize
    /\ \E type \in Response : stdout' = Append(stdout, [type |-> type, id |-> c])
    /\ working' = working \ {c}
    /\ answered' = answered \cup {c}
    /\ UNCHANGED <<callVars, pending, stdin, reader, line, plugin, noise, loaded, host>>

\* An event, an answer sent twice, or the end of the stream.
PluginNoise ==
    /\ plugin = "alive"
    /\ noise < MaxNoise
    /\ Len(stdout) < StdoutSize
    /\ noise' = noise + 1
    /\ \E l \in [type : {"event", "eof"}, id : {Register}] \cup [type : {"result"}, id : answered] :
          stdout' = Append(stdout, l)
    /\ UNCHANGED <<callVars, pending, stdin, reader, line, plugin, working, answered, loaded, host>>

\* It stops reading and writing, and lives on.
PluginHangs ==
    /\ plugin = "alive"
    /\ plugin' = "hung"
    /\ UNCHANGED <<callVars, pending, stdin, stdout, reader, line, working, answered,
                   noise, loaded, host>>

\* The process ends: by itself, killed from outside, or by exec.CommandContext
\* when the host's context ends.
PluginDies ==
    /\ plugin # "dead"
    /\ plugin' = "dead"
    /\ working' = {}
    /\ stdin' = <<>>
    /\ UNCHANGED <<callVars, pending, stdout, reader, line, answered, noise, loaded, host>>

-----------------------------------------------------------------------------
(* startPlugin and stop *)

HostUnchanged == UNCHANGED <<callVars, pending, stdin, reader, line, answered, noise>>

\* A manifest with an id came back.
Started ==
    /\ host = "starting"
    /\ call[Register] = "ok"
    /\ host' = "serving"
    /\ loaded' = TRUE
    /\ HostUnchanged
    /\ UNCHANGED <<stdout, plugin, working>>

\* stop closes stdin: after a failed registration, a manifest without an id, or
\* when the host shuts down.
CloseStdin ==
    /\ host \in {"starting", "serving"}
    /\ call[Register] \in Over
    /\ host' = "closing"
    /\ HostUnchanged
    /\ UNCHANGED <<stdout, plugin, working, loaded>>

\* Two seconds, or the context of the shutdown, passed.  With the context stop
\* returns at once and the wait for the process goes on beside it.
KillIf(fired) ==
    /\ host = "closing"
    /\ fired
    /\ plugin # "dead"
    /\ plugin' = "dead"
    /\ working' = {}
    /\ stdin' = <<>>
    /\ host' = "killed"
    /\ UNCHANGED <<callVars, pending, stdout, reader, line, answered, noise, loaded>>

\* Mutant: a plugin that still works is left alone.
KillIdle == KillIf(working = {})

Kill == KillIf(TRUE)

\* cmd.Wait closes the host's end of stdout and may cut off what readLoop has
\* not read.
Stopped ==
    /\ host \in {"closing", "killed"}
    /\ plugin = "dead"
    /\ host' = "stopped"
    /\ \E n \in 0..Len(stdout) : stdout' = SubSeq(stdout, 1, n)
    /\ HostUnchanged
    /\ UNCHANGED <<plugin, working, loaded>>

-----------------------------------------------------------------------------
CallStep(c) == AddPending(c) \/ Write(c) \/ Abandon(c) \/ RemovePending(c) \/ Receive(c)

ReaderStep == ReadLine \/ Lookup \/ Deliver \/ Eof \/ FailPending

StopStep == Kill \/ Stopped

Next ==
    \/ \E c \in Calls : Begin(c) \/ EndContext(c) \/ CallStep(c) \/ PluginAnswers(c)
    \/ ReaderStep
    \/ PluginReads \/ PluginNoise \/ PluginHangs \/ PluginDies
    \/ Started \/ CloseStdin \/ StopStep

\* The host's goroutines are scheduled and its timer fires, and a plugin that
\* does not hang reads its input and answers what it read.
Fairness ==
    /\ \A c \in Calls : WF_vars(CallStep(c))
    /\ WF_vars(ReaderStep)
    /\ WF_vars(StopStep)
    /\ WF_vars(PluginReads)
    /\ \A c \in Calls : WF_vars(PluginAnswers(c))

Spec == Init /\ [][Next]_vars /\ Fairness

-----------------------------------------------------------------------------
(* Properties *)

\* readLoop never blocks on a response channel, although a plugin may answer
\* twice and callers give up while their answer is on its way: nothing else
\* would read the plugin's stdout, and every later call would hang.
ReaderNeverBlocks ==
    /\ reader = "send" => ch[line.id] = <<>>
    /\ reader = "fail" => \A c \in pending : ch[c] = <<>>

\* A call gets its own answer: it succeeds only if the plugin answered it.
OwnAnswer == \A c \in Calls : call[c] = "ok" => c \in answered

\* Unless the plugin hangs every call returns, also when the plugin dies; only a
\* call registered after the end of stdout may not.
EveryCallReturns ==
    \A c \in Calls : call[c] = "lock" ~> call[c] \in Over \/ c \in late \/ plugin = "hung"

\* ARCHITECTURE.md:147, "Context cancel/timeouts remove pending entry and fail
\* call": whatever the plugin does.  The code keeps it while stdin has room.
DeadlineFailsCall == \A c \in Deadlines : c \in ctxDone ~> call[c] \in Over

\* stop comes to an end, also when the plugin ignores the end of its stdin.
StopReturns == host = "closing" ~> host = "stopped"
=============================================================================
