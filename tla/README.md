# Verification of elok

TLA+ models of elok (`src/`), a Go host process for an LLM agent: checked on small instances
with TLC, and in the parts that matter most proved for all instances with TLAPS. Every
definition that models code is listed with the lines it translates in `PROJECT.json` (`map`),
next to the runs, their mutants, the hazards the properties are for and the theorems.

    tlc -config MCAgentRuntimeTurns.cfg MCAgentRuntime     # one run
    tlapm AgentRuntimeProofs.tla                           # one proof module

## 1. The system

`cmd/elok/main.go` opens the log, the SQLite store and the plugins, builds the agent runtime,
starts the channels and serves a WebSocket gateway until a signal arrives; then it closes them
in the opposite order.

```
 Web client ──ws──> Gateway ──SendWithOptions──> Agent runtime ──> Store (SQLite)
      ^                ^                          │    │   └─────> LLM provider (HTTP)
      └────events──────┴────── EventBus <─publish─┘    └─rpc─> Plugin process (plan-mode, ...)
 WhatsApp ──> Channel manager ──Send──────────────^
 everything ──log lines──> Log exporter ──HTTP──> VictoriaLogs
```

| Component (source) | State | Operations | What is hard | What makes it correct |
|---|---|---|---|---|
| Agent runtime (`pkg/agent/runtime.go`) | map of session queues under `queueMu`, a goroutine per busy session, a result channel per call | `SendWithOptions`, `runLoop`, `sendTurn` | callers, workers and cancellations interleave; any step of a turn fails; the host dies | turns of a session run one at a time, in arrival order, at most once; an answered turn is stored; events come before the result; every queued turn ends |
| Event bus (`pkg/agent/events.go`) | map of subscriber channels under a lock | `Publish`, `Subscribe`, unsubscribe | publishers send after the lock is released, subscribers go away, channels fill | order per publisher, no silent gap, no publisher held up, no panic |
| Plugin RPC (`pkg/plugins/manager.go`) | map of pending calls, pipes, a reader goroutine | `call`, `readLoop`, `failPending`, `startPlugin`, `stop` | plugins that answer late, twice, never, die, hang or close stdout; full pipes | each call gets its own answer and returns; the reader never blocks; stop ends |
| Plugin chain (same file) | list of plugins | `Start`, `HandleCommand`, `BeforeTurn`, `AfterTurn`, `ListCommands` | one of several fails | plugins that started are stopped; a turn goes on with what the others said |
| Plan-mode plugin (`plugins/plan-mode`) | script and its fingerprint, a state per session | hot reload, `command.handle`, `hook.before_turn`, `hook.after_turn` | the file changes, breaks or vanishes between `Stat` and `ReadFile`; a faulty script returns any state | modes exclude each other, progress is kept, the current script is used, every call is answered |
| Gateway (`pkg/gateway/server.go`) | per connection: outbound channel, context, a goroutine per call, relay, writer | `handleWS`, `handleCall` | slow or gone clients, full channels, teardown with calls in flight | no send to the closed channel, no response lost, all goroutines end |
| Channels (`pkg/channels`) | status and closers under a mutex; WhatsApp client | `Start`, `Close`, events, `onInboundText` | events during start and close; 90 s limit of a text | status follows the link, a closed channel stays off |
| Log exporter (`pkg/observability/logger.go`) | bounded channel, batch | `Write`, `loop`, `Close` | full channel, close while lines are written | accepted lines are posted once and in order before `Close` returns |
| Store (`pkg/store`) | tables, applied migrations | `Open`, `Migrate`, `AppendMessage`, lists, the row of the LLM configuration | hosts that start at once, kills inside a migration; several statements without a transaction | migrations take effect once and in order; messages keep theirs |
| Host (`cmd/elok/main.go`) | the parts and their order | `runCommand` | goroutines outlive the parts they use | the host ends |
| Runtime LLM configuration (`runtime.go`) | one row per tenant | `UpdateRuntimeLLMConfig`, the read of a turn | read, patch, write without a lock | a patch is lost only to a call under way at the same time |
| LLM routing and providers, their streams (`pkg/llm`) | configuration; a goroutine and two channels per stream | `Complete`, `CollectStreamText` | the end of a stream and its last events come on two channels; full channel after an error | the text is the provider's, whole and once; the goroutine ends |
| Codex authentication (`pkg/llm/codex.go`) | the token file, shared by all turns | load, post, refresh, write | concurrent refreshes of a token that is taken once; a file written in place | the newest refresh token is kept |
| Web client (`ui/src`) | socket, pending calls with timers, page state | `connect`, `call`, reconnect, refresh, select, send | old sockets, timeouts, late answers | the page never waits for nothing and comes to show the session selected |
| Invoker plugin (`plugins/invoker-poc`) | memory, state file, tunnel process and the goroutine that waits for it | login, register, start and stop of the tunnel, reset | kills and failures between the service, the file and the user; an old process that ends late | no unknown tunnel; a login the user was shown is on file; pairing succeeds in the end |
| Configuration, tenant context, tools registry, HTTP routes, generated SQL, protocol types, benchmark | – | sequential | – | not modelled, see section 7 |

## 2. The modules

| Module | Models | EXTENDS / composes | Instantiated by |
|---|---|---|---|
| `SerialSessions` | what the runtime promises: a serial schedule per session | – | refined by `AgentRuntime` |
| `AgentRuntime` | `SendWithOptions`, `runLoop`, `sendTurn`, crashes | `INSTANCE SerialSessions WITH` | `MCAgentRuntime` |
| `EventBus` | `events.go` | – | `MCEventBus` |
| `PluginRPC` | one plugin process and the calls to it | – | `MCPluginRPC` |
| `Gateway` | one connection of `handleWS` | – | `MCGateway` |
| `PlanMode` | the plan-mode plugin with its script file and the turns that call it | – | `MCPlanMode` |
| `ChannelManager`, `LogExporter`, `Store` | `pkg/channels`, `logger.go`, `store.go` | – | – |
| `Host` | `main.go`, which starts and closes the three while their goroutines go on | EXTENDS them | `MCHost` |
| `Invoker` | the invoker plugin, its file, its processes, the service and the user | – | `MCInvoker` |
| `LLM` | turns, providers and their names | – | – |
| `RuntimeConfig`, `CodexAuth`, `CompletionStream` | the row of a tenant, the token file, the streams | EXTEND `LLM` | – |
| `Completion` | a completion from the row to its text, with `routing.go` | EXTENDS the three | `MCCompletion` |
| `WebClient` | `gateway.js` and the page around it | – | `MCWebClient` |
| `*Proofs` | theorems and their proofs | the module of their name, `TLAPS` | – |
| `GatewayProofs`, `PlanModeProofs` | also the theorems of `EventBus` and of `Invoker` | extend these two as well | – |

### AgentRuntime
A request is one call of `SendWithOptions`; `caller[r]` is its program counter. `sessionQueue`,
`pending` and `running` are the map of `Runtime` and the two fields of `sendQueue`. A worker
goroutine is named by the request whose call started it (`worker[r]`), so a session with two
workers is a state of the model and not excluded by its shape. A critical section of `queueMu`
is one action (`Send`, `Dequeue`, `WorkerExit`); between two sections, between a publish and
the `go`, and between any two steps of `sendTurn` everything else may happen. `AppendMessage`
is three statements without a transaction, so it may store its row and still report an error.
A turn runs under `context.WithoutCancel`: cancelling a request lets its caller give up and has
no other effect. `Crash` stands for a kill and for `main` returning, which waits for no worker;
only the table and what callers and subscribers saw remain.

`Active` maps a session to the turn its worker has taken and not yet announced ended; with
it every step of the runtime is a step of `SerialSessions` or a stutter.

### EventBus
`Publish` is `BeginPublish`, `Snapshot` (under the read lock), one `Send` per channel of the
snapshot in any order, `EndPublish`. `sent` is everything ever put into a channel and `taken`
how much of it was received, so the buffered part is their difference. Event ids are set by the
counter of the publisher. `Unsubscribe` (under the lock) and `Close` are two steps, as in the code.

### PluginRPC
`call` registers, writes under `mu` (a write may block while the pipe is full, with `mu` held),
waits in a `select`, and removes its entry when it gives up. `readLoop` looks up and removes an
entry under `mu`, then sends outside it. The plugin is any process that speaks the protocol:
it answers in any order, twice, with an error, sends events, closes stdout while it lives,
hangs, or dies. `CloseStdin`, `Kill`, `Stopped` are `stop`; `Wait` may cut off unread output.

### Gateway
One connection: the reader, a goroutine per call, the relay of events, the writer, the watcher
that `Subscribe` starts, and the client. Methods are told apart only by whether they wait for
the runtime (`Waiting`). `outbound` and the subscription are bounded channels; teardown is
cancel, wait for the producers, close, join the writer.

### PlanMode
`plugin` is the place of the serial loop: it takes a call, looks at the file, maybe reads and
evaluates it, dispatches. The version of a file stands for modification time and size; the file
may hold the plan script, one that does not load, or one whose dispatch throws or gives any
answer, and leaves or forgets the session's state (`DispatchFaulty`; a script that writes other
states is a program of its own and not modelled). `Command`, `AfterTurn`, `Extracted`, `Marked` are the handlers of
`plan_mode.js` with texts reduced to the step numbers found in them. Around the loop stand the
turns of the sessions as the runtime drives them: command, before, model, after. Errors of
`os.Stat` other than "not there" are left out.

### ChannelManager, LogExporter, Store, Host
`phase` is the place of `Start` and `Close`; each change of the status under the mutex is a
step. The WhatsApp client is external: a link that comes and goes, and a queue of events it hands
to `handleEvent`. A text is handled by a goroutine of its own. In the exporter, `Write` looks at
`closed` and sends in two steps; the sizes of lines are reduced to their number. In the store,
`boot[h]` is the place of a host in `Migrate`: it lists what is recorded once, then executes,
records and commits each missing migration in a transaction. SQLite is external: one transaction
writes at a time and another fails, and what is not committed is gone with its host. A second
host may start on the same database at any point, fail and be killed, until this one goes on
from its store.

`Host` runs `runCommand` over the three and lets texts, events and log lines go on while parts
are opened and closed; a plugin may fail to start. A send to the closed log channel panics and
ends the process (`panicked`); nothing is claimed of it.

### Completion
Four modules over the same turns. In `RuntimeConfig` a call of `system.config.set` reads the row,
patches the draft and writes all columns, in two steps; `atomic` is the row as it would be had
every call been one step, and `contested` the fields that were patched while another call stood
between its two steps. In `CodexAuth` a turn loads the file, posts, and when unauthorized
refreshes once, truncates the file, writes it and posts again; the service takes a refresh token
once, so of two turns with the same one the second fails, and so does a turn that loads the file
while it is truncated. `lost` says that a failure (of the write, of the answer, or an end of the
host while a turn alone had it) cost the newest token; then the user logs in anew. In `CompletionStream` the goroutine of a stream puts events into
a bounded channel and says on a second one how it ended; `CollectStreamText` selects from both
and drains the first when told of the end. `Completion` joins them by the choice of provider and
model in `routing.go`. External are the provider (deltas, a whole text at the end, or both) and
HTTP, whose framing tells an end from a break; the context of a turn is never cancelled
(`runtime.go:205`), so the 90 seconds of the HTTP client are what breaks a silent stream.

### Invoker
`at` is the place of the loop in a command, `mem` and `disk` what it knows and what is on file,
`saving` the write of the temporary file and the rename. A login lives with the service
(`login`), which may not answer, and is completed by the user in a browser. A tunnel process is
started, ends by itself or is killed, and is waited for by a goroutine (`Forgets`) that clears
`tunnel` only if it still is its own. The plugin may be killed between any two steps, and starts
again with what is on file; processes it had started then are `orphans`, which nobody stops.

### WebClient
One event of the page at a time: a step is an event and what the code does up to the next
`await`. An async function that runs is a flow, with the call it awaits and the session it was
for. `socket` is the current one, `old` counts those it replaced that have not closed yet; their
events still arrive. The socket and the host are external: sockets open, fail and close at any
time, calls are answered, refused or left to their timer.

## 3. Runs

Bounds are the smallest in which the contention the properties are about occurs; larger ones
add only repetitions. Where a run says CHECK_DEADLOCK FALSE the system really comes to rest,
because the environment's actions are finitely many.

| Run | Instance | Shows |
|---|---|---|
| `runtime_turns` | 2 calls, 2 sessions, history 2, 1 crash | `PromptIsCurrent`, `AnswerIsStored`, `EventsPrecedeResult`, `QueuedTurnEnds`. Two calls meet in one session or not; history 2 is exceeded by the second turn. |
| `runtime_contention` | 3 calls, 1 session, symmetric | `OneWorkerPerSession`, `NoStrandedRequest`, `TurnsContiguous`, and `ImplementsSerialOrder` (refinement). Three is the least with one running, one queued and one arriving. |
| `bus` | 2 publishers (2 and 1 events), 2 subscribers with room for 1 | `PublisherOrder`, `NoSilentGap`, `SlowReaderHoldsNobody` |
| `bus_panic` | 1 publisher, 1 subscriber | finding: `NoPanic` fails |
| `rpc` | registration and 2 calls, one without deadline, stdin for all, stdout for 1, 1 unasked line | `ReaderNeverBlocks`, `OwnAnswer`, `EveryCallReturns`, `DeadlineFailsCall`, `StopReturns` |
| `rpc_full_stdin` | stdin for 1 | finding: `DeadlineFailsCall` fails |
| `gateway` | a quick call, a waiting call, 2 events, channels of 1 | `NoSendAfterClose`, `ResponseHeld`, `GoneClientEnds`, `CallIsAnswered` |
| `planmode` | a session with every command, one that only plans, 2 steps, 2 file changes | `ModesAgree`, `TrackedAsPrompted`, `ScriptIsCurrent`, `ProgressKept`, `CallsAreAnswered`. Two changes suffice for "broken, then good", "gone, then back" and "changed between stat and read". |
| `host` | 2 hosts, 3 starts, 2 migrations, 2 plugins, a text, 2 link changes, 3 lines, channel of 2, batch of 1 | `MigratedOnce`, `OffMeansOff`, `UpIsShown`, `LinesAccounted`, `HostExits`, `TextsEnd`. Two migrations are the least with one committed and one missing (the code has three); the third start is a host that comes back after a kill. |
| `invoker` | 5 logins, 4 processes, 2 failures of any kind, 1 login that expires, 1 other command | `TunnelIsKnown`, `ShownIsKept`, `PairingEnds`. The numbers of logins and processes are never reached: the failures and the other command bound them. |
| `completion` | 2 turns (one by the row, one that asks for codex), 2 changes that patch a field in common, 2 of the four at once, 3 refresh tokens, 1 expiry, 1 failure, text of 2 parts, channel of 1 | `NewestTokenKept`, `TextIsWhole`, `LossIsContested`, `CompletionEnds`. Two at once are the least that contend; any two of the four meet. |
| `web_client` | 2 sessions, 1 old socket, 2 attempts to connect, 1 refresh, 1 user | `PageIsAwake`, `CurrentIsShown`. One old socket beside the new one is what its events need; two attempts overlap when the timer fires during one. |

Every property of a passing run has a mutant in `PROJECT.json`: a plausible bug in one
definition (written beside it and marked "Mutant") under which the same run finds the property
violated.

### Fairness
Everywhere: goroutines that can take a step eventually do (weak fairness of the Go scheduler);
nothing is assumed of `select`, of lock order or of clients. In addition
- `AgentRuntime`: a step of a turn returns, that is plugin, database and model calls end. The
  code does not enforce it: a turn's context has no deadline, so a plugin that hangs blocks its
  session. `PluginRPC` says exactly when a call does not return.
- `PluginRPC`: a plugin that has not hung reads its input and answers what it read; `stop`'s
  timer fires.
- `Host`: a text ends at its 90 seconds, posts end at their timeout, `stop` of the plugins ends
  (from `PluginRPC`). The link and the log need not do anything.
- `PlanMode`: scripts end (`scriptEvalTimeout`). Nobody need type or edit anything.
- `EventBus`: subscribers need not receive. `Gateway`: clients need not read, the runtime need
  not answer.
- `Invoker`: requests end at their 30 seconds; the host starts the plugin again, and the user
  goes on with the pairing and the login shown. Kills, failures and other commands need not come.
- `Completion`: a request ends, by the 90 seconds of its client if nothing else; one condition
  for all turns, since any one that is under way can be the next to step.
- `WebClient`: timers fire (30 seconds of a call, the reconnect timer, the interval), and a
  socket that opens or closes comes to an end of it. The host need not answer, the user need
  not do anything.

## 4. Findings

Two runs end in a violation of what a document says.

1. `bus_panic` – `Publish` sends to a channel that `unsubscribe` closed after the snapshot; the
   panic ends the host when a client disconnects at the wrong moment.
2. `rpc_full_stdin` – `call` writes to a full pipe under `mu` before it looks at its context, so
   deadlines do not fail calls (ARCHITECTURE.md:147).

Where code and documents differ in what the models follow the code in, without a run of its own:

- a call made after `readLoop` ended (a plugin that closed stdout, or wrote a line above 2 MiB,
  and lives) waits for its context (`manager.go:257`; ARCHITECTURE.md:148 has all pending calls
  fail). `EveryCallReturns` is stated so;
- calls of a connection are handled by a goroutine each (`server.go:313`; ARCHITECTURE.md:299
  says sequentially);
- `startWhatsApp` sets the status after `Connect`, over one that an event set meanwhile
  (`whatsapp_channel.go:72`; README.md:57 calls it the current status). `UpIsShown` is the half
  that holds: a link that is up is shown, one that is down may be shown up;
- migrations are recorded in `schema_migrations` (`store.go`; ARCHITECTURE.md:223 says there is
  no such table).

Met while modelling, and against no document: `/plan execute` on a plan whose steps are all
completed re-enters execution and does not leave by itself; a WhatsApp device that is not paired
yet is shown connected; texts of a chat may overtake each other, each has a goroutine of its own
(`whatsapp_adapter.go:197`); a line logged while the exporter closes panics (`logger.go:208`);
two changes of the LLM configuration at once can lose a field that one of them patched
(`runtime.go:437`); a page that a timed-out call set to disconnected stays so while its socket is
open, `connect` resolving without `onOpen` (`gateway.js:28`), until the socket closes; the late
answer for a session is shown in a fresh chat until the next refresh of a selected session;
an invoker plugin that is killed leaves its tunnel running, and the next one does not know it.

## 5. Proofs

| Module | Theorem | States |
|---|---|---|
| `AgentRuntimeProofs` | `Inductive` | `Spec => []IndInv` |
| | `TypeCorrect`, `OneWorker`, `NoneStranded` | the invariants that follow from it |
| | `Implements` | `Spec => Serial!SafeSpec`, the refinement of `SerialSessions` |
| | `RunsOnce` | `Spec => []NoDoubleRun`, through `Implements` and `AtMostOnce` |
| | `TurnsStandTogether` | `Spec => []TurnsContiguous` |
| | `AnswersLast` | `Spec => []AnswerIsStored` |
| | `AsksCurrent` | `Spec => []PromptIsCurrent` |
| | `EventsFirst` | `Spec => []EventsPrecedeResult` |
| `SerialSessionsProofs` | `AtMostOnce` | `SafeSpec => []NoDoubleRun` |
| `PluginRPCProofs` | `NeverBlocked`, `AnswersMatch` | `ReaderNeverBlocks`, `OwnAnswer` |
| | `TypeCorrect` | `TypeOK`, with the sizes of both pipes |
| `GatewayProofs` | `ClosedIsQuiet`, `ResponsesKept` | `NoSendAfterClose`, `ResponseHeld` |
| | `TypeCorrect` | `TypeOK`, with the capacities of the subscription and of `outbound` |
| | `EventsInOrder`, `GapsAreNoted` | `PublisherOrder`, `NoSilentGap` of `EventBus` |
| | `BusTypeCorrect` | `BusTypeOK`, with the capacities of the channels |
| `PlanModeProofs` | `ModesApart`, `ReadAsPrompted`, `NotStale` | `ModesAgree`, `TrackedAsPrompted`, `ScriptIsCurrent` |
| | `NothingUndone` | `Spec => ProgressKept`, an action property |
| | `NoneRunsUnknown`, `ShownIsOnFile` | `TunnelIsKnown`, `ShownIsKept` of `Invoker` |
| `HostProofs` | `MigratesOnce` | `Spec => []MigratedOnce` |
| | `LinesArrive` | `Spec => []LinesAccounted` |
| | `ClosedIsOff`, `LinkIsShown` | `OffMeansOff`, `UpIsShown` |
| `CompletionProofs` | `PatchesKept`, `TokenNotLost` | `LossIsContested`, `NewestTokenKept` |
| | `TextArrives` | `Spec => []TextIsWhole` |
| `WebClientProofs` | `NeverAsleep` | `Spec => []PageIsAwake` |

With them every safety property the runs check, each invariant and `ProgressKept`, is a theorem.
They assume the named `ASSUME`s of the modules and nothing else: any set of requests, sessions,
turns, calls, publishers and hosts, any number of crashes, failures and migrations, any
capacities, any texts, plans and replies. Two of the assumptions only fix what a constant is: a
text of a chat is no name of a client event (`ChannelAssumption`), and the text of a completion is
a finite sequence of parts (`StreamAssumption`). What the modules take from outside (a refresh
token is taken once, SQLite has one writer) is part of the specifications and so of the theorems.

- *Runtime.* `OneWorkerPerSession` alone is not inductive: a state with one worker and a queue not
  marked running satisfies it, and the next `Send` starts a second worker. `QueueBookkeeping` says
  that a session has an entry exactly while it is marked running, and is marked exactly while a
  worker is alive or about to be started; with it `Enqueue` starts a worker only when there is
  none, and `WorkerExit` removes the entry with the last one. `NoStrandedRequest` is then
  immediate. `SessionsMatch` keeps queue, worker and request in the same session, which the frame
  of every step of a turn needs.
- *Refinement.* With one worker per session, `ActiveTurns(s)` has at most one element, so the
  `CHOOSE` of `Active` is determined. `Dequeue` maps to `Begin`, `PublishEnd` to `Finish`, `Send`
  to `Submit`, `Crash` to `Crash`, and everything else to a stutter.
- *At most once.* `NoDoubleRun` of the serial schedule needs that queued, active and ended
  requests have been submitted (`HeldAreSubmitted`), so that `Submit` cannot queue one again.
- *The table.* `TurnsContiguous` needs that a message in the table belongs to a request that no
  longer waits (`Owned`), so that `Dequeue` takes a turn with nothing stored, and that what a
  running turn stored is the end of its session's table (`Latest`), so that it appends to its own
  messages. That a request is not taken twice comes from `RunsOnce`.
- *The answer.* Until a turn stores its answer its session ends with the message it answers
  (`Asked`), since no other worker of the session stores anything; so the answer lands behind its
  message. From there what worker, result channel and caller say of it is followed by `Told`; the
  table only grows, also over a crash.
- *The prompt.* `PromptInv` says the transcript loaded still is the newest part of the table:
  between the load and the call no other turn stores in the session. Its last message is the
  turn's own by `Asked`, as the newest part of a table ends as the table does (`NewestEnds`).
- *Plugin RPC.* `readLoop` removes an entry before it sends, so a call that is registered, or will
  be, was never sent to and its channel of one is empty (`Unfilled`). A result on the pipe, in the
  reader or in a channel was given by the plugin for that call (`Traced`).
- *Gateway.* The strengthening is that past "drain" no goroutine of a call and no relay is left
  (`Drained`), and that the channel is closed only after that (`ClosedLast`); none can start later
  because only the reader starts them, while it reads.
- *Responses.* By where a call stands, its goroutine has a response still to send, or the response
  is in exactly one of `outbound`, the writer and `received`, or the context has ended (`Sent`); a
  call is in the socket at most once, until it is read.
- *Bus.* Order: while a publisher has a subscriber left in its snapshot, all that subscriber saw
  of it is older than the current event (`CurrentIsNewer`). No gap: a subscriber on the list that
  knows a publisher in its loop is still in the snapshot or has seen the current event
  (`OwedOrServed`), for nobody comes onto the list with a past (`NewIsUnseen`). So when the loop
  ends, the event that becomes due has been seen (`NoGap`).
- *Capacities.* The types of the connection, the bus and the plugin are inductive with what their
  invariants say of the response channels; a channel or pipe is written only below its capacity,
  and a publisher in its loop has published an event (`HasEvent`).
- *Events of a turn.* The worker's part of the events is determined by where the request stands:
  nothing while it waits, then what its worker has come to (`SoFar`), then what the result channel
  and the caller say of the end (`Reached`). The caller's own "queued" lies anywhere among them,
  and first if the worker was not yet there to publish (`Announces`). That only one worker writes
  to them is `Inductive` and `RunsOnce`.
- *Plan mode.* `ModesAgree` with the types of the states is inductive; the case that needs care is
  `AfterTurn`, where a new plan replaces the old only in plan mode and marking keeps the domain of
  a plan. `ProgressKept` follows for every step (`StepKeepsPlans`).
- *Prompt and script.* Every answer of the loop sets the tracked mode to that of the state it
  leaves or to none, and the state of a session changes only with an answer to it
  (`PromptAnswered`): a script that forgets the state while it writes the prompt is followed by no
  tracked mode. For the file, what is loaded is between the fingerprint and the file
  (`FingerprintBehind`): the stat comes before the read, so a change between them is loaded twice
  and never missed.
- *Tunnel.* A tunnel is started only when none runs (`NoneBeside`), and `Forgets` clears only its
  own; identities are numbers, and what is known, told to stop or orphaned was started.
- *Login.* A login that was shown and is still open is the pending one on file, and in memory
  while the plugin lives (`OpenIsPending`). A pairing asks for a new login only if none is pending
  (`UrlWanted`), and one whose save failed is not shown (`ShowsSaved`).
- *Migrations.* A host reads what is recorded once, and the schema may grow afterwards: what it
  knows is only a beginning of the schema (`KnowsBeginning`). So the migration it executes may be
  one another host has recorded since, and it is the commit that must not happen: before it, what
  it recorded was new (`Transacts`), and there is one writer (`SoleWriter`).
- *Log.* The accepted lines are, in order, those handed over, the batch, the line held and the
  channel (`Flow`); the loop ends with the last two empty (`LoopLeavesNothing`).
- *Channel.* A handler is there from `NewAdapter` to `Detach` (`Handles`), so after the close no
  event is handled. `UpIsShown` needs more than it says: of the events still queued, behind each
  that lowers the status comes one that raises it while the link is up (`UpComes`), so the order
  in which `Start` and the events set the status does not matter.
- *Configuration.* What a call has read differs from the row only in contested fields
  (`DraftIsRow`); so its write brings back nothing uncontested.
- *Tokens.* While a turn writes, it has the newest token and no other turn has (`WriterHolds`): a
  second refresh is refused, and the file is older. With it a write never puts an older token over
  a newer one.
- *Text.* What was collected, the pieces in the channel and what the provider has still to send
  make up the text (`Collected`, `Left`), wherever the stream is cut into pieces (`Joins`). The
  collector is done only when both channels are, and a failure is said before the channel closes
  (`Failing`, `Ending`).
- *Page.* `PageIsAwake` is inductive with the shape of the flows; every way out of an attempt has
  to be seen to set the timer or leave a socket.

Only model-checked: what must eventually happen, that is all `~>` and `<>[]` properties, which are
outside the prover's reach, as are ENABLED and what a recursive definition computes.

## 6. Plan

Done: the modules of section 2, in the order runtime, bus, plugin RPC, gateway, plan mode, host
with channels and log; then invoker, completion, store, web client; the proofs of section 5.
Next:

1. Proofs: that every variable keeps its type, in plan mode, invoker, host, completion and web
   client, where the inductive invariants only type the variables they need; the refinement of
   item 3.
2. A chain of two plugins of which one fails: what a turn keeps of the texts of the other.
3. An abstract file that is replaced atomically, refined by the invoker's state file
   (temporary file and rename) and, up to `lost`, by the token file.

## 7. Not modelled

- *Configuration, tenant context, tools registry, protocol types*: values that are read once or
  carried along, without concurrent state; the models take them as constants. Nothing calls a
  tool in a turn.
- *HTTP routes and assets, SQL queries, benchmark and scripts*: input and output or generated
  code. The statements of the queries appear where the store runs them.
- *Plugin chain*: `Start` and `Stop` are steps of `Host`, and `AgentRuntime` takes the outcome of
  a command and the hooks; how several plugins thread a text is not modelled.
- *Web client*: the dialog of the configuration, whose result only fills its fields, slash
  commands and layout.
- How the lines of a body make up events (`sse.go`) is left to the events themselves.
