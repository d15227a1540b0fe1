# A TLA+ verification of MSAKI's model manager and gateway

MSAKI runs language-model backends on demand. A model is started by a shell
script, gets a port, is probed until it is healthy, serves proxied requests and
is stopped by a client, by its TTL, or when the program ends. This directory
holds TLA+ modules translated from the Go sources (`src/internal/...`), TLC
configurations that check them on small instances, and TLAPS proofs about them
for every instance.

## 1. Inventory

| component | state | operations | talks to |
|---|---|---|---|
| Port allocator (`models/port.go`) | `allocated`: port to model name, one mutex | `Allocate`, `Release` (plus getters) | called by the manager; asks the host with `isPortAvailable` |
| Manager: start, stop, restart (`models/manager.go`, `model.go`, `api/handlers/models.go`) | per model `status`, `port`, `healthy`, `lastActivity`, `startedAt` behind one mutex per model, and the goroutines that run scripts | `Start`, `Stop`, `Restart` | allocator, shell scripts, callbacks into the proxy |
| Manager: background tasks | the snapshots two tickers work on | `checkTTLs`, `runHealthChecks`, `checkHealth` | `Stop`, the backends, callbacks |
| Manager: names and shutdown (`models/manager.go`) | the map from names and aliases to models, context, wait group | `NewManager`, `GetModel`, `ListModels`, `Shutdown` | `Stop`, the background tasks |
| Request queue and on-demand start (`proxy/queue.go`, `proxy.go`, `openai.go`) | `queues`: name to waiting requests, a one-element channel per request | `Enqueue`, `NotifyAll`, `FailAll`, `waitForModel`, the OpenAI handlers | `Manager.Start`, ready and error callbacks, backends |
| Answers: streaming proxy and Ollama translation (`proxy/proxy.go`, `ollama.go`) | what has been read of one body, the client's connection | `createReverseProxy`, `handleStreaming`, `proxyToOllama`, `streamOllamaToOpenAI`, `translateOllamaResponse` | backends, the HTTP server |
| Ollama routes (`proxy/ollama.go`) | none of their own | `/api/chat`, `/api/generate`, `/api/tags` | manager, backends |
| Configuration (`config/config.go`) | immutable once validated | `Load`, `Validate`, `SetDefaults`, `GetModelByName` | everything |
| HTTP server and entry point (`server/server.go`, `cmd/msaki/main.go`) | `httpServer`, a channel for its error | `Start`, `Shutdown`, the signal | manager, log files |
| Script logs (`models/model.go`, `api/handlers/models.go`, `frontend/src/lib/api.ts`) | last 1000 entries per model, a cursor per reader | `AppendLog`, `ClearLogs`, `GetLogsSince`, SSE stream, polling | manager, frontend |
| Authentication, metrics, tracing, log files, static files, frontend | tokens, counters, files | - | - |

What is hard here: `Manager` holds no lock across an operation. Everything
between two calls of a getter or setter of `Model` (or of the allocator) can be
interleaved with the calls of other clients, with script goroutines that
outlive the status they were started under, with health checks that act on a
status they read seconds ago, with a reaper that works on a snapshot, and with
callbacks that run in goroutines of their own. `PROJECT.json` lists the hazards
one by one with the properties that cover them.

What makes each part correct:

* allocator: a model has at most one lease, a port at most one model, a lease
  changes only between "none" and "a port";
* manager: nothing waits in a transitional status without somebody who will
  end it; no lease is left behind at rest; a running model owns its port;
* background tasks: an idle model is reaped, a health-checked one is promoted,
  a running one can be routed to;
* queue: a waiting request is queued under the name it asked for, or with one
  callback that has yet to signal it, or has its answer, and never two of these;
  every request is answered, by its timeout at the latest;
* answers: a client hears a prefix of what its backend says, all of it unless
  somebody breaks off or the write deadline passes, and a sign that it is whole only if it is; a handler ends
  when its client or its backend has;
* logs: what a script prints is in the log before its goroutine sets the
  outcome, and is shown once and in order to who watches; a script ends;
* names: a model is found under its own name, whatever aliases clash;
* shutdown: running models are told to stop, and the process ends.

## 2. Modules

```
PortLease      abstract: what the allocator promises
ModelService   abstract: what a client of the API expects of a model
PortAllocator  the lease table and Allocate/Release
Lifecycle      EXTENDS PortAllocator: Start, Stop, Restart, script goroutines
Monitors       EXTENDS Lifecycle: clocks, TTL reaper, health checks
Gateway        EXTENDS Monitors: requests, queue, callbacks
Answer         abstract: what a client is told of what its backend says
Relay          one request from the choice of its target to the last byte
ScriptLogs     pipes, scanners, the log of one model, and who watches it
Registry       Validate's rules for names, NewManager's map
Program        EXTENDS Registry: server goroutine, background tasks, shutdown
MCLifecycle, MCMonitors, MCGateway, MCRelay, MCScriptLogs, MCProgram
               instances for TLC
Lifecycle_proofs   theorems about Lifecycle
Serialized_proofs  EXTENDS it: those that need Serialized
Monitors_proofs    EXTENDS Lifecycle_proofs: theorems about Monitors
Gateway_proofs     EXTENDS Monitors_proofs: theorems about Gateway, and
                   those of the manager for the whole composition
Relay_proofs, ScriptLogs_proofs
                   theorems about Relay and ScriptLogs
Registry_proofs    theorems about Registry and the names in Program
Program_proofs     EXTENDS Registry_proofs: theorems about Program
```

`Lifecycle`, `Monitors` and `Gateway` are one composition: the same model, its
callers, monitors and requests. `Relay`, `ScriptLogs` and `Program` meet it at
an edge each, and state there what they take from it: `Relay` begins where
`Gateway`'s `Route` ends in `forwarded`; `ScriptLogs` has the inside of
`StartScriptRuns` and `StopScriptRuns`, and shows what `Lifecycle` assumes of
them, that they end; `Program` has `Start`, `Stop` and the goroutines by their
last effect.

**Granularity.** A step is one call of a getter or setter of `Model`, or one
method of the allocator (each holds its mutex throughout), with the local code
up to the next one. A caller (`call[c].at`) or script goroutine
(`script[s].at`) carries the label of the call it is about to make; the labels
follow the order of the statements in `manager.go`. Three things are taken
together with a neighbour because nobody can tell: `SetHealthy` (nothing in the
manager reads it back), `SetPort` with the `go` statement that follows it, and
`SetStatus(StatusStopping)` with its `go` statement.

**Lifecycle.** `Start` is `Begin`, `StartIfRunning`, `StartIfStarting`,
`StartSetStarting`, `StartSetStartedAt`, `StartAllocate`, then
`StartAllocFailed` or `StartSpawn`; its goroutine is `StartPipeFails`,
`StartScriptRuns`, `StartScriptFails` / `StartFailureReleases`, or
`StartScriptSucceeds` / `StartTouches`, then `Notify`. `Stop` is
`StopIfStopped`, `StopIfStopping`, then `StopWithoutScript` / `CallRelease`, or
`StopWithScript`, whose goroutine is `StopLaunchFails` or `StopScriptRuns` /
`StopScriptEnds`, then `StopReleases`. `Restart` reads the status three times
(`RestartIfError`, `RestartIsRunning`, `RestartIsStopping`), runs the stop
script in the caller (`RestartReadPort`, `RestartScriptEnds`) and goes on as a
`Start`. `isPortAvailable` answers anything: `StartAllocate` picks the set of
ports the host refuses.

**Monitors.** Times are flags: `idle[m]` (more than the TTL since
`lastActivity`) and `settled[m]` (more than `startDelay` since `startedAt`)
become true on their own and false by the setters. `ScanTTLs` takes the
snapshot, `ExamineTTL` one of its models (once under each of its names, as the
map holds aliases too) and begins the reaper's `Stop`. `Schedule` hands a model
to a health-check goroutine, which reads the status, the delay, the endpoint,
waits for the backend, and then writes.

**Gateway.** A request is a handler goroutine: it reads the status, calls
`Start` itself (it is one of the callers of `Lifecycle`), queues itself under
the name the client used, and waits for its channel or the timer.
`DeliverReady`, `DeliverError` and `DeliverHealthy` are the callbacks; they
replace the bare `Notify` and `CheckNotifies` of the modules below. A callback
takes the whole queue under the queue's lock (`GetAndClear`) and then signals
one request after the other (`Send`); between the two a request is in `taken`,
the callback's own variable, and the goroutine ends with the last send. The reads
of the status by an OpenAI route and by an Ollama route are different first
steps of the same request.

**Relay.** A piece is what one read returns and one write carries. A route is
the loop that reads: `StreamRead` / `StreamEnds` is the loop of
`ModifyResponse`, after which `CopyRead` / `CopyEnds`, the copy of
`httputil.ReverseProxy`, finds nothing; the plain route has only the latter;
`TranslateEvent` / `TranslateEnds` is the loop of `streamOllamaToOpenAI`;
`ParseAnswer`, `ParseFails`, `PassErrorOn` are `translateOllamaResponse`. A read
may return the last data together with the end of the body. The write deadline
may have passed before the first byte, since it runs from the arrival of a
request that may have waited five minutes; what is flushed after it is lost. A
copy that fails panics, which gin's `Recovery` takes, so that the server ends a
body without a length as if it were whole. `Told` is what a client can make of
status, length, `[DONE]` and JSON; the refinement of `Answer` says that it is
never told `whole` wrongly.

**ScriptLogs.** A start or stop goroutine (`runner`) announces its script,
launches the shell, waits for both scanners and then for the shell, and sets
the status before it appends the last entry. Processes print into pipes that
fill up, fork, block, exit, or are killed by the timeout; a pipe ends when the
shell and what it left behind are gone. A viewer is the handler `LogsStream` or
the polling page; its actions are the reads of the log and of the status, each
under its own lock. A health check (`checker`, `off` for a model without one)
reads the status, probes, and sets `running` beside all of that; a start that
succeeds then leaves the status to it. A failed model, and one that waits for
its health check, may be stopped, too. One call runs a script at a time, and one
check ends before the next begins.

**Registry and Program.** `LoadModel` is a turn of the loop of `Validate`,
`IndexModel` one of `NewManager`, which makes a model that is only an address
`running` for good (`InitialStatus`). `main` goes through `Setup`, `Signal`,
`CancelAndList`, `Skip` or `Pick` and `Stop` for each model, `WaitForTasks`,
`Drain`; the server's goroutine through `ServerAssigned` and `ServerListens`;
the reaper and the monitor select between their ticker and the context.

## 3. Runs

Passing runs:

| run | instance | shows |
|---|---|---|
| `one_model_races` | 1 model with port and stop script, 2 clients, 2 script slots, 2 ports | types; a starting or stopping model has somebody to end it; no lease leaks at rest; one lease per model |
| `serialized_service` | 3 models, one external, 2 clients, calls about one model do not overlap | ports are owned by who uses them; each model refines `ModelService`, the table of ports `PortLease` |
| `health_liveness` | 1 health-checked model with an address, a TTL and a stop script, 1 client, the reaper, 1 check at a time; its backend answers in the end | types; the model gets out of starting; it is reaped when idle |
| `gateway_liveness` | 1 model with a stop script, 1 client that starts, stops and restarts it, 1 request, 2 script slots, fair | every request is answered; starting and stopping end |
| `gateway_queues` | 2 models that share 1 port, one with an alias and one health-checked, 2 requests, 1 script slot, 1 check, fair | a waiting request is in one place, and unanswered while queued or taken; a running model can be routed to; every request is answered |
| `answers_relayed` | 1 request on each route, a backend that sends up to 3 pieces of 4 kinds | nothing is lost unless somebody breaks off or the deadline passes; the answer refines `Answer`; the handler ends |
| `script_logs` | 2 scripts of up to 2 lines (1 with a health check) on 2 streams, a log of 3 entries, pipes of 1 line, 1 viewer | output before outcome; the stream shows the output; no entry twice or late; scripts end |
| `program` | up to 2 models over 2 names, 3 kinds of models (external ones run from the start), 1 request, the background tasks | models keep their names; running ones are told to stop; the process ends |

The runs expected to fail each check one sentence of a comment or of the
example configuration, quoted in `PROJECT.json` under `findings`:

| run | trace, in short |
|---|---|
| `port_conflict` | start of `b` in progress, `Stop(b)` returns its lease, `a` is given the same port, both start scripts run |
| `stale_promotion` | a check reads `starting`, the start fails, the check sets `running` (with calls that do not overlap) |
| `alias_not_signalled` | a request queued under the alias, a callback with the name |
| `lost_wakeup` | the callback runs between the status read and `Enqueue` |

`NoWaitForRunning` asks only about requests that used the model's own name, so
that it does not repeat the alias finding, and only when no call or goroutine
of the model is left to wake them.

Other races of the same kind are listed as hazards with a note and have no run
of their own: two `Start`s that both read `stopped` and both run the script (it
happens in `one_model_races`), a health check between the writes of the status and of
`startedAt`, a stop script of a failed model that is given a port leased to
another, a start script that reports failure after a `Stop`, activity the
reaper overlooks, a late `Release` that takes the lease of the next start, the
output of a start script that the stream does not show because a health check
made the model running first, an allocation failure that queued requests are not told of,
an alias that two models share and that `Validate` lets pass although
config.go:274 says that aliases are unique, and a model that `Shutdown` leaves
behind because it is starting (manager.go:535 says that all are stopped).

**Bounds.** The only bounds are the sizes of the sets; no counter is cut off.
Two clients (or a client and a goroutine) are enough for every race of a
test-then-set, since each test-then-set reads one status; two script slots let
a start script overlap with a stop script, two start scripts, or the scripts of
two models. When every slot is taken, a `Start` waits in its last step, which
the program does not do; that cuts behaviours with three goroutines of the
instance at once. In `gateway_queues` the two requests
share one slot: a start that waits for it goes on when the other's goroutine
has ended, which the run's fairness brings about (strong fairness on
`StartSpawn` of a request: a `go` statement never waits, only our slots do).
Two ports let one be leased while another is
free, one port makes exhaustion common. Two requests are enough for a queue
with two entries, for two names, and for one request that starts the model
while the other waits; a client that meanwhile starts, stops and restarts the
model is in `gateway_liveness`. That the reaper meets a model once under each
of its names is left out of `health_liveness`, whose model has one. `Scripts` and `Operators` are symmetry
sets, in runs without liveness only.

Three pieces are enough for an answer with a middle, for what follows `[DONE]`
or garbage, and for a read that returns one, several or all that is there
(`MaxSaid`). Two jobs let a log be cleared and a model be stopped after it was
started, a log of three entries is cut while a viewer is behind (`Cap` stands
for 1000), and two stamps per millisecond (`PerMilli`) tell the polling page's
clock from the log's. A job of a health-checked model prints one line
(`MaxChecked`): what matters there is whether it comes before or after the
check and the stream's end. Two names and two models give every clash `Validate`
refuses and the one of a name with an earlier alias; two models with the same
alias need three names, which the theorems of `Registry_proofs` cover. A model
of `program` has a stop script or a health check, not both, and at most one
goroutine of each sort.

**`Serialized`** is an assumption about clients, not code: with it a call
about a model waits until no other call or goroutine of it exists. It separates
what the program promises to a client who waits from what it promises to
all; `stale_promotion` fails even under it.

**Fairness.** Weak fairness on the steps of each caller, goroutine and check
stands for the Go scheduler and the tickers. Three assumptions are not the
scheduler's: a script ends (its timeout kills the shell, but `wg.Wait` goes on
until every process holding the pipe is gone, so this is up to the script); a
GET is answered or times out (client timeout of 5 s); and, in
`health_liveness` only, a backend that is asked again and again answers some
time (strong fairness on `ProbeSucceeds`, `BackendFairness`).
In `answers_relayed` the handler runs and a header that does not come is timed
out; nothing is assumed of backend, client or deadline. In `script_logs`
goroutines run, the timeout fires, and a process the script left behind closes
the output it inherited (`ChildEnds`), which is the script's business: without
it the run shows a goroutine that waits for ever. In `program` the goroutines
run, and a select whose context is done takes that branch some time although
its ticker may be ready too, since Go chooses among ready branches at random
(strong fairness on `ReaperEnds`); requests need not end.
No fairness is assumed of clients, and none of `Arrive`, `Begin` by an operator, or the clocks'
`IdleTick`.

## 4. Proofs

The theorems assume only the named assumptions of the modules (ports are a
finite set of positive numbers, the absent model is not a model, external models
have an endpoint and no port, and the like). None says anything about the size
of a set. Each argument has the same form: an invariant that is inductive, with
one lemma per kind of step, and the property as a conjunct or a consequence of
it. Every invariant that a passing run checks is stated by a theorem, and so
are the three refinements `LeasePromise`, `ServicePromise` and `RelayPromise`.

### The manager (`Lifecycle_proofs`)

* `TypeCorrect`: `Spec => []TypeOK`. `TypeOK` is inductive once it says that a
  caller or slot at work has a model; one lemma per kind of step. It rests on
  `AllocateResultProperty`: what `Allocate` returns is the model's own lease,
  or an unleased port, or the error value; that in turn on `MinProperty`, that
  a non-empty set of ports has a lowest one (from the well-foundedness of < on
  the naturals).
* `OnePortCorrect`: `Spec => []OnePortPerModel`. Inductive together with
  `TypeOK`. A step leaves the table alone, or is a `Release`, which only
  removes, or is a `StartAllocate`, which adds an entry only for a model that
  has none.
* `StoppingOwned`: `Spec => []StoppingHasOwner`. Inductive together with
  `TypeOK`: the only step to `stopping` creates the goroutine, and the steps by
  which that goroutine leaves its labels take the status with them
  (`ScriptAtKept` is the frame argument for all others).
* `StartingOwned`: `Spec => []StartingHasOwner`, by the same argument with two
  kinds of owners: the obligation passes from the call to the goroutine in
  `StartSpawn` (`Spawned`), and every step that ends a start, of whichever
  call, sets the status of its own model. Models with a health check are
  outside it: what ends their `starting` is in `Monitors`.
* `NoLeak`: `Spec => []NoLeakAtRest`. Inductive together with `TypeOK` and
  `OnePortPerModel`, without which the one entry `Release` deletes might not
  be the model's last (`ReleaseHeld`).
* `LeaseCorrect`: `Spec => LeasePromise`, the refinement of `PortLease` under
  the mapping `LeaseOf`. A step that touches the table is a `Release` or a
  `StartAllocate` (`AllocatorSteps`); the first is `Return` or a stutter, the
  second `Grant`, or a stutter if the model had its port already or got none
  (`NextLease`). `OnePortPerModel` makes the mapping well defined.

### Calls that do not overlap (`Serialized_proofs`)

Both theorems have `Serialized` as a hypothesis, so they are about clients who
wait for one operation to end before they begin the next on the same model.

* `OwnedCorrect`: `Serialized /\ Spec => []PortsAreOwned`, for models without a
  health check, start scripts, and the stop scripts of `Restart`. The stop
  script of a `Stop` is left out: a failed model has returned its lease and
  kept its port, so that its stop script is given a port that another model may
  have, without any overlap. The property speaks of a model that runs; that its port is leased to it was decided several steps
  before, so the inductive invariant `SerialInv` follows the lease from
  `Allocate` to `running` and back. It says that a model has one call or
  goroutine at work (`OneWorker`), which status the model has at each label of
  its worker (`Fits`), and who has the port at each label (`CallOK`, `ScriptOK`,
  `LeaseOK`). `OthersKept` is the frame argument: a step of a worker changes
  nothing of another model. `StoppingHasOwner` is needed to know that a Restart
  never finds its model stopping.
* `ServiceCorrect`: `Serialized /\ HealthChecked = {} /\ Spec =>
  ServicePromise`, the refinement of `ModelService`. A step that sets a status
  is a step of the service if the phases it leads from and to are (`Expected`,
  `ServiceMoves`), and `Fits` gives the phase it leads from; `StartAllocate` is
  `Assign` or a stutter, a `Release` is `Vacate`; all others stutter.
  `StartingHasOwner` excludes a `Stop` of a starting model, and with it the one
  step the service does not have. A model with a health check leaves `starting`
  by a check, which is no step of `Lifecycle`, hence the second hypothesis.

### Background tasks (`Monitors_proofs`)

* `MonitorsTypeCorrect`: `MonitorsSpec => []MonitorsTypeOK`. A step of
  `Lifecycle` inside `Monitors` is covered by the lemmas of `Lifecycle_proofs`.
* `RoutableCorrect`: `MonitorsSpec => []RunningIsRoutable`. Alone it is not
  inductive: a check makes a model running whose endpoint it read long before.
  `RoutableInv` adds that a start past its allocation has a port
  (`StartsHavePort`) and that a check that waits for an answer has an address
  (`ChecksHaveTarget`); both hold because a port, once set, is never unset. The
  theorem is about models whose start script has `${PORT}` and that have no
  endpoint. A start script without `${PORT}`, endpoint and override passes
  `Validate` (config.go:271) and runs without a target; and whether the port is
  still leased to the model is not its subject.

### Requests (`Gateway_proofs`)

* `GatewayTypeCorrect`, `WaitingCorrect`, `QueuedCorrect`: `GatewaySpec =>
  []GatewayTypeOK`, `[]WaitingIsInOnePlace`, `[]QueuedIsUnanswered`, from
  `GatewayInv`. The two properties of the queues need each other, and more
  (`QueueInv`): who is in a queue, with a callback, or has an answer in its
  channel waits or has timed out (`OnlyWaitersInvolved`), or a request could be
  answered after it had gone on; who waits without an answer is held somewhere
  (`WaitersAreHeld`); and what a callback has taken is in no queue
  (`TakenIsOutOfQueue`), or a second callback would take it, too. One lemma per
  half of a callback: `GetKeepsQueue`, `SendKeepsQueue`. The theorem does not
  say that a callback will come: for a request queued under an alias none does
  (`alias_not_signalled`), and one that was queued too late waits for its
  timeout (`lost_wakeup`). `HandlersCallStart` ties a handler to its call of `Start`: the
  handler is in its `start` step exactly while the call is under way.

### The composed system (`Gateway_proofs`)

`Lifecycle` is proved correct alone; in `GatewaySpec` the reaper, the checks and
the requests act on the same models. Four theorems say that the manager's
properties survive that.

* `WholeHasOwners`: `GatewaySpec => [](StartingHasOwner /\ StoppingHasOwner)`;
  `WholeLeaksNothing`: `GatewaySpec => [](NoLeakAtRest /\ OnePortPerModel)`;
  `WholeLeases`: `GatewaySpec => LeasePromise`. Every step of the composition is
  a step of `Lifecycle` or an `Aside`: it leaves leases and script goroutines
  alone, makes a model `running` at most (a check), and touches at most a call
  that rests (a reaper or a handler that begins one, or takes note of its end).
  `AsideKeeps` shows that the four invariants (`ManagerInv`) are kept by an
  `Aside`; `MonitorsAside` and `GatewaySteps` put every step into one of the two
  classes. Models with a health check are outside `NoLeakAtRest` and
  `StartingHasOwner` here too, and the first does not hold of them: a `Stop`
  between `StartSetStarting` and `StartAllocate` leaves the lease of a stopped
  model whose script then succeeds.
* `WholeRoutable`: `GatewaySpec => []RunningIsRoutable`, for the same models as
  `RoutableCorrect`. `RoutableInv` speaks of
  starts past their allocation; a handler's call begins before it
  (`HandlersRoutable`).

The inductive invariant is `WholeInv == GatewayInv /\ ManagerInv /\ RoutableInv`.

### Answers (`Relay_proofs`)

* `RelayTypeCorrect` and `RelayCorrect`: `RelaySpec => []RelayTypeOK` and
  `RelaySpec => RelayPromise`, the refinement of `Answer`. `RelayInv` adds which
  route, status and progress go with each label (`Control`), and that what was
  handed on is what was read, as long as the connection is open (`Consistent`).
  Once a write is lost the two differ; the client has heard a prefix by then
  and hears nothing more, so the promise still holds. `Told` of a client that
  saw `[DONE]`, the whole length or an object needs that the loop that wrote it
  had read the end.
* `RelayComplete`: `RelaySpec => []NothingLost`, for a handler whose backend and
  client did not break off and whose write deadline (server.go:299) had not
  passed. The property speaks of a
  handler that has returned, whose backend may go on speaking, and says through
  `relayed` where a translation stops; neither is inductive. `HeardInv` says
  what the client has (`Whole`): the body, which is closed, or what comes before
  a first `[DONE]` or garbage (`StopsAt`), which stays where it is; and that a
  translation under way has read texts only (`ReadOn`). `StopFound` ties
  `StopsAt` to the search in `relayed`.

### Logs (`ScriptLogs_proofs`)

* `OutputCorrect`: `LogsSpec => []OutputBeforeOutcome`. `PlumbingInv` adds when
  there is a shell (`Phases`), that nothing is in a pipe without one (`Quiet`),
  and that a scanner that met the end of its stream met it for good
  (`EndIsFinal`): nobody who could write is left, and a shell that has exited
  does not fork.
* `LogsTypeCorrect`: `LogsSpec => []LogsTypeOK`, with the bound on the log and
  on the viewer's cursor. `RunInv` and `ProcessInv` have the types and which
  stage of a script goes with which status; `LogInv` says that the entries of
  the log are younger and younger and none is from the future, through appends,
  clears and cuts (`AppendKeepsLog`, `NewestProperties`).
* `ShownCorrect`: `LogsSpec => []ShownInOrder`. Whether an entry is shown twice
  is decided by the cursor, the time of the youngest entry shown; the page
  compares with it in milliseconds, the stream exactly. `ViewInv` says that
  nothing shown is younger than the cursor and the cursor not ahead of the
  clock. `MilliMonotone` is why the page, whose times are cut to milliseconds,
  can only drop an entry and never repeat one.
* `StreamCorrect`: `LogsSpec => []StreamShowsOutput`. The stream reads the log,
  then the status, and after a terminal status the log once more. `StreamInv`
  says that what the log still has up to the cursor was shown
  (`NothingSkipped`), and that a stream that saw a terminal status saw the end
  of the job it remembers (`SawTheEnd`): without a health check a status is
  terminal only when the scanners are through (`RunInv`), so that no later entry
  is output of that job, and the last look has all of it. A health check makes
  the model running while its script still prints, so for a health-checked
  model the theorem is about the jobs before the last one; and it is about
  calls that do not overlap, as the module is.

  `GetLogsSince` and the page's loop (`ShowFetched`) are recursive functions.
  Nothing is assumed of them: `UpTo` is induction over the rounds of one loop,
  stated for sets, from the well-foundedness of < on the naturals;
  `LoopExists` shows that the sequence of the values after each round exists
  and is the recursive function; `SinceProperties` and `ShowFetchedKeepsOrder`
  are the loop invariants.

### Names (`Registry_proofs`)

* `NamesCorrect`: `RegistrySpec => []OwnNameIndexed`. What `NewManager`
  overwrites depends on what `Validate` refused, so `RegistryInv` carries the
  rules of `Validate` (`ConfigOK`) along.
* `ProgramKeepsRegistry`: `ProgramSpec => RegistrySpec`, by which the above
  holds of the program.
* `ProgramTypeCorrect` (`Program_proofs`): `ProgramSpec => []ProgramTypeOK`.
  `ProgramInv` takes `RegistryInv` along: `Stop` looks its model up by name, so
  that a status is set on a model that exists depends on what the map holds.

### Only model-checked

Liveness: `StoppingEnds`, `StartingEnds`, `IdleModelsAreReaped`,
`HealthCheckedStartingEnds`, `EveryRequestAnswered`, `HandlerEnds`,
`ScriptsEnd`, `RunningModelsStopped`, `ShutdownEnds`. Liveness under fairness
and `ENABLED` are out of the prover's reach. The modules have no recursive
operators; the recursive functions (the two loops of the logs) are covered by
the argument above.

## 5. Not modelled

* The bytes of requests and responses, headers other than the length, and the
  text an `Ollama` backend may put into its last event, which the code drops;
  unknown models and malformed requests, which are refused before any state is
  read. `/api/ollama/tags` (ollama.go:177) puts the method `m.Name` instead of
  the name into its answer, which cannot be encoded: a sequential mistake that
  no interleaving is needed for.
* The log entries of `Restart`, which has the whole output of its stop script
  in one, and the logs of calls that overlap. The table of routes, which is fixed once.
* The order of the two deadlines of a connection: `Relay` lets the write
  deadline pass at any time.
* Log files, which lumberjack opens again when they are written to after
  `Close`.
* Authentication, metrics, tracing, log files, static files: no state that the
  modelled parts read. `LogRequest` and `LogResponse` of the chat log,
  `Handler` and `DynamicHandler` of the proxy, `GetPort`, `IsAllocated`,
  `AllocatedPorts`, `QueueCount` are called from nowhere or only read.
* `checkTTLs` reads the statuses of a snapshot one after the other; `ScanTTLs`
  takes them as one.
* A `backendOverride` of a model with a port is taken to name `${PORT}`, that
  of any other model not to.

## 6. Plan

1. Proofs: a variant of `ModelService` that `Monitors` refines, health checks
   included. `stale_promotion` shows that it must allow a step from `error` to
   `running`, even for calls that do not overlap.
2. A request's promise as an abstract specification refined by `Gateway`.
3. Which models are left behind by `Shutdown`, once models carry the start they
   belong to.
