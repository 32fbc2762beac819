# Verification of Zynax

Zynax compiles declarative workflow manifests into an intermediate
representation, runs them on an engine (Temporal or Argo), and dispatches the
actions of a run as tasks to agents. This directory holds TLA+ models of the
parts of it that keep state and run concurrently, the TLC configurations that
check them, and proofs checked by TLAPS. `PROJECT.json` maps every definition to
the lines it models and lists runs, mutants, hazards, findings and theorems.

## 1. Inventory

### The way of a workflow through the system

    zynax apply / gitops watch / kubectl              ZynaxCLI, GitopsWatcher
        -> api-gateway       compile, look up, submit WorkflowApply, GatewayREST
        -> workflow-compiler manifest -> WorkflowIR   WorkflowCompiler
        -> engine-adapter    run the state machine    IRInterpreter
             per action: activity, retries, polling   CapabilityDispatch
             quota gate (built, not wired yet)        QuotaChecker
        -> task-broker       task table, execution    TaskBroker, TaskLifecycle
             -> agent-registry SelectAgent            AgentScheduler
             -> adapter ExecuteCapability             AgentCall, HttpAdapters,
                                                      ModelAdapters, AgentAdapters
                  credential and configuration        GitCredential, AdapterConfig
        memory-service       values of a namespace    MemoryService
        lifecycle events -> JetStream (zynaxevents)   EventStreams, DeadLetters
             -> GET /workflows/{id}/logs              LogFollow
        every process: start, probes, shutdown        ServiceLifecycle

### Components

| Component | State | Operations | What makes it hard | What makes it correct |
|---|---|---|---|---|
| **task-broker** | table of tasks (map or Postgres); goroutines with copies of rows; recovery cursor | DispatchTask, AcknowledgeTask, CancelTask, executeAsync, RecoverInFlight | read-modify-write without a lock or a version; recovery next to the live server; restarts; errors after commit | no task lost; terminal stays terminal; rows never mix outcomes; an expert's task stays within its label, with its own slice; outcomes announced |
| **engine-adapter: dispatch** | one activity, its attempts; the tasks it made | DispatchCapabilityActivity, poll; Temporal retries and timeouts | an attempt timed out by Temporal runs on; lost and late requests; broker restarts | bounded work; a result from the current attempt; every action ends |
| **engine-adapter: interpreter** | current state, context, data store, published events | Run, executeActions, resolveTransition, WriteOutputs, ResolveInputs, captureTerminalOutputs; Signal, Cancel | every error path publishes or does not; loops overwrite published values; cancellation at any await | the events tell the outcome; inputs and outputs are the latest values |
| **api-gateway: apply, reconciler** | the Workflow resource, informer cache, work queue; runs in the engine | ApplyWorkflow, submit, Reconcile, writeStatus | look-up before submit; status written after the effect; stale cache, conflicts, restarts; engines that differ | status is about the spec it names; one run per manifest; gate closes; status catches up |
| **api-gateway: logs; engines' Watch** | three goroutines and a channel per request; a JetStream consumer | logs, Watch, Subscribe, Cancel | redelivery, deliveries lost in a reconnect, early acknowledgement, drain after return, a client that stops reading, a run deleted under its follower | nothing acknowledged that was not handed over; a terminal status in the stream is the run's; silence after the return |
| **zynaxevents** | streams, consumers, dead letters | Publish, Subscribe, forward dead letters, names | advisories nobody keeps; several forwarders; any order of creation; names that coincide | a message rescued once per window; every loss accounted for; each event in one stream |
| **workflow-compiler** | none: three RPCs | parse, build the graph, validate, policy gate, IR | several passes that must agree with each other and with the interpreter | what compiles can be run; what is refused could not be |
| **agent-registry** | index of agents, readiness in the Agent's status, metrics cache | informer and readiness reconcile, SelectAgent | stale caches, conflicts, lost wake-ups, read errors, leader restarts | answers name a ready, capable agent; the index catches up |
| **adapters** | one call each; a cached token (git) | ExecuteCapability, MCP tool calls, Token, Load | deadlines, broken streams, cut-off upstreams, refresh races, incomplete configuration | the verdict is true; every bounded call ends; tokens outlive requests |
| **memory-service** | Redis keys with TTL, Postgres rows | Set, Get, MSet, MGet, Delete, ListKeys, DeleteNamespace, vectors | scans of several steps, expiry, lost answers, prefixes and globs | nothing crosses a namespace |
| **CLI, gitops watcher** | last-run file; hashes in memory and on disk | commands; sync, notices, apply, save | lost answers, other shells, runs that go on; crashes between apply and save | a command tells what happened; every file applied |
| **processes** | open resources, health, requests in flight | start, probe, drain, close | startups that fail half-way; requests during shutdown | nothing in use is closed; traffic only to what has opened what it needs; SIGTERM ends it |
| quota gate | quotas, active counts | Check | check, then dispatch; a counter that fails | the ceiling, with the excess of races and outages accounted for |
| langgraph adapter, Python SDK, zynax-ci, protos, charts | - | - | Python, tooling, generated code, deployment | not modelled |

The hazards of each, at their lines, are in `PROJECT.json`.

## 2. Plan

Done, in this order: the broker with its abstract specification and proofs; dispatch;
interpreter; apply and reconciler; events (logs, dead letters, streams); compiler;
adapters; processes and configuration; scheduler; memory service; CLI, REST codes and
gitops.

Then the theorems: the broker; dispatch; apply and reconciler; interpreter; dead letters;
quota gate and credential; the logs of a run; the memory service; processes; adapters; the
CLI; the gitops watcher; event streams (section 6). The modules are written for it: no
RECURSIVE operator outside the modules only TLC uses, one action per operation, invariants as
conjunctions of named parts. What is left is in "Only model-checked".

## 3. The modules

### TaskBroker (services/task-broker)

`repo` is the tasks table; a row keeps what properties tell apart: status, retry
counters, expert target, whose context slice the payload carries, the agent it was
dispatched to, and whether result and error have content. A goroutine is a slot with a
control state `pc`, the task, the agent and `snap`, the copy of the row it will write.
Every repository call is a step of its own, and nothing else is: `AcknowledgeRead` /
`CancelRead` then `HandlerWrite` then `Announce`; `ExecRead`, `ExecClaim`, `ExecReturn`,
`ExecFinish`, `Announce` for `executeAsync`. `Update` writes the whole row without a
condition, so the model does too. `RecoverList`, `Relaunch` and `RecoverTurn` are
`RecoverInFlight` over its three statuses, with the keyset token of Postgres or the offset
token of the map. `Crash` ends every goroutine and starts recovery; the table survives iff
`Durable`. With `Faults`, a Save or Update may fail although it was applied, GetByID, List
and SelectAgent may fail; `abandoned` is the set of tasks an error path gave up since the
last start. Rejected calls change nothing and are no steps.

`Scope` is the expert label of each agent, which several may share: the scheduler filters by it
(`Select`), and only `DispatchTask` compares the name of the answer (`selectExpert`); `Relaunch`
does not. `Declares` are the agents whose schema declares a context slice. Retry budgets are
natural numbers, as docs/authoring/experts.md:85 asks; the code does not reject a negative one.

### TaskLifecycle

What users of the broker may rely on: a status per task, and whether some
read-modify-write that began before the task became terminal is `open`. Only an open write
changes a status. `TaskBroker` implements it under `status <- repo[t].status`,
`open <- StaleWriter(t)`.

### CapabilityDispatch (engine-adapter/domain/activity.go and its Temporal policy)

`activity` is Temporal's view, `worker[n]` what the activity function of attempt `n` is
doing, `request[n]` its DispatchTask request at the broker, `made[n]` the tasks created
for it. The broker's side is `INSTANCE TaskLifecycle`. Attempts are not stopped when
Temporal gives them up (the activity does not heartbeat), so several run at once. After the
back-off (`Retry`) an attempt is `scheduled` and waits for a worker (`StartAttempt`): the options
have no schedule-to-start bound. `MaxAttempts` is a number; with `MAX_ACTIVITY_ATTEMPTS=0` Temporal
retries for ever (main.go:85, 453-460), which lies outside.

### IRInterpreter (engine-adapter/domain/interpreter.go, datacontext.go, outputs.go)

Control follows `Run`: find the state, publish the entry, run its synchronous actions one
by one, choose the first matching transition, publish the exit, merge the payload.
`ctx` is the ambient context, `store` the explicit data context, `log` (a history variable)
every publication in order. Guards are equality tests on the context - the shape the
documentation uses - and a template is data that parses or does not. Output sizes are
small numbers against small bounds. A signal is buffered and never read, as in the code.

### WorkflowApply (api-gateway, with the engines' Submit and Cancel)

`runs` is the status of the latest execution under each name; names are the hash of a manifest or
that hash with the second of a re-run. `chooseRun` is the switch of `submit`. A REST caller takes
two steps (look up, submit), the reconciler four (read the resource, look up, submit, update the
status). The model lets the reconciler read a copy as old as its informer's; the manager's client
reads unstructured resources live, so this is harder than the code. The resource carries
generation, observed generation, run and resource version; the status update conflicts when the
version has moved. Temporal joins a running execution silently (the SDK's default) and starts
another one under the name of an ended one; Argo refuses a name that exists. Failed, cancelled and
timed-out runs are one status, since apply treats them alike. The deletion of a resource is not
modelled: the reconciler does nothing then.

### LogFollow (api-gateway logs, engine Watch, zynaxevents Subscribe)

Three goroutines of one request: the handler reads the engine's stream, the follower ranges
over the channel, the subscription takes messages, acknowledges and fills the channel. Around
them the run, which may end or be deleted, the publishers, and a JetStream consumer that
redelivers what is not acknowledged in time and may lose a delivery in a reconnect (`PushLost`).
The client may leave, or stop reading: then the write under way keeps the mutex (`Stall`). `Answer`
is what the client gets: once something was written, the error of the handler is not part of it
(api/handler.go:196-198). `scenario` fixes engine, scope and what is
published. The polls of Argo's phases and the history events of Temporal are `hist`.

### DeadLetters, EventStreams (libs/zynaxevents)

`DeadLetters`: forwarders of one queue group take advisories into a bounded buffer, fetch the
message, publish it with an id and retry; `told` counts each outcome. `EventStreams`: subjects are
sequences of segments and a segment one of words and dashes (`ToUpper` is a parameter), so that
`StreamName`, `SubjectFilter`, `streamSubjects`, durable names and glob patterns are the real
functions; publishers (`PublishMsg`) and subscribers (`SubscribeTo`) create what they need in any
order, and a subscription that fails half-way leaves the streams it made. `Remainders` is
`matchGlobSegments` from the end of the pattern on, as a recursive function; `Matches` states what
a pattern means without recursion.

### WorkflowCompiler, CompilerCases (services/workflow-compiler)

One request: parse, build the graph, validate, gate, convert, as operators over a manifest
record. `CompilerCases` lists manifests with one thing wrong each, and those that look wrong.
The reference definitions (`GraphRuns`, `RefsRun`) are reachability and data flow stated over
the IR, independent of the colouring and the worklists of the code.

### AgentCall, HttpAdapters, ModelAdapters, AgentAdapters (agents/adapters)

`AgentCall` is one ExecuteCapability call seen by its caller: context, stream, events, and
`truth`, whether the upstream did what was asked: `done`, `cut` (the body ended before the end of
the generation) or `failed` (also by an error object among the frames of a stream). `HttpAdapters`
has the handlers of http, git and ci (their polls and their error mapping), `ModelAdapters` those
of llm (producer and relay, three providers) and adk. `AgentAdapters` puts them together with the
server's checks and the MCP shim.

### GitCredential, AdapterConfig, ServiceLifecycle

`GitCredential`: environment to credential source, the scope gate, and the installation token
with its mutex, refresh margin and fallback. `AdapterConfig`: which configurations each adapter
loads, when it lacks its credential, when it cannot build its server; `FieldsGiven` says which
fields its calls read, without regard to where they are checked. It does not say that a provider
or a capability is one the adapter knows. `ServiceLifecycle`: each main as a
profile - the order in which it opens resources and the order of its deferred calls - with
failures at every step, SIGTERM at any time, probes and drains. `skips` are the connections a
configuration leaves out, `Needed` the others.

### AgentScheduler (services/agent-registry)

API server, caches and queues of the two controllers, the index, and SelectAgent as a
selection of several steps: filters, metrics, score, round robin. Status updates conflict when
the resource has moved. A restart loses index and queues.

### MemoryService (services/memory-service)

Calls of two clients, each command of Redis or Postgres a step; SCAN returns any batch of what
is there. Values remember the namespace that wrote them. Namespaces and keys are sequences of
characters, so that prefixes and patterns are real: `GlobMatches` is Redis's `*` and `?` (a pattern
with `[`, `]` or `\` may match anything), and namespaces reach it unescaped, as in the code.

### QuotaChecker, ZynaxCLI, GatewayREST, GitopsWatcher

`QuotaChecker`: check, submit, end of an invocation as separate steps. `GatewayREST`: the codes
of engine and compiler as the gateway maps them to statuses, request by request. `ZynaxCLI`:
commands of two shells against runs that go on, and the checks and the context budget of
`validate` and `apply`; look-up and submit of the gateway are two steps, so that an apply may
restart the name of a run that ended in between. `GitopsWatcher`: files, which may be there and
unreadable, notices, hashes in memory and in the state file, and what the gateway took.

### The MC modules

`PlatformMC`, `EventsMC`, `GatewayMC` and `BrokerLiveMC` put components that share no state side
by side; `part` says which of them a behaviour is about, and the others keep one state.
`TaskBrokerRacesMC` does the same with two kinds of behaviours of the broker. A
component with theorems is extended, so that run and theorem are about the same definition
(`PlatformMC` extends `IRInterpreter`, `CapabilityDispatch`, `QuotaChecker`, `GitCredential`,
`MemoryService`, `ServiceLifecycle` and `AgentAdapters`, `GatewayMC` extends `WorkflowApply`,
`ZynaxCLI` and `GitopsWatcher`, `EventsMC` extends `LogFollow`, `DeadLetters` and `EventStreams`);
the others are instantiated.
The fairness and the temporal properties are those of the part. Where components do
interact, one module holds both: `CapabilityDispatch` the broker (by `TaskLifecycle`),
`LogFollow` gateway, engine and event library, `AgentCall` adapter and broker, `ZynaxCLI` the
gateway's answers (`GatewayREST`).

## 4. The runs

| Run | Checks | Bounds |
|---|---|---|
| `broker_races`: recovery | `InFlightOwned` (and the properties below) | 2 tasks, 2 goroutines, pages of 1, 1 restart |
| `broker_races`: races | `OutcomeMatchesStatus`, `OutcomeAnnounced`, `FinalOnceDrained` | 1 task, 3 goroutines, one retry |
| `broker_faults` | `TypeOK`, `InFlightOwned`, `ExpertIsolation`, `ImplementsLifecycle` | 1 task, 2 goroutines, 3 agents of which 2 share a label, all errors, 1 restart |
| `broker_live` | `Settles` of the broker; `SelectsServing` of the scheduler | 1 task, 2 goroutines, 1 restart; 2 agents, 1 Service, 1 change, 1 fault |
| `platform`: interpreter | `EventsTellOutcome`, `InputsAreLatest`, `OutputsAreDeclared` | 3 workflows, 5 visits, 14 answers |
| `platform`: dispatch | `BoundedTasks`, `UnbackedMeansNoAgent`, `ResultOfCurrentTask`, `DispatchEnds` | 2 attempts, 3 task ids, in-memory broker, 1 restart |
| `platform`: compiler | `CompiledRuns`, `RejectedJustly` | the manifests of `CompilerCases` |
| `platform`: adapters | `VerdictIsTrue`, `CallEnds` | every capability, each with one thing wrong; 2 loops |
| `platform`: credential | `TokenOutlivesRequest` | 2 requests, lifetime 4, margin 2, 7 ticks |
| `platform`: lifecycle | `ServesWhatIsOpen`, `StopsOnSignal` | 12 processes, each adapter configuration with one thing wrong, 2 requests |
| `platform`: quota, memory | `CeilingHolds`; `NamespacesIsolated` | 5 callers, ceiling 2, 1 fault; 2 clients, 2 namespaces and one with a glob character, 2 keys, 1 fault |
| `apply`: reconciler | `TypeOK`, `StatusTellsSpec`, `SharedUntilCompleted`, `GateCloses`, `ReconcilerConverges` | both engines, a good and a broken manifest, 2 generations, 3 resource versions, 2 seconds, 1 fault; a second change of the resource in the first second only |
| `apply`: CLI, gitops | `CommandsTellTruth`; `WatchConverges` | 2 shells, 2 runs, 1 fault, 2 commands of any kind or 3 of apply, status and result (part `rerun`); 2 files, 2 edits, 1 crash or fault, 1 refusal |
| `events` | `FollowerFaithful`, `EndIsTruthful`, `SilentAfterReturn`, `LogsOfRunEnd`; `RescuedOnce`, `RescueAccounted`; `EventsReachFollowers` | 6 scenarios, channel of 1, 2 deliveries, 1 fault; 2 forwarders, 2 messages, buffer of 1; the event types and patterns of `EventsMC`, two of which share a stream name |
| `broker_terminal`, `broker_retry`, `broker_reroute`, `interpreter_human`, `apply_duplicate`, `apply_argo` | a documented property that is violated | |

Why the bounds are enough. Tasks of the broker share nothing but the recovery cursor:
one task meets every race on a row, two tasks with pages of one meet the cursor moving
between pages. Two writers make a lost update, a third one can follow it. One restart
meets every point of the first life; recovery then runs to its end next to new calls.
Two attempts are the current one and an older one; a third task id shows
that none is made beyond the attempts. The three workflows have a loop over states that
publish under one key, guards that shadow each other, async actions, broken templates,
missing states and missing outputs; five visits go round the loop twice. One resource
with two generations shows a spec that changes under a reconcile, and three resource versions a
spec that changes after the status of the one before was recorded; two seconds give a
re-run a fresh name or the name of another re-run. A channel of one and two deliveries
fill the channel and exhaust a message with two events. A buffer of one overflows with the
second advisory, two forwarders meet on one message. A token of lifetime four is refreshed
with a margin of two and may hard-expire within seven ticks while another request waits. Five
callers with a ceiling of two include two that pass the check together. One namespace is a
prefix of the other, and a key makes up the difference. Two commands make a pair of which the
second sees what the first left behind; the third of `rerun` asks for a run that two applies
raced for.

Threads of the broker are interchangeable (symmetry in the runs without liveness).
`CHECK_DEADLOCK FALSE` where the system may stop: a broker with no more task ids to hand
out, a run, a call or a process that has ended.

### What the violation runs show

- `broker_terminal`: task_broker.proto:17 "Terminal statuses ... are immutable". Two
  handlers, or a handler and an execution, that read before either writes replace one
  terminal status by another. `FinalOnceDrained` and `TaskLifecycle` say what does hold.
- `broker_retry`: task_broker.proto:76-77 says that for RETRYING "a new dispatch to an
  eligible agent is pending". Nothing dispatches it until the broker restarts.
- `broker_reroute`: the comment of relaunch, service.go:207-208, says that a task "targeted at
  a now-missing expert is left untouched (never re-routed)". Where two agents carry one expert
  label, the scheduler may answer with either; DispatchTask compares the name, relaunch does not,
  and the task runs on the other agent. `ExpertIsolation` says what does hold: the label is the
  expert's, and the payload carries no slice of another agent.
- `interpreter_human`: docs/authoring/workflows.md:77 "pauses execution until an external
  signal arrives". The interpreter has no signal channel and passes such a state at once.
- `apply_duplicate`: docs/spdd/1573-workflow-crd-front-end/canvas.md:233 "Never submit a
  duplicate run for an unchanged spec". The submit succeeds, its answer or the status
  update is lost, the run completes, and the next reconcile starts a re-run. `GateCloses`
  says what does hold: after the status was recorded, nothing more is started.
- `apply_argo`: apply.go:111 "Not found / failed / other terminal -> start new run with
  hash ID". Argo refuses the name of the failed run, and so does every retry.

One thing the dispatch part of `platform`, with its in-memory broker, makes visible: after a restart
GetTask answers NotFound, which the activity takes for a missing agent
(activity_dispatch.go:71), so the action fails at once although it could be retried.
`UnbackedMeansNoAgent` names this case; with `Durable = TRUE` it cannot occur.

### Fairness

- `TaskBroker`: weak fairness of every goroutine (the Go scheduler; the agent call
  returns in the end - without that the code gives no bound, see the hazard at
  service.go:318), strong fairness of recovery, because a free slot is a bound of the
  model and not of the runtime.
- `CapabilityDispatch`: only Temporal's own timers, StartToClose and back-off. Nothing is
  assumed of workers, broker or agents. So `DispatchEnds` says that an action ends or that its next
  attempt waits for a worker for ever, and it is about a limited number of attempts.
- `WorkflowApply`: the informer's watch delivers and the worker of the work queue runs
  (controller-runtime). No fairness for clients, engine or resync. `Converges` allows for
  Argo refusing a name again and again.
- `AgentScheduler`: the work queues are worked off, watches deliver, and the resync of the
  informers comes round; it is what repairs a wake-up that was lost.
- `LogFollow`: its goroutines run. The engine, JetStream and the client need do nothing; a write to
  a client that does not read never returns, for the handler has removed its deadline
  (handler.go:161-165), and `LogsOfRunEnd` names this case.
- `AgentAdapters`: the handler runs, and a context with a deadline ends; upstreams may stay
  silent for ever.
- `ServiceLifecycle`: the process runs and the drain timer of the gateway fires; requests
  need not end.
- `GitopsWatcher`: the watcher's loop runs, its HTTP call returns included (the client has
  no timeout; see below).
- The other modules state safety only.

## 5. Observations

Met while modelling. Besides the six statements that have a violation run, the code disagrees
with these; the property that is named states what does hold, with the exception in it:

- `zynax result` exits 0 for a FAILED or CANCELLED run that left a completion text: the fallback
  returns before the status is looked at. The help (result.go:33-35), the comment below it
  (result.go:73-76, "a real failure never reads as success") and
  docs/runbooks/see-workflow-result.md:19 say that it exits non-zero. `ResultTold`.
- The error producer of the llm-adapter "cannot deadlock" because "the reader always drains until
  the channel closes" (provider.go:99-100). The relay returns when it cannot send to its caller,
  and a producer with an error then waits for ever. `CallEnds`.
- "Upstream failures surface as a Chunk with a non-nil, sanitised Err" (provider.go:7-9): an error
  object within the stream of openai or ollama is decoded into a frame without an error field and
  skipped, and a body that ends early is no error, so the call ends with COMPLETED (adk: the latter
  only). `VerdictIsTrue`, `Unnoticed`.
- memory.proto:78 says that MSet stores its entries atomically. The handler sets them one by one,
  so a failure or another call may come in between. `MSet` of `MemoryService` is several steps.
- structural.go:52-54 says that cycles with a human_in_the_loop state are accepted. The detector
  does not look at the type of a state and rejects such a cycle if it has no way to a terminal
  state. `Trapped`; `CompiledRuns` and `RejectedJustly` take the code's side, because the
  interpreter passes a human state at once and would go round for ever.
- A memory-service without a Redis DSN logs that "KV RPCs will return UNIMPLEMENTED"
  (main.go:82); the store is nil, the first such call panics, and the process is SERVING until then.
  An agent-registry without the informer is SERVING too, without a SchedulerService (main.go:98-111).
  `ServesWhatIsOpen`, `profile.skips`.

No statement of the repository is against these, or the case lies outside the models:

- The logs answer ends like a complete one after an error in mid-stream (api/handler.go:196-198):
  a client must look for a terminal status. `EndIsTruthful` says that this is enough.
- A client of the logs that keeps its connection and reads nothing holds two goroutines and a
  consumer for as long as it likes.
- Compiler: references may have dotted keys, which the engine's `canonicalRefKey` rejects;
  guards of transitions never reach the IR although `DuplicateTransitionValidator` relies on
  them; a NaN input validates and then fails to compile with Internal.
- Adapters: the git and http adapters may report UPSTREAM_ERROR for an exceeded timeout; git's
  validation accepts capabilities it has no handler for, whose calls all fail; the ci-adapter
  takes the first run listed since its trigger, which may be another trigger's; error texts are
  cut by bytes; the bedrock provider is built without the credential the configuration demands;
  `timeout_seconds` of a capability is used by adk only; only llm and adk compile schemas at the
  start.
- Processes: the health of the git, ci and llm adapters stays SERVING while they drain; a service
  whose Serve fails logs it and stays up; livez fails for a service that is idle after its first
  request; goroutines of the broker outlive GracefulStop and may find the repository closed;
  `git-adapter mcp` without a credential serves gRPC; a degraded ci-adapter still registers its
  AgentService.
- Memory service: ListKeys takes its prefix for a whole pattern; Delete never says NOT_FOUND; a
  `:` in a namespace lets two namespaces meet in one key, and a `*` or `?` makes ListKeys and
  DeleteNamespace reach into others (redis_kv.go:70, 139), while requireNamespace only asks for a
  string that is not empty (`NamespacesIsolated` exempts such ids); DeleteNamespace keeps vectors.
- Events: names of streams do not tell dots, dashes, underscores and cases apart (naming.go:43-47),
  so that `a-b` and `a.b` may claim one name; and an event type that is exactly the four-segment
  prefix, published first, makes a stream that takes nothing below it (61-67; the comment on
  `streamSubjects` covers the other order only). The later publish is then refused.
- Scheduler: agents without metrics score best; the elimination reported is the last filter's.
- Gateway and CLI: events for unknown runs are accepted with 202; GET and DELETE answer 500 when
  the engine is unavailable or (Argo) the run has ended; an apply that looked a run up before it
  ended starts it again under its name (Temporal), COMPLETED ones too; a failed run that is
  started again under its name replays the old text to followers.
- Gitops: an apply whose answer was lost, followed by a revert of the file, is skipped as
  unchanged (`FilesApplied` names the case); a file that cannot be read is not tried again until
  its next notice; new subdirectories are not watched.
- The quota gate is not constructed by the service; its counter failing admits a dispatch.

## 6. What is proved

Thirty theorems in seven modules, and `Recursions` with the lemmas on induction. All have the
same argument: an inductive invariant, stated as a conjunction of named parts; that the initial
states satisfy it; one step per action that every step keeps it; and that it implies the
property. The invariants were checked with TLC on the runs' instances before they were proved.

### TaskBrokerProofs

For every set of tasks, agents, goroutines and requests, every page size, both repositories,
with and without faults, and any number of restarts:

| Theorem | States | Strengthening |
|---|---|---|
| `BrokerTypes` | `Spec => []TypeOK` | `Typed`: a busy goroutine works on a task (`Busy`) |
| `BrokerOutcomes` | `[]OutcomeMatchesStatus` | `Coherent`: copies about to be written are coherent too; needs that acknowledgement starts from a non-terminal row |
| `BrokerIsolation` | `[]ExpertIsolation` | `Isolated`: a copy never differs from its row in expert and slice, a goroutine executes on an agent of the label its row targets, pages only name existing rows |
| `BrokerLosesNoTask` | `[]InFlightOwned` | `WritesSettle`: a copy in `finish` or `write` is not in flight, so an owner disappears only with a status out of flight; `PageCovers`: what a page leaves out lies beyond its token |
| `BrokerAnnounces` | `[]OutcomeAnnounced` | `ClaimsDispatch`: a claim writes DISPATCHED and nothing else, so that whoever writes an outcome goes on to announce it |
| `BrokerFinality` | `FinalOnceDrained` | `Keeps`, from `Typed` and the step alone |
| `BrokerImplements` | `ImplementsLifecycle` | `WritesWritten`: copies about to be written have a status `TaskLifecycle` may write; each step is one task's step or a stutter |

The assumptions are those of `TaskBrokerAssumption`: tasks are a finite set of positive
numbers (the order of `created_at, task_id`), requests and acknowledgements are of their
types, pages are not empty. The in-memory repository (`Durable = FALSE`) is covered by
the proofs; the runs use the durable one.

### The other proof modules

| Theorem | States | Strengthening |
|---|---|---|
| `CapabilityDispatchProofs`: `DispatchIsBounded`, `DispatchGivesUpJustly`, `DispatchResult` | `[]BoundedTasks`, `[]UnbackedMeansNoAgent`, `ResultOfCurrentTask` | `DispatchInv`: what the request of an attempt says of the tasks made for it (`RequestTells`), what its worker can have seen (`WorkerTells`), a back-off leaves an attempt (`BackoffEnds`), a durable broker forgets nothing (`BrokerKnows`) |
| `WorkflowApplyProofs`: `ApplyTypes`, `ApplyStatus`, `ApplyGate` | `[]TypeOK`, `[]StatusTellsSpec`, `GateCloses` | `ApplyInv`: the cache is a state the resource had (`Snapshot`), and what the reconciler carries is about the generation it read (`RecTells`); the optimistic lock does the rest |
| `ApplyShares` | `[]SharedUntilCompleted` | `SharedInv`: a name with a second is carried between look-up and submit only for a manifest that has completed |
| `IRInterpreterProofs`: `RunTells` | `[]EventsTellOutcome` | `ControlInv`: events are a chain of entries and exits (`Chain`), their end tells where the interpreter is (`Tale`, `InState`) and what it decided (`Ends`, `Verdict`) |
| `RunInputs`, `RunOutputs` | `[]InputsAreLatest`, `[]OutputsAreDeclared` | `DataInv`: every value in the data context is the one its state published last (`StoreTells`) |
| `EventsProofs`: `DeadLettersOnce`, `DeadLettersAccounted` | `[]RescuedOnce`, `[]RescueAccounted` | `DeadLettersInv`: a forwarder has a message iff it is at work (`AtWork`), a message is stored once per window it was remembered in (`CopiesTell`), the sum of places and outcomes is the number of advisories (`Accounted`) |
| `GatesProofs`: `QuotaCeiling` | `[]CeilingHolds` | `QuotaInv`: that with types; the proof shows that a metered caller had counted all metered ones |
| `CredentialOutlives` | `[]TokenOutlivesRequest` | `CredentialInv`: what serves has passed the gate (`GatePassed`), what is sent was good when it was handed out (`TokensGood`) |
| `EventsProofs`: `LogsTruthful`, `LogsSilent` | `[]EndIsTruthful`, `SilentAfterReturn` | `HandlerInv`: who holds the mutex is writing, and the handler returns after the follower (`Writers`); only the last event of a history is terminal (`Watched`); what was sent, the error of the handler and the run fit together (`Truth`) |
| `FollowerTells` | `[]FollowerFaithful` | `SubInv`: a delivered event was handed over, is in hand or waits (`Delivered`), before it all earlier ones of which no delivery was lost (`InOrder`), and not more often than it was delivered (`Counted`); `Showing`: what was handed over is shown, then in the follower's hand, then in the channel, in this order |
| `MemoryServiceProofs`: `MemoryIsolated` | `NamespacesIsolated` | `MemInv`: a value lies under the namespace that wrote it (`ValuesOwned`); for ids without `:` and glob characters, what a call has read is its namespace's, what it will delete lies under it, and what a DeleteNamespace has not deleted is new or still to be visited (`CallsFit`) |
| `GatesProofs`: `ProcessServes` | `[]ServesWhatIsOpen` | `LifeInv`: a process past a step has opened what the step opens unless it may skip it (`NeededOpened`), what a request needs is closed after the last request (`ClosedLast`), the health status is what startup and drain made it (`HealthTold`), and the startup is past a check only with a configuration that meets it or without the credential (`PassedChecks`); then for each of the twelve startup and closing orders |
| `CapabilityDispatchProofs`: `VerdictsAreTrue` | `[]VerdictIsTrue` | `AdaptersInv`: at most one terminal event, the last, and a true one (`Told`); what each handler may take for done where it is, the unnoticed failures of a stream included (`Done`); the producer of the llm stream holds at most one chunk that is not relayed (`Relayed`) |
| `WorkflowApplyProofs`: `CommandsTold` | `[]CommandsTellTruth` | `CliInv`: what a command has in hand is what the gateway answered it, and the runs it counted exist; the budget by induction over the sources |
| `WatcherLosesNone` | `[]FilesApplied` | `GitInv`: nothing is applied before the state is loaded (`NoneEarly`); the record that counts agrees with the gateway but for what it never learnt of (`RecordTrue`); the content of a watched file was dealt with, is being applied or will be looked at, and an apply of what it no longer is is followed by another look (`NoneLost`) |
| `EventsProofs`: `EventsArrive` | `[]EventsReachFollowers` | `StreamsInv`: every stream has the subjects of the entity it is named for (`MadeFor`), a consumer reads the stream and filter of its own pattern (`ReadsOwn`), and what was just published is as the property says (`PublishSeen`); no stream's name is assumed to be its own |

`FollowerFaithful` is the one whose invariant took most finding. That first showings are in the
order of the stream does not follow from what is in the channel: redelivery can put an old
message behind a new one. It follows because JetStream delivers a message for the first time
only after all earlier ones, so that each of these was handed over or is ahead in the inbox - or a
delivery of it was lost in a reconnect, which the statement names.

Three proofs are about what a recursion computes for inputs of any size: that the bound context
keeps within its budget, the oldest source cut first (`CommandsTold`); that the watcher's first
walk visits the files that are there (`WatcherLosesNone`); and that `matchGlobSegments` decides
`Matches` for any number of `*` and `**` (`GlobMatches`, for `EventsArrive`). The theorems of
the library take an operator as a parameter, which the provers here cannot instantiate;
`Recursions` states the same with sets: a set of naturals that has 0 and with n also n + 1 has
all of them (`SetInduction`), a set with a member has a least one (`LeastNumber`), and a recursive
function exists and satisfies its equation when the step is given as a function
(`RecursionExists`). Each use names the set of numbers of which the claim holds.

What the assumptions say, and why the code justifies them:

- `CapabilityDispatchAssumption`, `DeadLettersAssumption`, `WorkflowApplyAssumption`,
  `LogFollowAssumption`: bounds are numbers, sets of which cardinalities are taken are finite,
  engines are the two there are, at least one delivery and room for one event in the channel.
- `IRInterpreterAssumption`: names are strings, actions and transitions are sequences - what the
  protobuf message can be. No reachability, no declared targets: the theorems hold of broken
  workflows too.
- `QuotaAssumption`: finitely many callers, any sequence of quotas, also negative and repeated.
- `MemoryAssumption`: requests are of their type, and ids are not empty. The theorem is about the
  ids without `:` and glob characters (`Ids`), among others that may have them; the gateway makes
  ids of `wf-`, hex digits and the time of a rerun (`ManifestWorkflowID`, `rerunWorkflowID`). Keys
  may have any characters: the first `:` of a Redis key ends such a namespace, so the pattern of
  one fits no key of another.
- `GitCredentialAssumption`: the margin is positive and an installation token lasts at least as
  long as the margin (`refreshSkew` is five minutes, GitHub's tokens last an hour). A token that
  was minted with less would break the margin on its first use.
- `LifeAssumption`, `AgentCallAssumption`, `HttpAdaptersAssumption`, `ZynaxCLIAssumption`,
  `GitopsAssumption`: processes are the twelve there are, configurations, calls and scenarios are
  of their types, bounds are numbers.
- `EventStreamsAssumption`: the taxonomy has at least two segments, and no type or pattern has a
  segment `>`. Nothing is assumed of names: that two coincide is a case of the statement.

### Only model-checked

- Liveness (`Settles`, `SelectsServing`, `DispatchEnds`, `ReconcilerConverges`, `WatchConverges`
  beyond its `FilesApplied`, `CallEnds`, `LogsOfRunEnd`, `StopsOnSignal`): fairness and ENABLED are
  out of the prover's reach.
- `CompiledRuns`, `RejectedJustly`: the compiler's depth-first search and its worklists are
  RECURSIVE operators over graphs, which switch off the SMT backend, and `PlatformMC` checks them
  against reachability and data flow on the manifests of `CompilerCases`.

## 7. Not modelled

zynax-ci, charts, protocols, images, the Python SDK, the examples and the langgraph adapter;
of the CLI `init`, `up`, `down` and `mcp`, which write templates or start other programs. In the
modelled components: the wording of errors, logging, metrics and traces, payload bytes and JSON
(content present or absent, well-formed or not), the publishing of non-terminal task events,
authentication, the parsing of environment variables of the services, database migrations and
SQL. Redis, Postgres, JetStream, Temporal, Argo, the Kubernetes API and the upstreams of the
adapters are modelled from how the code uses them.
