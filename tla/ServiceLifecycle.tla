--------------------------- MODULE ServiceLifecycle ---------------------------
(***************************************************************************)
(* How a process of the platform starts, serves, is probed, and stops:     *)
(* the six services and the five adapters. A profile says in which order a *)
(* main opens its resources and in which order it closes those it opened.  *)
(***************************************************************************)
EXTENDS AdapterConfig

CONSTANTS Services,     \* the processes that are started
          Configs,      \* the configurations of each process
          MaxRequests   \* bound on the requests in flight

\* The mains, that of the engine-adapter with either engine.
Mains == {"engine-adapter", "engine-adapter-argo", "agent-registry", "api-gateway", "workflow-compiler",
          "task-broker", "memory-service", "git-adapter", "llm-adapter", "ci-adapter", "adk-adapter",
          "http-adapter"}

ASSUME LifeAssumption ==
    /\ Services \subseteq Mains
    /\ \A s \in Services : Configs[s] \subseteq Configuration
    /\ MaxRequests \in Nat

VARIABLES svc,       \* the process
          cfg,       \* its configuration
          phase,     \* "start", "run", "drain", "close"; "ended", "exited" or "killed"
          at,        \* the next step of the startup
          opened,    \* steps done whose resource is not closed
          had,       \* steps done
          degraded,  \* an adapter without its credential
          tls,       \* the TLS files: "none", "partial", "bad" or "ok"
          health,    \* the status of the gRPC health service
          inflight,  \* requests and streams in flight
          work,      \* the last successful request: "never", "fresh" or "stale"
          peers,     \* whether the connections to other services work
          signalled, \* SIGTERM has been sent
          late       \* the drain deadline has passed

lifeVars == <<svc, cfg, phase, at, opened, had, degraded, tls, health, inflight, work, peers, signalled, late>>

-----------------------------------------------------------------------------
(* Profiles. steps: the startup; closes: the order in which a return closes; *)
(* skips: steps a configuration leaves out; drains: whether NOT_SERVING is   *)
(* set before the drain; bounded: whether the drain has a deadline; returns: *)
(* whether an error of Serve ends the process; exits: whether a failure of   *)
(* the startup is an os.Exit, which closes nothing.                          *)

Profile(steps, closes, skips) ==
    [steps |-> steps, closes |-> closes, skips |-> skips, drains |-> TRUE, bounded |-> FALSE,
     returns |-> FALSE, exits |-> FALSE]

\* What each constructor opens, in order. InitTracer is a no-op without a collector.
InitTracer == <<"tracer">>
StartMetricsServer == <<"metrics">>
ListenAndServe == <<"listen", "serve">>

dialGRPCClients == <<"tls", "brokerConn">>
buildTemporalEngine == <<"temporal">> \o dialGRPCClients \o <<"events", "worker">>
buildArgoEngine == <<>>
startGRPC == <<"tls", "health">> \o ListenAndServe
startHTTP == <<"http">>
startAdmin == <<"admin">>
cleanup == <<"worker", "temporal", "brokerConn", "events">>

engineAdapter(buildEngine) ==
    Profile(InitTracer \o buildEngine \o startGRPC \o startHTTP \o startAdmin \o <<"started", "notify">>,
            <<"http", "admin">> \o cleanup \o InitTracer, {})

startCRDInformer == <<"informer">>
agentRegistry ==
    Profile(<<"config", "notify">> \o InitTracer \o StartMetricsServer \o <<"tls">> \o startCRDInformer
              \o <<"health">> \o ListenAndServe,
            <<"metrics", "tracer">>, {"informer"})

NewGatewayClients == <<"tls", "compConn", "engConn", "events">>
StartController == <<"controller">>
serveUntilShutdown == <<"serve">>
apiGateway ==
    [Profile(<<"config", "notify">> \o NewGatewayClients \o StartController \o InitTracer \o <<"started">>
               \o serveUntilShutdown,
             <<"tracer", "compConn", "engConn", "events">>, {"controller"})
     EXCEPT !.bounded = TRUE]

startMetricsServer == <<"metrics">>
workflowCompiler ==
    [Profile(<<"config", "tls">> \o InitTracer \o <<"health", "listen">> \o startMetricsServer
               \o <<"notify", "serve">>,
             <<"metrics", "tracer">>, {})
     EXCEPT !.exits = TRUE]

NewSchedulerClient == <<"selector">>
newRepository == <<"repo">>
attachEventPublisher == <<"publisher">>
newGRPCServer == <<"health">>
taskBroker ==
    Profile(<<"config", "notify">> \o InitTracer \o StartMetricsServer \o <<"tls">> \o NewSchedulerClient
              \o newRepository \o attachEventPublisher \o newGRPCServer \o ListenAndServe,
            <<"publisher", "repo", "selector", "metrics", "tracer">>, {"publisher"})

memoryService ==
    Profile(<<"config", "notify">> \o InitTracer \o StartMetricsServer
              \o <<"tls", "redis", "health">> \o ListenAndServe,
            <<"metrics", "tracer">>, {"redis"})

Adapter(steps, drains) == [Profile(steps, <<>>, {}) EXCEPT !.drains = drains, !.returns = TRUE]

gitAdapter == Adapter(<<"config", "credential", "gate", "notify", "listen", "health", "serve">>, FALSE)
llmAdapter == Adapter(<<"config", "credential", "agent", "listen", "notify", "health", "serve">>, FALSE)
ciAdapter == Adapter(<<"config", "credential", "notify", "listen", "health", "serve">>, FALSE)
adkAdapter == Adapter(<<"config", "notify", "listen", "agent", "health", "serve">>, TRUE)
httpAdapter == Adapter(<<"config", "notify", "listen", "health", "serve">>, TRUE)

profile ==
    CASE svc = "engine-adapter" -> engineAdapter(buildTemporalEngine)
      [] svc = "engine-adapter-argo" -> engineAdapter(buildArgoEngine)
      [] svc = "agent-registry" -> agentRegistry
      [] svc = "api-gateway" -> apiGateway
      [] svc = "workflow-compiler" -> workflowCompiler
      [] svc = "task-broker" -> taskBroker
      [] svc = "memory-service" -> memoryService
      [] svc = "git-adapter" -> gitAdapter
      [] svc = "llm-adapter" -> llmAdapter
      [] svc = "ci-adapter" -> ciAdapter
      [] svc = "adk-adapter" -> adkAdapter
      [] svc = "http-adapter" -> httpAdapter

\* Steps that cannot fail: an error of an HTTP server is logged in its goroutine.
Infallible == {"notify", "metrics", "health", "serve", "http", "admin", "started"}

\* Files that are not all named are no TLS; files that are must be readable.
TLSCreds == tls # "bad"

\* Whether the step can succeed, and whether it can fail. The credential and the
\* scope gate of the git-adapter are in GitCredential.
CanSucceed(step) ==
    CASE step = "tls" -> TLSCreds
      [] step = "config" /\ svc \in Configured -> LoadConfig(svc, cfg)
      [] step = "credential" /\ svc \in Keyed -> CredentialFound(svc, cfg)
      [] step = "agent" -> NewAgentServer(svc, cfg)
      [] OTHER -> TRUE

\* Only a runner of the ADK may fail for another reason; a credential that is not
\* found is no failure.
CanFail(step) ==
    /\ step \notin Infallible
    /\ CASE step = "credential" -> svc \notin Keyed
         [] step = "tls" \/ (step = "config" /\ svc \in Configured) -> ~CanSucceed(step)
         [] step = "agent" /\ svc = "llm-adapter" -> ~CanSucceed(step)
         [] OTHER -> TRUE

\* The signal has its default action until NotifyContext.
Notified == "notify" \in had

-----------------------------------------------------------------------------
LifeInit ==
    /\ svc \in Services /\ cfg \in Configs[svc]
    /\ phase = "start" /\ at = 1 /\ opened = {} /\ had = {} /\ degraded = FALSE
    /\ tls \in {"none", "partial", "bad", "ok"}
    /\ (tls # "none") => "tls" \in {profile.steps[i] : i \in DOMAIN profile.steps}
    /\ health = "none" /\ inflight = 0 /\ work = "never" /\ peers = TRUE
    /\ signalled = FALSE /\ late = FALSE

StartStep == profile.steps[at]

\* A degraded adapter has no scope gate, and the llm-adapter builds no server.
Bypassed == degraded /\ StartStep \in {"gate", "agent"}

\* setHealth; a degraded adapter starts with NOT_SERVING.
setHealth(status) == health' = IF degraded THEN "NOT_SERVING" ELSE status

Started ==
    /\ at' = at + 1
    /\ phase' = IF at = Len(profile.steps) THEN "run" ELSE "start"
    /\ UNCHANGED <<svc, cfg, tls, inflight, work, peers, signalled, late>>

Open ==
    /\ phase = "start" /\ ~Bypassed /\ CanSucceed(StartStep)
    /\ opened' = opened \cup {StartStep} /\ had' = had \cup {StartStep}
    /\ IF StartStep = "health" THEN setHealth("SERVING") ELSE UNCHANGED health
    /\ UNCHANGED degraded
    /\ Started

\* A part that the configuration leaves out.
Skip ==
    /\ phase = "start"
    /\ StartStep \in profile.skips \/ Bypassed
    /\ UNCHANGED <<opened, had, health, degraded>>
    /\ Started

\* ErrCredentialMissing, ErrTokenMissing, ErrSecretMissing.
Degrade ==
    /\ phase = "start" /\ StartStep = "credential"
    /\ svc \in Keyed => ~CredentialFound(svc, cfg)
    /\ degraded' = TRUE
    /\ UNCHANGED <<opened, had, health>>
    /\ Started

StartFails ==
    /\ phase = "start" /\ ~Bypassed /\ CanFail(StartStep)
    /\ phase' = IF profile.exits \/ StartStep = "config" THEN "exited" ELSE "close"
    /\ UNCHANGED <<svc, cfg, at, opened, had, degraded, tls, health, inflight, work, peers, signalled, late>>

-----------------------------------------------------------------------------
(* Serving and probes.                                                     *)

Alive == phase \in {"start", "run", "drain", "close"}

Accept ==
    /\ "serve" \in opened /\ phase \in {"start", "run"} /\ inflight < MaxRequests
    /\ inflight' = inflight + 1
    /\ UNCHANGED <<svc, cfg, phase, at, opened, had, degraded, tls, health, work, peers, signalled, late>>

\* RecordWork after a request that succeeded.
RequestEnds(ok) ==
    /\ Alive /\ inflight > 0
    /\ inflight' = inflight - 1
    /\ work' = IF ok /\ "started" \in had THEN "fresh" ELSE work
    /\ UNCHANGED <<svc, cfg, phase, at, opened, had, degraded, tls, health, peers, signalled, late>>

\* No request has succeeded for longer than the threshold.
GrowsStale ==
    /\ Alive /\ work = "fresh"
    /\ work' = "stale"
    /\ UNCHANGED <<svc, cfg, phase, at, opened, had, degraded, tls, health, inflight, peers, signalled, late>>

PeersChange ==
    /\ Alive /\ "started" \in had
    /\ peers' = ~peers
    /\ UNCHANGED <<svc, cfg, phase, at, opened, had, degraded, tls, health, inflight, work, signalled, late>>

HandleStartupz == "started" \in had
HandleReadyz == peers
HandleLivez == work # "stale"

\* Traffic is routed to a process whose probes pass.
Routed ==
    /\ Alive /\ "serve" \in opened
    /\ IF "started" \in had THEN HandleStartupz /\ HandleReadyz ELSE health = "SERVING"

\* An error of Serve is logged by a service, and ends an adapter.
ServeFails ==
    /\ phase = "run" /\ "serve" \in opened
    /\ opened' = opened \ {"serve"}
    /\ phase' = IF profile.returns THEN "close" ELSE "run"
    /\ inflight' = 0
    /\ UNCHANGED <<svc, cfg, at, had, degraded, tls, health, work, peers, signalled, late>>

-----------------------------------------------------------------------------
(* Stopping.                                                               *)

\* A rollout, or the kubelet on account of the liveness probe, sends SIGTERM.
Sigterm ==
    /\ Alive /\ ~signalled
    /\ signalled' = TRUE
    /\ phase' = IF Notified THEN phase ELSE "killed"
    /\ UNCHANGED <<svc, cfg, at, opened, had, degraded, tls, health, inflight, work, peers, late>>

\* The managers of the informer and the controller end with the context.
ManagerEnds ==
    /\ signalled /\ Alive
    /\ \E m \in opened \cap {"informer", "controller"} : opened' = opened \ {m}
    /\ UNCHANGED <<svc, cfg, phase, at, had, degraded, tls, health, inflight, work, peers, signalled, late>>

\* The drain begins: health first, then GracefulStop or Shutdown, which accept no
\* more requests.
Drain ==
    /\ phase = "run" /\ signalled
    /\ phase' = "drain"
    /\ IF profile.drains /\ "health" \in had THEN setHealth("NOT_SERVING") ELSE UNCHANGED health
    /\ opened' = opened \ {"serve"}
    /\ UNCHANGED <<svc, cfg, at, had, degraded, tls, inflight, work, peers, signalled, late>>

\* Mutant: the deferred calls run while requests are in flight.
DrainedAtOnce ==
    /\ phase = "drain"
    /\ phase' = "close"
    /\ UNCHANGED <<svc, cfg, at, opened, had, degraded, tls, health, inflight, work, peers, signalled, late>>

Drained ==
    /\ phase = "drain" /\ inflight = 0
    /\ phase' = "close"
    /\ UNCHANGED <<svc, cfg, at, opened, had, degraded, tls, health, inflight, work, peers, signalled, late>>

\* Mutant: the deadline is derived from the cancelled context of the process, or
\* there is none.
NeverLate == FALSE /\ UNCHANGED lifeVars

\* The deadline of the gateway's Shutdown: it returns with requests in flight.
ShutdownLate ==
    /\ phase = "drain" /\ profile.bounded /\ inflight > 0
    /\ phase' = "close" /\ late' = TRUE
    /\ UNCHANGED <<svc, cfg, at, opened, had, degraded, tls, health, inflight, work, peers, signalled>>

\* The deferred calls of a return, and of them those with something open.
Deferred == {i \in DOMAIN profile.closes : profile.closes[i] \in opened}

\* They run in order.
Close ==
    /\ phase = "close"
    /\ \/ Deferred = {} /\ phase' = "ended" /\ UNCHANGED opened
       \/ \E i \in Deferred : /\ \A j \in Deferred : i <= j
                              /\ opened' = opened \ {profile.closes[i]} /\ UNCHANGED phase
    /\ UNCHANGED <<svc, cfg, at, had, degraded, tls, health, inflight, work, peers, signalled, late>>

ProcessStep == Open \/ Skip \/ Degrade \/ StartFails \/ Drain \/ Drained \/ Close

LifeNext ==
    \/ ProcessStep \/ ShutdownLate
    \/ Accept \/ GrowsStale \/ PeersChange \/ ServeFails
    \/ \E ok \in BOOLEAN : RequestEnds(ok)
    \/ Sigterm \/ ManagerEnds

\* The process runs, and the timer of the drain fires. Requests need not end.
LifeSpec == LifeInit /\ [][LifeNext]_lifeVars /\ WF_lifeVars(ProcessStep) /\ WF_lifeVars(ShutdownLate)

-----------------------------------------------------------------------------
(* Properties.                                                             *)

\* What calls go to. Used: those this process opened. Needed: those its main has, but
\* for the parts that a configuration may leave out.
Connections == {"temporal", "brokerConn", "events", "selector", "repo", "publisher", "compConn", "engConn",
                "redis"}
Used == had \cap Connections
Needed == {profile.steps[i] : i \in DOMAIN profile.steps} \cap (Connections \ profile.skips)

\* Requests in flight find their connections and stores open until they end, unless
\* the gateway's drain deadline has passed. Traffic is routed only to a process that
\* has opened every connection it needs, that is not draining, and that is no degraded
\* adapter; an adapter among them was given the fields its calls read. What the
\* configuration leaves out is excepted, because the code reports such a process as
\* ready: a memory-service without a Redis DSN (main.go:73-98), whose first key-value
\* call panics, and an agent-registry without the informer, which has no
\* SchedulerService (main.go:98-111). A process that returns has closed whatever it
\* opened, after a startup that failed half-way too; only the redis client is left to
\* the exit.
ServesWhatIsOpen ==
    /\ (Alive /\ inflight > 0 /\ ~late) => Used \subseteq opened
    /\ Routed => /\ Used \cup Needed \subseteq opened
                 /\ phase \in {"start", "run"} /\ ~degraded
                 /\ svc \in Configured => FieldsGiven(svc, cfg)
    /\ (phase = "drain" /\ profile.drains) => health # "SERVING"
    /\ (phase = "ended") => \A r \in opened : r \in {"config", "notify", "tls", "credential", "gate", "agent", "listen",
                                                   "health", "started", "serve", "redis", "informer", "controller"}

\* A process that gets SIGTERM ends: at once before it handles the signal,
\* otherwise when the requests in flight have ended. GracefulStop has no deadline,
\* so a gRPC service may wait for its streams; the gateway does not.
StopsOnSignal ==
    signalled ~> (\/ phase \in {"ended", "exited", "killed"}
                  \/ phase = "drain" /\ inflight > 0 /\ ~profile.bounded)

=============================================================================
