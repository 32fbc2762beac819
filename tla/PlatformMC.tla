-------------------------------- MODULE PlatformMC --------------------------------
(***************************************************************************)
(* The parts of the platform on the way of a workflow, each on an instance *)
(* of its own: the compiler; the interpreter, the dispatch of an action    *)
(* and the quota gate of the engine-adapter; the adapters that carry out a *)
(* capability, and the git-adapter's credential; the memory service; and   *)
(* the life of a process. They share no state; part says which of them a   *)
(* behaviour is about.                                                     *)
(***************************************************************************)
EXTENDS IRInterpreterMC, CapabilityDispatch, QuotaChecker, GitCredential, MemoryService, ServiceLifecycle,
        AgentAdapters

VARIABLES part,
          req, policy, compiled, validated, stored

compilerVars == <<req, policy, compiled, validated, stored>>

---------------------------------------------------------------------------
(* The compiler, see CompilerCases. *)

Cases == INSTANCE CompilerCases
Manifests == Cases!AllRequests
Policies == Cases!AllPolicies
CapNames == {"summarize", "zynax_x"}
Reserved == {"zynax_x"}
EventNames == {"done", "failed"}
Labels == {"team", "other", "default"}

Compiler == INSTANCE WorkflowCompiler WITH Requests <- Manifests, Namespaces <- Labels

---------------------------------------------------------------------------
(* The adapters: a call that each capability can serve, and each with one  *)
(* thing wrong.                                                            *)

CallTo(adapter, cap, provider) ==
    [adapter |-> adapter, cap |-> cap, provider |-> provider, client |-> "broker", line |-> "",
     task |-> TRUE, payload |-> "ok", timeout |-> 1, schema |-> TRUE, capTimeout |-> 0, route |-> "ok",
     outSchema |-> TRUE, outKey |-> TRUE]
Adk == CallTo("adk", "chat", "")
Tool(line, c) == [c EXCEPT !.client = "mcp", !.line = line, !.task = FALSE]

Good == {CallTo("http", "route", ""), CallTo("git", "open_pr", ""), CallTo("git", "get_diff", ""),
         CallTo("git", "request_review", ""), CallTo("ci", "trigger_workflow", ""),
         CallTo("ci", "get_run_status", ""), CallTo("llm", "chat", "openai"), CallTo("llm", "chat", "ollama"),
         CallTo("llm", "chat", "bedrock"), Adk}

MCCalls ==
    Good
    \cup {[c EXCEPT !.timeout = 0] : c \in Good}
    \cup {[c EXCEPT !.payload = p] : c \in Good, p \in {"none", "malformed", "incomplete"}}
    \cup {[c EXCEPT !.task = FALSE] : c \in Good}
    \cup {[c EXCEPT !.cap = x] : c \in Good, x \in {"", "missing"}}
    \cup {[c EXCEPT !.route = "bad"] : c \in Good}
    \cup {[c EXCEPT !.schema = FALSE, !.payload = "malformed"] : c \in Good}
    \cup {Tool(line, c) : line \in {"call", "list", "garbled", "params"},
                          c \in {g \in Good : g.adapter = "git"}}
    \cup {Tool("call", CallTo("git", "missing", "")),
          Tool("call", [CallTo("git", "open_pr", "") EXCEPT !.payload = "none"])}
    \cup {CallTo("git", "gitlab", ""), CallTo("git", "other", ""), CallTo("ci", "other", ""),
          CallTo("ci", "get_run_status", "jenkins-stub"),
          [Adk EXCEPT !.timeout = 0, !.capTimeout = 1], [Adk EXCEPT !.outSchema = FALSE],
          [Adk EXCEPT !.outKey = FALSE]}

---------------------------------------------------------------------------
(* The credential of the git-adapter: an app or a token, the scope gate in *)
(* each mode, and every way the configuration can be incomplete.           *)

AppEnv == [app |-> TRUE, names |-> TRUE, ids |-> "ok", key |-> "ok", mode |-> "", mcp |-> FALSE,
           scopes |-> {"none"}]

MCEnvironments ==
    {AppEnv, [AppEnv EXCEPT !.app = FALSE], [AppEnv EXCEPT !.names = FALSE], [AppEnv EXCEPT !.mcp = TRUE]}
    \cup {[AppEnv EXCEPT !.ids = i, !.key = k, !.app = a] :
             i \in {"missing", "malformed", "ok"}, k \in {"missing", "malformed"}, a \in BOOLEAN}
    \cup {[AppEnv EXCEPT !.app = FALSE, !.mode = m, !.scopes = s] :
             m \in {"warn", "enforce", "x"}, s \in {{"none"}, {"error"}, {"repo", "gist"}, {"gist"}}}

---------------------------------------------------------------------------
(* The processes. *)

\* Each adapter with a configuration that serves, and with one thing wrong or left out.
Cap(given) == [given |-> given, input |-> "", output |-> ""]
Config(given, provider, capFields) ==
    [file |-> "ok", given |-> given, endpoint |-> "host:port", advertise |-> "", provider |-> provider,
     caps |-> <<Cap(capFields)>>, secret |-> TRUE]

Complete ==
    [x \in {"llm-adapter", "adk-adapter", "ci-adapter", "git-adapter", "http-adapter"} |->
       CASE x = "llm-adapter" -> {Config({"agent_id", "model", "api_key_env"}, "openai", {"name"}),
                                  Config({"agent_id", "model", "api_key_env", "region"}, "bedrock", {"name"}),
                                  Config({"agent_id", "model", "ollama_base_url"}, "ollama", {"name"})}
         [] x = "adk-adapter" -> {Config({"agent_id"}, "", {"name"})}
         [] x = "ci-adapter" -> {Config({"agent_id", "token_env"}, "jenkins-stub",
                                        {"name", "owner", "repo", "workflow_id"})}
         [] x = "git-adapter" -> {Config({"agent_id", "auth_env"}, "github", {"name", "owner", "repo"}),
                                  Config({"agent_id", "app", "app_id_env", "installation_id_env",
                                          "private_key_env"}, "github", {"name", "owner", "repo"})}
         [] x = "http-adapter" -> {Config({"agent_id"}, "", {"name", "method", "url"})}]

OneWrong(c) ==
    {c, [c EXCEPT !.file = "missing"], [c EXCEPT !.file = "malformed"], [c EXCEPT !.secret = FALSE],
     [c EXCEPT !.provider = "unknown"], [c EXCEPT !.provider = ""], [c EXCEPT !.caps = <<>>],
     [c EXCEPT !.caps = @ \o <<[@[1] EXCEPT !.input = "bad"]>>],
     [c EXCEPT !.caps = <<[@[1] EXCEPT !.input = "ok", !.output = "bad"]>>]}
    \cup {[c EXCEPT !.given = @ \ {f}] : f \in c.given}
    \cup {[c EXCEPT !.caps = <<@[1], Cap(@[1].given \ {f})>>] : f \in c.caps[1].given}
    \cup {[c EXCEPT !.endpoint = e, !.advertise = v] : e \in {"", ":port"}, v \in {"", "host:port"}}

Configurations ==
    [x \in Mains |-> IF x \in DOMAIN Complete THEN UNION {OneWrong(c) : c \in Complete[x]}
                         ELSE {Config({}, "", {})}]

---------------------------------------------------------------------------
(* The quota gate: a namespace configured twice, a quota without one, and  *)
(* one whose ceiling is zero.                                              *)

MCCallers == {"w1", "w2", "w3", "w4", "w5"}
MCNamespaceOf == [c \in MCCallers |-> IF c = "w4" THEN "free" ELSE "ns"]
Limit(ns, n) == [namespace |-> ns, maxConcurrent |-> n]
MCQuotas == <<Limit("ns", 1), Limit("", 1), Limit("ns", 2), Limit("free", 0)>>

---------------------------------------------------------------------------
(* The memory service: two namespaces, one a prefix of the other, a key     *)
(* that makes up the difference, and an id whose pattern matches the longer *)
(* of them.                                                                *)

ID == <<"a">>
LongerID == <<"a", "b">>
Key == <<"k">>
TailKey == <<"b", ":", "k">>
GlobID == <<"a", "?">>
MCNamespaces == {ID, LongerID, GlobID}
MCKeys == {Key, TailKey}
Asks(op, ns, keys) ==
    [op |-> op, ns |-> ns, entries |-> [i \in DOMAIN keys |-> [key |-> keys[i], ttl |-> i = 2]],
     all |-> FALSE, k |-> 1, embedding |-> 1]
MCUses ==
    [c1 |-> {Asks("MSet", ID, <<TailKey, Key>>), Asks("MSet", ID, <<>>), Asks("MGet", ID, <<Key, TailKey>>),
             [Asks("ListKeys", ID, <<>>) EXCEPT !.all = TRUE], Asks("DeleteNamespace", ID, <<>>),
             Asks("DeleteNamespace", <<>>, <<>>), Asks("DeleteNamespace", GlobID, <<>>),
             Asks("QueryVector", ID, <<>>), Asks("StoreVector", ID, <<>>)},
     c2 |-> {Asks("Set", LongerID, <<Key>>), Asks("Set", ID, <<Key>>), Asks("Get", LongerID, <<Key>>),
             Asks("Delete", LongerID, <<Key>>), Asks("ListKeys", LongerID, <<<<"?">>>>),
             [Asks("StoreVector", LongerID, <<>>) EXCEPT !.embedding = 2],
             [Asks("QueryVector", ID, <<>>) EXCEPT !.k = 0], Asks("DeleteVector", ID, <<>>)}]
MCClients == {"c1", "c2"}
MCWirings == {{}, {"kv"}, {"vec"}}

---------------------------------------------------------------------------
Parts == {"compiler", "interpreter", "dispatch", "quota", "adapters", "credential", "memory",
          "lifecycle"}

\* The parts a behaviour is not about have one initial state.
OthersFixed ==
    /\ IF part = "compiler" THEN TRUE
       ELSE req = (CHOOSE r \in Manifests : r.cancelled) /\ policy = CHOOSE p \in Policies : p.namespace = ""
    /\ IF part = "interpreter" THEN TRUE ELSE ir = Review
    /\ IF part = "dispatch" THEN TRUE ELSE backed = TRUE
    /\ IF part = "adapters" THEN TRUE ELSE call = [Adk EXCEPT !.timeout = 0]
    /\ IF part = "credential" THEN TRUE ELSE env = AppEnv
    /\ IF part = "lifecycle" THEN TRUE ELSE svc = "task-broker" /\ tls = "none"
    /\ IF part = "memory" THEN TRUE ELSE wired = {}

MCInit ==
    /\ part \in Parts
    /\ OthersFixed
    /\ Compiler!Init /\ Init /\ DispatchInit /\ NewQuotaChecker /\ AdaptersInit
    /\ CredentialInit /\ MemoryInit /\ LifeInit
    /\ (policy.namespace = "" \/ req.manifest.hint # "")  \* the gate looks at nothing else

MCNext ==
    \/ /\ part = "compiler" /\ Compiler!Next
       /\ UNCHANGED <<part, vars, dispatchVars, quotaVars, callVars, credVars, memVars, lifeVars>>
    \/ /\ part = "interpreter" /\ Next
       /\ UNCHANGED <<part, compilerVars, dispatchVars, quotaVars, callVars, credVars, memVars, lifeVars>>
    \/ /\ part = "dispatch" /\ DispatchNext
       /\ UNCHANGED <<part, compilerVars, vars, quotaVars, callVars, credVars, memVars, lifeVars>>
    \/ /\ part = "quota" /\ QuotaNext
       /\ UNCHANGED <<part, compilerVars, vars, dispatchVars, callVars, credVars, memVars, lifeVars>>
    \/ /\ part = "adapters" /\ AdaptersNext
       /\ UNCHANGED <<part, compilerVars, vars, dispatchVars, quotaVars, credVars, memVars, lifeVars>>
    \/ /\ part = "credential" /\ CredentialNext
       /\ UNCHANGED <<part, compilerVars, vars, dispatchVars, quotaVars, callVars, memVars, lifeVars>>
    \/ /\ part = "memory" /\ MemoryNext
       /\ UNCHANGED <<part, compilerVars, vars, dispatchVars, quotaVars, callVars, credVars, lifeVars>>
    \/ /\ part = "lifecycle" /\ LifeNext
       /\ UNCHANGED <<part, compilerVars, vars, dispatchVars, quotaVars, callVars, credVars, memVars>>

\* The fairness of each part, in the behaviours that are about it.
MCFairness ==
    /\ WF_dispatchVars(part = "dispatch" /\ Timeout)
    /\ WF_dispatchVars(part = "dispatch" /\ Retry)
    /\ WF_callVars(part = "adapters" /\ HandlerRuns)
    /\ WF_callVars(part = "adapters" /\ ContextEnds)
    /\ WF_lifeVars(part = "lifecycle" /\ ProcessStep)
    /\ WF_lifeVars(part = "lifecycle" /\ ShutdownLate)

MCSpec ==
    /\ MCInit
    /\ [][MCNext]_<<part, compilerVars, vars, dispatchVars, quotaVars, callVars, credVars,
                    memVars, lifeVars>>
    /\ MCFairness

---------------------------------------------------------------------------
(* The properties of the parts. *)

\* WorkflowCompiler!CompiledRuns: what the compiler accepts can be run.
CompiledRuns == (part = "compiler") => Compiler!CompiledRuns

\* WorkflowCompiler!RejectedJustly: what the compiler refuses, it refuses for a reason.
RejectedJustly == (part = "compiler") => Compiler!RejectedJustly

\* CapabilityDispatch!ActionEnds, in the behaviours that are about an action.
DispatchEnds == (part = "dispatch") => ActionEnds

=============================================================================
