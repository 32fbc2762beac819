------------------------------- MODULE ZynaxCLI -------------------------------
(***************************************************************************)
(* The zynax command line: what validate and apply make of a scenario, and *)
(* the commands that several shells run against one gateway, with the run  *)
(* ids they leave for one another in the last-run file.                    *)
(***************************************************************************)
EXTENDS Integers, Sequences, FiniteSets, SequencesExt, GatewayREST

CONSTANTS Shells,      \* shells of one user, one command at a time each
          Menu,        \* the commands each shell uses
          Scenarios,   \* the scenario directories each shell works on, see Scenario
          Platforms,   \* what `zynax doctor` may find, see Platform
          MaxRuns,     \* bound on runs
          MaxCommands, \* bound on commands
          MaxCliFaults \* bound on failed requests, broken streams and failed writes

VARIABLES cliRuns,   \* engine: the runs so far, see NewRun
          lastRun,   \* the last-run file: a run, or 0
          shell,     \* the command of each shell, none or one
          commands, cliFaults

cliVars == <<cliRuns, lastRun, shell, commands, cliFaults>>

-----------------------------------------------------------------------------
(* Scenarios. A file is "ok", "empty", "absolute", "escaping" or "missing"; *)
(* a member's refs are the context keys its workflow uses.                  *)

Member == [id : STRING, kind : STRING, file : STRING, refs : SUBSET STRING, schema : BOOLEAN, flow : BOOLEAN]
Source == [key : STRING, file : STRING, length : Nat]
Context == [fields : SUBSET STRING, overflow : STRING, maxTokens : Int, sources : Seq(Source)]
Scenario == [schema : BOOLEAN, members : Seq(Member), order : Seq(STRING), context : Seq(Context)]

ASSUME ZynaxCLIAssumption ==
    /\ Scenarios \in [Shells -> SUBSET Scenario]
    /\ MaxRuns \in Nat /\ MaxCommands \in Nat /\ MaxCliFaults \in Nat

tokenCharsPerToken == 4
routingFields == {"provider", "model", "endpoint", "url", "uri", "base_url", "baseurl", "host", "api_base", "api_key"}

\* A member has to lie below the scenario; whether it exists shows when it is read.
resolveMemberPath(file) == file \notin {"empty", "absolute", "escaping"}

\* The members in apply order, or none: ids are present and unique, and the order
\* is not empty, names members only, and none of them twice.
ExpandScenario(s) ==
    LET ids == [i \in DOMAIN s.members |-> s.members[i].id]
        member(id) == CHOOSE m \in ToSet(s.members) : m.id = id
        ok == /\ "" \notin ToSet(ids) /\ IsInjective(ids)
              /\ \A m \in ToSet(s.members) : resolveMemberPath(m.file)
              /\ s.order # <<>> /\ ToSet(s.order) \subseteq ToSet(ids) /\ IsInjective(s.order)
    IN  IF ok THEN [i \in DOMAIN s.order |-> member(s.order[i])] ELSE <<>>

rejectRoutingFields(fields) == fields \cap routingFields = {}

decodeContextBlock(c) ==
    /\ c.overflow \in {"", "truncate-oldest", "error"}
    /\ c.maxTokens > 0
    /\ c.sources # <<>> /\ \A i \in DOMAIN c.sources : c.sources[i].key # ""

\* A context block carries data only.
ParseContextBlock(c) ==
    /\ rejectRoutingFields(c.fields)
    /\ c.fields \subseteq {"sources", "max_tokens", "overflow"}
    /\ decodeContextBlock(c)

confinePath(file) == file \notin {"empty", "absolute", "escaping"}

\* The characters of the first n sources, for every n.
Sums(lengths) ==
    LET sum[n \in 0..Len(lengths)] == IF n = 0 THEN 0 ELSE sum[n - 1] + lengths[n]
    IN  sum
Total(lengths) == Sums(lengths)[Len(lengths)]
Budget(c) == c.maxTokens * tokenCharsPerToken

\* What is still to be cut after the first n sources, for every n.
Overages(c, lengths) ==
    LET over[n \in 0..Len(lengths)] ==
            IF n = 0 THEN Total(lengths) - Budget(c)
            ELSE IF lengths[n] <= over[n - 1] THEN over[n - 1] - lengths[n] ELSE 0
    IN  over

\* The lengths that are left: the overage is cut from the sources in their order.
enforceBudget(c, lengths) ==
    LET before(i) == Overages(c, lengths)[i - 1]
    IN  IF Total(lengths) <= Budget(c) THEN lengths
        ELSE [i \in DOMAIN lengths |-> IF lengths[i] <= before(i) THEN 0 ELSE lengths[i] - before(i)]

\* The files of a source are read as one.
ResolveContext(c) ==
    /\ IsInjective([i \in DOMAIN c.sources |-> c.sources[i].key])
    /\ \A i \in DOMAIN c.sources : confinePath(c.sources[i].file) /\ c.sources[i].file # "missing"
    /\ c.overflow = "error" => Total([i \in DOMAIN c.sources |-> c.sources[i].length]) <= Budget(c)

ContextResolved(s) == s.context # <<>> => ParseContextBlock(s.context[1]) /\ ResolveContext(s.context[1])
Values(s) == IF s.context = <<>> THEN {} ELSE {s.context[1].sources[i].key : i \in DOMAIN s.context[1].sources}

\* A reference to a key without a value is an error.
BindContextIntoWorkflow(s, m) == m.kind = "Workflow" => m.refs \subseteq Values(s)

-----------------------------------------------------------------------------
(* validate: offline, over the same files.                                 *)

\* Kinds with a schema; the retired AgentDef still has one.
kindToSchemaFile == {"Workflow", "AgentDef", "Policy", "Scenario"}
ManifestBytes(m) == m.file = "ok" /\ m.kind \in kindToSchemaFile /\ m.schema
\* initial_state and every goto name a state.
DataFlowBytes(m) == m.kind = "Workflow" => m.flow
FileBytes(m) == ManifestBytes(m) /\ DataFlowBytes(m)
validateBoundWorkflow(s, m) == m.file = "ok" /\ BindContextIntoWorkflow(s, m) /\ FileBytes(m)

ScenarioFile(s) ==
    /\ s.schema /\ ExpandScenario(s) # <<>> /\ ContextResolved(s)
    /\ \A m \in ToSet(ExpandScenario(s)) : IF m.kind = "Workflow" THEN validateBoundWorkflow(s, m) ELSE FileBytes(m)

-----------------------------------------------------------------------------
(* doctor.                                                                 *)

\* ready, want: replicas of each workload; want is 1 when the resource does not say.
Platform == [cluster : BOOLEAN, release : STRING, ready : Seq(Nat), want : Seq(Nat), health : BOOLEAN, model : BOOLEAN]

checkWorkloadReady(p, i) == p.ready[i] >= p.want[i]

\* The model is a warning only.
runDoctor(p) ==
    /\ p.cluster /\ p.release = "deployed" /\ p.health
    /\ \A i \in DOMAIN p.want : checkWorkloadReady(p, i)

-----------------------------------------------------------------------------
(* Commands. A command ends with an exit code.                             *)

terminalStatuses == {"COMPLETED", "FAILED", "CANCELLED"}

\* took: positions of the members the gateway accepted; rerun: the gateway found the
\* run of the member completed; run: the run the command is about; local: it failed
\* before the gateway was asked.
Command(name) == [name |-> name, at |-> "run", exit |-> -1, members |-> <<>>, dryRun |-> FALSE, pos |-> 1,
                  took |-> <<>>, rerun |-> FALSE, run |-> 0, local |-> FALSE, lost |-> FALSE,
                  text |-> FALSE, terminal |-> "", printed |-> "", scenario |-> <<>>]

CliInit ==
    /\ cliRuns = <<>> /\ lastRun = 0
    /\ shell = [x \in Shells |-> <<>>]
    /\ commands = 0 /\ cliFaults = 0

Fault == cliFaults < MaxCliFaults /\ cliFaults' = cliFaults + 1
At(x, name, at) == shell[x] # <<>> /\ shell[x][1].name = name /\ shell[x][1].at = at
Cmd(x) == shell[x][1]
Sets(x, c) == shell' = [shell EXCEPT ![x] = <<c>>]
Exits(x, c, code) == Sets(x, [c EXCEPT !.at = "exit", !.exit = code])
Fails(x) == Exits(x, Cmd(x), 1)

Typed(x, name) ==
    /\ shell[x] = <<>> /\ name \in Menu[x]
    /\ commands < MaxCommands /\ commands' = commands + 1
    /\ UNCHANGED <<cliRuns, lastRun>>
Begins(x, name) == Typed(x, name) /\ UNCHANGED cliFaults

\* The shell has its prompt back.
Prompt(x) ==
    /\ shell[x] # <<>> /\ Cmd(x).at = "exit"
    /\ shell' = [shell EXCEPT ![x] = <<>>]
    /\ UNCHANGED <<cliRuns, lastRun, commands, cliFaults>>

runValidate(x, s) ==
    /\ Begins(x, "validate")
    /\ Exits(x, [Command("validate") EXCEPT !.scenario = <<s>>], IF ScenarioFile(s) THEN 0 ELSE 1)

Doctor(x, p) == Begins(x, "doctor") /\ Exits(x, Command("doctor"), IF runDoctor(p) THEN 0 ELSE 1)

\* Everything but the members is checked before the first one is sent.
runApplyScenario(x, s, dryRun) ==
    /\ Begins(x, "apply")
    /\ LET members == ExpandScenario(s)
           c == [Command("apply") EXCEPT !.members = members, !.dryRun = dryRun, !.scenario = <<s>>]
       IN  IF members # <<>> /\ ContextResolved(s) THEN Sets(x, c) ELSE Exits(x, [c EXCEPT !.local = TRUE], 1)

MemberReadable(x) ==
    LET m == Cmd(x).members[Cmd(x).pos]
    IN  m.file = "ok" /\ BindContextIntoWorkflow(Cmd(x).scenario[1], m)

\* The member cannot be read or bound: those before it stay applied.
MemberUnreadable(x) ==
    /\ At(x, "apply", "run") /\ ~MemberReadable(x)
    /\ Exits(x, [Cmd(x) EXCEPT !.local = TRUE], 1)
    /\ UNCHANGED <<cliRuns, lastRun, commands, cliFaults>>

NextMember(x, c) ==
    IF c.pos = Len(c.members) THEN Exits(x, c, 0) ELSE Sets(x, [c EXCEPT !.at = "run", !.pos = @ + 1])

\* Runs of a manifest: the first is named by its hash, the others by hash and time.
RunsOf(m) == {r \in DOMAIN cliRuns : cliRuns[r].of = m.id /\ cliRuns[r].first}

NewRun(m) == [of |-> m.id, first |-> RunsOf(m) = {}, status |-> "RUNNING", text |-> FALSE, completed |-> FALSE]

\* SubmitWorkflow on Temporal: a run of that name which is under way is joined, one that
\* has ended since it was looked up - also one that completed - is started again; a
\* re-run has a name of its own.
Submits(m, rerun, r) ==
    \/ ~rerun /\ r \in RunsOf(m) /\ cliRuns' = [cliRuns EXCEPT ![r].status = "RUNNING"]
    \/ /\ rerun \/ RunsOf(m) = {}
       /\ Len(cliRuns) < MaxRuns /\ r = Len(cliRuns) + 1
       /\ cliRuns' = Append(cliRuns, NewRun(m))

This(x) == Cmd(x).members[Cmd(x).pos]
Body(m) == [size |-> 1, parses |-> TRUE, kind |-> m.kind]
\* What compilation, look-up or submission ends with.
ApplyErrors == {mapCompilerGRPCError(code) : code \in {"OK", "InvalidArgument", "Internal"}}
                 \cup {Engine(answer) : answer \in EngineAnswers}

\* The client's reading of the status code; no gateway answers 201 any more.
Accepts(x, err) ==
    handleApply(Body(This(x)), err, Cmd(x).dryRun) \in (IF Cmd(x).dryRun THEN {200} ELSE {202, 201})

\* The gateway has a run for the member; its answer may be lost.
Taken(x, r) ==
    LET c == [Cmd(x) EXCEPT !.took = Append(@, Cmd(x).pos)]
    IN  \/ Sets(x, [c EXCEPT !.at = "save", !.run = r]) /\ UNCHANGED cliFaults
        \/ Exits(x, [c EXCEPT !.lost = TRUE], 1) /\ Fault

HasRun(m, status) == \E r \in RunsOf(m) : cliRuns[r].status = status

\* The gateway has compiled the workflow and looks its run up: one that is under way is
\* the answer.
Apply(x) ==
    /\ At(x, "apply", "run") /\ ~Cmd(x).dryRun /\ MemberReadable(x) /\ Accepts(x, "ok")
    /\ \/ \E r \in RunsOf(This(x)) : cliRuns[r].status = "RUNNING" /\ Taken(x, r)
       \/ /\ ~HasRun(This(x), "RUNNING") /\ UNCHANGED cliFaults
          /\ Sets(x, [Cmd(x) EXCEPT !.at = "submit", !.rerun = HasRun(This(x), "COMPLETED")])
    /\ UNCHANGED <<cliRuns, lastRun, commands>>

\* It submits by what it found, whatever the run is by now.
Submit(x) ==
    /\ At(x, "apply", "submit")
    /\ \E r \in 1..MaxRuns : Submits(This(x), Cmd(x).rerun, r) /\ Taken(x, r)
    /\ UNCHANGED <<lastRun, commands>>

ApplyDryRun(x) ==
    /\ At(x, "apply", "run") /\ Cmd(x).dryRun /\ MemberReadable(x) /\ Accepts(x, "ok")
    /\ NextMember(x, Cmd(x))
    /\ UNCHANGED <<cliRuns, lastRun, commands, cliFaults>>

Sending(x) == At(x, "apply", "submit") \/ (At(x, "apply", "run") /\ MemberReadable(x))
IsRefused(x) == \E err \in ApplyErrors : ~Accepts(x, err)

\* Mutant: a member that was refused is passed over.
RefusedSkipped(x) ==
    /\ Sending(x) /\ IsRefused(x)
    /\ NextMember(x, Cmd(x))
    /\ UNCHANGED <<cliRuns, lastRun, commands, cliFaults>>

\* 4xx and 5xx; a gateway that cannot be reached ends the command in the same way.
ApplyRefused(x) ==
    /\ Sending(x) /\ IsRefused(x)
    /\ Fails(x)
    /\ UNCHANGED <<cliRuns, lastRun, commands, cliFaults>>

\* Recording the run id is a convenience: a failure is a warning.
saveLastRun(x) ==
    /\ At(x, "apply", "save")
    /\ \/ lastRun' = Cmd(x).run /\ UNCHANGED cliFaults
       \/ UNCHANGED lastRun /\ Fault
    /\ NextMember(x, Cmd(x))
    /\ UNCHANGED <<cliRuns, commands>>

\* --crd: one Workflow with a name, handed to kubectl.
workflowManifestToCR(m) == m.kind = "Workflow" /\ m.id # ""

runApplyCRD(x, m, kubectl) ==
    /\ Begins(x, "crd")
    /\ Exits(x, Command("crd"), IF m.file = "ok" /\ workflowManifestToCR(m) /\ kubectl THEN 0 ELSE 1)

-----------------------------------------------------------------------------
(* Commands about a run.                                                   *)

\* An id that is given is used as it is; else the last-run file.
resolveRunID(arg) == IF arg # 0 THEN arg ELSE lastRun

Watches(x, name, arg) ==
    /\ Begins(x, name)
    /\ LET r == resolveRunID(arg)
           c == [Command(name) EXCEPT !.run = r, !.at = "tail"]
       IN  IF r = 0 THEN Exits(x, [c EXCEPT !.local = TRUE], 1) ELSE Sets(x, c)

Tailing(x) == shell[x] # <<>> /\ Cmd(x).at = "tail"
Of(x) == cliRuns[Cmd(x).run]

\* The callback of the command for one event; result and logs --follow stop at a
\* terminal status.
TailText(x) ==
    /\ Tailing(x) /\ Of(x).text /\ ~Cmd(x).text
    /\ Sets(x, [Cmd(x) EXCEPT !.text = TRUE])
    /\ UNCHANGED <<cliRuns, lastRun, commands, cliFaults>>

AfterTail(x, c) == IF c.name = "result" THEN Sets(x, [c EXCEPT !.at = "outputs"]) ELSE Exits(x, c, 0)

TailTerminal(x) ==
    /\ Tailing(x) /\ Of(x).status \in terminalStatuses
    /\ AfterTail(x, [Cmd(x) EXCEPT !.terminal = Of(x).status])
    /\ UNCHANGED <<cliRuns, lastRun, commands, cliFaults>>

\* The stream ends without an error.
TailClosed(x) ==
    /\ Tailing(x) /\ Fault
    /\ AfterTail(x, Cmd(x))
    /\ UNCHANGED <<cliRuns, lastRun, commands>>

\* Not 200, a line the scanner or the decoder does not take, a broken connection.
TailFails(x) ==
    /\ Tailing(x) /\ Fault /\ Fails(x)
    /\ UNCHANGED <<cliRuns, lastRun, commands>>

\* What the engine says of a run, unless something fails on the way.
EngineSays(expected, answer) ==
    \/ answer \in expected /\ UNCHANGED cliFaults
    \/ answer \in {"ErrEngineUnavailable", "Canceled", "DeadlineExceeded", "error"} /\ Fault

Known(r) == {IF r \in DOMAIN cliRuns THEN "ok" ELSE "ErrExecutionNotFound"}

\* What the run left, else the last completion text, else what the status says. An
\* error of the outputs request counts as no outputs.
Concludes(x, hasOutputs) ==
    LET c == Cmd(x)
    IN  CASE hasOutputs -> Exits(x, [c EXCEPT !.printed = "outputs"], 0)
          [] ~hasOutputs /\ c.text -> Exits(x, [c EXCEPT !.printed = "text"], 0)
          [] OTHER -> Exits(x, c, IF c.terminal = "COMPLETED" THEN 0 ELSE 1)

GetWorkflowOutputs(x, hasOutputs) ==
    /\ At(x, "result", "outputs")
    /\ hasOutputs => Of(x).status = "COMPLETED"
    /\ \E answer \in EngineAnswers :
          /\ EngineSays({"ok"}, answer)
          /\ Concludes(x, hasOutputs /\ handleWorkflowOutputs(answer) = 200)
    /\ UNCHANGED <<cliRuns, lastRun, commands>>

\* status: 0 for a run that has ended, 2 for one that has not; get: 0.
GetWorkflow(x, name, r) ==
    /\ Typed(x, name)
    /\ \E answer \in EngineAnswers :
          /\ EngineSays(Known(r), answer)
          /\ LET c == [Command(name) EXCEPT !.run = r]
             IN  IF handleGetWorkflow(answer) # 200 THEN Exits(x, c, 1)
                 ELSE Exits(x, [c EXCEPT !.terminal = cliRuns[r].status],
                            IF name = "get" \/ cliRuns[r].status \in terminalStatuses THEN 0 ELSE 2)

\* The engine is told to cancel the run. Temporal does not find one that has ended,
\* Argo says that it has ended.
DeleteWorkflow(x, r) ==
    /\ Typed(x, "delete")
    /\ LET ended == r \in DOMAIN cliRuns /\ cliRuns[r].status \in terminalStatuses
       IN  \E answer \in EngineAnswers :
              /\ EngineSays(IF ended THEN {"ErrExecutionNotFound", "ErrTerminalState"} ELSE Known(r), answer)
              /\ Exits(x, [Command("delete") EXCEPT !.run = r], IF handleDeleteWorkflow(answer) = 204 THEN 0 ELSE 1)

\* dataOk: the arguments are key=value pairs.
PublishEvent(x, r, dataOk, type) ==
    /\ Typed(x, "publish")
    /\ \E bus \in {"ok", "error"} :
          /\ IF bus = "ok" THEN UNCHANGED cliFaults ELSE Fault
          /\ LET code == handlePublishEvent([parses |-> TRUE, type |-> type, size |-> 1], bus)
             IN  Exits(x, [Command("publish") EXCEPT !.run = r], IF dataOk /\ code = 202 THEN 0 ELSE 1)

-----------------------------------------------------------------------------
\* The engine runs the workflow.
RunSteps(r) ==
    /\ cliRuns[r].status = "RUNNING"
    /\ \/ cliRuns' = [cliRuns EXCEPT ![r].text = TRUE]
       \/ \E s \in terminalStatuses : cliRuns' = [cliRuns EXCEPT ![r].status = s, ![r].completed = @ \/ s = "COMPLETED"]
    /\ UNCHANGED <<lastRun, shell, commands, cliFaults>>

CliNext ==
    \/ \E x \in Shells :
          \/ \E s \in Scenarios[x] : runValidate(x, s) \/ \E dryRun \in BOOLEAN : runApplyScenario(x, s, dryRun)
          \/ \E p \in Platforms : Doctor(x, p)
          \/ \E s \in Scenarios[x], kubectl \in BOOLEAN : \E m \in ToSet(s.members) : runApplyCRD(x, m, kubectl)
          \/ \E name \in {"result", "logs"}, arg \in {0} \cup DOMAIN cliRuns : Watches(x, name, arg)
          \/ \E r \in 1..MaxRuns : \/ \E name \in {"get", "status"} : GetWorkflow(x, name, r)
                                   \/ DeleteWorkflow(x, r)
                                   \/ \E ok \in BOOLEAN, type \in {"", "review.approved"} : PublishEvent(x, r, ok, type)
          \/ Prompt(x) \/ MemberUnreadable(x) \/ Apply(x) \/ Submit(x) \/ ApplyDryRun(x) \/ ApplyRefused(x) \/ saveLastRun(x)
          \/ TailText(x) \/ TailTerminal(x) \/ TailClosed(x) \/ TailFails(x)
          \/ \E hasOutputs \in BOOLEAN : GetWorkflowOutputs(x, hasOutputs)
    \/ \E r \in DOMAIN cliRuns : RunSteps(r)

CliSpec == CliInit /\ [][CliNext]_cliVars

-----------------------------------------------------------------------------
(* Properties.                                                             *)

HasExited(x, name) == At(x, name, "exit")

\* An apply that succeeds had every member accepted, in the order of the index, and
\* each has a run; one that fails had exactly those before the member it failed at,
\* and that member too only if the answer was lost. A scenario that validate accepts
\* fails at the gateway and nowhere else.
ApplyTold ==
    \A x \in Shells : HasExited(x, "apply") =>
        LET c == Cmd(x)
            upTo(n) == [i \in 1..n |-> i]
        IN  /\ c.exit = 0 => c.took = IF c.dryRun THEN <<>> ELSE upTo(Len(c.members))
            /\ c.exit # 0 => c.took = IF c.dryRun THEN <<>> ELSE upTo(IF c.lost THEN c.pos ELSE c.pos - 1)
            /\ \A i \in ToSet(c.took) : RunsOf(c.members[i]) # {}
            /\ c.local => ~ScenarioFile(c.scenario[1])

\* A result that exits 0 printed the outputs of an execution that completed, or a text
\* that the run left, or nothing for a run that has completed. With a text the end of
\* the run does not count: a FAILED or CANCELLED run that left one exits 0 too, although
\* the help of the command says that it exits non-zero.
ResultTold ==
    \A x \in Shells : (HasExited(x, "result") /\ Cmd(x).exit = 0) =>
        IF Cmd(x).printed = "text" THEN Of(x).text ELSE Of(x).completed

\* A run that status called completed had completed. It may be under way again: an apply
\* that looked it up before it ended starts it again under its name.
StatusTold ==
    \A x \in Shells : (HasExited(x, "status") /\ Cmd(x).terminal = "COMPLETED") => Of(x).completed

\* The sources that are left are the last Budget characters of all of them.
ContextFits ==
    \A s \in UNION {Scenarios[x] : x \in Shells} : (s.context # <<>> /\ ContextResolved(s)) =>
        LET c == s.context[1]
            lengths == [i \in DOMAIN c.sources |-> c.sources[i].length]
            after(i) == Total(SubSeq(lengths, i + 1, Len(lengths)))
            room(i) == Budget(c) - after(i)
        IN  enforceBudget(c, lengths) =
                [i \in DOMAIN lengths |-> IF room(i) >= lengths[i] THEN lengths[i] ELSE IF room(i) > 0 THEN room(i) ELSE 0]

\* What a command tells its shell is what happened, while the runs go on, another
\* shell works on the same files, streams break and answers are lost; and the context
\* that is bound into a workflow keeps within max_tokens, the oldest cut first.
CommandsTellTruth == ApplyTold /\ ResultTold /\ StatusTold /\ ContextFits

=============================================================================
