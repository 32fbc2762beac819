---------------------------- MODULE WorkflowCompiler ----------------------------
(***************************************************************************)
(* workflow-compiler: the three RPCs of the stateless server, and behind   *)
(* them the parser of manifests, the graph builder, the validators, the    *)
(* policy gate and the conversion to the IR that the engine runs.          *)
(*                                                                         *)
(* A manifest is a record of what the YAML says. Names that are compared   *)
(* only are strings; names that are taken apart are sequences of their     *)
(* dot-separated segments (state ids, data references, literals). Errors   *)
(* are [code, state]: their wording, lines and order are left out.         *)
(***************************************************************************)
EXTENDS Naturals, Sequences, FiniteSets, SequencesExt, FiniteSetsExt, Relation

CONSTANTS
    Requests,      \* requests that clients make: [manifest, namespace]
    Policies,      \* configurations of the policy gate: [namespace, engines]
    CapNames,      \* bare capability names in snake_case
    Reserved,      \* those that start with a reserved prefix
    EventNames,    \* well-formed event names
    Namespaces     \* DNS-label-safe namespaces of at most 63 characters

VARIABLES req, policy, compiled, validated, stored

vars == <<req, policy, compiled, validated, stored>>

---------------------------------------------------------------------------
(* ParseManifest *)

\* A YAML value that is not a string, where a string is expected; and one that
\* JSON cannot express.
NonString == <<"#">>
NaN == <<"nan">>

Err(code, state) == [code |-> code, state |-> state]
NoState == <<>>
When(cond, error) == IF cond THEN {error} ELSE {}

\* Phase 3: the required top-level fields.
TopLevelErrors(raw) ==
    When(raw.kind # "Workflow" \/ raw.name = "" \/ DOMAIN raw.states = {},
         Err("MISSING_REQUIRED_FIELD", NoState))
    \cup When(raw.initial = NoState, Err("NO_INITIAL_STATE", NoState))

\* strings.ToLower, on the spellings of the state types.
ToLower(t) ==
    CASE t \in {"terminal", "Terminal", "TERMINAL"} -> "terminal"
      [] t \in {"normal", "Normal"} -> "normal"
      [] OTHER -> t

StateType(t) ==
    CASE ToLower(t) \in {"", "normal"} -> "normal"
      [] ToLower(t) = "terminal" -> "terminal"
      [] ToLower(t) = "human_in_the_loop" -> "human"
      [] OTHER -> "unknown"

\* A reference into the data context rather than a literal.
HasBindingPrefix(s) == Len(s) >= 3 /\ s[1] = "$" /\ s[2] = "states"

StringEntries(raw) == {k \in DOMAIN raw : raw[k] \notin {NonString, NaN}}

convertOutputBindings(raw) == Restrict(raw, StringEntries(raw))
convertWorkflowOutputs(raw) == Restrict(raw, StringEntries(raw))

\* splitInputBindings: the references; the other entries stay literals.
Bindings(raw) == Restrict(raw, {k \in StringEntries(raw) : HasBindingPrefix(raw[k])})
Literals(raw) == Restrict(raw, DOMAIN raw \ DOMAIN Bindings(raw))

ActionErrors(name, a) ==
    IF a.capability.name = "" THEN {Err("MISSING_REQUIRED_FIELD", name)}
    ELSE When(a.timeout = "malformed" \/ NonString \in Range(a.output),
              Err("INVALID_FIELD_VALUE", name))

TransitionErrors(name, t) ==
    When(t.event = "" \/ t.goto = NoState, Err("MISSING_REQUIRED_FIELD", name))

StateErrors(name, ys) ==
    UNION {ActionErrors(name, ys.actions[i]) : i \in DOMAIN ys.actions}
    \cup UNION {TransitionErrors(name, ys.on[i]) : i \in DOMAIN ys.on}
    \cup When(StateType(ys.type) = "unknown" \/ NonString \in Range(ys.outputs),
              Err("INVALID_FIELD_VALUE", name))

convertAction(a) ==
    [capability |-> a.capability, timeout |-> a.timeout, input |-> Literals(a.input),
     inputBindings |-> Bindings(a.input), outputBindings |-> convertOutputBindings(a.output)]

\* convertState, of a state without errors.
convertState(ys) ==
    [type |-> StateType(ys.type),
     actions |-> [i \in DOMAIN ys.actions |-> convertAction(ys.actions[i])],
     transitions |-> ys.on,
     outputs |-> convertWorkflowOutputs(ys.outputs)]

\* The errors of the first phase that finds one.
ParseErrors(raw) ==
    CASE raw.syntax = "broken" -> {Err("YAML_PARSE_ERROR", NoState)}
      [] raw.syntax = "blank" -> {Err("MISSING_REQUIRED_FIELD", NoState)}
      [] TopLevelErrors(raw) # {} -> TopLevelErrors(raw)
      [] OTHER -> UNION {StateErrors(n, raw.states[n]) : n \in DOMAIN raw.states}

\* ParseManifest, of a manifest without errors.
ParseManifest(raw) ==
    [initial |-> raw.initial,
     namespace |-> IF raw.namespace = "" THEN "default" ELSE raw.namespace,
     hint |-> raw.hint,
     states |-> [n \in DOMAIN raw.states |-> convertState(raw.states[n])]]

---------------------------------------------------------------------------
(* Build *)

Ids(g) == DOMAIN g.states
TargetsOf(g, s) == {t.goto : t \in Range(g.states[s].transitions)}
Terminals(g) == {s \in Ids(g) : g.states[s].type = "terminal"}

\* parseBindingRef: the state is what precedes the first ".output.", the key
\* what follows it.
OutputAt(ref) == {i \in 4 .. Len(ref) - 1 : ref[i] = "output"}
RefState(ref) == SubSeq(ref, 3, Min(OutputAt(ref)) - 1)
RefKey(ref) == SubSeq(ref, Min(OutputAt(ref)) + 1, Len(ref))
parseBindingRefOk(ref) ==
    HasBindingPrefix(ref) /\ OutputAt(ref) # {} /\ RefState(ref) # <<"">> /\ RefKey(ref) # <<"">>

indexDeclaredOutputs(g, s) ==
    IF s \in Ids(g) THEN UNION {DOMAIN a.outputBindings : a \in Range(g.states[s].actions)} ELSE {}

\* A mutated resolution that looks at the state only.
resolveBindingAnyKey(g, ref) ==
    parseBindingRefOk(ref) /\ indexDeclaredOutputs(g, RefState(ref)) # {}

resolveBinding(g, ref) ==
    parseBindingRefOk(ref) /\ RefKey(ref) \in indexDeclaredOutputs(g, RefState(ref))

validateInputBindings(g) ==
    {Err("INVALID_FIELD_VALUE", s) : s \in
        {x \in Ids(g) : \E a \in Range(g.states[x].actions) :
            \E ref \in Range(a.inputBindings) : ~resolveBinding(g, ref)}}

resolveWorkflowOutput(g, ref) == HasBindingPrefix(ref) => resolveBinding(g, ref)

validateWorkflowOutputs(g) ==
    {Err("INVALID_FIELD_VALUE", s) : s \in
        {x \in Ids(g) : DOMAIN g.states[x].outputs # {} /\
            \/ g.states[x].type # "terminal"
            \/ \E ref \in Range(g.states[x].outputs) : ~resolveWorkflowOutput(g, ref)}}

BuildErrors(g) ==
    LET targets == UNION {TargetsOf(g, s) : s \in Ids(g)}
    IN  {Err("UNKNOWN_STATE_REFERENCE", s) : s \in (targets \cup {g.initial}) \ Ids(g)}
        \cup When(Terminals(g) = {}, Err("NO_TERMINAL_STATE", NoState))
        \cup {Err("ORPHAN_STATE", s) : s \in Ids(g) \ (targets \cup {g.initial})}
        \cup validateInputBindings(g)
        \cup validateWorkflowOutputs(g)

---------------------------------------------------------------------------
(* The structural validators *)

TerminalStateValidator(g) ==
    When(Terminals(g) = {}, Err("NO_TERMINAL_STATE", NoState))

\* The breadth-first search, a generation of the queue at a time.
reachableFrom(g, start) ==
    LET visit[seen \in SUBSET Ids(g)] ==
            LET new == UNION {TargetsOf(g, s) : s \in seen} \ seen
            IN  IF new = {} THEN seen ELSE visit[seen \cup new]
    IN  visit[{start}]

OrphanStateValidator(g) == {Err("ORPHAN_STATE", s) : s \in Ids(g) \ reachableFrom(g, g.initial)}

\* The reverse search from the terminal states.
productiveStates(g) ==
    LET visit[seen \in SUBSET Ids(g)] ==
            LET new == {s \in Ids(g) \ seen : TargetsOf(g, s) \cap seen # {}}
            IN  IF new = {} THEN seen ELSE visit[seen \cup new]
    IN  visit[Terminals(g)]

\* A cycle: the part of the stack from next on.
Cycle(stack, next) == {stack[i] : i \in Min({j \in DOMAIN stack : stack[j] = next}) .. Len(stack)}

\* Mutant: a state that only leads to itself is not taken for a cycle.
TrappedLongOnly(g, cycle) == Cardinality(cycle) > 1 /\ cycle \cap productiveStates(g) = {}

\* No state of the cycle leads to a terminal one. The comment of the detector says
\* that a cycle with a human_in_the_loop state is accepted; the code has no such
\* exception.
Trapped(g, cycle) == cycle \cap productiveStates(g) = {}

\* The depth-first search of CircularTransitionDetector: w holds the colours,
\* the stack and the reported cycles.
RECURSIVE dfs(_, _, _)
dfs(g, w, id) ==
    LET entered == [w EXCEPT !.color[id] = "gray", !.stack = Append(@, id)]
        Edge(v, t) ==
            IF v.color[t.goto] = "white" THEN dfs(g, v, t.goto)
            ELSE IF /\ v.color[t.goto] = "gray"
                    /\ t.goto \notin v.reported
                    /\ Trapped(g, Cycle(v.stack, t.goto))
            THEN [v EXCEPT !.reported = @ \cup {t.goto}]
            ELSE v
        left == FoldLeft(Edge, entered, g.states[id].transitions)
    IN  [left EXCEPT !.color[id] = "black", !.stack = Front(@)]

CircularTransitionDetector(g) ==
    LET white == [color |-> [s \in Ids(g) |-> "white"], stack |-> <<>>, reported |-> {}]
        rest == FoldSet(LAMBDA s, w : IF w.color[s] = "white" THEN dfs(g, w, s) ELSE w,
                        dfs(g, white, g.initial), Ids(g))
    IN  {Err("CIRCULAR_TRANSITION", s) : s \in rest.reported}

---------------------------------------------------------------------------
(* The semantic validators *)

CapabilityRefValidator(g) ==
    {Err("INVALID_FIELD_VALUE", s) : s \in
        {x \in Ids(g) : \E a \in Range(g.states[x].actions) :
            \/ a.capability.name \notin CapNames
            \/ a.capability.ns \notin Namespaces \cup {""}
            \/ a.capability.name \in Reserved}}

EventNameValidator(g) ==
    {Err("INVALID_FIELD_VALUE", s) : s \in
        {x \in Ids(g) : \E t \in Range(g.states[x].transitions) : t.event \notin EventNames}}

NamespaceValidator(g) ==
    When(g.namespace \notin Namespaces, Err("INVALID_FIELD_VALUE", NoState))

TransitionSetValidator(g) ==
    {Err("INVALID_FIELD_VALUE", s) : s \in
        {x \in Ids(g) : \E t \in Range(g.states[x].transitions) : NonString \in Range(t.set)}}

CrossNamespaceCapabilityValidator(g) ==
    {Err("INVALID_FIELD_VALUE", s) : s \in
        {x \in Ids(g) : \E a \in Range(g.states[x].actions) :
            a.capability.ns \notin {"", g.namespace}}}

\* Guarded transitions may share an event type.
DuplicateTransitionValidator(g) ==
    {Err("INVALID_FIELD_VALUE", s) : s \in
        {x \in Ids(g) : \E i, j \in DOMAIN g.states[x].transitions :
            LET t == g.states[x].transitions
            IN  i < j /\ t[i].guard = "" /\ t[j].guard = "" /\ t[i].event = t[j].event}}

\* Run over All().
ValidationErrors(g) ==
    TerminalStateValidator(g) \cup OrphanStateValidator(g) \cup CircularTransitionDetector(g)
    \cup DuplicateTransitionValidator(g) \cup CapabilityRefValidator(g) \cup EventNameValidator(g)
    \cup NamespaceValidator(g) \cup TransitionSetValidator(g)
    \cup CrossNamespaceCapabilityValidator(g)

---------------------------------------------------------------------------
(* The policy gate and the IR *)

\* Of the configuration of the service: no namespace, no gate.
PolicyGates(c) == {p \in {c} : p.namespace # ""}

NewPolicyGate(ps) == [n \in {p.namespace : p \in ps} |-> (CHOOSE p \in ps : p.namespace = n).engines]

\* A mutated gate that applies the list of one namespace to all of them.
checkRoutingPolicyEverywhere(gate, ns, hint) ==
    \E n \in DOMAIN gate : gate[n] # {} /\ hint # "" /\ hint \notin gate[n]

checkRoutingPolicy(gate, ns, hint) ==
    /\ ns \in DOMAIN gate
    /\ gate[ns] # {} /\ hint # "" /\ hint \notin gate[ns]

\* marshalInputTemplate fails.
Unmarshalable(g) ==
    \E s \in Ids(g) : \E a \in Range(g.states[s].actions) : NaN \in Range(a.input)

convertActions(actions) ==
    [i \in DOMAIN actions |->
        [capability |-> actions[i].capability, template |-> actions[i].input,
         inputBindings |-> actions[i].inputBindings, outputBindings |-> actions[i].outputBindings]]

\* The guard and the context writes of a transition do not reach the IR.
convertTransitions(ts) == [i \in DOMAIN ts |-> [event |-> ts[i].event, target |-> ts[i].goto]]

convertStates(states) ==
    [s \in DOMAIN states |->
        [type |-> states[s].type, actions |-> convertActions(states[s].actions),
         transitions |-> convertTransitions(states[s].transitions), outputs |-> states[s].outputs]]

ToIR(g) == [initial |-> g.initial, namespace |-> g.namespace, states |-> convertStates(g.states)]

---------------------------------------------------------------------------
(* The RPCs *)

NoIR == [initial |-> NoState, namespace |-> "", states |-> <<>>]

\* toProtoErrors: a cycle has no code of its own.
toProtoErrors(errs) ==
    {[e EXCEPT !.code = IF @ = "CIRCULAR_TRANSITION" THEN "INVALID_FIELD_VALUE" ELSE @] : e \in errs}

Answer(status, errs, ir) == [status |-> status, errors |-> toProtoErrors(errs), ir |-> ir]
Refuse(status) == Answer(status, {}, NoIR)

\* Parsing sets the namespace, so that of the request is never used.
Parsed(r) ==
    LET m == ParseManifest(r.manifest)
    IN  IF m.namespace = "" /\ r.namespace # "" THEN [m EXCEPT !.namespace = r.namespace] ELSE m

\* What both RPCs refuse before they parse.
Unusable(r) == r.cancelled \/ r.manifest.syntax = "none"
Refusal(r) == Refuse(IF r.cancelled THEN "Canceled" ELSE "InvalidArgument")

Compile(r, p) ==
    CASE Unusable(r) -> Refusal(r)
      [] ParseErrors(r.manifest) # {} -> Answer("OK", ParseErrors(r.manifest), NoIR)
      [] OTHER ->
            LET g == Parsed(r)
            IN  CASE checkRoutingPolicy(NewPolicyGate(PolicyGates(p)), g.namespace, g.hint) ->
                        Refuse("PermissionDenied")
                  [] BuildErrors(g) # {} -> Answer("OK", BuildErrors(g), NoIR)
                  [] ValidationErrors(g) # {} -> Answer("OK", ValidationErrors(g), NoIR)
                  [] Unmarshalable(g) -> Refuse("Internal")
                  [] OTHER -> Answer("OK", {}, ToIR(g))

\* The validators run only on a graph that was built.
GraphErrors(g) == IF BuildErrors(g) # {} THEN BuildErrors(g) ELSE ValidationErrors(g)

Validate(r) ==
    CASE Unusable(r) -> Refusal(r)
      [] ParseErrors(r.manifest) # {} -> Answer("OK", ParseErrors(r.manifest), NoIR)
      [] OTHER -> Answer("OK", GraphErrors(ParseManifest(r.manifest)), NoIR)

NotYet == Refuse("none")

Init ==
    /\ req \in Requests /\ policy \in Policies
    /\ compiled = NotYet /\ validated = NotYet /\ stored = NotYet

CompileWorkflow ==
    /\ compiled = NotYet
    /\ compiled' = Compile(req, policy)
    /\ UNCHANGED <<req, policy, validated, stored>>

ValidateManifest ==
    /\ validated = NotYet
    /\ validated' = Validate(req)
    /\ UNCHANGED <<req, policy, compiled, stored>>

\* The compiler stores nothing: the caller keeps the IR of the answer.
GetCompiledWorkflow ==
    /\ compiled # NotYet /\ stored = NotYet
    /\ stored' = Refuse("NotFound")
    /\ UNCHANGED <<req, policy, compiled, validated>>

Next == CompileWorkflow \/ ValidateManifest \/ GetCompiledWorkflow

Spec == Init /\ [][Next]_vars

---------------------------------------------------------------------------
(* What the compiler promises to the engine *)

\* The transitions of an IR as a relation, and its paths.
Edges(ir) == [x, y \in DOMAIN ir.states |-> \E t \in Range(ir.states[x].transitions) : t.target = y]
Path(ir, x, y) == x = y \/ TransitiveClosure(Edges(ir), DOMAIN ir.states)[x, y]

\* Every state and every target exists and is on a path from the initial
\* state, and from every state the run can still end: at a terminal state, or
\* at a state without transitions, where the interpreter fails the run.
GraphRuns(ir) ==
    /\ ir.initial \in DOMAIN ir.states
    /\ \A s \in DOMAIN ir.states :
        /\ {t.target : t \in Range(ir.states[s].transitions)} \subseteq DOMAIN ir.states
        /\ Path(ir, ir.initial, s)
        /\ \E e \in DOMAIN ir.states :
            Path(ir, s, e) /\ (ir.states[e].type = "terminal" \/ ir.states[e].transitions = <<>>)

\* canonicalRefKey of the engine: exactly five segments.
canonicalRefKey(ref) ==
    Len(ref) = 5 /\ ref[1] = "$" /\ ref[2] = "states" /\ ref[4] = "output" /\ "" \notin {ref[3], ref[5]}

\* Every reference the engine will resolve names an output that an action of
\* that state publishes. References with a dotted state or key compile too, but
\* the engine rejects them.
RefsRun(ir) ==
    \A s \in DOMAIN ir.states :
        \A ref \in UNION {Range(a.inputBindings) : a \in Range(ir.states[s].actions)}
                   \cup {r \in Range(ir.states[s].outputs) : HasBindingPrefix(r)} :
            Len(ref) = 5 =>
                /\ canonicalRefKey(ref)
                /\ <<ref[3]>> \in DOMAIN ir.states
                /\ \E a \in Range(ir.states[<<ref[3]>>].actions) : <<ref[5]>> \in DOMAIN a.outputBindings

\* An IR that CompileWorkflow returns is one the interpreter can run: Build and
\* the validators together exclude dangling transitions, unreachable states,
\* loops without a way out, those through a human_in_the_loop state included, and
\* references that nothing publishes.
CompiledRuns == (compiled.ir # NoIR) => GraphRuns(compiled.ir) /\ RefsRun(compiled.ir)

Structural == {"UNKNOWN_STATE_REFERENCE", "NO_TERMINAL_STATE", "ORPHAN_STATE", "CIRCULAR_TRANSITION"}

\* CompileWorkflow and ValidateManifest agree, except that the policy of the
\* namespace may deny the engine and that an input may have no JSON form; and a
\* manifest is rejected for its graph only when its graph cannot run to an end or
\* has no terminal state. A cycle without a way out is rejected even if a human is
\* asked in it, against the comment of CircularTransitionDetector.
RejectedJustly ==
    /\ (compiled # NotYet /\ validated # NotYet /\ compiled.status \notin {"PermissionDenied", "Internal"}) =>
            compiled.errors = validated.errors /\ compiled.status = validated.status
    /\ (compiled.status = "PermissionDenied") =>
            /\ req.manifest.hint \notin policy.engines \cup {""}
            /\ policy.namespace = ParseManifest(req.manifest).namespace
    /\ (compiled.status = "OK" /\ ParseErrors(req.manifest) = {}) =>
            LET g == ParseManifest(req.manifest)
            IN  (compiled.ir = NoIR /\ \A e \in GraphErrors(g) : e.code \in Structural) =>
                    ~GraphRuns(ToIR(g)) \/ Terminals(g) = {}

=============================================================================
