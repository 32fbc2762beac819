------------------------------ MODULE IRInterpreter ------------------------------
(***************************************************************************)
(* One run of a workflow: the interpreter that drives the state machine of *)
(* a compiled WorkflowIR (Run), the data context its states exchange data  *)
(* through, and the lifecycle events it publishes, while clients signal    *)
(* and cancel the run.                                                     *)
(*                                                                         *)
(* The interpreter is a Temporal coroutine: what it does between two       *)
(* awaits is one step, and a cancellation takes effect at an await.        *)
(***************************************************************************)
EXTENDS Naturals, Sequences, FiniteSets, FiniteSetsExt

CONSTANTS
    IRs,        \* the workflow IRs that may be submitted
    Results,    \* what a capability may answer: [event, payload]
    Strings,    \* payload values that are JSON strings
    Scalars,    \* payload values that are strings, numbers or booleans
    Size,       \* bytes of the string form of a scalar
    NameSize,   \* bytes of the name of an output
    MaxValue,   \* MaxOutputValueBytes
    MaxTotal,   \* MaxOutputsTotalBytes
    MaxVisits   \* bound on the states a run visits

\* An IR is [initial, states]; a state [type, actions, transitions, outputs];
\* an action [async, broken, inputs, outputs], where broken says that its
\* input template does not parse or execute, inputs maps input names to
\* bindings and outputs maps context keys to payload keys; a transition
\* [event, conditions, target], a condition [key, value] standing for the
\* guard ctx.key == value.
ASSUME IRInterpreterAssumption ==
    /\ Strings \subseteq Scalars
    /\ Size \in [Scalars -> Nat]
    /\ NameSize \in Nat /\ MaxValue \in Nat /\ MaxTotal \in Nat /\ MaxVisits \in Nat
    /\ \A w \in IRs :
         /\ w.initial \in STRING
         /\ \A s \in DOMAIN w.states :
              LET actions == w.states[s].actions
                  transitions == w.states[s].transitions
              IN  /\ s \in STRING
                  /\ Len(actions) \in Nat /\ DOMAIN actions = 1 .. Len(actions)
                  /\ \A i \in DOMAIN actions : DOMAIN actions[i].outputs \subseteq STRING
                  /\ Len(transitions) \in Nat /\ DOMAIN transitions = 1 .. Len(transitions)
                  /\ \A i \in DOMAIN transitions : transitions[i].target \in STRING

NoBindings == << >>
Literal(v) == [ref |-> FALSE, value |-> v]
Ref(state, key) == [ref |-> TRUE, state |-> state, key |-> key]

VARIABLES
    ir,          \* the IR of the run
    cur,         \* ExecutionContext.CurrentState
    ctx,         \* ExecutionContext.Ctx
    store,       \* WorkflowDataContext.store
    pc,          \* "find", "act", "await", "done"
    step,        \* index of the next action of the state
    last,        \* result of the last action of the state
    outcome,     \* "running", "completed", "failed", "cancelled"
    outputs,     \* outputs of the completed run
    cancelled,   \* the run was asked to cancel
    signals,     \* event types signalled to the run
    events,      \* lifecycle events handed to the event bus
    dispatched,  \* the last dispatched action and its input
    log          \* output values in the order they were published

vars == <<ir, cur, ctx, store, pc, step, last, outcome, outputs, cancelled, signals,
          events, dispatched, log>>

\* A state without synchronous actions has a result without an event type.
NoResult == [event |-> "", payload |-> << >>]

Init ==
    /\ ir \in IRs
    /\ cur = ir.initial
    /\ ctx = << >> /\ store = << >>
    /\ pc = "find" /\ step = 1 /\ last = NoResult
    /\ outcome = "running" /\ outputs = << >>
    /\ cancelled = FALSE /\ signals = {}
    /\ events = << >> /\ dispatched = [inputs |-> << >>, payload |-> << >>]
    /\ log = << >>

---------------------------------------------------------------------------
(* The data context *)

\* The map base with the entries of over on top.
Overlay(base, over) ==
    [k \in DOMAIN base \cup DOMAIN over |-> IF k \in DOMAIN over THEN over[k] ELSE base[k]]

\* A mutated key that forgets which state published the value.
outputKeyShared(state, key) == <<"states", key>>

outputKey(state, key) == <<state, key>>

Resolvable(bindings) ==
    \A k \in DOMAIN bindings :
        bindings[k].ref => outputKey(bindings[k].state, bindings[k].key) \in DOMAIN store

\* ResolveInputs, for bindings that can be resolved.
ResolveInputs(bindings) ==
    [k \in DOMAIN bindings |->
        IF bindings[k].ref THEN store[outputKey(bindings[k].state, bindings[k].key)]
                           ELSE bindings[k].value]

\* A mutated merge in which the ambient context wins.
mergeInputsAmbient(base, inputs) == Overlay(inputs, base)

\* mergeInputs: an explicit binding wins over the ambient context.
mergeInputs(base, inputs) == Overlay(base, inputs)

\* extractScalar succeeds for every declared output.
Extractable(bindings, payload) ==
    \A k \in DOMAIN bindings :
        bindings[k] \in DOMAIN payload /\ payload[bindings[k]] \in Scalars

\* WriteOutputs, for outputs that can be extracted.
WriteOutputs(state, bindings, payload) ==
    Overlay(store, [c \in {outputKey(state, k) : k \in DOMAIN bindings} |->
                       payload[bindings[CHOOSE k \in DOMAIN bindings : outputKey(state, k) = c]]])

\* mergePayload: the top-level strings of the payload enter the context.
mergePayload(base, payload) ==
    LET strings == {k \in DOMAIN payload : payload[k] \in Strings}
    IN  Overlay(base, [k \in strings |-> payload[k]])

enforceOutputBounds(outs) ==
    /\ \A k \in DOMAIN outs : Size[outs[k]] <= MaxValue
    /\ MapThenSumSet(LAMBDA k : NameSize + Size[outs[k]], DOMAIN outs) <= MaxTotal

---------------------------------------------------------------------------
(* The interpreter *)

State == ir.states[cur]
IsTerminalState == State.type = "TERMINAL"

evalGuard(c) == c.key \in DOMAIN ctx /\ ctx[c.key] = c.value
guardsMatch(t) == \A c \in t.conditions : evalGuard(c)

Matches(t) == (last.event = "" \/ t.event = last.event) /\ guardsMatch(t)

\* Indices of the transitions that match; the interpreter takes the first.
Matching == {i \in DOMAIN State.transitions : Matches(State.transitions[i])}
resolveTransition == State.transitions[Min(Matching)]

\* An event is published by an activity of its own, which a cancelled run
\* does not start.
Publish(type) ==
    events' = IF cancelled THEN events ELSE Append(events, [type |-> type, state |-> cur])

\* publishFailed and return.
Fail ==
    /\ Publish("failed")
    /\ outcome' = IF cancelled THEN "cancelled" ELSE "failed"
    /\ pc' = "done"

\* The run ends without an event if the IR has no such state.
StateNotFound ==
    /\ pc = "find" /\ cur \notin DOMAIN ir.states
    /\ outcome' = "failed" /\ pc' = "done"
    /\ UNCHANGED <<ir, cur, ctx, store, step, last, outputs, cancelled, signals, events,
                   dispatched, log>>

\* The bound on visits is the model's; the code has none.
EnterState ==
    /\ pc = "find" /\ cur \in DOMAIN ir.states /\ ~IsTerminalState
    /\ Len(events) < 2 * MaxVisits
    /\ Publish("entered")
    /\ pc' = "act" /\ step' = 1 /\ last' = NoResult
    /\ UNCHANGED <<ir, cur, ctx, store, outcome, outputs, cancelled, signals, dispatched, log>>

captureTerminalOutputs ==
    /\ pc = "find" /\ cur \in DOMAIN ir.states /\ IsTerminalState
    /\ IF Resolvable(State.outputs) /\ enforceOutputBounds(ResolveInputs(State.outputs))
         THEN /\ Publish("completed")
              /\ outputs' = ResolveInputs(State.outputs)
              /\ outcome' = "completed" /\ pc' = "done"
         ELSE Fail /\ UNCHANGED outputs
    /\ UNCHANGED <<ir, cur, ctx, store, step, last, cancelled, signals, dispatched, log>>

Action == State.actions[step]
HasAction == pc = "act" /\ step <= Len(State.actions)

SkipAsync ==
    /\ HasAction /\ Action.async
    /\ step' = step + 1
    /\ UNCHANGED <<ir, cur, ctx, store, pc, last, outcome, outputs, cancelled, signals, events,
                   dispatched, log>>

\* Inputs are resolved and the template rendered before the dispatch.
DispatchAction ==
    /\ HasAction /\ ~Action.async
    /\ IF Resolvable(Action.inputs) /\ ~Action.broken
         THEN /\ pc' = "await"
              /\ dispatched' = [inputs |-> Action.inputs,
                                payload |-> mergeInputs(ctx, ResolveInputs(Action.inputs))]
              /\ UNCHANGED <<outcome, events>>
         ELSE Fail /\ UNCHANGED dispatched
    /\ UNCHANGED <<ir, cur, ctx, store, step, last, outputs, cancelled, signals, log>>

\* The capability answered: its declared outputs are published for later
\* states, and the next action is due.
ActionReturns(result) ==
    /\ pc = "await" /\ ~cancelled
    /\ IF Extractable(Action.outputs, result.payload)
         THEN /\ store' = WriteOutputs(cur, Action.outputs, result.payload)
              /\ log' = Append(log, [state |-> cur,
                                     values |-> [k \in DOMAIN Action.outputs |->
                                                    result.payload[Action.outputs[k]]]])
              /\ last' = result
              /\ step' = step + 1
              /\ pc' = "act"
              /\ UNCHANGED <<outcome, events>>
         ELSE Fail /\ UNCHANGED <<store, log, last, step>>
    /\ UNCHANGED <<ir, cur, ctx, outputs, cancelled, signals, dispatched>>

\* The dispatch failed for good, or the run was cancelled while it waited.
ActionFails ==
    /\ pc = "await"
    /\ Fail
    /\ UNCHANGED <<ir, cur, ctx, store, step, last, outputs, cancelled, signals, dispatched, log>>

\* A mutated exit whose event precedes the choice of the transition.
TakeTransitionEarly ==
    /\ pc = "act" /\ step > Len(State.actions)
    /\ Publish("exited")
    /\ IF Matching # {}
         THEN /\ ctx' = mergePayload(ctx, last.payload)
              /\ cur' = resolveTransition.target
              /\ pc' = "find"
              /\ UNCHANGED outcome
         ELSE /\ outcome' = "failed" /\ pc' = "done"
              /\ UNCHANGED <<ctx, cur>>
    /\ UNCHANGED <<ir, store, step, last, outputs, cancelled, signals, dispatched, log>>

\* All actions done: take the first transition that matches.
TakeTransition ==
    /\ pc = "act" /\ step > Len(State.actions)
    /\ IF Matching # {}
         THEN /\ Publish("exited")
              /\ ctx' = mergePayload(ctx, last.payload)
              /\ cur' = resolveTransition.target
              /\ pc' = "find"
              /\ UNCHANGED outcome
         ELSE Fail /\ UNCHANGED <<ctx, cur>>
    /\ UNCHANGED <<ir, store, step, last, outputs, cancelled, signals, dispatched, log>>

\* SignalWorkflow: Temporal buffers the signal; the interpreter has no signal
\* channel and never looks at it.
Signal(event) ==
    /\ outcome = "running"
    /\ signals' = signals \cup {event}
    /\ UNCHANGED <<ir, cur, ctx, store, pc, step, last, outcome, outputs, cancelled, events,
                   dispatched, log>>

\* CancelWorkflow.
Cancel ==
    /\ outcome = "running" /\ ~cancelled
    /\ cancelled' = TRUE
    /\ UNCHANGED <<ir, cur, ctx, store, pc, step, last, outcome, outputs, signals, events,
                   dispatched, log>>

---------------------------------------------------------------------------
Run ==
    \/ StateNotFound
    \/ EnterState
    \/ captureTerminalOutputs
    \/ SkipAsync
    \/ DispatchAction
    \/ \E result \in Results : ActionReturns(result)
    \/ ActionFails
    \/ TakeTransition

Next == Run \/ Signal("signal") \/ Cancel

Spec == Init /\ [][Next]_vars

---------------------------------------------------------------------------
(* Properties *)

EventTypes == {"entered", "exited", "completed", "failed"}

\* The value state last published under key.
Published(state, key) ==
    {i \in DOMAIN log : log[i].state = state /\ key \in DOMAIN log[i].values}
Latest(state, key) == log[Max(Published(state, key))].values[key]

\* Types of the control variables.
TypeOK ==
    /\ ir \in IRs
    /\ pc \in {"find", "act", "await", "done"}
    /\ step \in Nat \ {0}
    /\ outcome \in {"running", "completed", "failed", "cancelled"}
    /\ events \in Seq([type : EventTypes, state : STRING])
    /\ cancelled \in BOOLEAN

\* The lifecycle events of a run tell its story: every exit follows the entry
\* of the same state, a failure in a state follows its entry and not its exit,
\* nothing follows the terminal event, and the terminal event is the outcome
\* (a cancelled run publishes nothing more, and a missing state nothing at all).
EventsTellOutcome ==
    LET n == Len(events)
        Is(i, type) == i \in 1 .. n /\ events[i].type = type
    IN  /\ \A i \in 1 .. n :
             /\ Is(i, "entered") => i = 1 \/ Is(i - 1, "exited")
             /\ Is(i, "exited") => Is(i - 1, "entered") /\ events[i - 1].state = events[i].state
             /\ Is(i, "failed") /\ ir.states[events[i].state].type # "TERMINAL" =>
                    Is(i - 1, "entered") /\ events[i - 1].state = events[i].state
             /\ Is(i, "completed") \/ Is(i, "failed") => i = n /\ outcome # "running"
        /\ ~cancelled =>
             /\ outcome = "completed" <=> Is(n, "completed")
             /\ outcome = "failed" /\ cur \in DOMAIN ir.states <=> Is(n, "failed")

\* Data flows as declared (ADR-029): what a bound input carries when its
\* action is dispatched is the value the referenced state published last in
\* this run, whatever the ambient context holds and however often states are
\* visited again.
InputsAreLatest ==
    pc = "await" =>
        \A k \in DOMAIN dispatched.inputs :
            LET b == dispatched.inputs[k] IN
            b.ref => /\ Published(b.state, b.key) # {}
                     /\ dispatched.payload[k] = Latest(b.state, b.key)

\* A completed run returns exactly the outputs its terminal state declares,
\* each the latest published value, within the size bounds (ADR-042).
OutputsAreDeclared ==
    outcome = "completed" =>
        /\ DOMAIN outputs = DOMAIN State.outputs
        /\ \A k \in DOMAIN outputs :
             LET b == State.outputs[k] IN
             b.ref => Published(b.state, b.key) # {} /\ outputs[k] = Latest(b.state, b.key)
        /\ enforceOutputBounds(outputs)

\* docs/authoring/workflows.md on human_in_the_loop states: "pauses execution
\* until an external signal arrives".
HumanGate ==
    [][cur' # cur /\ State.type = "HUMAN_IN_THE_LOOP" => signals # {}]_vars

=============================================================================
