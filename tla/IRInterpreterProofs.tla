--------------------------- MODULE IRInterpreterProofs ---------------------------
(***************************************************************************)
(* Proofs about a run of the interpreter, for any workflow IR, any answers *)
(* of the capabilities and any moment of a cancellation. The control       *)
(* comes first: where the run is and what its events say; then the data:   *)
(* what the context holds and what actions and the run are given of it.    *)
(***************************************************************************)
EXTENDS IRInterpreter, SequenceTheorems, Recursions, TLAPS

---------------------------------------------------------------------------
(* Sets of naturals *)

(* A non-empty set of naturals has a least element, which Min chooses. *)
LEMMA MinOfNaturals ==
    ASSUME NEW S \in SUBSET Nat, S # {}
    PROVE  Min(S) \in S /\ \A y \in S : Min(S) <= y
  BY LeastNumber DEF Min

(* A non-empty bounded one has a greatest, which Max chooses. *)
LEMMA MaxOfNaturals ==
    ASSUME NEW S \in SUBSET Nat, S # {}, NEW n \in Nat, \A y \in S : y <= n
    PROVE  Max(S) \in S /\ \A y \in S : Max(S) >= y
<1> DEFINE T == {n - y : y \in S}
<1>1. T \in SUBSET Nat /\ T # {}
    <2>1. ASSUME NEW y \in S PROVE n - y \in Nat
        <3>1. y \in Nat /\ y <= n
            OBVIOUS
        <3> QED BY <3>1
    <2>2. PICK y : y \in S
        OBVIOUS
    <2>3. n - y \in T
        BY <2>2
    <2> QED BY <2>1, <2>3
<1>2. PICK t \in T : \A u \in T : t <= u
    BY <1>1, MinOfNaturals
<1>3. PICK x \in S : t = n - x
    OBVIOUS
<1>4. ASSUME NEW y \in S PROVE x >= y
    <2>1. n - x <= n - y
        BY <1>2, <1>3
    <2>2. x \in Nat /\ y \in Nat
        OBVIOUS
    <2> QED BY <2>1, <2>2
<1> QED BY <1>4 DEF Max

---------------------------------------------------------------------------
(* Where a run is *)

Event == [type : EventTypes, state : STRING]

(* Names of states and of outputs are strings; what was published is scalar. *)
LogEntry == UNION {[state : STRING, values : [D -> Scalars]] : D \in SUBSET STRING}
RunTypes ==
    /\ TypeOK /\ cur \in STRING
    /\ log \in Seq(LogEntry) /\ DOMAIN store \subseteq STRING \X STRING

(* The interpreter acts in a state of the IR, waits for one of its actions, *)
(* and is done exactly when there is an outcome.                            *)
InState ==
    /\ pc \in {"act", "await"} => cur \in DOMAIN ir.states
    /\ pc = "await" => step \in DOMAIN State.actions
    /\ pc = "done" <=> outcome # "running"

(* The last event says where a run that is not cancelled is. *)
Tale ==
    ~cancelled =>
        /\ pc = "find" => events = << >> \/ events[Len(events)].type = "exited"
        /\ pc \in {"act", "await"} =>
             /\ events # << >> /\ events[Len(events)].type = "entered"
             /\ events[Len(events)].state = cur

(* EventsTellOutcome, in parts: what precedes each event; which event is the *)
(* last; and that it is the outcome.                                         *)
Follows(e, i, type) == i > 1 /\ e[i - 1].type = type
Link(e, w, i) ==
    /\ e[i].type = "entered" => i = 1 \/ Follows(e, i, "exited")
    /\ e[i].type = "exited" => Follows(e, i, "entered") /\ e[i - 1].state = e[i].state
    /\ (e[i].type = "failed" /\ w.states[e[i].state].type # "TERMINAL") =>
          Follows(e, i, "entered") /\ e[i - 1].state = e[i].state
Chain(e, w) == \A i \in 1 .. Len(e) : Link(e, w, i)
Ends(e, o) == \A i \in 1 .. Len(e) :
                 e[i].type \in {"completed", "failed"} => i = Len(e) /\ o # "running"
Verdict ==
    ~cancelled =>
        /\ outcome = "completed" <=> events # << >> /\ events[Len(events)].type = "completed"
        /\ (outcome = "failed" /\ cur \in DOMAIN ir.states) <=>
              events # << >> /\ events[Len(events)].type = "failed"

ControlInv ==
    RunTypes /\ InState /\ Tale /\ Chain(events, ir) /\ Ends(events, outcome) /\ Verdict

(* The parts are EventsTellOutcome. *)
LEMMA PartsTell == ControlInv => EventsTellOutcome
<1> SUFFICES ASSUME ControlInv PROVE EventsTellOutcome
    OBVIOUS
<1> DEFINE n == Len(events)
           Is(i, type) == i \in 1 .. n /\ events[i].type = type
<1>1. events \in Seq(Event) /\ n \in Nat /\ (events # << >> <=> n > 0)
    BY EmptySeq, LenProperties DEF ControlInv, RunTypes, TypeOK, Event
<1>2. ASSUME NEW i \in 1 .. n
      PROVE  /\ Is(i, "entered") => i = 1 \/ Is(i - 1, "exited")
             /\ Is(i, "exited") => Is(i - 1, "entered") /\ events[i - 1].state = events[i].state
             /\ Is(i, "failed") /\ ir.states[events[i].state].type # "TERMINAL" =>
                    Is(i - 1, "entered") /\ events[i - 1].state = events[i].state
    <2>1. Link(events, ir, i)
        BY DEF ControlInv, Chain
    <2>2. \A t : Follows(events, i, t) => Is(i - 1, t)
        BY <1>1 DEF Follows
    <2> HIDE DEF n
    <2> QED BY <2>1, <2>2 DEF Link
<1>3. \A i \in 1 .. n : Is(i, "completed") \/ Is(i, "failed") => i = n /\ outcome # "running"
    BY DEF ControlInv, Ends
<1>4. ~cancelled =>
        /\ outcome = "completed" <=> Is(n, "completed")
        /\ outcome = "failed" /\ cur \in DOMAIN ir.states <=> Is(n, "failed")
    BY <1>1 DEF ControlInv, Verdict
<1> QED BY <1>2, <1>3, <1>4 DEF EventsTellOutcome

(* An event continues the chain if it fits the last one. *)
LEMMA ChainAppend ==
    ASSUME NEW e \in Seq(Event), NEW x \in Event, NEW w, NEW o, Chain(e, w), Ends(e, "running"),
           x.type = "entered" => e = << >> \/ e[Len(e)].type = "exited",
           (x.type = "exited" \/ (x.type = "failed" /\ w.states[x.state].type # "TERMINAL"))
           => e # << >> /\ e[Len(e)].type = "entered" /\ e[Len(e)].state = x.state,
           x.type \in {"completed", "failed"} => o # "running"
    PROVE  /\ Append(e, x) \in Seq(Event) /\ Append(e, x) # << >>
           /\ Append(e, x)[Len(Append(e, x))] = x
           /\ Chain(Append(e, x), w) /\ Ends(Append(e, x), o)
<1> DEFINE n == Len(e)
           f == Append(e, x)
<1>1. /\ n \in Nat /\ f \in Seq(Event) /\ Len(f) = n + 1 /\ f[n + 1] = x
      /\ \A i \in 1 .. n : f[i] = e[i]
    BY AppendProperties, LenProperties
<1>2. f # << >> /\ (e # << >> => n > 0) /\ (e = << >> => n = 0)
    BY <1>1, EmptySeq
<1>3. ASSUME NEW i \in 1 .. n PROVE Link(f, w, i)
    <2>1. Link(e, w, i)
        BY DEF Chain
    <2>2. f[i] = e[i] /\ (i > 1 => f[i - 1] = e[i - 1])
        BY <1>1
    <2> HIDE DEF f
    <2> QED BY <2>1, <2>2 DEF Link, Follows
<1>4. Link(f, w, n + 1)
    <2>1. n > 0 => f[n] = e[n] /\ (n + 1) - 1 = n
        BY <1>1
    <2>2. f[n + 1] = x
        BY <1>1
    <2> HIDE DEF f
    <2>3. x.type = "entered" => n + 1 = 1 \/ Follows(f, n + 1, "exited")
        BY <1>1, <1>2, <2>1 DEF Follows
    <2>4. (x.type = "exited" \/ (x.type = "failed" /\ w.states[x.state].type # "TERMINAL"))
          => Follows(f, n + 1, "entered") /\ f[(n + 1) - 1].state = x.state
        BY <1>1, <1>2, <2>1 DEF Follows
    <2> HIDE DEF n
    <2> QED BY <2>2, <2>3, <2>4 DEF Link
<1>5. Chain(f, w)
    <2>1. \A i \in 1 .. n + 1 : i \in 1 .. n \/ i = n + 1
        BY <1>1
    <2> QED BY <1>1, <1>3, <1>4, <2>1 DEF Chain
<1>6. Ends(f, o)
    BY <1>1 DEF Ends
<1> QED BY <1>1, <1>2, <1>5, <1>6

(* The run starts without an event, in no state yet. *)
LEMMA ControlInitial == Init => ControlInv
<1> SUFFICES ASSUME Init PROVE ControlInv
    OBVIOUS
<1>1. << >> \in Seq(Event) /\ << >> \in Seq(LogEntry) /\ Len(<< >>) = 0
    BY EmptySeq
<1>2. RunTypes
    <2>1. TypeOK
        <3>1. /\ ir \in IRs /\ pc = "find" /\ step = 1 /\ outcome = "running" /\ cancelled = FALSE
              /\ events = << >>
            BY DEF Init
        <3>2. events \in Seq([type : EventTypes, state : STRING])
            BY <1>1, <3>1 DEF Event
        <3>3. cancelled \in BOOLEAN
            BY <3>1
        <3>4. step \in Nat \ {0}
            BY <3>1
        <3> QED BY <3>1, <3>2, <3>3, <3>4 DEF TypeOK
    <2>2. cur \in STRING
        BY IRInterpreterAssumption DEF Init
    <2>3. DOMAIN store \subseteq STRING \X STRING
        BY DEF Init
    <2> QED BY <1>1, <2>1, <2>2, <2>3 DEF Init, RunTypes
<1>3. InState /\ Tale /\ Verdict
    BY DEF Init, InState, Tale, Verdict
<1>4. Chain(events, ir) /\ Ends(events, outcome)
    BY <1>1 DEF Init, Chain, Ends
<1> QED BY <1>2, <1>3, <1>4 DEF ControlInv

(* Publishing, where it happens: the event is appended unless the run is cancelled. *)
LEMMA PublishContinues ==
    ASSUME ControlInv, NEW t \in EventTypes, Publish(t), pc # "done", UNCHANGED ir,
           t = "entered" => pc = "find", t = "exited" => pc \in {"act", "await"},
           t = "failed" => pc \in {"act", "await"} \/ IsTerminalState,
           t \in {"completed", "failed"} => outcome' # "running"
    PROVE  /\ events' \in Seq(Event) /\ Chain(events', ir') /\ Ends(events', outcome')
           /\ ~cancelled => /\ events' # << >> /\ events'[Len(events')].type = t
                            /\ events'[Len(events')].state = cur
<1>1. /\ events \in Seq(Event) /\ Chain(events, ir) /\ Ends(events, "running") /\ cur \in STRING
      /\ outcome = "running"
    BY DEF ControlInv, RunTypes, TypeOK, Event, InState
<1>2. CASE cancelled
    <2>1. events' = events
        BY <1>2 DEF Publish
    <2>2. Ends(events, outcome')
        BY <1>1 DEF Ends
    <2> QED BY <1>1, <1>2, <2>1, <2>2
<1>3. CASE ~cancelled
    <2> DEFINE x == [type |-> t, state |-> cur]
    <2>1. events' = Append(events, x) /\ x \in Event /\ x.type = t /\ x.state = cur
        BY <1>1, <1>3 DEF Publish, Event
    <2>2. t = "entered" => events = << >> \/ events[Len(events)].type = "exited"
        BY <1>3 DEF ControlInv, Tale
    <2>3. (t = "exited" \/ (t = "failed" /\ ir.states[cur].type # "TERMINAL"))
          => events # << >> /\ events[Len(events)].type = "entered" /\ events[Len(events)].state = cur
        BY <1>3 DEF ControlInv, Tale, IsTerminalState, State
    <2> HIDE DEF x
    <2>4. /\ Append(events, x) \in Seq(Event) /\ Append(events, x) # << >>
          /\ Append(events, x)[Len(Append(events, x))] = x
          /\ Chain(Append(events, x), ir) /\ Ends(Append(events, x), outcome')
        BY <1>1, <2>1, <2>2, <2>3, ChainAppend
    <2> QED BY <2>1, <2>4
<1> QED BY <1>2, <1>3

(* A failure ends the run, with the event as its last unless it is cancelled. *)
LEMMA FailKeeps ==
    ASSUME ControlInv, Fail, pc \in {"act", "await"} \/ IsTerminalState, pc # "done",
           cur \in DOMAIN ir.states, UNCHANGED <<ir, cur, store, log, step, cancelled>>
    PROVE  ControlInv'
<1> USE DEF Fail
<1>1. /\ events' \in Seq(Event) /\ Chain(events', ir') /\ Ends(events', outcome')
      /\ ~cancelled => /\ events' # << >> /\ events'[Len(events')].type = "failed"
                       /\ events'[Len(events')].state = cur
    BY PublishContinues DEF EventTypes
<1>2. RunTypes'
    BY <1>1 DEF ControlInv, RunTypes, TypeOK, Event
<1>3. InState' /\ Tale'
    BY DEF InState, Tale
<1>4. Verdict'
    BY <1>1 DEF Verdict
<1> QED BY <1>1, <1>2, <1>3, <1>4 DEF ControlInv

(* A step without an event leaves the chain as it is. *)
LEMMA SilentKeeps ==
    ASSUME ControlInv, UNCHANGED <<ir, events>>, outcome' = outcome \/ outcome' # "running"
    PROVE  events' \in Seq(Event) /\ Chain(events', ir') /\ Ends(events', outcome')
BY DEF ControlInv, RunTypes, TypeOK, Event, Ends

(* The first transition that matches leads to a named state. *)
LEMMA TargetNamed ==
    ASSUME ControlInv, pc = "act", Matching # {} PROVE resolveTransition.target \in STRING
<1>1. cur \in DOMAIN ir.states /\ ir \in IRs
    BY DEF ControlInv, InState, RunTypes, TypeOK
<1>2. DOMAIN State.transitions = 1 .. Len(State.transitions) /\ Len(State.transitions) \in Nat
    BY <1>1, IRInterpreterAssumption DEF State
<1>3. Matching \in SUBSET Nat /\ Matching \subseteq DOMAIN State.transitions
    BY <1>2 DEF Matching
<1>4. Min(Matching) \in DOMAIN State.transitions
    BY <1>3, MinOfNaturals
<1> QED BY <1>1, <1>4, IRInterpreterAssumption DEF State, resolveTransition

(* An action whose outputs can be extracted adds an entry to the log. *)
LEMMA ReturnsEntry ==
    ASSUME ControlInv, pc = "await", NEW result, Extractable(Action.outputs, result.payload)
    PROVE  /\ DOMAIN Action.outputs \subseteq STRING
           /\ [state |-> cur, values |-> [k \in DOMAIN Action.outputs |-> result.payload[Action.outputs[k]]]]
                \in LogEntry
<1>1. cur \in DOMAIN ir.states /\ ir \in IRs /\ step \in DOMAIN State.actions /\ cur \in STRING
    BY DEF ControlInv, InState, RunTypes, TypeOK
<1>2. DOMAIN Action.outputs \subseteq STRING
    BY <1>1, IRInterpreterAssumption DEF State, Action
<1> DEFINE D == DOMAIN Action.outputs
           v == [k \in D |-> result.payload[Action.outputs[k]]]
<1>3. v \in [D -> Scalars]
    BY DEF Extractable
<1>4. [state |-> cur, values |-> v] \in [state : STRING, values : [D -> Scalars]]
    BY <1>1, <1>3
<1> QED BY <1>2, <1>4 DEF LogEntry

(* Every step of the interpreter, a signal and a cancellation keep the control invariant. *)
LEMMA ControlStep == ControlInv /\ [Next]_vars => ControlInv'
<1> SUFFICES ASSUME ControlInv, [Next]_vars PROVE ControlInv'
    OBVIOUS
<1>1. CASE StateNotFound
    <2>1. events' \in Seq(Event) /\ Chain(events', ir') /\ Ends(events', outcome')
        BY <1>1, SilentKeeps DEF StateNotFound
    <2>2. RunTypes'
        BY <1>1 DEF StateNotFound, ControlInv, RunTypes, TypeOK
    <2>3. InState' /\ Tale'
        BY <1>1 DEF StateNotFound, InState, Tale
    <2>4. Verdict'
        BY <1>1 DEF StateNotFound, ControlInv, Tale, Verdict
    <2> QED BY <2>1, <2>2, <2>3, <2>4 DEF ControlInv
<1>2. CASE EnterState
    <2>1. /\ events' \in Seq(Event) /\ Chain(events', ir') /\ Ends(events', outcome')
          /\ ~cancelled => /\ events' # << >> /\ events'[Len(events')].type = "entered"
                           /\ events'[Len(events')].state = cur
        BY <1>2, PublishContinues DEF EnterState, EventTypes
    <2>2. RunTypes'
        BY <1>2, <2>1 DEF EnterState, ControlInv, RunTypes, TypeOK, Event
    <2>3. InState' /\ Tale'
        BY <1>2, <2>1 DEF EnterState, ControlInv, InState, Tale
    <2>4. Verdict'
        BY <1>2, <2>1 DEF EnterState, ControlInv, InState, Verdict
    <2> QED BY <2>1, <2>2, <2>3, <2>4 DEF ControlInv
<1>3. CASE captureTerminalOutputs
    <2>1. CASE Resolvable(State.outputs) /\ enforceOutputBounds(ResolveInputs(State.outputs))
        <3>1. /\ pc = "find" /\ cur \in DOMAIN ir.states /\ Publish("completed")
              /\ outcome' = "completed" /\ pc' = "done"
              /\ UNCHANGED <<ir, cur, store, step, cancelled, log>>
            BY <1>3, <2>1 DEF captureTerminalOutputs
        <3>2. /\ events' \in Seq(Event) /\ Chain(events', ir') /\ Ends(events', outcome')
              /\ ~cancelled => /\ events' # << >> /\ events'[Len(events')].type = "completed"
                               /\ events'[Len(events')].state = cur
            BY <3>1, PublishContinues DEF EventTypes
        <3>3. RunTypes'
            BY <3>1, <3>2 DEF ControlInv, RunTypes, TypeOK, Event
        <3>4. InState' /\ Tale' /\ Verdict'
            BY <3>1, <3>2 DEF InState, Tale, Verdict
        <3> QED BY <3>2, <3>3, <3>4 DEF ControlInv
    <2>2. CASE ~(Resolvable(State.outputs) /\ enforceOutputBounds(ResolveInputs(State.outputs)))
        BY <1>3, <2>2, FailKeeps DEF captureTerminalOutputs
    <2> QED BY <2>1, <2>2
<1>4. CASE SkipAsync
    <2>1. events' \in Seq(Event) /\ Chain(events', ir') /\ Ends(events', outcome')
        BY <1>4, SilentKeeps DEF SkipAsync
    <2>2. RunTypes'
        BY <1>4 DEF SkipAsync, ControlInv, RunTypes, TypeOK
    <2>3. InState' /\ Tale' /\ Verdict'
        BY <1>4 DEF SkipAsync, HasAction, ControlInv, InState, Tale, Verdict
    <2> QED BY <2>1, <2>2, <2>3 DEF ControlInv
<1>5. CASE DispatchAction
    <2>1. pc = "act" /\ cur \in DOMAIN ir.states /\ step \in DOMAIN State.actions
        <3>1. pc = "act" /\ cur \in DOMAIN ir.states /\ ir \in IRs /\ step \in Nat \ {0} /\ step <= Len(State.actions)
            BY <1>5 DEF DispatchAction, HasAction, ControlInv, InState, RunTypes, TypeOK
        <3>2. DOMAIN State.actions = 1 .. Len(State.actions) /\ Len(State.actions) \in Nat
            BY <3>1, IRInterpreterAssumption DEF State
        <3> QED BY <3>1, <3>2
    <2>2. CASE Resolvable(Action.inputs) /\ ~Action.broken
        <3>1. pc' = "await" /\ UNCHANGED <<ir, cur, store, step, outcome, cancelled, events, log>>
            BY <1>5, <2>2 DEF DispatchAction
        <3>2. events' \in Seq(Event) /\ Chain(events', ir') /\ Ends(events', outcome')
            BY <3>1, SilentKeeps
        <3>3. RunTypes'
            BY <3>1 DEF ControlInv, RunTypes, TypeOK
        <3>4. InState' /\ Tale' /\ Verdict'
            BY <2>1, <3>1 DEF ControlInv, InState, Tale, Verdict, State
        <3> QED BY <3>2, <3>3, <3>4 DEF ControlInv
    <2>3. CASE ~(Resolvable(Action.inputs) /\ ~Action.broken)
        BY <1>5, <2>1, <2>3, FailKeeps DEF DispatchAction
    <2> QED BY <2>2, <2>3
<1>6. ASSUME NEW result \in Results, ActionReturns(result) PROVE ControlInv'
    <2>1. pc = "await" /\ cur \in DOMAIN ir.states /\ step \in Nat
        BY <1>6 DEF ActionReturns, ControlInv, InState, RunTypes, TypeOK
    <2>2. CASE Extractable(Action.outputs, result.payload)
        <3> DEFINE x == [state |-> cur,
                         values |-> [k \in DOMAIN Action.outputs |-> result.payload[Action.outputs[k]]]]
        <3>1. /\ store' = WriteOutputs(cur, Action.outputs, result.payload) /\ log' = Append(log, x)
              /\ step' = step + 1 /\ pc' = "act" /\ UNCHANGED <<ir, cur, outcome, cancelled, events>>
            BY <1>6, <2>2 DEF ActionReturns
        <3>2. DOMAIN Action.outputs \subseteq STRING /\ x \in LogEntry
            BY <2>1, <2>2, ReturnsEntry
        <3>3. log' \in Seq(LogEntry)
            BY <3>1, <3>2, AppendProperties DEF ControlInv, RunTypes
        <3>4. DOMAIN store' \subseteq STRING \X STRING
            <4>1. DOMAIN store' = DOMAIN store \cup {<<cur, k>> : k \in DOMAIN Action.outputs}
                BY <3>1 DEF WriteOutputs, Overlay, outputKey
            <4> QED BY <3>2, <4>1 DEF ControlInv, RunTypes
        <3> HIDE DEF x
        <3>5. events' \in Seq(Event) /\ Chain(events', ir') /\ Ends(events', outcome')
            BY <3>1, SilentKeeps
        <3>6. RunTypes'
            BY <2>1, <3>1, <3>3, <3>4 DEF ControlInv, RunTypes, TypeOK
        <3>7. InState' /\ Tale' /\ Verdict'
            BY <2>1, <3>1 DEF ControlInv, InState, Tale, Verdict
        <3> QED BY <3>5, <3>6, <3>7 DEF ControlInv
    <2>3. CASE ~Extractable(Action.outputs, result.payload)
        BY <1>6, <2>1, <2>3, FailKeeps DEF ActionReturns
    <2> QED BY <2>2, <2>3
<1>7. CASE ActionFails
    <2>1. pc = "await" /\ cur \in DOMAIN ir.states
        BY <1>7 DEF ActionFails, ControlInv, InState
    <2> QED BY <1>7, <2>1, FailKeeps DEF ActionFails
<1>8. CASE TakeTransition
    <2>1. pc = "act" /\ cur \in DOMAIN ir.states
        BY <1>8 DEF TakeTransition, ControlInv, InState
    <2>2. CASE Matching # {}
        <3>1. /\ Publish("exited") /\ cur' = resolveTransition.target /\ pc' = "find"
              /\ UNCHANGED <<ir, store, step, outcome, cancelled, log>>
            BY <1>8, <2>2 DEF TakeTransition
        <3>2. cur' \in STRING
            BY <2>1, <2>2, <3>1, TargetNamed
        <3>3. /\ events' \in Seq(Event) /\ Chain(events', ir') /\ Ends(events', outcome')
              /\ ~cancelled => /\ events' # << >> /\ events'[Len(events')].type = "exited"
                               /\ events'[Len(events')].state = cur
            BY <2>1, <3>1, PublishContinues DEF EventTypes
        <3>4. RunTypes'
            BY <3>1, <3>2, <3>3 DEF ControlInv, RunTypes, TypeOK, Event
        <3>5. InState' /\ Tale'
            BY <2>1, <3>1, <3>3 DEF ControlInv, InState, Tale
        <3>6. Verdict'
            BY <2>1, <3>1, <3>3 DEF ControlInv, InState, Verdict
        <3> QED BY <3>3, <3>4, <3>5, <3>6 DEF ControlInv
    <2>3. CASE Matching = {}
        BY <1>8, <2>1, <2>3, FailKeeps DEF TakeTransition
    <2> QED BY <2>2, <2>3
<1>9. CASE Signal("signal")
    <2>1. UNCHANGED <<ir, cur, store, pc, step, outcome, cancelled, events, log>>
        BY <1>9 DEF Signal
    <2> QED BY <2>1 DEF ControlInv, RunTypes, TypeOK, InState, State, Tale, Verdict
<1>10. CASE Cancel
    <2>1. cancelled' /\ cancelled' \in BOOLEAN /\ UNCHANGED <<ir, cur, store, pc, step, outcome, events, log>>
        BY <1>10 DEF Cancel
    <2> QED BY <2>1 DEF ControlInv, RunTypes, TypeOK, InState, State, Tale, Verdict
<1>11. CASE UNCHANGED vars
    BY <1>11 DEF vars, ControlInv, RunTypes, TypeOK, InState, State, Tale, Verdict
<1> QED BY <1>1, <1>2, <1>3, <1>4, <1>5, <1>6, <1>7, <1>8, <1>9, <1>10, <1>11 DEF Next, Run

---------------------------------------------------------------------------
(* What the data context holds *)

(* Every value in the context is the one its state published last. *)
StoreTells ==
    \A x \in DOMAIN store : Published(x[1], x[2]) # {} /\ store[x] = Latest(x[1], x[2])

DataInv == StoreTells /\ InputsAreLatest /\ OutputsAreDeclared

(* What state has published under key by the time of a log. *)
PublishedIn(l, state, key) == {i \in DOMAIN l : l[i].state = state /\ key \in DOMAIN l[i].values}
LatestIn(l, state, key) == l[Max(PublishedIn(l, state, key))].values[key]

(* A new entry supersedes what its state published under its keys. *)
LEMMA LatestNew ==
    ASSUME NEW l \in Seq(LogEntry), NEW e \in LogEntry, NEW key \in DOMAIN e.values
    PROVE  /\ PublishedIn(Append(l, e), e.state, key) # {}
           /\ LatestIn(Append(l, e), e.state, key) = e.values[key]
<1> DEFINE n == Len(l) + 1
           Q == PublishedIn(Append(l, e), e.state, key)
<1>1. n \in Nat /\ DOMAIN Append(l, e) = 1 .. n /\ Append(l, e)[n] = e
    BY AppendProperties, LenProperties
<1>2. Q \subseteq 1 .. n /\ n \in Q
    BY <1>1 DEF PublishedIn
<1>3. \A y \in Q : n >= y
    BY <1>1, <1>2
<1>4. Q \in SUBSET Nat /\ n \in Nat
    BY <1>1, <1>2
<1>5. Max(Q) \in Q /\ Max(Q) >= n
    BY <1>2, <1>3, <1>4, MaxOfNaturals
<1>6. Max(Q) = n
    BY <1>3, <1>4, <1>5
<1> QED BY <1>1, <1>2, <1>6 DEF LatestIn

(* It leaves what was published by others or under other keys. *)
LEMMA LatestOld ==
    ASSUME NEW l \in Seq(LogEntry), NEW e \in LogEntry, NEW state, NEW key,
           e.state # state \/ key \notin DOMAIN e.values, PublishedIn(l, state, key) # {}
    PROVE  /\ PublishedIn(Append(l, e), state, key) # {}
           /\ LatestIn(Append(l, e), state, key) = LatestIn(l, state, key)
<1> DEFINE m == Append(l, e)
           n == Len(l) + 1
           P == PublishedIn(l, state, key)
           Q == PublishedIn(m, state, key)
<1>1. /\ Len(l) \in Nat /\ DOMAIN l = 1 .. Len(l) /\ DOMAIN m = 1 .. n
      /\ m[n] = e /\ \A i \in 1 .. Len(l) : m[i] = l[i]
    BY AppendProperties, LenProperties
<1> HIDE DEF m
<1>2. P \subseteq 1 .. Len(l) /\ Q \subseteq 1 .. n
    BY <1>1 DEF PublishedIn
<1>3. Q = P
    <2>1. n \notin Q
        BY <1>1 DEF PublishedIn
    <2>2. \A i \in 1 .. Len(l) : i \in Q <=> i \in P
        BY <1>1 DEF PublishedIn
    <2>3. Q \subseteq 1 .. Len(l)
        BY <1>1, <1>2, <2>1
    <2> QED BY <1>2, <2>2, <2>3
<1>4. Max(P) \in P
    <2>1. P \in SUBSET Nat /\ \A y \in P : y <= Len(l)
        BY <1>1, <1>2
    <2> QED BY <1>1, <2>1, MaxOfNaturals
<1>5. m[Max(P)] = l[Max(P)]
    BY <1>1, <1>2, <1>4
<1> QED BY <1>3, <1>5 DEF LatestIn, m

(* What ResolveInputs finds for a reference is the latest value. *)
LEMMA ResolvedIsLatest ==
    ASSUME StoreTells, NEW bindings, Resolvable(bindings), NEW k \in DOMAIN bindings, bindings[k].ref
    PROVE  /\ Published(bindings[k].state, bindings[k].key) # {}
           /\ ResolveInputs(bindings)[k] = Latest(bindings[k].state, bindings[k].key)
<1> DEFINE x == <<bindings[k].state, bindings[k].key>>
<1>1. x \in DOMAIN store /\ x[1] = bindings[k].state /\ x[2] = bindings[k].key
    BY DEF Resolvable, outputKey
<1>2. ResolveInputs(bindings)[k] = store[x]
    BY DEF ResolveInputs, outputKey
<1> HIDE DEF x
<1> QED BY <1>1, <1>2 DEF StoreTells

(* Nothing is in the context at first. *)
LEMMA DataInitial == Init => DataInv
<1> SUFFICES ASSUME Init PROVE DataInv
    OBVIOUS
<1>1. DOMAIN store = {}
    BY DEF Init
<1> QED BY <1>1 DEF Init, DataInv, StoreTells, InputsAreLatest, OutputsAreDeclared

(* The answer of a capability puts its outputs into the context and the log. *)
LEMMA ReturnKeepsStore ==
    ASSUME ControlInv, StoreTells, pc = "await", NEW result, Extractable(Action.outputs, result.payload),
           store' = WriteOutputs(cur, Action.outputs, result.payload),
           log' = Append(log, [state |-> cur,
                               values |-> [k \in DOMAIN Action.outputs |->
                                              result.payload[Action.outputs[k]]]])
    PROVE  StoreTells'
<1> DEFINE D == DOMAIN Action.outputs
           v == [k \in D |-> result.payload[Action.outputs[k]]]
           e == [state |-> cur, values |-> v]
           new == {outputKey(cur, k) : k \in D}
<1>1. e \in LogEntry /\ e.state = cur /\ e.values = v /\ DOMAIN v = D
    BY ReturnsEntry
<1>2. log \in Seq(LogEntry) /\ DOMAIN store \subseteq STRING \X STRING
    BY DEF ControlInv, RunTypes
<1>3. DOMAIN store' = DOMAIN store \cup new /\ \A x \in DOMAIN store \ new : store'[x] = store[x]
    BY DEF WriteOutputs, Overlay
<1>4. ASSUME NEW k \in D PROVE store'[<<cur, k>>] = v[k]
    <2>1. (CHOOSE j \in D : outputKey(cur, j) = <<cur, k>>) = k
        BY DEF outputKey
    <2>2. <<cur, k>> \in new
        BY DEF outputKey
    <2>3. store'[<<cur, k>>] = result.payload[Action.outputs[CHOOSE j \in D : outputKey(cur, j) = <<cur, k>>]]
        BY <2>2 DEF WriteOutputs, Overlay
    <2> QED BY <2>1, <2>3
<1> SUFFICES ASSUME NEW x \in DOMAIN store'
             PROVE  (Published(x[1], x[2]) # {})' /\ store'[x] = Latest(x[1], x[2])'
    BY DEF StoreTells
<1>5. /\ Published(x[1], x[2])' = PublishedIn(log', x[1], x[2])
      /\ Latest(x[1], x[2])' = LatestIn(log', x[1], x[2])
      /\ Published(x[1], x[2]) = PublishedIn(log, x[1], x[2])
      /\ Latest(x[1], x[2]) = LatestIn(log, x[1], x[2])
    BY DEF Published, Latest, PublishedIn, LatestIn
<1>6. log' = Append(log, e)
    OBVIOUS
<1> HIDE DEF e
<1>8. CASE x \in new
    <2>1. PICK k \in D : x = <<cur, k>>
        BY <1>8 DEF outputKey
    <2>2. k \in DOMAIN e.values /\ e.values[k] = v[k]
        BY <1>1
    <2>3. /\ PublishedIn(Append(log, e), e.state, k) # {}
          /\ LatestIn(Append(log, e), e.state, k) = e.values[k]
        BY <1>1, <1>2, <2>2, LatestNew
    <2>4. store'[x] = v[k]
        BY <1>4, <2>1
    <2> HIDE DEF v
    <2>5. x[1] = e.state /\ x[2] = k
        BY <1>1, <2>1
    <2> QED BY <1>5, <1>6, <2>2, <2>3, <2>4, <2>5
<1>9. CASE x \notin new
    <2>1. x \in DOMAIN store /\ store'[x] = store[x] /\ x = <<x[1], x[2]>>
        BY <1>2, <1>3, <1>9
    <2>2. cur # x[1] \/ x[2] \notin D
        BY <1>9, <2>1 DEF outputKey
    <2>3. Published(x[1], x[2]) # {} /\ store[x] = Latest(x[1], x[2])
        BY <2>1 DEF StoreTells
    <2>4. e.state # x[1] \/ x[2] \notin DOMAIN e.values
        BY <1>1, <2>2
    <2>5. /\ PublishedIn(Append(log, e), x[1], x[2]) # {}
          /\ LatestIn(Append(log, e), x[1], x[2]) = LatestIn(log, x[1], x[2])
        BY <1>1, <1>2, <1>5, <2>3, <2>4, LatestOld
    <2> QED BY <1>5, <1>6, <2>1, <2>3, <2>5
<1> QED BY <1>8, <1>9

(* InputsAreLatest, of a log and a dispatch. *)
CarriesLatest(l, d) ==
    \A k \in DOMAIN d.inputs :
        d.inputs[k].ref =>
            /\ PublishedIn(l, d.inputs[k].state, d.inputs[k].key) # {}
            /\ d.payload[k] = LatestIn(l, d.inputs[k].state, d.inputs[k].key)

LEMMA InputsCarry ==
    /\ InputsAreLatest <=> (pc = "await" => CarriesLatest(log, dispatched))
    /\ InputsAreLatest' <=> (pc' = "await" => CarriesLatest(log', dispatched'))
<1>1. InputsAreLatest <=> (pc = "await" => CarriesLatest(log, dispatched))
    BY DEF InputsAreLatest, CarriesLatest, Published, Latest, PublishedIn, LatestIn
<1>2. InputsAreLatest' <=> (pc' = "await" => CarriesLatest(log', dispatched'))
    BY DEF InputsAreLatest, CarriesLatest, Published, Latest, PublishedIn, LatestIn
<1> QED BY <1>1, <1>2

(* A step that leaves the context and the log, and neither dispatches nor *)
(* completes, leaves the data invariant.                                  *)
LEMMA DataKept ==
    ASSUME DataInv, UNCHANGED <<store, log>>,
           pc' # "await" \/ (pc = "await" /\ UNCHANGED dispatched), outcome' # "completed"
    PROVE  DataInv'
<1>1. StoreTells'
    BY DEF DataInv, StoreTells, Published, Latest
<1>2. InputsAreLatest'
    BY InputsCarry DEF DataInv
<1>3. OutputsAreDeclared'
    BY DEF OutputsAreDeclared
<1> QED BY <1>1, <1>2, <1>3 DEF DataInv

(* Every step keeps the data invariant. *)
LEMMA DataStep == ControlInv /\ DataInv /\ [Next]_vars => DataInv'
<1> SUFFICES ASSUME ControlInv, DataInv, [Next]_vars PROVE DataInv'
    OBVIOUS
<1>1. pc # "done" <=> outcome = "running"
    BY DEF ControlInv, InState
<1>2. CASE StateNotFound
    BY <1>2, DataKept DEF StateNotFound
<1>3. CASE EnterState
    BY <1>1, <1>3, DataKept DEF EnterState
<1>4. CASE captureTerminalOutputs
    <2>1. CASE Resolvable(State.outputs) /\ enforceOutputBounds(ResolveInputs(State.outputs))
        <3>1. /\ outputs' = ResolveInputs(State.outputs) /\ pc' = "done"
              /\ UNCHANGED <<ir, cur, store, log>>
            BY <1>4, <2>1 DEF captureTerminalOutputs
        <3>2. StoreTells' /\ InputsAreLatest'
            BY <3>1 DEF DataInv, StoreTells, InputsAreLatest, Published, Latest
        <3>3. DOMAIN outputs' = DOMAIN State.outputs
            BY <3>1 DEF ResolveInputs
        <3>4. \A k \in DOMAIN State.outputs :
                 State.outputs[k].ref =>
                    /\ Published(State.outputs[k].state, State.outputs[k].key) # {}
                    /\ outputs'[k] = Latest(State.outputs[k].state, State.outputs[k].key)
            BY <2>1, <3>1, ResolvedIsLatest DEF DataInv
        <3>5. (\A k \in DOMAIN outputs :
                 State.outputs[k].ref =>
                    /\ Published(State.outputs[k].state, State.outputs[k].key) # {}
                    /\ outputs[k] = Latest(State.outputs[k].state, State.outputs[k].key))'
            BY <3>1, <3>3, <3>4, ZenonT(30) DEF State, Published, Latest
        <3>6. (DOMAIN outputs = DOMAIN State.outputs)'
            BY <3>1, <3>3 DEF State
        <3>7. enforceOutputBounds(outputs)'
            BY <2>1, <3>1
        <3> QED BY <3>2, <3>5, <3>6, <3>7 DEF DataInv, OutputsAreDeclared
    <2>2. CASE ~(Resolvable(State.outputs) /\ enforceOutputBounds(ResolveInputs(State.outputs)))
        BY <1>4, <2>2, DataKept DEF captureTerminalOutputs, Fail
    <2> QED BY <2>1, <2>2
<1>5. CASE SkipAsync
    BY <1>1, <1>5, DataKept DEF SkipAsync, HasAction
<1>6. CASE DispatchAction
    <2>1. CASE Resolvable(Action.inputs) /\ ~Action.broken
        <3> DEFINE b == Action.inputs
        <3>1. /\ dispatched' = [inputs |-> b, payload |-> mergeInputs(ctx, ResolveInputs(b))]
              /\ UNCHANGED <<outcome, store, log>> /\ pc = "act"
            BY <1>6, <2>1 DEF DispatchAction, HasAction
        <3>2. StoreTells'
            BY <3>1 DEF DataInv, StoreTells, Published, Latest
        <3>3. \A k \in DOMAIN b : mergeInputs(ctx, ResolveInputs(b))[k] = ResolveInputs(b)[k]
            BY DEF mergeInputs, Overlay, ResolveInputs
        <3>4. \A k \in DOMAIN b :
                 b[k].ref => /\ Published(b[k].state, b[k].key) # {}
                             /\ ResolveInputs(b)[k] = Latest(b[k].state, b[k].key)
            BY <2>1, ResolvedIsLatest DEF DataInv
        <3> HIDE DEF b
        <3>5. dispatched'.inputs = b /\ dispatched'.payload = mergeInputs(ctx, ResolveInputs(b))
            BY <3>1
        <3>6. CarriesLatest(log, dispatched')
            <4>1. \A s, k : Published(s, k) = PublishedIn(log, s, k) /\ Latest(s, k) = LatestIn(log, s, k)
                BY DEF Published, Latest, PublishedIn, LatestIn
            <4> QED BY <3>3, <3>4, <3>5, <4>1 DEF CarriesLatest
        <3>7. InputsAreLatest'
            BY <3>1, <3>6, InputsCarry
        <3>8. OutputsAreDeclared'
            BY <1>1, <3>1 DEF OutputsAreDeclared
        <3> QED BY <3>2, <3>7, <3>8 DEF DataInv
    <2>2. CASE ~(Resolvable(Action.inputs) /\ ~Action.broken)
        BY <1>6, <2>2, DataKept DEF DispatchAction, Fail
    <2> QED BY <2>1, <2>2
<1>7. ASSUME NEW result \in Results, ActionReturns(result) PROVE DataInv'
    <2>1. CASE Extractable(Action.outputs, result.payload)
        <3>1. /\ pc = "await" /\ pc' = "act" /\ outcome' = outcome
              /\ store' = WriteOutputs(cur, Action.outputs, result.payload)
              /\ log' = Append(log, [state |-> cur,
                                     values |-> [k \in DOMAIN Action.outputs |->
                                                    result.payload[Action.outputs[k]]]])
            BY <1>7, <2>1 DEF ActionReturns
        <3>2. StoreTells'
            BY <2>1, <3>1, ReturnKeepsStore DEF DataInv
        <3>3. InputsAreLatest' /\ OutputsAreDeclared'
            BY <1>1, <3>1 DEF InputsAreLatest, OutputsAreDeclared
        <3> QED BY <3>2, <3>3 DEF DataInv
    <2>2. CASE ~Extractable(Action.outputs, result.payload)
        BY <1>7, <2>2, DataKept DEF ActionReturns, Fail
    <2> QED BY <2>1, <2>2
<1>8. CASE ActionFails
    BY <1>8, DataKept DEF ActionFails, Fail
<1>9. CASE TakeTransition
    <2>1. pc' # "await" /\ outcome' # "completed" /\ UNCHANGED <<store, log>>
        BY <1>1, <1>9 DEF TakeTransition, Fail
    <2> QED BY <2>1, DataKept
<1>10. CASE Signal("signal")
    BY <1>1, <1>10, DataKept DEF Signal
<1>11. CASE Cancel
    BY <1>1, <1>11, DataKept DEF Cancel
<1>12. CASE UNCHANGED vars
    <2>1. UNCHANGED <<ir, cur, store, log, pc, dispatched, outcome, outputs>>
        BY <1>12 DEF vars
    <2>2. StoreTells' /\ InputsAreLatest'
        BY <2>1, ZenonT(30) DEF DataInv, StoreTells, InputsAreLatest, Published, Latest
    <2>3. OutputsAreDeclared'
        BY <2>1, ZenonT(30) DEF DataInv, OutputsAreDeclared, State, Published, Latest
    <2> QED BY <2>2, <2>3 DEF DataInv
<1> QED BY <1>2, <1>3, <1>4, <1>5, <1>6, <1>7, <1>8, <1>9, <1>10, <1>11, <1>12 DEF Next, Run

---------------------------------------------------------------------------
(* The theorems *)

(* Both invariants hold throughout a run. *)
LEMMA RunInvariant == Spec => [](ControlInv /\ DataInv)
<1>1. Init => ControlInv /\ DataInv
    BY ControlInitial, DataInitial
<1>2. ControlInv /\ DataInv /\ [Next]_vars => (ControlInv /\ DataInv)'
    BY ControlStep, DataStep
<1> QED BY <1>1, <1>2, PTL DEF Spec

(* The lifecycle events a run publishes tell its story: every exit follows   *)
(* the entry of the same state, the terminal event is the last and is the    *)
(* outcome, whenever the run is cancelled and whatever capabilities answer   *)
(* (the interpreter's Run, publishEvent and publishFailed).                  *)
THEOREM RunTells == Spec => []EventsTellOutcome
BY RunInvariant, PartsTell, PTL

(* An input bound to the output of a state carries what that state published *)
(* last, however often states are visited again (ResolveInputs and           *)
(* mergeInputs before a dispatch, WriteOutputs after an answer).             *)
THEOREM RunInputs == Spec => []InputsAreLatest
<1>1. ControlInv /\ DataInv => InputsAreLatest
    BY DEF DataInv
<1> QED BY RunInvariant, <1>1, PTL

(* A completed run returns the outputs its terminal state declares, each the *)
(* latest published value and all within the bounds (captureTerminalOutputs  *)
(* and enforceOutputBounds).                                                 *)
THEOREM RunOutputs == Spec => []OutputsAreDeclared
<1>1. ControlInv /\ DataInv => OutputsAreDeclared
    BY DEF DataInv
<1> QED BY RunInvariant, <1>1, PTL

=============================================================================
