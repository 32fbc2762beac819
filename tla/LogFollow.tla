-------------------------------- MODULE LogFollow --------------------------------
(***************************************************************************)
(* GET /workflows/{id}/logs: the handler of the api-gateway merges the     *)
(* history of the run, streamed by the engine-adapter's Watch, with the    *)
(* task events of the workflow, followed through zynaxevents.Subscribe.    *)
(*                                                                         *)
(* Three goroutines: the handler (it reads the engine's stream), the       *)
(* follower (it ranges over the channel of events) and the subscription    *)
(* (it takes messages of the JetStream consumer and fills the channel).    *)
(* Around them the run, which may end or be deleted at any time, the       *)
(* publishers, and the consumer, which redelivers what is not acknowledged *)
(* in time - also what the subscription still holds.                       *)
(***************************************************************************)
EXTENDS Naturals, Sequences, FiniteSets, SequencesExt

CONSTANTS
    Scenarios,   \* what may happen: [engine, scoped, script, events]
    MaxDeliver,  \* deliveries of one message (5 in the code)
    ChanCap,     \* capacity of the channel (64 in the code)
    MaxFaults    \* bound on lost calls, acknowledgements and connections

ASSUME LogFollowAssumption ==
    /\ \A sc \in Scenarios :
         /\ sc.engine \in {"temporal", "argo"} /\ sc.scoped \in BOOLEAN
         /\ sc.script \in Seq({"own", "other", "bad", "terminal"})
         /\ sc.events \in Nat \ {0}
    /\ MaxDeliver \in Nat \ {0} /\ ChanCap \in Nat \ {0} /\ MaxFaults \in Nat

VARIABLES
    scenario,   \* the configured engine, whether the subscription names a workflow
                \* (the gateway's does), what is published, and a bound on the run's events
    hist,       \* the history of the run, or the phases its Argo resource had
    gone,       \* the Argo resource was deleted
    cancelling, \* an Argo Cancel has seen the run alive and will delete it
    log,        \* the stream: the kind of every message
    cons,       \* the consumer: [start, delivered, acked], start = 0: none
    inbox,      \* messages pushed to the client and not yet taken
    missed,     \* messages of which a delivery was lost on the way
    sub,        \* the subscription goroutine
    hand,       \* the message it holds
    ch,         \* the channel
    handed,     \* everything it ever put into the channel
    app,        \* the follower goroutine: [pc, ev]
    handler,    \* the handler goroutine: [pc, seen, err]
    writer,     \* who holds the mutex of safeSend
    out,        \* what the client was sent: [from, what]
    client,     \* "reads", "stalled" (it keeps the connection and reads nothing) or "gone"
    subDone,    \* subCtx is done
    faults

runVars == <<scenario, hist, gone, cancelling>>
busVars == <<log, cons, inbox, missed>>
subVars == <<sub, hand, ch, handed>>
vars == <<scenario, hist, gone, cancelling, log, cons, inbox, missed, sub, hand, ch, handed,
          app, handler, writer, out, client, subDone, faults>>

engine == scenario.engine
scoped == scenario.scoped
Msgs == DOMAIN scenario.script

\* The request context is done.
clientGone == client = "gone"

Fault == faults < MaxFaults /\ faults' = faults + 1

---------------------------------------------------------------------------
(* The run, and its events as the engines report them *)

\* Temporal: the status a run has after an event of its history.
HistoryEventStatus(e) ==
    CASE e \in {"Completed", "ContinuedAsNew"} -> "COMPLETED"
      [] e \in {"Failed", "TimedOut"} -> "FAILED"
      [] e \in {"Canceled", "Terminated"} -> "CANCELLED"
      [] OTHER -> "RUNNING"

IsTerminalHistoryEvent(e) ==
    e \in {"Completed", "Failed", "TimedOut", "Canceled", "Terminated", "ContinuedAsNew"}

\* Argo: unknown and empty phases are pending.
mapArgoPhase(p) ==
    CASE p = "Running" -> "RUNNING"
      [] p = "Succeeded" -> "COMPLETED"
      [] p \in {"Failed", "Error"} -> "FAILED"
      [] p = "Skipped" -> "CANCELLED"
      [] OTHER -> "PENDING"

IsTerminal(s) == s \in {"COMPLETED", "FAILED", "CANCELLED"}

\* What the engines append: Temporal any event after the start, Argo a phase
\* further on. hist = <<>> is a run that does not exist.
Progress == IF engine = "temporal" THEN {"TaskScheduled"} ELSE {"Running"}
Ends == IF engine = "temporal" THEN {"Completed", "Failed", "Terminated"}
        ELSE {"Succeeded", "Error", "Skipped"}
StatusOf(e) == IF engine = "temporal" THEN HistoryEventStatus(e) ELSE mapArgoPhase(e)
Ended == hist # <<>> /\ IsTerminal(StatusOf(Last(hist)))

\* What a poll of the Argo resource finds.
GetWorkflow == IF hist = <<>> \/ gone THEN "404" ELSE Last(hist)

RunStep(e) ==
    /\ hist # <<>> /\ ~Ended /\ ~gone
    /\ e \in Progress => Len(hist) + 1 < scenario.events
    /\ engine = "argo" => e # Last(hist)
    /\ hist' = Append(hist, e)
    /\ UNCHANGED <<scenario, gone, cancelling, busVars, subVars, app, handler, writer, out,
                   client, subDone, faults>>

\* Temporal's Cancel ends in an event of the history (RunStep). Argo's looks
\* the run up and deletes the resource, whatever it is by then.
CancelCheck ==
    /\ engine = "argo" /\ ~cancelling
    /\ GetWorkflow # "404" /\ ~IsTerminal(mapArgoPhase(GetWorkflow))
    /\ cancelling' = TRUE
    /\ UNCHANGED <<scenario, hist, gone, busVars, subVars, app, handler, writer, out,
                   client, subDone, faults>>

CancelDelete ==
    /\ cancelling
    /\ cancelling' = FALSE /\ gone' = TRUE
    /\ UNCHANGED <<scenario, hist, busVars, subVars, app, handler, writer, out,
                   client, subDone, faults>>

---------------------------------------------------------------------------
(* Publishers and the consumer *)

\* zynaxevents.Publish: the stream is created if needed and the message stored.
\* No message id is set and nothing is retried.
Publish(kinds) ==
    /\ Len(log) < Len(scenario.script)
    /\ LET k == scenario.script[Len(log) + 1] IN k \in kinds /\ log' = Append(log, k)
    /\ UNCHANGED <<runVars, cons, inbox, missed, subVars, app, handler, writer, out,
                   client, subDone, faults>>

\* The publishers are best-effort: an error is logged, and the event is missing
\* from the stream, or in it all the same.
PublishTaskEvent == Publish({"own", "other"})
PublishLifecycleEventActivity == Publish({"terminal"})
PublishUndecodable == Publish({"bad"})

NoConsumer == [start |-> 0, delivered |-> [s \in Msgs |-> 0], acked |-> {}]

Exhausted(s) == s \notin cons.acked /\ cons.delivered[s] = MaxDeliver

\* JetStream pushes the next message, or one again that was refused or not
\* acknowledged in time (BackOff), up to MaxDeliver times.
Deliver(s) ==
    /\ cons.start > 0 /\ s \in cons.start .. Len(log)
    /\ s \notin cons.acked /\ cons.delivered[s] < MaxDeliver
    /\ \A r \in cons.start .. s - 1 : cons.delivered[r] > 0
    /\ cons' = [cons EXCEPT !.delivered[s] = @ + 1]
    /\ UNCHANGED <<runVars, log, subVars, app, handler, writer, out, client, subDone>>

Push(s) == Deliver(s) /\ inbox' = Append(inbox, s) /\ UNCHANGED <<missed, faults>>

\* A delivery in flight is lost while the client reconnects (MaxReconnects is
\* unlimited): the message comes again, but later ones may come before it.
PushLost(s) == Deliver(s) /\ missed' = missed \cup {s} /\ Fault /\ UNCHANGED inbox

---------------------------------------------------------------------------
(* The subscription goroutine *)

\* Subscribe: streams, then the consumer, from the last message on. The
\* subscriber id is fresh, so that there is none to bind to.
Subscribe ==
    /\ app.pc = "subscribe" /\ ~subDone
    /\ cons' = [NoConsumer EXCEPT !.start = IF log = <<>> THEN 1 ELSE Len(log)]
    /\ sub' = "loop"
    /\ app' = [app EXCEPT !.pc = "range"]
    /\ UNCHANGED <<runVars, log, inbox, missed, hand, ch, handed, handler, writer, out,
                   client, subDone, faults>>

\* The context is done already, or a call to JetStream fails.
SubscribeEnds ==
    /\ app.pc = "subscribe"
    /\ app' = [app EXCEPT !.pc = "done"]
    /\ UNCHANGED <<runVars, busVars, subVars, handler, writer, out, client, subDone>>

SubscribeCancelled == subDone /\ SubscribeEnds /\ UNCHANGED faults
SubscribeFails == ~subDone /\ SubscribeEnds /\ Fault

\* The goroutine returns: Unsubscribe deletes the consumer it created.
Stop == sub' = "stopped" /\ hand' = 0 /\ cons' = NoConsumer /\ inbox' = <<>>

NextMsg ==
    /\ sub = "loop" /\ ~subDone /\ inbox # <<>>
    /\ sub' = "dispatch" /\ hand' = Head(inbox) /\ inbox' = Tail(inbox)
    /\ UNCHANGED <<runVars, log, cons, missed, ch, handed, app, handler, writer, out,
                   client, subDone, faults>>

\* The context is done, or the connection is closed.
LoopStops ==
    /\ sub = "loop" /\ Stop
    /\ UNCHANGED <<runVars, log, missed, ch, handed, app, handler, writer, out,
                   client, subDone>>

LoopEnds == subDone /\ LoopStops /\ UNCHANGED faults
ConnectionClosed == ~subDone /\ LoopStops /\ Fault

\* Ack is not confirmed: it may be lost.
Ack(s) ==
    \/ cons' = [cons EXCEPT !.acked = @ \cup {s}] /\ UNCHANGED faults
    \/ Fault /\ UNCHANGED cons

\* Undecodable: refused (redelivered later). Not matching the pattern or of
\* another workflow: acknowledged and dropped.
dispatchFiltered ==
    /\ sub = "dispatch" /\ log[hand] \in {"bad", "other"}
    /\ IF log[hand] = "bad" THEN UNCHANGED <<cons, faults>> ELSE Ack(hand)
    /\ sub' = "loop" /\ hand' = 0
    /\ UNCHANGED <<runVars, log, inbox, missed, ch, handed, app, handler, writer, out,
                   client, subDone>>

Closes(s) == scoped /\ log[s] = "terminal"

\* A mutated dispatch that acknowledges a message before it is in the channel.
dispatchSendAckFirst ==
    /\ sub = "dispatch" /\ log[hand] \in {"own", "terminal"}
    /\ \/ Len(ch) < ChanCap /\ ch' = Append(ch, hand) /\ handed' = Append(handed, hand)
       \/ UNCHANGED <<ch, handed>>
    /\ Ack(hand)
    /\ sub' = "loop" /\ hand' = 0
    /\ UNCHANGED <<runVars, log, inbox, missed, app, handler, writer, out, client, subDone>>

\* There is room in the channel: the event is handed over and acknowledged.
\* The terminal event of its workflow ends a scoped subscription.
dispatchSend ==
    /\ sub = "dispatch" /\ log[hand] \in {"own", "terminal"}
    /\ Len(ch) < ChanCap
    /\ ch' = Append(ch, hand) /\ handed' = Append(handed, hand)
    /\ IF Closes(hand) THEN Stop /\ UNCHANGED faults
       ELSE Ack(hand) /\ sub' = "loop" /\ hand' = 0 /\ UNCHANGED inbox
    /\ UNCHANGED <<runVars, log, missed, app, handler, writer, out, client, subDone>>

\* The other branch of the select, also when there is room.
dispatchCancelled ==
    /\ sub = "dispatch" /\ log[hand] \in {"own", "terminal"} /\ subDone
    /\ Stop
    /\ UNCHANGED <<runVars, log, missed, ch, handed, app, handler, writer, out,
                   client, subDone, faults>>

---------------------------------------------------------------------------
(* safeSend: the write blocks, with the mutex held, while the client does not
   read; the logs handler has removed the deadline of its writes *)

Acquire(p) == writer = "none" /\ writer' = p

Send(p, what) ==
    /\ client # "stalled"
    /\ writer = p /\ writer' = "none"
    /\ out' = Append(out, [from |-> p, what |-> what])

---------------------------------------------------------------------------
(* SubscribeWorkflowEvents: range over the channel *)

Range1 ==
    /\ app.pc = "range"
    /\ \/ ch # <<>> /\ app' = [pc |-> "send", ev |-> Head(ch)] /\ ch' = Tail(ch)
       \/ ch = <<>> /\ sub = "stopped" /\ app' = [app EXCEPT !.pc = "done"] /\ UNCHANGED ch
    /\ UNCHANGED <<runVars, busVars, sub, hand, handed, handler, writer, out,
                   client, subDone, faults>>

AppLock ==
    /\ app.pc = "send" /\ Acquire("app")
    /\ UNCHANGED <<runVars, busVars, subVars, app, handler, out, client, subDone, faults>>

AppSend ==
    /\ app.pc = "send" /\ Send("app", app.ev)
    /\ app' = [pc |-> "range", ev |-> 0]
    /\ UNCHANGED <<runVars, busVars, subVars, handler, client, subDone, faults>>

---------------------------------------------------------------------------
(* The handler: WatchWorkflowLogs, with the stream of the engine *)

GoTo(pc) == handler' = [handler EXCEPT !.pc = pc]

\* A mutated end that leaves the subscription open.
EndWatchNoCancel(err) ==
    /\ handler' = [handler EXCEPT !.pc = "wait", !.err = err]
    /\ UNCHANGED subDone

\* The engine's stream ends with err: the subscription is cancelled.
EndWatch(err) ==
    /\ handler' = [handler EXCEPT !.pc = "wait", !.err = err]
    /\ subDone' = TRUE

\* The status of the run names the workflow; a failure falls back to the run's id.
Resolve ==
    /\ handler.pc = "resolve" /\ GoTo("watch")
    /\ app' = [app EXCEPT !.pc = "subscribe"]
    /\ UNCHANGED <<runVars, busVars, subVars, writer, out, client, subDone, faults>>

\* The next event of the history, or a phase that differs from the last one
\* seen: the poll may miss the phases between.
Watch ==
    /\ handler.pc = "watch" /\ hist # <<>> /\ ~gone
    /\ IF engine = "temporal" THEN handler.seen < Len(hist)
       ELSE GetWorkflow # (IF handler.seen = 0 THEN "" ELSE hist[handler.seen])
    /\ handler' = [handler EXCEPT !.pc = "send",
                      !.seen = IF engine = "temporal" THEN @ + 1 ELSE Len(hist)]
    /\ UNCHANGED <<runVars, busVars, subVars, app, writer, out, client, subDone, faults>>

HandlerLock ==
    /\ handler.pc = "send" /\ Acquire("engine")
    /\ UNCHANGED <<runVars, busVars, subVars, app, handler, out, client, subDone, faults>>

\* An event is sent; a terminal one is the last.
LastEvent(e) ==
    IF engine = "temporal" THEN IsTerminalHistoryEvent(e) ELSE IsTerminal(mapArgoPhase(e))

\* After the last event the stream is closed; its end may still be lost.
StreamEnds ==
    \/ EndWatch("none") /\ UNCHANGED faults
    \/ clientGone /\ EndWatch("cancelled") /\ UNCHANGED faults
    \/ EndWatch("unavailable") /\ Fault

\* A mutated Watch that stops at a terminal event instead of sending it first.
HandlerSendSkipsLast ==
    /\ handler.pc = "send"
    /\ LET e == hist[handler.seen] IN
         IF LastEvent(e) THEN writer = "engine" /\ writer' = "none" /\ EndWatch("none") /\ UNCHANGED out
         ELSE Send("engine", StatusOf(e)) /\ GoTo("watch") /\ UNCHANGED subDone
    /\ UNCHANGED <<runVars, busVars, subVars, app, client, faults>>

HandlerSend ==
    /\ handler.pc = "send"
    /\ LET e == hist[handler.seen] IN
         /\ Send("engine", StatusOf(e))
         /\ IF LastEvent(e) THEN StreamEnds ELSE GoTo("watch") /\ UNCHANGED <<subDone, faults>>
    /\ UNCHANGED <<runVars, busVars, subVars, app, client>>

\* What ends a Watch without a terminal event, as grpcErr and
\* mapEngineGRPCError report it.
WatchEnds(err) ==
    /\ handler.pc = "watch" /\ EndWatch(err)
    /\ UNCHANGED <<runVars, busVars, subVars, app, writer, out, client>>

WatchNotFound == (hist = <<>> \/ gone) /\ WatchEnds("notfound") /\ UNCHANGED faults
WatchCancelled == clientGone /\ WatchEnds("cancelled") /\ UNCHANGED faults
WatchBreaks == WatchEnds("unavailable") /\ Fault

\* A mutated handler that does not wait for the follower.
ReturnAtOnce ==
    /\ handler.pc = "wait" /\ GoTo("returned")
    /\ UNCHANGED <<runVars, busVars, subVars, app, writer, out, client, subDone, faults>>

\* The answer of handleWorkflowLogs: the stream as it is if anything was
\* written, whatever the error; else a status code.
Answer ==
    CASE out # <<>> -> "stream"
      [] out = <<>> /\ handler.err = "notfound" -> "404"
      [] out = <<>> /\ handler.err \in {"cancelled", "unavailable"} -> "500"
      [] OTHER -> "200"

\* wg.Wait, and the answer.
Return ==
    /\ handler.pc = "wait" /\ app.pc = "done" /\ GoTo("returned")
    /\ UNCHANGED <<runVars, busVars, subVars, app, writer, out, client, subDone, faults>>

\* The client closes the connection: the request context and subCtx are done.
Disconnect ==
    /\ ~clientGone /\ client' = "gone" /\ subDone' = TRUE
    /\ UNCHANGED <<runVars, busVars, subVars, app, handler, writer, out, faults>>

\* The client stops reading, and the buffers of the connection are full, so
\* that the write under way does not return; it may go on reading later.
Stall ==
    /\ client = "reads" /\ writer # "none" /\ client' = "stalled" /\ Fault
    /\ UNCHANGED <<runVars, busVars, subVars, app, handler, writer, out, subDone>>

Resume ==
    /\ client = "stalled" /\ client' = "reads"
    /\ UNCHANGED <<runVars, busVars, subVars, app, handler, writer, out, subDone, faults>>

---------------------------------------------------------------------------
Init ==
    /\ scenario \in Scenarios
    /\ hist \in {<<>>, IF engine = "temporal" THEN <<"Started">> ELSE <<"">>}
    /\ gone = FALSE /\ cancelling = FALSE
    /\ log = <<>> /\ cons = NoConsumer /\ inbox = <<>> /\ missed = {}
    /\ sub = "none" /\ hand = 0 /\ ch = <<>> /\ handed = <<>>
    /\ app = [pc |-> "none", ev |-> 0]
    /\ handler = [pc |-> "resolve", seen |-> 0, err |-> "none"]
    /\ writer = "none" /\ out = <<>>
    /\ client = "reads" /\ subDone = FALSE /\ faults = 0

SubStep == NextMsg \/ LoopEnds \/ dispatchFiltered \/ dispatchSend \/ dispatchCancelled
AppStep == Subscribe \/ SubscribeCancelled \/ Range1 \/ AppLock \/ AppSend
HandlerStep == \/ Resolve \/ Watch \/ HandlerLock \/ HandlerSend
               \/ WatchNotFound \/ WatchCancelled \/ Return

Next ==
    \/ \E e \in Progress \cup Ends : RunStep(e)
    \/ CancelCheck \/ CancelDelete
    \/ PublishTaskEvent \/ PublishLifecycleEventActivity \/ PublishUndecodable
    \/ \E s \in Msgs : Push(s) \/ PushLost(s)
    \/ SubStep \/ AppStep \/ HandlerStep
    \/ SubscribeFails \/ ConnectionClosed \/ WatchBreaks
    \/ Disconnect \/ Stall \/ Resume

Spec == Init /\ [][Next]_vars

\* The three goroutines run on; nothing is assumed of the run, the publishers,
\* the consumer or the client, which may stop reading for ever.
Fairness == WF_vars(SubStep) /\ WF_vars(AppStep) /\ WF_vars(HandlerStep)
FairSpec == Spec /\ Fairness

---------------------------------------------------------------------------
(* Properties *)

Count(s, q) == Cardinality({i \in DOMAIN q : q[i] = s})

\* Where the follower's lines are in what was sent, and how many there are up to i.
ShownAt == {i \in DOMAIN out : out[i].from = "app"}
Rank(i) == Cardinality({j \in ShownAt : j <= i})

\* What dispatchMsg promises of the events of the workflow, whatever is
\* refused, redelivered or lost: no event is acknowledged that did not reach
\* the channel, so that at most the channel and the event in hand are lost
\* when the gateway stops; an event is shown as often as it was delivered at
\* most, for the first time in the order of the stream unless a delivery of it
\* was lost in a reconnect; and none follows the terminal event of a scoped
\* subscription.
FollowerFaithful ==
    LET own == {s \in cons.acked : log[s] \in {"own", "terminal"}} IN
    /\ own \subseteq ToSet(handed)
    /\ Cardinality({s \in own : \A i \in ShownAt : out[i].what # s}) <= ChanCap + 1
    /\ cons.start > 0 => \A s \in Msgs : Count(s, handed) <= cons.delivered[s]
    /\ \A i \in ShownAt : Rank(i) <= Len(handed) /\ out[i].what = handed[Rank(i)]
    /\ \A j \in DOMAIN handed, s \in Msgs :
         s < handed[j] /\ s \in ToSet(handed) \ missed => \E i \in 1 .. j - 1 : handed[i] = s
    /\ scoped => \A i \in DOMAIN handed : log[handed[i]] = "terminal" => i = Len(handed)

\* The last status that was sent.
EngineSaidLast(status) ==
    \E i \in DOMAIN out :
        /\ out[i].from = "engine" /\ out[i].what = status
        /\ \A j \in DOMAIN out : j > i => out[j].from # "engine"

\* A terminal status was sent.
EngineSaidEnd == \E i \in DOMAIN out : out[i].from = "engine" /\ IsTerminal(out[i].what)

\* What the client of the logs endpoint may conclude from the answer, which
\* does not carry the error of a stream that has started: a terminal status is
\* said last and is the status the run has; a stream that ends without one
\* ended in an error, never because the run did; "not found" is said only of a
\* run that does not exist or was deleted - by a Cancel that may have overtaken
\* the end of the run; and no answer is empty.
EndIsTruthful ==
    /\ EngineSaidEnd => Ended /\ EngineSaidLast(StatusOf(Last(hist)))
    /\ handler.pc = "returned" =>
         /\ Answer = "stream" => EngineSaidEnd \/ handler.err # "none"
         /\ Answer = "404" => hist = <<>> \/ gone
         /\ Answer # "200"

\* Nothing is written to the response once the handler has returned it to the
\* HTTP server, although the follower still drains the channel after its
\* context is cancelled.
SilentAfterReturn == [][handler.pc = "returned" => out' = out /\ writer' = "none"]_vars

\* The stream of logs ends once the run has ended or is gone, or the client
\* has left: no goroutine waits for another for ever, however full the channel
\* is. A client that keeps its connection and never reads again holds the
\* request open: its writes have no deadline.
LogsEnd ==
    (Ended \/ gone \/ hist = <<>> \/ clientGone) ~>
        (handler.pc = "returned" \/ [](client = "stalled"))

=============================================================================
