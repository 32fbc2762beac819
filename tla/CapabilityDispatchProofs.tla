------------------------ MODULE CapabilityDispatchProofs ------------------------
(***************************************************************************)
(* Proofs about the dispatch of one action, for any number of attempts,    *)
(* tasks and broker restarts, and about what a capability adapter tells of *)
(* the call that carries it out, for every call.                           *)
(***************************************************************************)
EXTENDS CapabilityDispatch, AgentAdapters, SequenceTheorems, FiniteSetTheorems, TLAPS

(* What an attempt has made follows from where its request is. *)
RequestTells ==
    \A n \in Attempts :
        /\ request[n] = "none" <=> n > attempt
        /\ IF request[n] = "accepted" THEN \E t \in Tasks : made[n] = {t} ELSE made[n] = {}

(* An attempt that polls, polls a task; one that was never made does nothing. *)
WorkerTells ==
    \A n \in Attempts : /\ worker[n] = "polling" => request[n] = "accepted"
                        /\ worker[n] = "none" <=> n > attempt

(* A back-off is followed by another attempt, and only an action that was  *)
(* never started has none.                                                 *)
BackoffEnds ==
    /\ activity \in {"backoff", "scheduled"} => attempt < MaxAttempts
    /\ attempt = 0 => activity \in {"scheduled", "cancelled"}

(* The broker works only on tasks it knows, and a durable one forgets none. *)
BrokerKnows ==
    /\ \A t \in Tasks : open[t] => status[t] # "NONE"
    /\ Durable => \A n \in Attempts : \A t \in made[n] : status[t] # "NONE"

DispatchInv ==
    /\ DispatchTypeOK /\ RequestTells /\ WorkerTells /\ BackoffEnds /\ BrokerKnows
    /\ UnbackedMeansNoAgent

(* Settle ends the activity or changes nothing; a back-off leaves an attempt to make. *)
LEMMA SettleType ==
    ASSUME DispatchTypeOK, BackoffEnds, NEW n \in Attempts,
           NEW a \in {"error", "result", "unbacked"}, Settle(n, a)
    PROVE  /\ activity' \in {"scheduled", "running", "backoff"} \cup Ended
           /\ activity' \in {"backoff", "scheduled"} => attempt < MaxAttempts
           /\ attempt = 0 => activity' \in {"scheduled", "cancelled"}
           /\ activity' = "unbacked" /\ activity # "unbacked" => a = "unbacked" /\ n = attempt
           /\ activity' = "result" /\ activity # "result" => a = "result" /\ n = attempt
BY CapabilityDispatchAssumption DEF Settle, DispatchTypeOK, BackoffEnds, Ended, Attempts

(* The first attempt has been scheduled, and nothing else has happened. *)
LEMMA DispatchInitial == DispatchInit => DispatchInv
<1> SUFFICES ASSUME DispatchInit PROVE DispatchInv
    OBVIOUS
<1> USE CapabilityDispatchAssumption
<1>1. DispatchTypeOK
    BY DEF DispatchInit, DispatchTypeOK, Attempts, Broker!Init
<1>2. RequestTells /\ WorkerTells /\ BackoffEnds /\ UnbackedMeansNoAgent
    BY DEF DispatchInit, RequestTells, WorkerTells, BackoffEnds, UnbackedMeansNoAgent, Attempts
<1>3. BrokerKnows
    BY DEF DispatchInit, BrokerKnows, Broker!Init
<1> QED BY <1>1, <1>2, <1>3 DEF DispatchInv

(* A return of an attempt that is not the verdict "unbacked" for it keeps the invariant. *)
LEMMA ReturnKeeps ==
    ASSUME DispatchInv, NEW n \in Attempts, worker[n] # "none",
           NEW a \in {"error", "result", "unbacked"}, Return(n, a),
           a = "unbacked" => \/ request[n] = "refused"
                             \/ ~Durable /\ \E t \in made[n] : status[t] = "NONE"
    PROVE  DispatchInv'
<1> USE DEF DispatchInv, Return
<1>1. DispatchTypeOK' /\ BackoffEnds'
    BY SettleType DEF DispatchTypeOK, BackoffEnds
<1>2. RequestTells' /\ WorkerTells' /\ BrokerKnows'
    BY DEF RequestTells, WorkerTells, BrokerKnows, DispatchTypeOK
<1>3. UnbackedMeansNoAgent'
    BY SettleType DEF UnbackedMeansNoAgent
<1> QED BY <1>1, <1>2, <1>3

(* No step of Temporal, the workers, the broker or the registry breaks the invariant. *)
LEMMA DispatchStep == DispatchInv /\ [DispatchNext]_dispatchVars => DispatchInv'
<1> SUFFICES ASSUME DispatchInv, [DispatchNext]_dispatchVars PROVE DispatchInv'
    OBVIOUS
<1> USE CapabilityDispatchAssumption
<1>r. CASE Retry
    BY <1>r DEF Retry, DispatchInv, DispatchTypeOK, RequestTells, WorkerTells, BackoffEnds, BrokerKnows,
                UnbackedMeansNoAgent
<1>1. CASE StartAttempt
    <2>1. /\ attempt + 1 \in Attempts
          /\ request[attempt + 1] = "none" /\ made[attempt + 1] = {}
        BY <1>1 DEF StartAttempt, DispatchInv, BackoffEnds, DispatchTypeOK, RequestTells, Attempts
    <2>2. DispatchTypeOK'
        BY <1>1, <2>1 DEF StartAttempt, DispatchInv, DispatchTypeOK, Attempts
    <2>3. RequestTells'
        BY <1>1, <2>1 DEF StartAttempt, DispatchInv, DispatchTypeOK, RequestTells, Attempts
    <2>4. WorkerTells'
        BY <1>1, <2>1 DEF StartAttempt, DispatchInv, DispatchTypeOK, WorkerTells, Attempts
    <2>5. BackoffEnds' /\ BrokerKnows' /\ UnbackedMeansNoAgent'
        BY <1>1, <2>1 DEF StartAttempt, DispatchInv, DispatchTypeOK, BackoffEnds, BrokerKnows, UnbackedMeansNoAgent,
                          Attempts
    <2> QED BY <2>2, <2>3, <2>4, <2>5 DEF DispatchInv
<1>2. CASE Timeout \/ WorkflowCancel
    <2>1. activity = "running" => attempt \in Attempts
        BY DEF DispatchInv, DispatchTypeOK, BackoffEnds, Attempts
    <2>2. /\ activity' \in {"scheduled", "running", "backoff"} \cup Ended
          /\ activity' \in {"backoff", "scheduled"} => attempt < MaxAttempts
          /\ attempt = 0 => activity' \in {"scheduled", "cancelled"}
          /\ activity' # "unbacked"
        BY <1>2, <2>1, SettleType DEF Timeout, WorkflowCancel, DispatchInv, Ended
    <2>3. UNCHANGED <<status, open, backed, restarts, attempt, worker, request, made>>
        BY <1>2 DEF Timeout, WorkflowCancel
    <2> QED BY <2>2, <2>3 DEF DispatchInv, DispatchTypeOK, RequestTells, WorkerTells, BackoffEnds,
                            BrokerKnows, UnbackedMeansNoAgent
<1>3. ASSUME NEW n \in Attempts, DispatchReturns(n)
      PROVE  DispatchInv'
    BY <1>3 DEF DispatchReturns, DispatchInv, DispatchTypeOK, RequestTells, WorkerTells, BackoffEnds,
                BrokerKnows, UnbackedMeansNoAgent
<1>4. ASSUME NEW n \in Attempts, DispatchRefused(n) \/ DispatchFails(n) \/ PollFails(n)
      PROVE  DispatchInv'
    BY <1>4, ReturnKeeps DEF DispatchRefused, DispatchFails, PollFails, classify
<1>5. ASSUME NEW n \in Attempts, NEW t \in Tasks, NEW valid \in BOOLEAN, handleStatus(n, t, valid)
      PROVE  DispatchInv'
    BY <1>5, ReturnKeeps DEF handleStatus
<1>6. ASSUME NEW n \in Attempts, NEW t \in Tasks, PollNotFound(n, t)
      PROVE  DispatchInv'
    <2>1. ~Durable
        BY <1>6 DEF PollNotFound, DispatchInv, BrokerKnows
    <2> QED BY <1>6, <2>1, ReturnKeeps DEF PollNotFound, classify
<1>7. CASE WorkerCrash
    BY <1>7 DEF WorkerCrash, DispatchInv, DispatchTypeOK, RequestTells, WorkerTells, BackoffEnds,
                BrokerKnows, UnbackedMeansNoAgent
<1>8. ASSUME NEW n \in Attempts, NEW t \in Tasks, BrokerAccepts(n, t)
      PROVE  DispatchInv'
    <2> USE <1>8 DEF BrokerAccepts, Broker!Create
    <2>1. made' = [made EXCEPT ![n] = {t}]
        BY DEF DispatchInv, RequestTells, DispatchTypeOK
    <2>2. DispatchTypeOK'
        BY <2>1 DEF DispatchInv, DispatchTypeOK
    <2>3. RequestTells'
        BY <2>1 DEF DispatchInv, DispatchTypeOK, RequestTells
    <2>4. WorkerTells' /\ BackoffEnds'
        BY DEF DispatchInv, DispatchTypeOK, WorkerTells, BackoffEnds
    <2>5. BrokerKnows'
        BY <2>1 DEF DispatchInv, DispatchTypeOK, BrokerKnows
    <2>6. UnbackedMeansNoAgent'
        <3>1. activity = "unbacked" => attempt \in Attempts
            BY DEF DispatchInv, DispatchTypeOK, BackoffEnds, Attempts
        <3>2. made[n] = {}
            BY DEF DispatchInv, RequestTells
        <3> QED BY <2>1, <3>1, <3>2 DEF DispatchInv, DispatchTypeOK, UnbackedMeansNoAgent
    <2> QED BY <2>2, <2>3, <2>4, <2>5, <2>6 DEF DispatchInv
<1>9. ASSUME NEW n \in Attempts, BrokerRefuses(n)
      PROVE  DispatchInv'
    BY <1>9 DEF BrokerRefuses, DispatchInv, DispatchTypeOK, RequestTells, WorkerTells, BackoffEnds,
                BrokerKnows, UnbackedMeansNoAgent
<1>10. ASSUME NEW t \in Tasks, BrokerWorks(t)
       PROVE  DispatchInv'
    <2>1. /\ status' \in [Tasks -> {"NONE", "PENDING"} \cup Broker!Written]
          /\ open' \in [Tasks -> BOOLEAN]
          /\ \A u \in Tasks : /\ status'[u] = "NONE" <=> status[u] = "NONE"
                              /\ open'[u] => status'[u] # "NONE"
        BY <1>10, ZenonT(30) DEF BrokerWorks, Broker!Begin, Broker!Write, Broker!Drop, Broker!Written,
                     Broker!Terminal, DispatchInv, DispatchTypeOK, BrokerKnows
    <2>2. UNCHANGED <<backed, restarts, attempt, activity, worker, request, made>>
        BY <1>10 DEF BrokerWorks
    <2>3. \A m \in Attempts : made[m] \subseteq Tasks
        BY DEF DispatchInv, DispatchTypeOK
    <2>4. activity = "unbacked" => attempt \in Attempts
        BY DEF DispatchInv, DispatchTypeOK, BackoffEnds, Attempts
    <2> QED BY <2>1, <2>2, <2>3, <2>4
            DEF DispatchInv, DispatchTypeOK, RequestTells, WorkerTells, BackoffEnds,
                BrokerKnows, UnbackedMeansNoAgent
<1>11. CASE BrokerRestart
    <2>1. /\ status' \in [Tasks -> {"NONE", "PENDING"} \cup Broker!Written]
          /\ open' = [t \in Tasks |-> FALSE]
          /\ \A t \in Tasks : status'[t] = IF Durable THEN status[t] ELSE "NONE"
        BY <1>11 DEF BrokerRestart, Broker!Restart, DispatchInv, DispatchTypeOK
    <2>2. \A m \in Attempts : made[m] \subseteq Tasks
        BY DEF DispatchInv, DispatchTypeOK
    <2>3. activity = "unbacked" => attempt \in Attempts
        BY DEF DispatchInv, DispatchTypeOK, BackoffEnds, Attempts
    <2>4. DispatchTypeOK' /\ BrokerKnows'
        BY <1>11, <2>1, <2>2 DEF BrokerRestart, DispatchInv, DispatchTypeOK, BrokerKnows
    <2>5. RequestTells' /\ WorkerTells' /\ BackoffEnds'
        BY <1>11 DEF BrokerRestart, DispatchInv, DispatchTypeOK, RequestTells, WorkerTells, BackoffEnds
    <2>6. UnbackedMeansNoAgent'
        BY <1>11, <2>1, <2>2, <2>3
           DEF BrokerRestart, DispatchInv, DispatchTypeOK, UnbackedMeansNoAgent
    <2> QED BY <2>4, <2>5, <2>6 DEF DispatchInv
<1>12. CASE RegistryChange \/ UNCHANGED dispatchVars
    BY <1>12, ZenonT(30) DEF RegistryChange, dispatchVars, DispatchInv, DispatchTypeOK, RequestTells, WorkerTells,
                 BackoffEnds, BrokerKnows, UnbackedMeansNoAgent
<1> QED
    BY <1>r, <1>1, <1>2, <1>3, <1>4, <1>5, <1>6, <1>7, <1>8, <1>9, <1>10, <1>11, <1>12
       DEF DispatchNext, ActivityStep

(* Each attempt made at most one task: the attempts made bound the tasks made. *)
LEMMA InvBounds == DispatchInv => BoundedTasks
<1> SUFFICES ASSUME DispatchInv PROVE BoundedTasks
    OBVIOUS
<1> USE CapabilityDispatchAssumption
<1> DEFINE U == UNION {made[n] : n \in Attempts}
           by == [t \in U |-> CHOOSE n \in Attempts : t \in made[n]]
<1>1. attempt \in Nat /\ attempt <= MaxAttempts
    BY DEF DispatchInv, DispatchTypeOK, Attempts
<1>2. ASSUME NEW n \in Attempts
      PROVE  Cardinality(made[n]) <= 1 /\ (n > attempt => made[n] = {})
    <2>1. CASE made[n] = {}
        BY <2>1, FS_EmptySet
    <2>2. CASE request[n] = "accepted"
        <3>1. PICK t \in Tasks : made[n] = {t}
            BY <2>2 DEF DispatchInv, RequestTells
        <3>2. Cardinality({t}) = 1
            BY FS_Singleton
        <3> QED BY <2>2, <3>1, <3>2 DEF DispatchInv, RequestTells
    <2> QED BY <2>1, <2>2 DEF DispatchInv, RequestTells
<1>3. \A t \in U : by[t] \in Attempts /\ t \in made[by[t]]
    OBVIOUS
<1>4. by \in [U -> 1 .. attempt]
    BY <1>1, <1>2, <1>3 DEF Attempts
<1>5. \A t, u \in U : by[t] = by[u] => t = u
    <2>1. \A n \in Attempts : \A t, u \in made[n] : t = u
        BY DEF DispatchInv, RequestTells
    <2> QED BY <1>3, <2>1
<1>6. by \in Injection(U, 1 .. attempt)
    BY <1>4, <1>5 DEF Injection, IsInjective
<1>7. Cardinality(U) <= Cardinality(1 .. attempt) /\ Cardinality(1 .. attempt) = attempt
    BY <1>1, <1>6, FS_Injection, FS_Interval
<1> QED BY <1>2, <1>7 DEF BoundedTasks

(* The dispatch of an action does a bounded amount of work (BoundedTasks): every
   attempt of the activity makes at most one task, whatever calls are lost or late
   and however often the broker restarts. *)
THEOREM DispatchIsBounded == DispatchSpec => []BoundedTasks
BY DispatchInitial, DispatchStep, InvBounds, PTL DEF DispatchSpec

(* An action is given up without a retry only when the broker refused its current
   attempt for want of an agent, or has forgotten its task (UnbackedMeansNoAgent). *)
THEOREM DispatchGivesUpJustly == DispatchSpec => []UnbackedMeansNoAgent
<1>1. DispatchInv => UnbackedMeansNoAgent
    BY DEF DispatchInv
<1> QED BY DispatchInitial, DispatchStep, <1>1, PTL DEF DispatchSpec

(* The result of an action comes from a completed task of the attempt Temporal waits
   for (ResultOfCurrentTask), never from an earlier attempt that still runs. *)
THEOREM DispatchResult == DispatchSpec => ResultOfCurrentTask
<1>1. ASSUME DispatchInv, DispatchNext, activity' = "result", activity # "result"
      PROVE  \E t \in made[attempt] : status[t] = "COMPLETED"
    <2>1. ASSUME NEW n \in Attempts, ActivityStep(n)
          PROVE  \E t \in made[attempt] : status[t] = "COMPLETED"
        <3>1. ASSUME NEW a \in {"error", "unbacked"}, Return(n, a)
              PROVE  FALSE
            BY <1>1, <3>1, SettleType DEF Return, DispatchInv
        <3>2. ASSUME NEW t \in Tasks, NEW valid \in BOOLEAN, handleStatus(n, t, valid)
              PROVE  \E u \in made[attempt] : status[u] = "COMPLETED"
            <4>1. CASE status[t] = "COMPLETED"
                BY <1>1, <3>2, <4>1 DEF handleStatus, Return, Settle
            <4>2. CASE status[t] # "COMPLETED"
                BY <3>1, <3>2, <4>2 DEF handleStatus
            <4> QED BY <4>1, <4>2
        <3> QED BY <1>1, <2>1, <3>1, <3>2
                DEF ActivityStep, DispatchReturns, DispatchRefused, DispatchFails, PollNotFound,
                    PollFails, classify
    <2>2. ~Timeout
        <3>1. activity = "running" => attempt \in Attempts
            BY <1>1 DEF DispatchInv, DispatchTypeOK, BackoffEnds, Attempts
        <3> QED BY <1>1, <3>1, SettleType DEF Timeout, DispatchInv
    <2> QED BY <1>1, <2>1, <2>2
            DEF DispatchNext, Retry, StartAttempt, WorkflowCancel, WorkerCrash, BrokerAccepts, BrokerRefuses,
                BrokerWorks, BrokerRestart, RegistryChange
<1>2. DispatchInv /\ [DispatchNext]_dispatchVars =>
          [activity' = "result" /\ activity # "result" =>
             \E t \in made[attempt] : status[t] = "COMPLETED"]_dispatchVars
    BY <1>1
<1> QED BY DispatchInitial, DispatchStep, <1>2, PTL DEF DispatchSpec, ResultOfCurrentTask

---------------------------------------------------------------------------
(* The adapters *)

Codes == {"", "TIMEOUT", "UPSTREAM_ERROR", "INVALID_INPUT", "INTERNAL", "RESOURCE_EXHAUSTED", "NOT_FOUND"}
Event == [type : {"PROGRESS", "COMPLETED", "FAILED"}, code : Codes, text : {"plain", "wide", "split"}]

(* Where a handler waits for the answer to a request. *)
Waiting == {"select", "review", "reviewGet", "dispatch", "find", "status"}

AdaptersTypeOK ==
    /\ call \in Call
    /\ callCtx \in {"live", "deadline", "cancelled"}
    /\ sentEvents \in Seq(Event)
    /\ rpc \in {"open", "ok", "error", "other"}
    /\ up \in Answer \cup {Idle, Pending}
    /\ truth \in {"none", "done", "failed", "cut"}
    /\ prod \in {"none", "request", "reading", "sending", "sendingLast", "sendErr", "closed"}
    /\ text \in [read : Nat, relayed : Nat]

NoEnd(es) == \A i \in DOMAIN es : es[i].type \notin Terminal

(* The upstream is through, and all that was read was relayed; the producer *)
(* will read no more.                                                       *)
Carried == truth # "none" /\ text.relayed = text.read /\ prod \in {"none", "closed"}

(* One terminal event, the last, and a true one; or none. *)
Told ==
    /\ handler # "returned" => rpc = "open"
    /\ rpc # "ok" => NoEnd(sentEvents)
    /\ rpc = "ok" => /\ sentEvents # <<>> /\ sentEvents[Len(sentEvents)].type \in Terminal
                     /\ \A i \in 1 .. Len(sentEvents) - 1 : sentEvents[i].type \notin Terminal
                     /\ sentEvents[Len(sentEvents)].type = "COMPLETED" => Carried

(* What the handler may take for done where it is. *)
Done ==
    /\ handler \in {"cycle", "reviewWait", "reviewGet", "triggerWait", "find"} => truth = "done"
    /\ handler \in {"select", "body", "review", "dispatch"} /\ up.kind \in {"ok", "hit"} => truth = "done"
    /\ handler = "status" /\ up.kind = "hit" => truth = "done"
    /\ handler = "ended" /\ callCtx = "live" => truth # "none"
    /\ handler = "relay" /\ prod = "closed" /\ callCtx = "live" => truth # "none"
    /\ up = Pending => handler \in Waiting \cup {"returned"}

(* The chunks: the producer holds at most one that is not relayed, and drops *)
(* it only when the context is over.                                         *)
Relayed ==
    /\ prod # "none" => handler \in {"relay", "returned"}
    /\ prod \in {"none", "request", "reading"} => text.relayed = text.read
    /\ prod = "closed" /\ callCtx = "live" => text.relayed = text.read
    /\ prod \in {"sending", "sendingLast"} => text.read = text.relayed + 1

AdaptersInv == AdaptersTypeOK /\ Told /\ Done /\ Relayed

(* Only the adapters that stream have upstream failures they do not notice. *)
Streaming == {"relay", "converse", "generate", "bridge", "ended"}

Owned ==
    /\ handler \in {"relay", "converse"} \/ prod # "none" => call.adapter = "llm"
    /\ handler \in {"generate", "bridge", "ended"} => call.adapter = "adk"
    /\ truth = "failed" => call.adapter = "llm" /\ call.provider \in {"openai", "ollama"}
    /\ truth = "cut" => call.adapter \in {"llm", "adk"}

(* The verdict follows from what was told. *)
LEMMA AdaptersParts == AdaptersInv /\ Owned => VerdictIsTrue
<1> SUFFICES ASSUME AdaptersInv, Owned PROVE VerdictIsTrue
    OBVIOUS
<1>t. AdaptersTypeOK /\ Told
    BY DEF AdaptersInv
<1>d. DOMAIN sentEvents = 1..Len(sentEvents) /\ Len(sentEvents) \in Nat
    BY <1>t DEF AdaptersTypeOK
<1> DEFINE ends == {i \in DOMAIN sentEvents : sentEvents[i].type \in Terminal}
<1>1. CASE rpc # "ok"
    <2>1. ends = {}
        BY <1>1, <1>t DEF Told, NoEnd
    <2>2. Verdict # "COMPLETED"
        BY <1>1, <2>1 DEF Verdict, SinkResult, ExecutorVerdict
    <2> QED BY <1>1, <2>2 DEF VerdictIsTrue
<1>2. CASE rpc = "ok"
    <2>1. /\ sentEvents # <<>> /\ sentEvents[Len(sentEvents)].type \in Terminal
          /\ \A i \in 1 .. Len(sentEvents) - 1 : sentEvents[i].type \notin Terminal
          /\ sentEvents[Len(sentEvents)].type = "COMPLETED" => Carried
        BY <1>2, <1>t DEF Told
    <2>2. Len(sentEvents) > 0
        BY <1>t, <2>1 DEF AdaptersTypeOK
    <2>3. ends = {Len(sentEvents)}
        BY <1>d, <2>1, <2>2
    <2>4. /\ (CHOOSE i \in ends : \A j \in ends : i <= j) = Len(sentEvents)
          /\ (CHOOSE i \in ends : \A j \in ends : i >= j) = Len(sentEvents)
        BY <1>d, <2>3
    <2>5. Verdict = sentEvents[Len(sentEvents)].type
        BY <1>2, <2>3, <2>4 DEF Verdict, SinkResult, ExecutorVerdict
    <2>6. truth # "none" => truth = "done" \/ Unnoticed
        BY <1>t DEF AdaptersTypeOK, Owned, Unnoticed
    <2> QED BY <1>2, <2>1, <2>5, <2>6 DEF VerdictIsTrue, Carried
<1> QED BY <1>1, <1>2

(* The events are events. *)
LEMMA EventsTyped ==
    /\ progressEvent \in Event /\ progressEvent.type \notin Terminal
    /\ completedEvent \in Event /\ completedEvent.type = "COMPLETED"
    /\ \A c \in Codes : \A m \in {"plain", "wide"} :
         /\ failedEvent(c, Bounded(m)) \in Event /\ failedEvent(c, Bounded(m)).type = "FAILED"
         /\ failedEvent(c, m) \in Event /\ failedEvent(c, m).type = "FAILED"
BY DEF Event, Codes, progressEvent, completedEvent, failedEvent, Bounded, boundMessage, sanitise, Terminal

(* Events after those that were sent. *)
LEMMA AppendedAt ==
    ASSUME NEW s \in Seq(Event), NEW t \in Seq(Event)
    PROVE  /\ s \o t \in Seq(Event) /\ Len(s \o t) = Len(s) + Len(t) /\ Len(s) \in Nat /\ Len(t) \in Nat
           /\ DOMAIN (s \o t) = 1..Len(s \o t) /\ DOMAIN s = 1..Len(s) /\ DOMAIN t = 1..Len(t)
           /\ \A i \in 1..Len(s) : (s \o t)[i] = s[i]
           /\ \A i \in 1..Len(t) : (s \o t)[Len(s) + i] = t[i]
           /\ \A i \in 1..Len(s \o t) : Len(s) < i => i - Len(s) \in 1..Len(t) /\ (s \o t)[i] = t[i - Len(s)]
BY ConcatProperties

(* A step that sends progress and goes on, or ends the call with the error of Send. *)
LEMMA EmitTells ==
    ASSUME AdaptersInv, handler # "returned", NEW next, next # "returned", Emit(<<progressEvent>>, next)
    PROVE  /\ Told' /\ sentEvents' \in Seq(Event) /\ rpc' \in {"open", "error"}
           /\ callCtx' \in {"live", "deadline", "cancelled"}
           /\ \/ handler' = next /\ callCtx' = callCtx
              \/ handler' = "returned" /\ callCtx' # "live"
<1>t. AdaptersTypeOK /\ Told
    BY DEF AdaptersInv
<1>r. rpc = "open" /\ NoEnd(sentEvents)
    BY <1>t DEF Told
<1>1. CASE Delivers(<<progressEvent>>)
    <2> DEFINE es == <<progressEvent>>
    <2>1. es \in Seq(Event) /\ Len(es) = 1 /\ es[1].type \notin Terminal
        BY EventsTyped
    <2>2. sentEvents' = sentEvents \o es /\ handler' = next /\ rpc' = rpc /\ callCtx' = callCtx
        BY <1>1 DEF Emit
    <2> HIDE DEF es
    <2>3. sentEvents' \in Seq(Event) /\ NoEnd(sentEvents')
        <3>1. sentEvents \in Seq(Event)
            BY <1>t DEF AdaptersTypeOK
        <3>2. /\ sentEvents' \in Seq(Event) /\ DOMAIN sentEvents' = 1..Len(sentEvents')
              /\ Len(sentEvents') = Len(sentEvents) + 1 /\ Len(sentEvents) \in Nat
              /\ DOMAIN sentEvents = 1..Len(sentEvents)
            BY <2>1, <2>2, <3>1, AppendedAt
        <3>3. \A i \in 1..Len(sentEvents) : sentEvents'[i] = sentEvents[i]
            BY <2>1, <2>2, <3>1, AppendedAt
        <3>4. \A i \in 1..Len(es) : sentEvents'[Len(sentEvents) + i] = es[i]
            BY <2>1, <2>2, <3>1, AppendedAt
        <3>5. sentEvents'[Len(sentEvents) + 1] = es[1]
            BY <2>1, <3>4
        <3> QED BY <1>r, <2>1, <3>2, <3>3, <3>5 DEF NoEnd
    <2> QED BY <1>t, <1>r, <2>2, <2>3 DEF Told, AdaptersTypeOK
<1>2. CASE ~Delivers(<<progressEvent>>)
    <2>1. sentEvents' = sentEvents /\ handler' = "returned" /\ rpc' = "error"
          /\ callCtx' = IF callCtx = "live" THEN "cancelled" ELSE callCtx
        BY <1>2 DEF Emit, Returned
    <2> QED BY <1>t, <1>r, <2>1 DEF Told, AdaptersTypeOK
<1> QED BY <1>1, <1>2

(* The handler returns with what it told: the end of a call. *)
LEMMA CallReturnKeeps ==
    ASSUME AdaptersInv, handler # "returned", handler' = "returned", Told', call' \in Call,
           callCtx' \in {"deadline", "cancelled"}, sentEvents' \in Seq(Event),
           rpc' \in {"open", "ok", "error", "other"}, up' \in Answer \cup {Idle, Pending},
           UNCHANGED <<truth, text>>, prod' = prod \/ prod' = "closed"
    PROVE  AdaptersInv'
<1>t. AdaptersTypeOK /\ Done /\ Relayed
    BY DEF AdaptersInv
<1>1. AdaptersTypeOK'
    BY <1>t DEF AdaptersTypeOK
<1>2. Done'
    BY DEF Done
<1>3. Relayed'
    BY <1>t DEF Relayed
<1> QED BY <1>1, <1>2, <1>3 DEF AdaptersInv

LEMMA FinishKeeps ==
    ASSUME AdaptersInv, handler # "returned", NEW es \in Seq(Event), es # <<>>,
           es[Len(es)].type \in Terminal, \A i \in 1..(Len(es) - 1) : es[i].type \notin Terminal,
           es[Len(es)].type = "COMPLETED" => Carried',
           Finish(es), UNCHANGED <<call, truth, text>>, prod' = prod \/ prod' = "closed",
           up' \in Answer \cup {Idle, Pending}
    PROVE  AdaptersInv'
<1>t. AdaptersTypeOK /\ Told
    BY DEF AdaptersInv
<1>r. rpc = "open" /\ NoEnd(sentEvents)
    BY <1>t DEF Told
<1>1. handler' = "returned" /\ callCtx' \in {"deadline", "cancelled"}
    BY <1>t DEF Finish, Returned, AdaptersTypeOK
<1>2. Told' /\ sentEvents' \in Seq(Event) /\ rpc' \in {"ok", "error"}
    <2>1. CASE Delivers(es)
        <3>1. sentEvents' = sentEvents \o es /\ rpc' = "ok"
            BY <2>1 DEF Finish, Returned
        <3>2. Len(es) \in Nat \ {0}
            OBVIOUS
        <3> DEFINE n == Len(sentEvents)
                   m == Len(es)
        <3>3. /\ sentEvents' \in Seq(Event) /\ Len(sentEvents') = n + m /\ n \in Nat
              /\ DOMAIN sentEvents = 1..n
              /\ \A i \in 1..n : sentEvents'[i] = sentEvents[i]
              /\ \A i \in 1..m : sentEvents'[n + i] = es[i]
              /\ \A i \in 1..(n + m) : n < i => i - n \in 1..m /\ sentEvents'[i] = es[i - n]
            BY <1>t, <3>1, AppendedAt DEF AdaptersTypeOK
        <3>4. sentEvents' # <<>> /\ sentEvents'[Len(sentEvents')] = es[m]
            BY <3>2, <3>3
        <3>5. \A i \in 1..(Len(sentEvents') - 1) : sentEvents'[i].type \notin Terminal
            <4> TAKE i \in 1..(Len(sentEvents') - 1)
            <4>1. CASE i <= n
                BY <1>r, <3>3, <4>1 DEF NoEnd
            <4>2. CASE n < i
                <5>1. i \in 1..(n + m) /\ i - n \in 1..(m - 1)
                    BY <3>2, <3>3, <4>2
                <5> QED BY <3>3, <4>2, <5>1
            <4> QED BY <3>2, <3>3, <4>1, <4>2
        <3> QED BY <1>1, <3>1, <3>3, <3>4, <3>5 DEF Told
    <2>2. CASE ~Delivers(es)
        <3>1. sentEvents' = sentEvents /\ rpc' = "error"
            BY <2>2 DEF Finish, Returned
        <3> QED BY <1>1, <1>t, <1>r, <3>1 DEF Told, AdaptersTypeOK
    <2> QED BY <2>1, <2>2
<1> QED BY <1>1, <1>2, <1>t, CallReturnKeeps DEF AdaptersTypeOK

LEMMA FailedKeeps ==
    ASSUME AdaptersInv, handler # "returned", NEW c \in Codes, NEW m \in {"plain", "wide"}, sendFailed(c, m),
           UNCHANGED <<call, truth, prod, text>>, up' \in Answer \cup {Idle, Pending}
    PROVE  AdaptersInv'
<1> DEFINE e == failedEvent(c, Bounded(m))
           es == <<e>>
<1>1. e \in Event /\ e.type = "FAILED"
    BY EventsTyped
<1>2. Finish(es)
    BY DEF sendFailed
<1> HIDE DEF e
<1>3. es \in Seq(Event) /\ es # <<>> /\ Len(es) = 1 /\ es[Len(es)].type = "FAILED"
    BY <1>1
<1> HIDE DEF es
<1> QED BY <1>2, <1>3, FinishKeeps DEF Terminal

LEMMA CompletedKeeps ==
    ASSUME AdaptersInv, handler # "returned", sendCompleted, truth = "done", prod = "none",
           UNCHANGED <<call, truth, prod, text>>, up' \in Answer \cup {Idle, Pending}
    PROVE  AdaptersInv'
<1> DEFINE es == <<completedEvent>>
<1>1. Finish(es)
    BY DEF sendCompleted
<1>2. es \in Seq(Event) /\ es # <<>> /\ Len(es) = 1 /\ es[Len(es)].type \in Terminal
    BY EventsTyped DEF Terminal
<1>3. Carried'
    BY DEF AdaptersInv, Relayed, Carried
<1> HIDE DEF es
<1> QED BY <1>1, <1>2, <1>3, FinishKeeps

(* The same with the progress event that an llm call owes its caller. *)
LEMMA ProgressFirst ==
    ASSUME AdaptersInv, handler # "returned", NEW e \in Event, e.type \in Terminal,
           e.type = "COMPLETED" => Carried', Finish(ensureProgress(e)),
           UNCHANGED <<call, truth, text>>, prod' = prod \/ prod' = "closed", up' = up
    PROVE  AdaptersInv'
<1> DEFINE es == ensureProgress(e)
<1>1. /\ es \in Seq(Event) /\ es # <<>> /\ es[Len(es)] = e
      /\ \A i \in 1..(Len(es) - 1) : es[i].type \notin Terminal
    <2>1. CASE Emitted
        <3>1. es = <<e>>
            BY <2>1 DEF ensureProgress
        <3> QED BY <3>1
    <2>2. CASE ~Emitted
        <3>1. es = <<progressEvent, e>>
            BY <2>2 DEF ensureProgress
        <3>2. progressEvent \in Event /\ progressEvent.type \notin Terminal
            BY EventsTyped
        <3>3. Len(es) = 2 /\ es[1] = progressEvent /\ es[2] = e
            BY <3>1
        <3>4. es \in Seq(Event) /\ es # <<>>
            BY <3>1, <3>2
        <3> HIDE DEF es
        <3> QED BY <3>2, <3>3, <3>4
    <2> QED BY <2>1, <2>2
<1>2. up' \in Answer \cup {Idle, Pending}
    BY DEF AdaptersInv, AdaptersTypeOK
<1> HIDE DEF es
<1>3. Finish(es)
    BY DEF es
<1> QED BY <1>1, <1>2, <1>3, FinishKeeps

(* A step that sends nothing. *)
LEMMA MoveTells ==
    ASSUME AdaptersInv, handler # "returned", handler' # "returned", UNCHANGED <<sentEvents, rpc>>
    PROVE  Told'
BY DEF AdaptersInv, Told, NoEnd

(* A request to the upstream is sent, or its answer let go, at a point where *)
(* nothing else is taken for done.                                           *)
LEMMA MoveKeeps ==
    ASSUME AdaptersInv, handler # "returned", handler' # "returned", prod = "none",
           UNCHANGED <<callCtx, sentEvents, rpc, truth, prod, text>>, call' \in Call,
           up' \in Answer \cup {Idle, Pending}, Done'
    PROVE  AdaptersInv'
<1>t. AdaptersTypeOK /\ Relayed
    BY DEF AdaptersInv
<1>1. Told'
    BY MoveTells
<1>2. AdaptersTypeOK'
    BY <1>t DEF AdaptersTypeOK
<1>3. Relayed'
    BY <1>t DEF Relayed
<1> QED BY <1>1, <1>2, <1>3 DEF AdaptersInv

(* Progress is sent, likewise. *)
LEMMA ProgressKeeps ==
    ASSUME AdaptersInv, handler # "returned", prod = "none", NEW next, next # "returned",
           Emit(<<progressEvent>>, next), UNCHANGED <<call, truth, prod>>,
           text' \in [read : Nat, relayed : Nat], text'.relayed = text'.read,
           up' \in Answer \cup {Idle, Pending}, handler' = next => Done'
    PROVE  AdaptersInv'
<1>t. AdaptersTypeOK
    BY DEF AdaptersInv
<1>1. /\ Told' /\ sentEvents' \in Seq(Event) /\ rpc' \in {"open", "error"}
      /\ callCtx' \in {"live", "deadline", "cancelled"} /\ handler' \in {next, "returned"}
    BY EmitTells
<1>2. AdaptersTypeOK'
    BY <1>t, <1>1 DEF AdaptersTypeOK
<1>3. Done'
    BY <1>1 DEF Done
<1>4. Relayed'
    BY DEF Relayed
<1> QED BY <1>1, <1>2, <1>3, <1>4 DEF AdaptersInv

LEMMA UpTyped == Idle.kind = "idle" /\ Pending.kind = "pending" /\ Cancelled \in Answer /\ Cancelled.kind = "net"
BY DEF Idle, Pending, Cancelled, Answer

(* The codes of the errors. *)
LEMMA CodesTyped ==
    /\ {"TIMEOUT", "UPSTREAM_ERROR", "INVALID_INPUT", "INTERNAL"} \subseteq Codes
    /\ \A k : githubErrCode(k) \in Codes /\ ciErrCode(k) \in Codes /\ requestFailure(k) \in Codes
    /\ classifyError \in Codes
BY DEF Codes, githubErrCode, ciErrCode, requestFailure, classifyError

(* The text of an answer. *)
LEMMA AnswerText == ASSUME AdaptersTypeOK, HasAnswered PROVE up \in Answer /\ up.text \in {"plain", "wide"}
BY DEF AdaptersTypeOK, HasAnswered, Answer

(* Only the relay has a producer. *)
LEMMA NoProducer == ASSUME AdaptersInv, handler \notin {"relay", "returned"} PROVE prod = "none"
BY DEF AdaptersInv, Relayed

---------------------------------------------------------------------------
(* The steps of the adapters. *)

(* The first step of a handler. *)
LEMMA ExecuteKeeps == AdaptersInv /\ ExecuteCapability => AdaptersInv'
<1> SUFFICES ASSUME AdaptersInv, ExecuteCapability PROVE AdaptersInv'
    OBVIOUS
<1>t. AdaptersTypeOK /\ Done /\ Relayed /\ Told
    BY DEF AdaptersInv
<1>h. handler = "start" /\ prod = "none"
    BY NoProducer DEF ExecuteCapability
<1>1. CASE Refuse
    <2>1. /\ handler' = "returned" /\ rpc' = "error" /\ callCtx' \in {"deadline", "cancelled"}
          /\ UNCHANGED <<call, peer, sentEvents, up, loops, truth, prod, text>>
        BY <1>1, <1>t DEF Refuse, Returned, AdaptersTypeOK
    <2>2. Told'
        BY <1>h, <1>t, <2>1 DEF Told, NoEnd
    <2> QED BY <1>h, <1>t, <2>1, <2>2, CallReturnKeeps DEF AdaptersTypeOK
<1>2. ASSUME NEW m \in {"plain", "wide"}, NEW c \in Codes, sendFailed(c, m),
             UNCHANGED <<call, peer, up, loops, truth, prod, text>>
      PROVE  AdaptersInv'
    BY <1>2, <1>h, <1>t, FailedKeeps DEF AdaptersTypeOK
<1>3. ASSUME NEW m \in {"plain", "wide"}, FailedEvent(m) PROVE AdaptersInv'
    BY <1>2, <1>3, CodesTyped DEF FailedEvent
<1>4. ASSUME NEW next \in {"select", "review", "dispatch"}, handler' = next, Requesting,
             UNCHANGED <<callCtx, sentEvents, rpc, loops>>
      PROVE  AdaptersInv'
    <2>1. up' = Pending /\ UNCHANGED <<call, peer, truth, prod, text>>
        BY <1>4 DEF Requesting
    <2>2. Done'
        BY <1>4, <2>1, UpTyped DEF Done, Waiting
    <2> QED BY <1>4, <1>h, <1>t, <2>1, <2>2, MoveKeeps DEF AdaptersTypeOK
<1>5. ASSUME NEW next \in {"statusWait", "converse", "generate"}, handler' = next,
             UNCHANGED <<call, callCtx, peer, sentEvents, rpc, up, loops, truth, prod, text>>
      PROVE  AdaptersInv'
    <2>1. up # Pending
        BY <1>h, <1>t DEF Done, Waiting
    <2>2. Done'
        BY <1>5, <2>1 DEF Done
    <2> QED BY <1>5, <1>h, <1>t, <2>2, MoveKeeps DEF AdaptersTypeOK
<1>6. ASSUME NEW ms \in SUBSET {"plain", "wide"}, InvalidInput(ms) PROVE AdaptersInv'
    BY <1>2, <1>6, CodesTyped DEF InvalidInput
<1>7. ASSUME NEW next \in {"select", "review", "dispatch"}, SendRequest(next) PROVE AdaptersInv'
    BY <1>4, <1>7 DEF SendRequest
<1>8. CASE HttpExecute
    BY <1>2, <1>4, <1>8, CodesTyped DEF HttpExecute
<1>9. CASE GitExecute
    <2>1. CASE openPR \/ getDiff \/ requestReview
        BY <1>6, <1>7, <2>1 DEF openPR, getDiff, requestReview
    <2>2. ASSUME NEW c \in {"INTERNAL", "INVALID_INPUT"}, sendFailed(c, "plain"),
                 UNCHANGED <<call, peer, up, loops, truth, prod, text>>
          PROVE  AdaptersInv'
        BY <1>2, <2>2, CodesTyped
    <2> QED BY <1>9, <2>1, <2>2 DEF GitExecute
<1>10. CASE CiExecute
    <2>1. CASE triggerWorkflow
        BY <1>6, <1>7, <2>1 DEF triggerWorkflow
    <2>2. CASE getRunStatus
        BY <1>5, <1>6, <2>2 DEF getRunStatus
    <2>3. ASSUME NEW c \in {"INTERNAL", "INVALID_INPUT"}, sendFailed(c, "plain"),
                 UNCHANGED <<call, peer, up, loops, truth, prod, text>>
          PROVE  AdaptersInv'
        BY <1>2, <2>3, CodesTyped
    <2> QED BY <1>10, <2>1, <2>2, <2>3 DEF CiExecute
<1>11. CASE LlmExecute
    <2>1. CASE sendFailed("INVALID_INPUT", "plain") /\ UNCHANGED <<call, peer, up, loops, truth, prod, text>>
        BY <1>2, <2>1, CodesTyped
    <2>2. CASE terminalForError /\ UNCHANGED <<call, peer, up, loops, truth, prod, text>>
        <3>1. PICK e \in Event : e.type = "FAILED" /\ Finish(ensureProgress(e))
            BY <2>2, EventsTyped, CodesTyped DEF terminalForError, terminalTimeout, boundMessage
        <3> QED BY <1>h, <2>2, <3>1, ProgressFirst DEF Terminal
    <2>3. CASE /\ handler' = "relay" /\ prod' = "request"
               /\ UNCHANGED <<call, callCtx, peer, sentEvents, rpc, up, loops, truth, text>>
        <3>1. Told'
            BY <1>h, <2>3, MoveTells
        <3>2. AdaptersTypeOK' /\ Relayed'
            BY <1>h, <1>t, <2>3 DEF AdaptersTypeOK, Relayed
        <3>3. Done'
            BY <1>h, <1>t, <2>3 DEF Done, Waiting
        <3> QED BY <3>1, <3>2, <3>3 DEF AdaptersInv
    <2> QED BY <1>5, <1>11, <2>1, <2>2, <2>3 DEF LlmExecute
<1>12. CASE AdkExecute
    BY <1>2, <1>5, <1>12, CodesTyped DEF AdkExecute
<1>13. CASE Checked
    BY <1>1, <1>3, <1>13 DEF Checked
<1> QED BY <1>1, <1>3, <1>8, <1>9, <1>10, <1>11, <1>12, <1>13
        DEF ExecuteCapability, ExecuteHttp, ExecuteGit, ExecuteCi, ExecuteLlm, ExecuteAdk

(* The answer of the upstream. *)
LEMMA UpstreamKeeps == AdaptersInv /\ (UpstreamAnswers \/ UpstreamCancelled) => AdaptersInv'
<1> SUFFICES ASSUME AdaptersInv, UpstreamAnswers \/ UpstreamCancelled PROVE AdaptersInv'
    OBVIOUS
<1>t. AdaptersTypeOK /\ Done /\ Relayed /\ Told
    BY DEF AdaptersInv
<1>u. up = Pending /\ Pending \notin Answer
    BY DEF UpstreamAnswers, UpstreamCancelled, Pending, Answer
<1>1. CASE UpstreamAnswers
    <2>1. PICK a \in Answer :
             /\ (a.kind = "hit") => (handler \in {"reviewGet", "find", "status"})
             /\ up' = a
             /\ truth' = IF \/ a.kind = "ok" /\ handler \in {"select", "review", "dispatch"}
                            \/ a.kind = "hit" /\ handler = "status"
                         THEN "done" ELSE truth
        BY <1>1 DEF UpstreamAnswers
    <2>2. UNCHANGED <<call, handler, callCtx, peer, sentEvents, rpc, loops, prod, text>> /\ handler # "returned"
        BY <1>1 DEF UpstreamAnswers
    <2>3. handler \in Waiting
        BY <1>t, <1>u, <2>2 DEF Done
    <2>4. truth' \in {"none", "done", "failed", "cut"} /\ (truth = "done" => truth' = "done")
        BY <1>t, <2>1 DEF AdaptersTypeOK
    <2>5. AdaptersTypeOK'
        BY <1>t, <2>1, <2>2, <2>4 DEF AdaptersTypeOK
    <2>6. Done'
        BY <1>t, <1>u, <2>1, <2>2, <2>3, <2>4 DEF Done, Waiting
    <2>7. Told'
        BY <2>2, MoveTells
    <2>8. Relayed'
        BY <1>t, <2>2 DEF Relayed
    <2> QED BY <2>5, <2>6, <2>7, <2>8 DEF AdaptersInv
<1>2. CASE UpstreamCancelled
    <2>1. UNCHANGED <<call, handler, callCtx, peer, sentEvents, rpc, loops, truth, prod, text>> /\ up' = Cancelled
        BY <1>2 DEF UpstreamCancelled
    <2>2. AdaptersTypeOK'
        BY <1>t, <2>1, UpTyped DEF AdaptersTypeOK
    <2>3. up' # Pending /\ up'.kind = "net"
        BY <1>u, <2>1, UpTyped
    <2>4. Done'
        BY <1>t, <2>1, <2>3 DEF Done
    <2>5. Told'
        BY <1>t, <2>1 DEF Told, NoEnd, Carried
    <2>6. Relayed'
        BY <1>t, <2>1 DEF Relayed
    <2> QED BY <2>2, <2>4, <2>5, <2>6 DEF AdaptersInv
<1> QED BY <1>1, <1>2

(* The context ends, and the caller goes. *)
LEMMA ContextKeeps == AdaptersInv /\ (Deadline \/ Disconnect) => AdaptersInv'
<1> SUFFICES ASSUME AdaptersInv, Deadline \/ Disconnect PROVE AdaptersInv'
    OBVIOUS
<1>t. AdaptersTypeOK /\ Done /\ Relayed /\ Told
    BY DEF AdaptersInv
<1>1. /\ UNCHANGED <<call, handler, sentEvents, rpc, up, loops, truth, prod, text>> /\ handler # "returned"
      /\ callCtx' \in {"deadline", "cancelled"}
    BY <1>t DEF Deadline, Disconnect, AdaptersTypeOK
<1>2. AdaptersTypeOK'
    BY <1>t, <1>1 DEF AdaptersTypeOK
<1>3. Done' /\ Relayed'
    BY <1>t, <1>1 DEF Done, Relayed
<1>4. Told'
    BY <1>1, MoveTells
<1> QED BY <1>2, <1>3, <1>4 DEF AdaptersInv

(* A line of an MCP client. *)
LEMMA LineKeeps == AdaptersInv /\ dispatch => AdaptersInv'
<1> SUFFICES ASSUME AdaptersInv, dispatch PROVE AdaptersInv'
    OBVIOUS
<1>t. AdaptersTypeOK /\ Done /\ Relayed /\ Told
    BY DEF AdaptersInv
<1>h. handler = "line" /\ prod = "none" /\ UNCHANGED <<peer, sentEvents, up, loops, truth, prod, text>>
    BY NoProducer DEF dispatch
<1>1. ASSUME NEW how \in {"error", "other"}, Returned(how), call' = call PROVE AdaptersInv'
    <2>1. handler' = "returned" /\ rpc' = how /\ callCtx' \in {"deadline", "cancelled"}
        BY <1>1, <1>t DEF Returned, AdaptersTypeOK
    <2>2. Told'
        BY <1>h, <1>t, <2>1 DEF Told, NoEnd
    <2> QED BY <1>1, <1>h, <1>t, <2>1, <2>2, CallReturnKeeps DEF AdaptersTypeOK
<1>2. CASE /\ handler' = "start" /\ UNCHANGED <<rpc, callCtx>>
           /\ call' = [call EXCEPT !.task = TRUE, !.payload = IF @ = "none" THEN "incomplete" ELSE @]
    <2>1. call' \in Call
        BY <1>2, <1>t DEF AdaptersTypeOK, Call
    <2>2. Done'
        BY <1>2, <1>h, <1>t DEF Done, Waiting
    <2> QED BY <1>2, <1>h, <1>t, <2>1, <2>2, MoveKeeps DEF AdaptersTypeOK
<1> QED BY <1>1, <1>2 DEF dispatch, handleToolsCall

(* The handlers that send requests. *)
LEMMA HttpKeeps == AdaptersInv /\ (HttpHandlerStep \/ SelectTick) => AdaptersInv'
<1> SUFFICES ASSUME AdaptersInv, HttpHandlerStep \/ SelectTick PROVE AdaptersInv'
    OBVIOUS
<1>t. AdaptersTypeOK /\ Done /\ Relayed /\ Told
    BY DEF AdaptersInv
<1>h. handler \notin {"relay", "returned"} /\ prod = "none" /\ UNCHANGED <<call, peer, truth, prod, text>>
    <2>1. handler \notin {"relay", "returned"} /\ UNCHANGED <<call, peer, truth, prod, text>>
        BY DEF HttpHandlerStep, SelectTick, HttpBody, ReviewRequested, ReviewCycle, ReviewWait, ReviewGot,
               findNewRun, pollLoop, TriggerDispatched, TriggerWait, StatusWait, SelectResult, SelectDone,
               Requesting
    <2> QED BY <2>1, NoProducer
<1>c. text' \in [read : Nat, relayed : Nat] /\ text'.relayed = text'.read /\ call' \in Call
    BY <1>h, <1>t DEF Relayed, AdaptersTypeOK
<1>i. up \in Answer \cup {Idle, Pending} /\ Idle \in Answer \cup {Idle, Pending} /\ Idle # Pending
    BY <1>t, UpTyped DEF AdaptersTypeOK
(* A failure, and a success of what has been done. *)
<1>1. ASSUME NEW c \in Codes, NEW m \in {"plain", "wide"}, sendFailed(c, m), up' \in {up, Idle}
      PROVE  AdaptersInv'
    BY <1>1, <1>h, <1>i, FailedKeeps
<1>2. ASSUME sendCompleted, truth = "done", up' \in {up, Idle} PROVE AdaptersInv'
    BY <1>2, <1>h, <1>i, CompletedKeeps
(* The next request, and the way back to the loop. *)
<1>3. ASSUME NEW next \in {"reviewGet", "find", "status"}, handler' = next, Requesting,
             next \in {"reviewGet", "find"} => truth = "done", UNCHANGED <<callCtx, sentEvents, rpc>>
      PROVE  AdaptersInv'
    <2>1. up' = Pending
        BY <1>3 DEF Requesting
    <2>2. Done'
        BY <1>3, <1>h, <2>1, UpTyped DEF Done, Waiting
    <2> QED BY <1>3, <1>h, <1>c, <1>i, <2>1, <2>2, MoveKeeps
<1>4. ASSUME NEW next \in {"cycle", "triggerWait"}, handler' = next, up' = Idle, truth = "done",
             UNCHANGED <<callCtx, sentEvents, rpc>>
      PROVE  AdaptersInv'
    <2>1. Done'
        BY <1>4, <1>h, <1>i DEF Done
    <2> QED BY <1>4, <1>h, <1>c, <1>i, <2>1, MoveKeeps
(* Progress in a loop. *)
<1>5. ASSUME NEW next \in {"select", "reviewWait", "statusWait"}, Emit(<<progressEvent>>, next),
             handler' = next => Done', up' \in {up, Idle}
      PROVE  AdaptersInv'
    BY <1>5, <1>h, <1>c, <1>i, ProgressKeeps
<1>6. CASE HttpBody
    <2>1. up' = up /\ handler = "body" /\ (sendFailed("UPSTREAM_ERROR", "plain") \/ (Success /\ sendCompleted))
        BY <1>6 DEF HttpBody
    <2>2. Success => truth = "done"
        BY <1>t, <2>1 DEF Done, Success
    <2> QED BY <1>1, <1>2, <2>1, <2>2, CodesTyped
<1>7. CASE ReviewRequested \/ TriggerDispatched
    <2>1. /\ HasAnswered /\ up' = Idle /\ handler \in {"review", "dispatch"}
          /\ \/ ~Success /\ \E c \in Codes : sendFailed(c, up.text)
             \/ Success /\ handler' \in {"cycle", "triggerWait"} /\ UNCHANGED <<callCtx, sentEvents, rpc>>
        BY <1>7, CodesTyped DEF ReviewRequested, TriggerDispatched
    <2>2. Success => truth = "done"
        BY <1>t, <2>1 DEF Done, Success
    <2> QED BY <1>1, <1>4, <1>t, <2>1, <2>2, AnswerText
<1>8. CASE ReviewCycle
    <2>1. up' = up /\ truth = "done" /\ handler = "cycle"
          /\ (Emit(<<progressEvent>>, "reviewWait") \/ sendCompleted)
        BY <1>8, <1>t DEF ReviewCycle, Done
    <2>2. up # Pending
        BY <1>t, <2>1 DEF Done, Waiting
    <2>3. handler' = "reviewWait" => Done'
        BY <1>h, <2>1, <2>2 DEF Done
    <2> QED BY <1>2, <1>5, <2>1, <2>3
<1>9. CASE ReviewWait
    <2>1. truth = "done"
        BY <1>9, <1>t DEF ReviewWait, Done
    <2>2. \/ sendFailed("TIMEOUT", "plain") /\ up' = up
          \/ handler' = "reviewGet" /\ Requesting /\ UNCHANGED <<callCtx, sentEvents, rpc>>
        BY <1>9 DEF ReviewWait
    <2> QED BY <1>1, <1>3, <2>1, <2>2, CodesTyped
<1>10. CASE ReviewGot \/ findNewRun
    <2>1. /\ HasAnswered /\ up' = Idle /\ handler \in {"reviewGet", "find"}
          /\ \/ \E c \in Codes : sendFailed(c, up.text)
             \/ sendCompleted
             \/ handler' \in {"cycle", "triggerWait"} /\ UNCHANGED <<callCtx, sentEvents, rpc>>
        BY <1>10, CodesTyped DEF ReviewGot, findNewRun
    <2>2. truth = "done"
        BY <1>t, <2>1 DEF Done
    <2> QED BY <1>1, <1>2, <1>4, <1>t, <2>1, <2>2, AnswerText
<1>11. CASE pollLoop
    <2>1. /\ HasAnswered /\ up' = Idle /\ handler = "status"
          /\ \/ \E c \in Codes : \E m \in {"plain", up.text} : sendFailed(c, m)
             \/ up.kind = "hit" /\ sendCompleted
             \/ Emit(<<progressEvent>>, "statusWait")
        BY <1>11, CodesTyped DEF pollLoop
    <2>2. up.kind = "hit" => truth = "done"
        BY <1>t, <2>1 DEF Done
    <2>3. handler' = "statusWait" => Done'
        BY <1>i, <2>1 DEF Done
    <2> QED BY <1>1, <1>2, <1>5, <1>t, <2>1, <2>2, <2>3, AnswerText
<1>12. CASE TriggerWait
    <2>1. truth = "done"
        BY <1>12, <1>t DEF TriggerWait, Done
    <2>2. \/ sendFailed("TIMEOUT", "plain") /\ up' = up
          \/ handler' = "find" /\ Requesting /\ UNCHANGED <<callCtx, sentEvents, rpc>>
        BY <1>12 DEF TriggerWait
    <2> QED BY <1>1, <1>3, <2>1, <2>2, CodesTyped
<1>13. CASE StatusWait
    <2>1. \/ sendFailed("TIMEOUT", "plain") /\ up' = up
          \/ handler' = "status" /\ Requesting /\ UNCHANGED <<callCtx, sentEvents, rpc>>
        BY <1>13 DEF StatusWait
    <2> QED BY <1>1, <1>3, <2>1, CodesTyped
<1>14. CASE SelectTick
    <2>1. handler = "select" /\ up' = up /\ Emit(<<progressEvent>>, "select")
        BY <1>14 DEF SelectTick
    <2>2. handler' = "select" => Done'
        BY <1>h, <1>t, <2>1 DEF Done
    <2> QED BY <1>5, <2>1, <2>2
<1>15. CASE SelectDone
    <2>1. sendFailed("TIMEOUT", "plain") /\ up' = up
        BY <1>15 DEF SelectDone
    <2> QED BY <1>1, <2>1, CodesTyped
<1>16. CASE SelectResult
    <2>1. HasAnswered /\ up' = up /\ handler = "select" /\ (HttpResult \/ GitResult)
        BY <1>16 DEF SelectResult
    <2>2. up.text \in {"plain", "wide"} /\ up # Pending
        BY <1>t, <2>1, AnswerText DEF HasAnswered
    <2>3. Success => truth = "done"
        BY <1>t, <2>1 DEF Done, Success
    <2>4. CASE GitResult
        BY <1>1, <1>2, <2>1, <2>2, <2>3, <2>4, CodesTyped DEF GitResult
    <2>5. CASE HttpResult
        <3>1. CASE \E c \in Codes : sendFailed(c, up.text)
            BY <1>1, <2>1, <2>2, <3>1
        <3>2. CASE handler' = "body" /\ UNCHANGED <<sentEvents, rpc, callCtx, loops>>
            <4>1. Done'
                BY <1>h, <1>t, <2>1, <2>2, <3>2 DEF Done
            <4> QED BY <1>h, <1>c, <1>i, <2>1, <3>2, <4>1, MoveKeeps
        <3> QED BY <2>5, <3>1, <3>2, CodesTyped DEF HttpResult
    <2> QED BY <2>1, <2>4, <2>5
<1> QED BY <1>6, <1>7, <1>8, <1>9, <1>10, <1>11, <1>12, <1>13, <1>14, <1>15, <1>16 DEF HttpHandlerStep

(* The producer of the llm-adapter, which may outlive the handler. *)
LEMMA ProducerKeeps == AdaptersInv /\ (ProducerStep \/ ProducerReads) => AdaptersInv'
<1> SUFFICES ASSUME AdaptersInv, ProducerStep \/ ProducerReads PROVE AdaptersInv'
    OBVIOUS
<1>t. AdaptersTypeOK /\ Done /\ Relayed /\ Told
    BY DEF AdaptersInv
<1> DEFINE p == {"request", "reading", "sending", "sendingLast"}
<1>1. /\ prod \in p /\ UNCHANGED <<call, handler, callCtx, sentEvents, rpc, up>>
      /\ \/ prod' = "reading" /\ prod = "request" /\ UNCHANGED <<truth, text>>
         \/ prod' = "sendErr" /\ UNCHANGED <<truth, text>>
         \/ prod' = "closed" /\ callCtx # "live" /\ UNCHANGED <<truth, text>>
         \/ prod' = "closed" /\ prod = "reading" /\ truth' \in {"done", "cut", "failed"} /\ text' = text
         \/ prod' = prod /\ prod = "reading" /\ truth' = "failed" /\ text' = text
         \/ /\ prod' \in {"sending", "sendingLast"} /\ prod = "reading"
            /\ text' = [text EXCEPT !.read = @ + 1] /\ truth' = truth
    <2>1. CASE ProducerStep
        BY <2>1 DEF ProducerStep, ProducerRequest, ProducerGivesUp, ProducerCancelled
    <2>2. CASE ProducerReads
        <3>1. prod = "reading" /\ UNCHANGED <<call, handler, callCtx, sentEvents, rpc, up>>
            BY <2>2 DEF ProducerReads
        <3>2. \/ TextFrame("sending") \/ TextFrame("sendingLast") \/ LastFrame \/ BodyEnds
              \/ ErrorFrame \/ BadFrame
            BY <2>2 DEF ProducerReads, openaiFrame, ollamaFrame, bedrockEvent
        <3> QED BY <3>1, <3>2 DEF TextFrame, LastFrame, BodyEnds, ProducerEnds, ErrorFrame, BadFrame
    <2> QED BY <2>1, <2>2
<1>2. AdaptersTypeOK'
    BY <1>t, <1>1 DEF AdaptersTypeOK
<1>3. ~(prod \in {"none", "closed"})
    BY <1>1
<1>4. Told'
    BY <1>t, <1>1, <1>3 DEF Told, NoEnd, Carried
<1>5. handler \in {"relay", "returned"}
    BY <1>t, <1>1 DEF Relayed
<1>6. Relayed'
    BY <1>t, <1>1, <1>5 DEF Relayed, AdaptersTypeOK
<1>7. Done'
    <2>1. handler = "relay" /\ prod' = "closed" /\ callCtx' = "live" => truth' # "none"
        BY <1>1, <1>3
    <2> QED BY <1>t, <1>1, <1>5, <2>1 DEF Done
<1> QED BY <1>2, <1>4, <1>6, <1>7 DEF AdaptersInv

(* The handlers that stream the answer of a model. *)
LEMMA ModelKeeps == AdaptersInv /\ (ModelHandlerStep \/ streamChat) => AdaptersInv'
<1> SUFFICES ASSUME AdaptersInv, ModelHandlerStep \/ streamChat PROVE AdaptersInv'
    OBVIOUS
<1>t. AdaptersTypeOK /\ Done /\ Relayed /\ Told
    BY DEF AdaptersInv
<1>1. ASSUME handler # "returned", terminalForError \/ terminalTimeout, prod' = prod \/ prod' = "closed",
             UNCHANGED <<call, peer, up, loops, truth, text>>
      PROVE  AdaptersInv'
    <2>1. PICK e \in Event : e.type = "FAILED" /\ Finish(ensureProgress(e))
        BY <1>1, EventsTyped, CodesTyped DEF terminalForError, terminalTimeout, boundMessage
    <2> QED BY <1>1, <2>1, ProgressFirst DEF Terminal
<1>2. ASSUME NEW c \in Codes, NEW m \in {"plain", "wide"}, handler # "returned", sendFailed(c, m),
             UNCHANGED <<call, peer, up, loops, truth, prod, text>>
      PROVE  AdaptersInv'
    BY <1>2, <1>t, FailedKeeps DEF AdaptersTypeOK
<1>3. ASSUME handler # "returned", Finish(ensureProgress(completedEvent)), Carried,
             UNCHANGED <<call, peer, up, loops, truth, prod, text>>
      PROVE  AdaptersInv'
    <2>1. Carried'
        BY <1>3 DEF Carried
    <2> QED BY <1>3, <2>1, EventsTyped, ProgressFirst DEF Terminal
<1>4. CASE BedrockStream
    <2>1. handler = "converse" /\ prod = "none" /\ up # Pending
        BY <1>4, <1>t, NoProducer DEF BedrockStream, Done, Waiting
    <2>2. CASE /\ handler' = "relay" /\ prod' = "reading"
               /\ UNCHANGED <<call, callCtx, peer, sentEvents, rpc, up, loops, truth, text>>
        <3>1. Told'
            BY <2>1, <2>2, MoveTells
        <3>2. AdaptersTypeOK' /\ Relayed'
            BY <1>t, <2>1, <2>2 DEF AdaptersTypeOK, Relayed
        <3>3. Done'
            BY <2>1, <2>2 DEF Done
        <3> QED BY <3>1, <3>2, <3>3 DEF AdaptersInv
    <2> QED BY <1>1, <1>4, <2>1, <2>2 DEF BedrockStream
<1>5. CASE RelayChunk
    <2>1. /\ handler = "relay" /\ Emit(<<progressEvent>>, "relay") /\ UNCHANGED <<call, peer, up, loops>>
          /\ text' = [text EXCEPT !.relayed = @ + 1]
          /\ \/ prod = "sending" /\ prod' = "reading" /\ truth' = truth
             \/ prod = "sendingLast" /\ prod' = "closed" /\ truth' \in {"done", "failed"}
        BY <1>5 DEF RelayChunk
    <2>2. /\ Told' /\ sentEvents' \in Seq(Event) /\ rpc' \in {"open", "error"}
          /\ callCtx' \in {"live", "deadline", "cancelled"} /\ handler' \in {"relay", "returned"}
        BY <2>1, EmitTells
    <2>3. text' \in [read : Nat, relayed : Nat] /\ text'.relayed = text'.read
        BY <1>t, <2>1 DEF Relayed, AdaptersTypeOK
    <2>4. AdaptersTypeOK'
        BY <1>t, <2>1, <2>2, <2>3 DEF AdaptersTypeOK
    <2>5. up # Pending
        BY <1>t, <2>1 DEF Done, Waiting
    <2>6. Done'
        BY <2>1, <2>2, <2>5 DEF Done
    <2>7. Relayed'
        BY <2>1, <2>2, <2>3 DEF Relayed
    <2> QED BY <2>2, <2>4, <2>6, <2>7 DEF AdaptersInv
<1>6. CASE RelayError
    BY <1>1, <1>6 DEF RelayError
<1>7. CASE RelayClosed
    <2>1. handler = "relay" /\ prod = "closed" /\ UNCHANGED <<call, peer, up, loops, truth, prod, text>>
        BY <1>7 DEF RelayClosed
    <2>2. CASE callCtx # "live"
        BY <1>1, <1>7, <2>1, <2>2 DEF RelayClosed
    <2>3. CASE callCtx = "live"
        <3>1. Carried
            BY <1>t, <2>1, <2>3 DEF Carried, Done, Relayed
        <3> QED BY <1>3, <1>7, <2>1, <2>3, <3>1 DEF RelayClosed
    <2> QED BY <2>2, <2>3
<1>8. CASE GenerateContent
    <2>1. handler = "generate" /\ prod = "none" /\ UNCHANGED <<call, peer, up, loops, truth, prod, text>> /\ up # Pending
        BY <1>8, <1>t, NoProducer DEF GenerateContent, Done, Waiting
    <2>2. CASE handler' = "bridge" /\ UNCHANGED <<callCtx, sentEvents, rpc>>
        <3>1. Done'
            BY <2>1, <2>2 DEF Done
        <3> QED BY <1>t, <2>1, <2>2, <3>1, MoveKeeps DEF AdaptersTypeOK
    <2> QED BY <1>2, <1>8, <2>1, <2>2, CodesTyped DEF GenerateContent
<1>9. CASE StreamFails
    BY <1>2, <1>9, CodesTyped DEF StreamFails
<1>10. CASE StreamEnds
    <2>1. /\ handler = "bridge" /\ prod = "none" /\ handler' = "ended" /\ up # Pending
          /\ truth' \in {"done", "cut", truth} /\ (callCtx = "live" => truth' # "none")
          /\ UNCHANGED <<call, callCtx, peer, sentEvents, rpc, up, loops, prod, text>>
        BY <1>10, <1>t, NoProducer DEF StreamEnds, Done, Waiting
    <2>2. Told'
        BY <2>1, MoveTells
    <2>3. Done'
        BY <2>1 DEF Done
    <2>4. AdaptersTypeOK' /\ Relayed'
        BY <1>t, <2>1 DEF AdaptersTypeOK, Relayed
    <2> QED BY <2>2, <2>3, <2>4 DEF AdaptersInv
<1>11. ASSUME NEW v \in BOOLEAN, NEW w \in BOOLEAN, bridge(v, w) PROVE AdaptersInv'
    <2>1. handler = "ended" /\ prod = "none" /\ UNCHANGED <<call, peer, up, loops, truth, prod, text>>
        BY <1>11, NoProducer DEF bridge
    <2>2. CASE callCtx # "live"
        BY <1>2, <1>11, <2>1, <2>2, CodesTyped DEF bridge
    <2>3. CASE callCtx = "live"
        <3>1. Carried
            BY <1>t, <2>1, <2>3 DEF Carried, Done, Relayed
        <3>2. CASE coerceOutput(v, w)
            BY <1>3, <1>11, <2>1, <2>3, <3>1, <3>2 DEF bridge
        <3>3. CASE ~coerceOutput(v, w)
            <4>1. PICK e \in Event : e.type = "FAILED" /\ Finish(ensureProgress(e))
                BY <1>11, <2>3, <3>3, EventsTyped, CodesTyped DEF bridge
            <4> QED BY <2>1, <4>1, ProgressFirst DEF Terminal
        <3> QED BY <3>2, <3>3
    <2> QED BY <2>2, <2>3
<1>12. CASE streamChat
    <2>1. /\ handler = "bridge" /\ prod = "none" /\ up # Pending
          /\ text' = [read |-> text.read + 1, relayed |-> text.relayed + 1]
          /\ Emit(<<progressEvent>>, "bridge") /\ UNCHANGED <<call, peer, up, loops, truth, prod>>
        BY <1>12, <1>t, NoProducer DEF streamChat, Done, Waiting
    <2>2. text' \in [read : Nat, relayed : Nat] /\ text'.relayed = text'.read
        BY <1>t, <2>1 DEF Relayed, AdaptersTypeOK
    <2>3. handler' = "bridge" => Done'
        BY <2>1 DEF Done
    <2> QED BY <1>t, <2>1, <2>2, <2>3, ProgressKeeps DEF AdaptersTypeOK
<1> QED BY <1>4, <1>5, <1>6, <1>7, <1>8, <1>9, <1>10, <1>11, <1>12 DEF ModelHandlerStep

(* Whose state it is. *)
LEMMA OwnedKeeps == AdaptersInv /\ Owned /\ AdaptersNext => Owned'
<1> SUFFICES ASSUME AdaptersInv, Owned, AdaptersNext PROVE Owned'
    OBVIOUS
<1>1. ASSUME call'.adapter = call.adapter, call'.provider = call.provider, prod' = prod,
             truth' \in {truth, "done"}, handler' = handler \/ handler' \notin Streaming
      PROVE  Owned'
    BY <1>1 DEF Owned, Streaming
<1>2. CASE dispatch
    <2>1. /\ call'.adapter = call.adapter /\ call'.provider = call.provider
        <3>1. call \in Call
            BY DEF AdaptersInv, AdaptersTypeOK
        <3> QED BY <1>2, <3>1 DEF dispatch, handleToolsCall, Call
    <2>2. handler' \in {"returned", "start"} /\ prod' = prod /\ truth' = truth
        BY <1>2 DEF dispatch, handleToolsCall, Returned
    <2> QED BY <1>1, <2>1, <2>2 DEF Streaming
<1>3. CASE ExecuteCapability
    <2>1. ASSUME NEW c, NEW m, sendFailed(c, m), UNCHANGED <<call, truth, prod>> PROVE Owned'
        BY <1>1, <2>1 DEF sendFailed, Finish, Returned, Streaming
    <2>2. CASE Refuse
        BY <1>1, <2>2 DEF Refuse, Returned, Streaming
    <2>3. CASE Checked
        BY <2>1, <2>2, <2>3 DEF Checked, FailedEvent
    <2>4. ASSUME NEW ms, InvalidInput(ms) PROVE Owned'
        BY <2>1, <2>4 DEF InvalidInput
    <2>5. ASSUME NEW at, SendRequest(at), at \notin Streaming PROVE Owned'
        BY <1>1, <2>5 DEF SendRequest, Requesting
    <2>6. CASE ExecuteHttp
        BY <1>1, <2>1, <2>3, <2>6 DEF ExecuteHttp, HttpExecute, FailedEvent, Requesting, Streaming
    <2>7. CASE ExecuteGit
        <3>1. CASE GitExecute
            BY <2>1, <2>4, <2>5, <3>1 DEF GitExecute, openPR, getDiff, requestReview, Streaming
        <3> QED BY <2>3, <2>7, <3>1 DEF ExecuteGit
    <2>8. CASE ExecuteCi
        <3>1. CASE getRunStatus
            BY <1>1, <2>4, <3>1 DEF getRunStatus, Streaming
        <3>2. CASE CiExecute
            BY <2>1, <2>4, <2>5, <3>1, <3>2 DEF CiExecute, triggerWorkflow, Streaming
        <3> QED BY <2>3, <2>8, <3>2 DEF ExecuteCi
    <2>9. CASE call.adapter = "llm" /\ ExecuteLlm
        <3>1. CASE LlmExecute
            <4>1. call' = call /\ truth' = truth
                BY <3>1 DEF LlmExecute
            <4>2. handler' \in {"returned", "relay", "converse"}
                BY <3>1 DEF LlmExecute, sendFailed, terminalForError, terminalTimeout, Finish, Returned
            <4> QED BY <2>9, <4>1, <4>2 DEF Owned
        <3> QED BY <2>2, <2>9, <3>1 DEF ExecuteLlm
    <2>10. CASE call.adapter = "adk" /\ ExecuteAdk
        <3>1. CASE AdkExecute
            <4>1. call' = call /\ truth' = truth /\ prod' = prod
                BY <3>1 DEF AdkExecute
            <4>2. handler' \in {"returned", "generate"}
                BY <3>1 DEF AdkExecute, sendFailed, Finish, Returned
            <4> QED BY <2>10, <4>1, <4>2 DEF Owned
        <3> QED BY <2>3, <2>10, <3>1 DEF ExecuteAdk
    <2> QED BY <1>3, <2>6, <2>7, <2>8, <2>9, <2>10 DEF ExecuteCapability
<1>4. CASE Deadline \/ Disconnect \/ UpstreamAnswers \/ UpstreamCancelled
    BY <1>1, <1>4 DEF Deadline, Disconnect, UpstreamAnswers, UpstreamCancelled
<1>5. CASE SelectTick
    BY <1>1, <1>5 DEF SelectTick, Emit, Returned, Streaming
<1>6. CASE HttpHandlerStep
    <2>1. call' = call /\ prod' = prod /\ truth' = truth
        BY <1>6 DEF HttpHandlerStep, HttpBody, ReviewRequested, ReviewCycle, ReviewWait, ReviewGot, findNewRun,
                    pollLoop, TriggerDispatched, TriggerWait, StatusWait, SelectResult, SelectDone, Requesting
    <2>2. handler' \notin Streaming
        <3>1. CASE HttpBody \/ ReviewRequested \/ ReviewCycle \/ ReviewWait
            BY <3>1 DEF HttpBody, ReviewRequested, ReviewCycle, ReviewWait, Emit, sendFailed, sendCompleted,
                        Finish, Returned, Streaming
        <3>2. CASE ReviewGot \/ findNewRun \/ pollLoop
            BY <3>2 DEF ReviewGot, findNewRun, pollLoop, Emit, sendFailed, sendCompleted, Finish, Returned, Streaming
        <3>3. CASE TriggerDispatched \/ TriggerWait \/ StatusWait
            BY <3>3 DEF TriggerDispatched, TriggerWait, StatusWait, sendFailed, Finish, Returned, Streaming
        <3>4. CASE SelectResult \/ SelectDone
            BY <3>4 DEF SelectResult, SelectDone, HttpResult, GitResult, sendFailed, sendCompleted, Finish,
                        Returned, Streaming
        <3> QED BY <1>6, <3>1, <3>2, <3>3, <3>4 DEF HttpHandlerStep
    <2> QED BY <1>1, <2>1, <2>2
<1>7. CASE ProducerStep
    BY <1>7 DEF ProducerStep, ProducerRequest, ProducerGivesUp, ProducerCancelled, Owned
<1>8. CASE ProducerReads
    <2>1. prod = "reading" /\ UNCHANGED <<call, handler>> /\ call.adapter = "llm"
        BY <1>8 DEF ProducerReads, Owned
    <2>2. \/ truth' \in {truth, "done", "cut"}
          \/ truth' = "failed" /\ call.provider \in {"openai", "ollama"}
        BY <1>8 DEF ProducerReads, openaiFrame, ollamaFrame, bedrockEvent, TextFrame, LastFrame, BodyEnds,
                    ProducerEnds, ErrorFrame, BadFrame
    <2> QED BY <2>1, <2>2 DEF Owned
<1>9. CASE streamChat
    BY <1>9 DEF streamChat, Emit, Returned, Owned
<1>10. CASE ModelHandlerStep
    <2>1. CASE BedrockStream \/ RelayChunk \/ RelayError \/ RelayClosed
        <3>1. handler \in {"converse", "relay"} /\ call' = call /\ truth' \in {truth, "done"}
            BY <2>1 DEF BedrockStream, RelayChunk, RelayError, RelayClosed
        <3>2. handler' \in {"relay", "returned"}
            BY <2>1 DEF BedrockStream, RelayChunk, RelayError, RelayClosed, Emit, terminalForError,
                        terminalTimeout, Finish, Returned
        <3> QED BY <3>1, <3>2 DEF Owned
    <2>2. CASE GenerateContent \/ StreamFails \/ StreamEnds \/ \E v, w \in BOOLEAN : bridge(v, w)
        <3>1. /\ handler \in {"generate", "bridge", "ended"} /\ call' = call /\ prod' = prod
              /\ truth' \in {truth, "done", "cut"}
            BY <2>2 DEF GenerateContent, StreamFails, StreamEnds, bridge
        <3>2. handler' \in {"bridge", "ended", "returned"}
            BY <2>2 DEF GenerateContent, StreamFails, StreamEnds, bridge, sendFailed, Finish, Returned
        <3> QED BY <3>1, <3>2 DEF Owned
    <2> QED BY <1>10, <2>1, <2>2 DEF ModelHandlerStep
<1> QED BY <1>2, <1>3, <1>4, <1>5, <1>6, <1>7, <1>8, <1>9, <1>10 DEF AdaptersNext

(* What a caller concludes from the events of an adapter is what happened:   *)
(* for every call of every adapter, whenever its context ends, its caller    *)
(* goes or its upstream answers, fails or breaks off, and although the       *)
(* producer of the llm-adapter may outlive the call; except that the model   *)
(* adapters complete a call whose stream was cut off, and the llm-adapter    *)
(* one whose upstream reported its failure within the stream.                *)
THEOREM VerdictsAreTrue == AdaptersSpec => []VerdictIsTrue
<1>1. AdaptersInit => AdaptersInv
    <2> SUFFICES ASSUME AdaptersInit PROVE AdaptersInv
        OBVIOUS
    <2>1. AdaptersTypeOK
        BY AgentCallAssumption DEF AdaptersInit, AdaptersTypeOK
    <2>2. Told
        BY DEF AdaptersInit, Told, NoEnd
    <2>3. Done /\ Relayed
        BY UpTyped DEF AdaptersInit, Done, Relayed
    <2> QED BY <2>1, <2>2, <2>3 DEF AdaptersInv
<1>2. AdaptersInv /\ UNCHANGED callVars => AdaptersInv'
    BY DEF callVars, AdaptersInv, AdaptersTypeOK, Told, NoEnd, Carried, Done, Relayed
<1>3. AdaptersInv /\ AdaptersNext => AdaptersInv'
    BY LineKeeps, ExecuteKeeps, ContextKeeps, HttpKeeps, UpstreamKeeps, ModelKeeps, ProducerKeeps DEF AdaptersNext
<1>4. AdaptersInit => Owned
    BY DEF AdaptersInit, Owned
<1>5. Owned /\ UNCHANGED callVars => Owned'
    BY DEF callVars, Owned
<1> QED BY <1>1, <1>2, <1>3, <1>4, <1>5, OwnedKeeps, AdaptersParts, PTL DEF AdaptersSpec

=============================================================================
