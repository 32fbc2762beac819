--------------------------- MODULE CapabilityDispatch ---------------------------
(***************************************************************************)
(* One action of a workflow, from the engine-adapter's side: the Temporal  *)
(* activity DispatchCapabilityActivity (dispatch a task, poll it until it  *)
(* is terminal), its attempts under the retry policy and the StartToClose  *)
(* timeout, and the task broker it calls, seen through TaskLifecycle.      *)
(*                                                                         *)
(* Temporal does not stop an attempt that timed out or whose workflow was  *)
(* cancelled (the activity does not heartbeat): the old attempt goes on    *)
(* calling the broker while the next one runs.                             *)
(***************************************************************************)
EXTENDS Naturals, FiniteSets

CONSTANTS
    Tasks,        \* task ids the broker hands out
    Durable,      \* whether the broker keeps its tasks across a restart
    MaxAttempts,  \* DefaultActivityMaxAttempts (0 there means no limit: not modelled)
    MaxRestarts   \* bound on broker restarts

ASSUME CapabilityDispatchAssumption ==
    /\ IsFiniteSet(Tasks)
    /\ Durable \in BOOLEAN
    /\ MaxAttempts \in Nat \ {0}
    /\ MaxRestarts \in Nat

VARIABLES
    status, open,  \* the broker's tasks (TaskLifecycle)
    backed,        \* whether an eligible agent is registered
    restarts,      \* broker restarts so far
    attempt,       \* attempts that a worker has started
    activity,      \* Temporal's view of the activity
    worker,        \* what the activity function of an attempt is doing
    request,       \* the DispatchTask request of an attempt, at the broker
    made           \* the tasks the broker created for an attempt

brokerVars == <<status, open, restarts>>
dispatchVars == <<status, open, backed, restarts, attempt, activity, worker, request, made>>

Broker == INSTANCE TaskLifecycle

Attempts == 1 .. MaxAttempts

\* The activity is scheduled and waits for a worker, runs, or waits for its next
\* attempt to be scheduled; then it has ended with a result, with an error after the last attempt, with the non-retryable
\* ErrCapabilityNotFound, or because the workflow was cancelled.
Ended == {"result", "failed", "unbacked", "cancelled"}

DispatchInit ==
    /\ Broker!Init
    /\ backed \in BOOLEAN
    /\ restarts = 0
    /\ attempt = 0
    /\ activity = "scheduled"
    /\ worker = [n \in Attempts |-> "none"]
    /\ request = [n \in Attempts |-> "none"]
    /\ made = [n \in Attempts |-> {}]

---------------------------------------------------------------------------
(* Temporal *)

\* Attempt n is over with answer a. Temporal ignores the answer of an attempt
\* it no longer waits for, and retries an error until the attempts run out.
Settle(n, a) ==
    activity' = IF n # attempt \/ activity # "running" THEN activity
                ELSE IF a # "error" THEN a
                ELSE IF attempt < MaxAttempts THEN "backoff" ELSE "failed"

\* The back-off is over: the next attempt is put on the task queue.
Retry ==
    /\ activity = "backoff"
    /\ activity' = "scheduled"
    /\ UNCHANGED <<status, open, backed, restarts, attempt, worker, request, made>>

\* A worker of the engine-adapter takes the attempt from the task queue. There is
\* no schedule-to-start timeout: without a worker the attempt waits.
StartAttempt ==
    /\ activity = "scheduled"
    /\ attempt' = attempt + 1
    /\ activity' = "running"
    /\ worker' = [worker EXCEPT ![attempt + 1] = "calling"]
    /\ request' = [request EXCEPT ![attempt + 1] = "sent"]
    /\ UNCHANGED <<status, open, backed, restarts, made>>

\* A mutated policy without StartToCloseTimeout.
NoTimeout == FALSE /\ UNCHANGED dispatchVars

\* StartToCloseTimeout; the worker does not notice.
Timeout ==
    /\ activity = "running"
    /\ Settle(attempt, "error")
    /\ UNCHANGED <<status, open, backed, restarts, attempt, worker, request, made>>

\* The run is cancelled: Get on the activity returns, the worker goes on.
WorkflowCancel ==
    /\ activity \in {"scheduled", "running", "backoff"}
    /\ activity' = "cancelled"
    /\ UNCHANGED <<status, open, backed, restarts, attempt, worker, request, made>>

---------------------------------------------------------------------------
(* The activity function *)

\* A mutated classification that gives up on every gRPC error.
classifyAnyError(code) == "unbacked"

\* DispatchActivity: a NotFound anywhere in the error chain is
\* ErrCapabilityNotFound, which is not retried; everything else is.
classify(code) == IF code = "NotFound" THEN "unbacked" ELSE "error"

Return(n, a) ==
    /\ worker' = [worker EXCEPT ![n] = "returned"]
    /\ Settle(n, a)
    /\ UNCHANGED <<status, open, backed, restarts, attempt, request, made>>

\* DispatchTask answers with the task id.
DispatchReturns(n) ==
    /\ worker[n] = "calling" /\ request[n] = "accepted"
    /\ worker' = [worker EXCEPT ![n] = "polling"]
    /\ UNCHANGED <<status, open, backed, restarts, attempt, activity, request, made>>

DispatchRefused(n) ==
    /\ worker[n] = "calling" /\ request[n] = "refused"
    /\ Return(n, classify("NotFound"))

\* A mutated dispatch that sends the request again inside the attempt.
DispatchFailsResends(n) ==
    /\ worker[n] = "calling"
    /\ request' = [request EXCEPT ![n] = "sent"]
    /\ UNCHANGED <<status, open, backed, restarts, attempt, activity, worker, made>>

\* callTimeout, a transport error or an internal error of the broker: the
\* request may have been, or may still be, carried out.
DispatchFails(n) ==
    /\ worker[n] = "calling"
    /\ Return(n, classify("Unavailable"))

\* A mutated poll that takes the end of the task for its success.
handleStatusAnyEnd(n, t, valid) ==
    /\ worker[n] = "polling" /\ t \in made[n]
    /\ status[t] \in Broker!Terminal
    /\ Return(n, "result")

\* GetTask finds the task terminal. extractResult takes an empty payload or a
\* JSON object for a result and fails on anything else.
handleStatus(n, t, valid) ==
    /\ worker[n] = "polling" /\ t \in made[n]
    /\ status[t] \in Broker!Terminal
    /\ Return(n, IF status[t] = "COMPLETED" /\ valid THEN "result" ELSE "error")

\* The broker does not know the task (any more).
PollNotFound(n, t) ==
    /\ worker[n] = "polling" /\ t \in made[n]
    /\ status[t] = "NONE"
    /\ Return(n, classify("NotFound"))

\* GetTask fails, or the context of the attempt is done.
PollFails(n) ==
    /\ worker[n] = "polling"
    /\ Return(n, classify("Unavailable"))

\* The worker process ends: Temporal learns of it by the timeout only.
WorkerCrash ==
    /\ \E n \in Attempts : worker[n] \in {"calling", "polling"}
    /\ worker' = [n \in Attempts |->
                     IF worker[n] \in {"calling", "polling"} THEN "returned" ELSE worker[n]]
    /\ UNCHANGED <<status, open, backed, restarts, attempt, activity, request, made>>

---------------------------------------------------------------------------
(* The broker and the registry *)

\* DispatchTask at the broker, also when its caller has given up meanwhile.
BrokerAccepts(n, t) ==
    /\ request[n] = "sent" /\ backed
    /\ \A m \in Attempts : t \notin made[m]
    /\ Broker!Create(t)
    /\ request' = [request EXCEPT ![n] = "accepted"]
    /\ made' = [made EXCEPT ![n] = @ \cup {t}]
    /\ UNCHANGED <<backed, restarts, attempt, activity, worker>>

BrokerRefuses(n) ==
    /\ request[n] = "sent" /\ ~backed
    /\ request' = [request EXCEPT ![n] = "refused"]
    /\ UNCHANGED <<status, open, backed, restarts, attempt, activity, worker, made>>

\* What the broker does to a task by itself. The dispatcher asks for no
\* retries (max_retries is never set), so nothing is written as RETRYING.
BrokerWorks(t) ==
    /\ \/ Broker!Begin(t)
       \/ \E s \in Broker!Written \ {"RETRYING"}, others \in BOOLEAN : Broker!Write(t, s, others)
       \/ Broker!Drop(t)
    /\ UNCHANGED <<backed, restarts, attempt, activity, worker, request, made>>

\* Requests under way are lost with the broker.
BrokerRestart ==
    /\ restarts < MaxRestarts
    /\ restarts' = restarts + 1
    /\ Broker!Restart
    /\ request' = [n \in Attempts |-> IF request[n] = "sent" THEN "lost" ELSE request[n]]
    /\ UNCHANGED <<backed, attempt, activity, worker, made>>

RegistryChange ==
    /\ backed' = ~backed
    /\ UNCHANGED <<status, open, restarts, attempt, activity, worker, request, made>>

---------------------------------------------------------------------------
ActivityStep(n) ==
    \/ DispatchReturns(n)
    \/ DispatchRefused(n)
    \/ DispatchFails(n)
    \/ \E t \in Tasks, valid \in BOOLEAN : handleStatus(n, t, valid)
    \/ \E t \in Tasks : PollNotFound(n, t)
    \/ PollFails(n)

DispatchNext ==
    \/ Retry
    \/ StartAttempt
    \/ Timeout
    \/ WorkflowCancel
    \/ \E n \in Attempts : ActivityStep(n)
    \/ WorkerCrash
    \/ \E n \in Attempts, t \in Tasks : BrokerAccepts(n, t)
    \/ \E n \in Attempts : BrokerRefuses(n)
    \/ \E t \in Tasks : BrokerWorks(t)
    \/ BrokerRestart
    \/ RegistryChange

DispatchSpec == DispatchInit /\ [][DispatchNext]_dispatchVars

\* Temporal's timers fire: the timeout of a running attempt and the back-off
\* before the next one. Nothing is assumed of the workers, the broker or agents:
\* neither that a scheduled attempt is started nor that a started one returns.
DispatchFairness == WF_dispatchVars(Timeout) /\ WF_dispatchVars(Retry)

FairDispatch == DispatchSpec /\ DispatchFairness

---------------------------------------------------------------------------
(* Properties *)

\* Types of the variables.
DispatchTypeOK ==
    /\ status \in [Tasks -> {"NONE", "PENDING"} \cup Broker!Written]
    /\ open \in [Tasks -> BOOLEAN]
    /\ backed \in BOOLEAN
    /\ restarts \in Nat
    /\ attempt \in 0 .. MaxAttempts
    /\ activity \in {"scheduled", "running", "backoff"} \cup Ended
    /\ worker \in [Attempts -> {"none", "calling", "polling", "returned"}]
    /\ request \in [Attempts -> {"none", "sent", "accepted", "refused", "lost"}]
    /\ made \in [Attempts -> SUBSET Tasks]

\* The work one action causes is bounded by its retry policy: each attempt
\* creates at most one task, whatever is lost, late or restarted, and nothing
\* is created for an attempt that was never made.
BoundedTasks ==
    /\ \A n \in Attempts : /\ Cardinality(made[n]) <= 1
                           /\ n > attempt => made[n] = {}
    /\ Cardinality(UNION {made[n] : n \in Attempts}) <= attempt

\* An action ends without retries (ErrCapabilityNotFound) only if the broker
\* found no eligible agent for the request of the current attempt, or has
\* forgotten the task it made for it, which isCapabilityNotFound cannot tell
\* apart: never for a lost call, a late answer or a task that failed.
UnbackedMeansNoAgent ==
    activity = "unbacked" =>
        \/ request[attempt] = "refused"
        \/ ~Durable /\ \E t \in made[attempt] : status[t] = "NONE"

\* The result of an action is the result of a task of the attempt Temporal
\* waits for, COMPLETED when it was read: never that of an earlier attempt
\* still running, or of a task that ended in another way.
ResultOfCurrentTask ==
    [][activity' = "result" /\ activity # "result" =>
          \E t \in made[attempt] : status[t] = "COMPLETED"]_dispatchVars

\* Every action ends, even when the agent never answers, the broker is down or
\* the worker is gone, unless an attempt of it is scheduled that no worker ever
\* takes: then, and only then, executeActions blocks the run for ever.
ActionEnds == <>(activity \in Ended \/ [](activity = "scheduled"))

=============================================================================
