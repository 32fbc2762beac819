------------------------------- MODULE TaskBroker -------------------------------
(***************************************************************************)
(* The task-broker service: the task table, the goroutines that drive a    *)
(* task to its outcome (executeAsync), the client calls that race with     *)
(* them (AcknowledgeTask, CancelTask), and the recovery pass that main     *)
(* starts next to the gRPC server (RecoverInFlight).                       *)
(*                                                                         *)
(* Every repository call is one atomic step (a mutex-protected map access  *)
(* or a single SQL statement); everything a goroutine does between two     *)
(* repository calls works on its private copy of the row, snap[g].         *)
(***************************************************************************)
EXTENDS Integers, FiniteSets

CONSTANTS
    Tasks,      \* task ids; their order is the (created_at, task_id) order
    Agents,     \* agent ids the scheduler may select
    Scope,      \* the expert-scope label of each agent, or NoAgent; several may share one
    Declares,   \* the agents whose input_schema declares a context slice
    Threads,    \* goroutine slots (handlers and background executions)
    Requests,   \* the dispatch requests clients make
    Acks,       \* the statuses clients acknowledge with
    PageSize,   \* recoveryPageSize
    Durable,    \* DBEnabled: Postgres repository, else the in-memory one
    Faults,     \* whether repository and scheduler calls may fail
    MaxCrashes  \* bound on broker restarts

NoAgent == "none"
NoTask == 0

Statuses == {"PENDING", "DISPATCHED", "RETRYING", "COMPLETED", "FAILED", "CANCELLED"}
Terminal == {"COMPLETED", "FAILED", "CANCELLED"}
InFlight == {"PENDING", "DISPATCHED"}

Target == Agents \cup {NoAgent}

\* A request names the expert it targets (or none), whose context slice its
\* payload carries (the caller may put anything there) and its retry budget,
\* which is an int32 that nobody checks.
Request == [expert : Target, slice : Target, maxRetries : Int]

ASSUME TaskBrokerAssumption ==
    /\ Tasks \subseteq Nat \ {0} /\ IsFiniteSet(Tasks)
    /\ NoAgent \notin Agents
    /\ Scope \in [Agents -> Target]
    /\ Declares \subseteq Agents
    /\ Requests \subseteq Request
    /\ Acks \subseteq Terminal \cup {"UNKNOWN_ENUM"}
    /\ PageSize \in Nat \ {0}
    /\ Durable \in BOOLEAN
    /\ Faults \in BOOLEAN
    /\ MaxCrashes \in Nat

\* The row of a task; "NONE" is the status of a row that does not exist.
\* result and error say whether the field holds content (a TaskError without
\* code and message is stored, and read back, as no error at all).
Row == [status : Statuses \cup {"NONE"}, maxRetries : Int, retryCount : Nat,
        expert : Target, slice : Target, dispatchedTo : Target,
        result : BOOLEAN, error : BOOLEAN]

NoRow == [status |-> "NONE", maxRetries |-> 0, retryCount |-> 0,
          expert |-> NoAgent, slice |-> NoAgent, dispatchedTo |-> NoAgent,
          result |-> FALSE, error |-> FALSE]

VARIABLES
    repo,       \* the tasks table
    pc, tid,    \* control state of a goroutine and the task it works on
    agt,        \* the agent an execution goroutine was started with
    snap,       \* the copy of the row a goroutine will write back
    recovery,   \* RecoverInFlight: status pass, page token, rest of the page
    announced,  \* terminal statuses whose event was handed to the publisher
    abandoned,  \* tasks an error path gave up on since the last start
    crashes

vars == <<repo, pc, tid, agt, snap, recovery, announced, abandoned, crashes>>

\* Control states of executeAsync: before its first read, before the write
\* that claims the task, waiting for the agent, before the write of the
\* outcome. "write" is an Acknowledge/Cancel handler between its read and its
\* write, "announce" precedes a last event.
ExecStates == {"launched", "claim", "executing", "finish"}
States == ExecStates \cup {"idle", "write", "announce"}

Passes == {"PENDING", "DISPATCHED", "RETRYING", "done", "aborted"}
NextPass(p) == CASE p = "PENDING" -> "DISPATCHED"
                 [] p = "DISPATCHED" -> "RETRYING"
                 [] OTHER -> "done"

\* RecoverInFlight about to list the first page of the PENDING pass.
RecoveryStart == [pass |-> "PENDING", listed |-> FALSE, token |-> 0, page |-> {}]

Init ==
    /\ repo = [t \in Tasks |-> NoRow]
    /\ pc = [g \in Threads |-> "idle"]
    /\ tid = [g \in Threads |-> NoTask]
    /\ agt = [g \in Threads |-> NoAgent]
    /\ snap = [g \in Threads |-> NoRow]
    /\ recovery = RecoveryStart
    /\ announced = [t \in Tasks |-> {}]
    /\ abandoned = {}
    /\ crashes = 0

---------------------------------------------------------------------------
(* Helpers *)

\* SchedulerService.SelectAgent as the broker uses it: any eligible agent; with
\* an expert target one that carries the expert's label.
Select(expert) == IF expert = NoAgent THEN Agents ELSE {a \in Agents : Scope[a] = expert}

\* selectExpert: the agent of an expert-targeted dispatch has the expert's name.
selectExpert(expert, agent) == expert \in {NoAgent, agent}

\* prepareExpertDispatch: the payload of an expert-targeted task carries the
\* expert's declared slice or none; any other payload passes through.
BoundSlice(req, agent) ==
    IF req.expert = NoAgent THEN req.slice
    ELSE IF agent \in Declares THEN agent ELSE NoAgent

\* A mutated applyAcknowledgement that stores whatever status it was given.
applyAnyStatus(row, status, result, error) ==
    IF status = "FAILED" /\ row.retryCount + 1 <= row.maxRetries
    THEN [row EXCEPT !.status = "RETRYING", !.retryCount = @ + 1]
    ELSE [row EXCEPT !.status = status, !.result = status = "COMPLETED" /\ result,
                     !.error = status = "FAILED" /\ error]

\* applyAcknowledgement on the goroutine's copy of the row.
applyAcknowledgement(row, status, result, error) ==
    CASE status = "COMPLETED" -> [row EXCEPT !.status = "COMPLETED", !.result = result]
      [] status = "FAILED" -> IF row.retryCount + 1 <= row.maxRetries
            THEN [row EXCEPT !.status = "RETRYING", !.retryCount = @ + 1]
            ELSE [row EXCEPT !.status = "FAILED", !.error = error]
      [] OTHER -> [row EXCEPT !.status = "CANCELLED"]

IsTerminal(row) == row.status \in Terminal

\* The goroutine returns.
Exit(g) ==
    /\ pc' = [pc EXCEPT ![g] = "idle"]
    /\ tid' = [tid EXCEPT ![g] = NoTask]
    /\ agt' = [agt EXCEPT ![g] = NoAgent]
    /\ snap' = [snap EXCEPT ![g] = NoRow]

\* go executeAsync(task, agent) in a free slot.
Launch(g, t, a) ==
    /\ pc[g] = "idle"
    /\ pc' = [pc EXCEPT ![g] = "launched"]
    /\ tid' = [tid EXCEPT ![g] = t]
    /\ agt' = [agt EXCEPT ![g] = a]
    /\ UNCHANGED snap

Goto(g, state, row) ==
    /\ pc' = [pc EXCEPT ![g] = state]
    /\ snap' = [snap EXCEPT ![g] = row]
    /\ UNCHANGED <<tid, agt>>

---------------------------------------------------------------------------
(* Client calls. A call that is rejected (invalid argument, unknown task,  *)
(* terminal task, no eligible agent) changes nothing and is not a step;    *)
(* neither are GetTask and ListTasks, which only read.                     *)

DispatchedRow(req, agent) ==
    [NoRow EXCEPT !.status = "PENDING", !.maxRetries = req.maxRetries,
                  !.expert = req.expert, !.slice = BoundSlice(req, agent)]

\* Validate, select, bind, Save, start the execution, answer.
DispatchTask(g, t, req, a) ==
    /\ repo[t].status = "NONE"
    /\ a \in Select(req.expert) /\ selectExpert(req.expert, a)
    /\ repo' = [repo EXCEPT ![t] = DispatchedRow(req, a)]
    /\ Launch(g, t, a)
    /\ UNCHANGED <<recovery, announced, abandoned, crashes>>

\* Save reports an error although the row was committed: the caller gets the
\* error and nobody executes the task.
DispatchSaveUncertain(t, req, a) ==
    /\ Faults /\ Durable
    /\ repo[t].status = "NONE"
    /\ a \in Select(req.expert) /\ selectExpert(req.expert, a)
    /\ repo' = [repo EXCEPT ![t] = DispatchedRow(req, a)]
    /\ abandoned' = abandoned \cup {t}
    /\ UNCHANGED <<pc, tid, agt, snap, recovery, announced, crashes>>

\* AcknowledgeTask up to its write: a COMPLETED needs a payload, and a status
\* outside the enum falls into the default branch of applyAcknowledgement.
AcknowledgeRead(g, t, status, result, error) ==
    /\ pc[g] = "idle"
    /\ status = "COMPLETED" => result
    /\ repo[t].status # "NONE" /\ ~IsTerminal(repo[t])
    /\ pc' = [pc EXCEPT ![g] = "write"]
    /\ tid' = [tid EXCEPT ![g] = t]
    /\ snap' = [snap EXCEPT ![g] = applyAcknowledgement(repo[t], status, result, error)]
    /\ UNCHANGED <<repo, agt, recovery, announced, abandoned, crashes>>

CancelRead(g, t) ==
    /\ pc[g] = "idle"
    /\ repo[t].status # "NONE" /\ ~IsTerminal(repo[t])
    /\ pc' = [pc EXCEPT ![g] = "write"]
    /\ tid' = [tid EXCEPT ![g] = t]
    /\ snap' = [snap EXCEPT ![g] = [repo[t] EXCEPT !.status = "CANCELLED"]]
    /\ UNCHANGED <<repo, agt, recovery, announced, abandoned, crashes>>

\* repo.Update of the handler: the whole row, whatever it is by now.
HandlerWrite(g) ==
    /\ pc[g] = "write"
    /\ repo' = [repo EXCEPT ![tid[g]] = snap[g]]
    /\ Goto(g, "announce", snap[g])
    /\ UNCHANGED <<recovery, announced, abandoned, crashes>>

---------------------------------------------------------------------------
(* executeAsync *)

\* A mutated first read without the terminal check.
ExecReadBlind(g) ==
    /\ pc[g] = "launched"
    /\ Goto(g, "claim", [repo[tid[g]] EXCEPT !.status = "DISPATCHED",
                                             !.dispatchedTo = agt[g]])
    /\ UNCHANGED <<repo, recovery, announced, abandoned, crashes>>

\* First read: a terminal task ends the goroutine.
ExecRead(g) ==
    /\ pc[g] = "launched"
    /\ IF IsTerminal(repo[tid[g]])
         THEN Exit(g)
         ELSE Goto(g, "claim", [repo[tid[g]] EXCEPT !.status = "DISPATCHED",
                                                    !.dispatchedTo = agt[g]])
    /\ UNCHANGED <<repo, recovery, announced, abandoned, crashes>>

\* The claim is written, its event published (an event that is not an outcome
\* is not tracked) and the agent called.
ExecClaim(g) ==
    /\ pc[g] = "claim"
    /\ repo' = [repo EXCEPT ![tid[g]] = snap[g]]
    /\ Goto(g, "executing", NoRow)
    /\ UNCHANGED <<recovery, announced, abandoned, crashes>>

\* What executor.Execute can return: a COMPLETED event with or without a
\* payload (the end of the stream without a terminal event counts as the
\* latter), a FAILED event with or without an error, a transport error.
Outcomes == [status : {"COMPLETED", "FAILED"}, content : BOOLEAN]

\* Two mutated returns: one without the terminal check, one that gives up on
\* an error without recording it.
ExecReturnBlind(g, o) ==
    /\ pc[g] = "executing"
    /\ Goto(g, "finish", applyAcknowledgement(repo[tid[g]], o.status, o.content, o.content))
    /\ UNCHANGED <<repo, recovery, announced, abandoned, crashes>>

ExecReturnDropsError(g, o) ==
    /\ pc[g] = "executing"
    /\ IF IsTerminal(repo[tid[g]]) \/ o.status = "FAILED"
         THEN Exit(g)
         ELSE Goto(g, "finish",
                   applyAcknowledgement(repo[tid[g]], o.status, o.content, o.content))
    /\ UNCHANGED <<repo, recovery, announced, abandoned, crashes>>

\* The agent answered: read again, stop at a terminal task, apply the outcome.
ExecReturn(g, o) ==
    /\ pc[g] = "executing"
    /\ IF IsTerminal(repo[tid[g]])
         THEN Exit(g)
         ELSE Goto(g, "finish",
                   applyAcknowledgement(repo[tid[g]], o.status, o.content, o.content))
    /\ UNCHANGED <<repo, recovery, announced, abandoned, crashes>>

\* A mutated outcome write that skips the lifecycle event.
ExecFinishSilent(g) ==
    /\ pc[g] = "finish"
    /\ repo' = [repo EXCEPT ![tid[g]] = snap[g]]
    /\ Exit(g)
    /\ UNCHANGED <<recovery, announced, abandoned, crashes>>

ExecFinish(g) ==
    /\ pc[g] = "finish"
    /\ repo' = [repo EXCEPT ![tid[g]] = snap[g]]
    /\ Goto(g, "announce", snap[g])
    /\ UNCHANGED <<recovery, announced, abandoned, crashes>>

\* publishEvent after a successful Update, the last thing the caller does.
Announce(g) ==
    /\ pc[g] = "announce"
    /\ announced' = [announced EXCEPT ![tid[g]] = @ \cup ({snap[g].status} \cap Terminal)]
    /\ Exit(g)
    /\ UNCHANGED <<repo, recovery, abandoned, crashes>>

\* GetByID fails in executeAsync: the goroutine returns without a trace.
ExecReadError(g) ==
    /\ Faults /\ Durable
    /\ pc[g] \in {"launched", "executing"}
    /\ Exit(g)
    /\ abandoned' = abandoned \cup {tid[g]}
    /\ UNCHANGED <<repo, recovery, announced, crashes>>

\* Update fails; with Postgres the statement may have been applied.
WriteError(g, applied) ==
    /\ Faults /\ Durable
    /\ pc[g] \in {"claim", "finish", "write"}
    /\ repo' = IF applied THEN [repo EXCEPT ![tid[g]] = snap[g]] ELSE repo
    /\ Exit(g)
    /\ abandoned' = abandoned \cup {tid[g]}
    /\ UNCHANGED <<recovery, announced, crashes>>

---------------------------------------------------------------------------
(* RecoverInFlight *)

Matching(status) == {t \in Tasks : repo[t].status = status}
Before(S, t) == {u \in S : u < t}
FirstPage(S) == {t \in S : Cardinality(Before(S, t)) < PageSize}

\* repo.List: one page of the tasks in a status. The Postgres token is the key
\* of the last row of the page before, the in-memory one an offset into the
\* sorted matches; 0 stands for no token.
Page(status, token) ==
    IF Durable
    THEN FirstPage({t \in Matching(status) : t > token})
    ELSE {t \in Matching(status) :
             Cardinality(Before(Matching(status), t)) \in token .. token + PageSize - 1}

NextPageToken(status, token, newToken) ==
    IF Durable
    THEN IF Cardinality({t \in Matching(status) : t > token}) > PageSize
           THEN /\ newToken \in Page(status, token)
                /\ \A t \in Page(status, token) : t <= newToken
           ELSE newToken = 0
    ELSE newToken = IF token + PageSize < Cardinality(Matching(status))
                      THEN token + PageSize ELSE 0

Recovering == recovery.pass \in {"PENDING", "DISPATCHED", "RETRYING"}

\* A mutated pass order that forgets the DISPATCHED tasks.
RecoverTurnSkips ==
    /\ Recovering /\ recovery.listed /\ recovery.page = {}
    /\ recovery' = IF recovery.token # 0
                     THEN [recovery EXCEPT !.listed = FALSE]
                     ELSE [pass |-> NextPass("DISPATCHED"),
                           listed |-> FALSE, token |-> 0, page |-> {}]
    /\ UNCHANGED <<repo, pc, tid, agt, snap, announced, abandoned, crashes>>

\* Page done: the next page of this status, or the next status.
RecoverTurn ==
    /\ Recovering /\ recovery.listed /\ recovery.page = {}
    /\ recovery' = IF recovery.token # 0
                     THEN [recovery EXCEPT !.listed = FALSE]
                     ELSE [pass |-> NextPass(recovery.pass),
                           listed |-> FALSE, token |-> 0, page |-> {}]
    /\ UNCHANGED <<repo, pc, tid, agt, snap, announced, abandoned, crashes>>

RecoverList ==
    /\ Recovering /\ ~recovery.listed
    /\ \E newToken \in Tasks \cup (0 .. Cardinality(Tasks)) :
         /\ NextPageToken(recovery.pass, recovery.token, newToken)
         /\ recovery' = [recovery EXCEPT !.listed = TRUE, !.token = newToken,
                                         !.page = Page(recovery.pass, recovery.token)]
    /\ UNCHANGED <<repo, pc, tid, agt, snap, announced, abandoned, crashes>>

\* The oldest task of the page is next.
IsNext(t) == t \in recovery.page /\ \A u \in recovery.page : t <= u

\* A mutated relaunch that forgets the expert target.
RelaunchAnyAgent(g, t, a) ==
    /\ IsNext(t)
    /\ a \in Select(NoAgent)
    /\ Launch(g, t, a)
    /\ recovery' = [recovery EXCEPT !.page = @ \ {t}]
    /\ UNCHANGED <<repo, announced, abandoned, crashes>>

\* relaunch: the scheduler is asked for the expert of the persisted payload; nobody
\* checks the name of the agent it answers with, or whether the task is already
\* being executed.
Relaunch(g, t, a) ==
    /\ IsNext(t)
    /\ a \in Select(repo[t].expert)
    /\ Launch(g, t, a)
    /\ recovery' = [recovery EXCEPT !.page = @ \ {t}]
    /\ UNCHANGED <<repo, announced, abandoned, crashes>>

\* No eligible agent: the task is left for a later start.
RelaunchFails(t) ==
    /\ Faults
    /\ IsNext(t)
    /\ recovery' = [recovery EXCEPT !.page = @ \ {t}]
    /\ abandoned' = abandoned \cup {t}
    /\ UNCHANGED <<repo, pc, tid, agt, snap, announced, crashes>>

\* A List error ends recovery; main only logs it.
RecoverListError ==
    /\ Faults /\ Durable
    /\ Recovering /\ ~recovery.listed
    /\ recovery' = [RecoveryStart EXCEPT !.pass = "aborted"]
    /\ UNCHANGED <<repo, pc, tid, agt, snap, announced, abandoned, crashes>>

\* The process ends (shutdown does not wait for background goroutines, so it
\* is no different) and starts again: goroutines are gone, the table survives
\* iff it is in Postgres, and recovery begins.
Crash ==
    /\ crashes < MaxCrashes
    /\ crashes' = crashes + 1
    /\ repo' = IF Durable THEN repo ELSE [t \in Tasks |-> NoRow]
    /\ announced' = IF Durable THEN announced ELSE [t \in Tasks |-> {}]
    /\ pc' = [g \in Threads |-> "idle"]
    /\ tid' = [g \in Threads |-> NoTask]
    /\ agt' = [g \in Threads |-> NoAgent]
    /\ snap' = [g \in Threads |-> NoRow]
    /\ recovery' = RecoveryStart
    /\ abandoned' = {}

---------------------------------------------------------------------------
ClientCall ==
    \E t \in Tasks :
        \/ \E g \in Threads, req \in Requests, a \in Agents : DispatchTask(g, t, req, a)
        \/ \E req \in Requests, a \in Agents : DispatchSaveUncertain(t, req, a)
        \/ \E g \in Threads, s \in Acks, r \in BOOLEAN, e \in BOOLEAN :
               AcknowledgeRead(g, t, s, r, e)
        \/ \E g \in Threads : CancelRead(g, t)

ThreadStep(g) ==
    \/ HandlerWrite(g)
    \/ ExecRead(g)
    \/ ExecClaim(g)
    \/ \E o \in Outcomes : ExecReturn(g, o)
    \/ ExecFinish(g)
    \/ Announce(g)

ThreadError(g) == ExecReadError(g) \/ \E applied \in BOOLEAN : WriteError(g, applied)

RecoverStep ==
    \/ RecoverTurn
    \/ RecoverList
    \/ \E g \in Threads, t \in Tasks, a \in Agents : Relaunch(g, t, a)

RecoverError == RecoverListError \/ \E t \in Tasks : RelaunchFails(t)

Next ==
    \/ ClientCall
    \/ \E g \in Threads : ThreadStep(g) \/ ThreadError(g)
    \/ RecoverStep
    \/ RecoverError
    \/ Crash

Spec == Init /\ [][Next]_vars

\* Goroutines are scheduled, the agent a goroutine waits for answers in the
\* end, and recovery runs in a goroutine of its own, which always finds room
\* for another one (a slot is a bound of the model, not of the Go runtime).
Fairness ==
    /\ \A g \in Threads : WF_vars(ThreadStep(g))
    /\ SF_vars(RecoverStep)

FairSpec == Spec /\ Fairness

---------------------------------------------------------------------------
(* Properties *)

RecoveryType == [pass : Passes, listed : BOOLEAN, token : Nat, page : SUBSET Tasks]

\* Types of the table, the goroutines and the recovery cursor.
TypeOK ==
    /\ repo \in [Tasks -> Row]
    /\ pc \in [Threads -> States]
    /\ tid \in [Threads -> Tasks \cup {NoTask}]
    /\ agt \in [Threads -> Target]
    /\ snap \in [Threads -> Row]
    /\ recovery \in RecoveryType
    /\ announced \in [Tasks -> SUBSET Terminal]
    /\ abandoned \subseteq Tasks
    /\ crashes \in Nat

Owned(t) == \E g \in Threads : pc[g] \in ExecStates /\ tid[g] = t

\* Recovery has still to come to t: t is on the page being worked off, or a
\* later page or pass will list it.
Ahead(t) ==
    \/ t \in recovery.page
    \/ /\ recovery.pass = repo[t].status
       /\ ~recovery.listed \/ recovery.token # 0
       /\ t > recovery.token
    \/ recovery.pass = "PENDING" /\ repo[t].status = "DISPATCHED"

\* No task is lost: at every moment a PENDING or DISPATCHED task is being
\* driven by an executeAsync goroutine, or the recovery pass will still reach
\* it, across restarts and concurrent client calls - unless an error path of
\* the broker gave it up or recovery itself was aborted by a List error.
InFlightOwned ==
    \A t \in Tasks : repo[t].status \in InFlight =>
        \/ Owned(t)
        \/ Durable /\ Ahead(t)
        \/ t \in abandoned
        \/ recovery.pass = "aborted"

\* A goroutine that read the row before it became terminal and has not yet
\* written it back.
StaleWriter(t) == \E g \in Threads : pc[g] \in {"claim", "finish", "write"} /\ tid[g] = t

Final(t) == IsTerminal(repo[t]) /\ ~StaleWriter(t)

\* Once a task is terminal and no goroutine holds a copy read earlier, its row
\* never changes again: relaunched and late executions, acknowledgements and
\* cancels all stop at the terminal check. Only a restart of the in-memory
\* broker forgets it.
FinalOnceDrained ==
    [][\A t \in Tasks :
          Final(t) /\ (Durable \/ crashes' = crashes) => repo'[t] = repo[t] /\ Final(t)']_vars

\* A row never mixes the outcomes of two racing writers: only a COMPLETED row
\* carries a result, only a FAILED row an error, and a row that was retried
\* stays within its budget.
RowCoherent(row) ==
    /\ row.result => row.status = "COMPLETED"
    /\ row.error => row.status = "FAILED"
    /\ row.retryCount = 0 \/ row.retryCount <= row.maxRetries
    /\ row.status = "RETRYING" => row.retryCount > 0
    /\ row.status = "FAILED" => row.retryCount >= row.maxRetries

OutcomeMatchesStatus == \A t \in Tasks : RowCoherent(repo[t])

\* Isolation (ADR-028): an expert-targeted task is only ever executed by agents that
\* carry the expert's label - by the expert itself where no other agent shares the
\* label; where one does, a relaunch after a restart may pick it, as relaunch does not
\* check the name as DispatchTask does - and the payload it is executed with carries no
\* other agent's context slice.
ExpertIsolation ==
    \A g \in Threads : pc[g] \in ExecStates =>
        LET row == repo[tid[g]] IN
        row.expert # NoAgent =>
            /\ Scope[agt[g]] = row.expert
            /\ row.slice \in {NoAgent, row.expert}

\* What the comment of relaunch says of a recovered task: one "targeted at a
\* now-missing expert is left untouched (never re-routed)". Select filters by label,
\* and relaunch does not compare the agent's name.
NeverRerouted ==
    \A g \in Threads : pc[g] \in ExecStates => selectExpert(repo[tid[g]].expert, agt[g])

\* The outcome of a task is announced: as long as the broker did not restart
\* and no error path was taken for it, a terminal status in the table has been
\* handed to the publisher or is about to be by the goroutine that wrote it.
OutcomeAnnounced ==
    \A t \in Tasks :
        IsTerminal(repo[t]) /\ crashes = 0 /\ t \notin abandoned =>
            \/ repo[t].status \in announced[t]
            \/ \E g \in Threads : /\ pc[g] = "announce" /\ tid[g] = t
                                  /\ snap[g].status = repo[t].status

\* Every dispatched task settles: it leaves PENDING and DISPATCHED, also when
\* the broker restarts in between (until the error paths give it up).
Settles ==
    \A t \in Tasks : repo[t].status \in InFlight ~> repo[t].status \notin InFlight

Lifecycle == INSTANCE TaskLifecycle
                 WITH status <- [t \in Tasks |-> repo[t].status],
                      open <- [t \in Tasks |-> StaleWriter(t)]

\* The broker implements the abstract task lifecycle: its goroutines change a
\* status only through a read-modify-write that began while the task was not
\* terminal, and rows leave the table only when an in-memory broker restarts.
ImplementsLifecycle == Lifecycle!Spec

\* The contract of task_broker.proto, "Terminal statuses (COMPLETED, FAILED,
\* CANCELLED) are immutable": a terminal status never changes.
TerminalImmutable ==
    [][\A t \in Tasks : IsTerminal(repo[t]) => repo'[t].status = repo[t].status]_vars

\* task_broker.proto on RETRYING, "a new dispatch to an eligible agent is
\* pending": a retrying task is dispatched again or ends.
RetryRedispatched ==
    \A t \in Tasks : repo[t].status = "RETRYING" ~> repo[t].status # "RETRYING"

=============================================================================
