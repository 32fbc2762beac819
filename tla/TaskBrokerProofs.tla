--------------------------- MODULE TaskBrokerProofs ---------------------------
(***************************************************************************)
(* Proofs about the task broker, for any number of tasks, goroutines,      *)
(* agents, requests and restarts.                                          *)
(***************************************************************************)
EXTENDS TaskBroker, FiniteSetTheorems, TLAPS

(* Applying an acknowledgement to a row gives a row. *)
LEMMA AckType ==
    ASSUME NEW row \in Row, NEW s, NEW r \in BOOLEAN, NEW e \in BOOLEAN
    PROVE  applyAcknowledgement(row, s, r, e) \in Row
<1>1. /\ row.retryCount \in Nat /\ row.maxRetries \in Int
      /\ row.retryCount + 1 \in Nat
    BY DEF Row
<1>2. CASE s = "COMPLETED"
    BY <1>2 DEF applyAcknowledgement, Row, Statuses
<1>3. CASE s = "FAILED"
    <2>1. [row EXCEPT !.status = "RETRYING", !.retryCount = @ + 1] \in Row
        BY <1>1 DEF Row, Statuses
    <2>2. [row EXCEPT !.status = "FAILED", !.error = e] \in Row
        BY DEF Row, Statuses
    <2> QED BY <1>3, <2>1, <2>2 DEF applyAcknowledgement
<1>4. CASE s # "COMPLETED" /\ s # "FAILED"
    <2>1. [row EXCEPT !.status = "CANCELLED"] \in Row
        BY DEF Row, Statuses
    <2> QED BY <1>4, <2>1 DEF applyAcknowledgement
<1> QED BY <1>2, <1>3, <1>4

(* The row that stands for no row is one. *)
LEMMA NoRowType == NoRow \in Row
BY DEF NoRow, Row, Target

(* DispatchTask saves a row. *)
LEMMA DispatchedRowType ==
    ASSUME NEW req \in Requests, NEW a \in Agents
    PROVE  DispatchedRow(req, a) \in Row
BY TaskBrokerAssumption
   DEF DispatchedRow, NoRow, Row, Request, BoundSlice, Target, Statuses

(* A goroutine beyond "idle" works on a task. *)
Busy == \A g \in Threads : pc[g] # "idle" => tid[g] \in Tasks

Typed == TypeOK /\ Busy

(* The broker starts well typed, with every goroutine idle. *)
LEMMA TypedInit == Init => Typed
<1> SUFFICES ASSUME Init PROVE Typed
    OBVIOUS
<1>1. TypeOK
    BY NoRowType, TaskBrokerAssumption
       DEF Init, TypeOK, States, ExecStates, Target, RecoveryStart, RecoveryType, Passes
<1>2. Busy
    BY DEF Init, Busy
<1> QED BY <1>1, <1>2 DEF Typed

(* No step breaks the types, and a busy goroutine has a task. *)
LEMMA TypedStep == Typed /\ [Next]_vars => Typed'
<1> SUFFICES ASSUME Typed, [Next]_vars PROVE Typed'
    OBVIOUS
<1> USE DEF Typed
<1>1. ASSUME NEW t \in Tasks, NEW g \in Threads, NEW req \in Requests, NEW a \in Agents,
             DispatchTask(g, t, req, a)
      PROVE  Typed'
    <2> USE DispatchedRowType DEF DispatchTask, Launch
    <2>1. TypeOK'
        BY <1>1 DEF TypeOK, States, ExecStates, Target
    <2>2. Busy'
        BY <1>1 DEF TypeOK, Busy
    <2> QED BY <2>1, <2>2
<1>2. ASSUME NEW t \in Tasks, NEW req \in Requests, NEW a \in Agents,
             DispatchSaveUncertain(t, req, a)
      PROVE  Typed'
    BY <1>2, DispatchedRowType DEF DispatchSaveUncertain, TypeOK, Busy
<1>3. ASSUME NEW t \in Tasks, NEW g \in Threads, NEW s \in Acks,
             NEW r \in BOOLEAN, NEW e \in BOOLEAN, AcknowledgeRead(g, t, s, r, e)
      PROVE  Typed'
    BY <1>3, AckType DEF AcknowledgeRead, TypeOK, Busy, States
<1>4. ASSUME NEW t \in Tasks, NEW g \in Threads, CancelRead(g, t)
      PROVE  Typed'
    <2>1. [repo[t] EXCEPT !.status = "CANCELLED"] \in Row
        BY DEF TypeOK, Row, Statuses
    <2> QED BY <1>4, <2>1 DEF CancelRead, TypeOK, Busy, States
<1>5. ASSUME NEW g \in Threads, HandlerWrite(g)
      PROVE  Typed'
    BY <1>5 DEF HandlerWrite, Goto, TypeOK, Busy, States
<1>6. ASSUME NEW g \in Threads, ExecRead(g)
      PROVE  Typed'
    <2>1. tid[g] \in Tasks
        BY <1>6 DEF ExecRead, Busy
    <2>2. [repo[tid[g]] EXCEPT !.status = "DISPATCHED", !.dispatchedTo = agt[g]] \in Row
        <3>1. repo[tid[g]] \in Row /\ agt[g] \in Target
            BY <2>1 DEF TypeOK
        <3>2. ASSUME NEW row \in Row, NEW a \in Target
              PROVE  [row EXCEPT !.status = "DISPATCHED", !.dispatchedTo = a] \in Row
            BY DEF Row, Statuses
        <3> QED BY <3>1, <3>2
    <2> QED BY <1>6, <2>2, NoRowType DEF ExecRead, Goto, Exit, TypeOK, Busy, States,
                 ExecStates, Target
<1>7. ASSUME NEW g \in Threads, ExecClaim(g)
      PROVE  Typed'
    BY <1>7, NoRowType DEF ExecClaim, Goto, TypeOK, Busy, States, ExecStates
<1>8. ASSUME NEW g \in Threads, NEW o \in Outcomes, ExecReturn(g, o)
      PROVE  Typed'
    <2>1. applyAcknowledgement(repo[tid[g]], o.status, o.content, o.content) \in Row
        BY <1>8, AckType DEF ExecReturn, Busy, TypeOK, Outcomes
    <2> QED BY <1>8, <2>1, NoRowType DEF ExecReturn, Goto, Exit, TypeOK, Busy, States,
                 ExecStates, Target
<1>9. ASSUME NEW g \in Threads, ExecFinish(g)
      PROVE  Typed'
    BY <1>9 DEF ExecFinish, Goto, TypeOK, Busy, States
<1>10. ASSUME NEW g \in Threads, Announce(g)
       PROVE  Typed'
    BY <1>10, NoRowType DEF Announce, Exit, TypeOK, Busy, States, Target
<1>11. ASSUME NEW g \in Threads, ExecReadError(g)
       PROVE  Typed'
    BY <1>11, NoRowType DEF ExecReadError, Exit, TypeOK, Busy, States, Target
<1>12. ASSUME NEW g \in Threads, NEW applied \in BOOLEAN, WriteError(g, applied)
       PROVE  Typed'
    BY <1>12, NoRowType DEF WriteError, Exit, TypeOK, Busy, States, Target
<1>13. CASE RecoverTurn
    <2>1. recovery' \in RecoveryType
        BY <1>13 DEF RecoverTurn, TypeOK, RecoveryType, NextPass, Passes
    <2> QED BY <1>13, <2>1 DEF RecoverTurn, TypeOK, Busy
<1>14. CASE RecoverList
    <2>1. recovery' \in RecoveryType
        <3>1. PICK n \in Tasks \cup (0 .. Cardinality(Tasks)) :
                 recovery' = [recovery EXCEPT !.listed = TRUE, !.token = n,
                                !.page = Page(recovery.pass, recovery.token)]
            BY <1>14 DEF RecoverList
        <3>2. n \in Nat
            BY TaskBrokerAssumption
        <3>3. Page(recovery.pass, recovery.token) \subseteq Tasks
            BY DEF Page, FirstPage, Matching
        <3> QED BY <3>1, <3>2, <3>3 DEF TypeOK, RecoveryType
    <2> QED BY <1>14, <2>1 DEF RecoverList, TypeOK, Busy
<1>15. ASSUME NEW g \in Threads, NEW t \in Tasks, NEW a \in Agents, Relaunch(g, t, a)
       PROVE  Typed'
    <2>1. recovery' \in RecoveryType
        BY <1>15 DEF Relaunch, TypeOK, RecoveryType
    <2> QED BY <1>15, <2>1 DEF Relaunch, Launch, TypeOK, Busy, States, ExecStates, Target
<1>16. CASE RecoverListError
    BY <1>16 DEF RecoverListError, RecoveryStart, TypeOK, Busy, RecoveryType, Passes
<1>17. ASSUME NEW t \in Tasks, RelaunchFails(t)
       PROVE  Typed'
    <2>1. recovery' \in RecoveryType
        BY <1>17 DEF RelaunchFails, TypeOK, RecoveryType
    <2> QED BY <1>17, <2>1 DEF RelaunchFails, TypeOK, Busy
<1>18. CASE Crash
    BY <1>18, NoRowType, TaskBrokerAssumption
       DEF Crash, TypeOK, Busy, States, ExecStates, Target, RecoveryStart, RecoveryType, Passes
<1>19. CASE UNCHANGED vars
    BY <1>19 DEF vars, TypeOK, Busy
<1> QED
    BY <1>1, <1>2, <1>3, <1>4, <1>5, <1>6, <1>7, <1>8, <1>9, <1>10, <1>11, <1>12,
       <1>13, <1>14, <1>15, <1>16, <1>17, <1>18, <1>19
       DEF Next, ClientCall, ThreadStep, ThreadError, RecoverStep, RecoverError

(* The table, the goroutines and the recovery cursor keep their types, and a
   goroutine never works on a task that does not exist. *)
THEOREM BrokerTypes == Spec => []TypeOK
<1>1. Typed => TypeOK
    BY DEF Typed
<1> QED BY <1>1, TypedInit, TypedStep, PTL DEF Spec

---------------------------------------------------------------------------
(* Rows never mix outcomes. *)

Writers == {"claim", "finish", "write"}

Coherent ==
    /\ \A t \in Tasks : RowCoherent(repo[t])
    /\ \A g \in Threads : pc[g] \in Writers => RowCoherent(snap[g])

(* An acknowledgement of a non-terminal coherent row gives a coherent row. *)
LEMMA AckCoherent ==
    ASSUME NEW row \in Row, NEW s, NEW r \in BOOLEAN, NEW e \in BOOLEAN,
           RowCoherent(row), ~IsTerminal(row)
    PROVE  RowCoherent(applyAcknowledgement(row, s, r, e))
<1>1. /\ row.retryCount \in Nat /\ row.maxRetries \in Int
      /\ row.result = FALSE /\ row.error = FALSE
    BY DEF Row, RowCoherent, IsTerminal, Terminal
<1>2. CASE s = "COMPLETED"
    BY <1>1, <1>2 DEF applyAcknowledgement, Row, RowCoherent, IsTerminal, Terminal
<1>3. CASE s = "FAILED"
    <2>1. CASE row.retryCount + 1 <= row.maxRetries
        <3> DEFINE new == [row EXCEPT !.status = "RETRYING", !.retryCount = @ + 1]
        <3>1. /\ new.status = "RETRYING" /\ new.retryCount = row.retryCount + 1
              /\ new.maxRetries = row.maxRetries
              /\ new.result = FALSE /\ new.error = FALSE
            BY <1>1 DEF Row
        <3>2. applyAcknowledgement(row, s, r, e) = new
            BY <1>3, <2>1 DEF applyAcknowledgement
        <3> HIDE DEF new
        <3> QED BY <1>1, <2>1, <3>1, <3>2 DEF RowCoherent
    <2>2. CASE ~(row.retryCount + 1 <= row.maxRetries)
        <3> DEFINE new == [row EXCEPT !.status = "FAILED", !.error = e]
        <3>1. /\ new.status = "FAILED" /\ new.retryCount = row.retryCount
              /\ new.maxRetries = row.maxRetries /\ new.result = FALSE
            BY <1>1 DEF Row
        <3>2. applyAcknowledgement(row, s, r, e) = new
            BY <1>3, <2>2 DEF applyAcknowledgement
        <3>3. row.retryCount = 0 \/ row.retryCount <= row.maxRetries
            BY DEF RowCoherent
        <3>4. row.retryCount >= row.maxRetries
            BY <1>1, <2>2
        <3> HIDE DEF new
        <3> QED BY <1>1, <3>1, <3>2, <3>3, <3>4 DEF RowCoherent
    <2> QED BY <2>1, <2>2
<1>4. CASE s # "COMPLETED" /\ s # "FAILED"
    BY <1>1, <1>4 DEF applyAcknowledgement, Row, RowCoherent
<1> QED BY <1>2, <1>3, <1>4

(* Rows and the copies about to be written stay coherent. *)
LEMMA CoherentStep == Typed /\ Coherent /\ [Next]_vars => Coherent'
<1> SUFFICES ASSUME Typed, Coherent, [Next]_vars PROVE Coherent'
    OBVIOUS
<1> USE DEF Typed, Coherent, Writers
<1>0. RowCoherent(NoRow)
    BY DEF RowCoherent, NoRow
<1>1. ASSUME NEW t \in Tasks, NEW req \in Requests, NEW a \in Agents
      PROVE  RowCoherent(DispatchedRow(req, a))
    <2>1. req.maxRetries \in Int
        BY TaskBrokerAssumption DEF Request
    <2> QED BY <2>1 DEF RowCoherent, DispatchedRow, NoRow
<1>2. ASSUME NEW t \in Tasks, NEW g \in Threads, NEW req \in Requests, NEW a \in Agents,
             DispatchTask(g, t, req, a)
      PROVE  Coherent'
    BY <1>1, <1>2 DEF DispatchTask, Launch, TypeOK
<1>3. ASSUME NEW t \in Tasks, NEW req \in Requests, NEW a \in Agents,
             DispatchSaveUncertain(t, req, a)
      PROVE  Coherent'
    BY <1>1, <1>3 DEF DispatchSaveUncertain, TypeOK
<1>4. ASSUME NEW t \in Tasks, NEW g \in Threads, NEW s \in Acks,
             NEW r \in BOOLEAN, NEW e \in BOOLEAN, AcknowledgeRead(g, t, s, r, e)
      PROVE  Coherent'
    BY <1>4, AckCoherent DEF AcknowledgeRead, TypeOK
<1>5. ASSUME NEW t \in Tasks, NEW g \in Threads, CancelRead(g, t)
      PROVE  Coherent'
    <2>1. RowCoherent([repo[t] EXCEPT !.status = "CANCELLED"])
        BY <1>5 DEF CancelRead, TypeOK, Row, RowCoherent, IsTerminal, Terminal
    <2> QED BY <1>5, <2>1 DEF CancelRead, TypeOK
<1>6. ASSUME NEW g \in Threads, HandlerWrite(g)
      PROVE  Coherent'
    BY <1>6 DEF HandlerWrite, Goto, TypeOK
<1>7. ASSUME NEW g \in Threads, ExecRead(g)
      PROVE  Coherent'
    <2>1. tid[g] \in Tasks
        BY <1>7 DEF ExecRead, Busy
    <2>2. CASE IsTerminal(repo[tid[g]])
        BY <1>7, <2>2 DEF ExecRead, Exit, TypeOK
    <2>3. CASE ~IsTerminal(repo[tid[g]])
        <3> DEFINE new == [repo[tid[g]] EXCEPT !.status = "DISPATCHED", !.dispatchedTo = agt[g]]
        <3>1. RowCoherent(new)
            BY <2>1, <2>3 DEF TypeOK, Row, RowCoherent, IsTerminal, Terminal
        <3> QED BY <1>7, <2>3, <3>1 DEF ExecRead, Goto, TypeOK
    <2> QED BY <2>2, <2>3
<1>8. ASSUME NEW g \in Threads, ExecClaim(g)
      PROVE  Coherent'
    BY <1>8 DEF ExecClaim, Goto, TypeOK
<1>9. ASSUME NEW g \in Threads, NEW o \in Outcomes, ExecReturn(g, o)
      PROVE  Coherent'
    <2>1. tid[g] \in Tasks /\ o.content \in BOOLEAN
        BY <1>9 DEF ExecReturn, Busy, Outcomes
    <2>2. CASE IsTerminal(repo[tid[g]])
        BY <1>9, <2>2 DEF ExecReturn, Exit, TypeOK
    <2>3. CASE ~IsTerminal(repo[tid[g]])
        <3>1. RowCoherent(applyAcknowledgement(repo[tid[g]], o.status, o.content, o.content))
            BY <2>1, <2>3, AckCoherent DEF TypeOK
        <3> QED BY <1>9, <2>3, <3>1 DEF ExecReturn, Goto, TypeOK
    <2> QED BY <2>2, <2>3
<1>10. ASSUME NEW g \in Threads, ExecFinish(g)
       PROVE  Coherent'
    BY <1>10 DEF ExecFinish, Goto, TypeOK
<1>11. ASSUME NEW g \in Threads, Announce(g)
       PROVE  Coherent'
    BY <1>11 DEF Announce, Exit, TypeOK
<1>12. ASSUME NEW g \in Threads, ThreadError(g)
       PROVE  Coherent'
    BY <1>12 DEF ThreadError, ExecReadError, WriteError, Exit, TypeOK
<1>13. CASE RecoverTurn \/ RecoverList \/ RecoverListError \/ \E t \in Tasks : RelaunchFails(t)
    BY <1>13 DEF RecoverTurn, RecoverList, RecoverListError, RelaunchFails
<1>14. ASSUME NEW g \in Threads, NEW t \in Tasks, NEW a \in Agents, Relaunch(g, t, a)
       PROVE  Coherent'
    BY <1>14 DEF Relaunch, Launch, TypeOK
<1>15. CASE Crash
    BY <1>0, <1>15 DEF Crash
<1>16. CASE UNCHANGED vars
    BY <1>16 DEF vars
<1> QED
    BY <1>2, <1>3, <1>4, <1>5, <1>6, <1>7, <1>8, <1>9, <1>10, <1>11, <1>12,
       <1>13, <1>14, <1>15, <1>16
       DEF Next, ClientCall, ThreadStep, RecoverStep, RecoverError

(* Whatever writers race on a task, its row carries the result, the error and
   the retry count that belong to its status: Update replaces the whole row by
   a copy that was non-terminal when it was read. *)
THEOREM BrokerOutcomes == Spec => []OutcomeMatchesStatus
<1>1. Init => Coherent
    BY DEF Init, Coherent, RowCoherent, NoRow, Writers
<1>2. Coherent => OutcomeMatchesStatus
    BY DEF Coherent, OutcomeMatchesStatus
<1> QED BY <1>1, <1>2, TypedInit, TypedStep, CoherentStep, PTL DEF Spec

---------------------------------------------------------------------------
(* Expert isolation. *)

Existing == \A g \in Threads : pc[g] # "idle" => repo[tid[g]].status # "NONE"

(* A goroutine's copy of a row differs from the row only in its outcome. *)
SameRequest ==
    \A g \in Threads : pc[g] \in Writers =>
        /\ snap[g].status # "NONE"
        /\ snap[g].expert = repo[tid[g]].expert
        /\ snap[g].slice = repo[tid[g]].slice

SliceBound ==
    \A t \in Tasks : repo[t].expert # NoAgent => repo[t].slice \in {NoAgent, repo[t].expert}

RightAgent ==
    \A g \in Threads : pc[g] \in ExecStates =>
        (repo[tid[g]].expert # NoAgent => Scope[agt[g]] = repo[tid[g]].expert)

PageExists == \A t \in recovery.page : repo[t].status # "NONE"

Isolated == Existing /\ SameRequest /\ SliceBound /\ RightAgent /\ PageExists

(* An acknowledgement changes the outcome, never the request of a row. *)
LEMMA AckKeepsRequest ==
    ASSUME NEW row \in Row, NEW s, NEW r, NEW e
    PROVE  /\ applyAcknowledgement(row, s, r, e).expert = row.expert
           /\ applyAcknowledgement(row, s, r, e).slice = row.slice
           /\ applyAcknowledgement(row, s, r, e).status \notin {"NONE", "PENDING", "DISPATCHED"}
<1>1. CASE s = "COMPLETED"
    BY <1>1 DEF applyAcknowledgement, Row
<1>2. CASE s = "FAILED"
    BY <1>2 DEF applyAcknowledgement, Row
<1>3. CASE s # "COMPLETED" /\ s # "FAILED"
    BY <1>3 DEF applyAcknowledgement, Row
<1> QED BY <1>1, <1>2, <1>3

(* Writing back a copy with the same request keeps every row's request. *)
LEMMA WriteIsolated ==
    ASSUME Typed, Isolated, NEW g \in Threads, pc[g] \in Writers,
           repo' = [repo EXCEPT ![tid[g]] = snap[g]]
    PROVE  /\ \A t \in Tasks : repo'[t].expert = repo[t].expert /\ repo'[t].slice = repo[t].slice
           /\ \A t \in Tasks : repo[t].status # "NONE" => repo'[t].status # "NONE"
BY DEF Typed, TypeOK, Busy, Isolated, SameRequest, Writers

(* No step changes the request of a row or runs it on another agent. *)
LEMMA IsolatedStep == Typed /\ Isolated /\ [Next]_vars => Isolated'
<1> SUFFICES ASSUME Typed, Isolated, [Next]_vars PROVE Isolated'
    OBVIOUS
<1> USE DEF Typed, Isolated, Writers
<1>1. ASSUME NEW req \in Requests, NEW a \in Agents,
             a \in Select(req.expert), selectExpert(req.expert, a)
      PROVE  /\ DispatchedRow(req, a).status = "PENDING"
             /\ DispatchedRow(req, a).expert = req.expert
             /\ req.expert # NoAgent =>
                  Scope[a] = req.expert /\ DispatchedRow(req, a).slice \in {NoAgent, req.expert}
    BY <1>1 DEF DispatchedRow, NoRow, Select, selectExpert, BoundSlice
<1>2. ASSUME NEW t \in Tasks, NEW g \in Threads, NEW req \in Requests, NEW a \in Agents,
             DispatchTask(g, t, req, a)
      PROVE  Isolated'
    <2> USE <1>1, <1>2 DEF DispatchTask, Launch, TypeOK, Busy
    <2>1. Existing' /\ PageExists'
        BY DEF Existing, PageExists, RecoveryType
    <2>2. SameRequest'
        BY DEF SameRequest, Existing
    <2>3. SliceBound'
        BY DEF SliceBound
    <2>4. RightAgent'
        BY DEF RightAgent, Existing, ExecStates
    <2> QED BY <2>1, <2>2, <2>3, <2>4
<1>3. ASSUME NEW t \in Tasks, NEW req \in Requests, NEW a \in Agents,
             DispatchSaveUncertain(t, req, a)
      PROVE  Isolated'
    <2> USE <1>1, <1>3 DEF DispatchSaveUncertain, TypeOK, Busy
    <2>1. Existing' /\ PageExists'
        BY DEF Existing, PageExists, RecoveryType
    <2>2. SameRequest'
        BY DEF SameRequest, Existing
    <2>3. SliceBound'
        BY DEF SliceBound
    <2>4. RightAgent'
        BY DEF RightAgent, Existing, ExecStates
    <2> QED BY <2>1, <2>2, <2>3, <2>4
<1>4. ASSUME NEW t \in Tasks, NEW g \in Threads, NEW s \in Acks,
             NEW r \in BOOLEAN, NEW e \in BOOLEAN, AcknowledgeRead(g, t, s, r, e)
      PROVE  Isolated'
    <2>1. repo[t] \in Row
        BY DEF TypeOK
    <2>2. /\ Existing' /\ PageExists' /\ SameRequest' /\ SliceBound'
        BY <1>4, <2>1, AckKeepsRequest
           DEF AcknowledgeRead, TypeOK, Existing, PageExists, SameRequest, SliceBound
    <2>3. RightAgent'
        BY <1>4 DEF AcknowledgeRead, TypeOK, RightAgent, ExecStates
    <2> QED BY <2>2, <2>3
<1>5. ASSUME NEW t \in Tasks, NEW g \in Threads, CancelRead(g, t)
      PROVE  Isolated'
    <2> DEFINE new == [repo[t] EXCEPT !.status = "CANCELLED"]
    <2>1. new.status = "CANCELLED" /\ new.expert = repo[t].expert /\ new.slice = repo[t].slice
        BY DEF TypeOK, Row
    <2> HIDE DEF new
    <2>2. snap' = [snap EXCEPT ![g] = new]
        BY <1>5 DEF CancelRead, new
    <2>3. /\ Existing' /\ PageExists' /\ SameRequest' /\ SliceBound'
        BY <1>5, <2>1, <2>2
           DEF CancelRead, TypeOK, Existing, PageExists, SameRequest, SliceBound
    <2>4. RightAgent'
        BY <1>5 DEF CancelRead, TypeOK, RightAgent, ExecStates
    <2> QED BY <2>3, <2>4
<1>6. ASSUME NEW g \in Threads, HandlerWrite(g) \/ ExecClaim(g) \/ ExecFinish(g)
      PROVE  Isolated'
    <2>1. /\ pc[g] \in Writers /\ repo' = [repo EXCEPT ![tid[g]] = snap[g]]
          /\ UNCHANGED <<tid, agt, recovery>>
          /\ \E st \in {"announce", "executing"} : \E row :
                /\ pc' = [pc EXCEPT ![g] = st]
                /\ snap' = [snap EXCEPT ![g] = row]
                /\ st \in ExecStates => pc[g] \in ExecStates
        BY <1>6 DEF HandlerWrite, ExecClaim, ExecFinish, Goto, ExecStates
    <2>2. /\ \A t \in Tasks : repo'[t].expert = repo[t].expert /\ repo'[t].slice = repo[t].slice
          /\ \A t \in Tasks : repo[t].status # "NONE" => repo'[t].status # "NONE"
        BY <2>1, WriteIsolated
    <2>3. Existing' /\ SameRequest'
        BY <2>1, <2>2 DEF Existing, SameRequest, TypeOK, Busy
    <2>4. SliceBound' /\ PageExists'
        BY <2>1, <2>2 DEF SliceBound, PageExists, TypeOK, RecoveryType
    <2>5. RightAgent'
        BY <2>1, <2>2 DEF RightAgent, TypeOK, Busy, ExecStates
    <2> QED BY <2>3, <2>4, <2>5
<1>7. ASSUME NEW g \in Threads, NEW row \in Row, NEW st \in States,
             pc[g] \in ExecStates, st \in Writers, Goto(g, st, row),
             row.status # "NONE", row.expert = repo[tid[g]].expert,
             row.slice = repo[tid[g]].slice, UNCHANGED <<repo, recovery>>
      PROVE  Isolated'
    BY <1>7 DEF Goto, TypeOK, Busy, ExecStates, Existing, SameRequest, SliceBound, RightAgent,
                PageExists
<1>8. ASSUME NEW g \in Threads, Exit(g), UNCHANGED <<repo, recovery>>
      PROVE  Isolated'
    BY <1>8 DEF Exit, TypeOK, ExecStates, Existing, SameRequest, SliceBound, RightAgent, PageExists
<1>9. ASSUME NEW g \in Threads, ExecRead(g)
      PROVE  Isolated'
    <2>1. tid[g] \in Tasks /\ pc[g] \in ExecStates
        BY <1>9 DEF ExecRead, Busy, ExecStates
    <2> DEFINE new == [repo[tid[g]] EXCEPT !.status = "DISPATCHED", !.dispatchedTo = agt[g]]
    <2>2. /\ new \in Row /\ new.status = "DISPATCHED"
          /\ new.expert = repo[tid[g]].expert /\ new.slice = repo[tid[g]].slice
        BY <2>1, ZenonT(30) DEF TypeOK, Row, Statuses
    <2>3. Exit(g) \/ Goto(g, "claim", new)
        BY <1>9 DEF ExecRead
    <2>4. UNCHANGED <<repo, recovery>>
        BY <1>9 DEF ExecRead
    <2> HIDE DEF new
    <2>5. "claim" \in States
        BY DEF States, ExecStates
    <2> QED BY <1>7, <1>8, <2>1, <2>2, <2>3, <2>4, <2>5
<1>10. ASSUME NEW g \in Threads, NEW o \in Outcomes, ExecReturn(g, o)
       PROVE  Isolated'
    <2>1. tid[g] \in Tasks /\ pc[g] \in ExecStates /\ repo[tid[g]] \in Row /\ o.content \in BOOLEAN
        BY <1>10 DEF ExecReturn, Busy, ExecStates, TypeOK, Outcomes
    <2> DEFINE new == applyAcknowledgement(repo[tid[g]], o.status, o.content, o.content)
    <2>2. /\ new \in Row /\ new.status # "NONE"
          /\ new.expert = repo[tid[g]].expert /\ new.slice = repo[tid[g]].slice
        BY <2>1, AckType, AckKeepsRequest
    <2>3. Exit(g) \/ Goto(g, "finish", new)
        BY <1>10 DEF ExecReturn
    <2>4. UNCHANGED <<repo, recovery>>
        BY <1>10 DEF ExecReturn
    <2> HIDE DEF new
    <2>5. "finish" \in States
        BY DEF States, ExecStates
    <2> QED BY <1>7, <1>8, <2>1, <2>2, <2>3, <2>4, <2>5
<1>11. ASSUME NEW g \in Threads, Announce(g) \/ ExecReadError(g)
       PROVE  Isolated'
    BY <1>8, <1>11 DEF Announce, ExecReadError
<1>12. ASSUME NEW g \in Threads, NEW applied \in BOOLEAN, WriteError(g, applied)
       PROVE  Isolated'
    <2>1. CASE ~applied
        BY <1>8, <1>12, <2>1 DEF WriteError
    <2>2. CASE applied
        <3>1. /\ pc[g] \in Writers /\ repo' = [repo EXCEPT ![tid[g]] = snap[g]]
              /\ Exit(g) /\ UNCHANGED recovery
            BY <1>12, <2>2 DEF WriteError
        <3>2. /\ \A t \in Tasks : repo'[t].expert = repo[t].expert /\ repo'[t].slice = repo[t].slice
              /\ \A t \in Tasks : repo[t].status # "NONE" => repo'[t].status # "NONE"
            BY <3>1, WriteIsolated
        <3>3. Existing' /\ SameRequest' /\ SliceBound'
            BY <3>1, <3>2 DEF Exit, Existing, SameRequest, SliceBound, TypeOK, Busy
        <3>4. RightAgent' /\ PageExists'
            BY <3>1, <3>2 DEF Exit, RightAgent, PageExists, TypeOK, Busy, RecoveryType, ExecStates
        <3> QED BY <3>3, <3>4
    <2> QED BY <2>1, <2>2
<1>13. ASSUME UNCHANGED <<repo, pc, tid, agt, snap>>, PageExists'
       PROVE  Isolated'
    BY <1>13 DEF Existing, SameRequest, SliceBound, RightAgent
<1>14. CASE RecoverTurn
    <2>1. recovery'.page = {}
        BY <1>14 DEF RecoverTurn, TypeOK, RecoveryType
    <2> QED BY <1>13, <1>14, <2>1 DEF RecoverTurn, PageExists
<1>15. CASE RecoverList
    <2>1. recovery'.page = Page(recovery.pass, recovery.token)
        BY <1>15 DEF RecoverList, TypeOK, RecoveryType
    <2>2. \A t \in Page(recovery.pass, recovery.token) : repo[t].status = recovery.pass
        BY DEF Page, FirstPage, Matching
    <2>3. recovery.pass # "NONE"
        BY DEF TypeOK, RecoveryType, Passes
    <2> QED BY <1>13, <1>15, <2>1, <2>2, <2>3 DEF RecoverList, PageExists
<1>16. CASE RecoverListError
    BY <1>13, <1>16 DEF RecoverListError, RecoveryStart, PageExists
<1>17. ASSUME NEW t \in Tasks, RelaunchFails(t)
       PROVE  Isolated'
    <2>1. recovery'.page = recovery.page \ {t}
        BY <1>17 DEF RelaunchFails, TypeOK, RecoveryType
    <2> QED BY <1>13, <1>17, <2>1 DEF RelaunchFails, PageExists
<1>18. ASSUME NEW g \in Threads, NEW t \in Tasks, NEW a \in Agents, Relaunch(g, t, a)
       PROVE  Isolated'
    <2>1. recovery'.page = recovery.page \ {t} /\ repo[t].status # "NONE"
        BY <1>18 DEF Relaunch, IsNext, TypeOK, RecoveryType, PageExists
    <2>2. repo[t].expert # NoAgent => Scope[a] = repo[t].expert
        BY <1>18 DEF Relaunch, Select
    <2>3. Existing' /\ SameRequest' /\ SliceBound' /\ PageExists'
        BY <1>18, <2>1 DEF Relaunch, Launch, TypeOK, Existing, SameRequest, SliceBound, PageExists
    <2>4. RightAgent'
        BY <1>18, <2>1, <2>2 DEF Relaunch, Launch, TypeOK, RightAgent, ExecStates
    <2> QED BY <2>3, <2>4
<1>19. CASE Crash
    BY <1>19 DEF Crash, Existing, SameRequest, SliceBound, RightAgent, PageExists,
                 RecoveryStart, NoRow, ExecStates
<1>20. CASE UNCHANGED vars
    BY <1>13, <1>20 DEF vars, PageExists
<1> QED
    BY <1>2, <1>3, <1>4, <1>5, <1>6, <1>9, <1>10, <1>11, <1>12, <1>14, <1>15,
       <1>16, <1>17, <1>18, <1>19, <1>20
       DEF Next, ClientCall, ThreadStep, ThreadError, RecoverStep, RecoverError

(* Isolation (ADR-028): an expert-targeted task is executed only by agents with its
   expert's label, at dispatch and at every relaunch, with no foreign slice. *)
THEOREM BrokerIsolation == Spec => []ExpertIsolation
<1>1. Init => Isolated
    BY DEF Init, Isolated, Existing, SameRequest, SliceBound, RightAgent, PageExists,
           RecoveryStart, NoRow, ExecStates, Writers
<1>2. Typed /\ Isolated => ExpertIsolation
    BY DEF Typed, Busy, Isolated, SliceBound, RightAgent, ExpertIsolation, ExecStates
<1> QED BY <1>1, <1>2, TypedInit, TypedStep, IsolatedStep, PTL DEF Spec

---------------------------------------------------------------------------
(* No task is lost. *)

(* A copy about to be written by a handler or as an outcome is not in flight;
   recovery lists a page only when the one before is worked off. *)
WritesSettle ==
    /\ \A g \in Threads : pc[g] \in {"finish", "write"} => snap[g].status \notin InFlight
    /\ ~recovery.listed => recovery.page = {}

NotLost(t) ==
    \/ Owned(t)
    \/ Durable /\ Ahead(t)
    \/ t \in abandoned
    \/ recovery.pass = "aborted"

(* What a page leaves out comes after it, and then there is a next page. *)
LEMMA PageCovers ==
    ASSUME NEW S, S \subseteq Nat, IsFiniteSet(S), NEW t \in S, t \notin FirstPage(S)
    PROVE  /\ Cardinality(S) > PageSize
           /\ \A u \in FirstPage(S) : u < t
<1>1. /\ IsFiniteSet(Before(S, t)) /\ Before(S, t) \subseteq S \ {t}
      /\ Cardinality(Before(S, t)) \in Nat
    BY FS_Subset, FS_CardinalityType DEF Before
<1>2. Cardinality(Before(S, t)) >= PageSize
    BY <1>1, TaskBrokerAssumption DEF FirstPage
<1>3. Cardinality(S) > PageSize
    <2>1. Cardinality(S) \in Nat /\ IsFiniteSet(S \ {t}) /\ Cardinality(S \ {t}) = Cardinality(S) - 1
        BY FS_RemoveElement, FS_CardinalityType
    <2>2. Cardinality(Before(S, t)) <= Cardinality(S \ {t})
        BY <1>1, <2>1, FS_Subset
    <2> QED BY <1>1, <1>2, <2>1, <2>2, TaskBrokerAssumption
<1>4. ASSUME NEW u \in FirstPage(S), ~(u < t)
      PROVE  FALSE
    <2>1. u \in S /\ Cardinality(Before(S, u)) < PageSize
        BY DEF FirstPage
    <2>2. IsFiniteSet(Before(S, u)) /\ Cardinality(Before(S, u)) \in Nat
        BY FS_Subset, FS_CardinalityType DEF Before
    <2>3. Before(S, t) \subseteq Before(S, u)
        <3> SUFFICES ASSUME NEW v \in S, v < t PROVE v < u
            BY DEF Before
        <3>1. v \in Nat /\ u \in Nat /\ t \in Nat
            BY <2>1
        <3> QED BY <1>4, <3>1
    <2>4. Cardinality(Before(S, t)) <= Cardinality(Before(S, u))
        BY <2>2, <2>3, FS_Subset
    <2> QED BY <1>1, <1>2, <2>1, <2>2, <2>4, TaskBrokerAssumption
<1> QED BY <1>3, <1>4

(* What is written as an outcome is not in flight, and an unlisted page is empty. *)
LEMMA WritesSettleStep == Typed /\ WritesSettle /\ [Next]_vars => WritesSettle'
<1> SUFFICES ASSUME Typed, WritesSettle, [Next]_vars PROVE WritesSettle'
    OBVIOUS
<1> USE DEF Typed, WritesSettle
<1>1. ASSUME UNCHANGED recovery, NEW g \in Threads,
             \/ pc' = [pc EXCEPT ![g] = "idle"]
             \/ pc' = [pc EXCEPT ![g] = "launched"] /\ UNCHANGED snap
             \/ \E st \in {"claim", "executing", "announce"} : pc' = [pc EXCEPT ![g] = st],
             \A h \in Threads \ {g} : snap'[h] = snap[h]
      PROVE  WritesSettle'
    BY <1>1 DEF TypeOK
<1>2. ASSUME NEW t \in Tasks, NEW g \in Threads, NEW req \in Requests, NEW a \in Agents,
             DispatchTask(g, t, req, a)
      PROVE  WritesSettle'
    BY <1>2 DEF DispatchTask, Launch, TypeOK
<1>3. ASSUME NEW t \in Tasks, NEW req \in Requests, NEW a \in Agents,
             DispatchSaveUncertain(t, req, a)
      PROVE  WritesSettle'
    BY <1>3 DEF DispatchSaveUncertain
<1>4. ASSUME NEW t \in Tasks, NEW g \in Threads, NEW s \in Acks,
             NEW r \in BOOLEAN, NEW e \in BOOLEAN, AcknowledgeRead(g, t, s, r, e)
      PROVE  WritesSettle'
    BY <1>4, AckKeepsRequest DEF AcknowledgeRead, TypeOK, InFlight
<1>5. ASSUME NEW t \in Tasks, NEW g \in Threads, CancelRead(g, t)
      PROVE  WritesSettle'
    <2>1. [repo[t] EXCEPT !.status = "CANCELLED"].status \notin InFlight
        BY DEF TypeOK, Row, InFlight
    <2> QED BY <1>5, <2>1 DEF CancelRead, TypeOK
<1>6. ASSUME NEW g \in Threads, HandlerWrite(g) \/ ExecClaim(g) \/ ExecFinish(g)
      PROVE  WritesSettle'
    BY <1>6 DEF HandlerWrite, ExecClaim, ExecFinish, Goto, TypeOK
<1>7. ASSUME NEW g \in Threads, ExecRead(g) \/ Announce(g) \/ ThreadError(g)
      PROVE  WritesSettle'
    BY <1>7 DEF ExecRead, Announce, ThreadError, ExecReadError, WriteError, Exit, Goto, TypeOK
<1>8. ASSUME NEW g \in Threads, NEW o \in Outcomes, ExecReturn(g, o)
      PROVE  WritesSettle'
    <2>1. repo[tid[g]] \in Row
        BY <1>8 DEF ExecReturn, Busy, TypeOK
    <2>2. applyAcknowledgement(repo[tid[g]], o.status, o.content, o.content).status \notin InFlight
        BY <2>1, AckKeepsRequest DEF InFlight
    <2> QED BY <1>8, <2>2 DEF ExecReturn, Exit, Goto, TypeOK
<1>9. CASE RecoverTurn \/ RecoverList \/ RecoverListError \/ \E t \in Tasks : RelaunchFails(t)
    <2>1. UNCHANGED <<pc, snap>>
        BY <1>9 DEF RecoverTurn, RecoverList, RecoverListError, RelaunchFails
    <2>2. ~recovery'.listed => recovery'.page = {}
        <3>1. CASE RecoverTurn
            BY <3>1 DEF RecoverTurn, TypeOK, RecoveryType
        <3>2. CASE RecoverList
            BY <3>2 DEF RecoverList, TypeOK, RecoveryType
        <3>3. CASE RecoverListError
            BY <3>3 DEF RecoverListError, RecoveryStart
        <3>4. ASSUME NEW t \in Tasks, RelaunchFails(t) PROVE recovery'.listed
            BY <3>4 DEF RelaunchFails, IsNext, TypeOK, RecoveryType
        <3> QED BY <1>9, <3>1, <3>2, <3>3, <3>4
    <2> QED BY <2>1, <2>2
<1>10. ASSUME NEW g \in Threads, NEW t \in Tasks, NEW a \in Agents, Relaunch(g, t, a)
       PROVE  WritesSettle'
    BY <1>10 DEF Relaunch, Launch, IsNext, TypeOK, RecoveryType
<1>11. CASE Crash
    BY <1>11 DEF Crash, RecoveryStart
<1>12. CASE UNCHANGED vars
    BY <1>12 DEF vars
<1> QED
    BY <1>2, <1>3, <1>4, <1>5, <1>6, <1>7, <1>8, <1>9, <1>10, <1>11, <1>12
       DEF Next, ClientCall, ThreadStep, RecoverStep, RecoverError

(* No step leaves a task in flight that nobody will drive on. *)
LEMMA OwnedStep ==
    ASSUME Typed, WritesSettle, InFlightOwned, [Next]_vars
    PROVE  InFlightOwned'
<1> USE DEF Typed, WritesSettle
<1> SUFFICES ASSUME NEW t \in Tasks, repo'[t].status \in InFlight
             PROVE  NotLost(t)'
    BY DEF InFlightOwned, NotLost
<1>0. repo[t].status \in InFlight => NotLost(t)
    BY DEF InFlightOwned, NotLost
(* A step that keeps t's status, the goroutines driving it and the cursor. *)
<1>1. ASSUME repo'[t].status = repo[t].status, UNCHANGED recovery,
             Owned(t) => Owned(t)', abandoned \subseteq abandoned'
      PROVE  NotLost(t)'
    BY <1>0, <1>1 DEF NotLost, Ahead
<1>2. ASSUME NEW u \in Tasks, NEW g \in Threads, NEW req \in Requests, NEW a \in Agents,
             DispatchTask(g, u, req, a)
      PROVE  NotLost(t)'
    <2>1. CASE u = t
        <3>1. Owned(t)'
            BY <1>2, <2>1 DEF DispatchTask, Launch, Owned, ExecStates, TypeOK
        <3> QED BY <3>1 DEF NotLost
    <2>2. CASE u # t
        <3>1. repo'[t] = repo[t] /\ UNCHANGED <<recovery, abandoned>>
            BY <1>2, <2>2 DEF DispatchTask, TypeOK
        <3>2. Owned(t) => Owned(t)'
            BY <1>2 DEF DispatchTask, Launch, Owned, ExecStates, TypeOK
        <3> QED BY <1>1, <3>1, <3>2
    <2> QED BY <2>1, <2>2
<1>3. ASSUME NEW u \in Tasks, NEW req \in Requests, NEW a \in Agents,
             DispatchSaveUncertain(u, req, a)
      PROVE  NotLost(t)'
    <2>1. CASE u = t
        <3>1. t \in abandoned'
            BY <1>3, <2>1 DEF DispatchSaveUncertain
        <3> QED BY <3>1 DEF NotLost
    <2>2. CASE u # t
        <3>1. /\ repo'[t] = repo[t] /\ UNCHANGED recovery /\ abandoned \subseteq abandoned'
              /\ Owned(t) => Owned(t)'
            BY <1>3, <2>2 DEF DispatchSaveUncertain, TypeOK, Owned
        <3> QED BY <1>1, <3>1
    <2> QED BY <2>1, <2>2
<1>4. ASSUME NEW u \in Tasks, NEW g \in Threads,
             \/ CancelRead(g, u)
             \/ \E s \in Acks, r \in BOOLEAN, e \in BOOLEAN : AcknowledgeRead(g, u, s, r, e)
      PROVE  NotLost(t)'
    <2>1. UNCHANGED <<repo, recovery, abandoned>> /\ (Owned(t) => Owned(t)')
        BY <1>4 DEF CancelRead, AcknowledgeRead, Owned, ExecStates, TypeOK
    <2> QED BY <1>1, <2>1
<1>5. ASSUME NEW g \in Threads, HandlerWrite(g) \/ ExecFinish(g)
      PROVE  NotLost(t)'
    <2>1. /\ tid[g] \in Tasks /\ repo' = [repo EXCEPT ![tid[g]] = snap[g]]
          /\ snap[g].status \notin InFlight
          /\ UNCHANGED <<recovery, abandoned, tid>> /\ pc' = [pc EXCEPT ![g] = "announce"]
        BY <1>5 DEF HandlerWrite, ExecFinish, Goto, Busy
    <2>2. tid[g] # t
        BY <2>1 DEF TypeOK
    <2>3. repo'[t] = repo[t] /\ (Owned(t) => Owned(t)')
        BY <2>1, <2>2 DEF Owned, ExecStates, TypeOK
    <2>4. repo'[t].status = repo[t].status /\ abandoned \subseteq abandoned'
        BY <2>1, <2>3
    <2> QED BY <1>1, <2>1, <2>3, <2>4
<1>6. ASSUME NEW g \in Threads, ExecClaim(g)
      PROVE  NotLost(t)'
    <2>1. CASE tid[g] = t
        <3>1. Owned(t)'
            BY <1>6, <2>1 DEF ExecClaim, Goto, Owned, ExecStates, TypeOK
        <3> QED BY <3>1 DEF NotLost
    <2>2. CASE tid[g] # t
        <3>1. /\ repo'[t] = repo[t] /\ UNCHANGED <<recovery, abandoned>>
              /\ Owned(t) => Owned(t)'
            BY <1>6, <2>2 DEF ExecClaim, Goto, Owned, ExecStates, TypeOK, Busy
        <3> QED BY <1>1, <3>1
    <2> QED BY <2>1, <2>2
<1>7. ASSUME NEW g \in Threads,
             ExecRead(g) \/ \E o \in Outcomes : ExecReturn(g, o)
      PROVE  NotLost(t)'
    <2>1. UNCHANGED <<repo, recovery, abandoned>>
        BY <1>7 DEF ExecRead, ExecReturn
    <2>2. Owned(t) => Owned(t)'
        <3>1. CASE \E st \in {"claim", "finish"} : pc' = [pc EXCEPT ![g] = st] /\ UNCHANGED tid
            BY <3>1 DEF Owned, ExecStates, TypeOK
        <3>2. CASE Exit(g) /\ IsTerminal(repo[tid[g]])
            <4>1. tid[g] # t
                BY <2>1, <3>2 DEF IsTerminal, Terminal, InFlight
            <4> QED BY <3>2, <4>1 DEF Exit, Owned, ExecStates, TypeOK
        <3> QED BY <1>7, <3>1, <3>2 DEF ExecRead, ExecReturn, Goto
    <2> QED BY <1>1, <2>1, <2>2
<1>8. ASSUME NEW g \in Threads, Announce(g)
      PROVE  NotLost(t)'
    <2>1. UNCHANGED <<repo, recovery, abandoned>> /\ (Owned(t) => Owned(t)')
        BY <1>8 DEF Announce, Exit, Owned, ExecStates, TypeOK
    <2> QED BY <1>1, <2>1
<1>9. ASSUME NEW g \in Threads, ThreadError(g)
      PROVE  NotLost(t)'
    <2>1. CASE tid[g] = t
        <3>1. t \in abandoned'
            BY <1>9, <2>1 DEF ThreadError, ExecReadError, WriteError
        <3> QED BY <3>1 DEF NotLost
    <2>2. CASE tid[g] # t
        <3>1. /\ repo'[t] = repo[t] /\ UNCHANGED recovery /\ abandoned \subseteq abandoned'
            BY <1>9, <2>2 DEF ThreadError, ExecReadError, WriteError, TypeOK
        <3>2. Owned(t) => Owned(t)'
            BY <1>9, <2>2 DEF ThreadError, ExecReadError, WriteError, Exit, Owned, ExecStates, TypeOK
        <3> QED BY <1>1, <3>1, <3>2
    <2> QED BY <2>1, <2>2
<1>10. CASE RecoverTurn
    <2>1. /\ UNCHANGED <<repo, abandoned>> /\ (Owned(t) => Owned(t)')
          /\ recovery.listed /\ recovery.page = {}
        BY <1>10 DEF RecoverTurn, Owned
    <2>2. CASE ~Ahead(t)
        <3>1. recovery.pass = "aborted" => recovery'.pass = "aborted"
            BY <1>10 DEF RecoverTurn, Recovering
        <3> QED BY <1>0, <2>1, <2>2, <3>1 DEF NotLost
    <2>3. CASE Ahead(t) /\ recovery.token # 0
        <3>1. recovery' = [recovery EXCEPT !.listed = FALSE]
            BY <1>10, <2>3 DEF RecoverTurn
        <3>2. Ahead(t)'
            BY <2>1, <2>3, <3>1 DEF Ahead, TypeOK, RecoveryType
        <3> QED BY <1>0, <2>1, <3>1, <3>2 DEF NotLost, TypeOK, RecoveryType
    <2>4. CASE Ahead(t) /\ recovery.token = 0
        <3>1. recovery.pass = "PENDING" /\ repo[t].status = "DISPATCHED"
            BY <2>1, <2>4 DEF Ahead
        <3>2. recovery' = [pass |-> "DISPATCHED", listed |-> FALSE, token |-> 0, page |-> {}]
            BY <1>10, <2>4, <3>1 DEF RecoverTurn, NextPass
        <3>3. Ahead(t)'
            BY <2>1, <3>1, <3>2, TaskBrokerAssumption DEF Ahead
        <3> QED BY <1>0, <2>1, <3>1, <3>2, <3>3 DEF NotLost
    <2> QED BY <2>2, <2>3, <2>4
<1>11. CASE RecoverList
    <2>1. /\ UNCHANGED <<repo, abandoned>> /\ (Owned(t) => Owned(t)')
          /\ Recovering /\ ~recovery.listed /\ recovery.page = {}
        BY <1>11 DEF RecoverList, Owned
    <2>2. PICK n \in Tasks \cup (0 .. Cardinality(Tasks)) :
             /\ NextPageToken(recovery.pass, recovery.token, n)
             /\ recovery' = [recovery EXCEPT !.listed = TRUE, !.token = n,
                                !.page = Page(recovery.pass, recovery.token)]
        BY <1>11 DEF RecoverList
    <2>3. /\ recovery'.pass = recovery.pass /\ recovery'.listed = TRUE /\ recovery'.token = n
          /\ recovery'.page = Page(recovery.pass, recovery.token)
        BY <2>2 DEF TypeOK, RecoveryType
    <2>4. CASE ~(Durable /\ Ahead(t))
        <3>1. recovery.pass # "aborted"
            BY <2>1 DEF Recovering
        <3> QED BY <1>0, <2>1, <2>4, <3>1 DEF NotLost
    <2>5. CASE Durable /\ recovery.pass = "PENDING" /\ repo[t].status = "DISPATCHED"
        BY <2>1, <2>3, <2>5, TaskBrokerAssumption DEF NotLost, Ahead
    <2>6. CASE Durable /\ recovery.pass = repo[t].status /\ t > recovery.token
        <3> DEFINE S == {u \in Matching(recovery.pass) : u > recovery.token}
        <3>1. t \in S /\ S \subseteq Nat /\ S \subseteq Tasks
            BY <2>6, TaskBrokerAssumption DEF Matching
        <3>2. IsFiniteSet(S)
            BY <3>1, TaskBrokerAssumption, FS_Subset
        <3>3. Page(recovery.pass, recovery.token) = FirstPage(S)
            BY <2>6 DEF Page
        <3>4. CASE t \in FirstPage(S)
            BY <2>3, <2>6, <3>3, <3>4 DEF NotLost, Ahead
        <3>5. CASE t \notin FirstPage(S)
            <4>1. Cardinality(S) > PageSize /\ \A u \in FirstPage(S) : u < t
                BY <3>1, <3>2, <3>5, PageCovers
            <4>2. n \in FirstPage(S)
                BY <2>2, <2>6, <3>3, <4>1 DEF NextPageToken
            <4>3. n # 0 /\ t > n
                BY <3>1, <4>1, <4>2, TaskBrokerAssumption DEF FirstPage
            <4> QED BY <2>1, <2>3, <2>6, <4>3 DEF NotLost, Ahead
        <3> QED BY <3>4, <3>5
    <2> QED BY <2>1, <2>4, <2>5, <2>6 DEF Ahead
<1>12. ASSUME NEW g \in Threads, NEW u \in Tasks, NEW a \in Agents, Relaunch(g, u, a)
       PROVE  NotLost(t)'
    <2>1. CASE u = t
        <3>1. Owned(t)'
            BY <1>12, <2>1 DEF Relaunch, Launch, Owned, ExecStates, TypeOK
        <3> QED BY <3>1 DEF NotLost
    <2>2. CASE u # t
        <3>1. /\ UNCHANGED <<repo, abandoned>> /\ (Owned(t) => Owned(t)')
              /\ recovery' = [recovery EXCEPT !.page = @ \ {u}]
            BY <1>12 DEF Relaunch, Launch, Owned, ExecStates, TypeOK
        <3>2. Ahead(t) => Ahead(t)'
            BY <2>2, <3>1 DEF Ahead, TypeOK, RecoveryType
        <3> QED BY <1>0, <3>1, <3>2 DEF NotLost, TypeOK, RecoveryType
    <2> QED BY <2>1, <2>2
<1>13. ASSUME NEW u \in Tasks, RelaunchFails(u)
       PROVE  NotLost(t)'
    <2>1. /\ UNCHANGED <<repo>> /\ (Owned(t) => Owned(t)') /\ abandoned' = abandoned \cup {u}
          /\ recovery' = [recovery EXCEPT !.page = @ \ {u}]
        BY <1>13 DEF RelaunchFails, Owned
    <2>2. Ahead(t) => t = u \/ Ahead(t)'
        BY <2>1 DEF Ahead, TypeOK, RecoveryType
    <2> QED BY <1>0, <2>1, <2>2 DEF NotLost, TypeOK, RecoveryType
<1>14. CASE RecoverListError
    BY <1>14 DEF RecoverListError, RecoveryStart, NotLost
<1>15. CASE Crash
    <2>1. Durable
        BY <1>15 DEF Crash, NoRow, InFlight
    <2>2. repo' = repo /\ recovery' = RecoveryStart /\ t > 0
        BY <1>15, <2>1, TaskBrokerAssumption DEF Crash
    <2>3. Ahead(t)'
        BY <2>2 DEF Ahead, RecoveryStart, InFlight
    <2> QED BY <2>1, <2>3 DEF NotLost
<1>16. CASE UNCHANGED vars
    BY <1>1, <1>16 DEF vars, Owned
<1> QED
    BY <1>2, <1>3, <1>4, <1>5, <1>6, <1>7, <1>8, <1>9, <1>10, <1>11, <1>12, <1>13,
       <1>14, <1>15, <1>16
       DEF Next, ClientCall, ThreadStep, RecoverStep, RecoverError

(* No task is lost: every PENDING or DISPATCHED task has an execution goroutine
   or lies ahead of the recovery pass, whatever the interleaving of client
   calls, executions, recovery and restarts, until an error path gives it up. *)
THEOREM BrokerLosesNoTask == Spec => []InFlightOwned
<1>1. Init => WritesSettle /\ InFlightOwned
    BY DEF Init, WritesSettle, InFlightOwned, RecoveryStart, NoRow, InFlight
<1>2. Typed /\ WritesSettle /\ InFlightOwned /\ [Next]_vars => InFlightOwned'
    BY OwnedStep
<1> QED BY <1>1, <1>2, TypedInit, TypedStep, WritesSettleStep, PTL DEF Spec

---------------------------------------------------------------------------
(* A drained terminal task is final. *)

Keeps(t) == Final(t) /\ (Durable \/ crashes' = crashes) => repo'[t] = repo[t] /\ Final(t)'

(* No step changes a drained terminal row. *)
LEMMA FinalStep == Typed /\ [Next]_vars => \A t \in Tasks : Keeps(t)
<1> SUFFICES ASSUME Typed, [Next]_vars, NEW t \in Tasks,
                    Final(t), Durable \/ crashes' = crashes
             PROVE  repo'[t] = repo[t] /\ Final(t)'
    BY DEF Keeps
<1> USE DEF Typed
<1>0. /\ repo[t].status \in Terminal
      /\ \A g \in Threads : tid[g] = t => pc[g] \notin {"claim", "finish", "write"}
    BY DEF Final, StaleWriter, IsTerminal
(* Goroutine g moves to a state that is not a writer's, or works on another task. *)
<1>1. ASSUME NEW g \in Threads, NEW st, pc' = [pc EXCEPT ![g] = st],
             st \notin {"claim", "finish", "write"} \/ tid'[g] # t,
             \A h \in Threads \ {g} : tid'[h] = tid[h],
             repo'[t] = repo[t]
      PROVE  Final(t)'
    BY <1>0, <1>1 DEF Final, StaleWriter, IsTerminal, TypeOK
<1>2. ASSUME NEW u \in Tasks, NEW g \in Threads, NEW req \in Requests, NEW a \in Agents,
             DispatchTask(g, u, req, a)
      PROVE  repo'[t] = repo[t] /\ Final(t)'
    <2>1. repo'[t] = repo[t]
        BY <1>0, <1>2 DEF DispatchTask, Terminal, TypeOK
    <2>2. pc' = [pc EXCEPT ![g] = "launched"] /\ \A h \in Threads \ {g} : tid'[h] = tid[h]
        BY <1>2 DEF DispatchTask, Launch, TypeOK
    <2> QED BY <1>1, <2>1, <2>2
<1>3. ASSUME NEW u \in Tasks, NEW req \in Requests, NEW a \in Agents,
             DispatchSaveUncertain(u, req, a)
      PROVE  repo'[t] = repo[t] /\ Final(t)'
    BY <1>0, <1>3 DEF DispatchSaveUncertain, Final, StaleWriter, IsTerminal, Terminal, TypeOK
<1>4. ASSUME NEW u \in Tasks, NEW g \in Threads,
             \/ CancelRead(g, u)
             \/ \E s \in Acks, r \in BOOLEAN, e \in BOOLEAN : AcknowledgeRead(g, u, s, r, e)
      PROVE  repo'[t] = repo[t] /\ Final(t)'
    <2>1. /\ repo' = repo /\ u # t /\ pc' = [pc EXCEPT ![g] = "write"]
          /\ tid' = [tid EXCEPT ![g] = u]
        BY <1>0, <1>4 DEF CancelRead, AcknowledgeRead, IsTerminal
    <2>2. tid'[g] # t /\ \A h \in Threads \ {g} : tid'[h] = tid[h]
        BY <2>1 DEF TypeOK
    <2> QED BY <1>1, <2>1, <2>2
<1>5. ASSUME NEW g \in Threads, HandlerWrite(g) \/ ExecClaim(g) \/ ExecFinish(g)
      PROVE  repo'[t] = repo[t] /\ Final(t)'
    <2>1. tid[g] # t /\ tid' = tid /\ repo' = [repo EXCEPT ![tid[g]] = snap[g]]
        BY <1>0, <1>5 DEF HandlerWrite, ExecClaim, ExecFinish, Goto
    <2>2. \E st : pc' = [pc EXCEPT ![g] = st]
        BY <1>5 DEF HandlerWrite, ExecClaim, ExecFinish, Goto
    <2>3. repo'[t] = repo[t]
        BY <2>1 DEF TypeOK
    <2> QED BY <1>1, <2>1, <2>2, <2>3
<1>6. ASSUME NEW g \in Threads, ExecRead(g) \/ \E o \in Outcomes : ExecReturn(g, o)
      PROVE  repo'[t] = repo[t] /\ Final(t)'
    <2>1. repo' = repo
        BY <1>6 DEF ExecRead, ExecReturn
    <2>2. CASE IsTerminal(repo[tid[g]])
        <3>1. pc' = [pc EXCEPT ![g] = "idle"] /\ tid' = [tid EXCEPT ![g] = NoTask]
            BY <1>6, <2>2 DEF ExecRead, ExecReturn, Exit
        <3> QED BY <1>1, <2>1, <3>1 DEF TypeOK
    <2>3. CASE ~IsTerminal(repo[tid[g]])
        <3>1. tid[g] # t /\ tid' = tid /\ \E st : pc' = [pc EXCEPT ![g] = st]
            BY <1>0, <1>6, <2>3 DEF ExecRead, ExecReturn, Goto, IsTerminal
        <3> QED BY <1>1, <2>1, <3>1
    <2> QED BY <2>2, <2>3
<1>7. ASSUME NEW g \in Threads, Announce(g) \/ ThreadError(g)
      PROVE  repo'[t] = repo[t] /\ Final(t)'
    <2>1. repo'[t] = repo[t]
        BY <1>0, <1>7 DEF Announce, ThreadError, ExecReadError, WriteError, TypeOK
    <2>2. pc' = [pc EXCEPT ![g] = "idle"] /\ tid' = [tid EXCEPT ![g] = NoTask]
        BY <1>7 DEF Announce, ThreadError, ExecReadError, WriteError, Exit
    <2> QED BY <1>1, <2>1, <2>2 DEF TypeOK
<1>8. CASE RecoverTurn \/ RecoverList \/ RecoverError \/ UNCHANGED vars
    <2>1. UNCHANGED <<repo, pc, tid>>
        BY <1>8 DEF RecoverTurn, RecoverList, RecoverError, RecoverListError, RelaunchFails, vars
    <2> QED BY <2>1 DEF Final, StaleWriter
<1>9. ASSUME NEW g \in Threads, NEW u \in Tasks, NEW a \in Agents, Relaunch(g, u, a)
      PROVE  repo'[t] = repo[t] /\ Final(t)'
    <2>1. /\ repo' = repo /\ pc' = [pc EXCEPT ![g] = "launched"]
          /\ tid' = [tid EXCEPT ![g] = u]
        BY <1>9 DEF Relaunch, Launch
    <2> QED BY <1>1, <2>1 DEF TypeOK
<1>10. CASE Crash
    <2>1. repo' = repo /\ \A g \in Threads : pc'[g] = "idle"
        BY <1>10 DEF Crash, TypeOK
    <2> QED BY <1>0, <2>1 DEF Final, StaleWriter, IsTerminal
<1> QED
    BY <1>2, <1>3, <1>4, <1>5, <1>6, <1>7, <1>8, <1>9, <1>10
       DEF Next, ClientCall, ThreadStep, RecoverStep, RecoverError

(* Once a task is terminal and no goroutine holds an older copy of its row, no
   later step changes the row: the terminal checks of executeAsync, Acknowledge
   and Cancel are enough, and only an in-flight read-modify-write is not. *)
THEOREM BrokerFinality == Spec => FinalOnceDrained
<1>1. Typed /\ [Next]_vars
        => [\A t \in Tasks : Final(t) /\ (Durable \/ crashes' = crashes)
                                => repo'[t] = repo[t] /\ Final(t)']_vars
    BY FinalStep DEF Keeps
<1> QED BY <1>1, TypedInit, TypedStep, PTL DEF Spec, FinalOnceDrained

---------------------------------------------------------------------------
(* The broker implements TaskLifecycle. *)

St == [t \in Tasks |-> repo[t].status]
Op == [t \in Tasks |-> StaleWriter(t)]

WritesWritten ==
    \A g \in Threads : pc[g] \in Writers => snap[g].status \in Lifecycle!Written

(* A step that concerns one task, seen through the refinement mapping. *)
LEMMA OneTaskStep ==
    ASSUME NEW t \in Tasks,
           \A u \in Tasks \ {t} : /\ repo'[u].status = repo[u].status
                                  /\ StaleWriter(u)' <=> StaleWriter(u),
           \/ /\ repo'[t].status = repo[t].status
              /\ \/ StaleWriter(t) \/ ~StaleWriter(t)'
                 \/ repo[t].status \notin Terminal \cup {"NONE"}
           \/ StaleWriter(t) /\ repo'[t].status \in Lifecycle!Written
           \/ /\ repo[t].status = "NONE" /\ repo'[t].status = "PENDING"
              /\ StaleWriter(t)' <=> StaleWriter(t)
    PROVE  [Lifecycle!Next]_(Lifecycle!vars)
<1> DEFINE s == St  s1 == St'  o == Op  o1 == Op'
<1>1. s1 = [s EXCEPT ![t] = repo'[t].status]
    BY DEF St
<1>2. o1 = [o EXCEPT ![t] = StaleWriter(t)']
    <2>1. \A u \in Tasks \ {t} : StaleWriter(u)' = StaleWriter(u)
        BY DEF StaleWriter
    <2>2. o1 = [u \in Tasks |-> StaleWriter(u)'] /\ o = [u \in Tasks |-> StaleWriter(u)]
        BY DEF Op
    <2>3. o1 = [u \in Tasks |-> IF u = t THEN StaleWriter(t)' ELSE o[u]]
        BY <2>1, <2>2
    <2> QED BY <2>2, <2>3
<1>3. /\ s \in [Tasks -> {s[u] : u \in Tasks}] /\ s[t] = repo[t].status
      /\ o \in [Tasks -> BOOLEAN] /\ o[t] = StaleWriter(t)
      /\ StaleWriter(t)' \in BOOLEAN
    BY DEF St, Op, StaleWriter
<1>4. CASE repo'[t].status = repo[t].status /\ (StaleWriter(t)' <=> StaleWriter(t))
    <2>1. s1 = s
        BY <1>1, <1>3, <1>4
    <2>2. o1 = o
        BY <1>2, <1>3, <1>4
    <2> QED BY <2>1, <2>2 DEF Lifecycle!vars, St, Op
<1>5. CASE /\ repo'[t].status = repo[t].status /\ ~StaleWriter(t) /\ StaleWriter(t)'
           /\ repo[t].status \notin Terminal \cup {"NONE"}
    <2>1. s1 = s
        BY <1>1, <1>3, <1>5
    <2>2. o1 = [o EXCEPT ![t] = TRUE]
        BY <1>2, <1>3, <1>5
    <2>3. Lifecycle!Begin(t)
        BY <1>3, <1>5, <2>1, <2>2 DEF Lifecycle!Begin, Lifecycle!Terminal, Terminal, St, Op
    <2> QED BY <2>3 DEF Lifecycle!Next, Lifecycle!TaskStep
<1>6. CASE repo'[t].status = repo[t].status /\ StaleWriter(t) /\ ~StaleWriter(t)'
    <2>1. s1 = s
        BY <1>1, <1>3, <1>6
    <2>2. o1 = [o EXCEPT ![t] = FALSE]
        BY <1>2, <1>3, <1>6
    <2>3. Lifecycle!Drop(t)
        BY <1>3, <1>6, <2>1, <2>2 DEF Lifecycle!Drop, St, Op
    <2> QED BY <2>3 DEF Lifecycle!Next, Lifecycle!TaskStep
<1>7. CASE StaleWriter(t) /\ repo'[t].status \in Lifecycle!Written
    <2>1. PICK w \in Lifecycle!Written, b \in BOOLEAN :
              w = repo'[t].status /\ (b <=> StaleWriter(t)')
        BY <1>7
    <2>2. s1 = [s EXCEPT ![t] = w] /\ o1 = [o EXCEPT ![t] = b]
        BY <1>1, <1>2, <1>3, <2>1
    <2>3. Lifecycle!Write(t, w, b)
        BY <1>3, <1>7, <2>2 DEF Lifecycle!Write, St, Op
    <2> QED BY <2>3 DEF Lifecycle!Next, Lifecycle!TaskStep
<1>8. CASE /\ repo[t].status = "NONE" /\ repo'[t].status = "PENDING"
           /\ StaleWriter(t)' <=> StaleWriter(t)
    <2>1. o1 = o
        BY <1>2, <1>3, <1>8
    <2>2. Lifecycle!Create(t)
        BY <1>1, <1>3, <1>8, <2>1 DEF Lifecycle!Create, St, Op
    <2> QED BY <2>2 DEF Lifecycle!Next, Lifecycle!TaskStep
<1> QED BY <1>3, <1>4, <1>5, <1>6, <1>7, <1>8

(* Copies about to be written keep a status the lifecycle may write. *)
LEMMA WrittenStep == Typed /\ WritesWritten /\ [Next]_vars => WritesWritten'
<1> SUFFICES ASSUME Typed, WritesWritten, [Next]_vars PROVE WritesWritten'
    OBVIOUS
<1> USE DEF Typed, WritesWritten, Writers
<1>0. ASSUME NEW row \in Row, NEW s, NEW r, NEW e
      PROVE  applyAcknowledgement(row, s, r, e).status \in Lifecycle!Written
    <2>1. CASE s = "COMPLETED"
        BY <2>1 DEF applyAcknowledgement, Row, Lifecycle!Written, Lifecycle!Terminal
    <2>2. CASE s = "FAILED"
        BY <2>2 DEF applyAcknowledgement, Row, Lifecycle!Written, Lifecycle!Terminal
    <2>3. CASE s # "COMPLETED" /\ s # "FAILED"
        BY <2>3 DEF applyAcknowledgement, Row, Lifecycle!Written, Lifecycle!Terminal
    <2> QED BY <2>1, <2>2, <2>3
<1>1. ASSUME NEW g \in Threads, NEW t \in Tasks, NEW x,
             \/ \E req \in Requests : DispatchTask(g, t, req, x)
             \/ Relaunch(g, t, x)
      PROVE  WritesWritten'
    BY <1>1 DEF DispatchTask, Relaunch, Launch, TypeOK
<1>2. ASSUME NEW t \in Tasks, NEW g \in Threads, NEW s \in Acks,
             NEW r \in BOOLEAN, NEW e \in BOOLEAN, AcknowledgeRead(g, t, s, r, e)
      PROVE  WritesWritten'
    BY <1>0, <1>2 DEF AcknowledgeRead, TypeOK
<1>3. ASSUME NEW t \in Tasks, NEW g \in Threads, CancelRead(g, t)
      PROVE  WritesWritten'
    <2>1. [repo[t] EXCEPT !.status = "CANCELLED"].status \in Lifecycle!Written
        BY DEF TypeOK, Row, Lifecycle!Written, Lifecycle!Terminal
    <2> QED BY <1>3, <2>1 DEF CancelRead, TypeOK
<1>4. ASSUME NEW g \in Threads, HandlerWrite(g) \/ ExecClaim(g) \/ ExecFinish(g)
      PROVE  WritesWritten'
    BY <1>4 DEF HandlerWrite, ExecClaim, ExecFinish, Goto, TypeOK
<1>5. ASSUME NEW g \in Threads, ExecRead(g)
      PROVE  WritesWritten'
    <2>1. [repo[tid[g]] EXCEPT !.status = "DISPATCHED", !.dispatchedTo = agt[g]].status
              \in Lifecycle!Written
        BY <1>5 DEF ExecRead, Busy, TypeOK, Row, Lifecycle!Written
    <2> QED BY <1>5, <2>1 DEF ExecRead, Exit, Goto, TypeOK
<1>6. ASSUME NEW g \in Threads, NEW oc \in Outcomes, ExecReturn(g, oc)
      PROVE  WritesWritten'
    <2>1. applyAcknowledgement(repo[tid[g]], oc.status, oc.content, oc.content).status
              \in Lifecycle!Written
        BY <1>0, <1>6 DEF ExecReturn, Busy, TypeOK
    <2> QED BY <1>6, <2>1 DEF ExecReturn, Exit, Goto, TypeOK
<1>7. ASSUME NEW g \in Threads, Announce(g) \/ ThreadError(g)
      PROVE  WritesWritten'
    BY <1>7 DEF Announce, ThreadError, ExecReadError, WriteError, Exit, TypeOK
<1>8. CASE \/ RecoverTurn \/ RecoverList \/ RecoverError \/ UNCHANGED vars
           \/ \E t \in Tasks, req \in Requests, a \in Agents : DispatchSaveUncertain(t, req, a)
    BY <1>8 DEF RecoverTurn, RecoverList, RecoverError, RecoverListError, RelaunchFails, vars,
                DispatchSaveUncertain
<1>9. CASE Crash
    BY <1>9 DEF Crash
<1> QED
    BY <1>1, <1>2, <1>3, <1>4, <1>5, <1>6, <1>7, <1>8, <1>9
       DEF Next, ClientCall, ThreadStep, RecoverStep, RecoverError

(* Every step of the broker is a step or a stutter of the lifecycle. *)
LEMMA LifecycleStep ==
    ASSUME Typed, Isolated, WritesWritten, [Next]_vars
    PROVE  [Lifecycle!Next]_(Lifecycle!vars)
<1> USE DEF Typed
(* Goroutine g moves: staleness of tasks other than its own does not change. *)
<1>1. ASSUME NEW g \in Threads, NEW st, pc' = [pc EXCEPT ![g] = st],
             \A h \in Threads \ {g} : tid'[h] = tid[h],
             NEW t \in Tasks, tid[g] = t \/ pc[g] \notin Writers,
             tid'[g] = t \/ st \notin Writers
      PROVE  \A u \in Tasks \ {t} : StaleWriter(u)' <=> StaleWriter(u)
    BY <1>1 DEF StaleWriter, Writers, TypeOK
<1>2. ASSUME NEW g \in Threads, NEW st, pc' = [pc EXCEPT ![g] = st],
             \A h \in Threads \ {g} : tid'[h] = tid[h],
             pc[g] \notin Writers, st \notin Writers
      PROVE  \A u \in Tasks : StaleWriter(u)' <=> StaleWriter(u)
    BY <1>2 DEF StaleWriter, Writers, TypeOK
<1>3. ASSUME NEW t \in Tasks, NEW g \in Threads, NEW req \in Requests, NEW a \in Agents,
             DispatchTask(g, t, req, a)
      PROVE  [Lifecycle!Next]_(Lifecycle!vars)
    <2>1. \A u \in Tasks : StaleWriter(u)' <=> StaleWriter(u)
        BY <1>2, <1>3 DEF DispatchTask, Launch, TypeOK, Writers
    <2>2. /\ repo[t].status = "NONE" /\ repo'[t].status = "PENDING"
          /\ \A u \in Tasks \ {t} : repo'[u].status = repo[u].status
        BY <1>3 DEF DispatchTask, DispatchedRow, NoRow, TypeOK
    <2> QED BY <2>1, <2>2, OneTaskStep
<1>4. ASSUME NEW t \in Tasks, NEW req \in Requests, NEW a \in Agents,
             DispatchSaveUncertain(t, req, a)
      PROVE  [Lifecycle!Next]_(Lifecycle!vars)
    <2>1. \A u \in Tasks : StaleWriter(u)' <=> StaleWriter(u)
        BY <1>4 DEF DispatchSaveUncertain, StaleWriter
    <2>2. /\ repo[t].status = "NONE" /\ repo'[t].status = "PENDING"
          /\ \A u \in Tasks \ {t} : repo'[u].status = repo[u].status
        BY <1>4 DEF DispatchSaveUncertain, DispatchedRow, NoRow, TypeOK
    <2> QED BY <2>1, <2>2, OneTaskStep
<1>5. ASSUME NEW t \in Tasks, NEW g \in Threads,
             \/ CancelRead(g, t)
             \/ \E s \in Acks, r \in BOOLEAN, e \in BOOLEAN : AcknowledgeRead(g, t, s, r, e)
      PROVE  [Lifecycle!Next]_(Lifecycle!vars)
    <2>1. /\ repo' = repo /\ pc' = [pc EXCEPT ![g] = "write"] /\ tid' = [tid EXCEPT ![g] = t]
          /\ pc[g] = "idle" /\ repo[t].status \notin Terminal \cup {"NONE"}
        BY <1>5 DEF CancelRead, AcknowledgeRead, IsTerminal
    <2>2. \A u \in Tasks \ {t} : StaleWriter(u)' <=> StaleWriter(u)
        BY <1>1, <2>1 DEF TypeOK, Writers
    <2> QED BY <2>1, <2>2, OneTaskStep
<1>6. ASSUME NEW g \in Threads, HandlerWrite(g) \/ ExecClaim(g) \/ ExecFinish(g)
      PROVE  [Lifecycle!Next]_(Lifecycle!vars)
    <2>1. /\ pc[g] \in Writers /\ tid' = tid /\ repo' = [repo EXCEPT ![tid[g]] = snap[g]]
          /\ \E st : pc' = [pc EXCEPT ![g] = st]
        BY <1>6 DEF HandlerWrite, ExecClaim, ExecFinish, Goto, Writers
    <2>2. tid[g] \in Tasks
        BY <2>1 DEF Busy, Writers
    <2>3. StaleWriter(tid[g]) /\ repo'[tid[g]].status \in Lifecycle!Written
        BY <2>1, <2>2 DEF StaleWriter, Writers, WritesWritten, TypeOK
    <2>4. \A u \in Tasks \ {tid[g]} : repo'[u].status = repo[u].status
        BY <2>1, <2>2 DEF TypeOK
    <2>5. \A u \in Tasks \ {tid[g]} : StaleWriter(u)' <=> StaleWriter(u)
        BY <1>1, <2>1, <2>2
    <2> QED BY <2>2, <2>3, <2>4, <2>5, OneTaskStep
<1>7. ASSUME NEW g \in Threads, ExecRead(g) \/ \E o \in Outcomes : ExecReturn(g, o)
      PROVE  [Lifecycle!Next]_(Lifecycle!vars)
    <2>1. /\ repo' = repo /\ pc[g] \notin Writers /\ tid[g] \in Tasks
          /\ repo[tid[g]].status # "NONE"
        BY <1>7 DEF ExecRead, ExecReturn, Busy, Writers, Isolated, Existing
    <2>2. CASE Exit(g)
        <3>1. \A u \in Tasks : StaleWriter(u)' <=> StaleWriter(u)
            BY <1>2, <2>1, <2>2 DEF Exit, TypeOK, Writers
        <3> QED BY <2>1, <3>1, OneTaskStep
    <2>3. CASE /\ tid' = tid /\ \E st : pc' = [pc EXCEPT ![g] = st]
               /\ ~IsTerminal(repo[tid[g]])
        <3>1. \A u \in Tasks \ {tid[g]} : StaleWriter(u)' <=> StaleWriter(u)
            BY <1>1, <2>1, <2>3
        <3>2. repo[tid[g]].status \notin Terminal \cup {"NONE"}
            BY <2>1, <2>3 DEF IsTerminal
        <3> QED BY <2>1, <3>1, <3>2, OneTaskStep
    <2> QED BY <1>7, <2>2, <2>3 DEF ExecRead, ExecReturn, Goto
<1>8. ASSUME NEW g \in Threads, Announce(g) \/ ExecReadError(g)
      PROVE  [Lifecycle!Next]_(Lifecycle!vars)
    <2>1. /\ repo' = repo /\ pc[g] \notin Writers /\ tid[g] \in Tasks /\ Exit(g)
        BY <1>8 DEF Announce, ExecReadError, Writers, Busy
    <2>2. \A u \in Tasks : StaleWriter(u)' <=> StaleWriter(u)
        BY <1>2, <2>1 DEF Exit, TypeOK, Writers
    <2> QED BY <2>1, <2>2, OneTaskStep
<1>9. ASSUME NEW g \in Threads, NEW applied \in BOOLEAN, WriteError(g, applied)
      PROVE  [Lifecycle!Next]_(Lifecycle!vars)
    <2>1. /\ pc[g] \in Writers /\ tid[g] \in Tasks
          /\ pc' = [pc EXCEPT ![g] = "idle"] /\ tid' = [tid EXCEPT ![g] = NoTask]
        BY <1>9 DEF WriteError, Writers, Busy, Exit
    <2>2. \A u \in Tasks \ {tid[g]} : StaleWriter(u)' <=> StaleWriter(u)
        <3>1. \A h \in Threads \ {g} : tid'[h] = tid[h]
            BY <2>1 DEF TypeOK
        <3>2. "idle" \notin Writers
            BY DEF Writers
        <3> QED BY <1>1, <2>1, <3>1, <3>2
    <2>3. StaleWriter(tid[g])
        BY <2>1 DEF StaleWriter, Writers
    <2>4. CASE applied
        <3>1. /\ repo'[tid[g]].status \in Lifecycle!Written
              /\ \A u \in Tasks \ {tid[g]} : repo'[u].status = repo[u].status
            BY <1>9, <2>1, <2>4 DEF WriteError, WritesWritten, TypeOK
        <3> QED BY <2>1, <2>2, <2>3, <3>1, OneTaskStep
    <2>5. CASE ~applied
        <3>1. repo' = repo
            BY <1>9, <2>5 DEF WriteError
        <3> QED BY <2>1, <2>2, <2>3, <3>1, OneTaskStep
    <2> QED BY <2>4, <2>5
<1>10. ASSUME NEW g \in Threads, NEW t \in Tasks, NEW a \in Agents, Relaunch(g, t, a)
       PROVE  [Lifecycle!Next]_(Lifecycle!vars)
    <2>1. \A u \in Tasks : StaleWriter(u)' <=> StaleWriter(u)
        BY <1>2, <1>10 DEF Relaunch, Launch, TypeOK, Writers
    <2>2. repo' = repo
        BY <1>10 DEF Relaunch
    <2> QED BY <2>1, <2>2, OneTaskStep
<1>11. CASE RecoverTurn \/ RecoverList \/ RecoverError \/ UNCHANGED vars
    <2>1. UNCHANGED <<repo, pc, tid>>
        BY <1>11 DEF RecoverTurn, RecoverList, RecoverError, RecoverListError, RelaunchFails, vars
    <2> QED BY <2>1 DEF Lifecycle!vars, StaleWriter
<1>12. CASE Crash
    <2>1. Op' = [t \in Tasks |-> FALSE]
        BY <1>12 DEF Crash, Op, StaleWriter
    <2>2. St' = IF Durable THEN St ELSE [t \in Tasks |-> "NONE"]
        BY <1>12 DEF Crash, St, NoRow
    <2>3. Lifecycle!Restart
        BY <2>1, <2>2 DEF Lifecycle!Restart, St, Op
    <2> QED BY <2>3 DEF Lifecycle!Next
<1> QED
    BY <1>3, <1>4, <1>5, <1>6, <1>7, <1>8, <1>9, <1>10, <1>11, <1>12
       DEF Next, ClientCall, ThreadStep, ThreadError, RecoverStep, RecoverError

(* The broker implements the abstract task lifecycle: seen from outside, a
   status changes only by creation, by a restart of an in-memory broker, or by
   a read-modify-write that began before the task was terminal. *)
THEOREM BrokerImplements == Spec => ImplementsLifecycle
<1>1. Init => Isolated /\ WritesWritten
    BY DEF Init, Isolated, Existing, SameRequest, SliceBound, RightAgent, PageExists,
           RecoveryStart, NoRow, ExecStates, Writers, WritesWritten
<1>2. Init => Lifecycle!Init
    BY DEF Init, Lifecycle!Init, NoRow, StaleWriter
<1>3. Typed /\ Isolated /\ WritesWritten /\ [Next]_vars => [Lifecycle!Next]_(Lifecycle!vars)
    BY LifecycleStep
<1> QED BY <1>1, <1>2, <1>3, TypedInit, TypedStep, IsolatedStep, WrittenStep, PTL
        DEF Spec, ImplementsLifecycle, Lifecycle!Spec

---------------------------------------------------------------------------
(* Outcomes are announced. *)

(* A claim makes no outcome. *)
ClaimsDispatch == \A g \in Threads : pc[g] = "claim" => snap[g].status = "DISPATCHED"

(* The outcome of t is known or about to be. *)
Told(t) ==
    \/ repo[t].status \in announced[t]
    \/ \E g \in Threads : pc[g] = "announce" /\ tid[g] = t /\ snap[g].status = repo[t].status

AnnounceInv == ClaimsDispatch /\ OutcomeAnnounced

(* No step writes an outcome without a goroutine that goes on to announce it. *)
LEMMA AnnounceStep == Typed /\ AnnounceInv /\ [Next]_vars => AnnounceInv'
<1> SUFFICES ASSUME Typed, AnnounceInv, [Next]_vars PROVE AnnounceInv'
    OBVIOUS
<1> USE DEF Typed, AnnounceInv
(* What keeps the outcome of every task told: one goroutine moves, the others stay. *)
<1>1. ASSUME NEW g \in Threads, pc[g] # "announce", UNCHANGED <<announced, crashes>>,
             abandoned \subseteq abandoned',
             \A h \in Threads \ {g} : pc'[h] = pc[h] /\ tid'[h] = tid[h] /\ snap'[h] = snap[h],
             pc'[g] = "claim" => snap'[g].status = "DISPATCHED",
             NEW t \in Tasks,
             \A u \in Tasks \ {t} : repo'[u] = repo[u],
             \/ repo'[t] = repo[t]
             \/ ~IsTerminal(repo'[t])
             \/ t \in abandoned'
             \/ pc'[g] = "announce" /\ tid'[g] = t /\ snap'[g] = repo'[t]
      PROVE  AnnounceInv'
    <2>1. ClaimsDispatch'
        BY <1>1 DEF ClaimsDispatch
    <2>2. ASSUME NEW u \in Tasks, repo'[u] = repo[u], Told(u)
          PROVE  Told(u)'
        BY <1>1, <2>2 DEF Told
    <2>3. ASSUME NEW u \in Tasks, IsTerminal(repo'[u]), crashes' = 0, u \notin abandoned'
          PROVE  Told(u)'
        <3>1. CASE repo'[u] = repo[u]
            BY <1>1, <2>2, <2>3, <3>1 DEF OutcomeAnnounced, Told, IsTerminal
        <3>2. CASE repo'[u] # repo[u]
            BY <1>1, <2>3, <3>2 DEF Told
        <3> QED BY <3>1, <3>2
    <2>4. OutcomeAnnounced'
        BY <2>3 DEF OutcomeAnnounced, Told, IsTerminal
    <2> QED BY <2>1, <2>4
<1>2. ASSUME NEW t \in Tasks, NEW g \in Threads, NEW req \in Requests, NEW a \in Agents,
             DispatchTask(g, t, req, a)
      PROVE  AnnounceInv'
    <2>1. ~IsTerminal(repo'[t])
        BY <1>2 DEF DispatchTask, DispatchedRow, NoRow, TypeOK, IsTerminal, Terminal
    <2> QED BY <1>1, <1>2, <2>1 DEF DispatchTask, Launch, TypeOK
<1>3. ASSUME NEW t \in Tasks, NEW req \in Requests, NEW a \in Agents,
             DispatchSaveUncertain(t, req, a)
      PROVE  AnnounceInv'
    BY <1>3 DEF DispatchSaveUncertain, ClaimsDispatch, OutcomeAnnounced, TypeOK
<1>4. ASSUME NEW t \in Tasks, NEW g \in Threads,
             \/ CancelRead(g, t)
             \/ \E s \in Acks, r \in BOOLEAN, e \in BOOLEAN : AcknowledgeRead(g, t, s, r, e)
      PROVE  AnnounceInv'
    BY <1>1, <1>4 DEF CancelRead, AcknowledgeRead, TypeOK
<1>5. ASSUME NEW g \in Threads, HandlerWrite(g) \/ ExecClaim(g) \/ ExecFinish(g)
      PROVE  AnnounceInv'
    <2>1. tid[g] \in Tasks
        BY <1>5 DEF HandlerWrite, ExecClaim, ExecFinish, Busy
    <2>2. /\ repo' = [repo EXCEPT ![tid[g]] = snap[g]] /\ tid' = tid
          /\ pc[g] \in {"write", "claim", "finish"} /\ UNCHANGED <<announced, abandoned, crashes>>
          /\ \E st, row : pc' = [pc EXCEPT ![g] = st] /\ snap' = [snap EXCEPT ![g] = row]
        BY <1>5 DEF HandlerWrite, ExecClaim, ExecFinish, Goto
    <2>3. repo'[tid[g]] = snap[g] /\ \A u \in Tasks \ {tid[g]} : repo'[u] = repo[u]
        BY <2>1, <2>2 DEF TypeOK
    <2>4. \/ ~IsTerminal(snap[g]) /\ pc'[g] = "executing"
          \/ pc'[g] = "announce" /\ snap'[g] = snap[g]
        BY <1>5 DEF HandlerWrite, ExecClaim, ExecFinish, Goto, TypeOK, ClaimsDispatch, IsTerminal, Terminal
    <2>5. \A h \in Threads \ {g} : pc'[h] = pc[h] /\ tid'[h] = tid[h] /\ snap'[h] = snap[h]
        BY <2>2 DEF TypeOK
    <2> QED BY <1>1, <2>1, <2>2, <2>3, <2>4, <2>5
<1>6. ASSUME NEW g \in Threads,
             \/ ExecRead(g) \/ ExecReadError(g) \/ \E o \in Outcomes : ExecReturn(g, o)
      PROVE  AnnounceInv'
    <2>1. /\ repo' = repo /\ tid[g] \in Tasks /\ pc[g] # "announce"
          /\ UNCHANGED <<announced, crashes>> /\ abandoned \subseteq abandoned'
        BY <1>6 DEF ExecRead, ExecReadError, ExecReturn, Busy
    <2>2. \A h \in Threads \ {g} : pc'[h] = pc[h] /\ tid'[h] = tid[h] /\ snap'[h] = snap[h]
        BY <1>6 DEF ExecRead, ExecReadError, ExecReturn, Exit, Goto, TypeOK
    <2>3. pc'[g] = "claim" => snap'[g].status = "DISPATCHED"
        <3>1. repo[tid[g]] \in Row
            BY <2>1 DEF TypeOK
        <3>2. [repo[tid[g]] EXCEPT !.status = "DISPATCHED", !.dispatchedTo = agt[g]].status = "DISPATCHED"
            BY <3>1 DEF Row
        <3> QED BY <1>6, <3>2 DEF ExecRead, ExecReadError, ExecReturn, Exit, Goto, TypeOK
    <2> QED BY <1>1, <2>1, <2>2, <2>3
<1>7. ASSUME NEW g \in Threads, NEW applied \in BOOLEAN, WriteError(g, applied)
      PROVE  AnnounceInv'
    <2>1. tid[g] \in Tasks
        BY <1>7 DEF WriteError, Busy
    <2>2. \A u \in Tasks \ {tid[g]} : repo'[u] = repo[u]
        BY <1>7, <2>1 DEF WriteError, TypeOK
    <2> QED BY <1>1, <1>7, <2>1, <2>2 DEF WriteError, Exit, TypeOK
<1>8. ASSUME NEW g \in Threads, Announce(g)
      PROVE  AnnounceInv'
    <2>1. tid[g] \in Tasks /\ UNCHANGED <<repo, abandoned, crashes>>
        BY <1>8 DEF Announce, Busy
    <2>2. \A h \in Threads \ {g} : pc'[h] = pc[h] /\ tid'[h] = tid[h] /\ snap'[h] = snap[h]
        BY <1>8 DEF Announce, Exit, TypeOK
    <2>3. /\ \A u \in Tasks : announced[u] \subseteq announced'[u]
          /\ snap[g].status \in Terminal => snap[g].status \in announced'[tid[g]]
        BY <1>8, <2>1 DEF Announce, TypeOK
    <2>4. ClaimsDispatch'
        BY <1>8, <2>2 DEF Announce, Exit, TypeOK, ClaimsDispatch
    <2>5. ASSUME NEW u \in Tasks, Told(u), IsTerminal(repo[u]) PROVE Told(u)'
        BY <2>1, <2>2, <2>3, <2>5 DEF Told, IsTerminal
    <2> QED BY <2>1, <2>4, <2>5 DEF OutcomeAnnounced, Told, IsTerminal
<1>9. ASSUME NEW g \in Threads, NEW t \in Tasks, NEW a \in Agents, Relaunch(g, t, a)
      PROVE  AnnounceInv'
    BY <1>1, <1>9 DEF Relaunch, Launch, TypeOK
<1>10. CASE RecoverTurn \/ RecoverList \/ RecoverError \/ UNCHANGED vars
    <2>1. UNCHANGED <<repo, pc, tid, snap, announced, crashes>>
        BY <1>10 DEF RecoverTurn, RecoverList, RecoverError, RecoverListError, RelaunchFails, vars
    <2>2. abandoned \subseteq abandoned'
        BY <1>10 DEF RecoverTurn, RecoverList, RecoverError, RecoverListError, RelaunchFails, vars
    <2> QED BY <2>1, <2>2 DEF ClaimsDispatch, OutcomeAnnounced, IsTerminal
<1>11. CASE Crash
    <2>1. crashes' # 0
        BY <1>11 DEF Crash, TypeOK
    <2> QED BY <1>11, <2>1 DEF Crash, ClaimsDispatch, OutcomeAnnounced
<1> QED
    BY <1>2, <1>3, <1>4, <1>5, <1>6, <1>7, <1>8, <1>9, <1>10, <1>11
       DEF Next, ClientCall, ThreadStep, ThreadError, RecoverStep

(* As long as the broker did not restart and no error path gave the task up, a
   terminal status in the table has been announced or is about to be
   (OutcomeAnnounced), although racing goroutines overwrite each other's rows. *)
THEOREM BrokerAnnounces == Spec => []OutcomeAnnounced
<1>1. Init => AnnounceInv
    BY DEF Init, AnnounceInv, ClaimsDispatch, OutcomeAnnounced, NoRow, IsTerminal, Terminal
<1>2. AnnounceInv => OutcomeAnnounced
    BY DEF AnnounceInv
<1> QED BY <1>1, <1>2, TypedInit, TypedStep, AnnounceStep, PTL DEF Spec

=============================================================================
