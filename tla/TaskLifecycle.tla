------------------------------ MODULE TaskLifecycle ------------------------------
(***************************************************************************)
(* What the task broker promises about the status of a task, whatever its  *)
(* goroutines do: a status is written by read-modify-writes that may       *)
(* overlap, and only a read-modify-write that began while the task was not *)
(* terminal may change it.                                                 *)
(***************************************************************************)
CONSTANTS Tasks, Durable

VARIABLES
    status,  \* status of the stored row, "NONE" if there is none
    open     \* whether some read-modify-write of the row is under way

vars == <<status, open>>

Terminal == {"COMPLETED", "FAILED", "CANCELLED"}
Written == {"DISPATCHED", "RETRYING"} \cup Terminal

Init ==
    /\ status = [t \in Tasks |-> "NONE"]
    /\ open = [t \in Tasks |-> FALSE]

Create(t) ==
    /\ status[t] = "NONE"
    /\ status' = [status EXCEPT ![t] = "PENDING"]
    /\ UNCHANGED open

Begin(t) ==
    /\ status[t] \notin Terminal \cup {"NONE"}
    /\ open' = [open EXCEPT ![t] = TRUE]
    /\ UNCHANGED status

\* Other read-modify-writes of the task may stay open.
Write(t, s, others) ==
    /\ open[t]
    /\ status' = [status EXCEPT ![t] = s]
    /\ open' = [open EXCEPT ![t] = others]

Drop(t) ==
    /\ open[t]
    /\ open' = [open EXCEPT ![t] = FALSE]
    /\ UNCHANGED status

Restart ==
    /\ status' = IF Durable THEN status ELSE [t \in Tasks |-> "NONE"]
    /\ open' = [t \in Tasks |-> FALSE]

TaskStep(t) ==
    \/ Create(t)
    \/ Begin(t)
    \/ \E s \in Written, others \in BOOLEAN : Write(t, s, others)
    \/ Drop(t)

Next == Restart \/ \E t \in Tasks : TaskStep(t)

Spec == Init /\ [][Next]_vars

=============================================================================
