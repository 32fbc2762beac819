--------------------------- MODULE TaskBrokerRacesMC ---------------------------
(***************************************************************************)
(* Two kinds of behaviours of the broker in one run; part says which one a *)
(* behaviour is. In a recovery, two tasks without a retry, a restart, no   *)
(* acknowledgement and two goroutines at a time; in a race, three          *)
(* goroutines on one task with a retry, and no restart.                    *)
(***************************************************************************)
EXTENDS TaskBrokerMC, FiniteSets

VARIABLE part

Running(p) == Cardinality({g \in Threads : p[g] # "idle"})

RecoveryCall ==
    \E t \in Tasks, g \in Threads :
        \/ \E a \in Agents : DispatchTask(g, t, ExpertRequest, a)
        \/ CancelRead(g, t)

RaceCall ==
    \E g \in Threads :
        \/ \E a \in Agents : DispatchTask(g, 1, RetryRequest, a)
        \/ \E s \in Acks, r \in BOOLEAN, e \in BOOLEAN : AcknowledgeRead(g, 1, s, r, e)
        \/ CancelRead(g, 1)

Steps == RecoverStep \/ \E g \in Threads : ThreadStep(g)

RacesNext ==
    /\ UNCHANGED part
    /\ \/ part = "recovery" /\ (RecoveryCall \/ Steps \/ Crash) /\ Running(pc') <= 2
       \/ part = "races" /\ (RaceCall \/ Steps)

RacesSpec ==
    /\ Init /\ part \in {"recovery", "races"}
    /\ [][RacesNext]_<<vars, part>>

=============================================================================
