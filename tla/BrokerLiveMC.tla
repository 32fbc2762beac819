------------------------------ MODULE BrokerLiveMC ------------------------------
(***************************************************************************)
(* What must go on by itself when an action is dispatched: the broker's    *)
(* tasks, and the registry's scheduler that the broker asks for an agent.  *)
(* TaskBroker sees the scheduler by its answers only; part says which of   *)
(* the two a behaviour is about.                                           *)
(***************************************************************************)
EXTENDS TaskBrokerMC, Sequences

VARIABLES part,
          cr, endpoints, slices, sliceQ, indexQ, readyQ, writing, agents, capIndex, rr, metrics,
          selecting, changes, faults

schedVars == <<cr, endpoints, slices, sliceQ, indexQ, readyQ, writing, agents, capIndex, rr, metrics,
               selecting, changes, faults>>

---------------------------------------------------------------------------
(* The scheduler: two agents, one Service, a well-formed spec and one with *)
(* a capability the index must drop.                                       *)

Capability(id, has, cost) == [wellFormed |-> TRUE, id |-> id, has |-> has, cost |-> cost]
Registered == {1, 2}
AgentServices == {"s1"}
Specs ==
    {[capabilities |-> {Capability("c1", {"tags"}, "low"), Capability("c2", {}, "high")},
      service |-> "s1", scope |-> "e1"],
     [capabilities |-> {Capability("c1", {}, "medium"),
                        [Capability("c2", {}, "low") EXCEPT !.wellFormed = FALSE]},
      service |-> "", scope |-> ""]}
Selections ==
    {[capability |-> "c1", required |-> {"tags"}, roundRobin |-> FALSE, expert |-> ""],
     [capability |-> "c2", required |-> {}, roundRobin |-> TRUE, expert |-> "e1"]}
Snapshots == {<<[load |-> 1, latency |-> 0], [load |-> 0, latency |-> 0]>>}

Sched == INSTANCE AgentScheduler WITH
            Agents <- Registered, Services <- AgentServices, Requests <- Selections,
            RotationCycle <- 2, MaxEndpoints <- 1, MaxChanges <- 1, MaxFaults <- 1

---------------------------------------------------------------------------
MCInit ==
    /\ part \in {"broker", "scheduler"}
    /\ IF part = "scheduler" THEN TRUE ELSE cr = <<>> /\ endpoints = [s \in AgentServices |-> 0]
    /\ Init /\ Sched!Init
    /\ 2 \in DOMAIN cr => 1 \in DOMAIN cr  \* a single agent is the first

MCNext ==
    \/ part = "broker" /\ Next /\ UNCHANGED <<part, schedVars>>
    \/ part = "scheduler" /\ Sched!Next /\ UNCHANGED <<part, vars>>

MCSpec ==
    /\ MCInit /\ [][MCNext]_<<part, vars, schedVars>>
    /\ \A g \in Threads : WF_vars(part = "broker" /\ ThreadStep(g))
    /\ SF_vars(part = "broker" /\ RecoverStep)
    /\ \A a \in Registered : /\ WF_schedVars(part = "scheduler" /\ Sched!Reconcile(a))
                             /\ WF_schedVars(part = "scheduler" /\ Sched!ReconcileReadiness(a))
    /\ \A s \in AgentServices : WF_schedVars(part = "scheduler" /\ Sched!mapSliceToAgents(s))
    /\ WF_schedVars(part = "scheduler" /\ Sched!writeStatus)
    /\ WF_schedVars(part = "scheduler" /\ Sched!Resync)

\* AgentScheduler!SelectsServing, of two agents behind one Service.
SelectsServing ==
    /\ [](part = "scheduler" => Sched!AnswerFits)
    /\ <>[](part = "scheduler" => \A r \in Selections : Sched!Truthful(r))

=============================================================================
