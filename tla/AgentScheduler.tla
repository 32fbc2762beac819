---------------------------- MODULE AgentScheduler ----------------------------
(***************************************************************************)
(* The agent-registry: the informer that keeps the capability index, the   *)
(* elected reconciler that derives an Agent's readiness from the endpoints *)
(* of its Service, and SelectAgent with its metrics cache.                 *)
(***************************************************************************)
EXTENDS Naturals, Sequences, FiniteSets, TLC, SequencesExt

CONSTANTS Agents,         \* the keys of the Agent resources: numbers, in key order
          Services,       \* the Services of the agents
          Specs,          \* the specs an Agent may be given
          Requests,       \* the SelectAgent requests
          Snapshots,      \* what the two Prometheus queries may return
          RotationCycle,  \* a multiple of every number of candidates
          MaxEndpoints,   \* bound on the ready endpoints of a Service
          MaxChanges,     \* bound on changes of the cluster and restarts
          MaxFaults       \* bound on failed calls

VARIABLES cr,         \* API server: the Agents that exist, with spec and status
          endpoints,  \* API server: the ready endpoints of each Service
          slices,     \* the cached EndpointSlices, by Service
          sliceQ,     \* Services with an EndpointSlice event to come
          indexQ,     \* requests of the index controller
          readyQ,     \* requests of the readiness controller
          writing,    \* the status update under way, none or one
          agents,     \* Index.agents
          capIndex,   \* Index.capIndex, as pairs
          rr,         \* Scorer.rr
          metrics,    \* promql.Client: the cached snapshot, none when its TTL has passed
          selecting,  \* the selection under way, none or one
          changes, faults

schedVars == <<cr, endpoints, slices, sliceQ, indexQ, readyQ, writing, agents, capIndex, rr, metrics,
               selecting, changes, faults>>
cluster == <<cr, endpoints>>
queues == <<slices, sliceQ, indexQ, readyQ, writing>>
index == <<agents, capIndex>>
selection == <<rr, metrics, selecting>>
budget == <<changes, faults>>

Without(f, x) == [y \in DOMAIN f \ {x} |-> f[y]]

-----------------------------------------------------------------------------
(* Candidates and the index.                                               *)

\* Entries that are not well formed are skipped.
parseCapabilities(spec) == {c \in spec.capabilities : c.wellFormed}

\* Readiness comes from the status: status.ready is written with status.replicas.
ToCandidate(a) ==
    [key |-> a, service |-> cr[a].spec.service, ready |-> cr[a].replicas > 0,
     scope |-> cr[a].spec.scope, capabilities |-> parseCapabilities(cr[a].spec)]

CapabilityByID(candidate, id) == {c \in candidate.capabilities : c.id = id}

removeLinks(a) ==
    capIndex \ {<<c.id, a>> : c \in IF a \in DOMAIN agents THEN agents[a].capabilities ELSE {}}

Upsert(a) ==
    /\ agents' = (a :> ToCandidate(a)) @@ agents
    /\ capIndex' = removeLinks(a) \cup {<<c.id, a>> : c \in ToCandidate(a).capabilities}

Delete(a) ==
    /\ agents' = Without(agents, a)
    /\ capIndex' = removeLinks(a)

Candidates(id) ==
    LET keys == SetToSortSeq({a \in Agents : <<id, a>> \in capIndex}, <)
    IN  [i \in DOMAIN keys |-> agents[keys[i]]]

-----------------------------------------------------------------------------
Init ==
    /\ \E exists \in SUBSET Agents :
          cr \in [exists -> {[spec |-> s, replicas |-> 0, observed |-> FALSE] : s \in Specs}]
    /\ endpoints \in [Services -> 0..MaxEndpoints]
    /\ slices = endpoints /\ sliceQ = Services
    /\ indexQ = DOMAIN cr /\ readyQ = DOMAIN cr /\ writing = <<>>
    /\ agents = <<>> /\ capIndex = {}
    /\ rr = 0 /\ metrics = <<>> /\ selecting = <<>>
    /\ changes = 0 /\ faults = 0

Change == changes < MaxChanges /\ changes' = changes + 1 /\ UNCHANGED faults
Fault == faults < MaxFaults /\ faults' = faults + 1 /\ UNCHANGED changes

\* An event of an Agent wakes both controllers; a status update under way was read
\* from the version before it.
Wake(a) ==
    /\ indexQ' = indexQ \cup {a} /\ readyQ' = readyQ \cup {a}
    /\ writing' = [i \in DOMAIN writing |-> [writing[i] EXCEPT !.current = @ /\ writing[i].agent # a]]

-----------------------------------------------------------------------------
(* The cluster.                                                            *)

\* A new spec raises the generation and keeps the status.
ApplyAgent(a, s) ==
    /\ Change
    /\ a \in DOMAIN cr => cr[a].spec # s
    /\ cr' = (a :> [spec |-> s, replicas |-> IF a \in DOMAIN cr THEN cr[a].replicas ELSE 0, observed |-> FALSE]) @@ cr
    /\ Wake(a)
    /\ UNCHANGED <<endpoints, slices, sliceQ, index, selection>>

DeleteAgent(a) ==
    /\ Change /\ a \in DOMAIN cr
    /\ cr' = Without(cr, a)
    /\ Wake(a)
    /\ UNCHANGED <<endpoints, slices, sliceQ, index, selection>>

EndpointsChange(s, n) ==
    /\ Change /\ endpoints[s] # n
    /\ endpoints' = [endpoints EXCEPT ![s] = n]
    /\ sliceQ' = sliceQ \cup {s}
    /\ UNCHANGED <<cr, slices, indexQ, readyQ, writing, index, selection>>

\* The process starts again, as the leader.
Restart ==
    /\ Change
    /\ slices' = endpoints /\ sliceQ' = Services
    /\ indexQ' = DOMAIN cr /\ readyQ' = DOMAIN cr /\ writing' = <<>>
    /\ agents' = <<>> /\ capIndex' = {}
    /\ rr' = 0 /\ metrics' = <<>> /\ selecting' = <<>>
    /\ UNCHANGED cluster

\* The resync of the informers repeats the event of every object; it comes hours
\* apart, when the controllers have long been idle.
Resync ==
    /\ indexQ = {} /\ readyQ = {} /\ writing = <<>>
    /\ indexQ' = DOMAIN cr /\ readyQ' = DOMAIN cr
    /\ UNCHANGED <<cluster, slices, sliceQ, writing, index, selection, budget>>

-----------------------------------------------------------------------------
(* The controllers. An error that only requeues the request changes nothing. *)

Reconcile(a) ==
    /\ a \in indexQ /\ indexQ' = indexQ \ {a}
    /\ IF a \in DOMAIN cr THEN Upsert(a) ELSE Delete(a)
    /\ UNCHANGED <<cluster, slices, sliceQ, readyQ, writing, selection, budget>>

\* Any error of the Get removes the agent from the index; the request is repeated.
ReconcileFails(a) ==
    /\ Fault /\ a \in indexQ
    /\ Delete(a)
    /\ UNCHANGED <<cluster, queues, selection>>

countServingEndpoints(s) == IF s = "" THEN 0 ELSE slices[s]

\* Mutant: a status that has seen the generation is taken for up to date.
ReadinessByGeneration(a) ==
    /\ writing = <<>> /\ a \in readyQ /\ readyQ' = readyQ \ {a}
    /\ writing' = IF a \notin DOMAIN cr \/ cr[a].observed THEN <<>>
                  ELSE <<[agent |-> a, replicas |-> countServingEndpoints(cr[a].spec.service), current |-> TRUE]>>
    /\ UNCHANGED <<cluster, slices, sliceQ, indexQ, index, selection, budget>>

ReconcileReadiness(a) ==
    /\ writing = <<>> /\ a \in readyQ /\ readyQ' = readyQ \ {a}
    /\ LET serving == countServingEndpoints(cr[a].spec.service)
           steady == cr[a].replicas = serving /\ cr[a].observed
       IN  writing' = IF a \notin DOMAIN cr \/ steady THEN <<>>
                      ELSE <<[agent |-> a, replicas |-> serving, current |-> TRUE]>>
    /\ UNCHANGED <<cluster, slices, sliceQ, indexQ, index, selection, budget>>

\* The Status().Update: a conflict requeues the request.
writeStatus ==
    /\ writing # <<>>
    /\ LET w == Head(writing) IN
       /\ cr' = IF w.current
                THEN [cr EXCEPT ![w.agent].replicas = w.replicas, ![w.agent].observed = TRUE]
                ELSE cr
       /\ indexQ' = IF w.current THEN indexQ \cup {w.agent} ELSE indexQ
       /\ readyQ' = readyQ \cup {w.agent}
    /\ writing' = <<>>
    /\ UNCHANGED <<endpoints, slices, sliceQ, index, selection, budget>>

\* An EndpointSlice event refreshes the cache and wakes the agents of the Service.
mapSliceToAgents(s) ==
    /\ s \in sliceQ /\ sliceQ' = sliceQ \ {s}
    /\ slices' = [slices EXCEPT ![s] = endpoints[s]]
    /\ readyQ' = readyQ \cup {a \in DOMAIN cr : cr[a].spec.service = s}
    /\ UNCHANGED <<cluster, indexQ, writing, index, selection, budget>>

\* The List of the agents fails: nobody is woken.
mapSliceFails(s) ==
    /\ Fault /\ s \in sliceQ /\ sliceQ' = sliceQ \ {s}
    /\ slices' = [slices EXCEPT ![s] = endpoints[s]]
    /\ UNCHANGED <<cluster, indexQ, readyQ, writing, index, selection>>

-----------------------------------------------------------------------------
(* SelectAgent.                                                            *)

Filters == <<"tags", "language", "model", "gpu", "protocols">>

\* The first unmet constraint of each capability with the id.
failedConstraint(candidate, r) ==
    LET unmet(c) == SelectSeq(Filters, LAMBDA f : f \in r.required /\ f \notin c.has)
    IN  {IF unmet(c) = <<>> THEN "" ELSE Head(unmet(c)) : c \in CapabilityByID(candidate, r.capability)}

filterConstraints(candidates, r) == SelectSeq(candidates, LAMBDA c : failedConstraint(c, r) = {""})

\* The stage named by the error is that of the last candidate that was dropped.
stageOf(candidates, r) ==
    LET dropped == SelectSeq(candidates, LAMBDA c : failedConstraint(c, r) # {})
    IN  IF dropped = <<>> THEN "" ELSE CHOOSE f \in failedConstraint(Last(dropped), r) : TRUE

\* Stages 1 to 4: capability, constraints, readiness, expert.
Select(r) ==
    LET matched == Candidates(r.capability)
        fit     == filterConstraints(matched, r)
        ready   == SelectSeq(fit, LAMBDA c : c.ready)
        expert  == SelectSeq(ready, LAMBDA c : r.expert \in {"", c.scope})
        error(code, stage) == [code |-> code, stage |-> stage, left |-> <<>>]
    IN  CASE matched = <<>> -> error("NotFound", "capability")
          [] matched # <<>> /\ fit = <<>> -> error("FailedPrecondition", stageOf(matched, r))
          [] fit # <<>> /\ ready = <<>> -> error("FailedPrecondition", "ready")
          [] ready # <<>> /\ expert = <<>> -> error("FailedPrecondition", "expert")
          [] OTHER -> [code |-> "OK", stage |-> "", left |-> expert]

Waits(r, candidates) == selecting' = <<[request |-> r, waits |-> TRUE, left |-> candidates]>>
Answers(r, candidate) == selecting' = <<[request |-> r, waits |-> FALSE, left |-> <<candidate>>]>>

rotate(r, candidates) ==
    /\ rr' = (rr + 1) % RotationCycle
    /\ Answers(r, candidates[(rr % Len(candidates)) + 1])

\* The rotation is answered at once, the score waits for metrics. An error, of an
\* empty capability name too, changes nothing.
SelectAgent(r) ==
    /\ selecting = <<>> /\ r.capability # ""
    /\ LET s == Select(r) IN
       /\ s.code = "OK"
       /\ IF r.roundRobin THEN rotate(r, s.left) ELSE Waits(r, s.left) /\ UNCHANGED rr
    /\ UNCHANGED <<cluster, queues, index, metrics, budget>>

costScore(c) == CASE c.cost = "low" -> 2 [] c.cost = "medium" -> 10 [] c.cost = "high" -> 20 [] OTHER -> 0

\* In hundredths; an agent without a series has zero metrics.
score(c, m) == 40 * m.load + 40 * m.latency + costScore(c)

\* The least score; the least key among equals.
best(r, candidates, snapshot) ==
    LET scored(i) == LET c == CHOOSE c \in CapabilityByID(candidates[i], r.capability) : TRUE
                     IN  score(c, snapshot[candidates[i].key])
        least == CHOOSE i \in DOMAIN candidates :
                    \A j \in DOMAIN candidates : scored(i) < scored(j) \/ (scored(i) = scored(j) /\ i <= j)
    IN  candidates[least]

Waiting == selecting # <<>> /\ selecting[1].waits

\* snapshotAll: the cached snapshot within its TTL, else what the queries return.
Snapshot(snapshot) ==
    /\ Waiting /\ metrics \in {<<>>, <<snapshot>>}
    /\ metrics' = <<snapshot>>
    /\ LET r == selecting[1].request
       IN  Answers(r, best(r, selecting[1].left, snapshot))
    /\ UNCHANGED <<cluster, queues, index, rr, budget>>

\* Either query fails, or no Prometheus is configured: rotation over what is left.
SnapshotFails ==
    /\ Waiting /\ metrics = <<>>
    /\ rotate(selecting[1].request, selecting[1].left)
    /\ UNCHANGED <<cluster, queues, index, metrics, budget>>

TTLPasses ==
    /\ metrics # <<>> /\ metrics' = <<>>
    /\ UNCHANGED <<cluster, queues, index, rr, selecting, budget>>

\* The answer has been sent.
Returned ==
    /\ selecting # <<>> /\ ~Waiting
    /\ selecting' = <<>>
    /\ UNCHANGED <<cluster, queues, index, rr, metrics, budget>>

-----------------------------------------------------------------------------
Next ==
    \/ \E a \in Agents : \/ \E s \in Specs : ApplyAgent(a, s)
                         \/ DeleteAgent(a)
                         \/ Reconcile(a) \/ ReconcileFails(a) \/ ReconcileReadiness(a)
    \/ \E s \in Services : \/ \E n \in 0..MaxEndpoints : EndpointsChange(s, n)
                           \/ mapSliceToAgents(s) \/ mapSliceFails(s)
    \/ writeStatus \/ Restart \/ Resync
    \/ \E r \in Requests : SelectAgent(r)
    \/ \E s \in Snapshots : Snapshot(s)
    \/ SnapshotFails \/ TTLPasses \/ Returned

\* The controllers work off their queues, the watch delivers, and the informers
\* resync (every ten hours unless configured). Nothing is assumed of the callers.
FairSpec ==
    /\ Init /\ [][Next]_schedVars
    /\ \A a \in Agents : WF_schedVars(Reconcile(a)) /\ WF_schedVars(ReconcileReadiness(a))
    /\ \A s \in Services : WF_schedVars(mapSliceToAgents(s))
    /\ WF_schedVars(writeStatus) /\ WF_schedVars(Resync)

-----------------------------------------------------------------------------
(* Properties.                                                             *)

DeclaresCapability(a, r) == {c \in parseCapabilities(cr[a].spec) : c.id = r.capability} # {}
Serves(a) == cr[a].spec.service # "" /\ endpoints[cr[a].spec.service] > 0

\* The agents of the cluster a request may be given.
Eligible(r) ==
    {a \in DOMAIN cr : /\ DeclaresCapability(a, r) /\ Serves(a)
                       /\ r.expert \in {"", cr[a].spec.scope}
                       /\ \A c \in parseCapabilities(cr[a].spec) : c.id = r.capability => r.required \subseteq c.has}

\* What SelectAgent finds is what the cluster has.
Truthful(r) ==
    LET s == Select(r) IN
    /\ {s.left[i].key : i \in DOMAIN s.left} = Eligible(r)
    /\ (s.code = "NotFound") <=> ~\E a \in DOMAIN cr : DeclaresCapability(a, r)

\* An answer fits its request, also when the index changed while it waited.
AnswerFits ==
    \A i \in DOMAIN selecting :
        LET r == selecting[i].request IN
        \A j \in DOMAIN selecting[i].left :
            LET c == selecting[i].left[j]
            IN  /\ c.ready /\ r.expert \in {"", c.scope}
                /\ \E k \in CapabilityByID(c, r.capability) : r.required \subseteq k.has

\* Every answer names an agent that was ready, declares the capability, meets the
\* constraints and has the expert scope. Once the cluster rests, SelectAgent chooses
\* among exactly the agents whose Service has a ready endpoint, and says NotFound
\* exactly when nobody declares the capability: after lost wake-ups, conflicting
\* status updates, failed reads and restarts of the scheduler too.
SelectsServing == []AnswerFits /\ <>[](\A r \in Requests : Truthful(r))

=============================================================================
