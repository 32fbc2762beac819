------------------------------ MODULE WorkflowApply ------------------------------
(***************************************************************************)
(* How runs are started: the apply path of the api-gateway (look up the    *)
(* run named by the hash of the manifest, then submit), the REST clients   *)
(* and the reconciler of Workflow resources that share it, and the engine  *)
(* behind it, Temporal or Argo.                                            *)
(*                                                                         *)
(* The look-up, the submit and the status update are calls of their own:   *)
(* other applies, changes of the resource, the end of a run or the end of  *)
(* the gateway come between them.                                          *)
(***************************************************************************)
EXTENDS Naturals, Sequences, FiniteSets

CONSTANTS
    Engines,     \* engines the adapter may be configured with
    Manifests,   \* canonical manifests, named by their hash
    Broken,      \* the manifests that do not build or compile
    Clients,     \* REST callers
    MaxClock,    \* bound on the seconds that re-run names differ in
    MaxGen,      \* bound on the generations of the resource
    MaxVersion,  \* bound on changes of the resource
    MaxFaults    \* bound on failing calls, restarts of the gateway and Argo cancels

ASSUME WorkflowApplyAssumption ==
    /\ Engines \subseteq {"temporal", "argo"}
    /\ Broken \subseteq Manifests
    /\ MaxClock \in Nat \ {0} /\ MaxGen \in Nat \ {0}
    /\ MaxVersion \in Nat /\ MaxFaults \in Nat

\* A run is named after its manifest; a re-run has the second it was asked for.
Base(m) == [manifest |-> m, stamp |-> 0]

\* A mutated name, of the second after.
rerunNextSecond(m, now) == [manifest |-> m, stamp |-> now + 1]

rerunWorkflowID(m, now) == [manifest |-> m, stamp |-> now]
RunIDs == [manifest : Manifests, stamp : 0 .. MaxClock]
NoRun == [manifest |-> "none", stamp |-> 0]

VARIABLES
    engine,     \* the configured engine
    runs,       \* status of the latest execution under a name
    cancelling, \* run that an Argo cancel has looked up and will delete
    clock,      \* the current second
    client,     \* REST caller: the run it will submit, or NoRun
    cr,         \* the Workflow resource: [gen, observed, run, version]
    specs,      \* the manifest of every generation
    cache,      \* the informer's copy of the resource
    queued,     \* whether the resource is in the work queue
    rec,        \* the reconciler: [pc, copy, run]
    faults,
    completed,  \* manifests of which a run has completed
    started     \* executions the reconciler started for a generation

crVars == <<cr, specs>>
recVars == <<cache, queued, rec>>
vars == <<engine, runs, cancelling, clock, client, cr, specs, cache, queued, rec,
          faults, completed, started>>

Active == {"PENDING", "RUNNING"}
Ended == {"COMPLETED", "FAILED"}   \* apply treats a cancelled run as a failed one

New == [gen |-> 1, observed |-> 0, run |-> NoRun, version |-> 1]
Idle == [pc |-> "idle", copy |-> New, run |-> NoRun]

\* The resource has just been created and is in the queue of a new gateway.
Init ==
    /\ engine \in Engines
    /\ runs = [id \in RunIDs |-> "NONE"]
    /\ cancelling = NoRun
    /\ clock = 1
    /\ client = [c \in Clients |-> NoRun]
    /\ cr = New
    /\ specs \in {<<m>> : m \in Manifests}
    /\ cache = cr
    /\ queued = TRUE
    /\ rec = Idle
    /\ faults = 0
    /\ completed = {}
    /\ started = [g \in 1 .. MaxGen |-> 0]

---------------------------------------------------------------------------
(* The engine *)

\* What SubmitWorkflow does to the run of that name. Temporal joins a running
\* execution without an error and starts another one under the name of an
\* ended one; Argo refuses the name of any resource that exists.
Refused(id) == engine = "argo" /\ runs[id] # "NONE"
Starts(id) == IF engine = "argo" THEN runs[id] = "NONE" ELSE runs[id] # "RUNNING"
Submitted(id) ==
    IF ~Starts(id) THEN runs
    ELSE [runs EXCEPT ![id] = IF engine = "argo" THEN "PENDING" ELSE "RUNNING"]

\* A run makes progress and ends.
EngineStep(id, s) ==
    /\ runs[id] \in Active
    /\ s = "RUNNING" => runs[id] = "PENDING"
    /\ runs' = [runs EXCEPT ![id] = s]
    /\ completed' = IF s = "COMPLETED" THEN completed \cup {id.manifest} ELSE completed
    /\ UNCHANGED <<engine, cancelling, clock, client, crVars, recVars, faults, started>>

\* ArgoEngine.Cancel: look the run up, then delete it, whatever it is by then.
\* A cancelled Temporal run ends by itself (EngineStep).
CancelCheck(id) ==
    /\ faults < MaxFaults /\ faults' = faults + 1
    /\ engine = "argo" /\ cancelling = NoRun
    /\ runs[id] \in Active
    /\ cancelling' = id
    /\ UNCHANGED <<engine, runs, clock, client, crVars, recVars, completed, started>>

CancelDelete ==
    /\ cancelling # NoRun
    /\ runs' = [runs EXCEPT ![cancelling] = "NONE"]
    /\ cancelling' = NoRun
    /\ UNCHANGED <<engine, clock, client, crVars, recVars, faults, completed, started>>

Tick ==
    /\ clock < MaxClock
    /\ clock' = clock + 1
    /\ UNCHANGED <<engine, runs, cancelling, client, crVars, recVars, faults, completed, started>>

---------------------------------------------------------------------------
(* ApplyService.submit, and the REST callers *)

\* A mutated choice that re-runs whatever has ended.
chooseRunRerunsAll(m) ==
    IF runs[Base(m)] \in Ended THEN rerunWorkflowID(m, clock) ELSE Base(m)

\* The name to submit under when the run of the manifest is not RUNNING.
chooseRun(m) ==
    IF runs[Base(m)] = "COMPLETED" THEN rerunWorkflowID(m, clock) ELSE Base(m)

\* A manifest that does not compile, a running run and a failing look-up end
\* the call without a change.
ClientCheck(c, m) ==
    /\ client[c] = NoRun
    /\ m \notin Broken /\ runs[Base(m)] # "RUNNING"
    /\ client' = [client EXCEPT ![c] = chooseRun(m)]
    /\ UNCHANGED <<engine, runs, cancelling, clock, crVars, recVars, faults, completed, started>>

ClientSubmit(c) ==
    /\ client[c] # NoRun
    /\ runs' = Submitted(client[c])
    /\ client' = [client EXCEPT ![c] = NoRun]
    /\ UNCHANGED <<engine, cancelling, clock, crVars, recVars, faults, completed, started>>

---------------------------------------------------------------------------
(* The resource *)

UpdateSpec(m) ==
    /\ cr.gen < MaxGen /\ cr.version < MaxVersion
    /\ m # specs[cr.gen]
    /\ specs' = Append(specs, m)
    /\ cr' = [cr EXCEPT !.gen = @ + 1, !.version = @ + 1]
    /\ UNCHANGED <<engine, runs, cancelling, clock, client, recVars, faults, completed, started>>

\* A change of metadata only.
Touch ==
    /\ cr.version < MaxVersion
    /\ cr' = [cr EXCEPT !.version = @ + 1]
    /\ UNCHANGED <<engine, runs, cancelling, clock, client, specs, recVars, faults,
                   completed, started>>

\* The informer learns of the change and queues the resource.
CacheSync ==
    /\ cache # cr
    /\ cache' = cr
    /\ queued' = TRUE
    /\ UNCHANGED <<engine, runs, cancelling, clock, client, crVars, rec, faults, completed, started>>

\* A periodic resync.
Resync ==
    /\ ~queued
    /\ queued' = TRUE
    /\ UNCHANGED <<engine, runs, cancelling, clock, client, crVars, cache, rec, faults,
                   completed, started>>

---------------------------------------------------------------------------
(* WorkflowReconciler.Reconcile *)

RecGoto(pc, run) == rec' = [rec EXCEPT !.pc = pc, !.run = run]

\* A mutated ending that returns no error.
RequeueForgets == rec' = Idle /\ UNCHANGED queued

\* Back to the queue with an error.
Requeue == rec' = Idle /\ queued' = TRUE

\* A mutated gate that lets every reconcile through.
alwaysReconcile(u) == TRUE

needsReconcile(u) == u.gen # u.observed

\* The resource is read; a broken manifest is reported at once. The manager's client
\* reads unstructured resources from the API server; here an older copy, as from its
\* informer, may be read as well, which only makes it harder.
Reconcile ==
    /\ rec.pc = "idle" /\ queued
    /\ queued' = FALSE
    /\ rec' = IF ~needsReconcile(cache) THEN rec
              ELSE [pc |-> IF specs[cache.gen] \in Broken THEN "status" ELSE "check",
                    copy |-> cache, run |-> NoRun]
    /\ UNCHANGED <<engine, runs, cancelling, clock, client, crVars, cache, faults,
                   completed, started>>

RecManifest == specs[rec.copy.gen]

RecCheck ==
    /\ rec.pc = "check"
    /\ IF runs[Base(RecManifest)] = "RUNNING"
         THEN RecGoto("status", Base(RecManifest))
         ELSE RecGoto("submit", chooseRun(RecManifest))
    /\ UNCHANGED <<engine, runs, cancelling, clock, client, crVars, cache, queued, faults,
                   completed, started>>

\* Counted up to two, which is one too many.
Count ==
    started' = IF Starts(rec.run) /\ started[rec.copy.gen] < 2
                 THEN [started EXCEPT ![rec.copy.gen] = @ + 1] ELSE started

RecSubmit ==
    /\ rec.pc = "submit"
    /\ runs' = Submitted(rec.run)
    /\ Count
    /\ IF Refused(rec.run) THEN Requeue ELSE RecGoto("status", rec.run) /\ UNCHANGED queued
    /\ UNCHANGED <<engine, cancelling, clock, client, crVars, cache, faults, completed>>

StatusOf(u) == [u EXCEPT !.observed = u.gen, !.run = rec.run, !.version = @ + 1]

\* A mutated status write that patches the resource as it is now.
writeStatusBlind ==
    /\ rec.pc = "status"
    /\ cr' = StatusOf(cr) /\ rec' = Idle /\ UNCHANGED queued
    /\ UNCHANGED <<engine, runs, cancelling, clock, client, specs, cache, faults, completed, started>>

\* The update names the version that was read, and conflicts with a later one.
writeStatus ==
    /\ rec.pc = "status"
    /\ IF rec.copy.version = cr.version
         THEN cr' = StatusOf(rec.copy) /\ rec' = Idle /\ UNCHANGED queued
         ELSE Requeue /\ UNCHANGED cr
    /\ UNCHANGED <<engine, runs, cancelling, clock, client, specs, cache, faults, completed, started>>

\* A call of the reconciler fails; it may have been carried out all the same.
RecFails(applied) ==
    /\ faults < MaxFaults /\ faults' = faults + 1
    /\ rec.pc # "idle"
    /\ Requeue
    /\ IF applied /\ rec.pc = "submit" THEN runs' = Submitted(rec.run) /\ Count
                                       ELSE UNCHANGED <<runs, started>>
    /\ cr' = IF applied /\ rec.pc = "status" /\ rec.copy.version = cr.version
               THEN StatusOf(rec.copy) ELSE cr
    /\ UNCHANGED <<engine, cancelling, clock, client, specs, cache, completed>>

\* The gateway ends, and the controller of another one takes over the lease.
Restart ==
    /\ faults < MaxFaults /\ faults' = faults + 1
    /\ client' = [c \in Clients |-> NoRun]
    /\ cache' = cr /\ queued' = TRUE
    /\ rec' = Idle
    /\ UNCHANGED <<engine, runs, cancelling, clock, crVars, completed, started>>

---------------------------------------------------------------------------
Environment ==
    \/ \E id \in RunIDs, s \in {"RUNNING"} \cup Ended : EngineStep(id, s)
    \/ \E id \in RunIDs : CancelCheck(id)
    \/ CancelDelete
    \/ Tick
    \/ \E c \in Clients, m \in Manifests : ClientCheck(c, m)
    \/ \E c \in Clients : ClientSubmit(c)
    \/ \E m \in Manifests : UpdateSpec(m)
    \/ Touch
    \/ Resync
    \/ \E applied \in BOOLEAN : RecFails(applied)
    \/ Restart

RecStep == Reconcile \/ RecCheck \/ RecSubmit \/ writeStatus

Next == Environment \/ CacheSync \/ RecStep

Spec == Init /\ [][Next]_vars

\* The informer's watch delivers, and the worker of the queue runs.
Fairness == WF_vars(CacheSync) /\ WF_vars(RecStep)

FairSpec == Spec /\ Fairness

---------------------------------------------------------------------------
(* Properties *)

Resource == [gen : 1 .. MaxGen, observed : 0 .. MaxGen, run : RunIDs \cup {NoRun},
             version : Nat \ {0}]

\* Types of the variables.
TypeOK ==
    /\ engine \in Engines
    /\ runs \in [RunIDs -> {"NONE"} \cup Active \cup Ended]
    /\ cancelling \in RunIDs \cup {NoRun}
    /\ clock \in 1 .. MaxClock
    /\ client \in [Clients -> RunIDs \cup {NoRun}]
    /\ cr \in Resource /\ cache \in Resource
    /\ specs \in [1 .. cr.gen -> Manifests]
    /\ queued \in BOOLEAN
    /\ rec \in [pc : {"idle", "check", "submit", "status"}, copy : Resource,
                run : RunIDs \cup {NoRun}]
    /\ faults \in Nat
    /\ completed \subseteq Manifests
    /\ started \in [1 .. MaxGen -> 0 .. 2]

\* What the status of the resource says is about the spec it says it is about:
\* the run it names was submitted for the manifest of the observed generation,
\* and a broken manifest has none, however the spec changed meanwhile.
StatusTellsSpec ==
    cr.observed # 0 =>
        LET m == specs[cr.observed] IN
        IF m \in Broken THEN cr.run = NoRun ELSE cr.run.manifest = m

\* As long as no run of a manifest has completed, all applies of it, from REST
\* and from the resource, share one run: the one named by its hash.
SharedUntilCompleted ==
    \A id \in RunIDs : runs[id] # "NONE" /\ id.stamp # 0 => id.manifest \in completed

Settled ==
    /\ cr.observed = cr.gen
    /\ cache.gen = cr.gen /\ cache.observed = cr.observed
    /\ rec.pc = "idle"

\* The gate of ADR-043: once the status has recorded the generation and the
\* informer has seen it, nothing but a change of the spec starts another run
\* of the resource - no resync, metadata change, restart or end of the run.
GateCloses ==
    [][Settled => started' = started /\ (Settled' \/ cr'.gen # cr.gen)]_vars

\* Argo already has a resource of the name that the spec is to be submitted under.
Blocked ==
    LET m == specs[cr.gen] IN
    engine = "argo" /\ runs[Base(m)] # "RUNNING" /\ runs[chooseRun(m)] # "NONE"

\* The reconciler gets to every spec, whatever conflicts, faults, restarts and
\* other applies come between: the status always catches up with the last
\* generation, as long as Argo does not again and again refuse the name of a
\* run that has been there before.
Converges == []<>(cr.observed = cr.gen \/ Blocked)

\* docs/spdd/1573-workflow-crd-front-end/canvas.md: "Never submit a duplicate
\* run for an unchanged spec".
NoDuplicateRun == \A g \in 1 .. MaxGen : started[g] <= 1

\* The comment of submit: "Not found / failed / other terminal -> start new run
\* with hash ID".
EndedIsReplaced ==
    [][rec.pc = "submit" /\ faults' = faults /\ rec'.pc # "submit"
         /\ runs[rec.run] = "FAILED"
       => runs'[rec.run] \in Active]_vars

=============================================================================
