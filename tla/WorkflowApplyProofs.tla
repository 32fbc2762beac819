-------------------------- MODULE WorkflowApplyProofs --------------------------
(***************************************************************************)
(* Proofs about the apply path and the Workflow reconciler, for any number *)
(* of manifests, clients, generations, faults and restarts, and about the  *)
(* command line and the gitops watcher in front of them.                   *)
(***************************************************************************)
EXTENDS WorkflowApply, ZynaxCLI, GitopsWatcher, SequenceTheorems, Recursions, TLAPS

(* A copy of the resource is at most as recent as the resource, and is the resource
   itself if it has its version. *)
Snapshot(u) ==
    /\ u.version <= cr.version
    /\ u.gen <= cr.gen
    /\ u.version = cr.version => u = cr

(* The run is one that status may name for manifest m. *)
Names(run, m) == IF m \in Broken THEN run = NoRun ELSE run.manifest = m

(* What the reconciler holds is about the generation it read. *)
RecTells ==
    LET m == specs[rec.copy.gen] IN
    /\ rec.pc # "idle" => Snapshot(rec.copy)
    /\ rec.pc \in {"check", "submit"} => m \notin Broken
    /\ rec.pc = "submit" => rec.run \in RunIDs /\ rec.run.manifest = m
    /\ rec.pc = "status" => Names(rec.run, m)

(* The observed generation was one of the resource. *)
Observed == cr.observed <= cr.gen

ApplyInv == TypeOK /\ Snapshot(cache) /\ RecTells /\ Observed /\ StatusTellsSpec

(* The name that is chosen for a manifest names a run of it. *)
LEMMA ChosenRun ==
    ASSUME TypeOK, NEW m \in Manifests
    PROVE  chooseRun(m) \in RunIDs /\ chooseRun(m).manifest = m
BY WorkflowApplyAssumption DEF chooseRun, rerunWorkflowID, Base, RunIDs, TypeOK

(* What a submit leaves behind are runs. *)
LEMMA SubmittedType ==
    ASSUME TypeOK, NEW id \in RunIDs
    PROVE  Submitted(id) \in [RunIDs -> {"NONE"} \cup Active \cup Ended]
BY DEF Submitted, TypeOK, Active

(* The resource with a new status is a resource. *)
LEMMA StatusType ==
    ASSUME TypeOK, NEW u \in Resource
    PROVE  StatusOf(u) \in Resource
<1>1. u.gen \in 0 .. MaxGen /\ u.version + 1 \in Nat \ {0} /\ rec.run \in RunIDs \cup {NoRun}
    BY WorkflowApplyAssumption DEF TypeOK, Resource
<1> QED BY <1>1 DEF StatusOf, Resource

(* The type of the executions the reconciler has counted. *)
LEMMA CountType ==
    ASSUME TypeOK, Count
    PROVE  started' \in [1 .. MaxGen -> 0 .. 2]
<1>1. rec.copy.gen \in 1 .. MaxGen
    BY DEF TypeOK, Resource
<1>2. \A g \in 1 .. MaxGen : started[g] \in 0 .. 2
    BY DEF TypeOK
<1>3. CASE started' = started
    BY <1>3 DEF TypeOK
<1>4. CASE /\ started[rec.copy.gen] < 2
           /\ started' = [started EXCEPT ![rec.copy.gen] = @ + 1]
    <2>1. started[rec.copy.gen] + 1 \in 0 .. 2
        BY <1>1, <1>2, <1>4
    <2> QED BY <1>1, <1>4, <2>1 DEF TypeOK
<1> QED BY <1>3, <1>4 DEF Count

(* The gateway starts with a new resource. *)
LEMMA ApplyInitial == Init => ApplyInv
<1> SUFFICES ASSUME Init PROVE ApplyInv
    OBVIOUS
<1> USE WorkflowApplyAssumption
<1>1. PICK m \in Manifests : specs = <<m>>
    BY DEF Init
<1>2. New \in Resource /\ New.gen = 1
    BY DEF New, Resource
<1>3. specs \in [1 .. cr.gen -> Manifests]
    BY <1>1, <1>2 DEF Init
<1>4. TypeOK
    BY <1>2, <1>3 DEF Init, TypeOK, Idle
<1> QED BY <1>2, <1>4 DEF Init, ApplyInv, Snapshot, RecTells, Observed, StatusTellsSpec, Idle, New

(* A step that leaves resource, copies and reconciler alone leaves what they tell. *)
LEMMA QuietStep ==
    ASSUME ApplyInv, UNCHANGED <<cr, specs, cache, rec>>, TypeOK'
    PROVE  ApplyInv'
BY DEF ApplyInv, Snapshot, RecTells, Observed, StatusTellsSpec, Names

(* Writing the status of the generation that was read keeps what it tells. *)
LEMMA StatusWritten ==
    ASSUME ApplyInv, rec.pc = "status", rec.copy.version = cr.version,
           cr' = StatusOf(rec.copy), rec' = Idle, UNCHANGED <<specs, cache>>, TypeOK'
    PROVE  ApplyInv'
<1>1. rec.copy = cr /\ rec.copy \in Resource /\ cr \in Resource /\ cache \in Resource
    BY DEF ApplyInv, RecTells, Snapshot, TypeOK
<1>2. /\ cr'.gen = cr.gen /\ cr'.version = cr.version + 1
      /\ cr'.observed = cr.gen /\ cr'.run = rec.run
    BY <1>1 DEF StatusOf, Resource
<1>3. Snapshot(cache)'
    BY <1>1, <1>2 DEF ApplyInv, Snapshot, Resource
<1>4. RecTells' /\ Observed'
    BY <1>1, <1>2 DEF RecTells, Observed, Idle, Resource
<1>5. StatusTellsSpec'
    BY <1>1, <1>2 DEF ApplyInv, RecTells, Names, StatusTellsSpec
<1> QED BY <1>3, <1>4, <1>5 DEF ApplyInv

(* Giving up keeps what the rest of the state tells. *)
LEMMA GivenUp ==
    ASSUME ApplyInv, rec' = Idle, UNCHANGED <<cr, specs, cache>>, TypeOK'
    PROVE  ApplyInv'
BY DEF ApplyInv, Snapshot, RecTells, Observed, StatusTellsSpec, Names, Idle

(* No step breaks the types or what the status tells. *)
LEMMA ApplyStep == ApplyInv /\ [Next]_vars => ApplyInv'
<1> SUFFICES ASSUME ApplyInv, [Next]_vars PROVE ApplyInv'
    OBVIOUS
<1> USE WorkflowApplyAssumption
<1>0. /\ TypeOK /\ cr \in Resource /\ cache \in Resource /\ rec.copy \in Resource
      /\ rec.run \in RunIDs \cup {NoRun}
    BY DEF ApplyInv, TypeOK
<1>1. ASSUME NEW id \in RunIDs, NEW s \in {"RUNNING"} \cup Ended, EngineStep(id, s)
      PROVE  ApplyInv'
    <2>1. id.manifest \in Manifests
        BY DEF RunIDs
    <2>2. TypeOK'
        BY <1>0, <1>1, <2>1 DEF EngineStep, TypeOK, crVars, recVars, Active
    <2> QED BY <1>1, <2>2, QuietStep DEF EngineStep, crVars, recVars
<1>2. ASSUME NEW id \in RunIDs, CancelCheck(id)
      PROVE  ApplyInv'
    <2>1. TypeOK'
        BY <1>0, <1>2 DEF CancelCheck, TypeOK, crVars, recVars
    <2> QED BY <1>2, <2>1, QuietStep DEF CancelCheck, crVars, recVars
<1>3. CASE CancelDelete
    <2>1. TypeOK'
        BY <1>0, <1>3 DEF CancelDelete, TypeOK, crVars, recVars
    <2> QED BY <1>3, <2>1, QuietStep DEF CancelDelete, crVars, recVars
<1>4. CASE Tick
    <2>1. TypeOK'
        BY <1>0, <1>4 DEF Tick, TypeOK, crVars, recVars
    <2> QED BY <1>4, <2>1, QuietStep DEF Tick, crVars, recVars
<1>5. ASSUME NEW c \in Clients, NEW m \in Manifests, ClientCheck(c, m)
      PROVE  ApplyInv'
    <2>1. TypeOK'
        BY <1>0, <1>5, ChosenRun DEF ClientCheck, TypeOK, crVars, recVars
    <2> QED BY <1>5, <2>1, QuietStep DEF ClientCheck, crVars, recVars
<1>6. ASSUME NEW c \in Clients, ClientSubmit(c)
      PROVE  ApplyInv'
    <2>1. client[c] \in RunIDs
        BY <1>0, <1>6 DEF ClientSubmit, TypeOK
    <2>2. TypeOK'
        BY <1>0, <1>6, <2>1, SubmittedType DEF ClientSubmit, TypeOK, crVars, recVars
    <2> QED BY <1>6, <2>2, QuietStep DEF ClientSubmit, crVars, recVars
<1>7. ASSUME NEW m \in Manifests, UpdateSpec(m)
      PROVE  ApplyInv'
    <2>1. /\ cr' \in Resource /\ cr'.gen = cr.gen + 1 /\ cr'.version = cr.version + 1
          /\ cr'.observed = cr.observed /\ cr'.run = cr.run
        <3>1. cr.gen \in 1 .. MaxGen /\ cr.version \in Nat \ {0}
            BY <1>0 DEF Resource
        <3>2. cr.gen < MaxGen /\ cr' = [cr EXCEPT !.gen = @ + 1, !.version = @ + 1]
            BY <1>7 DEF UpdateSpec
        <3>3. cr.gen + 1 \in 1 .. MaxGen /\ cr.version + 1 \in Nat \ {0}
            BY <3>1, <3>2
        <3> QED BY <1>0, <3>2, <3>3 DEF Resource
    <2>2. /\ cr.gen \in Nat /\ cr.version \in Nat /\ cr.observed \in Nat
          /\ cache.gen \in Nat /\ cache.version \in Nat
          /\ rec.copy.gen \in 1 .. MaxGen /\ rec.copy.version \in Nat
        BY <1>0 DEF Resource
    <2>3. /\ specs' \in [1 .. cr.gen + 1 -> Manifests]
          /\ \A g \in 1 .. cr.gen : specs'[g] = specs[g]
        <3>1. specs \in Seq(Manifests) /\ Len(specs) = cr.gen
            <4>1. specs \in [1 .. cr.gen -> Manifests]
                BY <1>0 DEF TypeOK
            <4>2. specs \in Seq(Manifests)
                BY <2>2, <4>1, SeqDef
            <4> QED BY <2>2, <4>1, <4>2, LenProperties
        <3>2. specs' = Append(specs, m)
            BY <1>7 DEF UpdateSpec
        <3>3. /\ specs' \in Seq(Manifests) /\ Len(specs') = cr.gen + 1
              /\ \A g \in 1 .. cr.gen : specs'[g] = specs[g]
            BY <3>1, <3>2, AppendProperties
        <3> QED BY <3>3, LenProperties
    <2>4. TypeOK'
        BY <1>0, <1>7, <2>1, <2>3 DEF UpdateSpec, TypeOK, recVars
    <2>5. Snapshot(cache)' /\ Observed'
        BY <1>7, <2>1, <2>2, SMTT(30) DEF UpdateSpec, ApplyInv, Snapshot, Observed, recVars
    <2>6. RecTells'
        <3>1. rec' = rec
            BY <1>7 DEF UpdateSpec, recVars
        <3>2. rec.pc # "idle" => specs'[rec.copy.gen] = specs[rec.copy.gen]
            BY <2>2, <2>3 DEF ApplyInv, RecTells, Snapshot
        <3>3. rec.pc # "idle" => Snapshot(rec.copy)'
            BY <2>1, <2>2, <3>1 DEF ApplyInv, RecTells, Snapshot
        <3> QED BY <3>1, <3>2, <3>3 DEF ApplyInv, RecTells, Names
    <2>7. StatusTellsSpec'
        <3>1. cr.observed # 0 => specs'[cr.observed] = specs[cr.observed]
            BY <2>2, <2>3 DEF ApplyInv, Observed
        <3> QED BY <2>1, <3>1 DEF ApplyInv, StatusTellsSpec
    <2> QED BY <2>4, <2>5, <2>6, <2>7 DEF ApplyInv
<1>8. CASE Touch
    <2>1. /\ cr' \in Resource /\ cr'.gen = cr.gen /\ cr'.version = cr.version + 1
          /\ cr'.observed = cr.observed /\ cr'.run = cr.run /\ cr'.version \in Nat
          /\ cr.version \in Nat /\ cache.version \in Nat /\ rec.copy.version \in Nat
        BY <1>0, <1>8 DEF Touch, Resource
    <2>2. TypeOK'
        BY <1>0, <1>8, <2>1 DEF Touch, TypeOK, recVars
    <2>3. Snapshot(cache)' /\ Observed' /\ StatusTellsSpec'
        BY <1>8, <2>1 DEF Touch, ApplyInv, Snapshot, Observed, StatusTellsSpec, recVars
    <2>4. RecTells'
        BY <1>8, <2>1 DEF Touch, ApplyInv, Snapshot, RecTells, Names, recVars
    <2> QED BY <2>2, <2>3, <2>4 DEF ApplyInv
<1>9. CASE CacheSync
    <2>1. TypeOK'
        BY <1>0, <1>9 DEF CacheSync, TypeOK, crVars
    <2>2. Snapshot(cache)'
        BY <1>0, <1>9 DEF CacheSync, crVars, Snapshot, Resource
    <2>3. RecTells' /\ Observed' /\ StatusTellsSpec'
        BY <1>9 DEF CacheSync, crVars, ApplyInv, RecTells, Observed, StatusTellsSpec, Snapshot, Names
    <2> QED BY <2>1, <2>2, <2>3 DEF ApplyInv
<1>10. CASE Resync
    <2>1. TypeOK'
        BY <1>0, <1>10 DEF Resync, TypeOK, crVars
    <2> QED BY <1>10, <2>1, QuietStep DEF Resync, crVars
<1>11. CASE Reconcile
    <2>1. TypeOK'
        BY <1>0, <1>11 DEF Reconcile, TypeOK, crVars
    <2>2. CASE rec' = rec
        BY <1>11, <2>1, <2>2, QuietStep DEF Reconcile, crVars
    <2>3. CASE rec' # rec
        <3>1. /\ rec'.copy = cache /\ rec'.run = NoRun
              /\ rec'.pc = IF specs[cache.gen] \in Broken THEN "status" ELSE "check"
              /\ UNCHANGED <<cr, specs, cache>>
            BY <1>11, <2>3 DEF Reconcile, crVars
        <3>2. RecTells'
            BY <3>1 DEF ApplyInv, RecTells, Snapshot, Names
        <3> QED BY <2>1, <3>1, <3>2 DEF ApplyInv, Snapshot, Observed, StatusTellsSpec
    <2> QED BY <2>2, <2>3
<1>12. CASE RecCheck
    <2>1. RecManifest \in Manifests /\ RecManifest \notin Broken
        BY <1>0, <1>12 DEF RecCheck, RecManifest, ApplyInv, RecTells, Snapshot, TypeOK, Resource
    <2>2. PICK id \in RunIDs : /\ id.manifest = RecManifest
                               /\ rec'.run = id /\ rec'.pc \in {"submit", "status"}
                               /\ rec'.copy = rec.copy
        <3>1. Base(RecManifest) \in RunIDs /\ Base(RecManifest).manifest = RecManifest
            BY <2>1 DEF Base, RunIDs
        <3>2. chooseRun(RecManifest) \in RunIDs /\ chooseRun(RecManifest).manifest = RecManifest
            BY <1>0, <2>1, ChosenRun
        <3> QED BY <1>0, <1>12, <3>1, <3>2 DEF RecCheck, RecGoto, TypeOK
    <2>3. UNCHANGED <<cr, specs, cache>>
        BY <1>12 DEF RecCheck, crVars
    <2>4. TypeOK'
        BY <1>0, <1>12, <2>2 DEF RecCheck, RecGoto, TypeOK, crVars
    <2>5. RecTells'
        BY <1>12, <2>1, <2>2, <2>3 DEF RecCheck, RecManifest, ApplyInv, RecTells, Snapshot, Names
    <2> QED BY <2>3, <2>4, <2>5 DEF ApplyInv, Snapshot, Observed, StatusTellsSpec
<1>13. CASE RecSubmit
    <2>1. rec.run \in RunIDs
        BY <1>13 DEF RecSubmit, ApplyInv, RecTells
    <2>2. runs' \in [RunIDs -> {"NONE"} \cup Active \cup Ended] /\ started' \in [1 .. MaxGen -> 0 .. 2]
        BY <1>0, <1>13, <2>1, SubmittedType, CountType DEF RecSubmit
    <2>3. Idle \in [pc : {"idle", "check", "submit", "status"}, copy : Resource,
                    run : RunIDs \cup {NoRun}]
        BY DEF Idle, New, Resource
    <2>4. CASE Refused(rec.run)
        <3>1. TypeOK'
            BY <1>0, <1>13, <2>2, <2>3, <2>4 DEF RecSubmit, Requeue, TypeOK, crVars
        <3> QED BY <1>13, <2>4, <3>1, GivenUp DEF RecSubmit, Requeue, crVars
    <2>5. CASE ~Refused(rec.run)
        <3>1. TypeOK'
            BY <1>0, <1>13, <2>2, <2>5 DEF RecSubmit, RecGoto, TypeOK, crVars
        <3>2. /\ rec'.pc = "status" /\ rec'.run = rec.run /\ rec'.copy = rec.copy
              /\ UNCHANGED <<cr, specs, cache>>
            BY <1>0, <1>13, <2>5 DEF RecSubmit, RecGoto, TypeOK, crVars
        <3>3. RecTells'
            BY <1>13, <3>2 DEF RecSubmit, ApplyInv, RecTells, Snapshot, Names
        <3> QED BY <3>1, <3>2, <3>3 DEF ApplyInv, Snapshot, Observed, StatusTellsSpec
    <2> QED BY <2>4, <2>5
<1>14. CASE writeStatus
    <2>1. Idle \in [pc : {"idle", "check", "submit", "status"}, copy : Resource,
                    run : RunIDs \cup {NoRun}]
        BY DEF Idle, New, Resource
    <2>2. CASE rec.copy.version = cr.version
        <3>1. rec.copy = cr
            BY <1>14, <2>2 DEF writeStatus, ApplyInv, RecTells, Snapshot
        <3>2. cr' \in Resource /\ cr'.gen = cr.gen
            BY <1>0, <1>14, <2>2, <3>1, StatusType DEF writeStatus, StatusOf, Resource
        <3>3. TypeOK'
            BY <1>0, <1>14, <2>1, <2>2, <3>2 DEF writeStatus, TypeOK
        <3> QED BY <1>14, <2>2, <3>3, StatusWritten DEF writeStatus
    <2>3. CASE rec.copy.version # cr.version
        <3>1. TypeOK'
            BY <1>0, <1>14, <2>1, <2>3 DEF writeStatus, Requeue, TypeOK
        <3> QED BY <1>14, <2>3, <3>1, GivenUp DEF writeStatus, Requeue
    <2> QED BY <2>2, <2>3
<1>15. ASSUME NEW applied \in BOOLEAN, RecFails(applied)
       PROVE  ApplyInv'
    <2>1. Idle \in [pc : {"idle", "check", "submit", "status"}, copy : Resource,
                    run : RunIDs \cup {NoRun}]
        BY DEF Idle, New, Resource
    <2>2. runs' \in [RunIDs -> {"NONE"} \cup Active \cup Ended] /\ started' \in [1 .. MaxGen -> 0 .. 2]
        <3>1. CASE applied /\ rec.pc = "submit"
            BY <1>0, <1>15, <3>1, SubmittedType, CountType DEF RecFails, ApplyInv, RecTells
        <3>2. CASE ~(applied /\ rec.pc = "submit")
            BY <1>0, <1>15, <3>2 DEF RecFails, TypeOK
        <3> QED BY <3>1, <3>2
    <2>3. CASE applied /\ rec.pc = "status" /\ rec.copy.version = cr.version
        <3>1. rec.copy = cr
            BY <2>3 DEF ApplyInv, RecTells, Snapshot
        <3>2. cr' \in Resource /\ cr'.gen = cr.gen
            BY <1>0, <1>15, <2>3, <3>1, StatusType DEF RecFails, StatusOf, Resource
        <3>3. TypeOK'
            BY <1>0, <1>15, <2>1, <2>2, <3>2 DEF RecFails, Requeue, TypeOK
        <3> QED BY <1>15, <2>3, <3>3, StatusWritten DEF RecFails, Requeue
    <2>4. CASE ~(applied /\ rec.pc = "status" /\ rec.copy.version = cr.version)
        <3>1. cr' = cr
            BY <1>15, <2>4 DEF RecFails
        <3>2. TypeOK'
            BY <1>0, <1>15, <2>1, <2>2, <3>1 DEF RecFails, Requeue, TypeOK
        <3> QED BY <1>15, <3>1, <3>2, GivenUp DEF RecFails, Requeue
    <2> QED BY <2>3, <2>4
<1>16. CASE Restart
    <2>1. Idle \in [pc : {"idle", "check", "submit", "status"}, copy : Resource,
                    run : RunIDs \cup {NoRun}]
        BY DEF Idle, New, Resource
    <2>2. TypeOK'
        BY <1>0, <1>16, <2>1 DEF Restart, TypeOK, crVars
    <2> QED BY <1>0, <1>16, <2>2
            DEF Restart, crVars, ApplyInv, Snapshot, RecTells, Observed, StatusTellsSpec, Idle, Resource
<1>17. CASE UNCHANGED vars
    BY <1>17 DEF vars, ApplyInv, TypeOK, Snapshot, RecTells, Observed, StatusTellsSpec, Names
<1> QED
    BY <1>1, <1>2, <1>3, <1>4, <1>5, <1>6, <1>7, <1>8, <1>9, <1>10, <1>11, <1>12, <1>13,
       <1>14, <1>15, <1>16, <1>17
       DEF Next, Environment, RecStep

(* The state of the apply path is well typed. *)
THEOREM ApplyTypes == Spec => []TypeOK
<1>1. ApplyInv => TypeOK
    BY DEF ApplyInv
<1> QED BY ApplyInitial, ApplyStep, <1>1, PTL DEF Spec

(* The status of a Workflow resource is about the generation it names
   (StatusTellsSpec): the optimistic lock of writeStatus is enough, however late the
   reconciler writes and whatever has happened to the spec since it was read. *)
THEOREM ApplyStatus == Spec => []StatusTellsSpec
<1>1. ApplyInv => StatusTellsSpec
    BY DEF ApplyInv
<1> QED BY ApplyInitial, ApplyStep, <1>1, PTL DEF Spec

(* ------------------------------------------------------------------------ *)

(* Names with a second are given out for completed manifests only. *)
Earned(id) == id.stamp # 0 => id.manifest \in completed

SharedInv ==
    /\ \A m \in Manifests : runs[Base(m)] = "COMPLETED" => m \in completed
    /\ \A c \in Clients : client[c] # NoRun => Earned(client[c])
    /\ rec.pc = "submit" => Earned(rec.run)
    /\ SharedUntilCompleted

(* The name that is chosen is earned. *)
LEMMA ChosenEarned ==
    ASSUME SharedInv, NEW m \in Manifests
    PROVE  Earned(chooseRun(m))
BY DEF SharedInv, Earned, chooseRun, rerunWorkflowID, Base

(* A submit under an earned name starts no run that is not. *)
LEMMA SubmitShares ==
    ASSUME TypeOK, SharedInv, NEW id \in RunIDs, Earned(id),
           runs' = Submitted(id), completed' = completed
    PROVE  /\ \A m \in Manifests : runs'[Base(m)] = "COMPLETED" => m \in completed
           /\ SharedUntilCompleted'
<1>1. ASSUME NEW j \in RunIDs
      PROVE  /\ runs'[j] = "COMPLETED" => runs[j] = "COMPLETED"
             /\ runs'[j] # "NONE" => runs[j] # "NONE" \/ j = id
    BY DEF Submitted, TypeOK
<1>2. \A m \in Manifests : Base(m) \in RunIDs
    BY WorkflowApplyAssumption DEF Base, RunIDs
<1> QED BY <1>1, <1>2 DEF SharedInv, SharedUntilCompleted, Earned

(* No step starts a run under a name that is not earned. *)
LEMMA SharedStep == ApplyInv /\ SharedInv /\ [Next]_vars => SharedInv'
<1> SUFFICES ASSUME ApplyInv, SharedInv, [Next]_vars PROVE SharedInv'
    OBVIOUS
<1> USE WorkflowApplyAssumption
<1>0. TypeOK
    BY DEF ApplyInv
<1>b. \A m \in Manifests : Base(m) \in RunIDs /\ Base(m).manifest = m
    BY DEF Base, RunIDs
<1>1. ASSUME NEW id \in RunIDs, NEW s \in {"RUNNING"} \cup Ended, EngineStep(id, s)
      PROVE  SharedInv'
    BY <1>0, <1>b, <1>1 DEF EngineStep, SharedInv, SharedUntilCompleted, Earned, TypeOK, Active, Ended, recVars
<1>2. CASE CancelDelete
    BY <1>0, <1>b, <1>2 DEF CancelDelete, SharedInv, SharedUntilCompleted, Earned, TypeOK, recVars
<1>3. ASSUME NEW c \in Clients, NEW m \in Manifests, ClientCheck(c, m)
      PROVE  SharedInv'
    BY <1>0, <1>3, ChosenEarned DEF ClientCheck, SharedInv, SharedUntilCompleted, Earned, TypeOK, recVars
<1>4. ASSUME NEW c \in Clients, ClientSubmit(c)
      PROVE  SharedInv'
    <2>1. client[c] \in RunIDs /\ Earned(client[c])
        BY <1>0, <1>4 DEF ClientSubmit, TypeOK, SharedInv
    <2>2. /\ \A m \in Manifests : runs'[Base(m)] = "COMPLETED" => m \in completed
          /\ SharedUntilCompleted'
        BY <1>0, <1>4, <2>1, SubmitShares DEF ClientSubmit
    <2> QED BY <1>0, <1>4, <2>2 DEF ClientSubmit, SharedInv, Earned, TypeOK, recVars
<1>5. CASE RecCheck
    <2>1. RecManifest \in Manifests
        BY <1>0, <1>5 DEF RecCheck, RecManifest, ApplyInv, RecTells, Snapshot, TypeOK, Resource
    <2>2. rec'.pc = "submit" => Earned(rec'.run)
        <3>1. Earned(chooseRun(RecManifest))
            BY <1>0, <2>1, ChosenEarned
        <3>2. rec'.pc = "submit" => rec'.run = chooseRun(RecManifest)
            <4> DEFINE x == chooseRun(RecManifest)
                       y == Base(RecManifest)
            <4>1. RecGoto("status", y) \/ RecGoto("submit", x)
                BY <1>5 DEF RecCheck
            <4> HIDE DEF x, y
            <4>2. rec'.pc = "submit" => rec'.run = x
                BY <1>0, <4>1 DEF RecGoto, TypeOK
            <4> QED BY <4>2 DEF x
        <3> QED BY <3>1, <3>2
    <2> QED BY <1>5, <2>2, SMTT(30) DEF RecCheck, SharedInv, SharedUntilCompleted, Earned
<1>6. CASE RecSubmit
    <2>1. rec.run \in RunIDs /\ Earned(rec.run)
        BY <1>6 DEF RecSubmit, ApplyInv, RecTells, SharedInv
    <2>2. /\ \A m \in Manifests : runs'[Base(m)] = "COMPLETED" => m \in completed
          /\ SharedUntilCompleted'
        BY <1>0, <1>6, <2>1, SubmitShares DEF RecSubmit
    <2>3. rec'.pc # "submit"
        <3>1. CASE Refused(rec.run)
            BY <1>6, <3>1 DEF RecSubmit, Requeue, Idle
        <3>2. CASE ~Refused(rec.run)
            BY <1>0, <1>6, <3>2 DEF RecSubmit, RecGoto, TypeOK
        <3> QED BY <3>1, <3>2
    <2> QED BY <1>6, <2>2, <2>3 DEF RecSubmit, SharedInv, Earned
<1>7. ASSUME NEW applied \in BOOLEAN, RecFails(applied)
      PROVE  SharedInv'
    <2>1. rec'.pc # "submit" /\ UNCHANGED <<completed, client>>
        BY <1>7 DEF RecFails, Requeue, Idle
    <2>2. CASE applied /\ rec.pc = "submit"
        <3>1. rec.run \in RunIDs /\ Earned(rec.run)
            BY <2>2 DEF ApplyInv, RecTells, SharedInv
        <3>2. /\ \A m \in Manifests : runs'[Base(m)] = "COMPLETED" => m \in completed
              /\ SharedUntilCompleted'
            BY <1>0, <1>7, <2>1, <2>2, <3>1, SubmitShares DEF RecFails
        <3> QED BY <2>1, <3>2 DEF SharedInv, Earned
    <2>3. CASE ~(applied /\ rec.pc = "submit")
        <3>1. runs' = runs
            BY <1>7, <2>3 DEF RecFails
        <3> QED BY <2>1, <3>1 DEF SharedInv, SharedUntilCompleted, Earned
    <2> QED BY <2>2, <2>3
<1>8. CASE Reconcile \/ writeStatus
    <2>1. (rec' = rec \/ rec'.pc # "submit") /\ UNCHANGED <<runs, completed, client>>
        BY <1>8 DEF Reconcile, writeStatus, Requeue, Idle
    <2> QED BY <2>1 DEF SharedInv, SharedUntilCompleted, Earned
<1>9. CASE Restart
    BY <1>9 DEF Restart, SharedInv, SharedUntilCompleted, Earned, Idle
<1>10. CASE \/ \E id \in RunIDs : CancelCheck(id)
            \/ \E m \in Manifests : UpdateSpec(m)
            \/ Tick \/ Touch \/ CacheSync \/ Resync \/ UNCHANGED vars
    <2>1. UNCHANGED <<runs, completed, client, rec>>
        BY <1>10 DEF CancelCheck, UpdateSpec, Tick, Touch, CacheSync, Resync, vars, crVars, recVars
    <2> QED BY <2>1 DEF SharedInv, SharedUntilCompleted, Earned
<1> QED
    BY <1>1, <1>2, <1>3, <1>4, <1>5, <1>6, <1>7, <1>8, <1>9, <1>10 DEF Next, Environment, RecStep

(* All applies of a manifest share the run named by its hash until a run of it has
   completed (SharedUntilCompleted), from whichever side and however interleaved
   look-up and submit are. *)
THEOREM ApplyShares == Spec => []SharedUntilCompleted
<1>1. Init => SharedInv
    BY WorkflowApplyAssumption
       DEF Init, SharedInv, SharedUntilCompleted, Earned, Base, RunIDs, Idle
<1>2. SharedInv => SharedUntilCompleted
    BY DEF SharedInv
<1> QED BY ApplyInitial, ApplyStep, SharedStep, <1>1, <1>2, PTL DEF Spec

(* Once the status has recorded a generation and the informer has seen it, only a
   change of the spec starts another run (GateCloses). *)
THEOREM ApplyGate == Spec => GateCloses
<1>1. ASSUME TypeOK, Settled, Next
      PROVE  started' = started /\ (Settled' \/ cr'.gen # cr.gen)
    <2>1. ASSUME NEW m \in Manifests, UpdateSpec(m)
          PROVE  started' = started /\ cr'.gen # cr.gen
        BY <1>1, <2>1 DEF UpdateSpec, TypeOK, Resource
    <2>2. CASE Touch
        <3>1. /\ cr'.gen = cr.gen /\ cr'.observed = cr.observed
              /\ UNCHANGED <<cache, rec, started>>
            BY <1>1, <2>2 DEF Touch, TypeOK, Resource, recVars
        <3> QED BY <1>1, <3>1 DEF Settled
    <2>3. CASE CacheSync \/ Restart
        BY <1>1, <2>3 DEF CacheSync, Restart, Settled, crVars, Idle
    <2>4. CASE Reconcile
        BY <1>1, <2>4 DEF Reconcile, needsReconcile, Settled, crVars
    <2>5. CASE \/ \E id \in RunIDs : CancelCheck(id)
               \/ \E id \in RunIDs, s \in {"RUNNING"} \cup Ended : EngineStep(id, s)
               \/ \E c \in Clients : ClientSubmit(c)
               \/ \E c \in Clients, m \in Manifests : ClientCheck(c, m)
               \/ CancelDelete \/ Tick \/ Resync
        BY <1>1, <2>5 DEF CancelCheck, EngineStep, ClientSubmit, ClientCheck, CancelDelete, Tick, Resync,
                          crVars, recVars, Settled
    <2> QED
        BY <1>1, <2>1, <2>2, <2>3, <2>4, <2>5
           DEF Next, Environment, RecStep, RecCheck, RecSubmit, writeStatus, RecFails, Settled
<1>2. TypeOK /\ [Next]_vars =>
          [Settled => started' = started /\ (Settled' \/ cr'.gen # cr.gen)]_vars
    BY <1>1
<1> QED BY ApplyTypes, <1>2, PTL DEF Spec, GateCloses

-----------------------------------------------------------------------------
(* The command line: what a command tells its shell.                       *)

Statuses == {"RUNNING"} \cup terminalStatuses
CliRun == {q \in [of : STRING, first : BOOLEAN, status : Statuses, text : BOOLEAN, completed : BOOLEAN] :
             q.status = "COMPLETED" => q.completed}
CommandNames == {"validate", "apply", "crd", "doctor", "result", "logs", "status", "get", "delete", "publish"}
Commands == [name : CommandNames,
             at : {"run", "submit", "save", "tail", "outputs", "exit"}, exit : {-1, 0, 1, 2},
             members : Seq(Member), dryRun : BOOLEAN, pos : Nat, took : Seq(Nat), rerun : BOOLEAN, run : Nat,
             local : BOOLEAN, lost : BOOLEAN, text : BOOLEAN, terminal : {""} \cup Statuses,
             printed : {"", "outputs", "text"}, scenario : Seq(Scenario)]

(* Types: a shell runs at most one command, and the last-run file names a run. *)
CliTypeOK ==
    /\ cliRuns \in Seq(CliRun)
    /\ lastRun \in 0 .. Len(cliRuns)
    /\ shell \in [Shells -> Seq(Commands)]
    /\ \A x \in Shells : Len(shell[x]) <= 1

UpTo(n) == [i \in 1 .. n |-> i]
RunsIn(rs, m) == {r \in DOMAIN rs : rs[r].of = m.id /\ rs[r].first}

(* The members an apply has had accepted are those before its position, or up to it
   while it saves the run; it is about an expanded scenario until it ends. *)
Applying(rs, c) ==
    /\ c.scenario # <<>>
    /\ \A i \in ToSet(c.took) : i \in DOMAIN c.members /\ RunsIn(rs, c.members[i]) # {}
    /\ c.at \in {"run", "submit", "save", "exit"}
    /\ c.at \in {"run", "submit", "save"} =>
          /\ c.members = ExpandScenario(c.scenario[1]) /\ c.pos \in DOMAIN c.members
          /\ ~c.local /\ ~c.lost
          /\ c.at = "submit" => ~c.dryRun
          /\ c.at = "save" => ~c.dryRun /\ c.run \in DOMAIN rs
          /\ c.took = IF c.dryRun THEN <<>> ELSE UpTo(IF c.at = "save" THEN c.pos ELSE c.pos - 1)
    /\ c.at = "exit" =>
          /\ c.exit = 0 => c.took = IF c.dryRun THEN <<>> ELSE UpTo(Len(c.members))
          /\ c.exit # 0 => c.took = IF c.dryRun THEN <<>> ELSE UpTo(IF c.lost THEN c.pos ELSE c.pos - 1)
          /\ c.local => ~ScenarioFile(c.scenario[1])

(* A command that follows a run has seen of it what still holds. *)
Following(rs, c) ==
    /\ c.at \in {"tail", "outputs", "exit"}
    /\ c.at # "exit" => c.printed = ""
    /\ c.run = 0 => c.at = "exit" /\ c.exit = 1
    /\ c.run # 0 =>
          /\ c.run \in DOMAIN rs
          /\ c.text => rs[c.run].text
          /\ c.terminal = "COMPLETED" => rs[c.run].completed
          /\ c.at = "exit" /\ c.exit = 0 /\ c.name = "result" =>
                IF c.printed = "text" THEN rs[c.run].text ELSE rs[c.run].completed

(* A run that status or get called completed has completed. *)
Asked(rs, c) ==
    /\ c.at = "exit"
    /\ c.terminal = "COMPLETED" => c.run \in DOMAIN rs /\ rs[c.run].completed

Tells(rs, c) ==
    /\ c.name = "apply" => Applying(rs, c)
    /\ c.name \in {"result", "logs"} => Following(rs, c)
    /\ c.name \in {"status", "get"} => Asked(rs, c)
    /\ c.name \in {"validate", "crd", "doctor", "delete", "publish"} => c.at = "exit"

CliInv == CliTypeOK /\ \A x \in Shells : shell[x] # <<>> => Tells(cliRuns, shell[x][1])

(* Runs are added and go on, or again; one that has completed has completed. *)
RunsKept(rs, qs) ==
    /\ Len(rs) <= Len(qs)
    /\ \A r \in DOMAIN rs :
          /\ qs[r].of = rs[r].of /\ qs[r].first = rs[r].first
          /\ rs[r].text => qs[r].text
          /\ rs[r].completed => qs[r].completed

LEMMA RunsInGrow ==
    ASSUME NEW rs \in Seq(CliRun), NEW qs \in Seq(CliRun), RunsKept(rs, qs), NEW m, RunsIn(rs, m) # {}
    PROVE  RunsIn(qs, m) # {}
<1>1. DOMAIN rs = 1 .. Len(rs) /\ DOMAIN qs = 1 .. Len(qs) /\ Len(rs) \in Nat /\ Len(qs) \in Nat
  BY LenProperties
<1>2. DOMAIN rs \subseteq DOMAIN qs
  BY <1>1 DEF RunsKept
<1>3. PICK r \in DOMAIN rs : rs[r].of = m.id /\ rs[r].first
  BY DEF RunsIn
<1>4. r \in RunsIn(qs, m)
  BY <1>2, <1>3 DEF RunsKept, RunsIn
<1> QED BY <1>4

(* What a command tells stays true while the runs go on. *)
LEMMA TellsStays ==
    ASSUME NEW rs \in Seq(CliRun), NEW qs \in Seq(CliRun), RunsKept(rs, qs), NEW c \in Commands, Tells(rs, c)
    PROVE  Tells(qs, c)
<1>1. DOMAIN rs = 1 .. Len(rs) /\ DOMAIN qs = 1 .. Len(qs) /\ Len(rs) \in Nat /\ Len(qs) \in Nat
  BY LenProperties
<1>2. DOMAIN rs \subseteq DOMAIN qs
  BY <1>1 DEF RunsKept
<1>3. c.name = "apply" => Applying(qs, c)
  BY <1>2, RunsInGrow DEF Tells, Applying
<1>4. c.name \in {"result", "logs"} => Following(qs, c)
  BY <1>2 DEF Tells, Following, RunsKept
<1>5. c.name \in {"status", "get"} => Asked(qs, c)
  BY <1>2 DEF Tells, Asked, RunsKept
<1> QED BY <1>3, <1>4, <1>5 DEF Tells

LEMMA CommandOf ==
    ASSUME CliInv, NEW x \in Shells, shell[x] # <<>>
    PROVE  /\ shell[x][1] \in Commands /\ Tells(cliRuns, shell[x][1])
           /\ Cmd(x) = shell[x][1]
<1>1. shell[x] \in Seq(Commands) /\ Len(shell[x]) \in Nat /\ Len(shell[x]) # 0
  BY DEF CliInv, CliTypeOK
<1> QED BY <1>1 DEF CliInv, Cmd

(* A step of one command, next to which the runs may go on. *)
LEMMA CommandMoves ==
    ASSUME CliInv, NEW x \in Shells, NEW c \in Commands, shell' = [shell EXCEPT ![x] = <<c>>],
           cliRuns' \in Seq(CliRun), RunsKept(cliRuns, cliRuns'), lastRun' \in 0 .. Len(cliRuns'),
           Tells(cliRuns', c)
    PROVE  CliInv'
<1>1. <<c>> \in Seq(Commands) /\ Len(<<c>>) = 1 /\ <<c>>[1] = c
  OBVIOUS
<1>2. CliTypeOK'
  BY <1>1 DEF CliInv, CliTypeOK
<1>3. ASSUME NEW y \in Shells, shell'[y] # <<>>
      PROVE  Tells(cliRuns', shell'[y][1])
  <2>1. CASE y = x
    BY <2>1, <1>1 DEF CliInv, CliTypeOK
  <2>2. CASE y # x
    <3>1. shell'[y] = shell[y]
      BY <2>2 DEF CliInv, CliTypeOK
    <3>2. shell[y][1] \in Commands /\ Tells(cliRuns, shell[y][1])
      BY <3>1, <1>3, CommandOf
    <3> QED BY <3>1, <3>2, TellsStays DEF CliInv, CliTypeOK
  <2> QED BY <2>1, <2>2
<1> QED BY <1>2, <1>3 DEF CliInv

LEMMA RunsUnchanged ==
    ASSUME CliInv, UNCHANGED <<cliRuns, lastRun>>
    PROVE  /\ cliRuns' \in Seq(CliRun) /\ RunsKept(cliRuns, cliRuns') /\ lastRun' \in 0 .. Len(cliRuns')
           /\ cliRuns' = cliRuns
BY DEF CliInv, CliTypeOK, RunsKept

LEMMA ShellIdle ==
    ASSUME CliInv, shell' = shell, cliRuns' \in Seq(CliRun), RunsKept(cliRuns, cliRuns'),
           lastRun' \in 0 .. Len(cliRuns')
    PROVE  CliInv'
<1>1. CliTypeOK'
  BY DEF CliInv, CliTypeOK
<1>2. ASSUME NEW y \in Shells, shell'[y] # <<>>
      PROVE  Tells(cliRuns', shell'[y][1])
  BY <1>2, CommandOf, TellsStays DEF CliInv, CliTypeOK
<1> QED BY <1>1, <1>2 DEF CliInv

LEMMA PromptKeeps ==
    ASSUME CliInv, NEW x \in Shells, Prompt(x)
    PROVE  CliInv'
<1>1. <<>> \in Seq(Commands) /\ Len(<<>>) = 0
  OBVIOUS
<1>2. CliTypeOK'
  BY <1>1 DEF CliInv, CliTypeOK, Prompt
<1>3. ASSUME NEW y \in Shells, shell'[y] # <<>>
      PROVE  Tells(cliRuns', shell'[y][1])
  <2>1. shell'[y] = shell[y] /\ cliRuns' = cliRuns
    BY <1>3 DEF Prompt, CliInv, CliTypeOK
  <2> QED BY <2>1, <1>3 DEF CliInv
<1> QED BY <1>2, <1>3 DEF CliInv

LEMMA CommandTyped ==
    ASSUME NEW name \in CommandNames
    PROVE  /\ Command(name) \in Commands
           /\ Command(name).name = name /\ Command(name).took = <<>> /\ Command(name).pos = 1
           /\ ~Command(name).local /\ ~Command(name).lost /\ ~Command(name).text
           /\ Command(name).terminal = "" /\ Command(name).printed = "" /\ Command(name).at = "run"
BY DEF Command, Commands, CommandNames

(* Commands that end as they begin, without a claim about a run. *)
LEMMA ShortCommandKeeps ==
    ASSUME CliInv, NEW x \in Shells, NEW c \in Commands, NEW code \in {0, 1},
           c.name \in {"validate", "crd", "doctor", "delete", "publish"},
           Exits(x, c, code), UNCHANGED <<cliRuns, lastRun>>
    PROVE  CliInv'
<1> DEFINE d == [c EXCEPT !.at = "exit", !.exit = code]
<1>1. d \in Commands /\ d.at = "exit" /\ d.name = c.name
  BY DEF Commands
<1>2. shell' = [shell EXCEPT ![x] = <<d>>]
  BY DEF Exits, Sets
<1>3. Tells(cliRuns', d)
  BY <1>1 DEF Tells
<1> HIDE DEF d
<1> QED BY <1>1, <1>2, <1>3, RunsUnchanged, CommandMoves

LEMMA OfflineKeeps ==
    ASSUME CliInv, NEW x \in Shells
    PROVE  /\ \A s \in Scenario : runValidate(x, s) => CliInv'
           /\ \A p : Doctor(x, p) => CliInv'
           /\ \A m, kubectl : runApplyCRD(x, m, kubectl) => CliInv'
           /\ \A r \in Nat : DeleteWorkflow(x, r) => CliInv'
           /\ \A r \in Nat : \A ok, type : PublishEvent(x, r, ok, type) => CliInv'
<1>1. ASSUME NEW s \in Scenario, runValidate(x, s) PROVE CliInv'
  <2> DEFINE files == <<s>>
             c == [Command("validate") EXCEPT !.scenario = files]
  <2>3. files \in Seq(Scenario)
    OBVIOUS
  <2>0. Command("validate") \in Commands /\ Command("validate").name = "validate"
    BY CommandTyped DEF CommandNames
  <2>1. c \in Commands /\ c.name = "validate"
    <3> HIDE DEF files
    <3> QED BY <2>0, <2>3 DEF Commands
  <2>2. PICK code \in {0, 1} : Exits(x, c, code) /\ UNCHANGED <<cliRuns, lastRun>>
    BY <1>1 DEF runValidate, Begins, Typed
  <2> HIDE DEF c
  <2> QED BY <2>1, <2>2, ShortCommandKeeps
<1>2. ASSUME NEW p, Doctor(x, p) PROVE CliInv'
  <2>1. Command("doctor") \in Commands /\ Command("doctor").name = "doctor"
    BY CommandTyped DEF CommandNames
  <2>2. PICK code \in {0, 1} : Exits(x, Command("doctor"), code) /\ UNCHANGED <<cliRuns, lastRun>>
    BY <1>2 DEF Doctor, Begins, Typed
  <2> QED BY <2>1, <2>2, ShortCommandKeeps
<1>3. ASSUME NEW m, NEW kubectl, runApplyCRD(x, m, kubectl) PROVE CliInv'
  <2>1. Command("crd") \in Commands /\ Command("crd").name = "crd"
    BY CommandTyped DEF CommandNames
  <2>2. PICK code \in {0, 1} : Exits(x, Command("crd"), code) /\ UNCHANGED <<cliRuns, lastRun>>
    BY <1>3 DEF runApplyCRD, Begins, Typed
  <2> QED BY <2>1, <2>2, ShortCommandKeeps
<1>4. ASSUME NEW r \in Nat, DeleteWorkflow(x, r) PROVE CliInv'
  <2> DEFINE c == [Command("delete") EXCEPT !.run = r]
  <2>0. Command("delete") \in Commands /\ Command("delete").name = "delete"
    BY CommandTyped DEF CommandNames
  <2>1. c \in Commands /\ c.name = "delete"
    BY <2>0 DEF Commands
  <2>2. PICK code \in {0, 1} : Exits(x, c, code) /\ UNCHANGED <<cliRuns, lastRun>>
    BY <1>4 DEF DeleteWorkflow, Typed
  <2> HIDE DEF c
  <2> QED BY <2>1, <2>2, ShortCommandKeeps
<1>5. ASSUME NEW r \in Nat, NEW ok, NEW type, PublishEvent(x, r, ok, type) PROVE CliInv'
  <2> DEFINE c == [Command("publish") EXCEPT !.run = r]
  <2>0. Command("publish") \in Commands /\ Command("publish").name = "publish"
    BY CommandTyped DEF CommandNames
  <2>1. c \in Commands /\ c.name = "publish"
    BY <2>0 DEF Commands
  <2>2. PICK code \in {0, 1} : Exits(x, c, code) /\ UNCHANGED <<cliRuns, lastRun>>
    BY <1>5 DEF PublishEvent, Typed
  <2> HIDE DEF c
  <2> QED BY <2>1, <2>2, ShortCommandKeeps
<1> QED BY <1>1, <1>2, <1>3, <1>4, <1>5

(* The record of a command that goes on or ends, by its fields. *)
LEMMA Exiting ==
    ASSUME NEW c \in Commands, NEW code \in {0, 1, 2}
    PROVE  LET d == [c EXCEPT !.at = "exit", !.exit = code]
           IN  /\ d \in Commands /\ d.at = "exit" /\ d.exit = code /\ d.name = c.name /\ d.run = c.run
               /\ d.text = c.text /\ d.terminal = c.terminal /\ d.printed = c.printed
               /\ d.took = c.took /\ d.members = c.members /\ d.scenario = c.scenario
               /\ d.dryRun = c.dryRun /\ d.lost = c.lost /\ d.local = c.local /\ d.pos = c.pos
BY DEF Commands

LEMMA StatusTyped ==
    ASSUME NEW rs \in Seq(CliRun), NEW r \in DOMAIN rs
    PROVE  rs[r] \in CliRun /\ rs[r].status \in Statuses /\ (rs[r].status = "COMPLETED" => rs[r].completed)
<1>1. rs[r] \in CliRun
  BY ElementOfSeq, LenProperties
<1> QED BY <1>1 DEF CliRun

LEMMA GetWorkflowKeeps ==
    ASSUME CliInv, NEW x \in Shells, NEW name \in {"get", "status"}, NEW r \in Nat, GetWorkflow(x, name, r)
    PROVE  CliInv'
<1>1. UNCHANGED <<cliRuns, lastRun>>
  BY DEF GetWorkflow, Typed
<1>2. PICK answer \in EngineAnswers :
         /\ EngineSays(Known(r), answer)
         /\ LET c == [Command(name) EXCEPT !.run = r]
            IN  IF handleGetWorkflow(answer) # 200 THEN Exits(x, c, 1)
                ELSE Exits(x, [c EXCEPT !.terminal = cliRuns[r].status],
                           IF name = "get" \/ cliRuns[r].status \in terminalStatuses THEN 0 ELSE 2)
  BY DEF GetWorkflow
<1> DEFINE c == [Command(name) EXCEPT !.run = r]
<1>3. Command(name) \in Commands /\ Command(name).name = name /\ Command(name).terminal = ""
  BY CommandTyped DEF CommandNames
<1>4. c \in Commands /\ c.name = name /\ c.terminal = "" /\ c.run = r
  BY <1>3 DEF Commands
<1>5. CASE handleGetWorkflow(answer) # 200
  <2> DEFINE d == [c EXCEPT !.at = "exit", !.exit = 1]
  <2>1. shell' = [shell EXCEPT ![x] = <<d>>]
    BY <1>2, <1>5 DEF Exits, Sets
  <2> HIDE DEF c
  <2>2. d \in Commands /\ d.at = "exit" /\ d.name = name /\ d.terminal = ""
    BY <1>4, Exiting
  <2>3. Tells(cliRuns', d)
    BY <2>2 DEF Tells, Asked
  <2> HIDE DEF d
  <2> QED BY <1>1, <2>1, <2>2, <2>3, RunsUnchanged, CommandMoves
<1>6. CASE handleGetWorkflow(answer) = 200
  <2>1. answer = "ok"
    BY <1>6, <1>2 DEF handleGetWorkflow, answerAbout, Engine, mapEngineGRPCError, grpcErr, EngineAnswers, EngineErrors
  <2>2. r \in DOMAIN cliRuns
    BY <1>2, <2>1 DEF EngineSays, Known
  <2>3. cliRuns[r].status \in Statuses /\ (cliRuns[r].status = "COMPLETED" => cliRuns[r].completed)
    BY <2>2, StatusTyped DEF CliInv, CliTypeOK
  <2> DEFINE s == cliRuns[r].status
             code == IF name = "get" \/ s \in terminalStatuses THEN 0 ELSE 2
             e == [c EXCEPT !.terminal = s]
             d == [e EXCEPT !.at = "exit", !.exit = code]
  <2>4. shell' = [shell EXCEPT ![x] = <<d>>]
    BY <1>2, <1>6 DEF Exits, Sets
  <2>5. e \in Commands /\ e.name = name /\ e.run = r /\ e.terminal = s
    <3> HIDE DEF c
    <3> QED BY <1>4, <2>3 DEF Commands
  <2>6. code \in {0, 1, 2}
    OBVIOUS
  <2> HIDE DEF e, code
  <2>7. d \in Commands /\ d.at = "exit" /\ d.name = name /\ d.run = r /\ d.terminal = s
    BY <2>5, <2>6, Exiting
  <2> HIDE DEF d
  <2>8. Tells(cliRuns', d)
    BY <2>7, <2>2, <2>3, <1>1 DEF Tells, Asked
  <2> QED BY <1>1, <2>4, <2>7, <2>8, RunsUnchanged, CommandMoves
<1> QED BY <1>5, <1>6

LEMMA WatchesKeeps ==
    ASSUME CliInv, NEW x \in Shells, NEW name \in {"result", "logs"}, NEW arg \in {0} \cup DOMAIN cliRuns,
           Watches(x, name, arg)
    PROVE  CliInv'
<1>1. UNCHANGED <<cliRuns, lastRun>>
  BY DEF Watches, Begins, Typed
<1> DEFINE r == resolveRunID(arg)
           c == [Command(name) EXCEPT !.run = r, !.at = "tail"]
<1>2. IF r = 0 THEN Exits(x, [c EXCEPT !.local = TRUE], 1) ELSE Sets(x, c)
  BY DEF Watches
<1>3. r \in {0} \cup DOMAIN cliRuns /\ r \in Nat
  BY DEF resolveRunID, CliInv, CliTypeOK
<1>4. Command(name) \in Commands /\ Command(name).name = name /\ Command(name).terminal = ""
      /\ ~Command(name).text /\ Command(name).printed = ""
  <2>1. name \in CommandNames
    BY DEF CommandNames
  <2> QED BY <2>1, CommandTyped
<1> HIDE DEF r
<1>5. c \in Commands /\ c.name = name /\ c.terminal = "" /\ c.run = r /\ ~c.text /\ c.printed = "" /\ c.at = "tail"
  BY <1>3, <1>4 DEF Commands
<1>6. CASE r = 0
  <2> DEFINE e == [c EXCEPT !.local = TRUE]
             d == [e EXCEPT !.at = "exit", !.exit = 1]
  <2>1. shell' = [shell EXCEPT ![x] = <<d>>]
    BY <1>2, <1>6 DEF Exits, Sets
  <2> HIDE DEF c
  <2>2. e \in Commands /\ e.name = name /\ e.run = 0
    BY <1>5, <1>6 DEF Commands
  <2> HIDE DEF e
  <2>3. d \in Commands /\ d.at = "exit" /\ d.exit = 1 /\ d.name = name /\ d.run = 0
    BY <2>2, Exiting
  <2> HIDE DEF d
  <2>4. Tells(cliRuns', d)
    BY <2>3 DEF Tells, Following
  <2> QED BY <1>1, <2>1, <2>3, <2>4, RunsUnchanged, CommandMoves
<1>7. CASE r # 0
  <2>1. shell' = [shell EXCEPT ![x] = <<c>>]
    BY <1>2, <1>7 DEF Sets
  <2> HIDE DEF c
  <2>2. Tells(cliRuns', c)
    BY <1>5, <1>3, <1>7, <1>1 DEF Tells, Following
  <2> QED BY <1>1, <2>1, <1>5, <2>2, RunsUnchanged, CommandMoves
<1> QED BY <1>6, <1>7

(* A command that follows a run, and is not at its end. *)
LEMMA IsFollowing ==
    ASSUME CliInv, NEW x \in Shells, shell[x] # <<>>, Cmd(x).at \in {"tail", "outputs"}
    PROVE  /\ Cmd(x) \in Commands /\ Cmd(x).name \in {"result", "logs"} /\ Following(cliRuns, Cmd(x))
           /\ Cmd(x).run \in DOMAIN cliRuns /\ Cmd(x).run # 0 /\ Cmd(x).printed = ""
<1>1. Cmd(x) \in Commands /\ Tells(cliRuns, Cmd(x))
  BY CommandOf
<1> DEFINE c == Cmd(x)
<1> HIDE DEF c
<1>2. c \in Commands /\ Tells(cliRuns, c) /\ c.at \in {"tail", "outputs"}
  BY <1>1 DEF c
<1>3. c.name \in {"result", "logs"}
  <2>1. c.name \in CommandNames
    BY <1>2 DEF Commands
  <2> QED BY <1>2, <2>1 DEF Tells, Applying, Asked, CommandNames
<1>4. Following(cliRuns, c) /\ c.run \in DOMAIN cliRuns /\ c.run # 0 /\ c.printed = ""
  BY <1>2, <1>3 DEF Tells, Following
<1> QED BY <1>2, <1>3, <1>4 DEF c

LEMMA TailTextKeeps ==
    ASSUME CliInv, NEW x \in Shells, TailText(x)
    PROVE  CliInv'
<1> DEFINE c == Cmd(x)
           d == [c EXCEPT !.text = TRUE]
<1>1. UNCHANGED <<cliRuns, lastRun>> /\ shell[x] # <<>> /\ c.at = "tail" /\ cliRuns[c.run].text
      /\ shell' = [shell EXCEPT ![x] = <<d>>]
  BY DEF TailText, Tailing, Of, Sets
<1>2. /\ c \in Commands /\ c.name \in {"result", "logs"} /\ Following(cliRuns, c)
      /\ c.run \in DOMAIN cliRuns /\ c.run # 0 /\ c.printed = ""
  BY <1>1, IsFollowing
<1> HIDE DEF c
<1>3. d \in Commands /\ d.name = c.name /\ d.run = c.run /\ d.at = c.at /\ d.printed = c.printed
      /\ d.terminal = c.terminal /\ d.text
  BY <1>2 DEF Commands
<1> HIDE DEF d
<1>4. Tells(cliRuns', d)
  BY <1>1, <1>2, <1>3 DEF Tells, Following
<1> QED BY <1>1, <1>3, <1>4, RunsUnchanged, CommandMoves

(* The end of the stream, with what the command has seen. *)
LEMMA AfterTailKeeps ==
    ASSUME CliInv, NEW x \in Shells, NEW c \in Commands, c.name \in {"result", "logs"}, c.at = "tail",
           Following(cliRuns, c), AfterTail(x, c), UNCHANGED <<cliRuns, lastRun>>
    PROVE  CliInv'
<1>1. CASE c.name = "result"
  <2> DEFINE d == [c EXCEPT !.at = "outputs"]
  <2>1. shell' = [shell EXCEPT ![x] = <<d>>]
    BY <1>1 DEF AfterTail, Sets
  <2>2. d \in Commands /\ d.name = c.name /\ d.run = c.run /\ d.at = "outputs" /\ d.printed = c.printed
        /\ d.terminal = c.terminal /\ d.text = c.text
    BY DEF Commands
  <2> HIDE DEF d
  <2>3. Tells(cliRuns', d)
    BY <2>2 DEF Tells, Following
  <2> QED BY <2>1, <2>2, <2>3, RunsUnchanged, CommandMoves
<1>2. CASE c.name # "result"
  <2> DEFINE d == [c EXCEPT !.at = "exit", !.exit = 0]
  <2>1. shell' = [shell EXCEPT ![x] = <<d>>]
    BY <1>2 DEF AfterTail, Exits, Sets
  <2>2. d \in Commands /\ d.name = c.name /\ d.run = c.run /\ d.at = "exit" /\ d.printed = c.printed
        /\ d.terminal = c.terminal /\ d.text = c.text
    BY Exiting
  <2> HIDE DEF d
  <2>3. Tells(cliRuns', d)
    BY <1>2, <2>2 DEF Tells, Following
  <2> QED BY <2>1, <2>2, <2>3, RunsUnchanged, CommandMoves
<1> QED BY <1>1, <1>2

LEMMA TailEndsKeep ==
    ASSUME CliInv, NEW x \in Shells, TailTerminal(x) \/ TailClosed(x) \/ TailFails(x)
    PROVE  CliInv'
<1> DEFINE c == Cmd(x)
<1>1. UNCHANGED <<cliRuns, lastRun>> /\ shell[x] # <<>> /\ c.at = "tail"
  BY DEF TailTerminal, TailClosed, TailFails, Tailing
<1>2. /\ c \in Commands /\ c.name \in {"result", "logs"} /\ Following(cliRuns, c)
      /\ c.run \in DOMAIN cliRuns /\ c.run # 0 /\ c.printed = ""
  BY <1>1, IsFollowing
<1>3. CASE TailTerminal(x)
  <2> DEFINE s == cliRuns[c.run].status
             d == [c EXCEPT !.terminal = s]
  <2>1. AfterTail(x, d)
    BY <1>3 DEF TailTerminal, Of
  <2>2. s \in Statuses /\ (s = "COMPLETED" => cliRuns[c.run].completed)
    BY <1>2, StatusTyped DEF CliInv, CliTypeOK
  <2> HIDE DEF c
  <2>3. d \in Commands /\ d.name = c.name /\ d.run = c.run /\ d.at = c.at /\ d.printed = c.printed
        /\ d.terminal = s /\ d.text = c.text
    BY <1>2, <2>2 DEF Commands
  <2> HIDE DEF d
  <2>4. Following(cliRuns, d) /\ d.at = "tail"
    BY <1>1, <1>2, <2>2, <2>3 DEF Following
  <2> QED BY <1>1, <1>2, <2>1, <2>3, <2>4, AfterTailKeeps
<1>4. CASE TailClosed(x)
  BY <1>1, <1>2, <1>4, AfterTailKeeps DEF TailClosed
<1>5. CASE TailFails(x)
  <2> DEFINE d == [c EXCEPT !.at = "exit", !.exit = 1]
  <2>1. shell' = [shell EXCEPT ![x] = <<d>>]
    BY <1>5 DEF TailFails, Fails, Exits, Sets
  <2> HIDE DEF c
  <2>2. d \in Commands /\ d.name = c.name /\ d.run = c.run /\ d.at = "exit" /\ d.exit = 1 /\ d.printed = c.printed
        /\ d.terminal = c.terminal /\ d.text = c.text
    BY <1>2, Exiting
  <2> HIDE DEF d
  <2>3. Following(cliRuns, d)
    <3>1. d.at \in {"tail", "outputs", "exit"}
      BY <2>2
    <3>4. d.run \in DOMAIN cliRuns /\ d.run # 0
      BY <1>2, <2>2
    <3>5. d.exit # 0
      BY <2>2
    <3>2. c.terminal = "COMPLETED" => cliRuns[c.run].completed
      BY <1>2 DEF Following
    <3>3. c.text => cliRuns[c.run].text
      BY <1>2 DEF Following
    <3> QED BY <2>2, <3>1, <3>2, <3>3, <3>4, <3>5 DEF Following
  <2>4. Tells(cliRuns', d)
    BY <1>1, <1>2, <2>2, <2>3 DEF Tells
  <2> QED BY <1>1, <2>1, <2>2, <2>4, RunsUnchanged, CommandMoves
<1> QED BY <1>3, <1>4, <1>5

LEMMA OutputsKeep ==
    ASSUME CliInv, NEW x \in Shells, NEW hasOutputs \in BOOLEAN, GetWorkflowOutputs(x, hasOutputs)
    PROVE  CliInv'
<1> DEFINE c == Cmd(x)
<1>1. UNCHANGED <<cliRuns, lastRun>> /\ shell[x] # <<>> /\ c.at = "outputs"
  BY DEF GetWorkflowOutputs, At, Cmd
<1>2. /\ c \in Commands /\ c.name \in {"result", "logs"} /\ Following(cliRuns, c)
      /\ c.run \in DOMAIN cliRuns /\ c.run # 0 /\ c.printed = ""
  BY <1>1, IsFollowing
<1>3. PICK has \in BOOLEAN : Concludes(x, has) /\ (has => cliRuns[c.run].completed)
  BY <1>2, StatusTyped DEF GetWorkflowOutputs, Of, CliInv, CliTypeOK
<1>4. \/ has /\ Exits(x, [c EXCEPT !.printed = "outputs"], 0)
      \/ ~has /\ c.text /\ Exits(x, [c EXCEPT !.printed = "text"], 0)
      \/ ~has /\ ~c.text /\ Exits(x, c, IF c.terminal = "COMPLETED" THEN 0 ELSE 1)
  <2>1. c.text \in BOOLEAN
    BY <1>2 DEF Commands
  <2> QED BY <1>3, <2>1 DEF Concludes
<1>5. PICK e \in Commands, code \in {0, 1} :
         /\ Exits(x, e, code) /\ e.name = c.name /\ e.run = c.run /\ e.terminal = c.terminal /\ e.text = c.text
         /\ code = 0 => IF e.printed = "text" THEN c.text ELSE cliRuns[c.run].completed
  <2> HIDE DEF c
  <2>1. CASE has
    <3> DEFINE e == [c EXCEPT !.printed = "outputs"]
    <3>1. e \in Commands /\ e.name = c.name /\ e.run = c.run /\ e.terminal = c.terminal /\ e.text = c.text
          /\ e.printed = "outputs"
      BY <1>2 DEF Commands
    <3>2. Exits(x, e, 0)
      BY <1>4, <2>1
    <3> HIDE DEF e
    <3> QED BY <3>1, <3>2, <1>3, <2>1
  <2>2. CASE ~has /\ c.text
    <3> DEFINE e == [c EXCEPT !.printed = "text"]
    <3>1. e \in Commands /\ e.name = c.name /\ e.run = c.run /\ e.terminal = c.terminal /\ e.text = c.text
          /\ e.printed = "text"
      BY <1>2 DEF Commands
    <3>2. Exits(x, e, 0)
      BY <1>4, <2>2
    <3> HIDE DEF e
    <3> QED BY <3>1, <3>2, <2>2
  <2>3. CASE ~has /\ ~c.text
    <3>1. c.terminal = "COMPLETED" => cliRuns[c.run].completed
      BY <1>2 DEF Following
    <3> DEFINE code == IF c.terminal = "COMPLETED" THEN 0 ELSE 1
    <3>2. code \in {0, 1} /\ (code = 0 => c.terminal = "COMPLETED") /\ Exits(x, c, code)
      BY <1>4, <2>3
    <3> HIDE DEF code
    <3> QED BY <1>2, <3>1, <3>2
  <2> QED BY <2>1, <2>2, <2>3
<1> DEFINE d == [e EXCEPT !.at = "exit", !.exit = code]
<1>6. shell' = [shell EXCEPT ![x] = <<d>>]
  BY <1>5 DEF Exits, Sets
<1>9. code \in {0, 1, 2}
  OBVIOUS
<1>7. d \in Commands /\ d.name = c.name /\ d.run = c.run /\ d.at = "exit" /\ d.exit = code /\ d.printed = e.printed
      /\ d.terminal = c.terminal /\ d.text = c.text
  <2> HIDE DEF c
  <2>1. d \in Commands /\ d.name = e.name /\ d.run = e.run /\ d.at = "exit" /\ d.exit = code /\ d.printed = e.printed
        /\ d.terminal = e.terminal /\ d.text = e.text
    BY <1>9, Exiting
  <2> HIDE DEF d
  <2> QED BY <1>5, <2>1
<1> HIDE DEF c, d
<1>8. Tells(cliRuns', d)
  BY <1>1, <1>2, <1>5, <1>7 DEF Tells, Following
<1> QED BY <1>1, <1>6, <1>7, <1>8, RunsUnchanged, CommandMoves

LEMMA RunUpdated ==
    ASSUME NEW rs \in Seq(CliRun), NEW r \in DOMAIN rs, NEW q \in CliRun,
           q.of = rs[r].of, q.first = rs[r].first, rs[r].text => q.text, rs[r].completed => q.completed
    PROVE  [rs EXCEPT ![r] = q] \in Seq(CliRun) /\ RunsKept(rs, [rs EXCEPT ![r] = q])
<1> DEFINE qs == [rs EXCEPT ![r] = q]
<1>1. qs \in Seq(CliRun) /\ Len(qs) = Len(rs) /\ \A i \in 1 .. Len(rs) : qs[i] = IF i = r THEN q ELSE rs[i]
  BY ExceptSeq, LenProperties
<1>2. DOMAIN rs = 1 .. Len(rs) /\ Len(rs) \in Nat
  BY LenProperties
<1> HIDE DEF qs
<1>3. RunsKept(rs, qs)
  BY <1>1, <1>2 DEF RunsKept
<1> QED BY <1>1, <1>3 DEF qs

LEMMA RunStepsKeeps ==
    ASSUME CliInv, NEW r \in DOMAIN cliRuns, RunSteps(r)
    PROVE  CliInv'
<1> DEFINE run == cliRuns[r]
<1>1. cliRuns \in Seq(CliRun) /\ run \in CliRun
  BY StatusTyped DEF CliInv, CliTypeOK
<1>2. PICK q : q \in CliRun /\ q.of = run.of /\ q.first = run.first /\ (run.text => q.text)
               /\ (run.completed => q.completed) /\ cliRuns' = [cliRuns EXCEPT ![r] = q]
  <2>1. CASE cliRuns' = [cliRuns EXCEPT ![r].text = TRUE]
    <3> DEFINE q == [run EXCEPT !.text = TRUE]
    <3>1. cliRuns' = [cliRuns EXCEPT ![r] = q]
      BY <2>1
    <3> HIDE DEF run
    <3>2. q \in CliRun /\ q.of = run.of /\ q.first = run.first /\ q.text /\ q.completed = run.completed
      BY <1>1 DEF CliRun
    <3> HIDE DEF q
    <3> QED BY <3>1, <3>2
  <2>2. ASSUME NEW s \in terminalStatuses,
               cliRuns' = [cliRuns EXCEPT ![r].status = s, ![r].completed = @ \/ s = "COMPLETED"]
        PROVE  \E q : q \in CliRun /\ q.of = run.of /\ q.first = run.first /\ (run.text => q.text)
                      /\ (run.completed => q.completed) /\ cliRuns' = [cliRuns EXCEPT ![r] = q]
    <3> DEFINE q == [run EXCEPT !.status = s, !.completed = @ \/ s = "COMPLETED"]
    <3>1. cliRuns' = [cliRuns EXCEPT ![r] = q]
      BY <2>2
    <3> HIDE DEF run
    <3>2. q \in CliRun /\ q.of = run.of /\ q.first = run.first /\ q.text = run.text /\ (run.completed => q.completed)
      BY <1>1 DEF CliRun, Statuses
    <3> HIDE DEF q
    <3> QED BY <3>1, <3>2
  <2> QED BY <2>1, <2>2 DEF RunSteps
<1>4. cliRuns' \in Seq(CliRun) /\ RunsKept(cliRuns, cliRuns')
  <2>1. /\ [cliRuns EXCEPT ![r] = q] \in Seq(CliRun)
        /\ RunsKept(cliRuns, [cliRuns EXCEPT ![r] = q])
    BY <1>1, <1>2, RunUpdated
  <2> QED BY <1>2, <2>1
<1>5. lastRun' \in 0 .. Len(cliRuns') /\ shell' = shell
  <2>1. lastRun' = lastRun /\ shell' = shell /\ lastRun \in 0 .. Len(cliRuns) /\ Len(cliRuns) <= Len(cliRuns')
    BY <1>4 DEF RunSteps, CliInv, CliTypeOK, RunsKept
  <2>2. Len(cliRuns) \in Nat /\ Len(cliRuns') \in Nat
    BY <1>1, <1>4, LenProperties
  <2> QED BY <2>1, <2>2
<1> QED BY <1>4, <1>5, ShellIdle

(* The gateway's submit leaves the manifest with a run, and every run what it was. *)
LEMMA SubmitsKeeps ==
    ASSUME cliRuns \in Seq(CliRun), NEW m \in Member, NEW rerun, NEW r, Submits(m, rerun, r)
    PROVE  /\ cliRuns' \in Seq(CliRun) /\ RunsKept(cliRuns, cliRuns')
           /\ RunsIn(cliRuns', m) # {} /\ r \in DOMAIN cliRuns'
<1>1. DOMAIN cliRuns = 1 .. Len(cliRuns) /\ Len(cliRuns) \in Nat
  BY LenProperties
<1>3. CASE r \in RunsOf(m) /\ cliRuns' = [cliRuns EXCEPT ![r].status = "RUNNING"]
  <2> DEFINE run == cliRuns[r]
             q == [run EXCEPT !.status = "RUNNING"]
  <2>1. cliRuns' = [cliRuns EXCEPT ![r] = q] /\ r \in DOMAIN cliRuns
    BY <1>3 DEF RunsOf
  <2>2. run \in CliRun
    BY <2>1, StatusTyped
  <2> HIDE DEF run
  <2>3. q \in CliRun /\ q.of = run.of /\ q.first = run.first /\ q.text = run.text /\ q.completed = run.completed
    BY <2>2 DEF CliRun, Statuses
  <2> HIDE DEF q
  <2>4. /\ [cliRuns EXCEPT ![r] = q] \in Seq(CliRun)
        /\ RunsKept(cliRuns, [cliRuns EXCEPT ![r] = q])
    BY <2>1, <2>3, RunUpdated DEF run
  <2>5. cliRuns' \in Seq(CliRun) /\ RunsKept(cliRuns, cliRuns') /\ DOMAIN cliRuns' = DOMAIN cliRuns
    BY <2>1, <2>4
  <2>6. RunsIn(cliRuns, m) # {}
    BY <1>3 DEF RunsOf, RunsIn
  <2>7. RunsIn(cliRuns', m) # {}
    BY <2>5, <2>6, RunsInGrow
  <2> QED BY <2>1, <2>5, <2>7
<1>4. CASE /\ r = Len(cliRuns) + 1
           /\ cliRuns' = Append(cliRuns, NewRun(m))
  <2> DEFINE q == NewRun(m)
  <2>1. m.id \in STRING /\ (RunsOf(m) = {}) \in BOOLEAN
    BY DEF Member
  <2>2. q \in CliRun /\ q.of = m.id /\ (q.first <=> RunsOf(m) = {})
    BY <2>1 DEF CliRun, Statuses, NewRun
  <2>3. cliRuns' = Append(cliRuns, q)
    BY <1>4
  <2> HIDE DEF q
  <2>4. /\ cliRuns' \in Seq(CliRun) /\ Len(cliRuns') = Len(cliRuns) + 1
        /\ \A i \in 1 .. Len(cliRuns) : cliRuns'[i] = cliRuns[i]
        /\ cliRuns'[Len(cliRuns) + 1] = q
    BY <2>2, <2>3, AppendProperties
  <2>5. DOMAIN cliRuns' = 1 .. Len(cliRuns) + 1
    BY <2>4, LenProperties
  <2>6. RunsKept(cliRuns, cliRuns')
    BY <1>1, <2>4 DEF RunsKept
  <2>9. r \in DOMAIN cliRuns'
    <3>1. r = Len(cliRuns) + 1
      BY <1>4
    <3> QED BY <1>1, <2>5, <3>1
  <2>7. CASE RunsOf(m) = {}
    <3>1. Len(cliRuns) + 1 \in RunsIn(cliRuns', m)
      BY <1>1, <2>2, <2>4, <2>5, <2>7 DEF RunsIn
    <3> QED BY <3>1, <2>4, <2>6, <2>9
  <2>8. CASE RunsOf(m) # {}
    <3>1. RunsIn(cliRuns, m) # {}
      BY <2>8 DEF RunsOf, RunsIn
    <3>2. RunsIn(cliRuns', m) # {}
      BY <3>1, <2>4, <2>6, RunsInGrow
    <3> QED BY <3>2, <2>4, <2>6, <2>9
  <2> QED BY <2>7, <2>8
<1> QED BY <1>3, <1>4 DEF Submits

LEMMA UpToIsSeq ==
    ASSUME NEW n \in Nat
    PROVE  /\ UpTo(n) \in Seq(Nat) /\ Len(UpTo(n)) = n /\ ToSet(UpTo(n)) = 1 .. n
           /\ Append(UpTo(n), n + 1) = UpTo(n + 1)
<1>1. ASSUME NEW k \in Nat
      PROVE  UpTo(k) \in Seq(Nat) /\ Len(UpTo(k)) = k /\ \A i \in 1 .. k : UpTo(k)[i] = i
  BY DEF UpTo
<1> DEFINE s == Append(UpTo(n), n + 1)
<1>2. s \in Seq(Nat) /\ Len(s) = n + 1 /\ (\A i \in 1 .. n : s[i] = i) /\ s[n + 1] = n + 1
  <2>1. UpTo(n) \in Seq(Nat) /\ Len(UpTo(n)) = n /\ (\A i \in 1 .. n : UpTo(n)[i] = i) /\ n + 1 \in Nat
    BY <1>1
  <2> QED BY <2>1, AppendProperties
<1> HIDE DEF s
<1>3. \A i \in 1 .. n + 1 : s[i] = UpTo(n + 1)[i]
  BY <1>1, <1>2
<1>4. s = UpTo(n + 1)
  <2>1. UpTo(n + 1) \in Seq(Nat) /\ Len(UpTo(n + 1)) = n + 1
    BY <1>1
  <2> QED BY <1>2, <1>3, <2>1, SeqEqual
<1>5. ToSet(UpTo(n)) = 1 .. n
  BY DEF ToSet, UpTo
<1> QED BY <1>1, <1>4, <1>5 DEF s

LEMMA ToSetEmpty == ToSet(<<>>) = {}
BY DEF ToSet

LEMMA Expanded ==
    ASSUME NEW s \in Scenario
    PROVE  ExpandScenario(s) \in Seq(Member)
<1> DEFINE ids == [i \in DOMAIN s.members |-> s.members[i].id]
           member(id) == CHOOSE m \in ToSet(s.members) : m.id = id
<1>1. s.members \in Seq(Member) /\ s.order \in Seq(STRING)
  BY DEF Scenario
<1>2. CASE ToSet(s.order) \subseteq ToSet(ids)
  <2>1. ASSUME NEW i \in DOMAIN s.order PROVE member(s.order[i]) \in Member
    <3>1. s.order[i] \in ToSet(ids)
      BY <1>2 DEF ToSet
    <3>2. PICK j \in DOMAIN s.members : s.members[j].id = s.order[i]
      BY <3>1 DEF ToSet
    <3>3. \E m \in ToSet(s.members) : m.id = s.order[i]
      BY <3>2 DEF ToSet
    <3>4. member(s.order[i]) \in ToSet(s.members)
      BY <3>3
    <3>5. ToSet(s.members) \subseteq Member
      BY <1>1, ElementOfSeq, LenProperties DEF ToSet
    <3> QED BY <3>4, <3>5
  <2>2. DOMAIN s.order = 1 .. Len(s.order) /\ Len(s.order) \in Nat
    BY <1>1, LenProperties
  <2> DEFINE ms == [i \in DOMAIN s.order |-> member(s.order[i])]
  <2> HIDE DEF member
  <2>3. ms \in Seq(Member)
    BY <2>1, <2>2
  <2>4. ExpandScenario(s) = ms \/ ExpandScenario(s) = <<>>
    BY DEF ExpandScenario, member
  <2>5. <<>> \in Seq(Member)
    OBVIOUS
  <2> HIDE DEF ms
  <2> QED BY <2>3, <2>4, <2>5
<1>3. CASE ~(ToSet(s.order) \subseteq ToSet(ids))
  <2>1. ExpandScenario(s) = <<>>
    BY <1>3 DEF ExpandScenario
  <2> QED BY <2>1
<1> QED BY <1>2, <1>3

(* An apply that is under way. *)
LEMMA IsApplying ==
    ASSUME CliInv, NEW x \in Shells, NEW at \in {"run", "submit", "save"}, At(x, "apply", at)
    PROVE  /\ Cmd(x) \in Commands /\ Cmd(x).name = "apply" /\ Cmd(x).at = at /\ Applying(cliRuns, Cmd(x))
           /\ Cmd(x).members \in Seq(Member) /\ Cmd(x).pos \in 1 .. Len(Cmd(x).members) /\ Len(Cmd(x).members) \in Nat
           /\ This(x) \in Member /\ cliRuns \in Seq(CliRun)
<1> DEFINE c == Cmd(x)
<1>1. shell[x] # <<>> /\ c.name = "apply" /\ c.at = at
  BY DEF At, Cmd
<1>2. c \in Commands /\ Tells(cliRuns, c)
  BY <1>1, CommandOf
<1> HIDE DEF c
<1>3. Applying(cliRuns, c) /\ c.members \in Seq(Member)
  BY <1>1, <1>2 DEF Tells, Commands
<1>4. c.pos \in DOMAIN c.members
  BY <1>1, <1>3 DEF Applying
<1>5. c.pos \in 1 .. Len(c.members) /\ Len(c.members) \in Nat /\ c.members[c.pos] \in Member
  BY <1>3, <1>4, LenProperties, ElementOfSeq
<1> QED BY <1>1, <1>2, <1>3, <1>5 DEF c, This, CliInv, CliTypeOK

(* An apply that ends with an error: it tells of the members before. *)
LEMMA ApplyFailsKeeps ==
    ASSUME CliInv, NEW x \in Shells, NEW at \in {"run", "submit"}, At(x, "apply", at), NEW local \in BOOLEAN,
           local => ~ScenarioFile(Cmd(x).scenario[1]),
           Exits(x, [Cmd(x) EXCEPT !.local = local], 1), UNCHANGED <<cliRuns, lastRun>>
    PROVE  CliInv'
<1> DEFINE c == Cmd(x)
           e == [c EXCEPT !.local = local]
           d == [e EXCEPT !.at = "exit", !.exit = 1]
<1>1. c \in Commands /\ c.name = "apply" /\ c.at \in {"run", "submit"} /\ Applying(cliRuns, c)
  BY IsApplying
<1>2. shell' = [shell EXCEPT ![x] = <<d>>]
  BY DEF Exits, Sets
<1>3. local => ~ScenarioFile(c.scenario[1])
  OBVIOUS
<1> HIDE DEF c
<1>4. /\ e \in Commands /\ e.name = "apply" /\ e.took = c.took /\ e.members = c.members /\ e.scenario = c.scenario
      /\ e.dryRun = c.dryRun /\ e.lost = c.lost /\ e.local = local /\ e.pos = c.pos
  BY <1>1 DEF Commands
<1> HIDE DEF e
<1>5. /\ d \in Commands /\ d.name = "apply" /\ d.took = c.took /\ d.members = c.members /\ d.scenario = c.scenario
      /\ d.dryRun = c.dryRun /\ d.lost = c.lost /\ d.local = local /\ d.pos = c.pos /\ d.at = "exit" /\ d.exit = 1
  BY <1>4, Exiting
<1> HIDE DEF d
<1>6. Applying(cliRuns, d)
  <2>1. d.scenario # <<>> /\ \A i \in ToSet(d.took) : i \in DOMAIN d.members /\ RunsIn(cliRuns, d.members[i]) # {}
    BY <1>1, <1>5 DEF Applying
  <2>2. d.took = IF d.dryRun THEN <<>> ELSE UpTo(IF d.lost THEN d.pos ELSE d.pos - 1)
    BY <1>1, <1>5 DEF Applying
  <2>3. d.exit # 0 /\ d.at \notin {"run", "submit", "save"}
    BY <1>5
  <2>4. d.local => ~ScenarioFile(d.scenario[1])
    BY <1>3, <1>5
  <2> QED BY <2>1, <2>2, <2>3, <2>4, <1>5 DEF Applying
<1>7. Tells(cliRuns', d)
  BY <1>5, <1>6 DEF Tells
<1> QED BY <1>2, <1>5, <1>7, RunsUnchanged, CommandMoves

(* The next member, or the end, of an apply that has had the ones up to here accepted. *)
LEMMA NextMemberKeeps ==
    ASSUME CliInv, NEW x \in Shells, NEW c \in Commands, c.name = "apply", c.at \in {"run", "save"},
           Applying(cliRuns, c), c.took = IF c.dryRun THEN <<>> ELSE UpTo(c.pos), NextMember(x, c),
           cliRuns' = cliRuns, lastRun' \in 0 .. Len(cliRuns)
    PROVE  CliInv'
<1>1. /\ c.members \in Seq(Member) /\ c.pos \in Nat /\ c.pos \in DOMAIN c.members
      /\ DOMAIN c.members = 1 .. Len(c.members) /\ Len(c.members) \in Nat
  <2>1. c.members \in Seq(Member) /\ c.pos \in Nat /\ c.pos \in DOMAIN c.members
    BY DEF Commands, Applying
  <2> QED BY <2>1, LenProperties
<1>2. cliRuns' \in Seq(CliRun) /\ RunsKept(cliRuns, cliRuns') /\ lastRun' \in 0 .. Len(cliRuns')
  BY DEF CliInv, CliTypeOK, RunsKept
<1>3. CASE c.pos = Len(c.members)
  <2> DEFINE d == [c EXCEPT !.at = "exit", !.exit = 0]
  <2>1. shell' = [shell EXCEPT ![x] = <<d>>]
    BY <1>3 DEF NextMember, Exits, Sets
  <2>2. /\ d \in Commands /\ d.name = "apply" /\ d.took = c.took /\ d.members = c.members /\ d.scenario = c.scenario
        /\ d.dryRun = c.dryRun /\ d.lost = c.lost /\ d.local = c.local /\ d.pos = c.pos /\ d.at = "exit" /\ d.exit = 0
    BY Exiting
  <2> HIDE DEF d
  <2>3. Applying(cliRuns, d)
    <3>1. d.scenario # <<>> /\ ~d.local /\ \A i \in ToSet(d.took) : i \in DOMAIN d.members /\ RunsIn(cliRuns, d.members[i]) # {}
      BY <2>2 DEF Applying
    <3>2. d.took = IF d.dryRun THEN <<>> ELSE UpTo(Len(d.members))
      BY <1>3, <2>2
    <3> QED BY <2>2, <3>1, <3>2 DEF Applying
  <2>4. Tells(cliRuns', d)
    BY <2>2, <2>3 DEF Tells
  <2> QED BY <1>2, <2>1, <2>2, <2>4, CommandMoves
<1>4. CASE c.pos # Len(c.members)
  <2> DEFINE next == c.pos + 1
             d == [c EXCEPT !.at = "run", !.pos = next]
  <2>0. next \in Nat
    BY <1>1
  <2>1. shell' = [shell EXCEPT ![x] = <<d>>]
    BY <1>4 DEF NextMember, Sets
  <2>2. /\ d \in Commands /\ d.name = "apply" /\ d.took = c.took /\ d.members = c.members /\ d.scenario = c.scenario
        /\ d.dryRun = c.dryRun /\ d.lost = c.lost /\ d.local = c.local /\ d.pos = next /\ d.at = "run"
    <3> HIDE DEF next
    <3> QED BY <2>0 DEF Commands
  <2> HIDE DEF d
  <2>3. Applying(cliRuns, d)
    <3>1. d.scenario # <<>> /\ ~d.local /\ ~d.lost /\ \A i \in ToSet(d.took) : i \in DOMAIN d.members /\ RunsIn(cliRuns, d.members[i]) # {}
      BY <2>2 DEF Applying
    <3>2. d.members = ExpandScenario(d.scenario[1])
      BY <2>2 DEF Applying
    <3>3. d.pos \in DOMAIN d.members /\ d.pos - 1 = c.pos
      BY <1>1, <1>4, <2>2
    <3>4. d.took = IF d.dryRun THEN <<>> ELSE UpTo(d.pos - 1)
      BY <3>3, <2>2
    <3> QED BY <2>2, <3>1, <3>2, <3>3, <3>4 DEF Applying
  <2>4. Tells(cliRuns', d)
    BY <2>2, <2>3 DEF Tells
  <2> QED BY <1>2, <2>1, <2>2, <2>4, CommandMoves
<1> QED BY <1>3, <1>4

LEMMA DryRunKeeps ==
    ASSUME CliInv, NEW x \in Shells, ApplyDryRun(x)
    PROVE  CliInv'
<1>1. At(x, "apply", "run") /\ Cmd(x).dryRun /\ NextMember(x, Cmd(x)) /\ UNCHANGED <<cliRuns, lastRun>>
  BY DEF ApplyDryRun
<1>2. Cmd(x) \in Commands /\ Cmd(x).name = "apply" /\ Cmd(x).at = "run" /\ Applying(cliRuns, Cmd(x))
  BY <1>1, IsApplying
<1>3. Cmd(x).took = <<>>
  BY <1>1, <1>2 DEF Applying
<1> QED BY <1>1, <1>2, <1>3, NextMemberKeeps DEF CliInv, CliTypeOK

LEMMA SaveKeeps ==
    ASSUME CliInv, NEW x \in Shells, saveLastRun(x)
    PROVE  CliInv'
<1>1. At(x, "apply", "save") /\ NextMember(x, Cmd(x)) /\ cliRuns' = cliRuns /\ lastRun' \in {lastRun, Cmd(x).run}
  BY DEF saveLastRun
<1>2. Cmd(x) \in Commands /\ Cmd(x).name = "apply" /\ Cmd(x).at = "save" /\ Applying(cliRuns, Cmd(x))
  BY <1>1, IsApplying
<1>3. Cmd(x).took = UpTo(Cmd(x).pos) /\ ~Cmd(x).dryRun /\ Cmd(x).run \in DOMAIN cliRuns
  BY <1>2 DEF Applying
<1>4. lastRun' \in 0 .. Len(cliRuns)
  BY <1>1, <1>3, LenProperties DEF CliInv, CliTypeOK
<1> QED BY <1>1, <1>2, <1>3, <1>4, NextMemberKeeps

LEMMA RefusedKeeps ==
    ASSUME CliInv, NEW x \in Shells, ApplyRefused(x)
    PROVE  CliInv'
<1> DEFINE c == Cmd(x)
<1>1. PICK at \in {"run", "submit"} : At(x, "apply", at) /\ Exits(x, c, 1) /\ UNCHANGED <<cliRuns, lastRun>>
  BY DEF ApplyRefused, Fails, Sending
<1>2. c \in Commands /\ Applying(cliRuns, c) /\ c.at \in {"run", "submit"}
  BY <1>1, IsApplying
<1>3. c = [c EXCEPT !.local = FALSE]
  <2> HIDE DEF c
  <2> QED BY <1>2 DEF Applying, Commands
<1> QED BY <1>1, <1>3, ApplyFailsKeeps

(* A member that cannot be read or bound is one that validate refuses. *)
LEMMA UnreadableKeeps ==
    ASSUME CliInv, NEW x \in Shells, MemberUnreadable(x)
    PROVE  CliInv'
<1> DEFINE c == Cmd(x)
           s == c.scenario[1]
           m == c.members[c.pos]
<1>1. At(x, "apply", "run") /\ Exits(x, [c EXCEPT !.local = TRUE], 1) /\ UNCHANGED <<cliRuns, lastRun>>
      /\ ~(m.file = "ok" /\ BindContextIntoWorkflow(s, m))
  BY DEF MemberUnreadable, MemberReadable
<1>2. c \in Commands /\ Applying(cliRuns, c) /\ c.at = "run"
  BY <1>1, IsApplying
<1>3. m \in ToSet(ExpandScenario(s))
  BY <1>2 DEF Applying, ToSet
<1>4. ~ScenarioFile(s)
  <2> HIDE DEF m, s, c
  <2>1. CASE m.kind = "Workflow"
    BY <1>1, <1>3, <2>1 DEF ScenarioFile, validateBoundWorkflow
  <2>2. CASE m.kind # "Workflow"
    BY <1>1, <1>3, <2>2 DEF ScenarioFile, FileBytes, ManifestBytes, BindContextIntoWorkflow
  <2> QED BY <2>1, <2>2
<1> QED BY <1>1, <1>4, ApplyFailsKeeps

LEMMA StartApplyKeeps ==
    ASSUME CliInv, NEW x \in Shells, NEW s \in Scenario, NEW dryRun \in BOOLEAN, runApplyScenario(x, s, dryRun)
    PROVE  CliInv'
<1> DEFINE ms == ExpandScenario(s)
           files == <<s>>
           c == [Command("apply") EXCEPT !.members = ms, !.dryRun = dryRun, !.scenario = files]
<1>1. UNCHANGED <<cliRuns, lastRun>>
  BY DEF runApplyScenario, Begins, Typed
<1>2. IF ms # <<>> /\ ContextResolved(s) THEN Sets(x, c) ELSE Exits(x, [c EXCEPT !.local = TRUE], 1)
  BY DEF runApplyScenario
<1>3. ms \in Seq(Member) /\ files \in Seq(Scenario) /\ files # <<>> /\ files[1] = s
  BY Expanded
<1>4. /\ Command("apply") \in Commands /\ Command("apply").name = "apply" /\ Command("apply").took = <<>>
      /\ Command("apply").pos = 1 /\ ~Command("apply").local /\ ~Command("apply").lost /\ Command("apply").at = "run"
  BY CommandTyped DEF CommandNames
<1>5. UpTo(0) = <<>>
  BY DEF UpTo
<1> HIDE DEF files, ms
<1>6. /\ c \in Commands /\ c.name = "apply" /\ c.took = <<>> /\ c.members = ms /\ c.scenario = files
      /\ c.dryRun = dryRun /\ ~c.lost /\ ~c.local /\ c.pos = 1 /\ c.at = "run"
  BY <1>3, <1>4 DEF Commands
<1>7. CASE ms # <<>> /\ ContextResolved(s)
  <2>1. shell' = [shell EXCEPT ![x] = <<c>>]
    BY <1>2, <1>7 DEF Sets
  <2> HIDE DEF c
  <2>2. c.pos \in DOMAIN c.members /\ c.pos - 1 = 0
    BY <1>3, <1>6, <1>7, LenProperties, EmptySeq
  <2>3. Applying(cliRuns, c)
    BY <1>3, <1>5, <1>6, <2>2, ToSetEmpty DEF Applying, ms
  <2>4. Tells(cliRuns', c)
    BY <1>1, <1>6, <2>3 DEF Tells
  <2> QED BY <1>1, <1>6, <2>1, <2>4, RunsUnchanged, CommandMoves
<1>8. CASE ~(ms # <<>> /\ ContextResolved(s))
  <2> DEFINE e == [c EXCEPT !.local = TRUE]
             d == [e EXCEPT !.at = "exit", !.exit = 1]
  <2>1. shell' = [shell EXCEPT ![x] = <<d>>]
    BY <1>2, <1>8 DEF Exits, Sets
  <2> HIDE DEF c
  <2>2. /\ e \in Commands /\ e.name = "apply" /\ e.took = <<>> /\ e.scenario = files
        /\ ~e.lost /\ e.pos = 1 /\ e.dryRun = dryRun
    BY <1>6 DEF Commands
  <2> HIDE DEF e
  <2>3. /\ d \in Commands /\ d.name = "apply" /\ d.took = <<>> /\ d.scenario = files
        /\ ~d.lost /\ d.pos = 1 /\ d.dryRun = dryRun /\ d.at = "exit" /\ d.exit = 1
    BY <2>2, Exiting
  <2> HIDE DEF d
  <2>4. ~ScenarioFile(s)
    BY <1>8 DEF ScenarioFile, ms
  <2>5. d.exit # 0 /\ d.pos - 1 = 0
    BY <2>3
  <2>6. Applying(cliRuns, d)
    BY <1>3, <1>5, <2>3, <2>4, <2>5, ToSetEmpty DEF Applying
  <2>7. Tells(cliRuns', d)
    BY <1>1, <2>3, <2>6 DEF Tells
  <2> QED BY <1>1, <2>1, <2>3, <2>7, RunsUnchanged, CommandMoves
<1> QED BY <1>7, <1>8

(* The gateway has a run for the member, whether or not the answer arrives. *)
LEMMA TakenKeeps ==
    ASSUME CliInv, NEW x \in Shells, NEW at \in {"run", "submit"}, At(x, "apply", at), ~Cmd(x).dryRun,
           lastRun' = lastRun, NEW r \in Nat, Taken(x, r),
           cliRuns' \in Seq(CliRun), RunsKept(cliRuns, cliRuns'),
           RunsIn(cliRuns', This(x)) # {}, r \in DOMAIN cliRuns'
    PROVE  CliInv'
<1> DEFINE c == Cmd(x)
           took == Append(c.took, c.pos)
           d == [c EXCEPT !.took = took]
<1>1. ~c.dryRun /\ lastRun' = lastRun
  OBVIOUS
<1>2. \/ Sets(x, [d EXCEPT !.at = "save", !.run = r])
      \/ Exits(x, [d EXCEPT !.lost = TRUE], 1)
  BY DEF Taken
<1>3. /\ c \in Commands /\ c.name = "apply" /\ c.at \in {"run", "submit"} /\ Applying(cliRuns, c)
      /\ c.members \in Seq(Member) /\ c.pos \in 1 .. Len(c.members) /\ Len(c.members) \in Nat
      /\ cliRuns \in Seq(CliRun) /\ This(x) = c.members[c.pos]
  BY IsApplying DEF This
<1>4. /\ cliRuns' \in Seq(CliRun) /\ RunsKept(cliRuns, cliRuns')
      /\ RunsIn(cliRuns', c.members[c.pos]) # {} /\ r \in DOMAIN cliRuns'
  BY <1>3
<1>5. lastRun' \in 0 .. Len(cliRuns')
  <2>1. lastRun \in 0 .. Len(cliRuns) /\ Len(cliRuns) <= Len(cliRuns')
    BY <1>4 DEF CliInv, CliTypeOK, RunsKept
  <2>2. Len(cliRuns) \in Nat /\ Len(cliRuns') \in Nat
    BY <1>3, <1>4, LenProperties
  <2> QED BY <1>1, <2>1, <2>2
<1> HIDE DEF c
<1>7. Applying(cliRuns', c) /\ c.pos \in DOMAIN c.members
  <2>1. Tells(cliRuns, c)
    BY <1>3 DEF Tells
  <2>2. Tells(cliRuns', c)
    BY <2>1, <1>3, <1>4, TellsStays
  <2> QED BY <2>2, <1>3, LenProperties DEF Tells
<1>8. took = UpTo(c.pos) /\ took \in Seq(Nat)
  <2>1. c.pos - 1 \in Nat /\ (c.pos - 1) + 1 = c.pos /\ c.pos \in Nat
    BY <1>3
  <2>2. c.took = UpTo(c.pos - 1)
    BY <1>1, <1>3 DEF Applying
  <2>3. Append(UpTo(c.pos - 1), (c.pos - 1) + 1) = UpTo((c.pos - 1) + 1)
    BY <2>1, UpToIsSeq
  <2>4. UpTo(c.pos) \in Seq(Nat)
    BY <2>1, UpToIsSeq
  <2> QED BY <2>1, <2>2, <2>3, <2>4
<1>9. \A i \in ToSet(took) : i \in DOMAIN c.members /\ RunsIn(cliRuns', c.members[i]) # {}
  <2>0. c.pos \in Nat /\ c.pos - 1 \in Nat
    BY <1>3
  <2>1. ToSet(took) = 1 .. c.pos /\ c.pos \in Nat /\ c.pos - 1 \in Nat
    <3> HIDE DEF took
    <3> QED BY <1>8, <2>0, UpToIsSeq
  <2>2. c.took = UpTo(c.pos - 1)
    BY <1>1, <1>3 DEF Applying
  <2>3. ToSet(c.took) = 1 .. c.pos - 1
    BY <2>1, <2>2, UpToIsSeq
  <2>4. \A i \in 1 .. c.pos - 1 : i \in DOMAIN c.members /\ RunsIn(cliRuns', c.members[i]) # {}
    BY <1>7, <2>3 DEF Applying
  <2>5. \A i \in 1 .. c.pos : i \in 1 .. c.pos - 1 \/ i = c.pos
    BY <2>1
  <2> QED BY <2>1, <2>4, <2>5, <1>4, <1>7
<1> HIDE DEF took
<1>10. /\ d \in Commands /\ d.name = "apply" /\ d.took = took /\ d.members = c.members /\ d.scenario = c.scenario
       /\ ~d.dryRun /\ ~d.lost /\ ~d.local /\ d.pos = c.pos
  <2>1. ~c.lost /\ ~c.local
    BY <1>3 DEF Applying
  <2> QED BY <1>1, <1>3, <1>8, <2>1 DEF Commands
<1> HIDE DEF d
<1>11. CASE Sets(x, [d EXCEPT !.at = "save", !.run = r])
  <2> DEFINE e == [d EXCEPT !.at = "save", !.run = r]
  <2>1. shell' = [shell EXCEPT ![x] = <<e>>]
    BY <1>11 DEF Sets
  <2>2. /\ e \in Commands /\ e.name = "apply" /\ e.took = took /\ e.members = c.members /\ e.scenario = c.scenario
        /\ ~e.dryRun /\ ~e.lost /\ ~e.local /\ e.pos = c.pos /\ e.at = "save" /\ e.run = r
    BY <1>10 DEF Commands
  <2> HIDE DEF e
  <2>3. Applying(cliRuns', e)
    <3>1. e.scenario # <<>> /\ e.members = ExpandScenario(e.scenario[1])
      BY <1>3, <2>2 DEF Applying
    <3> QED BY <1>4, <1>7, <1>8, <1>9, <2>2, <3>1 DEF Applying
  <2>4. Tells(cliRuns', e)
    BY <2>2, <2>3 DEF Tells
  <2> QED BY <1>4, <1>5, <2>1, <2>2, <2>4, CommandMoves
<1>12. CASE Exits(x, [d EXCEPT !.lost = TRUE], 1)
  <2> DEFINE f == [d EXCEPT !.lost = TRUE]
             e == [f EXCEPT !.at = "exit", !.exit = 1]
  <2>1. shell' = [shell EXCEPT ![x] = <<e>>]
    BY <1>12 DEF Exits, Sets
  <2>2. /\ f \in Commands /\ f.name = "apply" /\ f.took = took /\ f.members = c.members /\ f.scenario = c.scenario
        /\ ~f.dryRun /\ f.lost /\ ~f.local /\ f.pos = c.pos
    BY <1>10 DEF Commands
  <2> HIDE DEF f
  <2>3. /\ e \in Commands /\ e.name = "apply" /\ e.took = took /\ e.members = c.members /\ e.scenario = c.scenario
        /\ ~e.dryRun /\ e.lost /\ ~e.local /\ e.pos = c.pos /\ e.at = "exit" /\ e.exit = 1
    <3>1. /\ e \in Commands /\ e.name = f.name /\ e.took = f.took /\ e.members = f.members /\ e.scenario = f.scenario
          /\ e.dryRun = f.dryRun /\ e.lost = f.lost /\ e.local = f.local /\ e.pos = f.pos /\ e.at = "exit" /\ e.exit = 1
      BY <2>2, Exiting
    <3> HIDE DEF e
    <3> QED BY <2>2, <3>1
  <2> HIDE DEF e
  <2>4. Applying(cliRuns', e)
    <3>1. e.scenario # <<>>
      BY <1>3, <2>3 DEF Applying
    <3>2. e.exit # 0 /\ e.at \notin {"run", "submit", "save"}
      BY <2>3
    <3> QED BY <1>8, <1>9, <2>3, <3>1, <3>2 DEF Applying
  <2>5. Tells(cliRuns', e)
    BY <2>3, <2>4 DEF Tells
  <2> QED BY <1>4, <1>5, <2>1, <2>3, <2>5, CommandMoves
<1> QED BY <1>2, <1>11, <1>12

(* The look-up finds a run that is under way, or decides how to submit. *)
LEMMA ApplyKeeps ==
    ASSUME CliInv, NEW x \in Shells, Apply(x)
    PROVE  CliInv'
<1> DEFINE c == Cmd(x)
<1>1. At(x, "apply", "run") /\ ~c.dryRun /\ UNCHANGED <<cliRuns, lastRun>>
  BY DEF Apply
<1>2. /\ c \in Commands /\ c.name = "apply" /\ c.at = "run" /\ Applying(cliRuns, c) /\ cliRuns \in Seq(CliRun)
  BY <1>1, IsApplying
<1>3. ASSUME NEW r \in RunsOf(This(x)), Taken(x, r) PROVE CliInv'
  <2>1. r \in DOMAIN cliRuns /\ RunsIn(cliRuns, This(x)) # {}
    BY <1>3 DEF RunsOf, RunsIn
  <2>2. r \in Nat
    BY <1>2, <2>1, LenProperties
  <2> QED BY <1>1, <1>3, <2>1, <2>2, RunsUnchanged, TakenKeeps
<1>4. ASSUME Sets(x, [c EXCEPT !.at = "submit", !.rerun = HasRun(This(x), "COMPLETED")]) PROVE CliInv'
  <2> DEFINE again == HasRun(This(x), "COMPLETED")
             d == [c EXCEPT !.at = "submit", !.rerun = again]
  <2>1. shell' = [shell EXCEPT ![x] = <<d>>]
    BY <1>4 DEF Sets
  <2>2. again \in BOOLEAN
    BY DEF HasRun
  <2> HIDE DEF c, again
  <2>3. /\ d \in Commands /\ d.name = "apply" /\ d.took = c.took /\ d.members = c.members /\ d.scenario = c.scenario
        /\ d.dryRun = c.dryRun /\ d.lost = c.lost /\ d.local = c.local /\ d.pos = c.pos /\ d.at = "submit"
    BY <1>2, <2>2 DEF Commands
  <2> HIDE DEF d
  <2>4. Applying(cliRuns, d)
    BY <1>1, <1>2, <2>3 DEF Applying
  <2>5. Tells(cliRuns', d)
    BY <1>1, <2>3, <2>4 DEF Tells
  <2> QED BY <1>1, <2>1, <2>3, <2>5, RunsUnchanged, CommandMoves
<1> QED BY <1>3, <1>4 DEF Apply

LEMMA SubmitKeeps ==
    ASSUME CliInv, NEW x \in Shells, Submit(x)
    PROVE  CliInv'
<1>1. At(x, "apply", "submit") /\ lastRun' = lastRun
  BY DEF Submit
<1>2. PICK r \in 1 .. MaxRuns : Submits(This(x), Cmd(x).rerun, r) /\ Taken(x, r)
  BY DEF Submit
<1>3. Cmd(x).at = "submit" /\ Applying(cliRuns, Cmd(x)) /\ This(x) \in Member /\ cliRuns \in Seq(CliRun)
  BY <1>1, IsApplying
<1>4. ~Cmd(x).dryRun
  BY <1>3 DEF Applying
<1>5. r \in Nat
  BY ZynaxCLIAssumption
<1>6. /\ cliRuns' \in Seq(CliRun) /\ RunsKept(cliRuns, cliRuns')
      /\ RunsIn(cliRuns', This(x)) # {} /\ r \in DOMAIN cliRuns'
  BY <1>2, <1>3, SubmitsKeeps
<1> QED BY <1>1, <1>2, <1>4, <1>5, <1>6, TakenKeeps

(* What the shells know is what happened: the invariant of CliSpec. *)
LEMMA CliInvHolds == CliSpec => []CliInv
<1>1. CliInit => CliInv
  <2>1. SUFFICES ASSUME CliInit PROVE CliInv
    OBVIOUS
  <2>2. cliRuns \in Seq(CliRun) /\ lastRun \in 0 .. Len(cliRuns)
    BY <2>1 DEF CliInit
  <2>3. \A x \in Shells : shell[x] = <<>>
    BY <2>1 DEF CliInit
  <2>4. shell \in [Shells -> Seq(Commands)] /\ \A x \in Shells : Len(shell[x]) <= 1
    BY <2>1 DEF CliInit
  <2> QED BY <2>2, <2>3, <2>4 DEF CliInv, CliTypeOK
<1>2. CliInv /\ [CliNext]_cliVars => CliInv'
  <2> SUFFICES ASSUME CliInv, [CliNext]_cliVars PROVE CliInv'
    OBVIOUS
  <2>1. ASSUME NEW x \in Shells, NEW s \in Scenarios[x] PROVE s \in Scenario
    BY <2>1, ZynaxCLIAssumption
  <2>2. ASSUME NEW r \in 1 .. MaxRuns PROVE r \in Nat
    BY <2>2, ZynaxCLIAssumption
  <2>3. ASSUME NEW x \in Shells, NEW s \in Scenarios[x], runValidate(x, s) PROVE CliInv'
    BY <2>1, <2>3, OfflineKeeps
  <2>4. ASSUME NEW x \in Shells, NEW s \in Scenarios[x], NEW dryRun \in BOOLEAN, runApplyScenario(x, s, dryRun)
        PROVE  CliInv'
    BY <2>1, <2>4, StartApplyKeeps
  <2>5. ASSUME NEW x \in Shells, NEW p \in Platforms, Doctor(x, p) PROVE CliInv'
    BY <2>5, OfflineKeeps
  <2>6. ASSUME NEW x \in Shells, NEW m, NEW kubectl, runApplyCRD(x, m, kubectl) PROVE CliInv'
    BY <2>6, OfflineKeeps
  <2>7. ASSUME NEW x \in Shells, NEW name \in {"result", "logs"}, NEW arg \in {0} \cup DOMAIN cliRuns,
               Watches(x, name, arg)
        PROVE  CliInv'
    BY <2>7, WatchesKeeps
  <2>8. ASSUME NEW x \in Shells, NEW r \in 1 .. MaxRuns, NEW name \in {"get", "status"}, GetWorkflow(x, name, r)
        PROVE  CliInv'
    BY <2>2, <2>8, GetWorkflowKeeps
  <2>9. ASSUME NEW x \in Shells, NEW r \in 1 .. MaxRuns, DeleteWorkflow(x, r) PROVE CliInv'
    BY <2>2, <2>9, OfflineKeeps
  <2>10. ASSUME NEW x \in Shells, NEW r \in 1 .. MaxRuns, NEW ok, NEW type, PublishEvent(x, r, ok, type) PROVE CliInv'
    BY <2>2, <2>10, OfflineKeeps
  <2>11. ASSUME NEW x \in Shells, NEW hasOutputs \in BOOLEAN, GetWorkflowOutputs(x, hasOutputs) PROVE CliInv'
    BY <2>11, OutputsKeep
  <2>12. ASSUME NEW x \in Shells,
                \/ Prompt(x) \/ MemberUnreadable(x) \/ Apply(x) \/ Submit(x) \/ ApplyDryRun(x) \/ ApplyRefused(x) \/ saveLastRun(x)
                \/ TailText(x) \/ TailTerminal(x) \/ TailClosed(x) \/ TailFails(x)
         PROVE  CliInv'
    BY <2>12, PromptKeeps, UnreadableKeeps, ApplyKeeps, SubmitKeeps, DryRunKeeps, RefusedKeeps, SaveKeeps, TailTextKeeps, TailEndsKeep
  <2>13. ASSUME NEW r \in DOMAIN cliRuns, RunSteps(r) PROVE CliInv'
    BY <2>13, RunStepsKeeps
  <2>14. CASE UNCHANGED cliVars
    <3>1. shell' = shell /\ UNCHANGED <<cliRuns, lastRun>>
      BY <2>14 DEF cliVars
    <3> QED BY <3>1, RunsUnchanged, ShellIdle
  <2> QED BY <2>3, <2>4, <2>5, <2>6, <2>7, <2>8, <2>9, <2>10, <2>11, <2>12, <2>13, <2>14 DEF CliNext
<1> QED BY <1>1, <1>2, PTL DEF CliSpec

LEMMA InvTells == CliInv => ApplyTold /\ ResultTold /\ StatusTold
<1> SUFFICES ASSUME CliInv PROVE ApplyTold /\ ResultTold /\ StatusTold
  OBVIOUS
<1>1. ASSUME NEW x \in Shells, NEW name, HasExited(x, name)
      PROVE  Cmd(x) \in Commands /\ Cmd(x).name = name /\ Cmd(x).at = "exit" /\ Tells(cliRuns, Cmd(x))
  <2>1. shell[x] # <<>> /\ Cmd(x).name = name /\ Cmd(x).at = "exit"
    BY <1>1 DEF HasExited, At, Cmd
  <2> QED BY <2>1, CommandOf
<1>2. ApplyTold
  <2> SUFFICES ASSUME NEW x \in Shells, HasExited(x, "apply")
               PROVE  LET c == Cmd(x)
                          upTo(n) == [i \in 1..n |-> i]
                      IN  /\ c.exit = 0 => c.took = IF c.dryRun THEN <<>> ELSE upTo(Len(c.members))
                          /\ c.exit # 0 => c.took = IF c.dryRun THEN <<>> ELSE upTo(IF c.lost THEN c.pos ELSE c.pos - 1)
                          /\ \A i \in ToSet(c.took) : RunsOf(c.members[i]) # {}
                          /\ c.local => ~ScenarioFile(c.scenario[1])
    BY DEF ApplyTold
  <2>1. Applying(cliRuns, Cmd(x)) /\ Cmd(x).at = "exit"
    BY <1>1 DEF Tells
  <2>2. \A i \in ToSet(Cmd(x).took) : RunsOf(Cmd(x).members[i]) # {}
    BY <2>1 DEF Applying, RunsIn, RunsOf
  <2> QED BY <2>1, <2>2 DEF Applying, UpTo
<1>3. ResultTold
  <2> SUFFICES ASSUME NEW x \in Shells, HasExited(x, "result"), Cmd(x).exit = 0
               PROVE  IF Cmd(x).printed = "text" THEN Of(x).text ELSE Of(x).completed
    BY DEF ResultTold
  <2>1. Following(cliRuns, Cmd(x)) /\ Cmd(x).at = "exit" /\ Cmd(x).name = "result"
    BY <1>1 DEF Tells
  <2>2. Cmd(x).run # 0
    BY <2>1 DEF Following
  <2> QED BY <2>1, <2>2 DEF Following, Of
<1>4. StatusTold
  <2> SUFFICES ASSUME NEW x \in Shells, HasExited(x, "status"), Cmd(x).terminal = "COMPLETED"
               PROVE  Of(x).completed
    BY DEF StatusTold
  <2>1. Asked(cliRuns, Cmd(x))
    BY <1>1 DEF Tells
  <2> QED BY <2>1 DEF Asked, Of
<1> QED BY <1>2, <1>3, <1>4

-----------------------------------------------------------------------------
(* The context budget: sums and cuts are recursive functions, of which induction
   over a set of numbers says what they compute. *)

LEMMA SumsAre ==
    ASSUME NEW lengths \in Seq(Nat)
    PROVE  /\ Sums(lengths) \in [0 .. Len(lengths) -> Nat]
           /\ Sums(lengths)[0] = 0
           /\ \A i \in 1 .. Len(lengths) : Sums(lengths)[i] = Sums(lengths)[i - 1] + lengths[i]
<1> DEFINE n == Len(lengths)
           Body0(f) == [i \in 0 .. n |-> IF i = 0 THEN 0 ELSE f[i - 1] + lengths[i]]
           g == [i \in 1 .. n |-> [y \in Nat |-> y + lengths[i]]]
<1>1. n \in Nat /\ \A i \in 1 .. n : lengths[i] \in Nat
  BY ElementOfSeq, LenProperties
<1> HIDE DEF n
<1>2. g \in [1 .. n -> [Nat -> Nat]]
  BY <1>1
<1>3. PICK f \in [0 .. n -> Nat] : IsRecursion(f, 0, g, n)
  <2> DEFINE X == Nat
  <2>1. 0 \in X /\ g \in [1 .. n -> [X -> X]]
    BY <1>2
  <2> HIDE DEF g, X
  <2>2. \E f \in [0 .. n -> X] : IsRecursion(f, 0, g, n)
    BY <1>1, <2>1, RecursionExists
  <2> QED BY <2>2 DEF X
<1>4. ASSUME NEW i \in 1 .. n PROVE f[i - 1] \in Nat /\ f[i] = f[i - 1] + lengths[i]
  <2>1. i - 1 \in 0 .. n
    BY <1>1
  <2>2. f[i - 1] \in Nat
    BY <2>1
  <2>3. g[i][f[i - 1]] = f[i - 1] + lengths[i]
    BY <2>2
  <2> HIDE DEF g
  <2> QED BY <1>3, <2>2, <2>3 DEF IsRecursion
<1>5. f = Body0(f)
  <2>1. f[0] = 0
    BY <1>3 DEF IsRecursion
  <2> QED BY <1>1, <2>1, <1>4
<1> DEFINE s == CHOOSE s : s = Body0(s)
<1>6. s = Body0(s)
  <2> HIDE DEF Body0
  <2> QED BY <1>5
<1>7. Sums(lengths) = s
  BY DEF Sums, n
<1> HIDE DEF s
<1>8. s[0] = 0 /\ \A i \in 1 .. n : s[i] = s[i - 1] + lengths[i]
  <2>1. 0 \in 0 .. n /\ \A i \in 1 .. n : i \in 0 .. n /\ i # 0
    BY <1>1
  <2> QED BY <1>6, <2>1
<1>9. s \in [0 .. n -> Nat]
  <2> DEFINE T == {k \in Nat : k <= n => s[k] \in Nat}
  <2>1. 0 \in T
    BY <1>8
  <2>2. ASSUME NEW k \in Nat, k \in T PROVE k + 1 \in T
    <3>1. SUFFICES ASSUME k + 1 <= n PROVE s[k + 1] \in Nat
      OBVIOUS
    <3>2. k + 1 \in 1 .. n /\ (k + 1) - 1 = k /\ s[k] \in Nat
      BY <2>2, <3>1, <1>1
    <3>3. s[k + 1] = s[k] + lengths[k + 1]
      BY <3>2, <1>8
    <3>4. lengths[k + 1] \in Nat
      BY <3>2, <1>1
    <3> HIDE DEF T
    <3> QED BY <3>2, <3>3, <3>4
  <2> HIDE DEF T
  <2>3. Nat \subseteq T
    BY <2>1, <2>2, SetInduction
  <2>4. \A k \in 0 .. n : s[k] \in Nat
    BY <2>3, <1>1 DEF T
  <2> QED BY <2>4, <1>6
<1> QED BY <1>7, <1>8, <1>9 DEF n

LEMMA OveragesAre ==
    ASSUME NEW lengths \in Seq(Nat), NEW c, Budget(c) \in Int
    PROVE  /\ Overages(c, lengths)[0] = Total(lengths) - Budget(c)
           /\ \A i \in 1 .. Len(lengths) :
                 Overages(c, lengths)[i] =
                     IF lengths[i] <= Overages(c, lengths)[i - 1] THEN Overages(c, lengths)[i - 1] - lengths[i] ELSE 0
<1> DEFINE n == Len(lengths)
           first == Total(lengths) - Budget(c)
           Cut(f) == [i \in 0 .. n |->
                         IF i = 0 THEN first ELSE IF lengths[i] <= f[i - 1] THEN f[i - 1] - lengths[i] ELSE 0]
           g == [i \in 1 .. n |-> [y \in Int |-> IF lengths[i] <= y THEN y - lengths[i] ELSE 0]]
<1>1. n \in Nat /\ \A i \in 1 .. n : lengths[i] \in Nat
  BY ElementOfSeq, LenProperties
<1>2. first \in Int
  <2>1. Total(lengths) \in Nat
    BY SumsAre, <1>1 DEF Total
  <2> QED BY <2>1
<1>3. Overages(c, lengths) = CHOOSE s : s = Cut(s)
  BY DEF Overages
<1> HIDE DEF n, first
<1>4. g \in [1 .. n -> [Int -> Int]]
  BY <1>1
<1>5. PICK f \in [0 .. n -> Int] : IsRecursion(f, first, g, n)
  <2> DEFINE X == Int
  <2>1. first \in X /\ g \in [1 .. n -> [X -> X]]
    BY <1>2, <1>4
  <2> HIDE DEF g, X
  <2>2. \E f \in [0 .. n -> X] : IsRecursion(f, first, g, n)
    BY <1>1, <2>1, RecursionExists
  <2> QED BY <2>2 DEF X
<1>6. ASSUME NEW i \in 1 .. n
      PROVE  f[i] = IF lengths[i] <= f[i - 1] THEN f[i - 1] - lengths[i] ELSE 0
  <2>1. i - 1 \in 0 .. n
    BY <1>1
  <2>2. f[i - 1] \in Int
    BY <2>1
  <2>3. g[i][f[i - 1]] = IF lengths[i] <= f[i - 1] THEN f[i - 1] - lengths[i] ELSE 0
    BY <2>2
  <2> HIDE DEF g
  <2> QED BY <1>5, <2>3 DEF IsRecursion
<1>7. f = Cut(f)
  <2>1. f[0] = first
    BY <1>5 DEF IsRecursion
  <2> QED BY <1>1, <2>1, <1>6
<1> DEFINE s == CHOOSE s : s = Cut(s)
<1>8. s = Cut(s)
  <2> HIDE DEF Cut
  <2> QED BY <1>7
<1>9. Overages(c, lengths) = s
  BY <1>3
<1> HIDE DEF s
<1>10. s[0] = first /\ \A i \in 1 .. n : s[i] = IF lengths[i] <= s[i - 1] THEN s[i - 1] - lengths[i] ELSE 0
  <2>1. 0 \in 0 .. n /\ \A i \in 1 .. n : i \in 0 .. n /\ i # 0
    BY <1>1
  <2> QED BY <1>8, <2>1
<1> QED BY <1>9, <1>10 DEF n, first

(* What is still to be cut is what the sources so far did not cover. *)
LEMMA OveragesTell ==
    ASSUME NEW lengths \in Seq(Nat), NEW c, Budget(c) \in Int, Total(lengths) > Budget(c), NEW k \in 0 .. Len(lengths)
    PROVE  LET open == Total(lengths) - Budget(c) - Sums(lengths)[k]
           IN  Overages(c, lengths)[k] = IF open > 0 THEN open ELSE 0
<1> DEFINE n == Len(lengths)
           P(i) == Sums(lengths)[i]
           O(i) == Overages(c, lengths)[i]
           first == Total(lengths) - Budget(c)
           T == {i \in Nat : i <= n => O(i) = IF first - P(i) > 0 THEN first - P(i) ELSE 0}
<1>1. /\ n \in Nat /\ (\A i \in 1 .. n : lengths[i] \in Nat) /\ (\A i \in 0 .. n : P(i) \in Nat) /\ P(0) = 0
      /\ \A i \in 1 .. n : P(i) = P(i - 1) + lengths[i]
  BY SumsAre, ElementOfSeq, LenProperties
<1>2. first \in Int /\ first > 0
  <2>1. Total(lengths) \in Nat
    BY <1>1 DEF Total
  <2> QED BY <2>1
<1>3. O(0) = first /\ \A i \in 1 .. n : O(i) = IF lengths[i] <= O(i - 1) THEN O(i - 1) - lengths[i] ELSE 0
  BY OveragesAre
<1> HIDE DEF P, O, first, n
<1>4. 0 \in T
  BY <1>1, <1>2, <1>3
<1>5. ASSUME NEW i \in Nat, i \in T PROVE i + 1 \in T
  <2>1. SUFFICES ASSUME i + 1 <= n PROVE O(i + 1) = IF first - P(i + 1) > 0 THEN first - P(i + 1) ELSE 0
    OBVIOUS
  <2>2. O(i) = IF first - P(i) > 0 THEN first - P(i) ELSE 0
    BY <1>1, <1>5, <2>1
  <2>3. i + 1 \in 1 .. n /\ (i + 1) - 1 = i /\ i \in 0 .. n
    BY <1>1, <2>1
  <2>4. O(i + 1) = IF lengths[i + 1] <= O(i) THEN O(i) - lengths[i + 1] ELSE 0
    BY <1>3, <2>3
  <2>5. P(i + 1) = P(i) + lengths[i + 1] /\ P(i) \in Nat /\ lengths[i + 1] \in Nat
    BY <1>1, <2>3
  <2> DEFINE o == O(i)
             p == P(i)
             l == lengths[i + 1]
  <2>6. p \in Nat /\ l \in Nat /\ o = (IF first - p > 0 THEN first - p ELSE 0) /\ P(i + 1) = p + l
        /\ O(i + 1) = IF l <= o THEN o - l ELSE 0
    BY <2>2, <2>4, <2>5
  <2> HIDE DEF o, p, l
  <2>7. (IF l <= o THEN o - l ELSE 0) = IF first - (p + l) > 0 THEN first - (p + l) ELSE 0
    BY <1>2, <2>6
  <2> QED BY <2>6, <2>7
<1> HIDE DEF T
<1>6. Nat \subseteq T
  BY <1>4, <1>5, SetInduction
<1>7. O(k) = IF first - P(k) > 0 THEN first - P(k) ELSE 0
  <2>1. k \in Nat /\ k <= n
    BY <1>1 DEF n
  <2> QED BY <2>1, <1>6 DEF T
<1> QED BY <1>7 DEF O, P, first

LEMMA SuffixTotal ==
    ASSUME NEW lengths \in Seq(Nat), NEW k \in 0 .. Len(lengths)
    PROVE  Total(SubSeq(lengths, k + 1, Len(lengths))) = Total(lengths) - Sums(lengths)[k]
<1> DEFINE n == Len(lengths)
           tail == SubSeq(lengths, k + 1, n)
           P(i) == Sums(lengths)[i]
           Q(i) == Sums(tail)[i]
           T == {i \in Nat : i <= n - k => Q(i) = P(k + i) - P(k)}
<1>1. /\ n \in Nat /\ (\A i \in 1 .. n : lengths[i] \in Nat) /\ (\A i \in 0 .. n : P(i) \in Nat) /\ P(0) = 0
      /\ \A i \in 1 .. n : P(i) = P(i - 1) + lengths[i]
  BY SumsAre, ElementOfSeq, LenProperties
<1>2. k \in Nat /\ k <= n /\ n - k \in Nat
  BY <1>1
<1>3. tail \in Seq(Nat) /\ Len(tail) = n - k /\ \A i \in 1 .. n - k : tail[i] = lengths[k + i]
  <2>1. k + 1 \in 1 .. n + 1 /\ n \in k .. n
    BY <1>1, <1>2
  <2>2. /\ tail \in Seq(Nat)
        /\ Len(tail) = IF k + 1 <= n THEN n - (k + 1) + 1 ELSE 0
        /\ \A i \in 1 .. n - (k + 1) + 1 : tail[i] = lengths[(k + 1) + i - 1]
    BY <1>1, <1>2, <2>1, SubSeqProperties
  <2> HIDE DEF tail
  <2>3. Len(tail) = n - k
    BY <1>1, <1>2, <2>2
  <2>4. ASSUME NEW i \in 1 .. n - k PROVE tail[i] = lengths[k + i]
    <3>1. n - (k + 1) + 1 = n - k /\ (k + 1) + i - 1 = k + i
      BY <1>1, <1>2
    <3> QED BY <2>2, <2>4, <3>1
  <2> QED BY <2>2, <2>3, <2>4
<1> HIDE DEF tail
<1>4. Q(0) = 0 /\ \A i \in 1 .. n - k : Q(i) = Q(i - 1) + lengths[k + i]
  <2>1. Sums(tail)[0] = 0 /\ \A i \in 1 .. n - k : Sums(tail)[i] = Sums(tail)[i - 1] + tail[i]
    BY <1>3, SumsAre
  <2> QED BY <2>1, <1>3
<1> HIDE DEF P, Q, n
<1>5. 0 \in T
  <2>1. k + 0 = k /\ P(k) \in Nat
    BY <1>1, <1>2
  <2> QED BY <2>1, <1>4
<1>6. ASSUME NEW i \in Nat, i \in T PROVE i + 1 \in T
  <2>1. SUFFICES ASSUME i + 1 <= n - k PROVE Q(i + 1) = P(k + (i + 1)) - P(k)
    OBVIOUS
  <2>2. Q(i) = P(k + i) - P(k)
    BY <1>2, <1>6, <2>1
  <2>3. i + 1 \in 1 .. n - k /\ (i + 1) - 1 = i /\ k + (i + 1) \in 1 .. n /\ (k + (i + 1)) - 1 = k + i /\ k + i \in 0 .. n
    BY <1>1, <1>2, <2>1
  <2>4. Q(i + 1) = Q(i) + lengths[k + (i + 1)]
    BY <1>4, <2>3
  <2>5. P(k + (i + 1)) = P(k + i) + lengths[k + (i + 1)]
    BY <1>1, <2>3
  <2>6. P(k) \in Nat /\ P(k + i) \in Nat /\ lengths[k + (i + 1)] \in Nat
    BY <1>1, <1>2, <2>3
  <2> QED BY <2>2, <2>4, <2>5, <2>6
<1> HIDE DEF T
<1>7. Nat \subseteq T
  BY <1>5, <1>6, SetInduction
<1>8. Q(n - k) = P(n) - P(k)
  <2>1. n - k \in T /\ k + (n - k) = n /\ n - k <= n - k
    BY <1>1, <1>2, <1>7
  <2> QED BY <2>1 DEF T
<1> QED BY <1>3, <1>8 DEF P, Q, n, Total, tail

(* What is left of a source is what the budget leaves after the later ones. *)
LEMMA BudgetKept ==
    ASSUME NEW c, c.sources \in Seq(Source), c.maxTokens \in Int
    PROVE  LET lengths == [i \in DOMAIN c.sources |-> c.sources[i].length]
               after(i) == Total(SubSeq(lengths, i + 1, Len(lengths)))
               room(i) == Budget(c) - after(i)
           IN  enforceBudget(c, lengths) =
                   [i \in DOMAIN lengths |-> IF room(i) >= lengths[i] THEN lengths[i] ELSE IF room(i) > 0 THEN room(i) ELSE 0]
<1> DEFINE lengths == [i \in DOMAIN c.sources |-> c.sources[i].length]
           n == Len(lengths)
           after(i) == Total(SubSeq(lengths, i + 1, n))
           room(i) == Budget(c) - after(i)
           P(i) == Sums(lengths)[i]
           O(i) == Overages(c, lengths)[i]
           total == Total(lengths)
           budget == Budget(c)
           left(i) == IF room(i) >= lengths[i] THEN lengths[i] ELSE IF room(i) > 0 THEN room(i) ELSE 0
<1>1. lengths \in Seq(Nat)
  <2>1. DOMAIN c.sources = 1 .. Len(c.sources) /\ Len(c.sources) \in Nat
    BY LenProperties
  <2>2. \A i \in DOMAIN c.sources : c.sources[i] \in Source
    BY <2>1, ElementOfSeq
  <2>3. \A i \in DOMAIN c.sources : c.sources[i].length \in Nat
    BY <2>2 DEF Source
  <2> QED BY <2>1, <2>3
<1> HIDE DEF lengths
<1>2. /\ n \in Nat /\ (\A i \in 1 .. n : lengths[i] \in Nat) /\ (\A i \in 0 .. n : P(i) \in Nat)
      /\ (\A i \in 1 .. n : P(i) = P(i - 1) + lengths[i]) /\ DOMAIN lengths = 1 .. n
  BY <1>1, SumsAre, ElementOfSeq, LenProperties
<1>3. budget \in Int /\ total \in Nat /\ total = P(n)
  <2>1. budget \in Int
    BY DEF Budget, tokenCharsPerToken
  <2>2. n \in 0 .. n
    BY <1>2
  <2> QED BY <1>2, <2>1, <2>2 DEF Total
<1>4. ASSUME NEW i \in 1 .. n PROVE room(i) = budget - (total - P(i))
  <2>1. i \in 0 .. n
    BY <1>2
  <2> QED BY <1>1, <2>1, SuffixTotal
<1>5. CASE total <= budget
  <2>1. enforceBudget(c, lengths) = lengths
    BY <1>5 DEF enforceBudget
  <2> HIDE DEF room, P, total, budget, n
  <2>2. ASSUME NEW i \in 1 .. n PROVE left(i) = lengths[i]
    <3>1. i - 1 \in 0 .. n /\ i \in 0 .. n
      BY <1>2
    <3>2. P(i - 1) \in Nat /\ P(i) = P(i - 1) + lengths[i] /\ lengths[i] \in Nat /\ P(i) \in Nat
      BY <3>1, <1>2
    <3>3. room(i) >= lengths[i]
      BY <1>3, <1>4, <1>5, <3>2
    <3> QED BY <3>3
  <2>3. lengths = [i \in DOMAIN lengths |-> lengths[i]]
    BY <1>1
  <2>4. [i \in DOMAIN lengths |-> left(i)] = [i \in DOMAIN lengths |-> lengths[i]]
    BY <1>2, <2>2
  <2> QED BY <2>1, <2>3, <2>4 DEF lengths, room, n
<1>6. CASE ~(total <= budget)
  <2> DEFINE cut(i) == IF lengths[i] <= O(i - 1) THEN 0 ELSE lengths[i] - O(i - 1)
  <2>1. enforceBudget(c, lengths) = [i \in DOMAIN lengths |-> cut(i)]
    BY <1>6 DEF enforceBudget
  <2>2. ASSUME NEW i \in 1 .. n
        PROVE  O(i - 1) = IF total - budget - P(i - 1) > 0 THEN total - budget - P(i - 1) ELSE 0
    <3>1. i - 1 \in 0 .. n /\ total > budget
      BY <1>2, <1>3, <1>6
    <3> QED BY <1>1, <1>3, <3>1, OveragesTell
  <2> HIDE DEF room, P, total, budget, n, O
  <2>3. ASSUME NEW i \in 1 .. n PROVE left(i) = cut(i)
    <3>1. i - 1 \in 0 .. n /\ i \in 0 .. n
      BY <1>2
    <3>2. P(i - 1) \in Nat /\ P(i) = P(i - 1) + lengths[i] /\ lengths[i] \in Nat /\ P(i) \in Nat
      BY <3>1, <1>2
    <3>3. room(i) = budget - (total - P(i))
      BY <1>4
    <3>4. O(i - 1) = IF total - budget - P(i - 1) > 0 THEN total - budget - P(i - 1) ELSE 0
      BY <2>2
    <3>5. room(i) = budget - (total - (P(i - 1) + lengths[i]))
      BY <3>2, <3>3
    <3> DEFINE p == P(i - 1)
               l == lengths[i]
               o == O(i - 1)
               r == room(i)
    <3>6. p \in Nat /\ l \in Nat /\ r = budget - (total - (p + l))
          /\ o = IF total - budget - p > 0 THEN total - budget - p ELSE 0
      BY <3>2, <3>4, <3>5
    <3> HIDE DEF p, l, o, r
    <3>7. (IF r >= l THEN l ELSE IF r > 0 THEN r ELSE 0) = IF l <= o THEN 0 ELSE l - o
      BY <1>3, <3>6
    <3> QED BY <3>7 DEF p, l, o, r
  <2>4. [i \in DOMAIN lengths |-> left(i)] = [i \in DOMAIN lengths |-> cut(i)]
    <3> HIDE DEF left, cut
    <3> QED BY <1>2, <2>3
  <2> QED BY <2>1, <2>4 DEF lengths, room, n
<1> QED BY <1>5, <1>6

LEMMA ContextKept == ContextFits
<1> SUFFICES ASSUME NEW s \in UNION {Scenarios[x] : x \in Shells}, s.context # <<>>
             PROVE  LET c == s.context[1]
                        lengths == [i \in DOMAIN c.sources |-> c.sources[i].length]
                        after(i) == Total(SubSeq(lengths, i + 1, Len(lengths)))
                        room(i) == Budget(c) - after(i)
                    IN  enforceBudget(c, lengths) =
                            [i \in DOMAIN lengths |->
                                IF room(i) >= lengths[i] THEN lengths[i] ELSE IF room(i) > 0 THEN room(i) ELSE 0]
  BY DEF ContextFits
<1>1. s \in Scenario
  BY ZynaxCLIAssumption
<1>2. s.context \in Seq(Context)
  BY <1>1 DEF Scenario
<1>3. s.context[1] \in Context
  BY <1>2, EmptySeq, ElementOfSeq, LenProperties
<1>4. s.context[1].sources \in Seq(Source) /\ s.context[1].maxTokens \in Int
  BY <1>3 DEF Context
<1> QED BY <1>4, BudgetKept

(* What a command tells its shell is what happened - which members the gateway took,
   what a run left, that it has completed - for any number of shells and runs, any
   scenarios, applies that race, lost answers and broken streams; and what enforceBudget leaves of the sources is the
   end of them that fits the budget, for any number of sources of any length. *)
THEOREM CommandsTold == CliSpec => []CommandsTellTruth
<1>1. CliInv => CommandsTellTruth
  BY InvTells, ContextKept DEF CommandsTellTruth
<1> QED BY <1>1, CliInvHolds, PTL

-----------------------------------------------------------------------------
(* The gitops watcher. *)

Content == Contents \cup {NoContent}
Notices == [file : FileSet, removed : BOOLEAN]
Calls == [file : FileSet, content : Contents]

(* Types: at most one apply is under way, of a content that a manifest may have. *)
GitTypeOK ==
    /\ disk \in [FileSet -> Content]
    /\ phase \in {"down", "load", "sync", "watch", "exited"}
    /\ watched \subseteq FileSet
    /\ events \in Seq(Notices)
    /\ todo \in Seq(FileSet)
    /\ state \in [FileSet -> Content] /\ saved \in [FileSet -> Content]
    /\ call = <<>> \/ \E k \in Calls : call = <<k>>
    /\ accepted \in [FileSet -> Content] /\ tried \in [FileSet -> Content]
    /\ unknown \subseteq FileSet

(* Nothing is applied before the state is loaded. *)
NoneEarly == phase \in {"down", "load", "exited"} => call = <<>>

(* What a record says of a file is what the gateway took last, unless the gateway
   took something the record never learnt of. *)
Agrees(record) == \A f \in FileSet : record[f] # NoContent => accepted[f] = record[f] \/ f \in unknown

(* The record that counts agrees with the gateway: the one in memory, and until that
   is loaded the one in the state file; and a file on record was taken once. *)
RecordTrue ==
    /\ phase \in {"sync", "watch"} => Agrees(state)
    /\ phase \in {"down", "load"} => Agrees(saved)
    /\ \A f \in FileSet : saved[f] # NoContent \/ state[f] # NoContent => accepted[f] # NoContent

(* A notice that f is there waits in the queue; no notice that f is gone is the last of f. *)
Offers(es, f) == \E i \in 1 .. Len(es) : es[i].file = f /\ ~es[i].removed
LastIsThere(es, f) ==
    \A i \in 1 .. Len(es) : es[i].file = f /\ es[i].removed =>
        \E j \in 1 .. Len(es) : j > i /\ es[j].file = f /\ ~es[j].removed
Awaits(files, f) == \E i \in 1 .. Len(files) : files[i] = f

(* The content of f on disk was dealt with, is being applied, or will be looked at. *)
Owed(f) ==
    \/ phase = "load"
    \/ phase = "sync" /\ Awaits(todo, f)
    \/ call # <<>> /\ call[1].file = f /\ call[1].content = disk[f]
    \/ Offers(events, f)
    \/ tried[f] = disk[f]
    \/ state[f] = disk[f]

(* An apply of a content that f no longer has is followed by another look at f. *)
StaleSeen(f) == call # <<>> /\ call[1].file = f /\ call[1].content # disk[f] => Offers(events, f)

NoneLost ==
    Running /\ ~overflowed =>
        \A f \in watched : disk[f] # NoContent => Owed(f) /\ StaleSeen(f) /\ LastIsThere(events, f)

GitInv == GitTypeOK /\ NoneEarly /\ RecordTrue /\ NoneLost

LEMMA NoticeAdded ==
    ASSUME NEW es \in Seq(Notices), NEW n \in Notices, NEW f
    PROVE  /\ Offers(es, f) => Offers(Append(es, n), f)
           /\ n.file = f /\ ~n.removed => Offers(Append(es, n), f) /\ LastIsThere(Append(es, n), f)
           /\ n.file # f /\ LastIsThere(es, f) => LastIsThere(Append(es, n), f)
<1> DEFINE l == Len(es)
           as == Append(es, n)
<1>1. l \in Nat /\ Len(as) = l + 1 /\ as[l + 1] = n /\ \A i \in 1 .. l : as[i] = es[i]
  BY AppendProperties, LenProperties
<1>2. \A i \in 1 .. l : i \in 1 .. l + 1
  BY <1>1
<1>3. \A i \in 1 .. l + 1 : i \in 1 .. l \/ i = l + 1
  BY <1>1
<1>4. l + 1 \in 1 .. l + 1 /\ \A i \in 1 .. l : l + 1 > i
  BY <1>1
<1> HIDE DEF l, as
<1>5. Offers(es, f) => Offers(as, f)
  BY <1>1, <1>2 DEF Offers, l
<1>6. ASSUME n.file = f, ~n.removed PROVE Offers(as, f) /\ LastIsThere(as, f)
  <2>1. Offers(as, f)
    BY <1>1, <1>4, <1>6 DEF Offers
  <2>2. ASSUME NEW i \in 1 .. l + 1, as[i].removed PROVE \E j \in 1 .. l + 1 : j > i /\ as[j].file = f /\ ~as[j].removed
    BY <1>1, <1>3, <1>4, <1>6, <2>2
  <2> QED BY <1>1, <2>1, <2>2 DEF LastIsThere
<1>7. ASSUME n.file # f, LastIsThere(es, f) PROVE LastIsThere(as, f)
  <2>1. ASSUME NEW i \in 1 .. l + 1, as[i].file = f, as[i].removed
        PROVE  \E j \in 1 .. l + 1 : j > i /\ as[j].file = f /\ ~as[j].removed
    <3>1. i \in 1 .. l /\ es[i].file = f /\ es[i].removed
      BY <1>1, <1>3, <1>7, <2>1
    <3>2. PICK j \in 1 .. l : j > i /\ es[j].file = f /\ ~es[j].removed
      BY <1>7, <3>1 DEF LastIsThere, l
    <3> QED BY <1>1, <1>2, <3>2
  <2> QED BY <1>1, <2>1 DEF LastIsThere
<1> QED BY <1>5, <1>6, <1>7 DEF as

LEMMA NoticeTaken ==
    ASSUME NEW es \in Seq(Notices), es # <<>>, NEW f
    PROVE  /\ Tail(es) \in Seq(Notices)
           /\ Head(es) \in Notices
           /\ LastIsThere(es, f) => LastIsThere(Tail(es), f)
           /\ Offers(es, f) /\ (Head(es).file # f \/ Head(es).removed) => Offers(Tail(es), f)
           /\ LastIsThere(es, f) /\ Head(es).file = f /\ Head(es).removed => Offers(Tail(es), f)
<1> DEFINE l == Len(es)
           ts == Tail(es)
<1>1. l \in Nat /\ l > 0 /\ ts \in Seq(Notices) /\ Len(ts) = l - 1 /\ \A i \in 1 .. l - 1 : ts[i] = es[i + 1]
  BY HeadTailProperties, EmptySeq, LenProperties
<1>2. Head(es) = es[1] /\ es[1] \in Notices
  BY HeadTailProperties, <1>1, ElementOfSeq
<1>3. \A i \in 1 .. l : i = 1 \/ (i - 1 \in 1 .. l - 1 /\ (i - 1) + 1 = i)
  BY <1>1
<1>4. \A i \in 1 .. l - 1 : i + 1 \in 1 .. l
  BY <1>1
<1>a. 1 \in 1 .. l
  BY <1>1
<1> HIDE DEF l, ts
<1>5. ASSUME LastIsThere(es, f) PROVE LastIsThere(ts, f)
  <2>1. ASSUME NEW i \in 1 .. l - 1, ts[i].file = f, ts[i].removed
        PROVE  \E j \in 1 .. l - 1 : j > i /\ ts[j].file = f /\ ~ts[j].removed
    <3>1. i + 1 \in 1 .. l /\ es[i + 1].file = f /\ es[i + 1].removed
      BY <1>1, <1>4, <2>1
    <3>2. PICK j \in 1 .. l : j > i + 1 /\ es[j].file = f /\ ~es[j].removed
      BY <1>5, <3>1 DEF LastIsThere, l
    <3>3. j # 1 /\ j - 1 > i
      BY <1>1, <3>2
    <3>4. j - 1 \in 1 .. l - 1 /\ ts[j - 1] = es[j]
      BY <1>1, <1>3, <3>3
    <3> QED BY <3>2, <3>3, <3>4
  <2> QED BY <1>1, <2>1 DEF LastIsThere
<1>6. ASSUME NEW j \in 1 .. l, j # 1, es[j].file = f, ~es[j].removed PROVE Offers(ts, f)
  <2>1. j - 1 \in 1 .. l - 1 /\ ts[j - 1] = es[j]
    BY <1>1, <1>3, <1>6
  <2> QED BY <1>1, <1>6, <2>1 DEF Offers
<1>7. ASSUME Offers(es, f), es[1].file # f \/ es[1].removed PROVE Offers(ts, f)
  <2>1. PICK j \in 1 .. l : es[j].file = f /\ ~es[j].removed
    BY <1>7 DEF Offers, l
  <2>2. j # 1
    BY <1>7, <2>1
  <2> QED BY <1>6, <2>1, <2>2
<1>8. ASSUME LastIsThere(es, f), es[1].file = f, es[1].removed PROVE Offers(ts, f)
  <2>1. PICK j \in 1 .. l : j > 1 /\ es[j].file = f /\ ~es[j].removed
    BY <1>8, <1>a DEF LastIsThere, l
  <2>2. j # 1
    BY <1>1, <2>1
  <2> QED BY <1>6, <2>1, <2>2
<1> QED BY <1>1, <1>2, <1>5, <1>7, <1>8 DEF ts

LEMMA NoNotice == ASSUME NEW f PROVE ~Offers(<<>>, f) /\ LastIsThere(<<>>, f)
  BY DEF Offers, LastIsThere

LEMMA FileVisited ==
    ASSUME NEW files \in Seq(FileSet), files # <<>>
    PROVE  /\ Head(files) \in FileSet /\ Tail(files) \in Seq(FileSet)
           /\ \A f : Awaits(files, f) => f = Head(files) \/ Awaits(Tail(files), f)
<1> DEFINE l == Len(files)
           ts == Tail(files)
<1>1. l \in Nat /\ l > 0 /\ ts \in Seq(FileSet) /\ Len(ts) = l - 1 /\ \A i \in 1 .. l - 1 : ts[i] = files[i + 1]
  BY HeadTailProperties, EmptySeq, LenProperties
<1>2. Head(files) = files[1] /\ files[1] \in FileSet
  BY HeadTailProperties, <1>1, ElementOfSeq
<1>3. \A i \in 1 .. l : i = 1 \/ (i - 1 \in 1 .. l - 1 /\ (i - 1) + 1 = i)
  BY <1>1
<1> HIDE DEF l, ts
<1>4. ASSUME NEW f, Awaits(files, f), f # files[1] PROVE Awaits(ts, f)
  <2>1. PICK i \in 1 .. l : files[i] = f
    BY <1>4 DEF Awaits, l
  <2>2. i - 1 \in 1 .. l - 1 /\ ts[i - 1] = f
    BY <1>1, <1>3, <1>4, <2>1
  <2> QED BY <1>1, <2>2 DEF Awaits
<1> QED BY <1>1, <1>2, <1>4 DEF ts

LEMMA FilesAre == Len(Files) \in Nat /\ (\A i \in 1 .. Len(Files) : Files[i] \in FileSet)
                  /\ \A f \in FileSet : \E i \in 1 .. Len(Files) : f = Files[i]
<1>1. Files \in Seq(STRING) /\ Len(Files) \in Nat /\ DOMAIN Files = 1 .. Len(Files)
  BY GitopsAssumption, LenProperties
<1> QED BY <1>1 DEF FileSet, ToSet

(* The walk meets every manifest that is there when it begins. *)
LEMMA WalkMeets ==
    Present \in Seq(FileSet) /\ \A f \in FileSet : disk[f] # NoContent => Awaits(Present, f)
<1> DEFINE n == Len(Files)
           X == Seq(FileSet)
           There(i) == disk[Files[i]] # NoContent
           Walk0(w) == [i \in 0 .. n |-> IF i = 0 THEN <<>> ELSE
                                         IF There(i) THEN Append(w[i - 1], Files[i]) ELSE w[i - 1]]
           g == [i \in 1 .. n |-> [y \in X |-> IF There(i) THEN Append(y, Files[i]) ELSE y]]
           e == <<>>
<1>1. n \in Nat /\ \A i \in 1 .. n : Files[i] \in FileSet
  BY FilesAre
<1>a. e \in X
  BY EmptySeq
<1> HIDE DEF n
<1>b. \A y \in X, i \in 1 .. n : Append(y, Files[i]) \in X
  BY <1>1, AppendProperties
<1> HIDE DEF e, X, There
<1>2. g \in [1 .. n -> [X -> X]]
  BY <1>b
<1>3. PICK w \in [0 .. n -> X] : IsRecursion(w, e, g, n)
  <2> HIDE DEF g
  <2> QED BY <1>1, <1>2, <1>a, RecursionExists
<1>4. ASSUME NEW i \in 1 .. n
      PROVE  w[i - 1] \in X /\ w[i] = IF There(i) THEN Append(w[i - 1], Files[i]) ELSE w[i - 1]
  <2>1. i - 1 \in 0 .. n
    BY <1>1
  <2>2. w[i - 1] \in X
    BY <2>1
  <2>3. g[i][w[i - 1]] = IF There(i) THEN Append(w[i - 1], Files[i]) ELSE w[i - 1]
    BY <2>2
  <2> HIDE DEF g
  <2> QED BY <1>3, <2>2, <2>3 DEF IsRecursion
<1>5. w = Walk0(w)
  <2>1. w[0] = <<>>
    BY <1>3 DEF IsRecursion, e
  <2>2. ASSUME NEW i \in 0 .. n PROVE w[i] = Walk0(w)[i]
    <3>1. CASE i = 0
      BY <2>1, <3>1
    <3>2. CASE i # 0
      <4>1. i \in 1 .. n
        BY <1>1, <3>2
      <4> QED BY <1>4, <3>2, <4>1
    <3> QED BY <3>1, <3>2
  <2>3. DOMAIN Walk0(w) = 0 .. n /\ Walk0(w) = [i \in 0 .. n |-> Walk0(w)[i]]
    BY Zenon
  <2>4. w = [i \in 0 .. n |-> w[i]]
    BY <1>3
  <2> HIDE DEF Walk0
  <2> QED BY <2>2, <2>3, <2>4, Zenon
<1> DEFINE s == CHOOSE s : s = Walk0(s)
<1>6. s = Walk0(s)
  <2> HIDE DEF Walk0
  <2> QED BY <1>5
<1>7. Present = s[n]
  BY DEF Present, n, There
<1> HIDE DEF s
<1>8. s[0] = e /\ \A i \in 1 .. n : s[i] = IF There(i) THEN Append(s[i - 1], Files[i]) ELSE s[i - 1]
  <2>1. 0 \in 0 .. n /\ \A i \in 1 .. n : i \in 0 .. n /\ i # 0
    BY <1>1
  <2> QED BY <1>6, <2>1 DEF e
<1> HIDE DEF Walk0
<1> DEFINE Met(k) == s[k] \in X /\ \A i \in 1 .. k : There(i) => Awaits(s[k], Files[i])
           T == {k \in Nat : k <= n => Met(k)}
<1>9. 0 \in T
  BY <1>8, <1>a
<1>10. ASSUME NEW k \in Nat, k \in T PROVE k + 1 \in T
  <2>1. SUFFICES ASSUME k + 1 <= n PROVE Met(k + 1)
    OBVIOUS
  <2>2. k + 1 \in 1 .. n /\ (k + 1) - 1 = k /\ Met(k) /\ \A i \in 1 .. k + 1 : i \in 1 .. k \/ i = k + 1
    BY <1>10, <2>1, <1>1
  <2>3. s[k + 1] = IF There(k + 1) THEN Append(s[k], Files[k + 1]) ELSE s[k]
    BY <1>8, <2>2
  <2>4. CASE ~There(k + 1)
    BY <2>2, <2>3, <2>4
  <2>5. CASE There(k + 1)
    <3> DEFINE q == s[k]
               a == Files[k + 1]
               r == Append(q, a)
    <3>1. q \in Seq(FileSet) /\ a \in FileSet
      BY <2>2, <1>1 DEF X
    <3>2. r \in Seq(FileSet) /\ Len(q) \in Nat /\ Len(r) = Len(q) + 1 /\ r[Len(q) + 1] = a
          /\ \A j \in 1 .. Len(q) : r[j] = q[j]
      <4> HIDE DEF q, a
      <4> QED BY <3>1, AppendProperties, LenProperties
    <3> HIDE DEF r
    <3>3. \A x : Awaits(q, x) => Awaits(r, x)
      <4> HIDE DEF q, a
      <4> QED BY <3>2 DEF Awaits
    <3>4. Awaits(r, a)
      <4> HIDE DEF q, a
      <4> QED BY <3>2 DEF Awaits
    <3>5. s[k + 1] = r
      BY <2>3, <2>5 DEF r
    <3> QED BY <2>2, <3>2, <3>3, <3>4, <3>5 DEF X
  <2> QED BY <2>4, <2>5
<1> HIDE DEF T
<1>11. Nat \subseteq T
  BY <1>9, <1>10, SetInduction
<1>12. Met(n)
  BY <1>11, <1>1 DEF T
<1>13. ASSUME NEW f \in FileSet, disk[f] # NoContent PROVE Awaits(s[n], f)
  <2>1. PICK i \in 1 .. n : f = Files[i]
    BY FilesAre DEF n
  <2>2. There(i)
    BY <1>13, <2>1 DEF There
  <2> QED BY <1>12, <2>1, <2>2
<1> QED BY <1>7, <1>12, <1>13 DEF X

(* The parts of the call under way. *)
LEMMA CallIs ==
    ASSUME GitTypeOK, call # <<>>
    PROVE  call[1].file \in FileSet /\ call[1].content \in Contents /\ call[1].content # NoContent
<1>1. PICK k \in Calls : call = <<k>>
  BY DEF GitTypeOK
<1>2. call[1] = k
  BY <1>1
<1> QED BY <1>2, GitopsAssumption DEF Calls

LEMMA ApplyFileCalls ==
    ASSUME GitTypeOK, NEW f \in FileSet, applyFile(f)
    PROVE  /\ call' = <<>> \/ \E k \in Calls : call' = <<k>>
           /\ disk[f] # NoContent /\ state[f] # disk[f] => call' # <<>>
           /\ call' # <<>> => call'[1].file = f /\ call'[1].content = disk[f]
<1>1. CASE disk[f] # NoContent /\ state[f] # disk[f]
  <2> DEFINE k == [file |-> f, content |-> disk[f]]
  <2>1. disk[f] \in Contents
    BY <1>1 DEF GitTypeOK, Content
  <2>2. k \in Calls /\ k.file = f /\ k.content = disk[f]
    BY <2>1 DEF Calls
  <2>3. call' = <<k>>
    BY <1>1 DEF applyFile
  <2> HIDE DEF k
  <2> QED BY <2>2, <2>3
<1>2. CASE ~(disk[f] # NoContent /\ state[f] # disk[f])
  BY <1>2 DEF applyFile
<1> QED BY <1>1, <1>2

LEMMA EmptyRecord == Empty \in [FileSet -> Content] /\ \A f \in FileSet : Empty[f] = NoContent
  BY DEF Empty, Content

LEMMA GitInitHolds == GitInit => GitInv
<1> SUFFICES ASSUME GitInit PROVE GitInv
  OBVIOUS
<1>1. disk \in [FileSet -> Content]
  BY GitopsAssumption DEF GitInit, Content
<1>2. <<>> \in Seq(Notices) /\ <<>> \in Seq(FileSet)
  BY EmptySeq
<1>3. GitTypeOK
  BY <1>1, <1>2, EmptyRecord DEF GitInit, GitTypeOK
<1>4. NoneEarly /\ NoneLost
  BY DEF GitInit, NoneEarly, NoneLost, Running
<1>5. RecordTrue
  BY EmptyRecord DEF GitInit, RecordTrue, Agrees
<1> QED BY <1>3, <1>4, <1>5 DEF GitInv

LEMMA GitTypeStep == GitTypeOK /\ NoneEarly /\ [GitNext]_gitVars => GitTypeOK'
<1> SUFFICES ASSUME GitTypeOK, NoneEarly, [GitNext]_gitVars PROVE GitTypeOK'
  OBVIOUS
<1>0. <<>> \in Seq(Notices) /\ <<>> \in Seq(FileSet)
  BY EmptySeq
<1>1. ASSUME NEW f \in FileSet, NEW c \in Contents \cup {NoContent}, Edit(f, c) PROVE GitTypeOK'
  <2>1. disk' \in [FileSet -> Content]
    BY <1>1 DEF Edit, GitTypeOK, Content
  <2> DEFINE n == [file |-> f, removed |-> c = NoContent]
  <2>2. n \in Notices
    BY DEF Notices
  <2>3. events' = Append(events, n) \/ events' = events
    BY <1>1 DEF Edit
  <2> HIDE DEF n
  <2>4. events' \in Seq(Notices)
    <3>1. events \in Seq(Notices)
      BY DEF GitTypeOK
    <3>2. Append(events, n) \in Seq(Notices)
      BY <2>2, <3>1, AppendProperties
    <3> QED BY <2>3, <3>1, <3>2
  <2> QED BY <1>1, <2>1, <2>4 DEF Edit, GitTypeOK, process, gateway
<1>2. ASSUME Overflow \/ Cancel PROVE GitTypeOK'
  BY <1>0, <1>2 DEF Overflow, Cancel, GitTypeOK, process, gateway
<1>3. ASSUME Start PROVE GitTypeOK'
  BY <1>0, <1>3, EmptyRecord DEF Start, GitTypeOK, gateway, addDirs
<1>4. ASSUME NEW p \in {"down", "exited"}, NEW r, Stops(p, r), UNCHANGED <<disk, watched, state, accepted, tried>>,
             saved' \in [FileSet -> Content]
      PROVE  GitTypeOK'
  BY <1>0, <1>4 DEF Stops, Forgotten, GitTypeOK
<1>5. ASSUME loadFails \/ Crash \/ SyncSaveFails PROVE GitTypeOK'
  BY <1>4, <1>5 DEF loadFails, Crash, SyncSaveFails, GitTypeOK
<1>6. ASSUME Stop PROVE GitTypeOK'
  BY <1>4, <1>6 DEF Stop, GitTypeOK
<1>7. ASSUME loadState PROVE GitTypeOK'
  BY <1>7, WalkMeets DEF loadState, GitTypeOK, gateway
<1>8. ASSUME SyncFile PROVE GitTypeOK'
  <2>1. Head(todo) \in FileSet /\ Tail(todo) \in Seq(FileSet)
    BY <1>8, FileVisited DEF SyncFile, GitTypeOK
  <2>2. call' = <<>> \/ \E k \in Calls : call' = <<k>>
    BY <1>8, <2>1, ApplyFileCalls DEF SyncFile
  <2> QED BY <1>8, <2>1, <2>2 DEF SyncFile, GitTypeOK, gateway
<1>9. ASSUME SyncDone PROVE GitTypeOK'
  BY <1>9 DEF SyncDone, GitTypeOK, gateway
<1>10. ASSUME events # <<>> PROVE Head(events) \in Notices /\ Head(events).file \in FileSet /\ Tail(events) \in Seq(Notices)
  <2>1. Head(events) \in Notices /\ Tail(events) \in Seq(Notices)
    BY <1>10, NoticeTaken DEF GitTypeOK
  <2> QED BY <2>1 DEF Notices
<1>11. ASSUME Changed PROVE GitTypeOK'
  <2>1. call' = <<>> \/ \E k \in Calls : call' = <<k>>
    BY <1>10, <1>11, ApplyFileCalls DEF Changed
  <2> QED BY <1>10, <1>11, <2>1 DEF Changed, GitTypeOK, gateway
<1>12. ASSUME Removed PROVE GitTypeOK'
  <2>1. state' \in [FileSet -> Content] /\ saved' \in [FileSet -> Content]
    BY <1>10, <1>12 DEF Removed, GitTypeOK, Content
  <2> QED BY <1>10, <1>12, <2>1 DEF Removed, GitTypeOK, gateway
<1>13. ASSUME Applied PROVE GitTypeOK'
  <2>1. call[1].file \in FileSet /\ call[1].content \in Contents
    BY <1>13, CallIs DEF Applied
  <2>2. /\ state' \in [FileSet -> Content] /\ saved' \in [FileSet -> Content]
        /\ accepted' \in [FileSet -> Content] /\ tried' \in [FileSet -> Content] /\ unknown' \subseteq FileSet
    BY <1>13, <2>1 DEF Applied, GitTypeOK, Content
  <2> QED BY <1>13, <2>2 DEF Applied, GitTypeOK
<1>14. ASSUME NotApplied(state), UNCHANGED <<accepted, unknown>> \/
              (accepted' = [accepted EXCEPT ![call[1].file] = call[1].content]
               /\ unknown' = unknown \cup {call[1].file})
       PROVE  GitTypeOK'
  <2>1. call[1].file \in FileSet /\ call[1].content \in Contents
    BY <1>14, CallIs DEF NotApplied
  <2>2. tried' \in [FileSet -> Content] /\ accepted' \in [FileSet -> Content] /\ unknown' \subseteq FileSet
    BY <1>14, <2>1 DEF NotApplied, GitTypeOK, Content
  <2> QED BY <1>14, <2>2 DEF NotApplied, GitTypeOK
<1>15. ASSUME ApplyFailed \/ AnswerLost PROVE GitTypeOK'
  BY <1>14, <1>15 DEF ApplyFailed, AnswerLost
<1>16. ASSUME UNCHANGED gitVars PROVE GitTypeOK'
  BY <1>16 DEF GitTypeOK, gitVars
<1>17. ASSUME NEW f \in FileSet, Unread(f) PROVE tried' \in [FileSet -> Content]
  BY <1>17 DEF Unread, GitTypeOK
<1>18. ASSUME SyncUnread PROVE GitTypeOK'
  <2>1. Head(todo) \in FileSet /\ Tail(todo) \in Seq(FileSet)
    BY <1>18, FileVisited DEF SyncUnread, GitTypeOK
  <2>2. tried' \in [FileSet -> Content]
    BY <1>17, <1>18, <2>1 DEF SyncUnread
  <2> QED BY <1>18, <2>1, <2>2 DEF SyncUnread, GitTypeOK
<1>19. ASSUME ChangedUnread PROVE GitTypeOK'
  <2>1. tried' \in [FileSet -> Content]
    BY <1>10, <1>17, <1>19 DEF ChangedUnread
  <2> QED BY <1>10, <1>19, <2>1 DEF ChangedUnread, GitTypeOK
<1> QED BY <1>1, <1>2, <1>3, <1>5, <1>6, <1>7, <1>8, <1>9, <1>11, <1>12, <1>13, <1>15, <1>16, <1>18, <1>19 DEF GitNext, WatcherStep

LEMMA EarlyStep == GitTypeOK /\ NoneEarly /\ [GitNext]_gitVars => NoneEarly'
<1> SUFFICES ASSUME GitTypeOK, NoneEarly, [GitNext]_gitVars PROVE NoneEarly'
  OBVIOUS
<1>1. ASSUME NEW f, NEW c, Edit(f, c) PROVE NoneEarly'
  BY <1>1 DEF Edit, NoneEarly, process
<1>2. ASSUME Overflow \/ Cancel \/ Start PROVE NoneEarly'
  BY <1>2 DEF Overflow, Cancel, Start, NoneEarly, process
<1>3. ASSUME loadFails \/ Crash \/ SyncSaveFails \/ Stop PROVE NoneEarly'
  BY <1>3 DEF loadFails, Crash, SyncSaveFails, Stop, Stops, NoneEarly
<1>4. ASSUME loadState \/ SyncFile \/ SyncDone \/ Changed \/ Removed PROVE NoneEarly'
  BY <1>4 DEF loadState, SyncFile, SyncDone, Changed, Removed, NoneEarly
<1>5. ASSUME Applied \/ ApplyFailed \/ AnswerLost PROVE NoneEarly'
  BY <1>5 DEF Applied, ApplyFailed, AnswerLost, NotApplied, NoneEarly
<1>7. ASSUME SyncUnread \/ ChangedUnread PROVE NoneEarly'
  BY <1>7 DEF SyncUnread, ChangedUnread, NoneEarly
<1>6. ASSUME UNCHANGED gitVars PROVE NoneEarly'
  BY <1>6 DEF NoneEarly, gitVars
<1> QED BY <1>1, <1>2, <1>3, <1>4, <1>5, <1>6, <1>7 DEF GitNext, WatcherStep

(* Wherever the process ends, the state file agrees with the gateway or the file is
   among those of which it does not know. *)
LEMMA RecordStep == GitTypeOK /\ NoneEarly /\ RecordTrue /\ [GitNext]_gitVars => RecordTrue'
<1> SUFFICES ASSUME GitTypeOK, NoneEarly, RecordTrue, [GitNext]_gitVars PROVE RecordTrue'
  OBVIOUS
<1>1. ASSUME UNCHANGED <<phase, state, saved, accepted, unknown>> PROVE RecordTrue'
  BY <1>1 DEF RecordTrue, Agrees
<1>2. ASSUME NEW f, NEW c, Edit(f, c) PROVE RecordTrue'
  BY <1>1, <1>2 DEF Edit, process, gateway
<1>3. ASSUME Overflow \/ Cancel \/ SyncFile \/ Changed PROVE RecordTrue'
  BY <1>1, <1>3 DEF Overflow, Cancel, SyncFile, Changed, process, gateway
<1>4. ASSUME Start PROVE RecordTrue'
  <2>1. phase = "down" /\ phase' = "load" /\ state' = Empty /\ UNCHANGED <<saved, accepted, unknown>>
    BY <1>4 DEF Start, gateway
  <2> QED BY <2>1, EmptyRecord DEF RecordTrue, Agrees
<1>5. ASSUME NEW p \in {"down", "exited"}, Stops(p, saved'), UNCHANGED <<state, accepted>>, saved' = saved \/ saved' = state
      PROVE  RecordTrue'
  <2>1. \A f \in FileSet : saved'[f] # NoContent => accepted[f] # NoContent
    BY <1>5 DEF RecordTrue
  <2>2. unknown' = {f \in FileSet : accepted[f] # NoContent /\ saved'[f] # accepted[f]}
    BY <1>5 DEF Stops, Forgotten
  <2>3. Agrees(saved)'
    BY <1>5, <2>1, <2>2 DEF Agrees
  <2>4. phase' \notin {"sync", "watch", "load"}
    BY <1>5 DEF Stops
  <2> QED BY <1>5, <2>1, <2>3, <2>4 DEF RecordTrue
<1>6. ASSUME loadFails \/ Crash \/ SyncSaveFails PROVE RecordTrue'
  BY <1>5, <1>6 DEF loadFails, Crash, SyncSaveFails
<1>7. ASSUME Stop PROVE RecordTrue'
  BY <1>5, <1>7 DEF Stop
<1>8. ASSUME loadState PROVE RecordTrue'
  BY <1>8 DEF loadState, RecordTrue, Agrees, gateway
<1>9. ASSUME SyncDone PROVE RecordTrue'
  BY <1>9 DEF SyncDone, RecordTrue, Agrees, gateway
<1>10. ASSUME Removed PROVE RecordTrue'
  <2> DEFINE r == Head(events).file
             s == [state EXCEPT ![r] = NoContent]
  <2>1. phase = "watch" /\ phase' = "watch" /\ UNCHANGED <<accepted, unknown>> /\ state' = s /\ saved' \in {s, saved}
    BY <1>10 DEF Removed, gateway
  <2>2. \A f \in FileSet : s[f] = NoContent \/ s[f] = state[f]
    BY DEF GitTypeOK
  <2> HIDE DEF s
  <2> QED BY <2>1, <2>2 DEF RecordTrue, Agrees
<1>11. ASSUME Applied PROVE RecordTrue'
  <2> DEFINE g == call[1].file
             c == call[1].content
             s == [state EXCEPT ![g] = c]
  <2>1. g \in FileSet /\ c \in Contents /\ c # NoContent /\ call # <<>>
    BY <1>11, CallIs DEF Applied
  <2>2. phase \in {"sync", "watch"}
    BY <2>1 DEF NoneEarly, GitTypeOK
  <2>3. phase' = phase /\ accepted' = [accepted EXCEPT ![g] = c] /\ unknown' = unknown \ {g}
        /\ state' = s /\ saved' \in {s, saved}
    BY <1>11 DEF Applied
  <2> HIDE DEF g, c
  <2>4. s[g] = c /\ accepted'[g] = c /\ \A f \in FileSet : f # g => s[f] = state[f] /\ accepted'[f] = accepted[f]
    BY <2>1, <2>3 DEF GitTypeOK
  <2> HIDE DEF s
  <2>5. Agrees(state)'
    BY <2>1, <2>2, <2>3, <2>4 DEF RecordTrue, Agrees
  <2>6. ASSUME NEW f \in FileSet, saved'[f] # NoContent \/ s[f] # NoContent PROVE accepted'[f] # NoContent
    BY <2>1, <2>3, <2>4, <2>6 DEF RecordTrue
  <2> QED BY <2>2, <2>3, <2>5, <2>6 DEF RecordTrue
<1>12. ASSUME ApplyFailed PROVE RecordTrue'
  BY <1>1, <1>12 DEF ApplyFailed, NotApplied
<1>13. ASSUME AnswerLost PROVE RecordTrue'
  <2> DEFINE g == call[1].file
             c == call[1].content
  <2>1. g \in FileSet /\ c # NoContent /\ call # <<>>
    BY <1>13, CallIs DEF AnswerLost, NotApplied
  <2>2. phase \in {"sync", "watch"}
    BY <2>1 DEF NoneEarly, GitTypeOK
  <2>3. UNCHANGED <<phase, state, saved>> /\ accepted' = [accepted EXCEPT ![g] = c] /\ unknown' = unknown \cup {g}
    BY <1>13 DEF AnswerLost, NotApplied
  <2> HIDE DEF g, c
  <2>4. accepted'[g] = c /\ \A f \in FileSet : f # g => accepted'[f] = accepted[f]
    BY <2>1, <2>3 DEF GitTypeOK
  <2>5. Agrees(state)'
    BY <2>2, <2>3, <2>4 DEF RecordTrue, Agrees
  <2> QED BY <2>1, <2>2, <2>3, <2>4, <2>5 DEF RecordTrue
<1>14. ASSUME UNCHANGED gitVars PROVE RecordTrue'
  BY <1>1, <1>14 DEF gitVars
<1>15. ASSUME SyncUnread \/ ChangedUnread PROVE RecordTrue'
  BY <1>1, <1>15 DEF SyncUnread, ChangedUnread
<1> QED BY <1>2, <1>3, <1>4, <1>6, <1>7, <1>8, <1>9, <1>10, <1>11, <1>12, <1>13, <1>14, <1>15 DEF GitNext, WatcherStep

(* A manifest's content that is neither dealt with nor under way is in the queue: each
   step that takes a file or a notice off leaves its content applied, being applied, on
   record or failed, or leaves a later notice of it. *)
LEMMA LostStep == GitTypeOK /\ NoneEarly /\ NoneLost /\ [GitNext]_gitVars => NoneLost'
<1> SUFFICES ASSUME GitTypeOK, NoneEarly, NoneLost, [GitNext]_gitVars,
                    Running', ~overflowed', NEW f, f \in watched', disk'[f] # NoContent
             PROVE  Owed(f)' /\ StaleSeen(f)' /\ LastIsThere(events, f)'
  BY DEF NoneLost
<1> DEFINE Was == Owed(f) /\ StaleSeen(f) /\ LastIsThere(events, f)
           Is == Owed(f)' /\ StaleSeen(f)' /\ LastIsThere(events, f)'
<1>0. ASSUME Running, ~overflowed, f \in watched, disk[f] # NoContent PROVE Was
  BY <1>0 DEF NoneLost
<1>1. ASSUME NEW h \in FileSet, NEW c \in Content, Edit(h, c) PROVE Is
  <2> DEFINE n == [file |-> h, removed |-> c = NoContent]
  <2>1. Running /\ ~overflowed /\ f \in watched /\ disk' = [disk EXCEPT ![h] = c] /\ f \in FileSet
    BY <1>1 DEF Edit, process, Running, GitTypeOK
  <2>2. UNCHANGED <<phase, todo, call, tried, state>>
    BY <1>1 DEF Edit, process, gateway
  <2>3. n \in Notices /\ n.file = h /\ (c # NoContent => ~n.removed)
    BY DEF Notices
  <2>4. events' = Append(events, n) \/ (h # f /\ events' = events)
    BY <1>1, <2>1 DEF Edit
  <2>a. events \in Seq(Notices)
    BY DEF GitTypeOK
  <2> HIDE DEF n
  <2>5. CASE h = f
    <3>1. c # NoContent
      BY <2>1, <2>5 DEF GitTypeOK
    <3>2. Offers(events', f) /\ LastIsThere(events', f)
      <4>1. n.file = f /\ ~n.removed /\ events' = Append(events, n)
        BY <2>3, <2>4, <2>5, <3>1, Zenon
      <4>2. Offers(Append(events, n), f) /\ LastIsThere(Append(events, n), f)
        BY <2>3, <2>a, <4>1, NoticeAdded, Zenon
      <4> QED BY <4>1, <4>2
    <3> QED BY <3>2 DEF Owed, StaleSeen
  <2>6. CASE h # f
    <3>1. disk'[f] = disk[f]
      BY <2>1, <2>6 DEF GitTypeOK
    <3>2. Was
      BY <1>0, <2>1, <3>1
    <3>3. (Offers(events, f) => Offers(events', f)) /\ LastIsThere(events', f)
      <4>1. CASE events' = events
        BY <3>2, <4>1
      <4>2. CASE events' = Append(events, n)
        <5>1. n.file # f /\ LastIsThere(events, f)
          BY <2>3, <2>6, <3>2
        <5>2. (Offers(events, f) => Offers(Append(events, n), f)) /\ LastIsThere(Append(events, n), f)
          BY <2>3, <2>a, <5>1, NoticeAdded, Zenon
        <5> QED BY <4>2, <5>2
      <4> QED BY <2>4, <4>1, <4>2
    <3> QED BY <2>2, <3>1, <3>2, <3>3 DEF Owed, StaleSeen
  <2> QED BY <2>5, <2>6
<1>2. ASSUME Overflow PROVE Is
  BY <1>2 DEF Overflow
<1>3. ASSUME UNCHANGED <<disk, phase, watched, events, todo, state, call, tried, overflowed>> PROVE Is
  BY <1>0, <1>3 DEF Running, Owed, StaleSeen
<1>4. ASSUME Cancel \/ UNCHANGED gitVars PROVE Is
  BY <1>3, <1>4 DEF Cancel, gateway, gitVars
<1>5. ASSUME Start PROVE Is
  <2>1. phase' = "load" /\ events' = <<>> /\ call' = <<>>
    BY <1>5 DEF Start, NoneEarly
  <2> QED BY <2>1, NoNotice DEF Owed, StaleSeen
<1>6. ASSUME loadFails \/ Crash \/ SyncSaveFails \/ Stop PROVE Is
  BY <1>6 DEF loadFails, Crash, SyncSaveFails, Stop, Stops, Running
<1>7. ASSUME loadState PROVE Is
  <2>1. phase = "load" /\ phase' = "sync" /\ todo' = Present /\ UNCHANGED <<disk, events, call, watched, overflowed>>
    BY <1>7 DEF loadState
  <2>2. Was
    BY <1>0, <2>1 DEF Running
  <2>3. Awaits(Present, f)
    BY <2>1, WalkMeets DEF GitTypeOK
  <2> QED BY <2>1, <2>2, <2>3 DEF Owed, StaleSeen
<1>8. ASSUME SyncFile PROVE Is
  <2> DEFINE h == Head(todo)
  <2>1. phase = "sync" /\ call = <<>> /\ applyFile(h) /\ todo' = Tail(todo)
        /\ UNCHANGED <<disk, phase, watched, events, state, tried, overflowed>>
    BY <1>8 DEF SyncFile, gateway
  <2>2. Was
    BY <1>0, <2>1 DEF Running
  <2>3. h \in FileSet /\ (Awaits(todo, f) => f = h \/ Awaits(todo', f))
    BY <1>8, <2>1, FileVisited DEF SyncFile, GitTypeOK
  <2> HIDE DEF h
  <2>4. /\ disk[h] # NoContent /\ state[h] # disk[h] => call' # <<>>
        /\ call' # <<>> => call'[1].file = h /\ call'[1].content = disk[h]
    BY <2>1, <2>3, ApplyFileCalls
  <2> QED BY <2>1, <2>2, <2>3, <2>4 DEF Owed, StaleSeen
<1>9. ASSUME SyncDone PROVE Is
  <2>1. phase = "sync" /\ call = <<>> /\ todo = <<>>
        /\ UNCHANGED <<disk, watched, events, todo, state, call, tried, overflowed>>
    BY <1>9 DEF SyncDone, gateway
  <2>2. Was /\ ~Awaits(todo, f)
    BY <1>0, <2>1 DEF Running, Awaits
  <2> QED BY <2>1, <2>2 DEF Owed, StaleSeen
<1>10. ASSUME Changed PROVE Is
  <2> DEFINE h == Head(events).file
  <2>1. phase = "watch" /\ call = <<>> /\ applyFile(h) /\ events' = Tail(events) /\ events # <<>>
        /\ UNCHANGED <<disk, phase, watched, todo, state, tried, overflowed>>
    BY <1>10 DEF Changed, gateway
  <2>2. Was
    BY <1>0, <2>1 DEF Running
  <2>3. /\ h \in FileSet
        /\ Offers(events, f) /\ h # f => Offers(events', f)
        /\ LastIsThere(events', f)
    <3>1. events \in Seq(Notices)
      BY DEF GitTypeOK
    <3>2. Head(events) \in Notices
      BY <2>1, <3>1, NoticeTaken
    <3> QED BY <2>1, <2>2, <3>1, <3>2, NoticeTaken DEF Notices
  <2> HIDE DEF h
  <2>4. /\ disk[h] # NoContent /\ state[h] # disk[h] => call' # <<>>
        /\ call' # <<>> => call'[1].file = h /\ call'[1].content = disk[h]
    BY <2>1, <2>3, ApplyFileCalls
  <2>5. CASE h = f
    BY <2>1, <2>3, <2>4, <2>5 DEF Owed, StaleSeen
  <2>6. CASE h # f
    BY <2>1, <2>2, <2>3, <2>4, <2>6 DEF Owed, StaleSeen
  <2> QED BY <2>5, <2>6
<1>11. ASSUME Removed PROVE Is
  <2> DEFINE h == Head(events).file
  <2>1. phase = "watch" /\ call = <<>> /\ events' = Tail(events) /\ events # <<>> /\ Head(events).removed
        /\ UNCHANGED <<disk, phase, watched, todo, call, tried, overflowed>>
    BY <1>11 DEF Removed, gateway
  <2>2. Was
    BY <1>0, <2>1 DEF Running
  <2>3. state' = [state EXCEPT ![h] = NoContent]
    BY <1>11 DEF Removed
  <2>4. /\ Offers(events, f) => Offers(events', f)
        /\ h = f => Offers(events', f)
        /\ LastIsThere(events', f)
    <3>1. events \in Seq(Notices)
      BY DEF GitTypeOK
    <3> QED BY <2>1, <2>2, <3>1, NoticeTaken
  <2> HIDE DEF h
  <2>5. h # f => state'[f] = state[f]
    BY <2>1, <2>3 DEF GitTypeOK
  <2> QED BY <2>1, <2>2, <2>4, <2>5 DEF Owed, StaleSeen
<1>12. ASSUME call # <<>>, call' = <<>>, NEW h, h = call[1].file,
              \/ tried' = [tried EXCEPT ![h] = call[1].content] /\ state' = state
              \/ /\ tried' = [tried EXCEPT ![h] = NoContent]
                 /\ state' = [state EXCEPT ![h] = call[1].content],
              UNCHANGED <<disk, phase, watched, events, todo, overflowed>>
       PROVE  Is
  <2>1. Was /\ f \in FileSet
    BY <1>0, <1>12 DEF Running, GitTypeOK
  <2>2. phase # "load"
    BY <1>12 DEF NoneEarly
  <2>3. StaleSeen(f)' /\ LastIsThere(events, f)'
    BY <1>12, <2>1 DEF StaleSeen
  <2>4. CASE h # f
    <3>1. tried'[f] = tried[f] /\ state'[f] = state[f]
      BY <1>12, <2>1, <2>4 DEF GitTypeOK
    <3> QED BY <1>12, <2>1, <2>3, <2>4, <3>1 DEF Owed
  <2>5. CASE h = f /\ call[1].content = disk[f]
    <3>1. tried'[f] = disk[f] \/ state'[f] = disk[f]
      BY <1>12, <2>1, <2>5 DEF GitTypeOK
    <3> QED BY <1>12, <2>3, <3>1 DEF Owed
  <2>6. CASE h = f /\ call[1].content # disk[f]
    <3>1. Offers(events, f)
      BY <1>12, <2>1, <2>6 DEF StaleSeen
    <3> QED BY <1>12, <2>3, <3>1 DEF Owed
  <2> QED BY <2>4, <2>5, <2>6
<1>13. ASSUME Applied PROVE Is
  BY <1>12, <1>13 DEF Applied
<1>14. ASSUME ApplyFailed \/ AnswerLost PROVE Is
  BY <1>12, <1>14 DEF ApplyFailed, AnswerLost, NotApplied
<1>15. ASSUME NEW h \in FileSet, Unread(h), disk[f] # NoContent, f \in FileSet
       PROVE  tried'[f] = IF f = h THEN disk[f] ELSE tried[f]
  BY <1>15 DEF Unread, GitTypeOK
<1>16. ASSUME SyncUnread PROVE Is
  <2> DEFINE h == Head(todo)
  <2>1. phase = "sync" /\ call = <<>> /\ Unread(h) /\ todo' = Tail(todo)
        /\ UNCHANGED <<disk, phase, watched, events, state, call, overflowed>>
    BY <1>16 DEF SyncUnread
  <2>2. Was
    BY <1>0, <2>1 DEF Running
  <2>3. h \in FileSet /\ (Awaits(todo, f) => f = h \/ Awaits(todo', f)) /\ f \in FileSet
    BY <1>16, <2>1, FileVisited DEF SyncUnread, GitTypeOK
  <2> HIDE DEF h
  <2>4. tried'[f] = IF f = h THEN disk[f] ELSE tried[f]
    BY <1>15, <2>1, <2>3
  <2> QED BY <2>1, <2>2, <2>3, <2>4 DEF Owed, StaleSeen
<1>17. ASSUME ChangedUnread PROVE Is
  <2> DEFINE h == Head(events).file
  <2>1. phase = "watch" /\ call = <<>> /\ Unread(h) /\ events' = Tail(events) /\ events # <<>>
        /\ UNCHANGED <<disk, phase, watched, todo, state, call, overflowed>>
    BY <1>17 DEF ChangedUnread
  <2>2. Was
    BY <1>0, <2>1 DEF Running
  <2>3. /\ h \in FileSet /\ f \in FileSet
        /\ Offers(events, f) /\ h # f => Offers(events', f)
        /\ LastIsThere(events', f)
    <3>1. events \in Seq(Notices) /\ f \in FileSet
      BY <2>1 DEF GitTypeOK
    <3>2. Head(events) \in Notices
      BY <2>1, <3>1, NoticeTaken
    <3> QED BY <2>1, <2>2, <3>1, <3>2, NoticeTaken DEF Notices
  <2> HIDE DEF h
  <2>4. tried'[f] = IF f = h THEN disk[f] ELSE tried[f]
    BY <1>15, <2>1, <2>3
  <2>5. CASE h = f
    BY <2>1, <2>3, <2>4, <2>5 DEF Owed, StaleSeen
  <2>6. CASE h # f
    BY <2>1, <2>2, <2>3, <2>4, <2>6 DEF Owed, StaleSeen
  <2> QED BY <2>5, <2>6
<1> QED BY <1>1, <1>2, <1>4, <1>5, <1>6, <1>7, <1>8, <1>9, <1>10, <1>11, <1>13, <1>14, <1>16, <1>17
        DEF GitNext, WatcherStep, Content

(* When a watcher rests, each manifest it watches was applied as it is on disk or the
   last attempt to read or to apply it failed, and the gateway runs what the record says unless it took
   something the record never learnt of: for any number of files and edits, of crashes,
   restarts and lost answers. *)
THEOREM WatcherLosesNone == GitSpec => []FilesApplied
<1>1. GitInit => GitInv
  BY GitInitHolds
<1>2. GitInv /\ [GitNext]_gitVars => GitInv'
  BY GitTypeStep, EarlyStep, RecordStep, LostStep DEF GitInv
<1>3. GitInv => FilesApplied
  <2> SUFFICES ASSUME GitInv, AtRest, ~overflowed, NEW f \in watched, disk[f] # NoContent
               PROVE  tried[f] = disk[f] \/ (state[f] = disk[f] /\ (accepted[f] = disk[f] \/ f \in unknown))
    BY DEF FilesApplied
  <2>1. phase = "watch" /\ call = <<>> /\ events = <<>> /\ Running /\ f \in FileSet
    BY DEF AtRest, Running, GitInv, GitTypeOK
  <2>2. Owed(f)
    BY <2>1 DEF GitInv, NoneLost
  <2>3. tried[f] = disk[f] \/ state[f] = disk[f]
    BY <2>1, <2>2, NoNotice DEF Owed
  <2>4. Agrees(state)
    BY <2>1 DEF GitInv, RecordTrue
  <2> QED BY <2>1, <2>3, <2>4 DEF Agrees
<1> QED BY <1>1, <1>2, <1>3, PTL DEF GitSpec

=============================================================================
