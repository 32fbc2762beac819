-------------------------------- MODULE GatewayMC --------------------------------
(***************************************************************************)
(* The gateway's apply and Workflow reconciler, and its two command-line   *)
(* clients: the zynax CLI and the gitops watcher. The clients see another  *)
(* side of the gateway than WorkflowApply does, and share no state with    *)
(* it; part says which of the three a behaviour is about.                  *)
(***************************************************************************)
EXTENDS WorkflowApply, ZynaxCLI, GitopsWatcher

VARIABLE part

---------------------------------------------------------------------------
(* The CLI. One shell works on scenarios of every kind, another applies the *)
(* good one and follows the run it started; or both apply one workflow, and *)
(* a third command asks for it.                                             *)

AMember(id, kind) ==
    [id |-> id, kind |-> kind, file |-> "ok", refs |-> {}, schema |-> TRUE, flow |-> TRUE]
ASource(key, length) == [key |-> key, file |-> "ok", length |-> length]

Plain == AMember("v", "Workflow")
Bound == [AMember("w", "Workflow") EXCEPT !.refs = {"notes"}]

\* The sources are longer than the budget of one token: the first is cut.
ContextSlice ==
    [fields |-> {"sources", "max_tokens"}, overflow |-> "", maxTokens |-> 1,
     sources |-> <<ASource("old", 3), ASource("notes", 3), ASource("new", 2)>>]

Good == [schema |-> TRUE, members |-> <<Plain, Bound>>, order |-> <<"v", "w">>,
         context |-> <<ContextSlice>>]

Flawed ==
    {[Good EXCEPT !.context = <<>>],
     [Good EXCEPT !.members = <<AMember("a", "AgentDef"), Plain>>, !.order = <<"v", "a">>],
     [Good EXCEPT !.order = <<"v", "v">>],
     [Good EXCEPT !.context[1].fields = @ \cup {"model"}],
     [Good EXCEPT !.context[1].overflow = "error"],
     [Good EXCEPT !.members[2].file = "missing"]}

\* One workflow.
Single == [Good EXCEPT !.members = <<Plain>>, !.order = <<"v">>, !.context = <<>>]

MCShells == {"author", "operator"}
MCMenu == [author |-> {"validate", "apply", "crd", "doctor"},
           operator |-> {"apply", "result", "logs", "status", "get", "delete", "publish"}]
MCScenarios == [author |-> {Good, Single} \cup Flawed, operator |-> {Good, Single}]
MCPlatforms == {[cluster |-> TRUE, release |-> "deployed", ready |-> <<1, 1, 1, r>>,
                 want |-> <<1, 1, 1, 1>>, health |-> TRUE, model |-> FALSE] : r \in 0..1}

---------------------------------------------------------------------------
(* The watcher: a manifest, and another in a subdirectory that may come late. *)

MCFiles == <<"f1", "f2">>

---------------------------------------------------------------------------
MCInit ==
    /\ part \in {"apply", "cli", "rerun", "gitops"}
    /\ IF part = "apply" THEN TRUE ELSE engine = CHOOSE e \in Engines : TRUE
    /\ IF part = "gitops" THEN TRUE ELSE disk = [f \in {"f1", "f2"} |-> NoContent]
    /\ Init /\ CliInit /\ GitInit
    /\ (part # "apply") => \A g \in DOMAIN specs : specs[g] \notin Broken

\* The resource is changed a second time in the first second only.
ApplyNext ==
    /\ Next
    /\ clock' # clock \/ (cr' # cr /\ rec' = rec) => clock' = 1 \/ cr'.version <= 2

\* The commands that two shells type when the first applies a workflow, or follows it.
Rerun == [author |-> {"apply"}, operator |-> {"apply", "result", "status"}]
RerunNext ==
    /\ CliNext
    /\ \A x \in Shells : (shell[x] = <<>> /\ shell'[x] # <<>>) =>
          /\ shell'[x][1].name \in Rerun[x] /\ ~shell'[x][1].dryRun
          /\ shell'[x][1].scenario \in {<<>>, <<Single>>}

MCNext ==
    \/ part = "apply" /\ ApplyNext /\ UNCHANGED <<part, cliVars, gitVars>>
    \/ part = "cli" /\ CliNext /\ commands' <= 2 /\ UNCHANGED <<part, vars, gitVars>>
    \/ part = "rerun" /\ RerunNext /\ UNCHANGED <<part, vars, gitVars>>
    \/ part = "gitops" /\ GitNext /\ UNCHANGED <<part, vars, cliVars>>

MCSpec ==
    /\ MCInit /\ [][MCNext]_<<part, vars, cliVars, gitVars>>
    /\ WF_vars(part = "apply" /\ CacheSync)
    /\ WF_vars(part = "apply" /\ RecStep)
    /\ WF_gitVars(part = "gitops" /\ WatcherStep)

\* WorkflowApply!Converges, in the behaviours that are about the reconciler.
ReconcilerConverges == (part = "apply") => Converges

=============================================================================
