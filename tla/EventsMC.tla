-------------------------------- MODULE EventsMC --------------------------------
(***************************************************************************)
(* Three uses of zynaxevents side by side: a follower of the logs of one   *)
(* run, the dead-letter forwarders, and publishers and subscribers that    *)
(* create the streams of the platform. They share no state; part says      *)
(* which of them a behaviour is about.                                     *)
(***************************************************************************)
EXTENDS LogFollow, DeadLetters, EventStreams

VARIABLE part

\* The subjects of the task-broker and of the engine-adapter, a short one and one that is
\* reserved, and the patterns of their followers; two ids that get the same durable name.
\* Another entity gets the stream name of the task-broker's, below its prefix and bare.
Task == <<<<"zynax">>, <<"v1">>, <<"task", "-", "broker">>, <<"task">>>>
Twin == <<<<"zynax">>, <<"v1">>, <<"task">>, <<"broker", "-", "Task">>>>
Workflow == <<<<"zynax">>, <<"v1">>, <<"engine", "-", "adapter">>, <<"workflow">>>>

MCToUpper(c) == IF c \in {"task", "Task"} THEN "TASK" ELSE c
MCEventTypes == {Task \o <<<<"completed">>>>, Twin \o <<<<"completed">>>>, Twin, Workflow \o <<<<"completed">>>>,
                 Workflow \o <<<<"state">>, <<"entered">>>>, <<<<"zynax">>, <<"v1">>>>,
                 <<<<"zynax">>, <<"dlq">>, <<"v1">>, <<"task">>, <<"dead">>>>}
MCPatterns == {Task \o <<<<"**">>>>, Workflow \o <<<<"*">>>>,
               Workflow \o <<<<"**">>, <<"entered">>>>, <<<<"zynax">>, <<"v1">>, <<"**">>>>}
MCSubscriberIds == {<<"g", ".", "1">>, <<"g", "_", "1">>, <<"g", "2">>}

S(e, sc, script, n) == [engine |-> e, scoped |-> sc, script |-> script, events |-> n]

\* An undecodable message; a terminal event, in a scoped subscription and, with an
\* event after it, in one that follows every workflow; a long run; an Argo run,
\* whose phases are polled.
MCScenarios ==
    {S("temporal", TRUE, <<"bad", "own">>, 2),
     S("temporal", TRUE, <<"own", "terminal">>, 2),
     S("temporal", FALSE, <<"terminal", "own">>, 2),
     S("temporal", TRUE, <<"other">>, 3),
     S("argo", TRUE, <<"own">>, 3)}

MCInit ==
    /\ part \in {"logs", "deadletters", "streams"}
    /\ Init
    /\ DeadLettersInit
    /\ StreamsInit
    /\ (part # "logs") => (scenario = CHOOSE s \in Scenarios : TRUE) /\ (hist = <<>>)

MCNext ==
    \/ part = "logs" /\ Next /\ UNCHANGED <<part, deadVars, streamVars>>
    \/ part = "deadletters" /\ DeadLettersNext /\ UNCHANGED <<part, vars, streamVars>>
    \/ part = "streams" /\ StreamsNext /\ UNCHANGED <<part, vars, deadVars>>

MCSpec ==
    /\ MCInit /\ [][MCNext]_<<part, vars, deadVars, streamVars>>
    /\ WF_vars(part = "logs" /\ SubStep)
    /\ WF_vars(part = "logs" /\ AppStep)
    /\ WF_vars(part = "logs" /\ HandlerStep)

\* LogFollow!LogsEnd, in the behaviours that are about the logs.
LogsOfRunEnd == (part = "logs") => LogsEnd

=============================================================================
