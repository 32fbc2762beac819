----------------------------- MODULE IRInterpreterMC -----------------------------
(* Workflows and capability answers for model checking the interpreter. *)
EXTENDS IRInterpreter

\* Values of a payload: two strings, a string too long for an output, a number
\* and an object.
MCStrings == {"x", "y", "long"}
MCScalars == MCStrings \cup {"7"}
MCSize == [v \in MCScalars |-> IF v = "long" THEN 3 ELSE 1]

Act(inputs, outs) == [async |-> FALSE, broken |-> FALSE, inputs |-> inputs, outputs |-> outs]
Async == [async |-> TRUE, broken |-> FALSE, inputs |-> NoBindings, outputs |-> NoBindings]
Broken == [async |-> FALSE, broken |-> TRUE, inputs |-> NoBindings, outputs |-> NoBindings]
On(event, target) == [event |-> event, conditions |-> {}, target |-> target]
OnIf(event, key, value, target) ==
    [event |-> event, conditions |-> {[key |-> key, value |-> value]}, target |-> target]
Step(type, actions, transitions) ==
    [type |-> type, actions |-> actions, transitions |-> transitions, outputs |-> NoBindings]
Final(outs) ==
    [type |-> "TERMINAL", actions |-> << >>, transitions |-> << >>, outputs |-> outs]

\* A draft is reviewed, sent back while changes are asked for, and approved by
\* a human. Two states publish under the same key, and the review's input has
\* the name of a payload key.
Review ==
    [initial |-> "draft",
     states |->
       [draft  |-> Step("NORMAL", <<Async, Act(NoBindings, [text |-> "a"])>>,
                        <<On("ok", "review"), On("again", "draft")>>),
        review |-> Step("NORMAL",
                        <<Act([text |-> Ref("draft", "text"), mode |-> Literal("x")],
                              [text |-> "a"])>>,
                        <<OnIf("ok", "text", "y", "human"), On("ok", "done"),
                          OnIf("again", "a", "x", "draft")>>),
        human  |-> Step("HUMAN_IN_THE_LOOP", << >>,
                        <<OnIf("approved", "a", "y", "draft"), On("approved", "done")>>),
        done   |-> Final([result |-> Ref("review", "text"), first |-> Ref("draft", "text")])]]

\* A broken template behind a loop, and an output that may not be there.
Broke ==
    [initial |-> "start",
     states |->
       [start |-> Step("NORMAL", <<Act(NoBindings, NoBindings)>>,
                       <<On("ok", "done"), On("again", "bad")>>),
        bad   |-> Step("NORMAL", <<Act(NoBindings, [text |-> "a"]), Broken>>, <<On("ok", "done")>>),
        done  |-> Final([result |-> Ref("bad", "text")])]]

\* A transition to a state that does not exist, and an input nobody publishes.
Dangling ==
    [initial |-> "start",
     states |->
       [start |-> Step("NORMAL", <<Act(NoBindings, NoBindings)>>,
                       <<On("ok", "nowhere"), On("again", "late")>>),
        late  |-> Step("NORMAL", <<Act([text |-> Ref("start", "text")], NoBindings)>>,
                       <<On("ok", "nowhere")>>)]]

MCIRs == {Review, Broke, Dangling}

MCResults ==
    [event : {"ok", "again"},
     payload : {<< >>, [a |-> "x"], [a |-> "y"], [a |-> "7"], [a |-> "object"], [a |-> "long"],
                [a |-> "x", text |-> "y"]}]

=============================================================================
