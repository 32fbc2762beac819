------------------------------ MODULE CompilerCases ------------------------------
(***************************************************************************)
(* Requests to the compiler: every graph of three states with up to two    *)
(* transitions each, and a workflow of two states whose fields take every  *)
(* value that the parser, the builder and the validators tell apart.       *)
(***************************************************************************)
EXTENDS Sequences, TLC

\* WorkflowCompiler's names for a value that is not a string, for one that JSON
\* cannot express, and for no state.
NonString == <<"#">>
NaN == <<"nan">>
NoState == <<>>

A == <<"a">>
B == <<"b">>
C == <<"c">>
Unknown == <<"z">>

T(event, goto, guard) == [event |-> event, goto |-> goto, guard |-> guard, set |-> <<>>]
S(type, actions, on, outputs) == [type |-> type, actions |-> actions, on |-> on, outputs |-> outputs]

Manifest(ns, hint, initial, states) ==
    [syntax |-> "ok", kind |-> "Workflow", name |-> "w", namespace |-> ns, hint |-> hint,
     initial |-> initial, states |-> states]

Request(m) == [manifest |-> m, namespace |-> "team", cancelled |-> FALSE]

\* The graphs.
Ons == {<<>>} \cup {<<T("done", x, "")>> : x \in {A, B, C, Unknown}}
       \cup {<<T("done", p[1], ""), T("failed", p[2], "")>> : p \in {<<A, B>>, <<C, B>>, <<A, C>>}}

Nodes(types) == {S(t, <<>>, on, <<>>) : t \in types, on \in Ons}

Graphs ==
    {Manifest("", "", i, A :> x @@ B :> y @@ C :> z) :
        i \in {A, Unknown}, x \in Nodes({""}), y \in Nodes({"", "human_in_the_loop"}),
        z \in Nodes({"", "Terminal"})}

\* The fields: state a invokes a capability and goes on to the terminal b.
Ref(state, key) == <<"$", "states">> \o state \o <<"output">> \o key
Key(k, v) == <<k>> :> v

Capabilities == {[ns |-> n, name |-> c] : n \in {"", "team", "other", "Bad_NS"},
                                          c \in {"", "summarize", "zynax_x", "Bad"}}
Inputs == {<<>>, Key("i", <<"literal">>), Key("i", NonString), Key("i", NaN), Key("i", Ref(A, <<"k">>)),
           Key("i", Ref(A, <<"other">>)), Key("i", Ref(B, <<"k">>)), Key("i", Ref(A, <<"k", "x">>)),
           Key("i", Ref(A, <<"">>)), Key("i", <<"$", "states", "a", "k">>)}
Outs == {<<>>, Key("k", <<"result">>), Key("k", NonString), Key("k", <<"result">>) @@ <<"k", "x">> :> <<"result">>}
Ends == {<<>>, Key("r", Ref(A, <<"k">>)), Key("r", Ref(A, <<"other">>)), Key("r", <<"done">>), Key("r", NonString)}
Moves == {<<T("done", B, "")>>, <<T("", B, "")>>, <<T("done", NoState, "")>>, <<T("Bad Event", B, "")>>,
          <<T("done", B, ""), T("done", A, "")>>, <<T("done", B, "x"), T("done", A, "y")>>,
          <<[T("done", B, "") EXCEPT !.set = Key("v", NonString)]>>}

Act(c, t, i, o) == [capability |-> c, timeout |-> t, input |-> i, output |-> o]
Base == [ns |-> "", name |-> "summarize"]

Two(a, on, outsA, outsB) == A :> S("", <<a>>, on, outsA) @@ B :> S("TERMINAL", <<>>, <<>>, outsB)

Data == {Manifest("team", "", A, Two(Act(Base, t, i, o), <<T("done", B, "")>>, <<>>, e)) :
            t \in {"", "malformed"}, i \in Inputs, o \in Outs, e \in Ends}
Names == {Manifest(ns, hint, A, Two(Act(c, "5s", <<>>, <<>>), on, oa, <<>>)) :
            ns \in {"", "team", "Bad_NS"}, hint \in {"", "temporal", "argo"}, c \in Capabilities,
            on \in Moves, oa \in {<<>>, Key("r", <<"x">>)}}
Plain == Manifest("", "", A, Two(Act(Base, "", <<>>, <<>>), <<T("done", B, "")>>, <<>>, <<>>))
Tops == {[Plain EXCEPT !.syntax = x] : x \in {"none", "broken", "blank"}}
        \cup {[Plain EXCEPT !.kind = "Agent"], [Plain EXCEPT !.name = ""], [Plain EXCEPT !.initial = NoState],
              [Plain EXCEPT !.states = <<>>], [Plain EXCEPT !.states[A].type = "weird"]}

AllRequests == {Request(m) : m \in Graphs \cup Data \cup Names \cup Tops}
               \cup {[Request(Plain) EXCEPT !.cancelled = TRUE]}
AllPolicies == {[namespace |-> "", engines |-> {"argo"}], [namespace |-> "team", engines |-> {"argo"}]}

=============================================================================
