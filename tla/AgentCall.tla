------------------------------ MODULE AgentCall ------------------------------
(***************************************************************************)
(* One ExecuteCapability call of a capability adapter, as its caller sees  *)
(* it: the request, the context that bounds the call, the stream of        *)
(* TaskEvents and what the caller concludes from it. The callers are the   *)
(* task-broker's AgentExecutor and, for the git-adapter, the MCP shim,     *)
(* which collapses the stream into one tool result. The handlers of the    *)
(* adapters are in HttpAdapters and ModelAdapters.                         *)
(***************************************************************************)
EXTENDS Naturals, Sequences

CONSTANTS Calls,     \* the calls, see Call
          MaxLoops   \* bound on ticks, poll cycles and frames of a call

VARIABLES call,      \* the request, and the configuration that serves it
          handler,        \* where the handler is
          callCtx,       \* the context: "live", past its "deadline", or "cancelled"
          peer,      \* whether the caller still reads the stream
          sentEvents,    \* the events sent
          rpc,       \* how the RPC ended: "open", "ok", "error"; "other": no tool was called
          up,        \* the request to the upstream: Idle, Pending, or its answer
          loops,     \* loop iterations so far
          truth,     \* the upstream: has "done" what was asked, said that it "failed", or
                     \* was "cut" off before it said so; "none" before that
          prod,      \* the producer goroutine of the llm-adapter
          text       \* chunks of text [read by the producer, relayed]

callVars == <<call, handler, callCtx, peer, sentEvents, rpc, up, loops, truth, prod, text>>

Idle == [kind |-> "idle", text |-> "plain"]
Pending == [kind |-> "pending", text |-> "plain"]

Adapters == {"http", "git", "ci", "llm", "adk"}

\* line: the JSON-RPC line of an MCP client; cap, task, payload, timeout: the
\* request; schema, capTimeout, route,
\* provider, outSchema, outKey: the capability's entry in the adapter's config.
Call == [adapter : Adapters, client : {"broker", "mcp"}, line : STRING, cap : STRING, task : BOOLEAN,
         payload : {"none", "malformed", "incomplete", "ok"}, timeout : {0, 1},
         schema : BOOLEAN, capTimeout : {0, 1}, route : {"ok", "bad"}, provider : STRING,
         outSchema : BOOLEAN, outKey : BOOLEAN]

ASSUME AgentCallAssumption == Calls \subseteq Call /\ MaxLoops \in Nat

\* The routers that the adapters build from the capabilities of their config.
httpRoutes == {"route"}
gitCaps == {"open_pr", "request_review", "get_diff", "gitlab", "other"}
ciCaps == {"trigger_workflow", "get_run_status", "other"}
llmRouter == {"chat"}
adkCaps == {"chat"}
Router == [http |-> httpRoutes, git |-> gitCaps, ci |-> ciCaps, llm |-> llmRouter, adk |-> adkCaps]

\* Only the adk-adapter falls back to the timeout of the capability's config. The
\* MCP shim sets no timeout, and its context has no deadline.
resolveTimeout(reqSecs, cfgSecs) == IF reqSecs > 0 THEN reqSecs ELSE cfgSecs

HasDeadline ==
    /\ call.client = "broker"
    /\ IF call.adapter = "adk" THEN resolveTimeout(call.timeout, call.capTimeout) > 0 ELSE call.timeout > 0

-----------------------------------------------------------------------------
(* Events. Messages are cut at 512: by runes in the llm- and adk-adapter, by *)
(* bytes in the others, where the cut may leave a string that proto3 cannot  *)
(* encode, so that Send fails.                                               *)

progressEvent == [type |-> "PROGRESS", code |-> "", text |-> "plain"]
completedEvent == [type |-> "COMPLETED", code |-> "", text |-> "plain"]
failedEvent(code, msg) == [type |-> "FAILED", code |-> code, text |-> msg]

sanitise(msg) == IF msg = "wide" THEN "split" ELSE msg
boundMessage(msg) == "plain"
Bounded(msg) == IF call.adapter \in {"llm", "adk"} THEN boundMessage(msg) ELSE sanitise(msg)

Terminal == {"COMPLETED", "FAILED"}
Encodes(es) == \A i \in DOMAIN es : es[i].text # "split"

\* Send of the gRPC stream, and of the MCP shim's sink, which encodes nothing.
Delivers(es) == peer /\ (call.client = "mcp" \/ Encodes(es))

\* When the handler returns, the call's context ends.
Returned(how) ==
    /\ handler' = "returned"
    /\ rpc' = how
    /\ callCtx' = IF callCtx = "live" THEN "cancelled" ELSE callCtx

\* Send es and go on at next; an error of Send ends the RPC with it.
Emit(es, next) ==
    IF Delivers(es)
    THEN /\ sentEvents' = sentEvents \o es
         /\ handler' = next
         /\ UNCHANGED <<rpc, callCtx>>
    ELSE UNCHANGED sentEvents /\ Returned("error")

\* return stream.Send(...): the last events of the call.
Finish(es) ==
    IF Delivers(es)
    THEN sentEvents' = sentEvents \o es /\ Returned("ok")
    ELSE UNCHANGED sentEvents /\ Returned("error")

sendFailed(code, msg) == Finish(<<failedEvent(code, Bounded(msg))>>)
sendCompleted == Finish(<<completedEvent>>)

-----------------------------------------------------------------------------
(* The context and the caller.                                             *)

Deadline ==
    /\ handler # "returned" /\ callCtx = "live" /\ HasDeadline
    /\ callCtx' = "deadline"
    /\ UNCHANGED <<call, handler, peer, sentEvents, rpc, up, loops, truth, prod, text>>

\* The connection breaks or the broker's process ends: the context is cancelled.
Disconnect ==
    /\ handler # "returned" /\ peer /\ call.client = "broker"
    /\ peer' = FALSE
    /\ callCtx' = IF callCtx = "live" THEN "cancelled" ELSE callCtx
    /\ UNCHANGED <<call, handler, sentEvents, rpc, up, loops, truth, prod, text>>

\* What Execute of the broker's AgentExecutor returns: the first terminal event
\* decides; the end of the stream without one is no error.
ExecutorVerdict ==
    LET ends == {i \in DOMAIN sentEvents : sentEvents[i].type \in Terminal}
    IN  CASE ends # {} -> sentEvents[CHOOSE i \in ends : \A j \in ends : i <= j].type
          [] ends = {} /\ rpc = "ok" -> "COMPLETED"
          [] ends = {} /\ rpc = "error" -> "FAILED"
          [] OTHER -> "none"

\* The tool result of the MCP shim: an error of the handler is an error response;
\* the sink keeps the last terminal event, and none is a result with isError.
SinkResult ==
    LET ends == {i \in DOMAIN sentEvents : sentEvents[i].type \in Terminal}
    IN  CASE rpc \in {"open", "other"} -> "none"
          [] rpc = "error" \/ ends = {} -> "FAILED"
          [] OTHER -> sentEvents[CHOOSE i \in ends : \A j \in ends : i >= j].type

Verdict == IF call.client = "mcp" THEN SinkResult ELSE ExecutorVerdict

=============================================================================
