---------------------------- MODULE AgentAdapters ----------------------------
(***************************************************************************)
(* The AgentService of the five capability adapters.                       *)
(***************************************************************************)
EXTENDS HttpAdapters, ModelAdapters

-----------------------------------------------------------------------------
AdaptersInit ==
    /\ call \in Calls
    /\ handler = (IF call.client = "mcp" THEN "line" ELSE "start") /\ callCtx = "live" /\ peer = TRUE
    /\ sentEvents = <<>> /\ rpc = "open"
    /\ up = Idle /\ loops = 0 /\ truth = "none"
    /\ prod = "none" /\ text = [read |-> 0, relayed |-> 0]

\* Serve of the MCP shim takes one line, and dispatch routes it: a line that does
\* not parse or has the wrong version or an unknown method is an error response;
\* initialize, tools/list and notifications call no tool. tools/call needs params
\* and a name in the allow-list; it sets a task id, and {} for missing arguments.
allowed(name) == name \in gitCaps

handleToolsCall ==
    IF call.line = "params" \/ call.cap = "" \/ ~allowed(call.cap)
    THEN Returned("error") /\ UNCHANGED call
    ELSE /\ handler' = "start"
         /\ call' = [call EXCEPT !.task = TRUE,
                                 !.payload = IF @ = "none" THEN "incomplete" ELSE @]
         /\ UNCHANGED <<rpc, callCtx>>

dispatch ==
    /\ handler = "line"
    /\ \/ call.line \in {"garbled", "version", "unknown"} /\ Returned("error") /\ UNCHANGED call
       \/ call.line \in {"initialize", "list", "notification"} /\ Returned("other") /\ UNCHANGED call
       \/ call.line \in {"call", "params"} /\ handleToolsCall
    /\ UNCHANGED <<peer, sentEvents, up, loops, truth, prod, text>>

Refuse == Returned("error") /\ UNCHANGED <<call, peer, sentEvents, up, loops, truth, prod, text>>
FailedEvent(msg) ==
    sendFailed("INVALID_INPUT", msg) /\ UNCHANGED <<call, peer, up, loops, truth, prod, text>>

\* ExecuteCapability of each server: task_id and capability_name are required; an
\* unknown capability is a FAILED event, in the llm-adapter an error of the RPC.
Required == call.task /\ call.cap # ""
Known == Required /\ call.cap \in Router[call.adapter]
Checked == (~Required /\ Refuse) \/ (Required /\ ~Known /\ FailedEvent("plain"))

ExecuteHttp ==
    \/ Checked
    \/ Known /\ ~validatePayload /\ FailedEvent("wide")
    \/ Known /\ validatePayload /\ HttpExecute
ExecuteGit == Checked \/ (Known /\ GitExecute)
ExecuteCi == Checked \/ (Known /\ CiExecute)
ExecuteLlm == (~Known /\ Refuse) \/ (Known /\ LlmExecute)
ExecuteAdk == Checked \/ (Known /\ AdkExecute)

ExecuteCapability ==
    /\ handler = "start"
    /\ \/ call.adapter = "http" /\ ExecuteHttp
       \/ call.adapter = "git" /\ ExecuteGit
       \/ call.adapter = "ci" /\ ExecuteCi
       \/ call.adapter = "llm" /\ ExecuteLlm
       \/ call.adapter = "adk" /\ ExecuteAdk

AdaptersNext ==
    \/ dispatch \/ ExecuteCapability
    \/ Deadline \/ Disconnect
    \/ HttpHandlerStep \/ SelectTick \/ UpstreamAnswers \/ UpstreamCancelled
    \/ ModelHandlerStep \/ ProducerStep \/ ProducerReads \/ streamChat

\* Where the handler reads from the upstream in its own goroutine.
Reading == handler \in {"body", "converse", "generate", "bridge"}

\* The handler runs, a context with a deadline expires, and requests and reads end
\* with their context. Upstreams need not answer.
HandlerRuns ==
    \/ dispatch \/ ExecuteCapability
    \/ (~Reading \/ callCtx # "live") /\ (HttpHandlerStep \/ ModelHandlerStep)

ContextEnds == Deadline \/ (callCtx # "live" /\ (UpstreamCancelled \/ ProducerStep))

AdaptersSpec ==
    /\ AdaptersInit /\ [][AdaptersNext]_callVars
    /\ WF_callVars(HandlerRuns)
    /\ WF_callVars(ContextEnds)

-----------------------------------------------------------------------------
(* Properties.                                                             *)

\* The upstream failures that a streaming adapter does not notice: an error object
\* among the frames of openai or ollama, although the llm-adapter's provider
\* package says that upstream failures surface as a chunk with an error; and the
\* end of the body before the end of the generation.
Unnoticed ==
    \/ truth = "failed" /\ call.adapter = "llm" /\ call.provider \in {"openai", "ollama"}
    \/ truth = "cut" /\ call.adapter \in {"llm", "adk"}

\* What the caller concludes is what happened: the broker and the MCP shim take a
\* call for completed only if the upstream has done what was asked, but for the
\* two failures of a stream that the model adapters do not notice, and every chunk
\* of a model's answer that was read has been relayed. The broker takes
\* the bare end of a stream for success, so an RPC that ends without error has
\* sent exactly one terminal event, and nothing after it.
VerdictIsTrue ==
    /\ (Verdict = "COMPLETED") => ((truth = "done" \/ Unnoticed) /\ text.relayed = text.read)
    /\ (rpc = "ok") =>
          /\ sentEvents # <<>> /\ sentEvents[Len(sentEvents)].type \in Terminal
          /\ \A i \in 1 .. Len(sentEvents) - 1 : sentEvents[i].type \notin Terminal

\* The goroutines of a call: the request in flight and the producer. A producer
\* with an error chunk waits for the relay, which is gone once it could not send a
\* chunk to the caller.
Quiet == up # Pending /\ (prod \in {"none", "closed"} \/ (prod = "sendErr" /\ ~peer))

\* A call with a deadline returns, and leaves no goroutine behind but, when its
\* caller left, a producer that has an error to hand over: sendErr waits for ever,
\* although its comment says that it cannot deadlock.
CallEnds == HasDeadline ~> (handler = "returned" /\ Quiet)

=============================================================================
