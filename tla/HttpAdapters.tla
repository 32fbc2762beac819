---------------------------- MODULE HttpAdapters ----------------------------
(***************************************************************************)
(* The adapters that turn a capability into HTTP requests: http (one       *)
(* request per call), git (open_pr, get_diff and the polling               *)
(* request_review) and ci (trigger_workflow and get_run_status, polling).  *)
(***************************************************************************)
EXTENDS AgentCall

CONSTANT MaxPollCycles   \* poll cycles of request_review

ASSUME HttpAdaptersAssumption == MaxPollCycles \in Nat

\* An answer of the upstream: success (a "hit" if it shows the reviewer, the run or
\* the end that a poll looks for), a status class, or an error of the transport;
\* the text of an error may be long and non-ASCII.
Answer == [kind : {"ok", "hit"}, text : {"plain"}]
          \cup [kind : {"403", "404", "422", "500", "net", "parse"}, text : {"plain", "wide"}]
HasAnswered == up \notin {Idle, Pending}
Success == up.kind \in {"ok", "hit"}

\* A request that fails, or is abandoned, because its context is over.
Cancelled == [kind |-> "net", text |-> "plain"]

Requesting == UNCHANGED <<call, peer, truth, prod, text>> /\ up' = Pending

-----------------------------------------------------------------------------
(* http.                                                                   *)

\* The payload is checked only if there is a schema and a payload.
validatePayload == ~(call.schema /\ call.payload \in {"malformed", "incomplete"})

\* NewRequestWithContext refuses a malformed URL; otherwise a goroutine sends it.
HttpExecute ==
    \/ /\ call.route = "bad"
       /\ sendFailed("UPSTREAM_ERROR", "plain")
       /\ UNCHANGED <<call, peer, up, loops, truth, prod, text>>
    \/ /\ call.route = "ok"
       /\ handler' = "select" /\ Requesting
       /\ UNCHANGED <<callCtx, sentEvents, rpc, loops>>

\* The answer is taken from the channel: an error, or headers whose body is read.
HttpResult ==
    \/ /\ up.kind = "net"
       /\ sendFailed(IF callCtx # "live" THEN "TIMEOUT" ELSE "UPSTREAM_ERROR", up.text)
       /\ UNCHANGED loops
    \/ /\ up.kind # "net"
       /\ handler' = "body"
       /\ UNCHANGED <<sentEvents, rpc, callCtx, loops>>

\* The body: a read error and a body beyond the limit fail, whatever the status.
HttpBody ==
    /\ handler = "body"
    /\ UNCHANGED <<call, peer, up, loops, truth, prod, text>>
    /\ \/ sendFailed("UPSTREAM_ERROR", "plain")
       \/ Success /\ sendCompleted

-----------------------------------------------------------------------------
(* git.                                                                    *)

\* parsePayload, and the fields each capability requires.
parsePayload == call.payload \notin {"none", "malformed"}
RequiredFields == parsePayload /\ call.payload # "incomplete"

githubErrCode(kind) ==
    CASE kind = "403" -> "RESOURCE_EXHAUSTED"
      [] kind = "404" -> "NOT_FOUND"
      [] kind = "422" -> "INVALID_INPUT"
      [] OTHER -> "UPSTREAM_ERROR"

\* A payload without a required field ends the call; otherwise the request starts.
InvalidInput(msgs) ==
    /\ ~RequiredFields
    /\ \E m \in msgs : sendFailed("INVALID_INPUT", m)
    /\ UNCHANGED <<call, peer, up, loops, truth, prod, text>>

SendRequest(at) ==
    /\ RequiredFields
    /\ handler' = at /\ Requesting
    /\ UNCHANGED <<callCtx, sentEvents, rpc, loops>>

openPR == InvalidInput({"plain", "wide"}) \/ SendRequest("select")
getDiff == InvalidInput({"plain", "wide"}) \/ SendRequest("select")
requestReview == InvalidInput({"plain", "wide"}) \/ SendRequest("review")

GitExecute ==
    \/ /\ call.cap \in {"gitlab", "other"}
       /\ sendFailed(IF call.cap = "gitlab" THEN "INTERNAL" ELSE "INVALID_INPUT", "plain")
       /\ UNCHANGED <<call, peer, up, loops, truth, prod, text>>
    \/ call.cap = "open_pr" /\ openPR
    \/ call.cap = "get_diff" /\ getDiff
    \/ call.cap = "request_review" /\ requestReview

\* openPR and getDiff take the answer from the channel.
GitResult ==
    /\ IF Success THEN sendCompleted ELSE sendFailed(githubErrCode(up.kind), up.text)
    /\ UNCHANGED loops

\* requestReview: the request for reviewers has answered.
ReviewRequested ==
    /\ handler = "review" /\ HasAnswered
    /\ up' = Idle
    /\ UNCHANGED <<call, peer, loops, truth, prod, text>>
    /\ \/ ~Success /\ sendFailed(githubErrCode(up.kind), up.text)
       \/ /\ Success
          /\ handler' = "cycle"
          /\ UNCHANGED <<callCtx, sentEvents, rpc>>

\* The top of a poll cycle; after the last one the request counts as confirmed.
ReviewCycle ==
    /\ handler = "cycle"
    /\ UNCHANGED <<call, peer, up, truth, prod, text>>
    /\ \/ /\ loops < MaxPollCycles
          /\ Emit(<<progressEvent>>, "reviewWait")
          /\ loops' = loops + 1
       \/ /\ loops = MaxPollCycles
          /\ sendCompleted
          /\ UNCHANGED loops

ReviewWait ==
    /\ handler = "reviewWait"
    /\ \/ /\ callCtx # "live"
          /\ sendFailed("TIMEOUT", "plain")
          /\ UNCHANGED <<call, peer, up, loops, truth, prod, text>>
       \/ /\ handler' = "reviewGet" /\ Requesting
          /\ UNCHANGED <<callCtx, sentEvents, rpc, loops>>

\* The pull request, with a wanted reviewer on it or not.
ReviewGot ==
    /\ handler = "reviewGet" /\ HasAnswered
    /\ up' = Idle
    /\ UNCHANGED <<call, peer, loops, truth, prod, text>>
    /\ \/ ~Success /\ sendFailed(githubErrCode(up.kind), up.text)
       \/ up.kind = "hit" /\ sendCompleted
       \/ /\ up.kind = "ok"
          /\ handler' = "cycle"
          /\ UNCHANGED <<callCtx, sentEvents, rpc>>

-----------------------------------------------------------------------------
(* ci.                                                                     *)

ciErrCode(kind) ==
    CASE kind = "403" -> "RESOURCE_EXHAUSTED"
      [] kind = "404" -> "NOT_FOUND"
      [] kind = "422" -> "INVALID_INPUT"
      [] OTHER -> "UPSTREAM_ERROR"

requestFailure(kind) == IF callCtx = "deadline" THEN "TIMEOUT" ELSE ciErrCode(kind)

triggerWorkflow == InvalidInput({"plain"}) \/ SendRequest("dispatch")

getRunStatus ==
    \/ InvalidInput({"plain"})
    \/ /\ RequiredFields
       /\ handler' = "statusWait"
       /\ UNCHANGED <<call, callCtx, peer, sentEvents, rpc, up, loops, truth, prod, text>>

CiExecute ==
    \/ /\ call.provider = "jenkins-stub" \/ call.cap = "other"
       /\ sendFailed(IF call.provider = "jenkins-stub" THEN "INTERNAL" ELSE "INVALID_INPUT", "plain")
       /\ UNCHANGED <<call, peer, up, loops, truth, prod, text>>
    \/ call.provider # "jenkins-stub" /\ call.cap = "trigger_workflow" /\ triggerWorkflow
    \/ call.provider # "jenkins-stub" /\ call.cap = "get_run_status" /\ getRunStatus

\* The workflow_dispatch event has been posted.
TriggerDispatched ==
    /\ handler = "dispatch" /\ HasAnswered
    /\ up' = Idle
    /\ UNCHANGED <<call, peer, loops, truth, prod, text>>
    /\ \/ ~Success /\ sendFailed(requestFailure(up.kind), up.text)
       \/ /\ Success
          /\ handler' = "triggerWait"
          /\ UNCHANGED <<callCtx, sentEvents, rpc>>

\* Between two looks at the runs: the trigger timeout may end the wait at any time.
TriggerWait ==
    /\ handler = "triggerWait"
    /\ \/ /\ sendFailed("TIMEOUT", "plain")
          /\ UNCHANGED <<call, peer, up, loops, truth, prod, text>>
       \/ /\ loops < MaxLoops
          /\ loops' = loops + 1
          /\ handler' = "find" /\ Requesting
          /\ UNCHANGED <<callCtx, sentEvents, rpc>>

\* The list of runs; a hit has one that is not older than the trigger.
findNewRun ==
    /\ handler = "find" /\ HasAnswered
    /\ up' = Idle
    /\ UNCHANGED <<call, peer, loops, truth, prod, text>>
    /\ \/ ~Success /\ sendFailed(requestFailure(up.kind), up.text)
       \/ up.kind = "hit" /\ sendCompleted
       \/ /\ up.kind = "ok"
          /\ handler' = "triggerWait"
          /\ UNCHANGED <<callCtx, sentEvents, rpc>>

\* pollLoop of get_run_status: the wait; the interval doubles up to its ceiling.
StatusWait ==
    /\ handler = "statusWait"
    /\ \/ /\ callCtx # "live"
          /\ sendFailed("TIMEOUT", "plain")
          /\ UNCHANGED <<call, peer, up, loops, truth, prod, text>>
       \/ /\ loops < MaxLoops
          /\ loops' = loops + 1
          /\ handler' = "status" /\ Requesting
          /\ UNCHANGED <<callCtx, sentEvents, rpc>>

\* One status: a completed run or a terminal conclusion ends the call.
pollLoop ==
    /\ handler = "status" /\ HasAnswered
    /\ up' = Idle
    /\ UNCHANGED <<call, peer, loops, truth, prod, text>>
    /\ \/ up.kind = "parse" /\ sendFailed("UPSTREAM_ERROR", "plain")
       \/ ~Success /\ up.kind # "parse" /\ sendFailed(requestFailure(up.kind), up.text)
       \/ up.kind = "hit" /\ sendCompleted
       \/ up.kind = "ok" /\ Emit(<<progressEvent>>, "statusWait")

-----------------------------------------------------------------------------
(* The select of http, open_pr and get_diff, and the upstream.             *)

SelectTick ==
    /\ handler = "select" /\ loops < MaxLoops
    /\ Emit(<<progressEvent>>, "select")
    /\ loops' = loops + 1
    /\ UNCHANGED <<call, peer, up, truth, prod, text>>

SelectResult ==
    /\ handler = "select" /\ HasAnswered
    /\ IF call.adapter = "http" THEN HttpResult ELSE GitResult
    /\ UNCHANGED <<call, peer, up, truth, prod, text>>

SelectDone ==
    /\ handler = "select" /\ callCtx # "live"
    /\ sendFailed("TIMEOUT", "plain")
    /\ UNCHANGED <<call, peer, up, loops, truth, prod, text>>

\* The upstream answers. It has done what was asked when it accepts the request
\* of the call, or reports the end of the run that is polled.
UpstreamAnswers ==
    /\ up = Pending /\ handler # "returned"
    /\ \E a \in Answer :
          /\ (a.kind = "hit") => (handler \in {"reviewGet", "find", "status"})
          /\ (a.kind = "parse") => (handler \in {"find", "status"})
          /\ up' = a
          /\ truth' = IF \/ a.kind = "ok" /\ handler \in {"select", "review", "dispatch"}
                         \/ a.kind = "hit" /\ handler = "status"
                      THEN "done" ELSE truth
    /\ UNCHANGED <<call, handler, callCtx, peer, sentEvents, rpc, loops, prod, text>>

\* The end of the context ends the request in flight.
UpstreamCancelled ==
    /\ up = Pending /\ callCtx # "live"
    /\ up' = Cancelled
    /\ UNCHANGED <<call, handler, callCtx, peer, sentEvents, rpc, loops, truth, prod, text>>

HttpHandlerStep ==
    \/ HttpBody
    \/ ReviewRequested \/ ReviewCycle \/ ReviewWait
    \/ ReviewGot \/ findNewRun \/ pollLoop
    \/ TriggerDispatched \/ TriggerWait \/ StatusWait
    \/ SelectResult \/ SelectDone

=============================================================================
