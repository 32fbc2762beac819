------------------------------ MODULE GatewayREST ------------------------------
(***************************************************************************)
(* The api-gateway's REST interface: the status code each request is       *)
(* answered with, from what engine, compiler or event stream answered.     *)
(* Errors are named after the error values and gRPC codes of the source.   *)
(***************************************************************************)
EXTENDS Naturals

\* What a call of an engine comes back with.
EngineErrors == {"ErrExecutionNotFound", "ErrTerminalState", "ErrEngineUnavailable", "Canceled",
                 "DeadlineExceeded", "error"}
EngineAnswers == {"ok"} \cup EngineErrors

\* engine-adapter: the error of the engine as a gRPC code.
grpcErr(e) ==
    CASE e = "ok" -> "OK"
      [] e = "ErrExecutionNotFound" -> "NotFound"
      [] e = "ErrTerminalState" -> "FailedPrecondition"
      [] e = "ErrEngineUnavailable" -> "Unavailable"
      [] e \in {"Canceled", "DeadlineExceeded"} -> e
      [] OTHER -> "Internal"

\* api-gateway: the code as an error of its domain; most are not told apart.
mapEngineGRPCError(code) ==
    CASE code = "OK" -> "ok"
      [] code = "NotFound" -> "ErrNotFound"
      [] code = "Unavailable" -> "ErrEngineUnavailable"
      [] OTHER -> "error"

Engine(answer) == mapEngineGRPCError(grpcErr(answer))

\* A manifest the compiler refuses is a result; any other code is an error.
mapCompilerGRPCError(code) ==
    CASE code = "OK" -> "ok"
      [] code = "InvalidArgument" -> "ErrCompilationFailed"
      [] OTHER -> "error"

-----------------------------------------------------------------------------
(* Requests. A body is [size, parses, kind].                               *)

maxBodyBytes == 2^20
readBody(body) == body.size <= maxBodyBytes

\* The allowlist; every other kind, none included, is refused.
DetectKind(body) ==
    CASE ~body.parses -> "yaml"
      [] body.parses /\ body.kind = "Workflow" -> "Workflow"
      [] OTHER -> "ErrUnknownKind"

\* err: of compilation, look-up or submission, "ok" when there was none.
applyWorkflow(err, dryRun) ==
    CASE err = "ErrCompilationFailed" -> 422
      [] err = "ErrEngineUnavailable" -> 503
      [] err = "ok" -> IF dryRun THEN 200 ELSE 202
      [] OTHER -> 500

handleApply(body, err, dryRun) ==
    CASE ~readBody(body) -> 413
      [] readBody(body) /\ DetectKind(body) # "Workflow" -> 400
      [] OTHER -> applyWorkflow(err, dryRun)

\* GET of a run, of its outputs, DELETE: unavailable is as good as any other error.
answerAbout(answer, ok) ==
    CASE Engine(answer) = "ok" -> ok
      [] Engine(answer) = "ErrNotFound" -> 404
      [] OTHER -> 500

handleGetWorkflow(answer) == answerAbout(answer, 200)
handleWorkflowOutputs(answer) == answerAbout(answer, 200)
handleDeleteWorkflow(answer) == answerAbout(answer, 204)

\* Nobody asks whether there is such a run. An event is [parses, type, size].
PublishedEvent(event, bus) ==
    CASE event.type = "" -> "ErrInvalidEvent"
      [] event.type # "" /\ bus = "none" -> "ErrEngineUnavailable"
      [] OTHER -> bus

handlePublishEvent(event, bus) ==
    CASE event.size > maxBodyBytes -> 413
      [] event.size <= maxBodyBytes /\ ~event.parses -> 400
      [] OTHER -> LET err == PublishedEvent(event, bus)
                  IN  CASE err = "ok" -> 202
                        [] err = "ErrInvalidEvent" -> 400
                        [] err = "ErrEngineUnavailable" -> 503
                        [] OTHER -> 500

=============================================================================
