---------------------------- MODULE ModelAdapters ----------------------------
(***************************************************************************)
(* The adapters that stream the answer of a language model. In the         *)
(* llm-adapter a provider's goroutine, the producer, reads the upstream    *)
(* stream and hands chunks to the relay over an unbuffered channel; in the *)
(* adk-adapter the ADK runner pulls the model's stream in the handler's    *)
(* own goroutine.                                                          *)
(***************************************************************************)
EXTENDS AgentCall

Emitted == sentEvents # <<>>
Chunk == text.read < MaxLoops

\* A leading PROGRESS, then the terminal event.
ensureProgress(e) == IF Emitted THEN <<e>> ELSE <<progressEvent, e>>

-----------------------------------------------------------------------------
(* The llm-adapter: the handler.                                           *)

\* The payload must be JSON, satisfy the schema and have a prompt.
parseInput == call.payload = "ok"

terminalTimeout == Finish(ensureProgress(failedEvent("TIMEOUT", "plain")))

terminalForError ==
    IF callCtx # "live" THEN terminalTimeout
    ELSE Finish(ensureProgress(failedEvent("UPSTREAM_ERROR", boundMessage("wide"))))

\* Stream of the openai and ollama providers builds the request, which fails on a
\* malformed URL, and starts the producer; Stream of bedrock waits for
\* ConverseStream first.
openaiStream == call.route = "ok"
ollamaStream == call.route = "ok"
Streams == IF call.provider = "openai" THEN openaiStream ELSE ollamaStream

LlmExecute ==
    \/ /\ ~parseInput
       /\ sendFailed("INVALID_INPUT", "plain")
       /\ UNCHANGED <<call, peer, up, loops, truth, prod, text>>
    \/ /\ parseInput /\ call.provider # "bedrock" /\ ~Streams
       /\ terminalForError
       /\ UNCHANGED <<call, peer, up, loops, truth, prod, text>>
    \/ /\ parseInput /\ call.provider # "bedrock" /\ Streams
       /\ handler' = "relay" /\ prod' = "request"
       /\ UNCHANGED <<call, callCtx, peer, sentEvents, rpc, up, loops, truth, text>>
    \/ /\ parseInput /\ call.provider = "bedrock"
       /\ handler' = "converse"
       /\ UNCHANGED <<call, callCtx, peer, sentEvents, rpc, up, loops, truth, prod, text>>

BedrockStream ==
    /\ handler = "converse"
    /\ \/ /\ terminalForError
          /\ UNCHANGED <<call, peer, up, loops, truth, prod, text>>
       \/ /\ callCtx = "live"
          /\ handler' = "relay" /\ prod' = "reading"
          /\ UNCHANGED <<call, callCtx, peer, sentEvents, rpc, up, loops, truth, text>>

\* A chunk is handed over: one PROGRESS.
RelayChunk ==
    /\ handler = "relay" /\ prod \in {"sending", "sendingLast"}
    /\ prod' = IF prod = "sending" THEN "reading" ELSE "closed"
    /\ text' = [text EXCEPT !.relayed = @ + 1]
    /\ truth' = IF prod = "sendingLast" /\ truth # "failed" THEN "done" ELSE truth
    /\ Emit(<<progressEvent>>, "relay")
    /\ UNCHANGED <<call, peer, up, loops>>

\* The error chunk is handed over, and the producer closes the channel.
RelayError ==
    /\ handler = "relay" /\ prod = "sendErr"
    /\ prod' = "closed"
    /\ terminalForError
    /\ UNCHANGED <<call, peer, up, loops, truth, text>>

\* Mutant: the relay does not look at its context.
RelayClosedBlindly ==
    /\ handler = "relay" /\ prod = "closed"
    /\ Finish(ensureProgress(completedEvent))
    /\ UNCHANGED <<call, peer, up, loops, truth, prod, text>>

\* The channel is closed: the producer is through, or gave up with its context.
RelayClosed ==
    /\ handler = "relay" /\ prod = "closed"
    /\ IF callCtx # "live" THEN terminalTimeout ELSE Finish(ensureProgress(completedEvent))
    /\ UNCHANGED <<call, peer, up, loops, truth, prod, text>>

-----------------------------------------------------------------------------
(* The llm-adapter: the producer, run of openai, ollama and bedrock.       *)

\* client.Do: an error or a status outside 2xx is an error chunk.
ProducerRequest ==
    /\ prod = "request"
    /\ prod' \in (IF callCtx = "live" THEN {"reading", "sendErr"} ELSE {"sendErr"})
    /\ UNCHANGED <<call, handler, callCtx, peer, sentEvents, rpc, up, loops, truth, text>>

\* A frame: text to send (in ollama's last frame, too); the end marker; an
\* undecodable frame or a read error. Blank frames are skipped, and so is the error
\* object by which openai and ollama report within the stream that the generation
\* failed: the types of their frames have no field for it. The end of the body
\* without a marker is no error either.
TextFrame(next) ==
    Chunk /\ prod' = next /\ text' = [text EXCEPT !.read = @ + 1] /\ UNCHANGED truth
ProducerEnds(how) == prod' = "closed" /\ truth' = (IF truth = "failed" THEN truth ELSE how) /\ UNCHANGED text
LastFrame == ProducerEnds("done")
BodyEnds == ProducerEnds("cut")
ErrorFrame == truth # "failed" /\ truth' = "failed" /\ UNCHANGED <<prod, text>>
BadFrame == prod' = "sendErr" /\ UNCHANGED <<text, truth>>

openaiFrame == TextFrame("sending") \/ LastFrame \/ BodyEnds \/ ErrorFrame \/ BadFrame
ollamaFrame ==
    \/ TextFrame("sending") \/ TextFrame("sendingLast")
    \/ LastFrame \/ BodyEnds \/ ErrorFrame \/ BadFrame

\* The SDK reports an exception in the stream as its error.
bedrockEvent == TextFrame("sending") \/ LastFrame \/ BodyEnds \/ BadFrame

ProducerReads ==
    /\ prod = "reading"
    /\ \/ call.provider = "openai" /\ openaiFrame
       \/ call.provider = "ollama" /\ ollamaFrame
       \/ call.provider = "bedrock" /\ bedrockEvent
    /\ UNCHANGED <<call, handler, callCtx, peer, sentEvents, rpc, up, loops>>

\* Mutant: send waits for the relay like sendErr does.
ProducerWaits == FALSE /\ UNCHANGED callVars

\* send gives up with the context and drops the chunk; sendErr does not.
ProducerGivesUp ==
    /\ prod \in {"sending", "sendingLast"} /\ callCtx # "live"
    /\ prod' = "closed"
    /\ UNCHANGED <<call, handler, callCtx, peer, sentEvents, rpc, up, loops, truth, text>>

\* The reads of the body end with the context.
ProducerCancelled ==
    /\ prod = "reading" /\ callCtx # "live"
    /\ prod' = "sendErr"
    /\ UNCHANGED <<call, handler, callCtx, peer, sentEvents, rpc, up, loops, truth, text>>

-----------------------------------------------------------------------------
(* The adk-adapter.                                                        *)

classifyError == IF callCtx = "deadline" THEN "TIMEOUT" ELSE "UPSTREAM_ERROR"

\* The payload must be JSON, satisfy the schema and have a prompt.
adkParseInput == call.payload = "ok"

AdkExecute ==
    \/ /\ ~adkParseInput
       /\ sendFailed("INVALID_INPUT", "wide")
       /\ UNCHANGED <<call, peer, up, loops, truth, prod, text>>
    \/ /\ adkParseInput
       /\ handler' = "generate"
       /\ UNCHANGED <<call, callCtx, peer, sentEvents, rpc, up, loops, truth, prod, text>>

\* GenerateContent: an error, or a stream of frames.
GenerateContent ==
    /\ handler = "generate"
    /\ \/ sendFailed(classifyError, "wide")
       \/ /\ callCtx = "live"
          /\ handler' = "bridge"
          /\ UNCHANGED <<callCtx, sentEvents, rpc>>
    /\ UNCHANGED <<call, peer, up, loops, truth, prod, text>>

\* streamChat yields a partial response per delta; the tail of the done frame is a
\* delta, too.
streamChat ==
    /\ handler = "bridge" /\ Chunk
    /\ text' = [read |-> text.read + 1, relayed |-> text.relayed + 1]
    /\ Emit(<<progressEvent>>, "bridge")
    /\ UNCHANGED <<call, peer, up, loops, truth, prod>>

\* An undecodable frame, an error frame or a read error.
StreamFails ==
    /\ handler = "bridge"
    /\ sendFailed(classifyError, "wide")
    /\ UNCHANGED <<call, peer, up, loops, truth, prod, text>>

\* The done frame, or the end of the body without one: the final response. A runner
\* whose context is over may end the sequence before it.
StreamEnds ==
    /\ handler = "bridge"
    /\ handler' = "ended"
    /\ truth' \in {"done", "cut"} \cup (IF callCtx = "live" THEN {} ELSE {truth})
    /\ UNCHANGED <<call, callCtx, peer, sentEvents, rpc, up, loops, prod, text>>

\* valid: the text is an object that the schema accepts; wraps: the schema accepts
\* the text as the value of its string property.
coerceOutput(valid, wraps) == ~call.outSchema \/ valid \/ (call.outKey /\ wraps)

bridge(valid, wraps) ==
    /\ handler = "ended"
    /\ IF callCtx # "live" THEN sendFailed("TIMEOUT", "plain")
       ELSE Finish(ensureProgress(IF coerceOutput(valid, wraps) THEN completedEvent
                                  ELSE failedEvent("UPSTREAM_ERROR", "plain")))
    /\ UNCHANGED <<call, peer, up, loops, truth, prod, text>>

ModelHandlerStep ==
    \/ BedrockStream \/ RelayChunk \/ RelayError \/ RelayClosed
    \/ GenerateContent \/ StreamFails \/ StreamEnds
    \/ \E v, w \in BOOLEAN : bridge(v, w)

ProducerStep == ProducerRequest \/ ProducerGivesUp \/ ProducerCancelled

=============================================================================
