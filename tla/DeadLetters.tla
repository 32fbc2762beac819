------------------------------- MODULE DeadLetters -------------------------------
(***************************************************************************)
(* The dead-letter forwarder of zynaxevents: messages that exhausted their *)
(* deliveries are announced by JetStream in advisories, core NATS messages *)
(* that nobody keeps; a forwarder takes the advisory, fetches the message  *)
(* from its stream and publishes it to the dead-letter stream under an id  *)
(* that JetStream remembers for a while (dlqDuplicateWindow).              *)
(***************************************************************************)
EXTENDS Naturals, Sequences, FiniteSets

CONSTANTS
    Forwarders,    \* running instances, one queue group
    Sources,       \* messages of source streams
    Alien,         \* those whose stream the conventions did not provision
    Buffer,        \* dlqAdvisoryBuffer (256 in the code)
    Attempts,      \* dlqPublishAttempts (3 in the code)
    MaxAdvisories, \* bound on advisories per message (one per consumer)
    MaxExpiries,   \* bound on ends of the window
    MaxErrors      \* bound on failing calls

\* 0 stands for no message.
ASSUME DeadLettersAssumption ==
    /\ IsFiniteSet(Forwarders)
    /\ 0 \notin Sources
    /\ Buffer \in Nat /\ Attempts \in Nat

VARIABLES
    stored,   \* messages still in their source stream
    advised,  \* advisories sent per message
    fw,       \* a forwarder: [pc, buf, cur, attempt, stop]
    dlq,      \* the dead-letter stream
    window,   \* messages whose id JetStream remembers
    expiries, \* times the window of a message ended
    told,     \* outcomes per message: rescued, skipped, failed, dropped
    errors

deadVars == <<stored, advised, fw, dlq, window, expiries, told, errors>>

Outcomes == {"rescued", "skipped", "failed", "dropped"}
Off == [pc |-> "off", buf |-> <<>>, cur |-> 0, attempt |-> 0, stop |-> FALSE]

DeadLettersInit ==
    /\ stored = Sources
    /\ advised = [m \in Sources |-> 0]
    /\ fw = [f \in Forwarders |-> Off]
    /\ dlq = <<>> /\ window = {}
    /\ expiries = [m \in Sources |-> 0]
    /\ told = [m \in Sources |-> [o \in Outcomes |-> 0]]
    /\ errors = 0

Error == errors < MaxErrors /\ errors' = errors + 1
Tell(m, o) == told' = [told EXCEPT ![m][o] = @ + 1]

---------------------------------------------------------------------------
(* JetStream *)

\* A message has exhausted its deliveries to a consumer. The advisory goes to
\* one member of the queue group that has room, or to nobody.
Advise(m) ==
    /\ advised[m] < MaxAdvisories
    /\ advised' = [advised EXCEPT ![m] = @ + 1]
    /\ \/ \E f \in Forwarders :
            /\ fw[f].pc # "off" /\ Len(fw[f].buf) < Buffer
            /\ fw' = [fw EXCEPT ![f].buf = Append(@, m)]
            /\ UNCHANGED told
       \/ /\ \/ \A f \in Forwarders : fw[f].pc = "off"
             \/ \E f \in Forwarders : fw[f].pc # "off" /\ Len(fw[f].buf) = Buffer
          /\ Tell(m, "dropped")
          /\ UNCHANGED fw
    /\ UNCHANGED <<stored, dlq, window, expiries, errors>>

\* The stream ages a message out.
AgeOut(m) ==
    /\ stored' = stored \ {m} /\ m \in stored
    /\ UNCHANGED <<advised, fw, dlq, window, expiries, told, errors>>

WindowEnds(m) ==
    /\ m \in window /\ expiries[m] < MaxExpiries
    /\ window' = window \ {m}
    /\ expiries' = [expiries EXCEPT ![m] = @ + 1]
    /\ UNCHANGED <<stored, advised, fw, dlq, told, errors>>

\* A mutated publish without the message id.
StoredNoId(m) == dlq' = Append(dlq, m) /\ UNCHANGED window

\* A publish under the message id of m: stored unless the id is remembered.
Stored(m) ==
    IF m \in window THEN UNCHANGED <<dlq, window>>
    ELSE dlq' = Append(dlq, m) /\ window' = window \cup {m}

---------------------------------------------------------------------------
(* A forwarder *)

StartDLQForwarder(f) ==
    /\ fw[f].pc = "off"
    /\ fw' = [fw EXCEPT ![f] = [Off EXCEPT !.pc = "run"]]
    /\ UNCHANGED <<stored, advised, dlq, window, expiries, told, errors>>

\* Stop closes the channel and waits for run to return.
StopForwarder(f) ==
    /\ fw[f].pc # "off" /\ ~fw[f].stop
    /\ fw' = [fw EXCEPT ![f].stop = TRUE]
    /\ UNCHANGED <<stored, advised, dlq, window, expiries, told, errors>>

Occurrences(s, m) == Cardinality({i \in DOMAIN s : s[i] = m})
InBuf(f, m) == Occurrences(fw[f].buf, m)

\* run leaves its select by the stop: what is in the buffer is lost.
RunReturns(f) ==
    /\ fw[f].pc = "run" /\ fw[f].stop
    /\ fw' = [fw EXCEPT ![f] = Off]
    /\ told' = [m \in Sources |-> [told[m] EXCEPT !["dropped"] = @ + InBuf(f, m)]]
    /\ UNCHANGED <<stored, advised, dlq, window, expiries, errors>>

\* run takes an advisory, also when the stop is closed: select is not fair.
Handle(f) ==
    /\ fw[f].pc = "run" /\ fw[f].buf # <<>>
    /\ fw' = [fw EXCEPT ![f].pc = "forward", ![f].cur = Head(fw[f].buf), ![f].buf = Tail(@)]
    /\ UNCHANGED <<stored, advised, dlq, window, expiries, told, errors>>

Rest(f) == [fw EXCEPT ![f].pc = "run", ![f].cur = 0, ![f].attempt = 0]

\* The message is gone, the advisory is about a dead-letter stream, or the
\* stream is not derived from the subject.
Skip(f) ==
    /\ fw[f].pc = "forward"
    /\ fw[f].cur \in Alien \/ fw[f].cur \notin stored
    /\ fw' = Rest(f) /\ Tell(fw[f].cur, "skipped")
    /\ UNCHANGED <<stored, advised, dlq, window, expiries, errors>>

\* GetMsg or ensureDLQStream fails.
ForwardFails(f) ==
    /\ fw[f].pc = "forward" /\ Error
    /\ fw' = Rest(f) /\ Tell(fw[f].cur, "failed")
    /\ UNCHANGED <<stored, advised, dlq, window, expiries>>

Fetch(f) ==
    /\ fw[f].pc = "forward" /\ fw[f].cur \in stored \ Alien
    /\ fw' = [fw EXCEPT ![f].pc = "publish"]
    /\ UNCHANGED <<stored, advised, dlq, window, expiries, told, errors>>

\* publishToDLQ: an attempt that JetStream acknowledges, as new or duplicate.
PublishAcked(f) ==
    /\ fw[f].pc = "publish"
    /\ Stored(fw[f].cur)
    /\ fw' = Rest(f) /\ Tell(fw[f].cur, "rescued")
    /\ UNCHANGED <<stored, advised, expiries, errors>>

\* A mutated retry that takes the last error for a success.
PublishFailsQuietly(f) ==
    /\ fw[f].pc = "publish" /\ Error
    /\ UNCHANGED <<dlq, window>>
    /\ fw' = Rest(f) /\ Tell(fw[f].cur, "rescued")
    /\ UNCHANGED <<stored, advised, expiries>>

\* An attempt that fails, although it may have been carried out: the next one
\* follows unless it was the last.
PublishFails(f) ==
    /\ fw[f].pc = "publish" /\ Error
    /\ Stored(fw[f].cur) \/ UNCHANGED <<dlq, window>>
    /\ IF fw[f].attempt + 1 < Attempts
       THEN fw' = [fw EXCEPT ![f].attempt = @ + 1] /\ UNCHANGED told
       ELSE fw' = Rest(f) /\ Tell(fw[f].cur, "failed")
    /\ UNCHANGED <<stored, advised, expiries>>

\* The stop ends the pause before the next attempt.
PublishStopped(f) ==
    /\ fw[f].pc = "publish" /\ fw[f].attempt > 0 /\ fw[f].stop
    /\ fw' = Rest(f) /\ Tell(fw[f].cur, "failed")
    /\ UNCHANGED <<stored, advised, dlq, window, expiries, errors>>

ForwarderStep(f) ==
    \/ RunReturns(f) \/ Handle(f) \/ Skip(f) \/ Fetch(f) \/ PublishAcked(f) \/ PublishStopped(f)

DeadLettersNext ==
    \/ \E m \in Sources : Advise(m) \/ AgeOut(m) \/ WindowEnds(m)
    \/ \E f \in Forwarders :
         StartDLQForwarder(f) \/ StopForwarder(f) \/ ForwarderStep(f) \/ ForwardFails(f) \/ PublishFails(f)

DeadLettersSpec == DeadLettersInit /\ [][DeadLettersNext]_deadVars

---------------------------------------------------------------------------
(* Properties *)

Copies(m) == Occurrences(dlq, m)

\* Idempotence of the rescue: however often a message is advised, by however
\* many forwarders it is handled and however many acknowledgements are lost,
\* it is in the dead-letter stream once per window of remembered ids.
RescuedOnce == \A m \in Sources : Copies(m) <= 1 + expiries[m]

\* Where the advisories of m are: places in the buffers, forwarders at work.
Waiting(m) ==
    {p \in Forwarders \X (1 .. Buffer) : p[2] \in DOMAIN fw[p[1]].buf /\ fw[p[1]].buf[p[2]] = m}
Working(m) == {f \in Forwarders : fw[f].cur = m}

\* No advisory vanishes inside a forwarder, and none is reported rescued
\* without its message being there: each is waiting, in work, or has exactly
\* one outcome - lost ones only when no forwarder had room for it or a stop came first.
RescueAccounted ==
    \A m \in Sources :
        /\ told[m]["rescued"] > 0 => Copies(m) > 0
        /\ advised[m] = Cardinality(Waiting(m)) + Cardinality(Working(m))
                        + told[m]["rescued"] + told[m]["skipped"]
                        + told[m]["failed"] + told[m]["dropped"]

=============================================================================
