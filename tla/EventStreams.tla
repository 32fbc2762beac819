------------------------------ MODULE EventStreams ------------------------------
(***************************************************************************)
(* How zynaxevents lays event types over JetStream streams: the names and  *)
(* subjects of streams, the filters and durable names of consumers, and    *)
(* the glob patterns of subscriptions. Publishers and subscribers create   *)
(* the streams they need, in any order.                                    *)
(*                                                                         *)
(* A subject is a sequence of segments; a segment and a subscriber id are  *)
(* sequences of characters, where a word may stand for its letters.        *)
(***************************************************************************)
EXTENDS Naturals, Sequences, FiniteSets, SequencesExt, FiniteSetsExt

CONSTANTS
    EventTypes,      \* event types that services publish
    Patterns,        \* patterns that subscribers ask for
    SubscriberIds,
    Plain,           \* the characters a durable name may hold
    Depth,           \* streamSubjectDepth
    MaxDurable,      \* the longest durable name
    ToUpper(_)       \* the upper case of a character that is no separator

VARIABLES
    streams,     \* JetStream streams: name -> subjects
    consumers,   \* durable consumers: [durable, stream, filter, pattern]
    last         \* the publish just made: its type, the stream that took it, who got it

streamVars == <<streams, consumers, last>>

OneSegment == <<"*">>
AnySegments == <<"**">>
Tailing == <<">">>

---------------------------------------------------------------------------
(* Names *)

\* A mutated rule: the prefix is everything but the last segment.
streamPrefixAllButLast(type) == IF Len(type) > 1 THEN Front(type) ELSE type

streamPrefix(type) == IF Len(type) > Depth THEN SubSeq(type, 1, Depth) ELSE type

\* The segments with dots between them; then dots and dashes become underscores, and
\* the rest upper case.
StreamName(type) ==
    LET prefix == streamPrefix(type)
        chars == FlattenSeq([i \in DOMAIN prefix |-> IF i = 1 THEN prefix[i] ELSE <<".">> \o prefix[i]])
    IN  [i \in DOMAIN chars |-> IF chars[i] \in {".", "-"} THEN "_" ELSE ToUpper(chars[i])]

SubjectFilter(type) ==
    IF streamPrefix(type) # type THEN Append(streamPrefix(type), Tailing) ELSE type

streamSubjects(type) ==
    IF streamPrefix(type) # type THEN {streamPrefix(type), Append(streamPrefix(type), Tailing)} ELSE {type}

DurableConsumerName(id) ==
    LET clean == [i \in DOMAIN id |-> IF id[i] \in Plain THEN id[i] ELSE "_"]
    IN  SubSeq(clean, 1, Min({Len(clean), MaxDurable}))

dlqStreamName(name) == <<"DLQ", "_">> \o name
dlqDeliverSubject(type) == <<<<"zynax">>, <<"dlq">>>> \o streamPrefix(type) \o <<<<"dead">>>>

\* matchGlobSegments: the numbers j such that the last n segments of the pattern match
\* the last j of the type, for every n.
Remainders(pat, seg) ==
    LET fits[n \in 0 .. Len(pat)] ==
            IF n = 0 THEN {0}
            ELSE LET p == pat[Len(pat) - n + 1] IN
                 IF p = AnySegments
                 THEN {j \in 0 .. Len(seg) : n = 1 \/ \E k \in fits[n - 1] : k <= j}
                 ELSE {j \in 1 .. Len(seg) : p \in {OneSegment, seg[Len(seg) - j + 1]} /\ j - 1 \in fits[n - 1]}
    IN  fits
matchGlobSegments(pat, seg) == Len(seg) \in Remainders(pat, seg)[Len(pat)]

\* The literal segments of a pattern, and "x" for what its first wildcard
\* stands for.
Wildcards(pattern) == {i \in DOMAIN pattern : pattern[i] \in {OneSegment, AnySegments}}
StreamSubjectFromPattern(pattern) ==
    IF Wildcards(pattern) = {} THEN pattern
    ELSE Append(SubSeq(pattern, 1, Min(Wildcards(pattern)) - 1), <<"x">>)

\* The subjects that streams are made for.
Subjects == EventTypes \cup {StreamSubjectFromPattern(p) : p \in Patterns}

ASSUME EventStreamsAssumption ==
    /\ Depth \in Nat /\ Depth >= 2 /\ MaxDurable \in Nat
    /\ \A t \in EventTypes \cup Patterns :
          t \in Seq(Seq(STRING)) /\ t # <<>> /\ \A i \in DOMAIN t : t[i] # Tailing

---------------------------------------------------------------------------
(* JetStream *)

\* A subject of a stream or of a consumer takes the subject s.
Takes(filter, s) ==
    \/ filter = s
    \/ /\ filter[Len(filter)] = Tailing /\ Len(s) >= Len(filter)
       /\ SubSeq(s, 1, Len(filter) - 1) = Front(filter)

\* Two subjects overlap; a subject ends in a wildcard or has none.
Overlap(f, g) ==
    \/ Takes(f, g) \/ Takes(g, f)
    \/ f[Len(f)] = Tailing /\ g[Len(g)] = Tailing /\ (IsPrefix(Front(f), Front(g)) \/ IsPrefix(Front(g), Front(f)))

\* AddStream: the server refuses a stream that overlaps another one.
Overlaps(all, name, subjects) ==
    /\ name \notin DOMAIN all
    /\ \E n \in DOMAIN all : \E f \in all[n], g \in subjects : Overlap(f, g)

AddStream(all, name, subjects) ==
    [n \in DOMAIN all \cup {name} |-> IF n \in DOMAIN all THEN all[n] ELSE subjects]

Owners(all, s) == {n \in DOMAIN all : \E f \in all[n] : Takes(f, s)}

NoPublish == [type |-> <<>>, stream |-> {}, got |-> {}]

StreamsInit == streams = <<>> /\ consumers = {} /\ last = NoPublish

---------------------------------------------------------------------------
(* The client *)

\* ensureStream: a name that is taken already counts as success.
ensureStream(type) == AddStream(streams, StreamName(type), streamSubjects(type))

ensureDLQStream(all, type) ==
    AddStream(all, dlqStreamName(StreamName(type)), {dlqDeliverSubject(type)})

\* reservedDLQPrefix
Reserved(type) == Len(type) > 2 /\ type[1] = <<"zynax">> /\ type[2] = <<"dlq">>

\* Publish, and what dispatchMsg passes on to each follower. It fails when no stream
\* takes the subject.
PublishMsg(type) ==
    /\ ~Reserved(type)
    /\ LET refused == Overlaps(streams, StreamName(type), streamSubjects(type))
           all == IF refused THEN streams ELSE ensureStream(type)
           to == IF refused THEN {} ELSE Owners(all, type)
       IN  /\ streams' = all
           /\ last' = [type |-> type, stream |-> to,
                       got |-> {c \in consumers : /\ c.stream \in to
                                                  /\ Takes(c.filter, type)
                                                  /\ matchGlobSegments(c.pattern, type)}]
    /\ UNCHANGED consumers

\* openSubscription fails when the durable consumer has a subscriber already.
HasSubscriber(durable, stream) == \E c \in consumers : c.durable = durable /\ c.stream = stream

\* A stream that was made stays when a later step of the subscription fails. The last
\* one looks for the stream by the subject.
SubscribeTo(id, pattern) ==
    LET subject == StreamSubjectFromPattern(pattern)
        name == StreamName(subject)
        dlqName == dlqStreamName(name)
        durable == DurableConsumerName(id)
        source == ensureStream(subject)
        refused == Overlaps(streams, name, streamSubjects(subject))
        dlqRefused == Overlaps(source, dlqName, {dlqDeliverSubject(subject)})
        missing == \A f \in source[name] : ~Takes(f, SubjectFilter(subject))
        fails == refused \/ dlqRefused \/ HasSubscriber(durable, name) \/ missing
    IN  /\ streams' = IF refused THEN streams ELSE IF dlqRefused THEN source ELSE ensureDLQStream(source, subject)
        /\ consumers' = consumers \cup (IF fails THEN {} ELSE
                {[durable |-> durable, stream |-> name, filter |-> SubjectFilter(subject), pattern |-> pattern]})
        /\ last' = NoPublish

\* Unsubscribe deletes the consumer from the first stream that has one, in the
\* order in which the server lists the streams.
Unsubscribe(id) ==
    \E c \in consumers :
        /\ c.durable = DurableConsumerName(id)
        /\ consumers' = consumers \ {c}
        /\ last' = NoPublish
        /\ UNCHANGED streams

StreamsNext ==
    \/ \E t \in EventTypes : PublishMsg(t)
    \/ \E i \in SubscriberIds, p \in Patterns : SubscribeTo(i, p)
    \/ \E i \in SubscriberIds : Unsubscribe(i)

StreamsSpec == StreamsInit /\ [][StreamsNext]_streamVars

---------------------------------------------------------------------------
(* What publishers and followers rely on *)

\* The type begins as the pattern does; further on one segment stands for every "*"
\* and any number of them for every "**": at tells where each segment of the pattern ends.
Matches(pattern, type) ==
    /\ \A i \in 1 .. Depth : pattern[i] = type[i]
    /\ \E at \in [Depth .. Len(pattern) -> Depth .. Len(type)] :
          /\ at[Depth] = Depth /\ at[Len(pattern)] = Len(type)
          /\ \A i \in Depth + 1 .. Len(pattern) :
                IF pattern[i] = AnySegments THEN at[i] >= at[i - 1]
                ELSE at[i] = at[i - 1] + 1 /\ pattern[i] \in {OneSegment, type[at[i]]}

\* A pattern names the stream it reads from when it is literal to the depth of
\* the taxonomy.
Anchored(pattern) == Len(pattern) > Depth /\ \A i \in 1 .. Depth : i \notin Wildcards(pattern)

\* No other subject gives the stream of the type its name: none of another entity, none
\* that is the bare prefix, and none by way of its dead letters.
NamedApart(type) ==
    \A u \in Subjects :
        /\ StreamName(u) = StreamName(type) => streamPrefix(u) = streamPrefix(type) /\ Len(u) > Depth
        /\ StreamName(type) # dlqStreamName(StreamName(u))

\* Whoever creates streams and consumers first, an event of the taxonomy that is
\* published is taken by exactly one stream, and an anchored follower gets it exactly
\* when its type matches the pattern. The publish is refused only when another subject
\* claims the name of the stream, which naming.go does not rule out: its names make no
\* difference between dots, dashes, underscores and cases (43-47), and the bare prefix
\* of an entity makes a stream that takes nothing below it (61-67).
EventsReachFollowers ==
    (last.type # <<>> /\ Len(last.type) > Depth) =>
        /\ last.stream = {} => last.got = {} /\ ~NamedApart(last.type)
        /\ last.stream # {} =>
              /\ Cardinality(last.stream) = 1
              /\ \A c \in consumers : Anchored(c.pattern) => (c \in last.got <=> Matches(c.pattern, last.type))

=============================================================================
