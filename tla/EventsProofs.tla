------------------------------ MODULE EventsProofs ------------------------------
(***************************************************************************)
(* Proofs about the three uses of zynaxevents.                             *)
(*                                                                         *)
(* The dead-letter forwarders, for any number of them, of messages, of     *)
(* advisories and of failures. Both properties count: copies in a stream,  *)
(* places in the buffers. The lemmas come first that say how the counts    *)
(* move when a sequence or one forwarder's buffer changes.                 *)
(*                                                                         *)
(* The logs of a run: what the handler says of the run when it ends, that  *)
(* nothing is written after it returned, and what the follower shows of    *)
(* the events of the workflow, for any script of messages, any number of   *)
(* deliveries and any capacity of the channel.                             *)
(*                                                                         *)
(* The streams of the platform: which stream takes an event and which      *)
(* followers get it, for any event types and patterns.                     *)
(***************************************************************************)
EXTENDS LogFollow, DeadLetters, EventStreams, FiniteSetTheorems, SequenceTheorems, Recursions, TLAPS

---------------------------------------------------------------------------
(* Counting in sequences *)

(* The places of a value in a sequence are finitely many. *)
LEMMA OccurrencesType ==
    ASSUME NEW S, NEW s \in Seq(S), NEW m
    PROVE  /\ IsFiniteSet({i \in DOMAIN s : s[i] = m})
           /\ Occurrences(s, m) \in Nat
<1>1. IsFiniteSet(DOMAIN s)
    BY LenProperties, FS_Interval
<1>2. IsFiniteSet({i \in DOMAIN s : s[i] = m})
    BY <1>1, FS_Subset
<1> QED BY <1>2, FS_CardinalityType DEF Occurrences

LEMMA OccurrencesEmpty == ASSUME NEW m PROVE Occurrences(<<>>, m) = 0
<1>1. {i \in DOMAIN <<>> : <<>>[i] = m} = {}
    OBVIOUS
<1> QED BY <1>1, FS_EmptySet DEF Occurrences

(* Append adds one place to the value appended, and none to the others. *)
LEMMA OccurrencesAppend ==
    ASSUME NEW S, NEW s \in Seq(S), NEW e \in S, NEW m
    PROVE  Occurrences(Append(s, e), m) = Occurrences(s, m) + (IF e = m THEN 1 ELSE 0)
<1> DEFINE A == {i \in DOMAIN s : s[i] = m}
           B == {i \in DOMAIN Append(s, e) : Append(s, e)[i] = m}
           n == Len(s) + 1
<1>1. /\ n \in Nat /\ n \notin DOMAIN s
      /\ DOMAIN Append(s, e) = DOMAIN s \cup {n}
      /\ Append(s, e)[n] = e /\ \A i \in DOMAIN s : Append(s, e)[i] = s[i]
    BY LenProperties, AppendProperties
<1>2. IsFiniteSet(A) /\ n \notin A
    BY <1>1, OccurrencesType
<1>3. CASE e = m
    <2>1. B = A \cup {n}
        BY <1>1, <1>3
    <2> QED BY <1>2, <1>3, <2>1, FS_AddElement DEF Occurrences
<1>4. CASE e # m
    <2>1. B = A
        BY <1>1, <1>4
    <2>2. Cardinality(A) \in Nat
        BY <1>2, FS_CardinalityType
    <2>3. Occurrences(Append(s, e), m) = Cardinality(A) /\ Occurrences(s, m) = Cardinality(A)
        BY <2>1 DEF Occurrences
    <2> QED BY <1>4, <2>2, <2>3
<1> QED BY <1>3, <1>4

(* Tail takes one place from the head. *)
LEMMA OccurrencesTail ==
    ASSUME NEW S, NEW s \in Seq(S), s # <<>>, NEW m
    PROVE  Occurrences(s, m) = Occurrences(Tail(s), m) + (IF Head(s) = m THEN 1 ELSE 0)
<1> DEFINE A == {i \in DOMAIN s : s[i] = m}
           B == {i \in DOMAIN Tail(s) : Tail(s)[i] = m}
           up == [i \in B |-> i + 1]
<1>1. /\ Len(s) \in Nat \ {0} /\ DOMAIN s = 1 .. Len(s) /\ Head(s) = s[1]
      /\ Tail(s) \in Seq(S) /\ DOMAIN Tail(s) = 1 .. Len(s) - 1
      /\ \A i \in 1 .. Len(s) - 1 : Tail(s)[i] = s[i + 1]
    BY EmptySeq, LenProperties, HeadTailProperties
<1>2. IsFiniteSet(A) /\ IsFiniteSet(B) /\ Cardinality(B) \in Nat /\ Cardinality(A) \in Nat
    BY <1>1, OccurrencesType DEF Occurrences
<1>3. up \in Bijection(B, A \ {1})
    <2>1. \A i \in B : i \in Int /\ i + 1 \in A \ {1}
        BY <1>1
    <2>2. \A j \in A \ {1} : j \in Int /\ j - 1 \in B
        BY <1>1
    <2>3. up \in [B -> A \ {1}]
        BY <2>1
    <2>4. \A a, b \in B : up[a] = up[b] => a = b
        BY <2>1
    <2>5. \A j \in A \ {1} : \E i \in B : up[i] = j
        BY <2>1, <2>2
    <2> QED BY <2>3, <2>4, <2>5 DEF Bijection, Injection, Surjection, IsInjective
<1>4. Cardinality(A \ {1}) = Cardinality(B)
    BY <1>2, <1>3, FS_Bijection, ZenonT(30) DEF ExistsBijection
<1>5. Cardinality(A \ {1}) = IF 1 \in A THEN Cardinality(A) - 1 ELSE Cardinality(A)
    BY <1>2, FS_RemoveElement
<1>6. 1 \in A <=> Head(s) = m
    BY <1>1
<1>7. Occurrences(s, m) = Cardinality(A) /\ Occurrences(Tail(s), m) = Cardinality(B)
    BY DEF Occurrences
<1> HIDE DEF A, B
<1> QED BY <1>2, <1>4, <1>5, <1>6, <1>7

---------------------------------------------------------------------------
(* Counting in the buffers *)

(* The places of m in the buffers of g, and those that are not f's. *)
Places(g, m) ==
    {p \in Forwarders \X (1 .. Buffer) : p[2] \in DOMAIN g[p[1]].buf /\ g[p[1]].buf[p[2]] = m}
PlacesElse(g, f, m) == {p \in Places(g, m) : p[1] # f}

(* The places of m are those in f's buffer and those in the others'. *)
LEMMA PlacesSplit ==
    ASSUME NEW g, NEW f \in Forwarders, NEW m,
           g[f].buf \in Seq(Sources), Len(g[f].buf) <= Buffer
    PROVE  /\ IsFiniteSet(Places(g, m)) /\ Cardinality(Places(g, m)) \in Nat
           /\ Cardinality(PlacesElse(g, f, m)) \in Nat
           /\ Cardinality(Places(g, m)) = Cardinality(PlacesElse(g, f, m)) + Occurrences(g[f].buf, m)
<1> DEFINE own == {i \in DOMAIN g[f].buf : g[f].buf[i] = m}
<1>1. IsFiniteSet(Forwarders \X (1 .. Buffer))
    <2>1. IsFiniteSet(1 .. Buffer)
        BY FS_Interval, DeadLettersAssumption
    <2> QED BY <2>1, FS_Product, DeadLettersAssumption
<1>2. IsFiniteSet(Places(g, m)) /\ IsFiniteSet(PlacesElse(g, f, m))
    BY <1>1, FS_Subset DEF Places, PlacesElse
<1>3. IsFiniteSet(own) /\ Cardinality(own) \in Nat
    BY OccurrencesType DEF Occurrences
<1>4. IsFiniteSet({f} \X own) /\ Cardinality({f} \X own) = Cardinality(own)
    <2>1. IsFiniteSet({f}) /\ Cardinality({f}) = 1
        BY FS_Singleton
    <2>2. IsFiniteSet({f} \X own) /\ Cardinality({f} \X own) = 1 * Cardinality(own)
        BY <1>3, <2>1, FS_Product
    <2> QED BY <1>3, <2>2
<1>5. Places(g, m) = PlacesElse(g, f, m) \cup ({f} \X own)
    <2>1. own \subseteq 1 .. Buffer
        BY LenProperties, DeadLettersAssumption
    <2> QED BY <2>1 DEF Places, PlacesElse
<1>6. PlacesElse(g, f, m) \cap ({f} \X own) = {}
    BY DEF PlacesElse
<1>7. /\ Cardinality(Places(g, m)) \in Nat /\ Cardinality(PlacesElse(g, f, m)) \in Nat
    BY <1>2, FS_CardinalityType
<1>8. Cardinality(Places(g, m)) = Cardinality(PlacesElse(g, f, m)) + Cardinality(own) - 0
    BY <1>2, <1>4, <1>5, <1>6, FS_Union, FS_EmptySet
<1> QED BY <1>2, <1>3, <1>7, <1>8 DEF Occurrences

(* Two finite sets that differ in one element at most. *)
LEMMA OneElement ==
    ASSUME NEW A, NEW B, NEW f, IsFiniteSet(A), IsFiniteSet(B), A \ {f} = B \ {f}
    PROVE  /\ Cardinality(A) \in Nat /\ Cardinality(B) \in Nat
           /\ Cardinality(B) + (IF f \in A THEN 1 ELSE 0) = Cardinality(A) + (IF f \in B THEN 1 ELSE 0)
<1>1. Cardinality(A) \in Nat /\ Cardinality(B) \in Nat
    BY FS_CardinalityType
<1>2. Cardinality(A \ {f}) = IF f \in A THEN Cardinality(A) - 1 ELSE Cardinality(A)
    BY FS_RemoveElement
<1>3. Cardinality(B \ {f}) = IF f \in B THEN Cardinality(B) - 1 ELSE Cardinality(B)
    BY FS_RemoveElement
<1> DEFINE a == Cardinality(A)
           b == Cardinality(B)
<1>4. a \in Nat /\ b \in Nat /\ (IF f \in A THEN a - 1 ELSE a) = (IF f \in B THEN b - 1 ELSE b)
    BY <1>1, <1>2, <1>3
<1> HIDE DEF a, b
<1>5. b + (IF f \in A THEN 1 ELSE 0) = a + (IF f \in B THEN 1 ELSE 0)
    BY <1>4
<1> QED BY <1>1, <1>5 DEF a, b

---------------------------------------------------------------------------
(* The inductive invariant *)

(* The types, with buffers that never exceed their capacity. *)
Forwarder == [pc : {"off", "run", "forward", "publish"},
              buf : {s \in Seq(Sources) : Len(s) <= Buffer},
              cur : Sources \cup {0}, attempt : Nat, stop : BOOLEAN]
DeadLettersTypeOK ==
    /\ fw \in [Forwarders -> Forwarder]
    /\ dlq \in Seq(Sources) /\ window \subseteq Sources
    /\ advised \in [Sources -> Nat] /\ expiries \in [Sources -> Nat]
    /\ told \in [Sources -> [Outcomes -> Nat]]

(* A forwarder has a message in work from Handle to the outcome, and none *)
(* in its buffer before it is started.                                    *)
AtWork ==
    \A f \in Forwarders : /\ fw[f].cur \in Sources <=> fw[f].pc \in {"forward", "publish"}
                          /\ fw[f].pc = "off" => fw[f].buf = <<>>

(* The dead-letter stream has one copy of m per window, the one that is open included. *)
CopiesTell == \A m \in Sources : Copies(m) = expiries[m] + (IF m \in window THEN 1 ELSE 0)

(* The two halves of RescueAccounted. *)
RescueIsReal == \A m \in Sources : told[m]["rescued"] > 0 => Copies(m) > 0
Sum(t) == t["rescued"] + t["skipped"] + t["failed"] + t["dropped"]
Accounted ==
    \A m \in Sources :
        advised[m] = Cardinality(Waiting(m)) + Cardinality(Working(m)) + Sum(told[m])

DeadLettersInv == DeadLettersTypeOK /\ AtWork /\ CopiesTell /\ RescueIsReal /\ Accounted

(* Nobody runs, nothing was advised. *)
LEMMA DeadLettersInitial == ASSUME DeadLettersInit PROVE DeadLettersInv
<1>1. DeadLettersTypeOK /\ AtWork
    <2>1. <<>> \in Seq(Sources) /\ Len(<<>>) = 0
        BY EmptySeq
    <2>2. Off \in Forwarder
        BY <2>1, DeadLettersAssumption DEF Off, Forwarder
    <2>3. \A f \in Forwarders : fw[f] = Off
        BY DEF DeadLettersInit
    <2>4. Off.cur \notin Sources /\ Off.pc = "off"
        BY DeadLettersAssumption DEF Off
    <2>5. AtWork
        BY <2>3, <2>4 DEF AtWork, Off
    <2> QED BY <2>1, <2>2, <2>5 DEF DeadLettersInit, DeadLettersTypeOK
<1>2. CopiesTell /\ RescueIsReal
    BY OccurrencesEmpty DEF DeadLettersInit, CopiesTell, RescueIsReal, Copies, Outcomes
<1>3. Accounted
    <2> SUFFICES ASSUME NEW m \in Sources
                 PROVE  advised[m] = Cardinality(Waiting(m)) + Cardinality(Working(m)) + Sum(told[m])
        BY DEF Accounted
    <2>1. Waiting(m) = {}
        BY DEF Waiting, DeadLettersInit, Off
    <2>2. Working(m) = {}
        BY DeadLettersAssumption DEF Working, DeadLettersInit, Off
    <2>3. Sum(told[m]) = 0
        BY DEF Sum, DeadLettersInit, Outcomes
    <2> QED BY <2>1, <2>2, <2>3, FS_EmptySet DEF DeadLettersInit
<1> QED BY <1>1, <1>2, <1>3 DEF DeadLettersInv

(* A publish under the message id adds a copy only with a new window. *)
LEMMA StoredCounts ==
    ASSUME DeadLettersInv, NEW c \in Sources, Stored(c), UNCHANGED expiries
    PROVE  /\ dlq' \in Seq(Sources) /\ window' \subseteq Sources /\ CopiesTell'
           /\ \A m \in Sources : Copies(m) \in Nat /\ Copies(m)' \in Nat /\ Copies(m)' >= Copies(m)
           /\ Copies(c)' > 0
<1> USE DEF DeadLettersInv, DeadLettersTypeOK
<1>0. \A m \in Sources : Copies(m) \in Nat
    BY OccurrencesType DEF Copies
<1>1. CASE c \in window
    <2>1. dlq' = dlq /\ window' = window
        BY <1>1 DEF Stored
    <2>2. \A m : Copies(m)' = Copies(m)
        BY <2>1 DEF Copies
    <2> QED BY <1>0, <1>1, <2>1, <2>2 DEF CopiesTell
<1>2. CASE c \notin window
    <2>1. dlq' = Append(dlq, c) /\ window' = window \cup {c}
        BY <1>2 DEF Stored
    <2>2. dlq' \in Seq(Sources)
        BY <2>1, AppendProperties
    <2>3. \A m : Copies(m)' = Copies(m) + (IF c = m THEN 1 ELSE 0)
        BY <2>1, OccurrencesAppend DEF Copies
    <2>4. ASSUME NEW m \in Sources PROVE Copies(m)' \in Nat /\ Copies(m)' >= Copies(m)
        <3>1. Copies(m)' = Copies(m) + 1 \/ Copies(m)' = Copies(m) + 0
            BY <2>3
        <3> QED BY <1>0, <3>1
    <2>5. Copies(c)' > 0
        BY <1>0, <2>3
    <2>6. ASSUME NEW m \in Sources
          PROVE  Copies(m)' = expiries'[m] + (IF m \in window' THEN 1 ELSE 0)
        <3>1. Copies(m) = expiries[m] + (IF m \in window THEN 1 ELSE 0)
            BY DEF CopiesTell
        <3>2. expiries[m] \in Nat
            OBVIOUS
        <3> QED BY <1>0, <1>2, <2>1, <2>3, <3>1, <3>2
    <2> QED BY <1>0, <2>1, <2>2, <2>4, <2>5, <2>6 DEF CopiesTell
<1> QED BY <1>1, <1>2

(* An outcome is one more, of one message. *)
LEMMA TellCounts ==
    ASSUME DeadLettersInv, NEW c \in Sources, NEW o \in Outcomes, Tell(c, o)
    PROVE  /\ told' \in [Sources -> [Outcomes -> Nat]]
           /\ \A m \in Sources : /\ Sum(told[m]) \in Nat
                                 /\ Sum(told'[m]) = Sum(told[m]) + (IF m = c THEN 1 ELSE 0)
           /\ \A m \in Sources : told'[m]["rescued"] > 0 =>
                 told[m]["rescued"] > 0 \/ (m = c /\ o = "rescued")
<1> USE DEF DeadLettersInv, DeadLettersTypeOK, Outcomes
<1>1. told' = [told EXCEPT ![c] = [told[c] EXCEPT ![o] = told[c][o] + 1]]
    BY DEF Tell
<1>2. \A m \in Sources : \A x \in Outcomes : told[m][x] \in Nat
    OBVIOUS
<1>3. [told[c] EXCEPT ![o] = told[c][o] + 1] \in [Outcomes -> Nat]
    BY <1>2
<1>4. told' \in [Sources -> [Outcomes -> Nat]]
    BY <1>1, <1>3
<1>5. \A m \in Sources : \A x \in Outcomes :
        told'[m][x] = IF m = c /\ x = o THEN told[m][x] + 1 ELSE told[m][x]
    BY <1>1
<1>6. \A m \in Sources : Sum(told[m]) \in Nat
    BY <1>2, SMTT(30) DEF Sum
<1>7. ASSUME NEW m \in Sources
      PROVE  Sum(told'[m]) = Sum(told[m]) + (IF m = c THEN 1 ELSE 0)
    <2>1. CASE m # c
        BY <1>2, <1>5, <2>1, SMTT(30) DEF Sum
    <2>2. CASE m = c /\ o = "rescued"
        BY <1>2, <1>5, <2>2 DEF Sum
    <2>3. CASE m = c /\ o = "skipped"
        BY <1>2, <1>5, <2>3 DEF Sum
    <2>4. CASE m = c /\ o = "failed"
        BY <1>2, <1>5, <2>4 DEF Sum
    <2>5. CASE m = c /\ o = "dropped"
        BY <1>2, <1>5, <2>5 DEF Sum
    <2> QED BY <2>1, <2>2, <2>3, <2>4, <2>5
<1>8. \A m \in Sources : told'[m]["rescued"] > 0 =>
                 told[m]["rescued"] > 0 \/ (m = c /\ o = "rescued")
    BY <1>2, <1>5, "rescued" \in Outcomes
<1> QED BY <1>4, <1>6, <1>7, <1>8

(* How the places and the workers of m move when one forwarder becomes r. *)
LEMMA ForwarderChange ==
    ASSUME DeadLettersInv, NEW f \in Forwarders, NEW r \in Forwarder,
           fw' = [fw EXCEPT ![f] = r],
           r.cur \in Sources <=> r.pc \in {"forward", "publish"}, r.pc = "off" => r.buf = <<>>
    PROVE  /\ fw' \in [Forwarders -> Forwarder] /\ AtWork'
           /\ \A m : /\ Cardinality(Waiting(m)) \in Nat /\ Cardinality(Waiting(m)') \in Nat
                     /\ Occurrences(fw[f].buf, m) \in Nat /\ Occurrences(r.buf, m) \in Nat
                     /\ Cardinality(Waiting(m)') + Occurrences(fw[f].buf, m)
                          = Cardinality(Waiting(m)) + Occurrences(r.buf, m)
           /\ \A m : /\ Cardinality(Working(m)) \in Nat /\ Cardinality(Working(m)') \in Nat
                     /\ Cardinality(Working(m)') + (IF fw[f].cur = m THEN 1 ELSE 0)
                          = Cardinality(Working(m)) + (IF r.cur = m THEN 1 ELSE 0)
<1> USE DEF DeadLettersInv, DeadLettersTypeOK
<1>1. fw' \in [Forwarders -> Forwarder] /\ fw'[f] = r /\ \A k \in Forwarders : k # f => fw'[k] = fw[k]
    OBVIOUS
<1>2. AtWork'
    BY <1>1 DEF AtWork
<1>3. /\ fw[f].buf \in Seq(Sources) /\ Len(fw[f].buf) <= Buffer
      /\ r.buf \in Seq(Sources) /\ Len(r.buf) <= Buffer
    BY DEF Forwarder
<1> HIDE DEF DeadLettersInv, DeadLettersTypeOK
<1>4. ASSUME NEW m
      PROVE  /\ Cardinality(Waiting(m)) \in Nat /\ Cardinality(Waiting(m)') \in Nat
             /\ Occurrences(fw[f].buf, m) \in Nat /\ Occurrences(r.buf, m) \in Nat
             /\ Cardinality(Waiting(m)') + Occurrences(fw[f].buf, m)
                  = Cardinality(Waiting(m)) + Occurrences(r.buf, m)
    <2>1. Waiting(m) = Places(fw, m) /\ Waiting(m)' = Places(fw', m)
        BY DEF Waiting, Places
    <2>2. PlacesElse(fw', f, m) = PlacesElse(fw, f, m)
        BY <1>1 DEF Places, PlacesElse
    <2>3. /\ Cardinality(Places(fw, m)) \in Nat /\ Cardinality(PlacesElse(fw, f, m)) \in Nat
          /\ Cardinality(Places(fw, m)) = Cardinality(PlacesElse(fw, f, m)) + Occurrences(fw[f].buf, m)
        BY <1>3, PlacesSplit
    <2>4. fw'[f].buf \in Seq(Sources) /\ Len(fw'[f].buf) <= Buffer
        BY <1>1, <1>3
    <2>5. /\ Cardinality(Places(fw', m)) \in Nat
          /\ Cardinality(Places(fw', m)) = Cardinality(PlacesElse(fw', f, m)) + Occurrences(fw'[f].buf, m)
        BY <2>4, PlacesSplit
    <2>6. Occurrences(fw[f].buf, m) \in Nat /\ Occurrences(r.buf, m) \in Nat
        BY <1>3, OccurrencesType
    <2> QED BY <1>1, <2>1, <2>2, <2>3, <2>5, <2>6
<1>5. ASSUME NEW m
      PROVE  /\ Cardinality(Working(m)) \in Nat /\ Cardinality(Working(m)') \in Nat
             /\ Cardinality(Working(m)') + (IF fw[f].cur = m THEN 1 ELSE 0)
                  = Cardinality(Working(m)) + (IF r.cur = m THEN 1 ELSE 0)
    <2>1. IsFiniteSet(Working(m)) /\ IsFiniteSet(Working(m)')
        BY FS_Subset, DeadLettersAssumption DEF Working
    <2>2. Working(m) \ {f} = Working(m)' \ {f}
        BY <1>1 DEF Working
    <2>3. (f \in Working(m) <=> fw[f].cur = m) /\ (f \in Working(m)' <=> r.cur = m)
        BY <1>1 DEF Working
    <2> QED BY <2>1, <2>2, <2>3, OneElement
<1> QED BY <1>1, <1>2, <1>4, <1>5

(* The sum of the counts says where each advisory is, so that it stays equal *)
(* to the number sent when one count falls and another grows.                *)
LEMMA OutcomeKeeps ==
    ASSUME DeadLettersInv, NEW f \in Forwarders,
           fw[f].pc \in {"forward", "publish"}, fw' = Rest(f),
           NEW o \in Outcomes, Tell(fw[f].cur, o),
           UNCHANGED <<advised, expiries>>, UNCHANGED <<dlq, window>> \/ Stored(fw[f].cur),
           o = "rescued" => Stored(fw[f].cur)
    PROVE  DeadLettersInv'
<1>0. PICK c \in Sources : c = fw[f].cur
    BY DEF DeadLettersInv, DeadLettersTypeOK, AtWork
<1> DEFINE r == [fw[f] EXCEPT !.pc = "run", !.cur = 0, !.attempt = 0]
<1>1. fw[f] \in Forwarder
    BY DEF DeadLettersInv, DeadLettersTypeOK
<1>2. r \in Forwarder /\ r.buf = fw[f].buf /\ r.cur = 0 /\ r.pc = "run"
    BY <1>1 DEF Forwarder
<1>3. fw' = [fw EXCEPT ![f] = r]
    BY DEF Rest, DeadLettersInv, DeadLettersTypeOK
<1>4. 0 \notin Sources
    BY DeadLettersAssumption
<1> HIDE DEF r
<1>5. /\ fw' \in [Forwarders -> Forwarder] /\ AtWork'
      /\ \A m \in Sources : /\ Cardinality(Waiting(m)) \in Nat
                            /\ Cardinality(Waiting(m)') = Cardinality(Waiting(m))
      /\ \A m \in Sources :
            /\ Cardinality(Working(m)) \in Nat
            /\ Cardinality(Working(m)') \in Nat
            /\ Cardinality(Working(m)') + (IF c = m THEN 1 ELSE 0) = Cardinality(Working(m))
    <2>1. r.cur \in Sources <=> r.pc \in {"forward", "publish"}
        BY <1>2, <1>4
    <2>2. /\ fw' \in [Forwarders -> Forwarder] /\ AtWork'
          /\ \A m : /\ Cardinality(Waiting(m)) \in Nat /\ Cardinality(Waiting(m)') \in Nat
                    /\ Occurrences(fw[f].buf, m) \in Nat /\ Occurrences(r.buf, m) \in Nat
                    /\ Cardinality(Waiting(m)') + Occurrences(fw[f].buf, m)
                         = Cardinality(Waiting(m)) + Occurrences(r.buf, m)
          /\ \A m : /\ Cardinality(Working(m)) \in Nat /\ Cardinality(Working(m)') \in Nat
                    /\ Cardinality(Working(m)') + (IF fw[f].cur = m THEN 1 ELSE 0)
                         = Cardinality(Working(m)) + (IF r.cur = m THEN 1 ELSE 0)
        BY <1>2, <1>3, <2>1, ForwarderChange
    <2> QED BY <1>0, <1>2, <1>4, <2>2
<1>6. /\ dlq' \in Seq(Sources) /\ window' \subseteq Sources /\ CopiesTell'
      /\ \A m \in Sources : Copies(m) \in Nat /\ Copies(m)' \in Nat /\ Copies(m)' >= Copies(m)
      /\ o = "rescued" => Copies(c)' > 0
    <2>1. CASE Stored(c)
        <3>1. UNCHANGED expiries
            OBVIOUS
        <3> QED BY <2>1, <3>1, StoredCounts
    <2>2. CASE UNCHANGED <<dlq, window>> /\ o # "rescued"
        <3>1. \A m : Copies(m)' = Copies(m)
            BY <2>2 DEF Copies
        <3>2. \A m : Copies(m) \in Nat
            BY OccurrencesType DEF Copies, DeadLettersInv, DeadLettersTypeOK
        <3> QED BY <2>2, <3>1, <3>2 DEF DeadLettersInv, DeadLettersTypeOK, CopiesTell
    <2> QED BY <1>0, <2>1, <2>2
<1>7. /\ told' \in [Sources -> [Outcomes -> Nat]]
      /\ \A m \in Sources : /\ Sum(told[m]) \in Nat
                            /\ Sum(told'[m]) = Sum(told[m]) + (IF m = c THEN 1 ELSE 0)
      /\ \A m \in Sources : told'[m]["rescued"] > 0 =>
            told[m]["rescued"] > 0 \/ (m = c /\ o = "rescued")
    BY <1>0, TellCounts
<1>8. DeadLettersTypeOK'
    BY <1>5, <1>6, <1>7 DEF DeadLettersInv, DeadLettersTypeOK
<1>9. RescueIsReal'
    <2> SUFFICES ASSUME NEW m \in Sources, told'[m]["rescued"] > 0 PROVE Copies(m)' > 0
        BY DEF RescueIsReal
    <2>1. CASE told[m]["rescued"] > 0
        <3>1. Copies(m) > 0
            BY <2>1 DEF DeadLettersInv, RescueIsReal
        <3> QED BY <1>6, <3>1
    <2>2. CASE m = c /\ o = "rescued"
        BY <1>6, <2>2
    <2> QED BY <1>7, <2>1, <2>2
<1>10. Accounted'
    <2> SUFFICES ASSUME NEW m \in Sources
                 PROVE  advised'[m] = Cardinality(Waiting(m)') + Cardinality(Working(m)') + Sum(told'[m])
        BY DEF Accounted
    <2>1. advised[m] = Cardinality(Waiting(m)) + Cardinality(Working(m)) + Sum(told[m])
        BY DEF DeadLettersInv, Accounted
    <2>2. CASE m = c
        BY <1>5, <1>7, <2>1, <2>2
    <2>3. CASE m # c
        BY <1>5, <1>7, <2>1, <2>3
    <2> QED BY <2>2, <2>3
<1> QED BY <1>5, <1>6, <1>8, <1>9, <1>10 DEF DeadLettersInv

(* A forwarder step that only moves its program counter, stop flag or attempt. *)
LEMMA QuietKeeps ==
    ASSUME DeadLettersInv, NEW f \in Forwarders, NEW r \in Forwarder,
           fw' = [fw EXCEPT ![f] = r], r.cur = fw[f].cur, r.buf = fw[f].buf,
           r.pc \in {"forward", "publish"} <=> fw[f].pc \in {"forward", "publish"},
           r.pc = "off" => fw[f].pc = "off",
           UNCHANGED <<advised, expiries, told>>,
           dlq' \in Seq(Sources), window' \subseteq Sources, CopiesTell',
           \A m \in Sources : Copies(m)' > 0 \/ ~(Copies(m) > 0)
    PROVE  DeadLettersInv'
<1>1. (r.cur \in Sources <=> r.pc \in {"forward", "publish"}) /\ (r.pc = "off" => r.buf = <<>>)
    BY DEF DeadLettersInv, AtWork
<1>2. /\ fw' \in [Forwarders -> Forwarder] /\ AtWork'
      /\ \A m : /\ Cardinality(Waiting(m)) \in Nat /\ Cardinality(Waiting(m)') \in Nat
                /\ Occurrences(fw[f].buf, m) \in Nat /\ Occurrences(r.buf, m) \in Nat
                /\ Cardinality(Waiting(m)') + Occurrences(fw[f].buf, m)
                     = Cardinality(Waiting(m)) + Occurrences(r.buf, m)
      /\ \A m : /\ Cardinality(Working(m)) \in Nat /\ Cardinality(Working(m)') \in Nat
                /\ Cardinality(Working(m)') + (IF fw[f].cur = m THEN 1 ELSE 0)
                     = Cardinality(Working(m)) + (IF r.cur = m THEN 1 ELSE 0)
    BY <1>1, ForwarderChange
<1>3. ASSUME NEW m
      PROVE  Cardinality(Waiting(m)') = Cardinality(Waiting(m)) /\ Cardinality(Working(m)') = Cardinality(Working(m))
    BY <1>2
<1>4. Accounted'
    BY <1>3 DEF DeadLettersInv, Accounted
<1>5. RescueIsReal'
    BY DEF DeadLettersInv, RescueIsReal
<1>6. DeadLettersTypeOK'
    BY <1>2 DEF DeadLettersInv, DeadLettersTypeOK
<1> QED BY <1>2, <1>4, <1>5, <1>6 DEF DeadLettersInv

(* Where fw, dlq and the counters do not change, the invariant stays. *)
LEMMA StillKeeps ==
    ASSUME DeadLettersInv, UNCHANGED <<advised, fw, dlq, window, expiries, told>>
    PROVE  DeadLettersInv'
BY DEF DeadLettersInv, DeadLettersTypeOK, AtWork, CopiesTell, Copies, RescueIsReal, Accounted,
       Waiting, Working

(* The copies do not change with the dead-letter stream. *)
LEMMA CopiesStay ==
    ASSUME DeadLettersInv, UNCHANGED <<dlq, window, expiries>>
    PROVE  /\ dlq' \in Seq(Sources) /\ window' \subseteq Sources /\ CopiesTell'
           /\ \A m \in Sources : Copies(m)' = Copies(m) /\ (Copies(m)' > 0 \/ ~(Copies(m) > 0))
BY DEF DeadLettersInv, DeadLettersTypeOK, CopiesTell, Copies

(* An advisory goes into a buffer or is dropped. *)
LEMMA AdviseKeeps ==
    ASSUME DeadLettersInv, NEW c \in Sources, Advise(c)
    PROVE  DeadLettersInv'
<1> USE DEF Advise
<1>1. /\ advised \in [Sources -> Nat] /\ advised' \in [Sources -> Nat]
      /\ \A m \in Sources : advised'[m] = advised[m] + (IF m = c THEN 1 ELSE 0)
    BY DEF DeadLettersInv, DeadLettersTypeOK
<1>2. /\ dlq' \in Seq(Sources) /\ window' \subseteq Sources /\ CopiesTell'
      /\ \A m \in Sources : Copies(m)' = Copies(m)
    BY CopiesStay
<1>3. \A m \in Sources : advised[m] = Cardinality(Waiting(m)) + Cardinality(Working(m)) + Sum(told[m])
    BY DEF DeadLettersInv, Accounted
<1>4. \A m \in Sources : Sum(told[m]) \in Nat
    <2>1. \A m \in Sources : \A o \in Outcomes : told[m][o] \in Nat
        BY DEF DeadLettersInv, DeadLettersTypeOK
    <2> QED BY <2>1 DEF Sum, Outcomes
<1>5. ASSUME NEW f \in Forwarders, fw[f].pc # "off", Len(fw[f].buf) < Buffer,
             fw' = [fw EXCEPT ![f].buf = Append(@, c)], UNCHANGED told
      PROVE  DeadLettersInv'
    <2> DEFINE r == [fw[f] EXCEPT !.buf = Append(fw[f].buf, c)]
    <2>1. fw[f] \in Forwarder /\ fw' = [fw EXCEPT ![f] = r]
        BY <1>5 DEF DeadLettersInv, DeadLettersTypeOK
    <2>2. /\ fw[f].buf \in Seq(Sources) /\ Append(fw[f].buf, c) \in Seq(Sources)
          /\ Len(Append(fw[f].buf, c)) <= Buffer
        BY <1>5, <2>1, AppendProperties, LenProperties, DeadLettersAssumption DEF Forwarder
    <2>3. /\ r \in Forwarder /\ r.buf = Append(fw[f].buf, c)
          /\ r.cur = fw[f].cur /\ r.pc = fw[f].pc
        BY <2>1, <2>2 DEF Forwarder
    <2> HIDE DEF r
    <2>4. (r.cur \in Sources <=> r.pc \in {"forward", "publish"}) /\ r.pc # "off"
        BY <1>5, <2>3 DEF DeadLettersInv, AtWork
    <2>5. /\ fw' \in [Forwarders -> Forwarder] /\ AtWork'
          /\ \A m : /\ Cardinality(Waiting(m)) \in Nat /\ Cardinality(Waiting(m)') \in Nat
                    /\ Occurrences(fw[f].buf, m) \in Nat /\ Occurrences(r.buf, m) \in Nat
                    /\ Cardinality(Waiting(m)') + Occurrences(fw[f].buf, m)
                         = Cardinality(Waiting(m)) + Occurrences(r.buf, m)
          /\ \A m : /\ Cardinality(Working(m)) \in Nat /\ Cardinality(Working(m)') \in Nat
                    /\ Cardinality(Working(m)') + (IF fw[f].cur = m THEN 1 ELSE 0)
                         = Cardinality(Working(m)) + (IF r.cur = m THEN 1 ELSE 0)
        BY <2>1, <2>3, <2>4, ForwarderChange
    <2>6. ASSUME NEW m \in Sources
          PROVE  advised'[m] = Cardinality(Waiting(m)') + Cardinality(Working(m)') + Sum(told'[m])
        <3>1. Occurrences(r.buf, m) = Occurrences(fw[f].buf, m) + (IF c = m THEN 1 ELSE 0)
            BY <2>2, <2>3, OccurrencesAppend
        <3>2. Cardinality(Waiting(m)') = Cardinality(Waiting(m)) + (IF c = m THEN 1 ELSE 0)
            BY <2>5, <3>1
        <3>3. Cardinality(Working(m)') = Cardinality(Working(m))
            BY <2>3, <2>5
        <3>4. Sum(told'[m]) = Sum(told[m])
            BY <1>5
        <3>5. /\ advised'[m] = advised[m] + (IF m = c THEN 1 ELSE 0) /\ Sum(told[m]) \in Nat
              /\ advised[m] = Cardinality(Waiting(m)) + Cardinality(Working(m)) + Sum(told[m])
              /\ Cardinality(Waiting(m)) \in Nat /\ Cardinality(Working(m)) \in Nat
            BY <1>1, <1>3, <1>4, <2>5
        <3> QED BY <3>2, <3>3, <3>4, <3>5
    <2>7. DeadLettersTypeOK' /\ RescueIsReal'
        BY <1>1, <1>2, <1>5, <2>5 DEF DeadLettersInv, DeadLettersTypeOK, RescueIsReal
    <2> QED BY <1>2, <2>5, <2>6, <2>7 DEF DeadLettersInv, Accounted
<1>6. ASSUME Tell(c, "dropped"), UNCHANGED fw
      PROVE  DeadLettersInv'
    <2>1. /\ told' \in [Sources -> [Outcomes -> Nat]]
          /\ \A m \in Sources : Sum(told'[m]) = Sum(told[m]) + (IF m = c THEN 1 ELSE 0)
          /\ \A m \in Sources : told'[m]["rescued"] > 0 => told[m]["rescued"] > 0
        BY <1>6, TellCounts DEF Outcomes
    <2>2. \A m : Waiting(m)' = Waiting(m) /\ Working(m)' = Working(m)
        BY <1>6 DEF Waiting, Working
    <2>3. ASSUME NEW m \in Sources
          PROVE  advised'[m] = Cardinality(Waiting(m)') + Cardinality(Working(m)') + Sum(told'[m])
        <3>1. advised[m] \in Nat /\ Sum(told[m]) \in Nat
            BY <1>1, <1>4
        <3>2. IsFiniteSet(Working(m))
            BY FS_Subset, DeadLettersAssumption DEF Working
        <3>3. IsFiniteSet(Waiting(m))
            <4>1. IsFiniteSet(1 .. Buffer)
                BY FS_Interval, DeadLettersAssumption
            <4>2. IsFiniteSet(Forwarders \X (1 .. Buffer))
                BY <4>1, FS_Product, DeadLettersAssumption
            <4> QED BY <4>2, FS_Subset DEF Waiting
        <3>4. Cardinality(Working(m)) \in Nat /\ Cardinality(Waiting(m)) \in Nat
            BY <3>2, <3>3, FS_CardinalityType
        <3> QED BY <1>1, <1>3, <2>1, <2>2, <3>1, <3>4
    <2>4. DeadLettersTypeOK' /\ RescueIsReal' /\ AtWork'
        BY <1>1, <1>2, <1>6, <2>1 DEF DeadLettersInv, DeadLettersTypeOK, RescueIsReal, AtWork
    <2> QED BY <1>2, <2>3, <2>4 DEF DeadLettersInv, Accounted
<1> QED BY <1>5, <1>6

(* What a stopped forwarder still has in its buffer counts as dropped. *)
LEMMA RunReturnsKeeps ==
    ASSUME DeadLettersInv, NEW f \in Forwarders, RunReturns(f)
    PROVE  DeadLettersInv'
<1> USE DEF RunReturns
<1>1. /\ dlq' \in Seq(Sources) /\ window' \subseteq Sources /\ CopiesTell'
      /\ \A m \in Sources : Copies(m)' = Copies(m)
    BY CopiesStay
<1>2. /\ Off \in Forwarder /\ Off.cur = 0 /\ Off.buf = <<>> /\ Off.pc = "off" /\ 0 \notin Sources
    BY EmptySeq, DeadLettersAssumption DEF Off, Forwarder
<1>3. /\ fw' \in [Forwarders -> Forwarder] /\ AtWork'
      /\ \A m : /\ Cardinality(Waiting(m)) \in Nat /\ Cardinality(Waiting(m)') \in Nat
                /\ Occurrences(fw[f].buf, m) \in Nat /\ Occurrences(Off.buf, m) \in Nat
                /\ Cardinality(Waiting(m)') + Occurrences(fw[f].buf, m)
                     = Cardinality(Waiting(m)) + Occurrences(Off.buf, m)
      /\ \A m : /\ Cardinality(Working(m)) \in Nat /\ Cardinality(Working(m)') \in Nat
                /\ Cardinality(Working(m)') + (IF fw[f].cur = m THEN 1 ELSE 0)
                     = Cardinality(Working(m)) + (IF Off.cur = m THEN 1 ELSE 0)
    <2>1. Off.cur \in Sources <=> Off.pc \in {"forward", "publish"}
        BY <1>2
    <2>2. fw' = [fw EXCEPT ![f] = Off]
        OBVIOUS
    <2> QED BY <1>2, <2>1, <2>2, ForwarderChange
<1>4. fw[f].cur \notin Sources
    BY DEF DeadLettersInv, AtWork
<1>5. ASSUME NEW m \in Sources
      PROVE  /\ told[m] \in [Outcomes -> Nat] /\ told'[m] \in [Outcomes -> Nat]
             /\ told'[m]["rescued"] = told[m]["rescued"]
             /\ Sum(told[m]) \in Nat
             /\ Sum(told'[m]) = Sum(told[m]) + Occurrences(fw[f].buf, m)
    <2>1. told[m] \in [Outcomes -> Nat]
        BY DEF DeadLettersInv, DeadLettersTypeOK
    <2>2. told'[m] = [told[m] EXCEPT !["dropped"] = told[m]["dropped"] + Occurrences(fw[f].buf, m)]
        BY DEF InBuf
    <2>3. Occurrences(fw[f].buf, m) \in Nat
        BY <1>3
    <2>4. \A o \in Outcomes : told[m][o] \in Nat
        BY <2>1
    <2>5. told'[m] \in [Outcomes -> Nat]
        BY <2>1, <2>2, <2>3, <2>4 DEF Outcomes
    <2>6. /\ told'[m]["rescued"] = told[m]["rescued"] /\ told'[m]["skipped"] = told[m]["skipped"]
          /\ told'[m]["failed"] = told[m]["failed"]
          /\ told'[m]["dropped"] = told[m]["dropped"] + Occurrences(fw[f].buf, m)
        BY <2>1, <2>2 DEF Outcomes
    <2> QED BY <2>1, <2>3, <2>4, <2>5, <2>6 DEF Sum, Outcomes
<1>6. told' \in [Sources -> [Outcomes -> Nat]]
    <2>1. told' = [m \in Sources |-> told'[m]]
        OBVIOUS
    <2> QED BY <1>5, <2>1
<1>7. ASSUME NEW m \in Sources
      PROVE  advised'[m] = Cardinality(Waiting(m)') + Cardinality(Working(m)') + Sum(told'[m])
    <2>1. Occurrences(Off.buf, m) = 0
        BY <1>2, OccurrencesEmpty
    <2>2. Cardinality(Working(m)') = Cardinality(Working(m))
        BY <1>2, <1>3, <1>4
    <2>3. advised'[m] = Cardinality(Waiting(m)) + Cardinality(Working(m)) + Sum(told[m])
        BY DEF DeadLettersInv, Accounted
    <2>4. Cardinality(Waiting(m)') + Occurrences(fw[f].buf, m) = Cardinality(Waiting(m))
        BY <1>3, <2>1
    <2> QED BY <1>3, <1>5, <2>2, <2>3, <2>4
<1>8. DeadLettersTypeOK' /\ RescueIsReal'
    BY <1>1, <1>3, <1>5, <1>6 DEF DeadLettersInv, DeadLettersTypeOK, RescueIsReal
<1> QED BY <1>1, <1>3, <1>7, <1>8 DEF DeadLettersInv, Accounted

(* An advisory moves from the buffer into work. *)
LEMMA HandleKeeps ==
    ASSUME DeadLettersInv, NEW f \in Forwarders, Handle(f)
    PROVE  DeadLettersInv'
<1> USE DEF Handle
<1>1. /\ dlq' \in Seq(Sources) /\ window' \subseteq Sources /\ CopiesTell'
      /\ \A m \in Sources : Copies(m)' = Copies(m)
    BY CopiesStay
<1> DEFINE r == [fw[f] EXCEPT !.pc = "forward", !.cur = Head(fw[f].buf), !.buf = Tail(fw[f].buf)]
<1>2. fw[f] \in Forwarder /\ fw' = [fw EXCEPT ![f] = r]
    BY DEF DeadLettersInv, DeadLettersTypeOK
<1>3. /\ fw[f].buf \in Seq(Sources) /\ fw[f].buf # <<>> /\ Len(fw[f].buf) <= Buffer
      /\ fw[f].cur \notin Sources
    BY <1>2 DEF Forwarder, DeadLettersInv, AtWork
<1>4. /\ Head(fw[f].buf) \in Sources /\ Tail(fw[f].buf) \in Seq(Sources)
      /\ Len(Tail(fw[f].buf)) <= Buffer
    BY <1>3, HeadTailProperties, LenProperties, DeadLettersAssumption
<1>5. /\ r \in Forwarder /\ r.buf = Tail(fw[f].buf) /\ r.cur = Head(fw[f].buf) /\ r.pc = "forward"
    BY <1>2, <1>4 DEF Forwarder
<1> HIDE DEF r
<1>6. /\ fw' \in [Forwarders -> Forwarder] /\ AtWork'
      /\ \A m : /\ Cardinality(Waiting(m)) \in Nat /\ Cardinality(Waiting(m)') \in Nat
                /\ Occurrences(fw[f].buf, m) \in Nat /\ Occurrences(r.buf, m) \in Nat
                /\ Cardinality(Waiting(m)') + Occurrences(fw[f].buf, m)
                     = Cardinality(Waiting(m)) + Occurrences(r.buf, m)
      /\ \A m : /\ Cardinality(Working(m)) \in Nat /\ Cardinality(Working(m)') \in Nat
                /\ Cardinality(Working(m)') + (IF fw[f].cur = m THEN 1 ELSE 0)
                     = Cardinality(Working(m)) + (IF r.cur = m THEN 1 ELSE 0)
    <2>1. r.cur \in Sources <=> r.pc \in {"forward", "publish"}
        BY <1>4, <1>5
    <2> QED BY <1>2, <1>5, <2>1, ForwarderChange, ZenonT(30)
<1>7. ASSUME NEW m \in Sources
      PROVE  advised'[m] = Cardinality(Waiting(m)') + Cardinality(Working(m)') + Sum(told'[m])
    <2>1. Occurrences(fw[f].buf, m) = Occurrences(r.buf, m) + (IF r.cur = m THEN 1 ELSE 0)
        BY <1>3, <1>5, OccurrencesTail
    <2>2. Cardinality(Working(m)') = Cardinality(Working(m)) + (IF r.cur = m THEN 1 ELSE 0)
        BY <1>3, <1>6
    <2>3. Cardinality(Waiting(m)') + (IF r.cur = m THEN 1 ELSE 0) = Cardinality(Waiting(m))
        BY <1>6, <2>1
    <2>4. advised'[m] = Cardinality(Waiting(m)) + Cardinality(Working(m)) + Sum(told'[m])
        BY DEF DeadLettersInv, Accounted
    <2>5. Cardinality(Waiting(m)') + Cardinality(Working(m)') = Cardinality(Waiting(m)) + Cardinality(Working(m))
        BY <1>6, <2>2, <2>3
    <2> QED BY <2>4, <2>5
<1>8. DeadLettersTypeOK' /\ RescueIsReal'
    BY <1>1, <1>6 DEF DeadLettersInv, DeadLettersTypeOK, RescueIsReal
<1> QED BY <1>1, <1>6, <1>7, <1>8 DEF DeadLettersInv, Accounted

(* The window of remembered ids ends: the copy it stood for is counted by expiries. *)
LEMMA WindowEndsKeeps ==
    ASSUME DeadLettersInv, NEW c \in Sources, WindowEnds(c)
    PROVE  DeadLettersInv'
<1> USE DEF WindowEnds
<1>1. /\ expiries' \in [Sources -> Nat] /\ window' \subseteq Sources
      /\ \A m \in Sources : expiries'[m] = expiries[m] + (IF m = c THEN 1 ELSE 0)
    BY DEF DeadLettersInv, DeadLettersTypeOK
<1>2. \A m : Copies(m)' = Copies(m)
    BY DEF Copies
<1>3. ASSUME NEW m \in Sources
      PROVE  Copies(m)' = expiries'[m] + (IF m \in window' THEN 1 ELSE 0)
    <2>1. Copies(m) = expiries[m] + (IF m \in window THEN 1 ELSE 0) /\ expiries[m] \in Nat
        BY DEF DeadLettersInv, DeadLettersTypeOK, CopiesTell
    <2>2. m \in window' <=> m \in window /\ m # c
        OBVIOUS
    <2> QED BY <1>1, <1>2, <2>1, <2>2
<1>4. DeadLettersTypeOK'
    BY <1>1 DEF DeadLettersInv, DeadLettersTypeOK
<1>5. AtWork' /\ RescueIsReal' /\ Accounted'
    BY <1>2 DEF DeadLettersInv, AtWork, RescueIsReal, Accounted, Waiting, Working
<1> QED BY <1>3, <1>4, <1>5 DEF DeadLettersInv, CopiesTell

(* A forwarder starts with an empty buffer and no message. *)
LEMMA StartKeeps ==
    ASSUME DeadLettersInv, NEW f \in Forwarders, StartDLQForwarder(f)
    PROVE  DeadLettersInv'
<1> DEFINE r == [Off EXCEPT !.pc = "run"]
<1>1. fw[f] \in Forwarder /\ fw[f].buf = <<>> /\ fw[f].cur \notin Sources /\ fw[f].pc = "off"
    BY DEF StartDLQForwarder, DeadLettersInv, DeadLettersTypeOK, AtWork
<1>2. fw[f].cur = 0
    BY <1>1 DEF Forwarder
<1>3. r \in Forwarder /\ r.cur = fw[f].cur /\ r.buf = fw[f].buf /\ r.pc = "run"
    BY <1>1, <1>2, EmptySeq, DeadLettersAssumption DEF Off, Forwarder
<1>4. fw' = [fw EXCEPT ![f] = r] /\ UNCHANGED <<advised, expiries, told, dlq, window>>
    BY DEF StartDLQForwarder
<1> HIDE DEF r
<1> QED BY <1>1, <1>3, <1>4, CopiesStay, QuietKeeps

(* A failed attempt may have stored the message; it is repeated or given up. *)
LEMMA PublishFailsKeeps ==
    ASSUME DeadLettersInv, NEW f \in Forwarders, PublishFails(f)
    PROVE  DeadLettersInv'
<1> USE DEF PublishFails
<1>1. PICK c \in Sources : c = fw[f].cur
    BY DEF DeadLettersInv, AtWork
<1>2. /\ dlq' \in Seq(Sources) /\ window' \subseteq Sources /\ CopiesTell'
      /\ \A m \in Sources : Copies(m)' > 0 \/ ~(Copies(m) > 0)
    <2>1. CASE Stored(c)
        <3>1. \A m \in Sources : Copies(m) \in Nat /\ Copies(m)' \in Nat /\ Copies(m)' >= Copies(m)
            BY <2>1, StoredCounts
        <3> QED BY <2>1, <3>1, StoredCounts
    <2>2. CASE UNCHANGED <<dlq, window>>
        BY <2>2, CopiesStay
    <2> QED BY <1>1, <2>1, <2>2
<1>3. CASE fw[f].attempt + 1 < Attempts
    <2> DEFINE r == [fw[f] EXCEPT !.attempt = fw[f].attempt + 1]
    <2>1. fw[f] \in Forwarder /\ fw' = [fw EXCEPT ![f] = r] /\ UNCHANGED <<told, advised, expiries>>
        BY <1>3 DEF DeadLettersInv, DeadLettersTypeOK
    <2>2. /\ r \in Forwarder /\ r.cur = fw[f].cur /\ r.buf = fw[f].buf /\ r.pc = fw[f].pc
        BY <2>1 DEF Forwarder
    <2> HIDE DEF r
    <2> QED BY <1>2, <2>1, <2>2, QuietKeeps
<1>4. CASE ~(fw[f].attempt + 1 < Attempts)
    <2>1. fw' = Rest(f) /\ Tell(fw[f].cur, "failed") /\ UNCHANGED <<advised, expiries>>
        BY <1>4
    <2>2. UNCHANGED <<dlq, window>> \/ Stored(fw[f].cur)
        OBVIOUS
    <2> QED BY <2>1, <2>2, OutcomeKeeps DEF Outcomes
<1> QED BY <1>3, <1>4

(* Every step of JetStream and of the forwarders keeps the invariant. *)
LEMMA DeadLettersStep ==
    ASSUME DeadLettersInv, [DeadLettersNext]_deadVars PROVE DeadLettersInv'
<1>1. ASSUME NEW c \in Sources, Advise(c) PROVE DeadLettersInv'
    BY <1>1, AdviseKeeps
<1>2. ASSUME NEW c \in Sources, AgeOut(c) PROVE DeadLettersInv'
    BY <1>2, StillKeeps DEF AgeOut
<1>3. ASSUME NEW c \in Sources, WindowEnds(c) PROVE DeadLettersInv'
    BY <1>3, WindowEndsKeeps
<1>4. ASSUME NEW f \in Forwarders, StartDLQForwarder(f) PROVE DeadLettersInv'
    BY <1>4, StartKeeps
<1>5. ASSUME NEW f \in Forwarders, StopForwarder(f) PROVE DeadLettersInv'
    <2> DEFINE r == [fw[f] EXCEPT !.stop = TRUE]
    <2>1. fw[f] \in Forwarder /\ fw' = [fw EXCEPT ![f] = r]
        BY <1>5 DEF StopForwarder, DeadLettersInv, DeadLettersTypeOK
    <2>2. r \in Forwarder /\ r.cur = fw[f].cur /\ r.buf = fw[f].buf /\ r.pc = fw[f].pc
        BY <2>1 DEF Forwarder
    <2> HIDE DEF r
    <2>3. UNCHANGED <<advised, expiries, told, dlq, window>>
        BY <1>5 DEF StopForwarder
    <2> QED BY <2>1, <2>2, <2>3, CopiesStay, QuietKeeps
<1>6. ASSUME NEW f \in Forwarders, RunReturns(f) PROVE DeadLettersInv'
    BY <1>6, RunReturnsKeeps
<1>7. ASSUME NEW f \in Forwarders, Handle(f) PROVE DeadLettersInv'
    BY <1>7, HandleKeeps
<1>8. ASSUME NEW f \in Forwarders, Skip(f) PROVE DeadLettersInv'
    BY <1>8, OutcomeKeeps DEF Skip, Outcomes
<1>9. ASSUME NEW f \in Forwarders, ForwardFails(f) PROVE DeadLettersInv'
    BY <1>9, OutcomeKeeps DEF ForwardFails, Outcomes
<1>10. ASSUME NEW f \in Forwarders, Fetch(f) PROVE DeadLettersInv'
    <2> DEFINE r == [fw[f] EXCEPT !.pc = "publish"]
    <2>1. fw[f] \in Forwarder /\ fw' = [fw EXCEPT ![f] = r] /\ fw[f].pc = "forward"
        BY <1>10 DEF Fetch, DeadLettersInv, DeadLettersTypeOK
    <2>2. r \in Forwarder /\ r.cur = fw[f].cur /\ r.buf = fw[f].buf /\ r.pc = "publish"
        BY <2>1 DEF Forwarder
    <2> HIDE DEF r
    <2>3. UNCHANGED <<advised, expiries, told, dlq, window>>
        BY <1>10 DEF Fetch
    <2> QED BY <2>1, <2>2, <2>3, CopiesStay, QuietKeeps
<1>11. ASSUME NEW f \in Forwarders, PublishAcked(f) PROVE DeadLettersInv'
    BY <1>11, OutcomeKeeps DEF PublishAcked, Outcomes
<1>12. ASSUME NEW f \in Forwarders, PublishFails(f) PROVE DeadLettersInv'
    BY <1>12, PublishFailsKeeps
<1>13. ASSUME NEW f \in Forwarders, PublishStopped(f) PROVE DeadLettersInv'
    BY <1>13, OutcomeKeeps DEF PublishStopped, Outcomes
<1>14. CASE UNCHANGED deadVars
    BY <1>14, StillKeeps DEF deadVars
<1> QED BY <1>1, <1>2, <1>3, <1>4, <1>5, <1>6, <1>7, <1>8, <1>9, <1>10, <1>11, <1>12, <1>13, <1>14
        DEF DeadLettersNext, ForwarderStep

---------------------------------------------------------------------------
(* The theorems *)

(* The rescue is idempotent: a message is in the dead-letter stream once per *)
(* window of remembered ids, however many forwarders handle it, however      *)
(* often it is advised and whichever acknowledgements of publishToDLQ are    *)
(* lost.                                                                     *)
THEOREM DeadLettersOnce == DeadLettersSpec => []RescuedOnce
<1>1. DeadLettersInit => DeadLettersInv
    BY DeadLettersInitial
<1>2. DeadLettersInv /\ [DeadLettersNext]_deadVars => DeadLettersInv'
    BY DeadLettersStep
<1>3. DeadLettersInv => RescuedOnce
    <2> SUFFICES ASSUME DeadLettersInv, NEW m \in Sources PROVE Copies(m) <= 1 + expiries[m]
        BY DEF RescuedOnce
    <2>1. expiries[m] \in Nat /\ Copies(m) = expiries[m] + (IF m \in window THEN 1 ELSE 0)
        BY DEF DeadLettersInv, DeadLettersTypeOK, CopiesTell
    <2> QED BY <2>1
<1> QED BY <1>1, <1>2, <1>3, PTL DEF DeadLettersSpec

(* Every advisory is in a buffer, in work, or has exactly one outcome, and   *)
(* none is reported rescued whose message is not in the dead-letter stream.  *)
THEOREM DeadLettersAccounted == DeadLettersSpec => []RescueAccounted
<1>1. DeadLettersInit => DeadLettersInv
    BY DeadLettersInitial
<1>2. DeadLettersInv /\ [DeadLettersNext]_deadVars => DeadLettersInv'
    BY DeadLettersStep
<1>3. DeadLettersInv => RescueAccounted
    <2> SUFFICES ASSUME DeadLettersInv PROVE RescueAccounted
        OBVIOUS
    <2>1. ASSUME NEW m \in Sources
          PROVE  advised[m] = Cardinality(Waiting(m)) + Cardinality(Working(m))
                              + told[m]["rescued"] + told[m]["skipped"]
                              + told[m]["failed"] + told[m]["dropped"]
        <3>1. advised[m] = Cardinality(Waiting(m)) + Cardinality(Working(m)) + Sum(told[m])
            BY DEF DeadLettersInv, Accounted
        <3>2. \A o \in Outcomes : told[m][o] \in Nat
            BY DEF DeadLettersInv, DeadLettersTypeOK
        <3>3. IsFiniteSet(Working(m))
            BY FS_Subset, DeadLettersAssumption DEF Working
        <3>4. IsFiniteSet(1 .. Buffer)
            BY FS_Interval, DeadLettersAssumption
        <3>5. IsFiniteSet(Forwarders \X (1 .. Buffer))
            BY <3>4, FS_Product, DeadLettersAssumption
        <3>6. IsFiniteSet(Waiting(m))
            BY <3>5, FS_Subset DEF Waiting
        <3>7. Cardinality(Working(m)) \in Nat /\ Cardinality(Waiting(m)) \in Nat
            BY <3>3, <3>6, FS_CardinalityType
        <3> QED BY <3>1, <3>2, <3>7 DEF Sum, Outcomes
    <2>2. \A m \in Sources : told[m]["rescued"] > 0 => Copies(m) > 0
        BY DEF DeadLettersInv, RescueIsReal
    <2> QED BY <2>1, <2>2 DEF RescueAccounted
<1> QED BY <1>1, <1>2, <1>3, PTL DEF DeadLettersSpec

---------------------------------------------------------------------------
(* The logs of a run: types *)

Kinds == {"own", "other", "bad", "terminal"}
Statuses == {"PENDING", "RUNNING", "COMPLETED", "FAILED", "CANCELLED"}
Reported == {"", "Started", "TaskScheduled", "Running", "Completed", "Failed", "Terminated", "Succeeded",
             "Error", "Skipped"}
Line == [from : {"app"}, what : Nat] \cup [from : {"engine"}, what : Statuses]
Consumer(M) == [start : Nat, delivered : [M -> Nat], acked : SUBSET M]

HandlerTypes ==
    /\ scenario \in Scenarios /\ hist \in Seq(Reported) /\ gone \in BOOLEAN
    /\ app \in [pc : {"none", "subscribe", "range", "send", "done"}, ev : Nat]
    /\ handler \in [pc : {"resolve", "watch", "send", "wait", "returned"}, seen : Nat,
                    err : {"none", "notfound", "cancelled", "unavailable"}]
    /\ writer \in {"none", "app", "engine"} /\ out \in Seq(Line)

(* The goroutines that write: who holds the mutex writes, and the handler *)
(* has waited for the follower.                                            *)
Writers ==
    /\ writer = "app" => app.pc = "send"
    /\ writer = "engine" => handler.pc = "send"
    /\ handler.pc = "returned" => app.pc = "done"
    /\ handler.pc = "resolve" => app.pc = "none"

(* The history ends with its terminal event, and the handler is within it. *)
Watched ==
    /\ handler.seen <= Len(hist)
    /\ handler.pc = "send" => handler.seen > 0
    /\ \A i \in 1 .. Len(hist) : IsTerminal(StatusOf(hist[i])) => i = Len(hist)

(* How the stream of the engine ended; a terminal status is sent only then. *)
Truth ==
    /\ handler.pc \in {"wait", "returned"} =>
         /\ handler.err = "none" => Ended /\ EngineSaidLast(StatusOf(Last(hist)))
         /\ handler.err = "notfound" => hist = << >> \/ gone
    /\ EngineSaidEnd => /\ handler.pc \in {"wait", "returned"}
                        /\ Ended /\ EngineSaidLast(StatusOf(Last(hist)))

HandlerInv == HandlerTypes /\ Writers /\ Watched /\ Truth

---------------------------------------------------------------------------
(* The handler *)

(* Watch stops at the events that end the run. *)
LEMMA LastEnds == ASSUME NEW e PROVE LastEvent(e) <=> IsTerminal(StatusOf(e))
<1>1. IsTerminalHistoryEvent(e) <=> IsTerminal(HistoryEventStatus(e))
    BY DEF IsTerminalHistoryEvent, HistoryEventStatus, IsTerminal
<1> QED BY <1>1 DEF LastEvent, StatusOf

(* What the engine reports of an event. *)
LEMMA StatusWord == ASSUME NEW e PROVE StatusOf(e) \in Statuses
<1>1. HistoryEventStatus(e) \in Statuses
    BY DEF HistoryEventStatus, Statuses
<1>2. mapArgoPhase(e) \in Statuses
    BY DEF mapArgoPhase, Statuses
<1> QED BY <1>1, <1>2 DEF StatusOf

(* A line of the follower leaves what the engine said last. *)
LEMMA SaidKept ==
    ASSUME out \in Seq(Line), NEW x \in Line, x.from = "app", out' = Append(out, x),
           NEW status, EngineSaidLast(status)
    PROVE  EngineSaidLast(status)'
<1>1. /\ Len(out) \in Nat /\ DOMAIN out = 1 .. Len(out) /\ DOMAIN out' = 1 .. Len(out) + 1
      /\ out'[Len(out) + 1] = x /\ \A i \in 1 .. Len(out) : out'[i] = out[i]
    BY AppendProperties, LenProperties
<1>2. PICK i \in DOMAIN out : /\ out[i].from = "engine" /\ out[i].what = status
                              /\ \A j \in DOMAIN out : j > i => out[j].from # "engine"
    BY DEF EngineSaidLast
<1>3. i \in DOMAIN out' /\ out'[i].from = "engine" /\ out'[i].what = status
    BY <1>1, <1>2
<1>4. ASSUME NEW j \in DOMAIN out', j > i PROVE out'[j].from # "engine"
    <2>1. CASE j = Len(out) + 1
        BY <1>1, <2>1
    <2>2. CASE j # Len(out) + 1
        <3>1. j \in DOMAIN out
            BY <1>1, <2>2
        <3>2. out'[j] = out[j]
            BY <1>1, <3>1
        <3> QED BY <1>2, <1>4, <3>1, <3>2
    <2> QED BY <2>1, <2>2
<1> QED BY <1>3, <1>4 DEF EngineSaidLast

(* A line that is not a terminal status of the engine says no end. *)
LEMMA EndSaidBefore ==
    ASSUME out \in Seq(Line), NEW x \in Line, out' = Append(out, x),
           x.from = "engine" => ~IsTerminal(x.what), EngineSaidEnd'
    PROVE  EngineSaidEnd
<1>1. /\ Len(out) \in Nat /\ DOMAIN out = 1 .. Len(out) /\ DOMAIN out' = 1 .. Len(out) + 1
      /\ out'[Len(out) + 1] = x /\ \A i \in 1 .. Len(out) : out'[i] = out[i]
    BY AppendProperties, LenProperties
<1>2. PICK i \in DOMAIN out' : out'[i].from = "engine" /\ IsTerminal(out'[i].what)
    BY DEF EngineSaidEnd
<1>3. i # Len(out) + 1
    BY <1>1, <1>2
<1>4. i \in DOMAIN out
    BY <1>1, <1>3
<1>5. out'[i] = out[i]
    BY <1>1, <1>4
<1> QED BY <1>2, <1>4, <1>5 DEF EngineSaidEnd

(* What the engine says is what it said last. *)
LEMMA SaidNow ==
    ASSUME out \in Seq(Line), NEW status \in Statuses,
           out' = Append(out, [from |-> "engine", what |-> status])
    PROVE  EngineSaidLast(status)'
<1> DEFINE x == [from |-> "engine", what |-> status]
<1>1. x \in Line
    BY DEF Line
<1>2. Len(out) \in Nat /\ DOMAIN out' = 1 .. Len(out) + 1 /\ out'[Len(out) + 1] = x
    BY <1>1, AppendProperties, LenProperties
<1>3. Len(out) + 1 \in DOMAIN out' /\ \A j \in DOMAIN out' : ~(j > Len(out) + 1)
    BY <1>2
<1> QED BY <1>2, <1>3 DEF EngineSaidLast

(* Nothing is known of a handler that still watches. *)
LEMMA HandlerInitial == Init => HandlerInv
<1> SUFFICES ASSUME Init PROVE HandlerInv
    OBVIOUS
<1>1. hist \in Seq(Reported) /\ (Len(hist) = 0 \/ Len(hist) = 1)
    <2>1. << >> \in Seq(Reported) /\ Len(<< >>) = 0
        BY EmptySeq
    <2>2. ASSUME NEW x \in Reported PROVE <<x>> \in Seq(Reported) /\ Len(<<x>>) = 1
        <3>1. <<x>> = Append(<< >>, x)
            BY EmptySeq
        <3> QED BY <2>1, <3>1, AppendProperties
    <2>3. "Started" \in Reported /\ "" \in Reported
        BY DEF Reported
    <2>4. hist = << >> \/ hist = <<"Started">> \/ hist = <<"">>
        BY DEF Init
    <2> QED BY <2>1, <2>2, <2>3, <2>4
<1>2. HandlerTypes
    <2>1. out \in Seq(Line)
        BY EmptySeq DEF Init
    <2>2. /\ scenario \in Scenarios /\ gone = FALSE /\ app = [pc |-> "none", ev |-> 0]
          /\ handler = [pc |-> "resolve", seen |-> 0, err |-> "none"] /\ writer = "none"
        BY DEF Init
    <2>3. gone \in BOOLEAN
        BY <2>2
    <2> QED BY <1>1, <2>1, <2>2, <2>3 DEF HandlerTypes
<1>3. Writers /\ Truth
    <2>1. /\ app.pc = "none" /\ handler.pc = "resolve" /\ writer = "none" /\ out = << >>
        BY DEF Init
    <2>2. DOMAIN out = {}
        BY <2>1, EmptySeq
    <2> QED BY <2>1, <2>2 DEF Writers, Truth, EngineSaidEnd
<1>4. Watched
    <2>1. \A i \in 1 .. Len(hist) : i = Len(hist)
        <3> DEFINE n == Len(hist)
        <3>1. n = 0 \/ n = 1
            BY <1>1
        <3> HIDE DEF n
        <3>2. \A i \in 1 .. n : i = n
            BY <3>1
        <3> QED BY <3>2 DEF n
    <2>2. handler.seen = 0 /\ handler.pc = "resolve"
        BY DEF Init
    <2>3. 0 <= Len(hist)
        BY <1>1
    <2> QED BY <2>1, <2>2, <2>3 DEF Watched
<1> QED BY <1>2, <1>3, <1>4 DEF HandlerInv

(* A step of others leaves it. *)
LEMMA HandlerQuiet ==
    ASSUME HandlerInv, UNCHANGED <<scenario, hist, gone, app, handler, writer, out>>
    PROVE  HandlerInv'
<1>1. HandlerTypes' /\ Writers'
    BY DEF HandlerInv, HandlerTypes, Writers
<1>2. Watched'
    BY DEF HandlerInv, Watched, StatusOf, engine
<1>3. Truth'
    BY DEF HandlerInv, Truth, EngineSaidEnd, EngineSaidLast, Ended, StatusOf, engine
<1> QED BY <1>1, <1>2, <1>3 DEF HandlerInv

(* A step of the run: its history goes on until the event that ends it. *)
LEMMA HandlerRunStep ==
    ASSUME HandlerInv, NEW e \in Progress \cup Ends, RunStep(e) PROVE HandlerInv'
<1> DEFINE n == Len(hist)
<1>1. /\ hist \in Seq(Reported) /\ hist # << >> /\ ~Ended /\ ~gone /\ hist' = Append(hist, e)
      /\ UNCHANGED <<scenario, gone, app, handler, writer, out>>
    BY DEF RunStep, HandlerInv, HandlerTypes
<1>2. e \in Reported
    BY DEF Progress, Ends, Reported
<1>3. /\ n \in Nat /\ n > 0 /\ hist' \in Seq(Reported) /\ Len(hist') = n + 1
      /\ \A i \in 1 .. n : hist'[i] = hist[i]
    BY <1>1, <1>2, AppendProperties, LenProperties, EmptySeq
<1>4. \A x : StatusOf(x)' = StatusOf(x)
    BY <1>1 DEF StatusOf, engine
<1>5. ~IsTerminal(StatusOf(hist[n]))
    BY <1>1 DEF Ended, Last
<1>6. HandlerTypes' /\ Writers'
    BY <1>1, <1>3 DEF HandlerInv, HandlerTypes, Writers
<1>7. Watched'
    <2>1. handler.seen \in Nat /\ handler.seen <= n
        BY DEF HandlerInv, HandlerTypes, Watched
    <2>2. \A i \in 1 .. n : ~IsTerminal(StatusOf(hist[i]))
        BY <1>5 DEF HandlerInv, Watched
    <2> HIDE DEF n
    <2>3. \A i \in 1 .. n + 1 : i \in 1 .. n \/ i = n + 1
        BY <1>3
    <2>4. \A i \in 1 .. n + 1 : IsTerminal(StatusOf(hist'[i])) => i = n + 1
        BY <1>3, <2>2, <2>3
    <2>5. (handler.seen <= n + 1)
        BY <1>3, <2>1
    <2>6. \A i \in 1 .. n + 1 : IsTerminal(StatusOf(hist[i]))' => i = n + 1
        BY <1>1, <2>4 DEF IsTerminal, StatusOf, engine
    <2>7. handler' = handler /\ (handler.pc = "send" => handler.seen > 0)
        BY <1>1 DEF HandlerInv, Watched
    <2> QED BY <1>3, <2>5, <2>6, <2>7 DEF Watched
<1>8. Truth'
    BY <1>1 DEF HandlerInv, Truth, EngineSaidEnd
<1> QED BY <1>6, <1>7, <1>8 DEF HandlerInv

(* The resource is deleted. *)
LEMMA HandlerDelete == ASSUME HandlerInv, CancelDelete PROVE HandlerInv'
<1>1. gone' /\ gone' \in BOOLEAN /\ UNCHANGED <<scenario, hist, app, handler, writer, out>>
    BY DEF CancelDelete
<1>2. HandlerTypes' /\ Writers'
    BY <1>1 DEF HandlerInv, HandlerTypes, Writers
<1>3. Watched'
    BY <1>1 DEF HandlerInv, Watched, StatusOf, engine
<1>4. Truth'
    BY <1>1 DEF HandlerInv, Truth, EngineSaidEnd, EngineSaidLast, Ended, StatusOf, engine
<1> QED BY <1>2, <1>3, <1>4 DEF HandlerInv

(* A step of the follower, which writes only what it holds the mutex for. *)
LEMMA HandlerFollows ==
    ASSUME HandlerInv, UNCHANGED <<scenario, hist, gone, handler, writer, out>>, writer # "app",
           app.pc \in {"subscribe", "range"}, app' \in [pc : {"none", "subscribe", "range", "send", "done"}, ev : Nat]
    PROVE  HandlerInv'
<1>1. HandlerTypes' /\ Writers'
    BY DEF HandlerInv, HandlerTypes, Writers
<1>2. Watched'
    BY DEF HandlerInv, Watched, StatusOf, engine
<1>3. Truth'
    BY DEF HandlerInv, Truth, EngineSaidEnd, EngineSaidLast, Ended, StatusOf, engine
<1> QED BY <1>1, <1>2, <1>3 DEF HandlerInv

(* The follower writes an event. *)
LEMMA HandlerAppSend == ASSUME HandlerInv, AppSend PROVE HandlerInv'
<1> DEFINE x == [from |-> "app", what |-> app.ev]
<1>1. /\ app.pc = "send" /\ writer = "app" /\ writer' = "none" /\ out' = Append(out, x)
      /\ app' = [pc |-> "range", ev |-> 0] /\ UNCHANGED <<scenario, hist, gone, handler>>
    BY DEF AppSend, Send, runVars
<1>2. app.ev \in Nat /\ out \in Seq(Line)
    BY DEF HandlerInv, HandlerTypes
<1>3. x \in Line /\ x.from = "app"
    BY <1>2 DEF Line
<1>4. out' \in Seq(Line)
    BY <1>1, <1>2, <1>3, AppendProperties
<1>5. \A s : EngineSaidLast(s) => EngineSaidLast(s)'
    BY <1>1, <1>2, <1>3, SaidKept
<1>6. HandlerTypes' /\ Writers'
    BY <1>1, <1>4 DEF HandlerInv, HandlerTypes, Writers
<1>7. Watched'
    BY <1>1 DEF HandlerInv, Watched, StatusOf, engine
<1>8. Truth'
    <2>1. StatusOf(Last(hist))' = StatusOf(Last(hist)) /\ (Ended' <=> Ended)
        BY <1>1 DEF StatusOf, engine, Ended
    <2>2. EngineSaidLast(StatusOf(Last(hist))) => EngineSaidLast(StatusOf(Last(hist)))'
        BY <1>5, <2>1 DEF EngineSaidLast
    <2>3. EngineSaidEnd' => EngineSaidEnd
        BY <1>1, <1>2, <1>3, EndSaidBefore
    <2> QED BY <1>1, <2>1, <2>2, <2>3 DEF HandlerInv, Truth
<1> QED BY <1>6, <1>7, <1>8 DEF HandlerInv

(* The handler writes an event of the run, and ends with the last one. *)
LEMMA HandlerHandlerSend == ASSUME HandlerInv, HandlerSend PROVE HandlerInv'
<1> DEFINE e == hist[handler.seen]
           x == [from |-> "engine", what |-> StatusOf(e)]
<1>1. /\ handler.pc = "send" /\ writer = "engine" /\ writer' = "none" /\ out' = Append(out, x)
      /\ UNCHANGED <<scenario, hist, gone, app>>
      /\ IF LastEvent(e)
         THEN \E err \in {"none", "cancelled", "unavailable"} :
                handler' = [handler EXCEPT !.pc = "wait", !.err = err]
         ELSE handler' = [handler EXCEPT !.pc = "watch"]
    BY DEF HandlerSend, Send, runVars, StreamEnds, EndWatch, GoTo
<1>2. out \in Seq(Line) /\ x \in Line
    BY StatusWord DEF HandlerInv, HandlerTypes, Line
<1>3. out' \in Seq(Line)
    BY <1>1, <1>2, AppendProperties
<1>4. /\ handler' \in [pc : {"resolve", "watch", "send", "wait", "returned"}, seen : Nat,
                       err : {"none", "notfound", "cancelled", "unavailable"}]
      /\ handler'.pc \in {"watch", "wait"} /\ handler'.seen = handler.seen
      /\ handler'.pc = "wait" <=> LastEvent(e)
      /\ handler'.pc = "wait" => handler'.err # "notfound"
    <2>1. handler \in [pc : {"resolve", "watch", "send", "wait", "returned"}, seen : Nat,
                       err : {"none", "notfound", "cancelled", "unavailable"}]
        BY DEF HandlerInv, HandlerTypes
    <2>2. CASE LastEvent(e)
        BY <1>1, <2>1, <2>2
    <2>3. CASE ~LastEvent(e)
        BY <1>1, <2>1, <2>3
    <2> QED BY <2>2, <2>3
<1>5. HandlerTypes' /\ Writers'
    BY <1>1, <1>3, <1>4 DEF HandlerInv, HandlerTypes, Writers
<1>6. Watched'
    BY <1>1, <1>4 DEF HandlerInv, Watched, StatusOf, engine
<1>7. Truth'
    <2>0. ~EngineSaidEnd
        BY <1>1 DEF HandlerInv, Truth
    <2>1. ~IsTerminal(StatusOf(e)) => ~EngineSaidEnd'
        BY <1>1, <1>2, <2>0, EndSaidBefore
    <2>x. LastEvent(e) <=> IsTerminal(StatusOf(e))
        BY LastEnds
    <2> SUFFICES ASSUME IsTerminal(StatusOf(e))
                 PROVE  Ended' /\ EngineSaidLast(StatusOf(Last(hist)))'
        BY <1>4, <2>1, <2>x DEF Truth
    <2>2. handler.seen \in 1 .. Len(hist) /\ Len(hist) \in Nat
        BY <1>1, LenProperties DEF HandlerInv, HandlerTypes, Watched
    <2>3. handler.seen = Len(hist)
        BY <2>2 DEF HandlerInv, Watched
    <2>4. Last(hist) = e /\ hist # << >>
        BY <2>2, <2>3, EmptySeq DEF Last
    <2>5. Ended
        BY <2>4 DEF Ended
    <2>6. Ended' /\ StatusOf(Last(hist))' = StatusOf(e)
        BY <1>1, <2>4, <2>5 DEF Ended, StatusOf, engine
    <2>7. StatusOf(e) \in Statuses
        BY StatusWord
    <2> DEFINE w == StatusOf(e)
    <2> HIDE DEF e
    <2>8. PICK v \in Statuses : v = w
        BY <2>7
    <2>9. EngineSaidLast(v)'
        BY <1>1, <1>2, <2>8, SaidNow
    <2> QED BY <2>6, <2>8, <2>9 DEF EngineSaidLast
<1> QED BY <1>5, <1>6, <1>7 DEF HandlerInv

(* The handler goes on without writing. *)
LEMMA HandlerMoves ==
    ASSUME HandlerInv, UNCHANGED <<scenario, hist, gone, app, writer, out>>, writer # "engine",
           handler' \in [pc : {"resolve", "watch", "send", "wait", "returned"}, seen : Nat,
                         err : {"none", "notfound", "cancelled", "unavailable"}],
           handler'.pc # "resolve", handler'.pc = "returned" => app.pc = "done",
           handler.pc \in {"wait", "returned"} => handler'.pc \in {"wait", "returned"},
           handler'.seen <= Len(hist), handler'.pc = "send" => handler'.seen > 0,
           handler'.pc \in {"wait", "returned"} =>
              \/ handler.pc \in {"wait", "returned"} /\ handler'.err = handler.err
              \/ handler'.err # "none" /\ (handler'.err = "notfound" => hist = << >> \/ gone)
    PROVE  HandlerInv'
<1>1. HandlerTypes' /\ Writers'
    BY DEF HandlerInv, HandlerTypes, Writers
<1>2. Watched'
    BY DEF HandlerInv, Watched, StatusOf, engine
<1>3. Truth'
    BY DEF HandlerInv, Truth, EngineSaidEnd, EngineSaidLast, Ended, StatusOf, engine
<1> QED BY <1>1, <1>2, <1>3 DEF HandlerInv

(* The mutex is taken. *)
LEMMA HandlerLocks ==
    ASSUME HandlerInv, UNCHANGED <<scenario, hist, gone, app, handler, out>>,
           (writer' = "app" /\ app.pc = "send") \/ (writer' = "engine" /\ handler.pc = "send")
    PROVE  HandlerInv'
<1>1. HandlerTypes' /\ Writers'
    BY DEF HandlerInv, HandlerTypes, Writers
<1>2. Watched'
    BY DEF HandlerInv, Watched, StatusOf, engine
<1>3. Truth'
    BY DEF HandlerInv, Truth, EngineSaidEnd, EngineSaidLast, Ended, StatusOf, engine
<1> QED BY <1>1, <1>2, <1>3 DEF HandlerInv

(* Every step keeps the invariant of the handler. The channel carries numbers *)
(* of messages.                                                               *)
LEMMA HandlerStepKeeps == HandlerInv /\ ch \in Seq(Nat) /\ [Next]_vars => HandlerInv'
<1> SUFFICES ASSUME HandlerInv, ch \in Seq(Nat), [Next]_vars PROVE HandlerInv'
    OBVIOUS
<1> USE DEF runVars, busVars, subVars
<1>t. /\ app \in [pc : {"none", "subscribe", "range", "send", "done"}, ev : Nat]
      /\ handler \in [pc : {"resolve", "watch", "send", "wait", "returned"}, seen : Nat,
                      err : {"none", "notfound", "cancelled", "unavailable"}]
      /\ hist \in Seq(Reported)
    BY DEF HandlerInv, HandlerTypes
<1>w. /\ writer = "app" => app.pc = "send"
      /\ writer = "engine" => handler.pc = "send"
      /\ handler.pc = "returned" => app.pc = "done"
      /\ handler.seen <= Len(hist)
    BY DEF HandlerInv, Writers, Watched
<1>1. CASE \E e \in Progress \cup Ends : RunStep(e)
    BY <1>1, HandlerRunStep
<1>2. CASE CancelCheck \/ PublishTaskEvent \/ PublishLifecycleEventActivity \/ PublishUndecodable
          \/ Disconnect \/ Stall \/ Resume
    <2>1. UNCHANGED <<scenario, hist, gone, app, handler, writer, out>>
        BY <1>2 DEF CancelCheck, PublishTaskEvent, PublishLifecycleEventActivity, PublishUndecodable, Publish,
                    Disconnect, Stall, Resume
    <2> QED BY <2>1, HandlerQuiet
<1>3. CASE CancelDelete
    BY <1>3, HandlerDelete
<1>4. CASE \E s \in Msgs : Push(s) \/ PushLost(s)
    <2>1. UNCHANGED <<scenario, hist, gone, app, handler, writer, out>>
        BY <1>4 DEF Push, PushLost, Deliver
    <2> QED BY <2>1, HandlerQuiet
<1>5. CASE SubStep \/ ConnectionClosed
    <2>1. UNCHANGED <<scenario, hist, gone, app, handler, writer, out>>
        BY <1>5 DEF SubStep, NextMsg, LoopEnds, ConnectionClosed, LoopStops, dispatchFiltered, dispatchSend,
                    dispatchCancelled
    <2> QED BY <2>1, HandlerQuiet
<1>6. CASE Subscribe \/ SubscribeCancelled \/ SubscribeFails
    <2>1. /\ app.pc = "subscribe" /\ UNCHANGED <<scenario, hist, gone, handler, writer, out>>
          /\ app' = [app EXCEPT !.pc = "range"] \/ app' = [app EXCEPT !.pc = "done"]
        BY <1>6 DEF Subscribe, SubscribeCancelled, SubscribeFails, SubscribeEnds
    <2>2. app' \in [pc : {"none", "subscribe", "range", "send", "done"}, ev : Nat]
        BY <1>t, <2>1
    <2> QED BY <1>w, <2>1, <2>2, HandlerFollows
<1>7. CASE Range1
    <2>1. app.pc = "range" /\ UNCHANGED <<scenario, hist, gone, handler, writer, out>>
        BY <1>7 DEF Range1
    <2>2. app' \in [pc : {"none", "subscribe", "range", "send", "done"}, ev : Nat]
        <3>1. CASE ch # << >> /\ app' = [pc |-> "send", ev |-> Head(ch)]
            <4>1. Head(ch) \in Nat
                BY <3>1, HeadTailProperties
            <4> QED BY <3>1, <4>1
        <3>2. CASE app' = [app EXCEPT !.pc = "done"]
            BY <1>t, <3>2
        <3> QED BY <1>7, <3>1, <3>2 DEF Range1
    <2> QED BY <1>w, <2>1, <2>2, HandlerFollows
<1>8. CASE AppLock
    BY <1>8, HandlerLocks DEF AppLock, Acquire
<1>9. CASE AppSend
    BY <1>9, HandlerAppSend
<1>10. CASE Resolve
    <2>1. /\ handler.pc = "resolve" /\ handler' = [handler EXCEPT !.pc = "watch"]
          /\ app' = [app EXCEPT !.pc = "subscribe"] /\ UNCHANGED <<scenario, hist, gone, writer, out>>
        BY <1>10 DEF Resolve, GoTo
    <2>2. app.pc = "none"
        BY <2>1 DEF HandlerInv, Writers
    <2>3. HandlerTypes'
        BY <2>1 DEF HandlerInv, HandlerTypes
    <2>4. handler'.pc = "watch" /\ handler'.seen = handler.seen /\ app'.pc = "subscribe"
        BY <1>t, <2>1
    <2>5. Writers' /\ Truth'
        BY <1>w, <2>1, <2>2, <2>4 DEF HandlerInv, Writers, Truth, EngineSaidEnd
    <2>6. Watched'
        BY <2>1, <2>4 DEF HandlerInv, Watched, StatusOf, engine
    <2> QED BY <2>3, <2>5, <2>6 DEF HandlerInv
<1>11. CASE Watch
    <2>1. /\ handler.pc = "watch" /\ UNCHANGED <<scenario, hist, gone, app, writer, out>>
          /\ hist # << >>
          /\ IF engine = "temporal" THEN handler.seen < Len(hist) ELSE TRUE
          /\ handler' = [handler EXCEPT !.pc = "send",
                            !.seen = IF engine = "temporal" THEN @ + 1 ELSE Len(hist)]
        BY <1>11 DEF Watch
    <2>2. Len(hist) \in Nat /\ Len(hist) > 0
        BY <1>t, <2>1, LenProperties, EmptySeq
    <2>3. handler'.seen \in Nat /\ handler'.seen <= Len(hist) /\ handler'.seen > 0
        <3>1. CASE engine = "temporal"
            <4>1. handler'.seen = handler.seen + 1 /\ handler.seen < Len(hist) /\ handler.seen \in Nat
                BY <1>t, <2>1, <3>1
            <4> QED BY <2>2, <4>1
        <3>2. CASE engine # "temporal"
            <4>1. handler'.seen = Len(hist)
                BY <1>t, <2>1, <3>2
            <4> QED BY <2>2, <4>1
        <3> QED BY <3>1, <3>2
    <2>4. /\ handler' \in [pc : {"resolve", "watch", "send", "wait", "returned"}, seen : Nat,
                           err : {"none", "notfound", "cancelled", "unavailable"}]
          /\ handler'.pc = "send"
        BY <1>t, <2>1, <2>3
    <2> QED BY <1>w, <2>1, <2>3, <2>4, HandlerMoves
<1>12. CASE HandlerLock
    BY <1>12, HandlerLocks DEF HandlerLock, Acquire
<1>13. CASE HandlerSend
    BY <1>13, HandlerHandlerSend
<1>14. CASE WatchNotFound \/ WatchCancelled \/ WatchBreaks
    <2>1. PICK err \in {"notfound", "cancelled", "unavailable"} :
             /\ handler.pc = "watch" /\ UNCHANGED <<scenario, hist, gone, app, writer, out>>
             /\ handler' = [handler EXCEPT !.pc = "wait", !.err = err]
             /\ err = "notfound" => hist = << >> \/ gone
        BY <1>14 DEF WatchNotFound, WatchCancelled, WatchBreaks, WatchEnds, EndWatch
    <2>2. /\ handler' \in [pc : {"resolve", "watch", "send", "wait", "returned"}, seen : Nat,
                           err : {"none", "notfound", "cancelled", "unavailable"}]
          /\ handler'.pc = "wait" /\ handler'.err = err /\ handler'.seen = handler.seen
        BY <1>t, <2>1
    <2> QED BY <1>w, <2>1, <2>2, HandlerMoves
<1>15. CASE Return
    <2>1. /\ handler.pc = "wait" /\ UNCHANGED <<scenario, hist, gone, app, writer, out>>
          /\ app.pc = "done" /\ handler' = [handler EXCEPT !.pc = "returned"]
        BY <1>15 DEF Return, GoTo
    <2>2. /\ handler' \in [pc : {"resolve", "watch", "send", "wait", "returned"}, seen : Nat,
                           err : {"none", "notfound", "cancelled", "unavailable"}]
          /\ handler'.pc = "returned" /\ handler'.err = handler.err /\ handler'.seen = handler.seen
        BY <1>t, <2>1
    <2> QED BY <1>w, <2>1, <2>2, HandlerMoves
<1>16. CASE UNCHANGED vars
    BY <1>16, HandlerQuiet DEF vars
<1> QED BY <1>1, <1>2, <1>3, <1>4, <1>5, <1>6, <1>7, <1>8, <1>9, <1>10, <1>11, <1>12, <1>13, <1>14, <1>15,
           <1>16 DEF Next, AppStep, HandlerStep

(* The answer tells what the handler found. *)
LEMMA AnswerTruthful == HandlerInv => EndIsTruthful
<1> SUFFICES ASSUME HandlerInv PROVE EndIsTruthful
    OBVIOUS
<1>1. /\ EngineSaidEnd => Ended /\ EngineSaidLast(StatusOf(Last(hist)))
      /\ handler.pc = "returned" =>
           /\ handler.err = "none" => Ended /\ EngineSaidLast(StatusOf(Last(hist)))
           /\ handler.err = "notfound" => hist = << >> \/ gone
    BY DEF HandlerInv, Truth
<1>2. handler.err \in {"none", "notfound", "cancelled", "unavailable"}
    BY DEF HandlerInv, HandlerTypes
<1>3. ASSUME NEW status, EngineSaidLast(status), IsTerminal(status) PROVE EngineSaidEnd /\ out # << >>
    <2>1. PICK i \in DOMAIN out : out[i].from = "engine" /\ out[i].what = status
        BY <1>3 DEF EngineSaidLast
    <2>2. out # << >>
        BY <2>1, EmptySeq
    <2> QED BY <1>3, <2>1, <2>2 DEF EngineSaidEnd
<1>4. Ended => IsTerminal(StatusOf(Last(hist)))
    BY DEF Ended
<1>5. handler.pc = "returned" /\ handler.err = "none" => EngineSaidEnd /\ out # << >>
    BY <1>1, <1>3, <1>4
<1>6. ASSUME handler.pc = "returned"
      PROVE  /\ Answer = "404" => hist = << >> \/ gone
             /\ Answer # "200"
             /\ handler.err # "none" \/ EngineSaidEnd
    <2>1. CASE out # << >>
        BY <1>5, <1>6, <2>1 DEF Answer
    <2>2. CASE out = << >>
        BY <1>1, <1>2, <1>5, <1>6, <2>2 DEF Answer
    <2> QED BY <2>1, <2>2
<1> QED BY <1>1, <1>6 DEF EndIsTruthful

---------------------------------------------------------------------------
(* The subscription *)

FollowTypes ==
    /\ scenario \in Scenarios /\ log \in Seq(Kinds) /\ Len(log) <= Len(scenario.script)
    /\ cons \in Consumer(Msgs) /\ hand \in Msgs \cup {0}
    /\ inbox \in Seq(Msgs) /\ handed \in Seq(Msgs)
    /\ sub \in {"none", "loop", "dispatch", "stopped"}

(* Every message that moves is in the stream. *)
Known ==
    /\ \A s \in cons.acked : s <= Len(log)
    /\ \A i \in DOMAIN inbox : inbox[i] <= Len(log)
    /\ \A i \in DOMAIN handed : handed[i] <= Len(log)
    /\ hand <= Len(log)

(* The goroutine has a consumer while it runs, and a message while it     *)
(* dispatches; it puts nothing into the channel before.                   *)
Running ==
    /\ sub \in {"loop", "dispatch"} <=> cons.start > 0
    /\ sub = "dispatch" <=> hand > 0
    /\ sub \notin {"loop", "dispatch"} => cons = NoConsumer /\ inbox = << >>
    /\ sub = "none" => handed = << >>
    /\ app.pc \in {"none", "subscribe"} => sub = "none"

(* That a message is an event, that none of its deliveries was lost, and where *)
(* it may be.                                                                  *)
Own(s) == s <= Len(log) /\ log[s] \in {"own", "terminal"}
Due(s) == Own(s) /\ s \notin missed
Handed(s) == \E i \in DOMAIN handed : handed[i] = s
Waits(s) == \E k \in DOMAIN inbox : inbox[k] = s

(* An event whose deliveries all arrived was handed over, is in hand or waits. *)
Delivered ==
    cons.start > 0 =>
        /\ \A s \in Msgs : cons.delivered[s] > 0 => cons.start <= s /\ s <= Len(log)
        /\ \A s \in Msgs : Due(s) /\ cons.delivered[s] > 0 => Handed(s) \/ s = hand \/ Waits(s)
        /\ \A i \in DOMAIN handed : cons.start <= handed[i]
        /\ hand > 0 => cons.start <= hand
        /\ \A k \in DOMAIN inbox : cons.start <= inbox[k]

(* Before an event come all earlier ones of the subscription that are due. *)
Earlier(s, t) == cons.start <= s /\ s < t /\ Due(s)
InOrder ==
    cons.start > 0 =>
        /\ \A i \in DOMAIN handed : \A s \in Msgs : Earlier(s, handed[i]) => Handed(s)
        /\ \A s \in Msgs : Earlier(s, hand) => Handed(s)
        /\ \A k \in DOMAIN inbox : \A s \in Msgs :
              Earlier(s, inbox[k]) => Handed(s) \/ s = hand \/ \E m \in 1 .. k - 1 : inbox[m] = s

(* Everything handed over is an event, the terminal one the last of a scoped *)
(* subscription; first occurrences are in order but for messages of which a  *)
(* delivery was lost; what was acknowledged was                              *)
(* handed over.                                                              *)
FirstInOrder(h, m) ==
    \A i \in DOMAIN h : \A j \in DOMAIN h : h[i] < h[j] /\ h[i] \notin m => \E k \in 1 .. j - 1 : h[k] = h[i]
HandedWell ==
    /\ \A i \in DOMAIN handed : Own(handed[i])
    /\ \A i \in DOMAIN handed : Closes(handed[i]) => sub = "stopped" /\ i = Len(handed)
    /\ FirstInOrder(handed, missed)
    /\ \A s \in cons.acked : Own(s) => Handed(s)

(* No event is handed over more often than it was delivered. *)
One(b) == IF b THEN 1 ELSE 0
Counted ==
    cons.start > 0 =>
        \A s \in Msgs :
            Occurrences(handed, s) + Occurrences(inbox, s) + One(hand = s) <= cons.delivered[s]

SubInv == FollowTypes /\ Known /\ Running /\ Delivered /\ InOrder /\ HandedWell /\ Counted

(* Messages are numbers. *)
LEMMA MessageNumbers ==
    ASSUME scenario \in Scenarios
    PROVE  Len(scenario.script) \in Nat /\ Msgs = 1 .. Len(scenario.script) /\ Msgs \subseteq Nat \ {0}
<1>1. scenario.script \in Seq({"own", "other", "bad", "terminal"})
    BY LogFollowAssumption
<1>2. Len(scenario.script) \in Nat /\ Msgs = 1 .. Len(scenario.script)
    BY <1>1, LenProperties DEF Msgs
<1> QED BY <1>2

(* There is no subscription at first. *)
LEMMA SubInitial == Init => SubInv
<1> SUFFICES ASSUME Init PROVE SubInv
    OBVIOUS
<1>1. /\ scenario \in Scenarios /\ log = << >> /\ cons = NoConsumer /\ inbox = << >>
      /\ sub = "none" /\ hand = 0 /\ handed = << >>
    BY DEF Init
<1>2. Len(scenario.script) \in Nat /\ Msgs \subseteq Nat \ {0}
    BY <1>1, MessageNumbers
<1>3. NoConsumer \in Consumer(Msgs) /\ NoConsumer.start = 0 /\ NoConsumer.acked = {}
    BY DEF NoConsumer, Consumer
<1>4. FollowTypes
    <2>1. << >> \in Seq(Kinds) /\ << >> \in Seq(Msgs) /\ Len(<< >>) = 0
        BY EmptySeq
    <2> QED BY <1>1, <1>2, <1>3, <2>1 DEF FollowTypes
<1>5. Known /\ Running
    <2>1. 0 <= Len(log)
        BY <1>1, EmptySeq
    <2> QED BY <1>1, <1>3, <2>1 DEF Known, Running
<1>6. Delivered /\ InOrder /\ Counted
    BY <1>1, <1>3 DEF Delivered, InOrder, Counted
<1>7. HandedWell
    BY <1>1, <1>3 DEF HandedWell, FirstInOrder
<1> QED BY <1>4, <1>5, <1>6, <1>7 DEF SubInv

(* Steps of others leave the subscription. *)
LEMMA SubQuiet ==
    ASSUME SubInv, UNCHANGED <<scenario, log, cons, inbox, missed, sub, hand, handed>>,
           app'.pc \in {"none", "subscribe"} => sub = "none"
    PROVE  SubInv'
<1>1. FollowTypes' /\ Known' /\ Running'
    BY DEF SubInv, FollowTypes, Known, Running, Msgs, NoConsumer
<1>2. Delivered'
    BY DEF SubInv, Delivered, Due, Own, Handed, Waits, Msgs
<1>3. InOrder'
    BY DEF SubInv, InOrder, Earlier, Due, Own, Handed, Msgs
<1>4. HandedWell'
    BY DEF SubInv, HandedWell, Own, Handed, Closes, scoped
<1>5. Counted'
    BY DEF SubInv, Counted, Msgs
<1> QED BY <1>1, <1>2, <1>3, <1>4, <1>5 DEF SubInv

(* A message more in the stream changes nothing of those before. *)
LEMMA SubPublish ==
    ASSUME SubInv, NEW kinds \in SUBSET Kinds, Publish(kinds) PROVE SubInv'
<1> DEFINE n == Len(log)
<1>1. PICK x \in Kinds : log' = Append(log, x)
    BY DEF Publish
<1>2. n < Len(scenario.script) /\ UNCHANGED <<scenario, cons, inbox, missed, sub, hand, handed, app>>
    BY DEF Publish, runVars, subVars
<1>3. /\ log \in Seq(Kinds) /\ n \in Nat /\ log' \in Seq(Kinds) /\ Len(log') = n + 1
      /\ \A i \in 1 .. n : log'[i] = log[i]
    BY <1>1, AppendProperties, LenProperties DEF SubInv, FollowTypes
<1>4. Len(scenario.script) \in Nat /\ Msgs \subseteq Nat \ {0} /\ Msgs' = Msgs /\ NoConsumer' = NoConsumer
    BY <1>2, MessageNumbers DEF SubInv, FollowTypes, Msgs, NoConsumer
<1>5. \A s \in Msgs : s <= n => (Own(s)' <=> Own(s)) /\ (Due(s)' <=> Due(s))
    <2>1. \A s \in Msgs : s <= n => (Own(s)' <=> Own(s))
        BY <1>3, <1>4 DEF Own
    <2> QED BY <1>2, <2>1 DEF Due
<1>6. \A s \in Msgs : s <= n => s <= n + 1
    <2>1. n \in Nat /\ Msgs \subseteq Nat
        BY <1>3, <1>4
    <2> HIDE DEF n
    <2> QED BY <2>1
<1>t. /\ hand \in Msgs \cup {0} /\ cons.acked \subseteq Msgs
      /\ \A i \in DOMAIN inbox : inbox[i] \in Msgs /\ inbox[i] <= n
      /\ \A i \in DOMAIN handed : handed[i] \in Msgs /\ handed[i] <= n
      /\ \A s \in cons.acked : s <= n
      /\ hand <= n
    BY ElementOfSeq, LenProperties DEF SubInv, FollowTypes, Known, Consumer
<1>7. FollowTypes'
    <2>1. n + 1 <= Len(scenario.script)
        BY <1>2, <1>3, <1>4
    <2> QED BY <1>2, <1>3, <1>4, <2>1 DEF SubInv, FollowTypes
<1>8. Known'
    <2>1. hand <= n + 1
        <3>1. n \in Nat /\ Msgs \subseteq Nat
            BY <1>3, <1>4
        <3>2. hand \in Nat /\ hand <= n
            BY <1>t, <3>1
        <3> HIDE DEF n
        <3> QED BY <3>1, <3>2
    <2> QED BY <1>2, <1>3, <1>6, <1>t, <2>1 DEF Known
<1>9. Running'
    BY <1>2, <1>4 DEF SubInv, Running
<1>10. Delivered'
    <2> SUFFICES ASSUME cons.start > 0 PROVE Delivered'
        BY <1>2 DEF Delivered
    <2>1. \A s \in Msgs : cons.delivered[s] > 0 => cons.start <= s /\ s <= n
        BY DEF SubInv, Delivered
    <2>2. \A s : (Handed(s)' <=> Handed(s)) /\ (Waits(s)' <=> Waits(s))
        BY <1>2 DEF Handed, Waits
    <2>3. \A s \in Msgs : Due(s)' /\ cons.delivered[s] > 0 => Handed(s)' \/ s = hand \/ Waits(s)'
        BY <1>5, <2>1, <2>2 DEF SubInv, Delivered
    <2> HIDE DEF n
    <2> QED BY <1>2, <1>3, <1>4, <1>6, <2>1, <2>3 DEF SubInv, Delivered
<1>11. InOrder'
    <2> SUFFICES ASSUME cons.start > 0 PROVE InOrder'
        BY <1>2 DEF InOrder
    <2>1. \A s : Handed(s)' <=> Handed(s)
        BY <1>2 DEF Handed
    <2>2. ASSUME NEW t \in Msgs \cup {0}, t <= n, NEW s \in Msgs, Earlier(s, t)' PROVE Earlier(s, t)
        <3>1. cons.start <= s /\ s < t /\ Due(s)'
            BY <1>2, <2>2 DEF Earlier
        <3>2. s <= n
            <4>1. s \in Nat /\ t \in Nat
                BY <1>4, <2>2
            <4>2. n \in Nat /\ s < t /\ t <= n
                BY <1>3, <2>2, <3>1
            <4> HIDE DEF n
            <4> QED BY <4>1, <4>2
        <3> QED BY <1>5, <3>1, <3>2 DEF Earlier
    <2>3. \A i \in DOMAIN handed : \A s \in Msgs : Earlier(s, handed[i])' => Handed(s)
        BY <1>2, <1>t, <2>2 DEF SubInv, InOrder, Earlier
    <2>4. \A s \in Msgs : Earlier(s, hand)' => Handed(s)
        BY <1>2, <1>t, <2>2 DEF SubInv, InOrder, Earlier
    <2>5. \A k \in DOMAIN inbox : \A s \in Msgs :
              Earlier(s, inbox[k])' => Handed(s) \/ s = hand \/ \E m \in 1 .. k - 1 : inbox[m] = s
        BY <1>2, <1>t, <2>2 DEF SubInv, InOrder, Earlier
    <2> QED BY <1>2, <1>4, <2>1, <2>3, <2>4, <2>5 DEF InOrder
<1>12. HandedWell'
    <2>1. \A s : Handed(s)' <=> Handed(s)
        BY <1>2 DEF Handed
    <2>2. \A i \in DOMAIN handed : Own(handed[i])'
        BY <1>2, <1>5, <1>t DEF SubInv, HandedWell, Own
    <2>3. \A i \in DOMAIN handed : handed[i] \in 1 .. n
        <3>1. ASSUME NEW s \in Msgs, s <= n PROVE s \in 1 .. n
            <4>1. s \in Nat \ {0} /\ n \in Nat
                BY <1>3, <1>4
            <4> HIDE DEF n
            <4> QED BY <3>1, <4>1
        <3> QED BY <1>t, <3>1
    <2>4. \A i \in DOMAIN handed : Closes(handed[i])' <=> Closes(handed[i])
        BY <1>2, <1>3, <2>3 DEF Closes, scoped
    <2>5. \A s \in cons.acked : Own(s)' => Handed(s)
        BY <1>5, <1>t DEF SubInv, HandedWell
    <2> QED BY <1>2, <2>1, <2>2, <2>4, <2>5 DEF SubInv, HandedWell
<1>13. Counted'
    BY <1>2, <1>4 DEF SubInv, Counted
<1> QED BY <1>7, <1>8, <1>9, <1>10, <1>11, <1>12, <1>13 DEF SubInv

(* The types of SubInv, piece by piece. *)
LEMMA SubFacts ==
    ASSUME SubInv
    PROVE  /\ Msgs \subseteq Nat \ {0} /\ Len(log) \in Nat /\ hand \in Nat
           /\ cons.start \in Nat /\ cons.delivered \in [Msgs -> Nat] /\ cons.acked \subseteq Msgs
           /\ inbox \in Seq(Msgs) /\ Len(inbox) \in Nat /\ DOMAIN inbox = 1 .. Len(inbox)
           /\ \A k \in DOMAIN inbox : inbox[k] \in Msgs
           /\ handed \in Seq(Msgs) /\ Len(handed) \in Nat /\ DOMAIN handed = 1 .. Len(handed)
           /\ \A i \in DOMAIN handed : handed[i] \in Msgs
           /\ \A s : Occurrences(handed, s) \in Nat /\ Occurrences(inbox, s) \in Nat
<1>1. Msgs \subseteq Nat \ {0}
    BY MessageNumbers DEF SubInv, FollowTypes
<1>2. Len(log) \in Nat /\ hand \in Nat
    BY <1>1, LenProperties DEF SubInv, FollowTypes
<1>3. cons.start \in Nat /\ cons.delivered \in [Msgs -> Nat] /\ cons.acked \subseteq Msgs
    BY DEF SubInv, FollowTypes, Consumer
<1>4. /\ inbox \in Seq(Msgs) /\ Len(inbox) \in Nat /\ DOMAIN inbox = 1 .. Len(inbox)
      /\ \A k \in DOMAIN inbox : inbox[k] \in Msgs
    BY LenProperties, ElementOfSeq DEF SubInv, FollowTypes
<1>5. /\ handed \in Seq(Msgs) /\ Len(handed) \in Nat /\ DOMAIN handed = 1 .. Len(handed)
      /\ \A i \in DOMAIN handed : handed[i] \in Msgs
    BY LenProperties, ElementOfSeq DEF SubInv, FollowTypes
<1>6. \A s : Occurrences(handed, s) \in Nat /\ Occurrences(inbox, s) \in Nat
    BY <1>4, <1>5, OccurrencesType
<1> QED BY <1>1, <1>2, <1>3, <1>4, <1>5, <1>6

(* A delivery: the message waits after those before it. *)
LEMMA SubPush == ASSUME SubInv, NEW s \in Msgs, Push(s) PROVE SubInv'
<1> DEFINE n == Len(inbox)
<1>1. /\ cons.start > 0 /\ s \in cons.start .. Len(log)
      /\ \A r \in cons.start .. s - 1 : cons.delivered[r] > 0
      /\ cons' = [cons EXCEPT !.delivered[s] = @ + 1] /\ inbox' = Append(inbox, s)
      /\ UNCHANGED <<scenario, log, missed, sub, hand, handed, app>>
    BY DEF Push, Deliver, runVars, subVars
<1>f. /\ Msgs \subseteq Nat \ {0} /\ Len(log) \in Nat /\ hand \in Nat
      /\ cons.start \in Nat /\ cons.delivered \in [Msgs -> Nat]
      /\ inbox \in Seq(Msgs) /\ n \in Nat /\ DOMAIN inbox = 1 .. n
      /\ \A k \in DOMAIN inbox : inbox[k] \in Msgs
      /\ \A u : Occurrences(handed, u) \in Nat /\ Occurrences(inbox, u) \in Nat
    BY SubFacts
<1>2. /\ cons'.start = cons.start /\ cons'.acked = cons.acked
      /\ cons'.delivered = [cons.delivered EXCEPT ![s] = @ + 1] /\ cons' \in Consumer(Msgs)
    <2>1. cons \in [start : Nat, delivered : [Msgs -> Nat], acked : SUBSET Msgs]
        BY DEF SubInv, FollowTypes, Consumer
    <2>2. cons'.start = cons.start /\ cons'.acked = cons.acked
        BY <1>1, <2>1
    <2>3. cons'.delivered = [cons.delivered EXCEPT ![s] = @ + 1]
        BY <1>1, <2>1
    <2>4. cons'.delivered \in [Msgs -> Nat]
        BY <1>f, <2>3
    <2>5. cons' = [start |-> cons'.start, delivered |-> cons'.delivered, acked |-> cons'.acked]
        BY <1>1, <2>1
    <2> QED BY <2>1, <2>2, <2>3, <2>4, <2>5 DEF Consumer
<1>3. /\ \A u \in Msgs : u # s => cons'.delivered[u] = cons.delivered[u]
      /\ cons'.delivered[s] = cons.delivered[s] + 1 /\ cons.delivered[s] \in Nat
    BY <1>2, <1>f
<1>4. /\ inbox' \in Seq(Msgs) /\ Len(inbox') = n + 1 /\ DOMAIN inbox' = 1 .. n + 1
      /\ inbox'[n + 1] = s /\ \A k \in 1 .. n : inbox'[k] = inbox[k]
    BY <1>1, <1>f, AppendProperties, LenProperties
<1>5. Msgs' = Msgs /\ NoConsumer' = NoConsumer
    BY <1>1 DEF Msgs, NoConsumer
<1>6. cons.start <= s /\ s <= Len(log)
    BY <1>1, <1>f
<1> HIDE DEF n
<1>7. \A k \in 1 .. n + 1 : k \in 1 .. n \/ k = n + 1
    BY <1>f
<1>8. \A u : /\ (Own(u)' <=> Own(u)) /\ (Due(u)' <=> Due(u))
             /\ Handed(u)' <=> Handed(u)
             /\ Waits(u) => Waits(u)'
    BY <1>1, <1>4, <1>f DEF Due, Own, Handed, Waits
<1>9. Waits(s)'
    BY <1>4, <1>f DEF Waits
<1>10. FollowTypes'
    BY <1>1, <1>2, <1>4, <1>5 DEF SubInv, FollowTypes
<1>11. Known' /\ Running'
    <2>1. \A k \in DOMAIN inbox' : inbox'[k] <= Len(log)
        BY <1>4, <1>6, <1>7, <1>f DEF SubInv, Known
    <2>2. Known'
        BY <1>1, <1>2, <2>1 DEF SubInv, Known
    <2>3. sub \in {"loop", "dispatch"}
        BY <1>1 DEF SubInv, Running
    <2> QED BY <1>1, <1>2, <2>2, <2>3 DEF SubInv, Running
<1>12. Delivered'
    <2>1. \A u \in Msgs : cons'.delivered[u] > 0 => cons.start <= u /\ u <= Len(log)
        BY <1>1, <1>3, <1>6 DEF SubInv, Delivered
    <2>2. \A u \in Msgs : Due(u)' /\ cons'.delivered[u] > 0 => Handed(u)' \/ u = hand \/ Waits(u)'
        BY <1>1, <1>3, <1>8, <1>9 DEF SubInv, Delivered
    <2>3. \A k \in DOMAIN inbox' : cons.start <= inbox'[k]
        BY <1>1, <1>4, <1>6, <1>7, <1>f DEF SubInv, Delivered
    <2>4. (\A i \in DOMAIN handed : cons.start <= handed[i]) /\ (hand > 0 => cons.start <= hand)
        BY <1>1 DEF SubInv, Delivered
    <2> QED BY <1>1, <1>2, <1>5, <2>1, <2>2, <2>3, <2>4 DEF Delivered
<1>13. InOrder'
    <2>1. \A u, t : Earlier(u, t)' <=> Earlier(u, t)
        BY <1>1, <1>2 DEF Earlier, Due, Own
    <2>2. ASSUME NEW k \in DOMAIN inbox', NEW u \in Msgs, Earlier(u, inbox'[k])
          PROVE  Handed(u) \/ u = hand \/ \E m \in 1 .. k - 1 : inbox'[m] = u
        <3>1. CASE k \in 1 .. n
            <4>1. Handed(u) \/ u = hand \/ \E m \in 1 .. k - 1 : inbox[m] = u
                BY <1>1, <1>4, <1>f, <2>2, <3>1 DEF SubInv, InOrder
            <4>2. \A m \in 1 .. k - 1 : inbox'[m] = inbox[m]
                BY <1>4, <1>f, <3>1
            <4> QED BY <4>1, <4>2
        <3>2. CASE k = n + 1
            <4>1. cons.start <= u /\ u < s /\ Due(u)
                BY <1>4, <2>2, <3>2 DEF Earlier
            <4>2. u \in cons.start .. s - 1
                BY <1>f, <4>1
            <4>3. Handed(u) \/ u = hand \/ Waits(u)
                BY <1>1, <4>1, <4>2 DEF SubInv, Delivered
            <4>4. Waits(u) => \E m \in 1 .. k - 1 : inbox'[m] = u
                BY <1>4, <1>f, <3>2 DEF Waits
            <4> QED BY <4>3, <4>4
        <3> QED BY <1>4, <1>7, <2>2, <3>1, <3>2
    <2>3. ASSUME NEW k \in DOMAIN inbox', NEW u \in Msgs,
                 cons'.start <= u, u < inbox'[k], Due(u)'
          PROVE  Handed(u)' \/ u = hand \/ \E m \in 1 .. k - 1 : inbox'[m] = u
        BY <1>2, <1>8, <2>2, <2>3 DEF Earlier
    <2>4. /\ \A i \in DOMAIN handed : \A u \in Msgs : Earlier(u, handed[i]) => Handed(u)
          /\ \A u \in Msgs : Earlier(u, hand) => Handed(u)
        BY <1>1 DEF SubInv, InOrder
    <2>5. /\ \A i \in DOMAIN handed' : \A u \in Msgs : Earlier(u, handed[i])' => Handed(u)'
          /\ \A u \in Msgs : Earlier(u, hand)' => Handed(u)'
        BY <1>1, <1>2, <1>8, <2>4 DEF Earlier
    <2> QED BY <1>1, <1>5, <2>3, <2>5 DEF InOrder, Earlier
<1>14. HandedWell'
    BY <1>1, <1>2, <1>8 DEF SubInv, HandedWell, Closes, scoped, Own
<1>15. Counted'
    <2> SUFFICES ASSUME NEW u \in Msgs
                 PROVE  Occurrences(handed, u) + Occurrences(inbox', u) + One(hand = u) <= cons'.delivered[u]
        BY <1>1, <1>5 DEF Counted
    <2>1. Occurrences(inbox', u) = Occurrences(inbox, u) + (IF s = u THEN 1 ELSE 0)
        BY <1>1, <1>f, OccurrencesAppend
    <2>2. Occurrences(handed, u) + Occurrences(inbox, u) + One(hand = u) <= cons.delivered[u]
        BY <1>1 DEF SubInv, Counted
    <2> DEFINE a == Occurrences(handed, u)
               b == Occurrences(inbox, u)
               c == One(hand = u)
    <2>3. a \in Nat /\ b \in Nat /\ c \in Nat /\ cons.delivered[u] \in Nat
        BY <1>f DEF One
    <2>4. cons'.delivered[u] = cons.delivered[u] + (IF s = u THEN 1 ELSE 0)
        BY <1>3, <2>3
    <2> HIDE DEF a, b, c
    <2> QED BY <2>1, <2>2, <2>3, <2>4 DEF a, b, c
<1> QED BY <1>10, <1>11, <1>12, <1>13, <1>14, <1>15 DEF SubInv

(* A delivery that is lost: one more of a message that nothing is known of. *)
LEMMA SubPushLost == ASSUME SubInv, NEW s \in Msgs, PushLost(s) PROVE SubInv'
<1>1. /\ cons.start > 0 /\ s \in cons.start .. Len(log)
      /\ cons' = [cons EXCEPT !.delivered[s] = @ + 1] /\ missed' = missed \cup {s}
      /\ UNCHANGED <<scenario, log, inbox, sub, hand, handed, app>>
    BY DEF PushLost, Deliver, runVars, subVars
<1>f. /\ Msgs \subseteq Nat \ {0} /\ Len(log) \in Nat /\ hand \in Nat
      /\ cons.start \in Nat /\ cons.delivered \in [Msgs -> Nat]
      /\ \A u : Occurrences(handed, u) \in Nat /\ Occurrences(inbox, u) \in Nat
    BY SubFacts
<1>2. /\ cons'.start = cons.start /\ cons'.acked = cons.acked
      /\ cons'.delivered = [cons.delivered EXCEPT ![s] = @ + 1] /\ cons' \in Consumer(Msgs)
    <2>1. cons \in [start : Nat, delivered : [Msgs -> Nat], acked : SUBSET Msgs]
        BY DEF SubInv, FollowTypes, Consumer
    <2>2. cons'.start = cons.start /\ cons'.acked = cons.acked
        BY <1>1, <2>1
    <2>3. cons'.delivered = [cons.delivered EXCEPT ![s] = @ + 1]
        BY <1>1, <2>1
    <2>4. cons'.delivered \in [Msgs -> Nat]
        BY <1>f, <2>3
    <2>5. cons' = [start |-> cons'.start, delivered |-> cons'.delivered, acked |-> cons'.acked]
        BY <1>1, <2>1
    <2> QED BY <2>1, <2>2, <2>3, <2>4, <2>5 DEF Consumer
<1>3. /\ \A u \in Msgs : u # s => cons'.delivered[u] = cons.delivered[u]
      /\ cons'.delivered[s] = cons.delivered[s] + 1
      /\ \A u \in Msgs : cons.delivered[u] \in Nat
    BY <1>2, <1>f
<1>4. Msgs' = Msgs /\ NoConsumer' = NoConsumer
    BY <1>1 DEF Msgs, NoConsumer
<1>5. \A u : /\ (Own(u)' <=> Own(u)) /\ (Due(u)' => Due(u) /\ u # s)
             /\ (Handed(u)' <=> Handed(u)) /\ (Waits(u)' <=> Waits(u))
    BY <1>1 DEF Due, Own, Handed, Waits
<1>6. cons.start <= s /\ s <= Len(log)
    BY <1>1, <1>f
<1>7. FollowTypes'
    BY <1>1, <1>2, <1>4 DEF SubInv, FollowTypes
<1>8. Known' /\ Running'
    <2>1. sub \in {"loop", "dispatch"}
        BY <1>1 DEF SubInv, Running
    <2> QED BY <1>1, <1>2, <1>4, <2>1 DEF SubInv, Known, Running
<1>9. Delivered'
    <2>1. \A u \in Msgs : cons'.delivered[u] > 0 => cons.start <= u /\ u <= Len(log)
        BY <1>1, <1>3, <1>6 DEF SubInv, Delivered
    <2>2. \A u \in Msgs : Due(u)' /\ cons'.delivered[u] > 0 => Handed(u)' \/ u = hand \/ Waits(u)'
        BY <1>1, <1>3, <1>5 DEF SubInv, Delivered
    <2>3. /\ \A i \in DOMAIN handed : cons.start <= handed[i]
          /\ hand > 0 => cons.start <= hand
          /\ \A k \in DOMAIN inbox : cons.start <= inbox[k]
        BY <1>1 DEF SubInv, Delivered
    <2> QED BY <1>1, <1>2, <1>4, <2>1, <2>2, <2>3 DEF Delivered
<1>10. InOrder'
    <2>1. /\ \A i \in DOMAIN handed : \A u \in Msgs : Earlier(u, handed[i]) => Handed(u)
          /\ \A u \in Msgs : Earlier(u, hand) => Handed(u)
          /\ \A k \in DOMAIN inbox : \A u \in Msgs :
                 Earlier(u, inbox[k]) => Handed(u) \/ u = hand \/ \E m \in 1 .. k - 1 : inbox[m] = u
        BY <1>1 DEF SubInv, InOrder
    <2>2. ASSUME NEW u, NEW t, cons'.start <= u, u < t, Due(u)' PROVE Earlier(u, t)
        BY <1>2, <1>5, <2>2 DEF Earlier
    <2>3. \A i \in DOMAIN handed' : \A u \in Msgs :
             cons'.start <= u /\ u < handed'[i] /\ Due(u)' => Handed(u)'
        BY <1>1, <1>5, <2>1, <2>2
    <2>4. \A u \in Msgs : cons'.start <= u /\ u < hand' /\ Due(u)' => Handed(u)'
        BY <1>1, <1>5, <2>1, <2>2
    <2>5. \A k \in DOMAIN inbox' : \A u \in Msgs :
             cons'.start <= u /\ u < inbox'[k] /\ Due(u)'
                => Handed(u)' \/ u = hand' \/ \E m \in 1 .. k - 1 : inbox'[m] = u
        BY <1>1, <1>5, <2>1, <2>2
    <2> QED BY <1>4, <2>3, <2>4, <2>5 DEF InOrder, Earlier
<1>11. HandedWell'
    <2>1. FirstInOrder(handed, missed \cup {s})
        BY DEF SubInv, HandedWell, FirstInOrder
    <2>2. \A i \in DOMAIN handed' : Own(handed[i])' /\ (Closes(handed[i])' <=> Closes(handed[i]))
        BY <1>1 DEF SubInv, HandedWell, Own, Closes, scoped
    <2> QED BY <1>1, <1>2, <1>5, <2>1, <2>2 DEF SubInv, HandedWell
<1>12. Counted'
    <2> SUFFICES ASSUME NEW u \in Msgs
                 PROVE  Occurrences(handed, u) + Occurrences(inbox, u) + One(hand = u) <= cons'.delivered[u]
        BY <1>1, <1>4 DEF Counted
    <2>1. Occurrences(handed, u) + Occurrences(inbox, u) + One(hand = u) <= cons.delivered[u]
        BY <1>1 DEF SubInv, Counted
    <2> DEFINE a == Occurrences(handed, u)
               b == Occurrences(inbox, u)
               c == One(hand = u)
               d == cons.delivered[u]
               e == cons'.delivered[u]
    <2>2. a \in Nat /\ b \in Nat /\ c \in Nat /\ d \in Nat /\ (e = d \/ e = d + 1)
        BY <1>3, <1>f DEF One
    <2> HIDE DEF a, b, c, d, e
    <2> QED BY <2>1, <2>2 DEF a, b, c, d, e
<1> QED BY <1>7, <1>8, <1>9, <1>10, <1>11, <1>12 DEF SubInv

(* Places move up by one. *)
LEMMA Before ==
    ASSUME NEW n \in Nat, NEW k \in 1 .. n - 1, NEW m \in 1 .. (k + 1) - 1, m # 1
    PROVE  m - 1 \in 1 .. k - 1 /\ m - 1 \in 1 .. n - 1 /\ (m - 1) + 1 = m
OBVIOUS

(* The next message is taken. *)
LEMMA SubNext == ASSUME SubInv, NextMsg PROVE SubInv'
<1> DEFINE n == Len(inbox)
<1>1. /\ sub = "loop" /\ inbox # << >> /\ sub' = "dispatch" /\ hand' = Head(inbox) /\ inbox' = Tail(inbox)
      /\ UNCHANGED <<scenario, log, cons, missed, handed, app>>
    BY DEF NextMsg, runVars
<1>f. /\ Msgs \subseteq Nat \ {0} /\ Len(log) \in Nat
      /\ cons.start \in Nat /\ cons.delivered \in [Msgs -> Nat]
      /\ inbox \in Seq(Msgs) /\ n \in Nat /\ DOMAIN inbox = 1 .. n
      /\ \A k \in DOMAIN inbox : inbox[k] \in Msgs
      /\ \A u : Occurrences(handed, u) \in Nat /\ Occurrences(inbox, u) \in Nat
    BY SubFacts
<1>2. n # 0 /\ hand' = inbox[1] /\ inbox' \in Seq(Msgs)
    BY <1>1, <1>f, EmptySeq, HeadTailProperties
<1>3. Len(inbox') = n - 1 /\ DOMAIN inbox' = 1 .. n - 1 /\ \A k \in 1 .. n - 1 : inbox'[k] = inbox[k + 1]
    BY <1>1, <1>f, <1>2, HeadTailProperties, LenProperties
<1>4. hand = 0 /\ cons.start > 0 /\ hand' \in Msgs
    <2>1. cons.start > 0 /\ ~(hand > 0)
        BY <1>1 DEF SubInv, Running
    <2>2. hand' \in Msgs
        BY <1>f, <1>2
    <2> QED BY <1>f, <2>1, <2>2, SubFacts
<1>5. Msgs' = Msgs /\ NoConsumer' = NoConsumer
    BY <1>1 DEF Msgs, NoConsumer
<1> HIDE DEF n
<1>6. 1 \in 1 .. n /\ \A k \in 1 .. n - 1 : k + 1 \in 1 .. n
    BY <1>f, <1>2
<1>7. \A k \in 1 .. n : k = 1 \/ (k - 1 \in 1 .. n - 1 /\ (k - 1) + 1 = k)
    BY <1>f, <1>2
<1>8. \A u : /\ (Own(u)' <=> Own(u)) /\ (Due(u)' <=> Due(u))
             /\ Handed(u)' <=> Handed(u)
             /\ Waits(u) => u = hand' \/ Waits(u)'
    <2>1. \A u : (Own(u)' <=> Own(u)) /\ (Due(u)' <=> Due(u)) /\ (Handed(u)' <=> Handed(u))
        BY <1>1 DEF Due, Own, Handed
    <2>2. ASSUME NEW u, Waits(u) PROVE u = hand' \/ Waits(u)'
        <3>1. PICK k \in 1 .. n : inbox[k] = u
            BY <1>f, <2>2 DEF Waits
        <3>2. k = 1 \/ (k - 1 \in DOMAIN inbox' /\ inbox'[k - 1] = u)
            BY <1>3, <1>7, <3>1
        <3> QED BY <1>2, <3>1, <3>2 DEF Waits
    <2> QED BY <2>1, <2>2
<1>9. FollowTypes'
    BY <1>1, <1>2, <1>4, <1>5 DEF SubInv, FollowTypes
<1>10. Known'
    <2>1. \A k \in 1 .. n : inbox[k] <= Len(log)
        BY <1>f DEF SubInv, Known
    <2> QED BY <1>1, <1>2, <1>3, <1>6, <2>1 DEF SubInv, Known
<1>11. Running'
    <2>1. hand' > 0
        BY <1>4, <1>f
    <2> QED BY <1>1, <1>4, <2>1 DEF SubInv, Running
<1>12. Delivered'
    <2>1. \A k \in 1 .. n : cons.start <= inbox[k]
        BY <1>4, <1>f DEF SubInv, Delivered
    <2>2. cons.start <= hand' /\ \A k \in DOMAIN inbox' : cons.start <= inbox'[k]
        BY <1>2, <1>3, <1>6, <2>1
    <2>3. \A u \in Msgs : Due(u)' /\ cons.delivered[u] > 0 => Handed(u)' \/ u = hand' \/ Waits(u)'
        <3>1. \A u \in Msgs : Due(u) /\ cons.delivered[u] > 0 => Handed(u) \/ u = hand \/ Waits(u)
            BY <1>4 DEF SubInv, Delivered
        <3>2. \A u \in Msgs : u # hand
            BY <1>4, <1>f
        <3> QED BY <1>8, <3>1, <3>2
    <2> QED BY <1>1, <1>4, <1>5, <2>2, <2>3 DEF SubInv, Delivered
<1>13. InOrder'
    <2>1. ASSUME NEW k \in 1 .. n, NEW u \in Msgs, cons.start <= u, u < inbox[k], Due(u)
          PROVE  Handed(u) \/ \E m \in 1 .. k - 1 : inbox[m] = u
        <3>1. Handed(u) \/ u = hand \/ \E m \in 1 .. k - 1 : inbox[m] = u
            BY <1>4, <1>f, <2>1 DEF SubInv, InOrder, Earlier
        <3> QED BY <1>4, <1>f, <3>1
    <2>2. ASSUME NEW u \in Msgs, cons'.start <= u, u < hand', Due(u)' PROVE Handed(u)'
        <3>1. Handed(u) \/ \E m \in 1 .. 1 - 1 : inbox[m] = u
            BY <1>1, <1>2, <1>6, <1>8, <2>1, <2>2
        <3>2. 1 .. 1 - 1 = {}
            OBVIOUS
        <3> QED BY <1>8, <3>1, <3>2
    <2>3. ASSUME NEW k \in DOMAIN inbox', NEW u \in Msgs, cons'.start <= u, u < inbox'[k], Due(u)'
          PROVE  Handed(u)' \/ u = hand' \/ \E m \in 1 .. k - 1 : inbox'[m] = u
        <3>1. k \in 1 .. n - 1 /\ k + 1 \in 1 .. n /\ inbox'[k] = inbox[k + 1]
            BY <1>3, <1>6, <2>3
        <3>2. Handed(u) \/ \E m \in 1 .. (k + 1) - 1 : inbox[m] = u
            BY <1>1, <1>8, <2>1, <2>3, <3>1
        <3>3. ASSUME NEW m \in 1 .. (k + 1) - 1, inbox[m] = u
              PROVE  u = hand' \/ \E l \in 1 .. k - 1 : inbox'[l] = u
            <4>1. CASE m = 1
                BY <1>2, <3>3, <4>1
            <4>2. CASE m # 1
                <5>n. n \in Nat
                    BY <1>f
                <5>k. k \in 1 .. n - 1
                    BY <3>1
                <5>1. m - 1 \in 1 .. k - 1 /\ m - 1 \in 1 .. n - 1 /\ (m - 1) + 1 = m
                    BY <4>2, <5>n, <5>k, Before
                <5>2. inbox'[m - 1] = u
                    BY <1>3, <3>3, <5>1
                <5> QED BY <5>1, <5>2
            <4> QED BY <4>1, <4>2
        <3> QED BY <1>8, <3>2, <3>3
    <2>4. ASSUME NEW i \in DOMAIN handed', NEW u \in Msgs, cons'.start <= u, u < handed'[i], Due(u)'
          PROVE  Handed(u)'
        BY <1>1, <1>4, <1>8, <2>4 DEF SubInv, InOrder, Earlier
    <2> QED BY <1>1, <1>5, <2>2, <2>3, <2>4 DEF InOrder, Earlier
<1>14. HandedWell'
    <2>1. \A i \in DOMAIN handed : ~Closes(handed[i])
        BY <1>1 DEF SubInv, HandedWell
    <2>2. \A i \in DOMAIN handed' : ~Closes(handed[i])'
        BY <1>1, <2>1 DEF Closes, scoped
    <2>3. \A i \in DOMAIN handed' : Own(handed[i])'
        BY <1>1 DEF SubInv, HandedWell, Own
    <2> QED BY <1>1, <1>8, <2>2, <2>3 DEF SubInv, HandedWell
<1>15. Counted'
    <2> SUFFICES ASSUME NEW u \in Msgs
                 PROVE  Occurrences(handed, u) + Occurrences(inbox', u) + One(hand' = u) <= cons.delivered[u]
        BY <1>1, <1>5 DEF Counted
    <2>1. Occurrences(inbox, u) = Occurrences(inbox', u) + (IF hand' = u THEN 1 ELSE 0)
        BY <1>1, <1>f, OccurrencesTail
    <2>2. Occurrences(handed, u) + Occurrences(inbox, u) + One(hand = u) <= cons.delivered[u]
        BY <1>4 DEF SubInv, Counted
    <2> DEFINE a == Occurrences(handed, u)
               b == Occurrences(inbox', u)
    <2>3. a \in Nat /\ b \in Nat /\ cons.delivered[u] \in Nat /\ One(hand = u) = 0
        <3>1. One(hand = u) = 0
            BY <1>4, <1>f DEF One
        <3> QED BY <1>f, <1>2, <3>1, OccurrencesType
    <2> HIDE DEF a, b
    <2> QED BY <2>1, <2>2, <2>3 DEF a, b, One
<1> QED BY <1>9, <1>10, <1>11, <1>12, <1>13, <1>14, <1>15 DEF SubInv

(* The subscription ends: there is no consumer any more. *)
LEMMA SubStop ==
    ASSUME SubInv, sub \in {"loop", "dispatch"}, Stop, UNCHANGED <<scenario, log, missed, app>>,
           handed' \in Seq(Msgs), \A i \in DOMAIN handed' : handed'[i] <= Len(log) /\ Own(handed'[i]),
           \A i \in DOMAIN handed' : Closes(handed'[i]) => i = Len(handed'), FirstInOrder(handed', missed)
    PROVE  SubInv'
<1>1. /\ sub' = "stopped" /\ hand' = 0 /\ cons' = NoConsumer /\ inbox' = << >>
      /\ Msgs' = Msgs /\ NoConsumer' = NoConsumer
    BY DEF Stop, Msgs, NoConsumer
<1>2. NoConsumer \in Consumer(Msgs) /\ NoConsumer.start = 0 /\ NoConsumer.acked = {}
    BY DEF NoConsumer, Consumer
<1>3. FollowTypes'
    <2>1. << >> \in Seq(Msgs)
        BY EmptySeq
    <2> QED BY <1>1, <1>2, <2>1 DEF SubInv, FollowTypes
<1>4. Known'
    <2>1. Len(log) \in Nat
        BY SubFacts
    <2>2. DOMAIN << >> = {}
        BY EmptySeq
    <2> QED BY <1>1, <1>2, <2>1, <2>2 DEF Known
<1>5. Running'
    <2>1. app'.pc \notin {"none", "subscribe"}
        BY DEF SubInv, Running
    <2> QED BY <1>1, <1>2, <2>1 DEF Running
<1>6. Delivered' /\ InOrder' /\ Counted'
    BY <1>1, <1>2 DEF Delivered, InOrder, Counted
<1>7. HandedWell'
    <2>1. \A i \in DOMAIN handed' : Own(handed[i])'
        BY DEF Own
    <2>2. \A i \in DOMAIN handed' : Closes(handed[i])' => i = Len(handed')
        BY DEF Closes, scoped
    <2> QED BY <1>1, <1>2, <2>1, <2>2 DEF HandedWell
<1> QED BY <1>3, <1>4, <1>5, <1>6, <1>7 DEF SubInv

(* What is handed over so far is well while the goroutine runs. *)
LEMMA HandedFacts ==
    ASSUME SubInv, sub \in {"loop", "dispatch"}
    PROVE  /\ handed \in Seq(Msgs) /\ FirstInOrder(handed, missed)
           /\ \A i \in DOMAIN handed : handed[i] <= Len(log) /\ Own(handed[i]) /\ ~Closes(handed[i])
BY DEF SubInv, FollowTypes, Known, HandedWell

(* Neither the end of the loop nor a cancelled dispatch hands anything over. *)
LEMMA SubEnds == ASSUME SubInv, LoopStops \/ dispatchCancelled PROVE SubInv'
<1>1. sub \in {"loop", "dispatch"} /\ Stop /\ UNCHANGED <<scenario, log, missed, app, handed>>
    BY DEF LoopStops, dispatchCancelled, runVars
<1> QED BY <1>1, HandedFacts, SubStop

(* The event in hand is handed over. *)
LEMMA HandOver ==
    ASSUME SubInv, sub = "dispatch", log[hand] \in {"own", "terminal"}, handed' = Append(handed, hand)
    PROVE  /\ handed' \in Seq(Msgs) /\ FirstInOrder(handed', missed)
           /\ Len(handed') = Len(handed) + 1 /\ hand \in Msgs /\ Own(hand)
           /\ \A i \in DOMAIN handed' :
                 (i \in DOMAIN handed /\ handed'[i] = handed[i]) \/ (i = Len(handed') /\ handed'[i] = hand)
           /\ \A u : Handed(u)' <=> (Handed(u) \/ u = hand)
           /\ \A u : Occurrences(handed', u) = Occurrences(handed, u) + One(hand = u)
<1> DEFINE n == Len(handed)
<1>f. /\ Msgs \subseteq Nat \ {0} /\ Len(log) \in Nat /\ cons.start \in Nat
      /\ handed \in Seq(Msgs) /\ n \in Nat /\ DOMAIN handed = 1 .. n
      /\ \A i \in DOMAIN handed : handed[i] \in Msgs
    BY SubFacts
<1>1. cons.start > 0 /\ hand > 0 /\ hand \in Msgs /\ hand <= Len(log)
    BY DEF SubInv, Running, FollowTypes, Known
<1>2. Own(hand) /\ cons.start <= hand
    BY <1>1 DEF Own, SubInv, Delivered
<1>3. /\ handed' \in Seq(Msgs) /\ Len(handed') = n + 1 /\ DOMAIN handed' = 1 .. n + 1
      /\ handed'[n + 1] = hand /\ \A i \in 1 .. n : handed'[i] = handed[i]
    BY <1>1, <1>f, AppendProperties, LenProperties
<1>4. \A u : Occurrences(handed', u) = Occurrences(handed, u) + One(hand = u)
    BY <1>1, <1>f, OccurrencesAppend DEF One
<1> HIDE DEF n
<1>5. \A i \in 1 .. n + 1 : i \in 1 .. n \/ i = n + 1
    BY <1>f
<1>6. \A u : Handed(u)' <=> (Handed(u) \/ u = hand)
    <2>1. n + 1 \in 1 .. n + 1 /\ \A i \in 1 .. n : i \in 1 .. n + 1
        BY <1>f
    <2> QED BY <1>3, <1>5, <1>f, <2>1 DEF Handed
<1>7. FirstInOrder(handed', missed)
    <2> SUFFICES ASSUME NEW i \in 1 .. n + 1, NEW j \in 1 .. n + 1, handed'[i] < handed'[j], handed'[i] \notin missed
                 PROVE  \E k \in 1 .. j - 1 : handed'[k] = handed'[i]
        BY <1>3 DEF FirstInOrder
    <2>1. ASSUME NEW l \in 1 .. n, j \in 1 .. n, handed[l] < handed[j], handed[l] \notin missed
          PROVE  \E k \in 1 .. j - 1 : handed'[k] = handed[l]
        <3>1. PICK k \in 1 .. j - 1 : handed[k] = handed[l]
            BY <1>f, <2>1 DEF SubInv, HandedWell, FirstInOrder
        <3>2. k \in 1 .. n
            BY <1>f, <2>1, <3>1
        <3> QED BY <1>3, <3>1, <3>2
    <2>2. CASE i \in 1 .. n /\ j \in 1 .. n
        BY <1>3, <2>1, <2>2
    <2>3. CASE i \in 1 .. n /\ j = n + 1
        <3>1. i \in 1 .. j - 1
            BY <1>f, <2>3
        <3> QED BY <3>1
    <2>4. CASE i = n + 1 /\ j \in 1 .. n
        <3>1. hand < handed[j] /\ handed'[i] = hand
            BY <1>3, <2>4
        <3>2. Handed(hand)
            BY <1>1, <1>2, <1>f, <2>4, <3>1 DEF SubInv, InOrder, Earlier, Due
        <3>3. PICK l \in 1 .. n : handed[l] = hand
            BY <1>f, <3>2 DEF Handed
        <3> QED BY <2>1, <2>4, <3>1, <3>3
    <2>5. CASE i = n + 1 /\ j = n + 1
        <3>1. handed'[i] = hand /\ handed'[j] = hand /\ hand \in Nat
            BY <1>1, <1>3, <1>f, <2>5
        <3> QED BY <3>1
    <2> QED BY <1>5, <2>2, <2>3, <2>4, <2>5
<1>8. \A i \in DOMAIN handed' :
          (i \in DOMAIN handed /\ handed'[i] = handed[i]) \/ (i = Len(handed') /\ handed'[i] = hand)
    BY <1>3, <1>5, <1>f
<1> QED BY <1>1, <1>2, <1>3, <1>4, <1>6, <1>7, <1>8 DEF n

(* What an acknowledgement, arrived or lost, does to the consumer. *)
LEMMA Acks ==
    ASSUME SubInv, hand \in Msgs, Ack(hand) \/ UNCHANGED cons
    PROVE  /\ cons' \in Consumer(Msgs) /\ cons'.start = cons.start
           /\ cons'.delivered = cons.delivered /\ cons'.acked \subseteq cons.acked \cup {hand}
           /\ UNCHANGED cons => cons'.acked = cons.acked
<1>1. cons \in [start : Nat, delivered : [Msgs -> Nat], acked : SUBSET Msgs]
    BY DEF SubInv, FollowTypes, Consumer
<1>2. CASE cons' = [cons EXCEPT !.acked = @ \cup {hand}]
    <2>1. /\ cons'.start = cons.start /\ cons'.delivered = cons.delivered
          /\ cons'.acked = cons.acked \cup {hand}
        BY <1>1, <1>2
    <2>2. cons' = [start |-> cons'.start, delivered |-> cons'.delivered, acked |-> cons'.acked]
        BY <1>1, <1>2
    <2>3. cons' \in Consumer(Msgs)
        BY <1>1, <2>1, <2>2 DEF Consumer
    <2> QED BY <2>1, <2>3
<1>3. CASE UNCHANGED cons
    BY <1>1, <1>3 DEF Consumer
<1> QED BY <1>2, <1>3 DEF Ack

(* A dispatch that goes back to the loop. *)
LEMMA SubBack ==
    ASSUME SubInv, sub = "dispatch", sub' = "loop", hand' = 0, UNCHANGED <<scenario, log, inbox, missed, app>>,
           cons' \in Consumer(Msgs), cons'.start = cons.start, cons'.delivered = cons.delivered,
           cons'.acked \subseteq cons.acked \cup {hand},
           handed' \in Seq(Msgs), FirstInOrder(handed', missed),
           \A i \in DOMAIN handed' :
               handed'[i] <= Len(log) /\ Own(handed'[i]) /\ ~Closes(handed'[i])
               /\ (handed'[i] = hand \/ Handed(handed'[i])),
           \A u : Handed(u) => Handed(u)',
           \A u : u = hand /\ Own(u) => Handed(u)',
           \A u : Occurrences(handed', u) <= Occurrences(handed, u) + One(hand = u)
    PROVE  SubInv'
<1>f. /\ Msgs \subseteq Nat \ {0} /\ Len(log) \in Nat /\ hand \in Nat
      /\ cons.start \in Nat /\ cons.delivered \in [Msgs -> Nat] /\ cons.acked \subseteq Msgs
      /\ \A k \in DOMAIN inbox : inbox[k] \in Msgs
      /\ \A u : Occurrences(handed, u) \in Nat /\ Occurrences(inbox, u) \in Nat
    BY SubFacts
<1>1. cons.start > 0 /\ hand > 0 /\ hand \in Msgs /\ hand <= Len(log) /\ cons.start <= hand
    BY DEF SubInv, Running, FollowTypes, Known, Delivered
<1>2. Msgs' = Msgs /\ NoConsumer' = NoConsumer
    BY DEF Msgs, NoConsumer
<1>3. \A u : (Own(u)' <=> Own(u)) /\ (Due(u)' <=> Due(u))
    BY DEF Due, Own
<1>4. FollowTypes'
    BY <1>2 DEF SubInv, FollowTypes
<1>5. Known'
    <2>1. /\ \A s \in cons.acked \cup {hand} : s <= Len(log)
          /\ \A i \in DOMAIN inbox : inbox[i] <= Len(log)
        BY <1>1 DEF SubInv, Known
    <2>2. 0 <= Len(log)
        BY <1>f
    <2> QED BY <2>1, <2>2 DEF Known
<1>6. Running'
    <2>1. app'.pc \notin {"none", "subscribe"}
        BY DEF SubInv, Running
    <2> QED BY <1>1, <2>1 DEF Running
<1>7. Delivered'
    <2>1. /\ \A s \in Msgs : cons.delivered[s] > 0 => cons.start <= s /\ s <= Len(log)
          /\ \A s \in Msgs : Due(s) /\ cons.delivered[s] > 0 => Handed(s) \/ s = hand \/ Waits(s)
          /\ \A i \in DOMAIN handed : cons.start <= handed[i]
          /\ \A k \in DOMAIN inbox : cons.start <= inbox[k]
        BY <1>1 DEF SubInv, Delivered
    <2>2. \A s : Waits(s)' <=> Waits(s)
        BY DEF Waits
    <2>3. \A s \in Msgs : Due(s)' /\ cons'.delivered[s] > 0 => Handed(s)' \/ Waits(s)'
        BY <1>3, <2>1, <2>2 DEF Due
    <2>4. \A i \in DOMAIN handed' : cons.start <= handed'[i]
        BY <1>1, <2>1 DEF Handed
    <2> QED BY <1>2, <2>1, <2>3, <2>4 DEF Delivered
<1>8. InOrder'
    <2>1. /\ \A i \in DOMAIN handed : \A u \in Msgs : Earlier(u, handed[i]) => Handed(u)
          /\ \A u \in Msgs : Earlier(u, hand) => Handed(u)
          /\ \A k \in DOMAIN inbox : \A u \in Msgs :
                 Earlier(u, inbox[k]) => Handed(u) \/ u = hand \/ \E m \in 1 .. k - 1 : inbox[m] = u
        BY <1>1 DEF SubInv, InOrder
    <2>2. ASSUME NEW i \in DOMAIN handed', NEW u \in Msgs, cons'.start <= u, u < handed'[i], Due(u)'
          PROVE  Handed(u)'
        <3>1. Earlier(u, handed'[i])
            BY <1>3, <2>2 DEF Earlier
        <3>2. Handed(u)
            BY <2>1, <2>2, <3>1 DEF Handed
        <3> QED BY <3>2
    <2>3. \A u \in Msgs : ~(u < 0)
        BY <1>f
    <2>4. ASSUME NEW k \in DOMAIN inbox', NEW u \in Msgs, cons'.start <= u, u < inbox'[k], Due(u)'
          PROVE  Handed(u)' \/ \E m \in 1 .. k - 1 : inbox'[m] = u
        <3>1. Earlier(u, inbox[k]) /\ Own(u) /\ k \in DOMAIN inbox
            BY <1>3, <2>4 DEF Earlier, Due
        <3>2. Handed(u) \/ u = hand \/ \E m \in 1 .. k - 1 : inbox[m] = u
            BY <2>1, <3>1
        <3> QED BY <3>1, <3>2
    <2> QED BY <1>2, <2>2, <2>3, <2>4 DEF InOrder, Earlier
<1>9. HandedWell'
    <2>1. \A i \in DOMAIN handed' : Own(handed[i])' /\ ~Closes(handed[i])'
        BY DEF Own, Closes, scoped
    <2>2. \A s \in cons.acked : Own(s) => Handed(s)
        BY DEF SubInv, HandedWell
    <2>3. \A s \in cons'.acked : Own(s)' => Handed(s)'
        BY <1>3, <2>2
    <2> QED BY <2>1, <2>3 DEF HandedWell
<1>10. Counted'
    <2> SUFFICES ASSUME NEW u \in Msgs
                 PROVE  Occurrences(handed', u) + Occurrences(inbox, u) + One(0 = u) <= cons.delivered[u]
        BY <1>2 DEF Counted
    <2>1. Occurrences(handed, u) + Occurrences(inbox, u) + One(hand = u) <= cons.delivered[u]
        BY <1>1 DEF SubInv, Counted
    <2>2. One(0 = u) = 0
        BY <1>f DEF One
    <2> DEFINE a == Occurrences(handed, u)
               b == Occurrences(inbox, u)
               c == One(hand = u)
               d == Occurrences(handed', u)
    <2>3. a \in Nat /\ b \in Nat /\ c \in Nat /\ d \in Nat /\ cons.delivered[u] \in Nat
        BY <1>f, OccurrencesType DEF One
    <2>4. d <= a + c
        OBVIOUS
    <2> HIDE DEF a, b, c, d
    <2> QED BY <2>1, <2>2, <2>3, <2>4 DEF a, b, c, d
<1> QED BY <1>4, <1>5, <1>6, <1>7, <1>8, <1>9, <1>10 DEF SubInv

(* A message that is no event of the workflow is refused or dropped. *)
LEMMA SubFiltered == ASSUME SubInv, dispatchFiltered PROVE SubInv'
<1>1. /\ sub = "dispatch" /\ log[hand] \in {"bad", "other"} /\ sub' = "loop" /\ hand' = 0
      /\ UNCHANGED <<scenario, log, inbox, missed, app, handed>>
    BY DEF dispatchFiltered, runVars
<1>2. Ack(hand) \/ UNCHANGED cons
    BY DEF dispatchFiltered
<1>3. hand \in Msgs /\ ~Own(hand)
    BY <1>1 DEF SubInv, Running, FollowTypes, Own
<1>4. /\ cons' \in Consumer(Msgs) /\ cons'.start = cons.start
      /\ cons'.delivered = cons.delivered /\ cons'.acked \subseteq cons.acked \cup {hand}
    BY <1>2, <1>3, Acks
<1>5. /\ handed' \in Seq(Msgs) /\ FirstInOrder(handed', missed)
      /\ \A i \in DOMAIN handed' : handed'[i] <= Len(log) /\ Own(handed'[i]) /\ ~Closes(handed'[i])
    BY <1>1, HandedFacts
<1>6. \A i \in DOMAIN handed' : Handed(handed'[i])
    BY <1>1 DEF Handed
<1>7. \A u : Handed(u)' <=> Handed(u)
    BY <1>1 DEF Handed
<1>8. \A u : Occurrences(handed', u) <= Occurrences(handed, u) + One(hand = u)
    <2>1. \A u : Occurrences(handed, u) \in Nat /\ One(hand = u) \in Nat
        BY SubFacts DEF One
    <2> QED BY <1>1, <2>1
<1> QED BY <1>1, <1>3, <1>4, <1>5, <1>6, <1>7, <1>8, SubBack

(* An event is handed over; the one that closes a subscription ends it. *)
LEMMA SubSend == ASSUME SubInv, dispatchSend PROVE SubInv'
<1>1. /\ sub = "dispatch" /\ log[hand] \in {"own", "terminal"} /\ handed' = Append(handed, hand)
      /\ UNCHANGED <<scenario, log, missed, app>>
    BY DEF dispatchSend, runVars
<1>2. /\ handed' \in Seq(Msgs) /\ FirstInOrder(handed', missed)
      /\ Len(handed') = Len(handed) + 1 /\ hand \in Msgs /\ Own(hand)
      /\ \A i \in DOMAIN handed' :
            (i \in DOMAIN handed /\ handed'[i] = handed[i]) \/ (i = Len(handed') /\ handed'[i] = hand)
      /\ \A u : Handed(u)' <=> (Handed(u) \/ u = hand)
      /\ \A u : Occurrences(handed', u) = Occurrences(handed, u) + One(hand = u)
    BY <1>1, HandOver
<1>3. \A i \in DOMAIN handed : handed[i] <= Len(log) /\ Own(handed[i]) /\ ~Closes(handed[i])
    BY <1>1, HandedFacts
<1>4. hand <= Len(log)
    BY DEF SubInv, Known
<1>5. \A i \in DOMAIN handed' : handed'[i] <= Len(log) /\ Own(handed'[i])
    BY <1>2, <1>3, <1>4
<1>6. CASE Closes(hand)
    <2>1. Stop
        BY <1>6 DEF dispatchSend
    <2>2. \A i \in DOMAIN handed' : Closes(handed'[i]) => i = Len(handed')
        BY <1>2, <1>3
    <2> QED BY <1>1, <1>2, <1>5, <2>1, <2>2, SubStop
<1>7. CASE ~Closes(hand)
    <2>1. Ack(hand) /\ sub' = "loop" /\ hand' = 0 /\ UNCHANGED inbox
        BY <1>7 DEF dispatchSend
    <2>2. /\ cons' \in Consumer(Msgs) /\ cons'.start = cons.start
          /\ cons'.delivered = cons.delivered /\ cons'.acked \subseteq cons.acked \cup {hand}
        BY <1>2, <2>1, Acks
    <2>3. \A i \in DOMAIN handed' : ~Closes(handed'[i]) /\ (handed'[i] = hand \/ Handed(handed'[i]))
        BY <1>2, <1>3, <1>7 DEF Handed
    <2>4. \A u : Occurrences(handed', u) <= Occurrences(handed, u) + One(hand = u)
        <3>1. \A u : Occurrences(handed, u) \in Nat /\ One(hand = u) \in Nat
            BY SubFacts DEF One
        <3>2. \A u : Occurrences(handed, u) + One(hand = u) \in Nat
            BY <3>1
        <3> QED BY <1>2, <3>2
    <2>5. \A u : (Handed(u) => Handed(u)') /\ (u = hand /\ Own(u) => Handed(u)')
        BY <1>2
    <2> QED BY <1>1, <1>2, <1>5, <2>1, <2>2, <2>3, <2>4, <2>5, SubBack
<1> QED BY <1>6, <1>7

(* A subscription starts with a fresh consumer. *)
LEMMA SubSubscribe == ASSUME SubInv, HandlerInv, Subscribe PROVE SubInv'
<1> DEFINE from == IF log = << >> THEN 1 ELSE Len(log)
<1>1. /\ app.pc = "subscribe" /\ cons' = [NoConsumer EXCEPT !.start = from] /\ sub' = "loop"
      /\ app' = [app EXCEPT !.pc = "range"] /\ UNCHANGED <<scenario, log, inbox, hand, handed>>
    BY DEF Subscribe, runVars
<1>f. Msgs \subseteq Nat \ {0} /\ Len(log) \in Nat /\ hand \in Nat /\ log \in Seq(Kinds)
    BY SubFacts DEF SubInv, FollowTypes
<1>2. sub = "none" /\ handed = << >> /\ inbox = << >> /\ hand = 0
    <2>1. sub = "none" /\ handed = << >> /\ inbox = << >> /\ ~(hand > 0)
        BY <1>1 DEF SubInv, Running
    <2> QED BY <1>f, <2>1
<1>3. from \in Nat /\ from > 0
    BY <1>f, EmptySeq
<1>4. cons' = [start |-> from, delivered |-> [s \in Msgs |-> 0], acked |-> {}]
    BY <1>1 DEF NoConsumer
<1> HIDE DEF from
<1>5. /\ cons' \in Consumer(Msgs) /\ cons'.start = from /\ cons'.acked = {}
      /\ \A s \in Msgs : cons'.delivered[s] = 0
    BY <1>3, <1>4 DEF Consumer
<1>6. Msgs' = Msgs /\ NoConsumer' = NoConsumer
    BY <1>1 DEF Msgs, NoConsumer
<1>7. app'.pc = "range"
    BY <1>1 DEF HandlerInv, HandlerTypes
<1>8. FollowTypes' /\ Known'
    BY <1>1, <1>2, <1>5, <1>6 DEF SubInv, FollowTypes, Known
<1>9. Running'
    BY <1>1, <1>2, <1>3, <1>5, <1>7 DEF Running
<1>10. Delivered'
    BY <1>1, <1>2, <1>5, <1>6 DEF Delivered
<1>11. InOrder'
    <2>1. \A s \in Msgs : ~(s < 0)
        BY <1>f
    <2> QED BY <1>1, <1>2, <1>6, <2>1 DEF InOrder, Earlier
<1>12. HandedWell'
    BY <1>1, <1>2, <1>5 DEF HandedWell, FirstInOrder
<1>13. Counted'
    <2>1. \A s \in Msgs : Occurrences(<< >>, s) = 0 /\ One(0 = s) = 0
        BY <1>f, OccurrencesEmpty DEF One
    <2> QED BY <1>1, <1>2, <1>5, <1>6, <2>1 DEF Counted
<1> QED BY <1>8, <1>9, <1>10, <1>11, <1>12, <1>13 DEF SubInv

(* Every step keeps what is known of the subscription. *)
LEMMA SubStepKeeps == SubInv /\ HandlerInv /\ [Next]_vars => SubInv'
<1> SUFFICES ASSUME SubInv, HandlerInv, [Next]_vars PROVE SubInv'
    OBVIOUS
<1>w. /\ app \in [pc : {"none", "subscribe", "range", "send", "done"}, ev : Nat]
      /\ handler.pc = "resolve" => app.pc = "none"
      /\ app.pc \in {"none", "subscribe"} => sub = "none"
    BY DEF HandlerInv, HandlerTypes, Writers, SubInv, Running
<1>1. CASE \E e \in Progress \cup Ends : RunStep(e)
    BY <1>1, <1>w, SubQuiet DEF RunStep, busVars, subVars
<1>2. CASE CancelCheck \/ CancelDelete \/ Disconnect \/ Stall \/ Resume
    BY <1>2, <1>w, SubQuiet DEF CancelCheck, CancelDelete, Disconnect, Stall, Resume, runVars, busVars, subVars
<1>3. CASE PublishTaskEvent \/ PublishLifecycleEventActivity \/ PublishUndecodable
    BY <1>3, SubPublish DEF PublishTaskEvent, PublishLifecycleEventActivity, PublishUndecodable, Kinds
<1>4. CASE \E s \in Msgs : Push(s) \/ PushLost(s)
    BY <1>4, SubPush, SubPushLost
<1>5. CASE SubStep \/ ConnectionClosed
    BY <1>5, SubNext, SubEnds, SubFiltered, SubSend DEF SubStep, LoopEnds, ConnectionClosed
<1>6. CASE Subscribe
    BY <1>6, SubSubscribe
<1>7. CASE SubscribeCancelled \/ SubscribeFails
    <2>1. /\ app' = [app EXCEPT !.pc = "done"]
          /\ UNCHANGED <<scenario, log, cons, inbox, missed, sub, hand, handed>>
        BY <1>7 DEF SubscribeCancelled, SubscribeFails, SubscribeEnds, runVars, busVars, subVars
    <2>2. app'.pc = "done"
        BY <1>w, <2>1
    <2> QED BY <2>1, <2>2, SubQuiet
<1>8. CASE Range1 \/ AppLock \/ AppSend
    <2>1. /\ UNCHANGED <<scenario, log, cons, inbox, missed, sub, hand, handed>>
          /\ \/ app' = [app EXCEPT !.pc = "done"]
             \/ app' = [pc |-> "send", ev |-> Head(ch)]
             \/ app' = [pc |-> "range", ev |-> 0]
             \/ app' = app
        BY <1>8 DEF Range1, AppLock, AppSend, runVars, busVars, subVars
    <2>2. app'.pc \in {"none", "subscribe"} => sub = "none"
        BY <1>w, <2>1
    <2> QED BY <2>1, <2>2, SubQuiet
<1>9. CASE Resolve
    <2>1. sub = "none" /\ UNCHANGED <<scenario, log, cons, inbox, missed, sub, hand, handed>>
        BY <1>9, <1>w DEF Resolve, runVars, busVars, subVars
    <2> QED BY <2>1, SubQuiet
<1>10. CASE (HandlerStep /\ ~Resolve) \/ WatchBreaks
    <2>1. UNCHANGED <<scenario, log, cons, inbox, missed, sub, hand, handed, app>>
        BY <1>10 DEF HandlerStep, Watch, HandlerLock, HandlerSend, WatchNotFound, WatchCancelled, WatchBreaks,
                     WatchEnds, Return, runVars, busVars, subVars
    <2> QED BY <1>w, <2>1, SubQuiet
<1>11. CASE UNCHANGED vars
    BY <1>11, <1>w, SubQuiet DEF vars
<1> QED BY <1>1, <1>2, <1>3, <1>4, <1>5, <1>6, <1>7, <1>8, <1>9, <1>10, <1>11 DEF Next, AppStep

---------------------------------------------------------------------------
(* What the follower shows *)

(* The lines of the follower, their number, and the rank of one of them. *)
At(o) == {i \in DOMAIN o : o[i].from = "app"}
Num(o) == Cardinality(At(o))
RankIn(o, i) == Cardinality({j \in At(o) : j <= i})

Held(a) == IF a.pc = "send" THEN 1 ELSE 0

(* What was handed over is first shown, then in the follower's hand, then in *)
(* the channel, in this order.                                               *)
ShowsLen ==
    /\ ch \in Seq(Msgs) /\ Len(ch) <= ChanCap
    /\ Num(out) + Held(app) + Len(ch) = Len(handed)
ShowsNext ==
    /\ \A k \in 1 .. Len(ch) : ch[k] = handed[Num(out) + Held(app) + k]
    /\ app.pc = "send" => app.ev = handed[Num(out) + 1]
ShowsPast ==
    /\ \A i \in At(out) : RankIn(out, i) \in 1 .. Num(out) /\ out[i].what = handed[RankIn(out, i)]
    /\ \A k \in 1 .. Num(out) : \E i \in At(out) : out[i].what = handed[k]

Showing == ShowsLen /\ ShowsNext /\ ShowsPast

(* The lines of the follower are finitely many. *)
LEMMA LinesNumber ==
    ASSUME NEW o \in Seq(Line)
    PROVE  /\ IsFiniteSet(At(o)) /\ Num(o) \in Nat
           /\ \A i : IsFiniteSet({j \in At(o) : j <= i}) /\ RankIn(o, i) \in Nat
<1>1. Len(o) \in Nat /\ DOMAIN o = 1 .. Len(o)
    BY LenProperties
<1>2. IsFiniteSet(DOMAIN o)
    <2>1. IsFiniteSet(1 .. Len(o))
        BY <1>1, FS_Interval
    <2> QED BY <1>1, <2>1
<1>3. IsFiniteSet(At(o))
    BY <1>2, FS_Subset DEF At
<1>4. \A i : IsFiniteSet({j \in At(o) : j <= i})
    BY <1>3, FS_Subset
<1> QED BY <1>3, <1>4, FS_CardinalityType DEF Num, RankIn

(* A line more, of the engine or of the follower. *)
LEMMA LinesAppend ==
    ASSUME NEW o \in Seq(Line), NEW x \in Line
    PROVE  /\ \A i \in At(o) : /\ i \in At(Append(o, x)) /\ Append(o, x)[i] = o[i]
                               /\ RankIn(Append(o, x), i) = RankIn(o, i)
           /\ x.from # "app" => At(Append(o, x)) = At(o) /\ Num(Append(o, x)) = Num(o)
           /\ x.from = "app" => /\ At(Append(o, x)) = At(o) \cup {Len(o) + 1} /\ Append(o, x)[Len(o) + 1] = x
                                /\ Num(Append(o, x)) = Num(o) + 1
                                /\ RankIn(Append(o, x), Len(o) + 1) = Num(o) + 1
<1> DEFINE n == Len(o)
           p == Append(o, x)
<1>1. /\ n \in Nat /\ DOMAIN o = 1 .. n /\ DOMAIN p = 1 .. n + 1
      /\ p[n + 1] = x /\ \A i \in 1 .. n : p[i] = o[i]
    BY AppendProperties, LenProperties
<1> HIDE DEF n, p
<1>2. /\ \A i \in 1 .. n + 1 : i \in 1 .. n \/ i = n + 1
      /\ n + 1 \in 1 .. n + 1 /\ n + 1 \notin 1 .. n /\ \A i \in 1 .. n : i \in 1 .. n + 1 /\ ~(n + 1 <= i)
      /\ \A i \in 1 .. n + 1 : i <= n + 1
    BY <1>1
<1>3. /\ x.from # "app" => At(p) = At(o)
      /\ x.from = "app" => At(p) = At(o) \cup {n + 1}
    BY <1>1, <1>2 DEF At
<1>4. ASSUME NEW i \in At(o) PROVE i \in At(p) /\ p[i] = o[i] /\ RankIn(p, i) = RankIn(o, i)
    <2>1. i \in 1 .. n
        BY <1>1, <1>4 DEF At
    <2>2. {j \in At(p) : j <= i} = {j \in At(o) : j <= i}
        BY <1>2, <1>3, <2>1
    <2> QED BY <1>1, <1>3, <1>4, <2>1, <2>2 DEF RankIn
<1>5. ASSUME x.from = "app" PROVE Num(p) = Num(o) + 1 /\ RankIn(p, n + 1) = Num(p)
    <2>1. At(p) = At(o) \cup {n + 1} /\ n + 1 \notin At(o)
        BY <1>1, <1>2, <1>3, <1>5 DEF At
    <2>2. IsFiniteSet(At(o))
        BY LinesNumber
    <2>3. Cardinality(At(o) \cup {n + 1}) = Cardinality(At(o)) + 1
        BY <2>1, <2>2, FS_AddElement
    <2>4. {j \in At(p) : j <= n + 1} = At(p)
        BY <1>1, <1>2 DEF At
    <2> QED BY <2>1, <2>3, <2>4 DEF Num, RankIn
<1> QED BY <1>1, <1>3, <1>4, <1>5 DEF n, p, Num

(* The types of Showing, piece by piece. *)
LEMMA ShowFacts ==
    ASSUME SubInv, HandlerInv, Showing
    PROVE  /\ Len(ch) \in Nat /\ Num(out) \in Nat /\ Held(app) \in Nat /\ Len(handed) \in Nat
           /\ ChanCap \in Nat /\ ch \in Seq(Msgs) /\ out \in Seq(Line)
           /\ DOMAIN ch = 1 .. Len(ch) /\ DOMAIN handed = 1 .. Len(handed)
<1>1. out \in Seq(Line) /\ ch \in Seq(Msgs)
    BY DEF HandlerInv, HandlerTypes, Showing, ShowsLen
<1>2. Len(ch) \in Nat /\ DOMAIN ch = 1 .. Len(ch) /\ Num(out) \in Nat
    BY <1>1, LenProperties, LinesNumber
<1>3. Len(handed) \in Nat /\ DOMAIN handed = 1 .. Len(handed) /\ ChanCap \in Nat
    BY SubFacts, LogFollowAssumption
<1>4. Held(app) \in Nat
    BY DEF Held
<1> QED BY <1>1, <1>2, <1>3, <1>4

(* Nothing is shown at first. *)
LEMMA ShowInitial == Init => Showing
<1> SUFFICES ASSUME Init PROVE Showing
    OBVIOUS
<1>1. ch = << >> /\ handed = << >> /\ out = << >> /\ app.pc = "none"
    BY DEF Init
<1>2. << >> \in Seq(Msgs) /\ Len(<< >>) = 0 /\ 1 .. 0 = {} /\ At(<< >>) = {}
    BY EmptySeq DEF At
<1>3. Num(out) = 0 /\ Held(app) = 0 /\ ChanCap \in Nat
    BY <1>1, <1>2, FS_EmptySet, LogFollowAssumption DEF Num, Held
<1> QED BY <1>1, <1>2, <1>3 DEF Showing, ShowsLen, ShowsNext, ShowsPast

(* Steps that leave the channel, the follower and what is sent. *)
LEMMA ShowQuiet ==
    ASSUME Showing, UNCHANGED <<scenario, ch, handed, out>>, app' = app \/ (app'.pc # "send" /\ app.pc # "send")
    PROVE  Showing'
<1>1. Held(app') = Held(app) /\ (app'.pc = "send" => app' = app) /\ Msgs' = Msgs
    BY DEF Held, Msgs
<1>2. ShowsLen'
    BY <1>1 DEF Showing, ShowsLen
<1>3. ShowsNext'
    BY <1>1 DEF Showing, ShowsNext
<1>4. ShowsPast'
    BY DEF Showing, ShowsPast
<1> QED BY <1>2, <1>3, <1>4 DEF Showing

(* An event goes into the channel. *)
LEMMA ShowSend == ASSUME SubInv, HandlerInv, Showing, dispatchSend PROVE Showing'
<1> DEFINE n == Len(ch)
           m == Num(out)
           h == Held(app)
           l == Len(handed)
<1>1. /\ sub = "dispatch" /\ n < ChanCap /\ ch' = Append(ch, hand) /\ handed' = Append(handed, hand)
      /\ UNCHANGED <<scenario, app, out>>
    BY DEF dispatchSend, runVars
<1>2. hand \in Msgs /\ handed \in Seq(Msgs) /\ Msgs' = Msgs
    BY <1>1 DEF SubInv, FollowTypes, Running, Msgs
<1>f. /\ n \in Nat /\ m \in Nat /\ h \in Nat /\ l \in Nat /\ ChanCap \in Nat /\ ch \in Seq(Msgs)
      /\ DOMAIN ch = 1 .. n /\ m + h + n = l
    BY ShowFacts DEF Showing, ShowsLen
<1>3. ch' \in Seq(Msgs) /\ Len(ch') = n + 1 /\ ch'[n + 1] = hand /\ \A k \in 1 .. n : ch'[k] = ch[k]
    BY <1>1, <1>2, <1>f, AppendProperties
<1>4. Len(handed') = l + 1 /\ handed'[l + 1] = hand /\ \A k \in 1 .. l : handed'[k] = handed[k]
    BY <1>1, <1>2, AppendProperties
<1>5. Num(out') = m /\ Held(app') = h
    BY <1>1
<1>p. /\ \A k \in 1 .. n : ch[k] = handed[m + h + k]
      /\ app.pc = "send" => app.ev = handed[m + 1] /\ h = 1
      /\ \A i \in At(out) : RankIn(out, i) \in 1 .. m /\ out[i].what = handed[RankIn(out, i)]
      /\ \A k \in 1 .. m : \E i \in At(out) : out[i].what = handed[k]
    BY DEF Showing, ShowsNext, ShowsPast, Held
<1> HIDE DEF n, m, h, l
<1>6. ShowsLen'
    <2>1. n + 1 <= ChanCap /\ m + h + (n + 1) = l + 1
        BY <1>1, <1>f
    <2> QED BY <1>2, <1>3, <1>4, <1>5, <2>1 DEF ShowsLen
<1>7. ShowsNext'
    <2>1. ASSUME NEW k \in 1 .. n + 1 PROVE ch'[k] = handed'[m + h + k]
        <3>1. CASE k = n + 1
            <4>1. m + h + k = l + 1
                BY <1>f, <3>1
            <4> QED BY <1>3, <1>4, <3>1, <4>1
        <3>2. CASE k \in 1 .. n
            <4>1. m + h + k \in 1 .. l
                BY <1>f, <3>2
            <4> QED BY <1>3, <1>4, <1>p, <3>2, <4>1
        <3> QED BY <1>f, <2>1, <3>1, <3>2
    <2>2. app.pc = "send" => m + 1 \in 1 .. l
        BY <1>f, <1>p
    <2> QED BY <1>1, <1>3, <1>4, <1>5, <1>p, <2>1, <2>2 DEF ShowsNext
<1>8. ShowsPast'
    <2>1. \A k \in 1 .. m : k \in 1 .. l
        BY <1>f, SMTT(30)
    <2>2. \A i \in At(out) : RankIn(out, i) \in 1 .. m /\ out[i].what = handed'[RankIn(out, i)]
        BY <1>4, <1>p, <2>1
    <2>3. \A k \in 1 .. m : \E i \in At(out) : out[i].what = handed'[k]
        BY <1>4, <1>p, <2>1
    <2>4. out' = out
        BY <1>1
    <2> QED BY <1>5, <2>2, <2>3, <2>4 DEF ShowsPast
<1> QED BY <1>6, <1>7, <1>8 DEF Showing

(* The follower takes an event out of the channel. *)
LEMMA ShowTake ==
    ASSUME SubInv, HandlerInv, Showing, app.pc = "range", ch # << >>,
           app' = [pc |-> "send", ev |-> Head(ch)], ch' = Tail(ch), UNCHANGED <<scenario, handed, out>>
    PROVE  Showing'
<1> DEFINE n == Len(ch)
           m == Num(out)
           l == Len(handed)
<1>1. Held(app) = 0 /\ Held(app') = 1 /\ app'.ev = Head(ch) /\ Msgs' = Msgs /\ Num(out') = m
    BY DEF Held, Msgs
<1>f. /\ n \in Nat /\ m \in Nat /\ l \in Nat /\ ChanCap \in Nat /\ ch \in Seq(Msgs) /\ n <= ChanCap
      /\ DOMAIN ch = 1 .. n /\ m + Held(app) + n = l
    BY ShowFacts DEF Showing, ShowsLen
<1>2. n # 0 /\ Head(ch) = ch[1] /\ ch' \in Seq(Msgs) /\ Len(ch') = n - 1
    BY <1>f, EmptySeq, HeadTailProperties
<1>3. \A k \in 1 .. n - 1 : ch'[k] = ch[k + 1]
    BY <1>f, HeadTailProperties
<1>p. \A k \in 1 .. n : ch[k] = handed[m + Held(app) + k]
    BY DEF Showing, ShowsNext
<1> HIDE DEF n, m, l
<1>4. ShowsLen'
    <2>1. n - 1 <= ChanCap /\ m + 1 + (n - 1) = l
        BY <1>1, <1>2, <1>f
    <2> QED BY <1>1, <1>2, <2>1 DEF ShowsLen, l
<1>5. ShowsNext'
    <2>1. ASSUME NEW k \in 1 .. n - 1 PROVE ch'[k] = handed[m + 1 + k]
        <3>1. k + 1 \in 1 .. n /\ m + 0 + (k + 1) = m + 1 + k
            BY <1>f, <2>1
        <3> QED BY <1>1, <1>3, <1>p, <2>1, <3>1
    <2>2. Head(ch) = handed[m + 1]
        <3>1. 1 \in 1 .. n /\ m + 0 + 1 = m + 1
            BY <1>2, <1>f
        <3> QED BY <1>1, <1>2, <1>p, <3>1
    <2> QED BY <1>1, <1>2, <2>1, <2>2 DEF ShowsNext
<1>6. ShowsPast'
    BY DEF Showing, ShowsPast
<1> QED BY <1>4, <1>5, <1>6 DEF Showing

(* The follower shows the event it holds. *)
LEMMA ShowAppSend == ASSUME SubInv, HandlerInv, Showing, AppSend PROVE Showing'
<1> DEFINE n == Len(ch)
           m == Num(out)
           l == Len(handed)
           x == [from |-> "app", what |-> app.ev]
           e == Len(out) + 1
<1>1. /\ app.pc = "send" /\ out' = Append(out, x) /\ app' = [pc |-> "range", ev |-> 0]
      /\ UNCHANGED <<scenario, ch, handed>>
    BY DEF AppSend, Send, runVars, subVars
<1>2. x \in Line /\ x.from = "app" /\ x.what = app.ev
    BY DEF HandlerInv, HandlerTypes, Line
<1>3. Held(app) = 1 /\ Held(app') = 0 /\ app'.pc # "send" /\ Msgs' = Msgs
    BY <1>1 DEF Held, Msgs
<1>f. /\ n \in Nat /\ m \in Nat /\ l \in Nat /\ ChanCap \in Nat /\ ch \in Seq(Msgs) /\ n <= ChanCap
      /\ m + Held(app) + n = l /\ out \in Seq(Line)
    BY ShowFacts DEF Showing, ShowsLen
<1>4. /\ \A i \in At(out) : i \in At(out') /\ out'[i] = out[i] /\ RankIn(out', i) = RankIn(out, i)
      /\ At(out') = At(out) \cup {e} /\ out'[e] = x
      /\ Num(out') = m + 1 /\ RankIn(out', e) = m + 1
    <2> HIDE DEF x
    <2> QED BY <1>1, <1>2, <1>f, LinesAppend
<1>p. /\ \A k \in 1 .. n : ch[k] = handed[m + Held(app) + k]
      /\ app.ev = handed[m + 1]
      /\ \A i \in At(out) : RankIn(out, i) \in 1 .. m /\ out[i].what = handed[RankIn(out, i)]
      /\ \A k \in 1 .. m : \E i \in At(out) : out[i].what = handed[k]
    BY <1>1 DEF Showing, ShowsNext, ShowsPast
<1> HIDE DEF n, m, l, x, e
<1>5. ShowsLen'
    <2>1. m + 1 + 0 + n = l
        BY <1>3, <1>f
    <2> QED BY <1>1, <1>3, <1>4, <1>f, <2>1 DEF ShowsLen, n, l
<1>6. ShowsNext'
    <2>1. \A k \in 1 .. n : m + 1 + k = m + 1 + 0 + k
        BY <1>f
    <2>2. \A k \in 1 .. n : ch[k] = handed[m + 1 + 0 + k]
        BY <1>3, <1>p, <2>1
    <2> QED BY <1>1, <1>3, <1>4, <2>2 DEF ShowsNext, n
<1>7. ShowsPast'
    <2>1. /\ \A k \in 1 .. m : k \in 1 .. m + 1
          /\ m + 1 \in 1 .. m + 1 /\ \A k \in 1 .. m + 1 : k \in 1 .. m \/ k = m + 1
        BY <1>f
    <2>2. \A i \in At(out') : RankIn(out', i) \in 1 .. m + 1 /\ out'[i].what = handed[RankIn(out', i)]
        BY <1>2, <1>4, <1>p, <2>1
    <2>3. \A k \in 1 .. m + 1 : \E i \in At(out') : out'[i].what = handed[k]
        BY <1>2, <1>4, <1>p, <2>1
    <2> QED BY <1>1, <1>4, <2>2, <2>3 DEF ShowsPast
<1> QED BY <1>5, <1>6, <1>7 DEF Showing

(* A line of the engine leaves the follower's. *)
LEMMA ShowHandlerSend == ASSUME SubInv, HandlerInv, Showing, HandlerSend PROVE Showing'
<1>1. PICK x \in Line : x.from # "app" /\ out' = Append(out, x)
    <2> DEFINE x == [from |-> "engine", what |-> StatusOf(hist[handler.seen])]
    <2>1. x \in Line /\ x.from # "app"
        BY StatusWord DEF Line
    <2>2. out' = Append(out, x)
        BY DEF HandlerSend, Send
    <2> QED BY <2>1, <2>2
<1>2. UNCHANGED <<scenario, ch, handed, app>> /\ out \in Seq(Line)
    BY DEF HandlerSend, runVars, subVars, HandlerInv, HandlerTypes
<1>3. /\ \A i \in At(out) : i \in At(out') /\ out'[i] = out[i] /\ RankIn(out', i) = RankIn(out, i)
      /\ At(out') = At(out) /\ Num(out') = Num(out)
    BY <1>1, <1>2, LinesAppend
<1>4. ShowsLen' /\ ShowsNext'
    BY <1>2, <1>3 DEF Showing, ShowsLen, ShowsNext, Msgs
<1>5. ShowsPast'
    BY <1>2, <1>3 DEF Showing, ShowsPast
<1> QED BY <1>4, <1>5 DEF Showing

(* Every step keeps the order of what is shown and what is not yet. *)
LEMMA ShowStepKeeps == SubInv /\ HandlerInv /\ Showing /\ [Next]_vars => Showing'
<1> SUFFICES ASSUME SubInv, HandlerInv, Showing, [Next]_vars PROVE Showing'
    OBVIOUS
<1>t. /\ app \in [pc : {"none", "subscribe", "range", "send", "done"}, ev : Nat]
      /\ handler.pc = "resolve" => app.pc = "none"
    BY DEF HandlerInv, HandlerTypes, Writers
<1>1. CASE \/ \E e \in Progress \cup Ends : RunStep(e)
           \/ CancelCheck \/ CancelDelete \/ Disconnect \/ Stall \/ Resume
    <2>1. UNCHANGED <<scenario, ch, handed, app, out>>
        BY <1>1 DEF RunStep, CancelCheck, CancelDelete, Disconnect, Stall, Resume, runVars, subVars
    <2> QED BY <2>1, ShowQuiet
<1>2. CASE \/ PublishTaskEvent \/ PublishLifecycleEventActivity \/ PublishUndecodable
           \/ \E s \in Msgs : Push(s) \/ PushLost(s)
    <2>1. UNCHANGED <<scenario, ch, handed, app, out>>
        BY <1>2 DEF PublishTaskEvent, PublishLifecycleEventActivity, PublishUndecodable, Publish, Push, PushLost,
                    Deliver, runVars, subVars
    <2> QED BY <2>1, ShowQuiet
<1>3. CASE NextMsg \/ LoopEnds \/ ConnectionClosed \/ dispatchFiltered \/ dispatchCancelled
    <2>1. UNCHANGED <<scenario, ch, handed, app, out>>
        BY <1>3 DEF NextMsg, LoopEnds, ConnectionClosed, LoopStops, dispatchFiltered, dispatchCancelled, runVars
    <2> QED BY <2>1, ShowQuiet
<1>4. CASE dispatchSend
    BY <1>4, ShowSend
<1>5. CASE Subscribe \/ SubscribeCancelled \/ SubscribeFails \/ Resolve
    <2>1. /\ UNCHANGED <<scenario, ch, handed, out>> /\ app.pc # "send"
          /\ \E pc \in {"range", "done", "subscribe"} : app' = [app EXCEPT !.pc = pc]
        BY <1>5, <1>t DEF Subscribe, SubscribeCancelled, SubscribeFails, SubscribeEnds, Resolve, runVars, subVars
    <2>2. app'.pc # "send"
        BY <1>t, <2>1
    <2> QED BY <2>1, <2>2, ShowQuiet
<1>6. CASE Range1
    <2>1. CASE ch # << >> /\ app' = [pc |-> "send", ev |-> Head(ch)] /\ ch' = Tail(ch)
        BY <1>6, <2>1, ShowTake DEF Range1, runVars
    <2>2. CASE app' = [app EXCEPT !.pc = "done"] /\ UNCHANGED ch
        <3>1. app'.pc = "done" /\ app.pc = "range"
            BY <1>6, <1>t, <2>2 DEF Range1
        <3> QED BY <1>6, <2>2, <3>1, ShowQuiet DEF Range1, runVars
    <2> QED BY <1>6, <2>1, <2>2 DEF Range1
<1>7. CASE AppLock \/ HandlerLock \/ Watch \/ WatchNotFound \/ WatchCancelled \/ WatchBreaks \/ Return
    <2>1. UNCHANGED <<scenario, ch, handed, app, out>>
        BY <1>7 DEF AppLock, HandlerLock, Watch, WatchNotFound, WatchCancelled, WatchBreaks, WatchEnds, Return, runVars, subVars
    <2> QED BY <2>1, ShowQuiet
<1>8. CASE AppSend
    BY <1>8, ShowAppSend
<1>9. CASE HandlerSend
    BY <1>9, ShowHandlerSend
<1>10. CASE UNCHANGED vars
    <2>1. UNCHANGED <<scenario, ch, handed, app, out>>
        BY <1>10 DEF vars
    <2> QED BY <2>1, ShowQuiet
<1> QED BY <1>1, <1>2, <1>3, <1>4, <1>5, <1>6, <1>7, <1>8, <1>9, <1>10 DEF Next, SubStep, AppStep, HandlerStep

(* At most the channel and the event in hand were handed over and not shown. *)
LEMMA FewUnshown ==
    ASSUME SubInv, HandlerInv, Showing, NEW own \in SUBSET Nat, \A s \in own : Handed(s)
    PROVE  Cardinality({s \in own : \A i \in ShownAt : out[i].what # s}) <= ChanCap + 1
<1> DEFINE lost == {s \in own : \A i \in ShownAt : out[i].what # s}
           m == Num(out)
           l == Len(handed)
           P == m + 1 .. l
           f == [k \in P |-> handed[k]]
           T == {handed[k] : k \in P}
<1>f. /\ Len(ch) \in Nat /\ m \in Nat /\ Held(app) \in Nat /\ l \in Nat /\ ChanCap \in Nat
      /\ DOMAIN handed = 1 .. l
    BY ShowFacts
<1>1. Held(app) <= 1 /\ Len(ch) <= ChanCap /\ m + Held(app) + Len(ch) = l
    BY DEF Held, Showing, ShowsLen
<1>2. IsFiniteSet(P) /\ Cardinality(P) <= ChanCap + 1
    <2>1. IsFiniteSet(P) /\ Cardinality(P) = IF m + 1 > l THEN 0 ELSE l - (m + 1) + 1
        <3>1. m + 1 \in Int /\ l \in Int
            BY <1>f
        <3> QED BY <3>1, FS_Interval
    <2>2. l - (m + 1) + 1 <= ChanCap + 1 /\ 0 <= ChanCap + 1
        <3> HIDE DEF m, l
        <3> QED BY <1>f, <1>1
    <2> QED BY <2>1, <2>2
<1>3. f \in Surjection(P, T)
    BY DEF Surjection
<1>4. IsFiniteSet(T) /\ Cardinality(T) <= Cardinality(P)
    <2> HIDE DEF f, T, P
    <2> QED BY <1>2, <1>3, FS_Surjection
<1>5. lost \subseteq T
    <2> SUFFICES ASSUME NEW s \in lost PROVE s \in T
        OBVIOUS
    <2>1. PICK k \in 1 .. l : handed[k] = s
        BY <1>f DEF Handed
    <2>2. k \notin 1 .. m
        <3>1. k \in 1 .. m => \E i \in At(out) : out[i].what = handed[k]
            BY DEF Showing, ShowsPast
        <3>2. At(out) = ShownAt
            BY DEF At, ShownAt
        <3> QED BY <2>1, <3>1, <3>2
    <2>3. k \in P
        <3> HIDE DEF m, l
        <3> QED BY <1>f, <2>1, <2>2
    <2> QED BY <2>1, <2>3
<1>6. IsFiniteSet(lost) /\ Cardinality(lost) <= Cardinality(T)
    <2> HIDE DEF lost, T
    <2> QED BY <1>4, <1>5, FS_Subset
<1>7. Cardinality(lost) \in Nat /\ Cardinality(T) \in Nat /\ Cardinality(P) \in Nat
    BY <1>2, <1>4, <1>6, FS_CardinalityType
<1> HIDE DEF lost, T, P
<1>8. Cardinality(lost) <= ChanCap + 1
    BY <1>f, <1>2, <1>4, <1>6, <1>7
<1> QED BY <1>8 DEF lost

(* What is known of the subscription and of what is shown says it all. *)
LEMMA FollowerFollows == SubInv /\ HandlerInv /\ Showing => FollowerFaithful
<1> SUFFICES ASSUME SubInv, HandlerInv, Showing PROVE FollowerFaithful
    OBVIOUS
<1> DEFINE own == {s \in cons.acked : log[s] \in {"own", "terminal"}}
<1>f. /\ Msgs \subseteq Nat \ {0} /\ hand \in Nat /\ cons.acked \subseteq Msgs /\ cons.delivered \in [Msgs -> Nat]
      /\ DOMAIN handed = 1 .. Len(handed) /\ Len(handed) \in Nat
      /\ \A i \in DOMAIN handed : handed[i] \in Msgs
      /\ \A s : Occurrences(handed, s) \in Nat /\ Occurrences(inbox, s) \in Nat
    BY SubFacts
<1>1. \A s \in own : Handed(s)
    BY DEF SubInv, Known, HandedWell, Own
<1>2. \A s : Handed(s) <=> s \in ToSet(handed)
    BY DEF Handed, ToSet
<1>3. Cardinality({s \in own : \A i \in ShownAt : out[i].what # s}) <= ChanCap + 1
    <2>1. own \in SUBSET Nat
        BY <1>f
    <2> HIDE DEF own
    <2> QED BY <1>1, <2>1, FewUnshown
<1>4. cons.start > 0 => \A s \in Msgs : Count(s, handed) <= cons.delivered[s]
    <2> SUFFICES ASSUME cons.start > 0, NEW s \in Msgs PROVE Count(s, handed) <= cons.delivered[s]
        OBVIOUS
    <2> DEFINE a == Occurrences(handed, s)
               b == Occurrences(inbox, s)
               c == One(hand = s)
    <2>1. a + b + c <= cons.delivered[s]
        BY DEF SubInv, Counted
    <2>2. a \in Nat /\ b \in Nat /\ c \in Nat /\ cons.delivered[s] \in Nat
        BY <1>f DEF One
    <2>3. Count(s, handed) = a
        BY DEF Count, Occurrences
    <2> HIDE DEF a, b, c
    <2> QED BY <2>1, <2>2, <2>3
<1>5. \A i \in ShownAt : Rank(i) <= Len(handed) /\ out[i].what = handed[Rank(i)]
    <2>1. ShownAt = At(out) /\ \A i : Rank(i) = RankIn(out, i)
        BY DEF ShownAt, At, Rank, RankIn
    <2>2. \A i \in At(out) : RankIn(out, i) \in 1 .. Num(out) /\ out[i].what = handed[RankIn(out, i)]
        BY DEF Showing, ShowsPast
    <2>3. Num(out) <= Len(handed)
        BY ShowFacts DEF Showing, ShowsLen
    <2>4. Num(out) \in Nat /\ \A r \in 1 .. Num(out) : r <= Len(handed)
        BY <1>f, <2>3, ShowFacts
    <2> QED BY <2>1, <2>2, <2>4
<1>6. \A j \in DOMAIN handed, s \in Msgs :
         s < handed[j] /\ s \in ToSet(handed) \ missed => \E i \in 1 .. j - 1 : handed[i] = s
    BY <1>2 DEF SubInv, HandedWell, FirstInOrder, Handed
<1>7. scoped => \A i \in DOMAIN handed : log[handed[i]] = "terminal" => i = Len(handed)
    BY DEF SubInv, HandedWell, Closes
<1> QED BY <1>1, <1>2, <1>3, <1>4, <1>5, <1>6, <1>7 DEF FollowerFaithful

LogsInv == HandlerInv /\ SubInv /\ Showing

(* The inductive invariant of the logs: the handler, the subscription and *)
(* what is shown hold each other up.                                      *)
LEMMA LogsInvariant == Spec => []LogsInv
<1>1. Init => LogsInv
    BY HandlerInitial, SubInitial, ShowInitial DEF LogsInv
<1>2. LogsInv /\ [Next]_vars => LogsInv'
    <2> SUFFICES ASSUME LogsInv, [Next]_vars PROVE LogsInv'
        OBVIOUS
    <2>1. ch \in Seq(Nat)
        <3>1. Msgs \subseteq Nat /\ ch \in Seq(Msgs)
            BY SubFacts DEF LogsInv, Showing, ShowsLen
        <3>2. Len(ch) \in Nat /\ DOMAIN ch = 1 .. Len(ch) /\ \A i \in 1 .. Len(ch) : ch[i] \in Nat
            BY <3>1, LenProperties, ElementOfSeq
        <3>3. ch = [i \in 1 .. Len(ch) |-> ch[i]]
            BY <3>1, LenProperties
        <3>4. ch \in [1 .. Len(ch) -> Nat]
            BY <3>2, <3>3
        <3> QED BY <3>2, <3>4, SeqDef
    <2> QED BY <2>1, HandlerStepKeeps, SubStepKeeps, ShowStepKeeps DEF LogsInv
<1> QED BY <1>1, <1>2, PTL DEF Spec

(* What the answer of the logs endpoint says (handleWorkflowLogs over       *)
(* WatchWorkflowLogs and both engines' Watch), for any history: a terminal  *)
(* status is the run's and is said last; a stream that ends without one was *)
(* cut by an error, which the answer does not carry; "not found" is said    *)
(* only of a run that is not there.                                         *)
THEOREM LogsTruthful == Spec => []EndIsTruthful
<1>1. LogsInv => EndIsTruthful
    BY AnswerTruthful DEF LogsInv
<1> QED BY <1>1, LogsInvariant, PTL

(* dispatchMsg and the follower, for any script of messages, any number of  *)
(* deliveries and any capacity of the channel: nothing is acknowledged      *)
(* unseen but what the channel and the follower hold, nothing is shown more *)
(* often than delivered, nor out of order unless one of its deliveries was  *)
(* lost in a reconnect, and nothing after the terminal event of a scoped    *)
(* subscription.                                                            *)
THEOREM FollowerTells == Spec => []FollowerFaithful
<1>1. LogsInv => FollowerFaithful
    BY FollowerFollows DEF LogsInv
<1> QED BY <1>1, LogsInvariant, PTL

(* The response is not written to once the handler has returned: wg.Wait    *)
(* and the mutex of safeSend are enough, whatever the follower drains.      *)
THEOREM LogsSilent == Spec => SilentAfterReturn
<1>1. LogsInv /\ [Next]_vars => [handler.pc = "returned" => out' = out /\ writer' = "none"]_vars
    <2> SUFFICES ASSUME LogsInv, Next, handler.pc = "returned" PROVE out' = out /\ writer' = "none"
        OBVIOUS
    <2>1. app.pc = "done" /\ writer = "none"
        BY DEF LogsInv, HandlerInv, HandlerTypes, Writers
    <2>2. CASE \/ \E e \in Progress \cup Ends : RunStep(e)
               \/ CancelCheck \/ CancelDelete \/ Disconnect \/ Stall \/ Resume
               \/ PublishTaskEvent \/ PublishLifecycleEventActivity \/ PublishUndecodable
               \/ \E s \in Msgs : Push(s) \/ PushLost(s)
        BY <2>1, <2>2 DEF RunStep, CancelCheck, CancelDelete, Disconnect, Stall, Resume, PublishTaskEvent,
                          PublishLifecycleEventActivity, PublishUndecodable, Publish, Push, PushLost, Deliver
    <2>3. CASE SubStep \/ ConnectionClosed
        BY <2>1, <2>3 DEF SubStep, ConnectionClosed, NextMsg, LoopEnds, LoopStops, dispatchFiltered, dispatchSend,
                          dispatchCancelled
    <2>4. CASE AppStep \/ SubscribeFails
        BY <2>1, <2>4 DEF AppStep, SubscribeFails, Subscribe, SubscribeCancelled, SubscribeEnds, Range1, AppLock,
                          AppSend
    <2>5. CASE HandlerStep \/ WatchBreaks
        BY <2>1, <2>5 DEF HandlerStep, Resolve, Watch, HandlerLock, HandlerSend, WatchNotFound, WatchCancelled,
                          WatchBreaks, WatchEnds, Return
    <2> QED BY <2>2, <2>3, <2>4, <2>5 DEF Next
<1> QED BY <1>1, LogsInvariant, PTL DEF Spec, SilentAfterReturn

---------------------------------------------------------------------------
(* The streams of the platform *)

(* A step of matchGlobSegments: from what the last n - 1 segments of the pattern match, what
   the last n do. *)
Collected(pat, seg, n, y) ==
    IF pat[Len(pat) - n + 1] = AnySegments
    THEN {j \in 0 .. Len(seg) : n = 1 \/ \E k \in y : k <= j}
    ELSE {j \in 1 .. Len(seg) : pat[Len(pat) - n + 1] \in {OneSegment, seg[Len(seg) - j + 1]} /\ j - 1 \in y}

LEMMA RemaindersAre ==
    ASSUME NEW pat, NEW seg, Len(pat) \in Nat, Len(seg) \in Nat
    PROVE  /\ Remainders(pat, seg)[0] = {0}
           /\ \A n \in 1 .. Len(pat) :
                Remainders(pat, seg)[n] = Collected(pat, seg, n, Remainders(pat, seg)[n - 1])
<1> DEFINE N == Len(pat)
           L == Len(seg)
           X == SUBSET (0 .. L)
           Step(n, y) == Collected(pat, seg, n, y)
           Fits(w) == [n \in 0 .. N |-> IF n = 0 THEN {0} ELSE Step(n, w[n - 1])]
           g == [n \in 1 .. N |-> [y \in X |-> Step(n, y)]]
           s == CHOOSE s : s = Fits(s)
           e == {0}
<1>1. N \in Nat /\ L \in Nat
  OBVIOUS
<1>2. Remainders(pat, seg) = s
  BY DEF Remainders, Collected
<1> HIDE DEF N, L, s
<1>3. \A n \in 1 .. N, y \in X : Step(n, y) \in X
  BY <1>1 DEF Collected, L
<1>4. e \in X
  BY <1>1
<1> HIDE DEF X, Step, e
<1>5. g \in [1 .. N -> [X -> X]]
  BY <1>3
<1>6. PICK w \in [0 .. N -> X] : IsRecursion(w, e, g, N)
  <2> HIDE DEF g
  <2> QED BY <1>1, <1>4, <1>5, RecursionExists
<1>7. ASSUME NEW n \in 1 .. N PROVE w[n] = Step(n, w[n - 1])
  <2>1. n - 1 \in 0 .. N
    BY <1>1
  <2>2. w[n - 1] \in X
    BY <2>1
  <2>3. g[n][w[n - 1]] = Step(n, w[n - 1])
    BY <2>2
  <2> HIDE DEF g
  <2> QED BY <1>6, <2>3 DEF IsRecursion
<1>8. w = Fits(w)
  <2>1. w[0] = {0}
    BY <1>6 DEF IsRecursion, e
  <2>2. ASSUME NEW n \in 0 .. N PROVE w[n] = Fits(w)[n]
    <3>1. CASE n = 0
      BY <2>1, <3>1
    <3>2. CASE n # 0
      <4>1. n \in 1 .. N
        BY <1>1, <3>2
      <4> QED BY <1>7, <3>2, <4>1
    <3> QED BY <3>1, <3>2
  <2>3. Fits(w) = [n \in 0 .. N |-> Fits(w)[n]]
    BY Zenon
  <2>4. w = [n \in 0 .. N |-> w[n]]
    BY <1>6
  <2> HIDE DEF Fits
  <2> QED BY <2>2, <2>3, <2>4, Zenon
<1>9. s = Fits(s)
  <2> HIDE DEF Fits
  <2> QED BY <1>8 DEF s
<1>10. s[0] = {0} /\ \A n \in 1 .. N : s[n] = Step(n, s[n - 1])
  <2>1. 0 \in 0 .. N /\ \A n \in 1 .. N : n \in 0 .. N /\ n # 0
    BY <1>1
  <2> QED BY <1>9, <2>1
<1> QED BY <1>2, <1>10 DEF Step, N, L

(* Where the segments of a pattern end, from its segment m on. *)
EndsFrom(pat, seg, m, at) ==
    \A i \in m + 1 .. Len(pat) :
        IF pat[i] = AnySegments THEN at[i] >= at[i - 1]
        ELSE at[i] = at[i - 1] + 1 /\ pat[i] \in {OneSegment, seg[at[i]]}

(* What is collected is where the rest of the pattern may begin. *)
LEMMA CollectedEnds ==
    ASSUME NEW pat, NEW seg, Len(pat) \in Nat, Len(seg) \in Nat,
           NEW n \in 0 .. Len(pat), NEW j \in Remainders(pat, seg)[n]
    PROVE  /\ j \in 0 .. Len(seg)
           /\ \E at \in [Len(pat) - n .. Len(pat) -> Len(seg) - j .. Len(seg)] :
                 /\ at[Len(pat) - n] = Len(seg) - j /\ at[Len(pat)] = Len(seg)
                 /\ EndsFrom(pat, seg, Len(pat) - n, at)
<1> DEFINE N == Len(pat)
           L == Len(seg)
           R == Remainders(pat, seg)
           Goes(k, i, at) == at[N - k] = L - i /\ at[N] = L /\ EndsFrom(pat, seg, N - k, at)
           Good(k, i) == i \in 0 .. L /\ \E at \in [N - k .. N -> L - i .. L] : Goes(k, i, at)
           T == {k \in Nat : k <= N => \A i \in R[k] : Good(k, i)}
<1>1. N \in Nat /\ L \in Nat
  OBVIOUS
<1>2. R[0] = {0} /\ \A k \in 1 .. N : R[k] = Collected(pat, seg, k, R[k - 1])
  BY RemaindersAre
<1> HIDE DEF R, N, L
<1>3. 0 \in T
  <2> DEFINE at == [i \in N - 0 .. N |-> L]
  <2>1. N - 0 = N /\ N .. N = {N} /\ L - 0 = L
    BY <1>1
  <2>2. at \in [N - 0 .. N -> L - 0 .. L] /\ at[N - 0] = L - 0 /\ at[N] = L
    BY <1>1, <2>1
  <2>3. EndsFrom(pat, seg, N - 0, at)
    BY <1>1 DEF EndsFrom, N
  <2> HIDE DEF at
  <2>4. Good(0, 0)
    BY <1>1, <2>2, <2>3
  <2> QED BY <1>2, <2>4
<1>4. ASSUME NEW k \in Nat, k \in T PROVE k + 1 \in T
  <2>1. SUFFICES ASSUME k + 1 <= N, NEW i \in R[k + 1] PROVE Good(k + 1, i)
    OBVIOUS
  <2> DEFINE p == pat[N - k]
             m == N - (k + 1)
  <2>2. k \in 0 .. N /\ k + 1 \in 1 .. N /\ (k + 1) - 1 = k /\ N - (k + 1) + 1 = N - k /\ m + 1 = N - k /\ m \in Nat /\ m <= N - k
    BY <1>1, <2>1
  <2>3. R[k + 1] = IF p = AnySegments
                   THEN {x \in 0 .. L : k + 1 = 1 \/ \E h \in R[k] : h <= x}
                   ELSE {x \in 1 .. L : p \in {OneSegment, seg[L - x + 1]} /\ x - 1 \in R[k]}
    BY <1>2, <2>2 DEF Collected, N, L
  <2>4. i \in 0 .. L
    BY <2>1, <2>3, <1>1
  <2>5. PICK h \in R[k] : IF p = AnySegments THEN h <= i ELSE h = i - 1 /\ i >= 1 /\ p \in {OneSegment, seg[L - i + 1]}
    <3>1. CASE p = AnySegments /\ k + 1 = 1
      <4>1. k = 0 /\ 0 \in R[k] /\ 0 <= i
        BY <1>2, <2>4, <3>1
      <4> QED BY <3>1, <4>1
    <3>2. CASE p = AnySegments /\ k + 1 # 1
      BY <2>1, <2>3, <3>2
    <3>3. CASE p # AnySegments
      BY <2>1, <2>3, <3>3
    <3> QED BY <3>1, <3>2, <3>3
  <2>6. Good(k, h)
    <3>1. k <= N
      BY <1>1, <2>1
    <3>2. \A y \in R[k] : Good(k, y)
      <4> HIDE DEF Good
      <4> QED BY <1>4, <3>1
    <3> QED BY <2>5, <3>2
  <2>7. PICK at \in [N - k .. N -> L - h .. L] : Goes(k, h, at)
    BY <2>6
  <2>8. h \in 0 .. L /\ h <= i
    BY <2>4, <2>5, <2>6
  <2> DEFINE to == [x \in m .. N |-> IF x = m THEN L - i ELSE at[x]]
  <2>9. \A x \in m .. N : x = m \/ x \in N - k .. N
    BY <1>1, <2>2
  <2>10. \A x \in N - k .. N : x \in m .. N /\ x # m /\ to[x] = at[x]
    <3>1. \A x \in N - k .. N : x \in m .. N /\ x # m
      BY <1>1, <2>2
    <3> QED BY <3>1
  <2>11. m \in m .. N /\ N \in N - k .. N /\ N - k \in N - k .. N
    BY <1>1, <2>2
  <2>12. to[m] = L - i /\ to[N] = L /\ to[N - k] = L - h
    BY <2>7, <2>10, <2>11
  <2>13. to \in [m .. N -> L - i .. L]
    <3>1. L - i \in L - i .. L
      BY <1>1, <2>4
    <3>2. \A x \in N - k .. N : at[x] \in L - i .. L
      <4>1. \A y \in L - h .. L : y \in L - i .. L
        BY <1>1, <2>4, <2>8
      <4> QED BY <2>7, <4>1
    <3> QED BY <2>9, <3>1, <3>2
  <2>14. EndsFrom(pat, seg, m, to)
    <3> SUFFICES ASSUME NEW x \in m + 1 .. N
                 PROVE  IF pat[x] = AnySegments THEN to[x] >= to[x - 1]
                        ELSE to[x] = to[x - 1] + 1 /\ pat[x] \in {OneSegment, seg[to[x]]}
      BY DEF EndsFrom, N
    <3>1. CASE x = N - k
      <4>0. x - 1 = m
        <5> HIDE DEF to, p
        <5> QED BY <1>1, <2>2, <3>1
      <4>1. to[x] = L - h /\ to[x - 1] = L - i /\ pat[x] = p
        <5> HIDE DEF to, m
        <5> QED BY <2>12, <3>1, <4>0
      <4>2. CASE p = AnySegments
        BY <1>1, <2>4, <2>8, <4>1, <4>2
      <4>3. CASE p # AnySegments
        <5>1. h = i - 1 /\ p \in {OneSegment, seg[L - i + 1]}
          BY <2>5, <4>3
        <5>2. L - h = (L - i) + 1 /\ L - h = L - i + 1
          BY <1>1, <2>4, <5>1
        <5> HIDE DEF to, p
        <5> QED BY <4>1, <4>3, <5>1, <5>2
      <4> QED BY <4>2, <4>3
    <3>2. CASE x # N - k
      <4>1. x \in (N - k) + 1 .. N /\ x \in N - k .. N /\ x - 1 \in N - k .. N
        <5> DEFINE y == N - k
        <5>1. x \in Nat /\ x >= y /\ x <= N /\ y \in Nat /\ x # y
          BY <1>1, <2>2, <3>2
        <5> HIDE DEF to, m, p, y
        <5>2. x \in y + 1 .. N /\ x \in y .. N /\ x - 1 \in y .. N
          BY <1>1, <5>1
        <5> QED BY <5>2 DEF y
      <4>2. to[x] = at[x] /\ to[x - 1] = at[x - 1]
        BY <2>10, <4>1
      <4> HIDE DEF to
      <4> QED BY <2>7, <4>1, <4>2 DEF EndsFrom, N
    <3> QED BY <3>1, <3>2
  <2> HIDE DEF to
  <2>15. Goes(k + 1, i, to)
    BY <2>12, <2>14
  <2> QED BY <2>4, <2>13, <2>15
<1> HIDE DEF T
<1>5. Nat \subseteq T
  BY <1>3, <1>4, SetInduction
<1>6. Good(n, j)
  BY <1>1, <1>5 DEF T, R, N
<1> QED BY <1>6 DEF N, L

(* Where the rest of a pattern may begin is collected. *)
LEMMA EndsCollected ==
    ASSUME NEW pat, NEW seg, Len(pat) \in Nat, Len(seg) \in Nat,
           NEW m \in 0 .. Len(pat), NEW at \in [m .. Len(pat) -> 0 .. Len(seg)],
           at[Len(pat)] = Len(seg), EndsFrom(pat, seg, m, at)
    PROVE  Len(seg) - at[m] \in Remainders(pat, seg)[Len(pat) - m]
<1> DEFINE N == Len(pat)
           L == Len(seg)
           R == Remainders(pat, seg)
           T == {k \in Nat : k <= N - m => L - at[N - k] \in R[k]}
<1>1. N \in Nat /\ L \in Nat
  OBVIOUS
<1>2. R[0] = {0} /\ \A k \in 1 .. N : R[k] = Collected(pat, seg, k, R[k - 1])
  BY RemaindersAre
<1> HIDE DEF R, N, L
<1>3. 0 \in T
  BY <1>1, <1>2 DEF N, L
<1>4. ASSUME NEW k \in Nat, k \in T PROVE k + 1 \in T
  <2>1. SUFFICES ASSUME k + 1 <= N - m PROVE L - at[N - (k + 1)] \in R[k + 1]
    OBVIOUS
  <2> DEFINE x == N - k
             p == pat[x]
             a == at[x]
             b == at[x - 1]
  <2>2. k + 1 \in 1 .. N /\ (k + 1) - 1 = k /\ N - (k + 1) + 1 = x /\ N - (k + 1) = x - 1
        /\ x \in m + 1 .. N /\ x \in m .. N /\ x - 1 \in m .. N
    BY <1>1, <2>1
  <2>3. R[k + 1] = IF p = AnySegments
                   THEN {i \in 0 .. L : k + 1 = 1 \/ \E h \in R[k] : h <= i}
                   ELSE {i \in 1 .. L : p \in {OneSegment, seg[L - i + 1]} /\ i - 1 \in R[k]}
    BY <1>2, <2>2 DEF Collected, N, L
  <2>4. a \in 0 .. L /\ b \in 0 .. L
    BY <2>2 DEF N, L
  <2>5. L - a \in R[k]
    BY <1>4, <2>1, <1>1
  <2>6. IF p = AnySegments THEN a >= b ELSE a = b + 1 /\ p \in {OneSegment, seg[a]}
    BY <2>2 DEF EndsFrom, N
  <2> HIDE DEF x, p, a, b
  <2>7. L - b \in R[k + 1]
    <3>1. CASE p = AnySegments
      <4>1. L - a <= L - b /\ L - b \in 0 .. L
        BY <1>1, <2>4, <2>6, <3>1
      <4> QED BY <2>3, <2>5, <3>1, <4>1
    <3>2. CASE p # AnySegments
      <4>1. L - b \in 1 .. L /\ L - (L - b) + 1 = a /\ (L - b) - 1 = L - a
        BY <1>1, <2>4, <2>6, <3>2
      <4> QED BY <2>3, <2>5, <2>6, <3>2, <4>1
    <3> QED BY <3>1, <3>2
  <2> QED BY <2>2, <2>7 DEF b
<1> HIDE DEF T
<1>5. Nat \subseteq T
  BY <1>3, <1>4, SetInduction
<1>6. N - m \in Nat /\ N - (N - m) = m
  <2>1. m \in 0 .. N
    BY DEF N
  <2> QED BY <1>1, <2>1
<1>7. N - m \in T
  BY <1>5, <1>6
<1> QED BY <1>6, <1>7 DEF T, R, N, L

(* For an anchored pattern matchGlobSegments finds out whether the type matches it, for
   any number of "*" and "**". *)
LEMMA GlobMatches ==
    ASSUME NEW pat, NEW seg, Len(pat) \in Nat, Len(seg) \in Nat, DOMAIN pat = 1 .. Len(pat), Depth \in Nat,
           Anchored(pat), Len(seg) > Depth
    PROVE  matchGlobSegments(pat, seg) <=> Matches(pat, seg)
<1> DEFINE N == Len(pat)
           L == Len(seg)
           D == Depth
           R == Remainders(pat, seg)
<1>1. N \in Nat /\ L \in Nat /\ D \in Nat /\ N > D /\ L > D
  BY DEF Anchored
<1>2. \A k \in 1 .. N : R[k] = Collected(pat, seg, k, R[k - 1])
  BY RemaindersAre
<1>3. \A i \in 1 .. D : pat[i] # AnySegments /\ pat[i] # OneSegment
  <2>1. \A i \in 1 .. D : i \in DOMAIN pat /\ i \notin Wildcards(pat)
    BY <1>1 DEF Anchored
  <2> QED BY <2>1 DEF Wildcards
<1> HIDE DEF R, N, L, D
<1>4. ASSUME NEW i \in 1 .. D
      PROVE  L - (i - 1) \in R[N - (i - 1)] <=> pat[i] = seg[i] /\ L - i \in R[N - i]
  <2>1. N - (i - 1) \in 1 .. N /\ (N - (i - 1)) - 1 = N - i /\ N - (N - (i - 1)) + 1 = i
        /\ L - (i - 1) \in 1 .. L /\ L - (L - (i - 1)) + 1 = i /\ (L - (i - 1)) - 1 = L - i
    BY <1>1
  <2>2. R[N - (i - 1)] = {j \in 1 .. L : pat[i] \in {OneSegment, seg[L - j + 1]} /\ j - 1 \in R[N - i]}
    <3>1. R[N - (i - 1)] = Collected(pat, seg, N - (i - 1), R[N - i])
      BY <1>2, <2>1
    <3> QED BY <1>3, <2>1, <3>1 DEF Collected, N, L
  <2> QED BY <1>3, <2>1, <2>2
<1>5. ASSUME matchGlobSegments(pat, seg) PROVE Matches(pat, seg)
  <2> DEFINE T == {m \in Nat : m <= D => L - m \in R[N - m] /\ \A i \in 1 .. m : pat[i] = seg[i]}
  <2>1. 0 \in T
    BY <1>1, <1>5 DEF matchGlobSegments, R, N, L
  <2>2. ASSUME NEW m \in Nat, m \in T PROVE m + 1 \in T
    <3>1. SUFFICES ASSUME m + 1 <= D
                   PROVE  L - (m + 1) \in R[N - (m + 1)] /\ \A i \in 1 .. m + 1 : pat[i] = seg[i]
      OBVIOUS
    <3>2. m <= D /\ m + 1 \in 1 .. D /\ (m + 1) - 1 = m /\ \A i \in 1 .. m + 1 : i \in 1 .. m \/ i = m + 1
      BY <1>1, <3>1
    <3>3. pat[m + 1] = seg[m + 1] /\ L - (m + 1) \in R[N - (m + 1)]
      BY <1>4, <2>2, <3>2
    <3> QED BY <2>2, <3>2, <3>3
  <2> HIDE DEF T
  <2>3. Nat \subseteq T
    BY <2>1, <2>2, SetInduction
  <2>4. L - D \in R[N - D] /\ \A i \in 1 .. D : pat[i] = seg[i]
    <3>1. D \in T /\ D <= D
      BY <1>1, <2>3
    <3> QED BY <3>1 DEF T
  <2>5. N - D \in 0 .. N /\ N - (N - D) = D /\ L - (L - D) = D
    BY <1>1
  <2>6. \E at \in [D .. N -> D .. L] : at[D] = D /\ at[N] = L /\ EndsFrom(pat, seg, D, at)
    <3>1. \A n \in 0 .. N : \A j \in R[n] :
             \E at \in [N - n .. N -> L - j .. L] : at[N - n] = L - j /\ at[N] = L /\ EndsFrom(pat, seg, N - n, at)
      BY CollectedEnds DEF N, L, R
    <3>2. \E at \in [N - (N - D) .. N -> L - (L - D) .. L] :
             at[N - (N - D)] = L - (L - D) /\ at[N] = L /\ EndsFrom(pat, seg, N - (N - D), at)
      BY <2>4, <2>5, <3>1
    <3> QED BY <2>5, <3>2
  <2> QED BY <2>4, <2>6 DEF Matches, EndsFrom, N, L, D
<1>6. ASSUME Matches(pat, seg) PROVE matchGlobSegments(pat, seg)
  <2>1. \A i \in 1 .. D : pat[i] = seg[i]
    BY <1>6 DEF Matches, D
  <2>2. PICK at \in [D .. N -> D .. L] : at[D] = D /\ at[N] = L /\ EndsFrom(pat, seg, D, at)
    BY <1>6 DEF Matches, EndsFrom, N, L, D
  <2>3. L - D \in R[N - D]
    <3>1. D \in 0 .. N /\ at \in [D .. N -> 0 .. L]
      BY <1>1
    <3> QED BY <2>2, <3>1, EndsCollected DEF N, L, R
  <2> DEFINE T == {k \in Nat : k <= D => L - (D - k) \in R[N - (D - k)]}
  <2>4. 0 \in T
    BY <1>1, <2>3
  <2>5. ASSUME NEW k \in Nat, k \in T PROVE k + 1 \in T
    <3>1. SUFFICES ASSUME k + 1 <= D PROVE L - (D - (k + 1)) \in R[N - (D - (k + 1))]
      OBVIOUS
    <3>2. D - k \in 1 .. D /\ (D - k) - 1 = D - (k + 1) /\ k <= D
      BY <1>1, <3>1
    <3> QED BY <1>4, <2>1, <2>5, <3>2
  <2> HIDE DEF T
  <2>6. D \in T
    BY <1>1, <2>4, <2>5, SetInduction
  <2>7. L - (D - D) = L /\ N - (D - D) = N
    BY <1>1
  <2> QED BY <1>1, <2>6, <2>7 DEF T, matchGlobSegments, R, N, L
<1> QED BY <1>5, <1>6

(* Segments, and those the code itself puts into subjects. A subject is literal when it
   does not end in the wildcard of a filter. *)
Segs == Seq(STRING) \cup {Tailing, <<"x">>, <<"zynax">>, <<"dlq">>, <<"dead">>}
Literal(t) == t \in Seq(Segs) /\ t # <<>> /\ \A i \in 1 .. Len(t) : t[i] # Tailing
Begins(t, p) == Len(t) >= Len(p) /\ \A i \in 1 .. Len(p) : t[i] = p[i]

LEMMA LiteralLen == ASSUME NEW t, Literal(t) PROVE Len(t) \in Nat /\ Len(t) >= 1 /\ t[Len(t)] # Tailing
<1>1. t \in Seq(Segs) /\ Len(t) \in Nat /\ Len(t) # 0
  BY EmptySeq, LenProperties DEF Literal
<1>2. Len(t) \in 1 .. Len(t)
  BY <1>1
<1> QED BY <1>1, <1>2 DEF Literal

(* The prefix of a subject with a wildcard behind it. *)
LEMMA FilterIs ==
    ASSUME NEW p \in Seq(Segs)
    PROVE  /\ Append(p, Tailing) \in Seq(Segs) /\ Len(p) \in Nat
           /\ Len(Append(p, Tailing)) = Len(p) + 1 /\ Append(p, Tailing)[Len(p) + 1] = Tailing
           /\ \A i \in 1 .. Len(p) : Append(p, Tailing)[i] = p[i]
           /\ Front(Append(p, Tailing)) = p
<1> DEFINE a == Append(p, Tailing)
<1>1. Tailing \in Segs
  BY DEF Segs
<1>2. /\ a \in Seq(Segs) /\ Len(p) \in Nat /\ Len(a) = Len(p) + 1 /\ a[Len(p) + 1] = Tailing
      /\ \A i \in 1 .. Len(p) : a[i] = p[i]
  BY <1>1, AppendProperties, LenProperties
<1> HIDE DEF a
<1>3. Front(a) = p
  <2> DEFINE l == Len(p)
             f == SubSeq(a, 1, l)
  <2>1. l \in Nat /\ Len(a) - 1 = l /\ \A i \in 1 .. l : a[i] \in Segs
    BY <1>2, ElementOfSeq
  <2>2. 1 \in Int /\ l \in Int /\ l - 1 + 1 = l
    BY <2>1
  <2>3. f \in Seq(Segs) /\ Len(f) = (IF 1 <= l THEN l - 1 + 1 ELSE 0) /\ \A i \in 1 .. l - 1 + 1 : f[i] = a[1 + i - 1]
    <3> HIDE DEF l
    <3> QED BY <2>1, <2>2, SubSeqProperties
  <2>4. Len(f) = l
    BY <2>1, <2>3
  <2>5. \A i \in 1 .. l : f[i] = p[i]
    <3>1. \A i \in 1 .. l : 1 + i - 1 = i
      BY <2>1
    <3> QED BY <1>2, <2>2, <2>3, <3>1
  <2>6. f = p
    <3> HIDE DEF f
    <3> QED BY <2>3, <2>4, <2>5, SeqEqual
  <2> QED BY <2>1, <2>6 DEF Front
<1> QED BY <1>2, <1>3 DEF a

(* What the first segments of a sequence are. *)
LEMMA PrefixOf ==
    ASSUME NEW s \in Seq(Segs), NEW n \in Nat, n <= Len(s)
    PROVE  /\ SubSeq(s, 1, n) \in Seq(Segs) /\ Len(SubSeq(s, 1, n)) = n
           /\ \A i \in 1 .. n : SubSeq(s, 1, n)[i] = s[i]
<1> DEFINE f == SubSeq(s, 1, n)
<1>1. Len(s) \in Nat /\ 1 \in Int /\ n \in Int /\ n - 1 + 1 = n
  BY LenProperties
<1>2. \A i \in 1 .. n : s[i] \in Segs
  BY <1>1, ElementOfSeq
<1>3. f \in Seq(Segs) /\ Len(f) = (IF 1 <= n THEN n - 1 + 1 ELSE 0) /\ \A i \in 1 .. n - 1 + 1 : f[i] = s[1 + i - 1]
  BY <1>1, <1>2, SubSeqProperties
<1>4. Len(f) = n
  BY <1>1, <1>3
<1>5. \A i \in 1 .. n : 1 + i - 1 = i
  OBVIOUS
<1> QED BY <1>1, <1>3, <1>4, <1>5

LEMMA FilterTakes ==
    ASSUME NEW p \in Seq(Segs), NEW s, Literal(s)
    PROVE  Takes(Append(p, Tailing), s) <=> Len(s) > Len(p) /\ Begins(s, p)
<1> DEFINE a == Append(p, Tailing)
           n == Len(p)
<1>1. a \in Seq(Segs) /\ n \in Nat /\ Len(a) = n + 1 /\ a[n + 1] = Tailing /\ Front(a) = p
  BY FilterIs
<1>2. s \in Seq(Segs) /\ Len(s) \in Nat /\ s[Len(s)] # Tailing
  BY LiteralLen DEF Literal
<1>3. a # s
  BY <1>1, <1>2
<1> HIDE DEF a
<1>4. Takes(a, s) <=> Len(s) >= n + 1 /\ SubSeq(s, 1, n) = p
  <2>1. (n + 1) - 1 = n
    BY <1>1
  <2> QED BY <1>1, <1>3, <2>1 DEF Takes
<1>5. ASSUME Len(s) >= n + 1 PROVE SubSeq(s, 1, n) = p <=> Begins(s, p)
  <2> DEFINE f == SubSeq(s, 1, n)
  <2>1. n <= Len(s) /\ Len(s) >= n
    BY <1>1, <1>2, <1>5
  <2>2. f \in Seq(Segs) /\ Len(f) = n /\ \A i \in 1 .. n : f[i] = s[i]
    <3> HIDE DEF n
    <3> QED BY <1>1, <1>2, <2>1, PrefixOf
  <2> HIDE DEF f
  <2>3. ASSUME \A i \in 1 .. n : s[i] = p[i] PROVE f = p
    <3>1. \A i \in 1 .. Len(f) : f[i] = p[i]
      BY <2>2, <2>3
    <3> QED BY <2>2, <3>1, SeqEqual
  <2>4. f = p => \A i \in 1 .. n : s[i] = p[i]
    BY <2>2
  <2> QED BY <2>1, <2>3, <2>4 DEF Begins, f
<1>6. Len(s) >= n + 1 <=> Len(s) > n
  BY <1>1, <1>2
<1> QED BY <1>4, <1>5, <1>6 DEF a, n

LEMMA LiteralTakes == ASSUME NEW f, Literal(f), NEW s PROVE Takes(f, s) <=> f = s
  BY LiteralLen DEF Takes

(* Filters of prefixes of one length overlap only if the prefixes are the same. *)
LEMMA FiltersOverlap ==
    ASSUME NEW p \in Seq(Segs), NEW q \in Seq(Segs), Len(p) = Len(q),
           Overlap(Append(p, Tailing), Append(q, Tailing))
    PROVE  p = q
<1> DEFINE a == Append(p, Tailing)
           b == Append(q, Tailing)
           n == Len(p)
<1>1. /\ a \in Seq(Segs) /\ n \in Nat /\ Len(a) = n + 1 /\ Front(a) = p /\ \A i \in 1 .. n : a[i] = p[i]
      /\ b \in Seq(Segs) /\ Len(b) = n + 1 /\ Front(b) = q /\ \A i \in 1 .. n : b[i] = q[i]
  BY FilterIs
<1>2. (n + 1) - 1 = n /\ n <= n + 1 /\ n <= n
  BY <1>1
<1> HIDE DEF a, b
<1>3. ASSUME NEW s \in Seq(Segs), NEW t \in Seq(Segs), n <= Len(s), n <= Len(t), SubSeq(s, 1, n) = SubSeq(t, 1, n)
      PROVE  \A i \in 1 .. n : s[i] = t[i]
  <2> HIDE DEF n
  <2> QED BY <1>1, <1>3, PrefixOf
<1>4. SUFFICES \A i \in 1 .. n : p[i] = q[i]
  BY SeqEqual
<1>5. \/ a = b
      \/ SubSeq(b, 1, n) = p \/ SubSeq(a, 1, n) = q
      \/ SubSeq(p, 1, n) = SubSeq(q, 1, n)
  <2>1. Overlap(a, b)
    BY DEF a, b
  <2>2. CASE Takes(a, b)
    BY <1>1, <1>2, <2>2 DEF Takes
  <2>3. CASE Takes(b, a)
    BY <1>1, <1>2, <2>3 DEF Takes
  <2>4. CASE IsPrefix(p, q) \/ IsPrefix(q, p)
    BY <2>4 DEF IsPrefix
  <2> QED BY <1>1, <2>1, <2>2, <2>3, <2>4 DEF Overlap
<1>6. CASE a = b
  BY <1>1, <1>6
<1>7. CASE SubSeq(b, 1, n) = p \/ SubSeq(a, 1, n) = q
  <2>1. \A i \in 1 .. n : SubSeq(b, 1, n)[i] = q[i] /\ SubSeq(a, 1, n)[i] = p[i]
    <3> HIDE DEF n
    <3> QED BY <1>1, <1>2, PrefixOf
  <2> QED BY <1>7, <2>1
<1>8. CASE SubSeq(p, 1, n) = SubSeq(q, 1, n)
  BY <1>2, <1>3, <1>8
<1> QED BY <1>5, <1>6, <1>7, <1>8

(* Every subject a stream is made for is literal; an anchored pattern and its subject
   share the prefix of their stream. *)
LEMMA TypesLiteral == \A t \in EventTypes \cup Patterns : Literal(t) /\ DOMAIN t = 1 .. Len(t)
<1> SUFFICES ASSUME NEW t \in EventTypes \cup Patterns PROVE Literal(t) /\ DOMAIN t = 1 .. Len(t)
  OBVIOUS
<1>1. t \in Seq(Seq(STRING)) /\ t # <<>> /\ \A i \in DOMAIN t : t[i] # Tailing
  BY EventStreamsAssumption
<1>2. Len(t) \in Nat /\ DOMAIN t = 1 .. Len(t) /\ t \in [1 .. Len(t) -> Seq(STRING)]
  BY <1>1, LenProperties
<1>3. t \in Seq(Segs)
  <2>1. \A i \in 1 .. Len(t) : t[i] \in Segs
    BY <1>2 DEF Segs
  <2>2. t \in [1 .. Len(t) -> Segs]
    BY <1>2, <2>1
  <2> HIDE DEF Segs
  <2> QED BY <1>2, <2>2, IsASeq
<1> QED BY <1>1, <1>2, <1>3 DEF Literal

LEMMA PatternSubject ==
    ASSUME NEW p \in Patterns
    PROVE  LET s == StreamSubjectFromPattern(p) IN
           /\ Literal(s)
           /\ Anchored(p) => Len(s) > Depth /\ \A i \in 1 .. Depth : s[i] = p[i]
<1> DEFINE s == StreamSubjectFromPattern(p)
           W == Wildcards(p)
<1>1. Literal(p) /\ DOMAIN p = 1 .. Len(p) /\ p \in Seq(Segs) /\ Len(p) \in Nat /\ Depth \in Nat
  BY TypesLiteral, LiteralLen, EventStreamsAssumption DEF Literal
<1>2. CASE W = {}
  <2>1. s = p
    BY <1>2 DEF StreamSubjectFromPattern
  <2> QED BY <1>1, <2>1 DEF Anchored
<1>3. CASE W # {}
  <2> DEFINE w == Min(W)
             q == SubSeq(p, 1, w - 1)
  <2>1. W \in SUBSET Nat /\ W \subseteq 1 .. Len(p)
    BY <1>1 DEF Wildcards
  <2>2. w \in W
    <3> HIDE DEF W
    <3>1. \E x \in W : \A y \in W : x <= y
      BY <1>3, <2>1, LeastNumber
    <3> QED BY <3>1 DEF Min
  <2>3. w \in 1 .. Len(p) /\ w - 1 \in Nat /\ w - 1 <= Len(p) /\ (w - 1) + 1 = w
    BY <1>1, <2>1, <2>2
  <2>4. s = Append(q, <<"x">>)
    BY <1>3 DEF StreamSubjectFromPattern
  <2> HIDE DEF w, s, W
  <2>5. q \in Seq(Segs) /\ Len(q) = w - 1 /\ \A i \in 1 .. w - 1 : q[i] = p[i]
    BY <1>1, <2>3, PrefixOf
  <2> HIDE DEF q
  <2> DEFINE x == <<"x">>
  <2>6. x \in Segs /\ x # Tailing
    BY DEF Segs, Tailing
  <2>a. s = Append(q, x)
    BY <2>4
  <2> HIDE DEF x
  <2>7. s \in Seq(Segs) /\ s # <<>> /\ Len(s) = w /\ s[w] = x /\ \A i \in 1 .. w - 1 : s[i] = p[i]
    <3>1. Append(q, x) \in Seq(Segs) /\ Append(q, x) # <<>> /\ Len(Append(q, x)) = Len(q) + 1
          /\ Append(q, x)[Len(q) + 1] = x /\ \A i \in 1 .. Len(q) : Append(q, x)[i] = q[i]
      BY <2>5, <2>6, AppendProperties
    <3> QED BY <2>3, <2>5, <2>a, <3>1
  <2>8. \A i \in 1 .. w : i = w \/ (i \in 1 .. w - 1 /\ i \in 1 .. Len(p))
    BY <1>1, <2>3
  <2>9. Literal(s)
    BY <1>1, <2>6, <2>7, <2>8 DEF Literal
  <2>10. ASSUME Anchored(p) PROVE w > Depth /\ \A i \in 1 .. Depth : s[i] = p[i]
    <3>1. w \notin 1 .. Depth
      BY <2>2, <2>10 DEF Anchored, W
    <3>2. w > Depth
      BY <1>1, <2>3, <3>1
    <3>3. \A i \in 1 .. Depth : i \in 1 .. w - 1
      BY <1>1, <2>3, <3>2
    <3> QED BY <2>7, <3>2, <3>3
  <2> QED BY <2>7, <2>9, <2>10 DEF s
<1> QED BY <1>2, <1>3

LEMMA SubjectsLiteral == \A t \in Subjects : Literal(t)
  BY TypesLiteral, PatternSubject DEF Subjects

(* The prefix of a subject of the taxonomy has Depth segments; a shorter subject is its own. *)
LEMMA PrefixIs ==
    ASSUME NEW t, Literal(t)
    PROVE  /\ Literal(streamPrefix(t))
           /\ Len(t) > Depth =>
                 /\ streamPrefix(t) # t /\ Len(streamPrefix(t)) = Depth
                 /\ \A i \in 1 .. Depth : streamPrefix(t)[i] = t[i]
                 /\ streamSubjects(t) = {streamPrefix(t), Append(streamPrefix(t), Tailing)}
                 /\ SubjectFilter(t) = Append(streamPrefix(t), Tailing)
           /\ ~(Len(t) > Depth) => streamPrefix(t) = t /\ streamSubjects(t) = {t}
<1>1. t \in Seq(Segs) /\ Len(t) \in Nat /\ Depth \in Nat /\ Depth >= 2
  BY LiteralLen, EventStreamsAssumption DEF Literal
<1>2. CASE Len(t) > Depth
  <2> DEFINE p == streamPrefix(t)
  <2>1. p = SubSeq(t, 1, Depth)
    BY <1>2 DEF streamPrefix
  <2>2. p \in Seq(Segs) /\ Len(p) = Depth /\ \A i \in 1 .. Depth : p[i] = t[i]
    BY <1>1, <1>2, <2>1, PrefixOf
  <2> HIDE DEF p
  <2>3. p # t /\ p # <<>>
    BY <1>1, <1>2, <2>2, EmptySeq
  <2>4. Literal(p)
    <3>1. \A i \in 1 .. Depth : i \in 1 .. Len(t)
      BY <1>1, <1>2
    <3> QED BY <2>2, <2>3, <3>1 DEF Literal
  <2> QED BY <1>2, <2>2, <2>3, <2>4 DEF p, streamSubjects, SubjectFilter
<1>3. CASE ~(Len(t) > Depth)
  BY <1>3 DEF streamPrefix, streamSubjects
<1> QED BY <1>2, <1>3

(* Where the dead letters of a subject go. *)
LEMMA DeadSubject ==
    ASSUME NEW t, Literal(t)
    PROVE  LET d == dlqDeliverSubject(t) IN
           Literal(d) /\ Len(d) > 2 /\ d[1] = <<"zynax">> /\ d[2] = <<"dlq">>
<1> DEFINE p == streamPrefix(t)
           z == <<"zynax">>
           q == <<"dlq">>
           e == <<"dead">>
           a == <<z, q>>
           b == <<e>>
           c == a \o p
           d == c \o b
<1>1. p \in Seq(Segs) /\ Len(p) \in Nat /\ Len(p) >= 1 /\ \A i \in 1 .. Len(p) : p[i] # Tailing
  BY PrefixIs, LiteralLen DEF Literal
<1>2. z \in Segs /\ q \in Segs /\ e \in Segs /\ z # Tailing /\ q # Tailing /\ e # Tailing
  BY DEF Segs, Tailing
<1>3. dlqDeliverSubject(t) = d
  BY DEF dlqDeliverSubject
<1> HIDE DEF p, z, q, e
<1>4. a \in Seq(Segs) /\ Len(a) = 2 /\ a[1] = z /\ a[2] = q /\ b \in Seq(Segs) /\ Len(b) = 1 /\ b[1] = e
  BY <1>2
<1> HIDE DEF a, b
<1>5. c \in Seq(Segs) /\ Len(c) = 2 + Len(p) /\ \A i \in 1 .. 2 + Len(p) : c[i] = IF i <= 2 THEN a[i] ELSE p[i - 2]
  <2>1. /\ c \in Seq(Segs) /\ Len(c) = Len(a) + Len(p)
        /\ \A i \in 1 .. Len(a) + Len(p) : c[i] = IF i <= Len(a) THEN a[i] ELSE p[i - Len(a)]
    BY <1>1, <1>4, ConcatProperties
  <2> HIDE DEF c
  <2> QED BY <1>4, <2>1
<1> HIDE DEF c
<1> DEFINE n == Len(c)
<1>6. n \in Nat /\ n >= 3 /\ n = 2 + Len(p)
  BY <1>1, <1>5
<1>7. d \in Seq(Segs) /\ Len(d) = n + 1 /\ \A i \in 1 .. n + 1 : d[i] = IF i <= n THEN c[i] ELSE b[i - n]
  <2>1. /\ d \in Seq(Segs) /\ Len(d) = Len(c) + Len(b)
        /\ \A i \in 1 .. Len(c) + Len(b) : d[i] = IF i <= Len(c) THEN c[i] ELSE b[i - Len(c)]
    BY <1>4, <1>5, ConcatProperties
  <2> HIDE DEF d
  <2> QED BY <1>4, <2>1
<1> HIDE DEF d, n
<1>8. d[1] = z /\ d[2] = q
  <2>1. 1 \in 1 .. n + 1 /\ 2 \in 1 .. n + 1 /\ 1 <= n /\ 2 <= n /\ 1 \in 1 .. 2 + Len(p) /\ 2 \in 1 .. 2 + Len(p) /\ 1 <= 2 /\ 2 <= 2
    BY <1>1, <1>6
  <2> QED BY <1>4, <1>5, <1>7, <2>1
<1>9. ASSUME NEW i \in 1 .. n + 1 PROVE d[i] # Tailing
  <2>1. CASE i <= 2
    <3>1. i = 1 \/ i = 2
      BY <1>6, <2>1
    <3> QED BY <1>2, <1>8, <3>1
  <2>2. CASE ~(i <= 2) /\ i <= n
    <3>1. i \in 1 .. 2 + Len(p) /\ i - 2 \in 1 .. Len(p)
      BY <1>1, <1>6, <2>2
    <3> QED BY <1>1, <1>5, <1>7, <2>2, <3>1
  <2>3. CASE ~(i <= n)
    <3>1. i - n = 1
      BY <1>6, <2>3
    <3> QED BY <1>2, <1>4, <1>7, <2>3, <3>1
  <2> QED BY <2>1, <2>2, <2>3
<1>10. d # <<>> /\ Len(d) > 2
  BY <1>6, <1>7, EmptySeq
<1> QED BY <1>3, <1>7, <1>8, <1>9, <1>10 DEF Literal, z, q

(* An event type of the taxonomy that may be published. *)
Taxonomy(t) == t \in EventTypes /\ Len(t) > Depth /\ ~Reserved(t)

(* What a type of the taxonomy is for its prefix. *)
LEMMA TaxonomyIs ==
    ASSUME NEW t, Taxonomy(t)
    PROVE  LET p == streamPrefix(t) IN
           /\ Literal(t) /\ t \in Subjects /\ Literal(p) /\ p \in Seq(Segs) /\ Len(p) = Depth /\ Len(t) > Len(p)
           /\ \A i \in 1 .. Depth : p[i] = t[i]
           /\ streamSubjects(t) = {p, Append(p, Tailing)}
           /\ Depth \in Nat
           /\ ~(p[1] = <<"zynax">> /\ p[2] = <<"dlq">>)
<1>1. Literal(t) /\ t \in Subjects /\ Len(t) > Depth
  BY TypesLiteral DEF Taxonomy, Subjects
<1>2. Depth \in Nat /\ Depth >= 2 /\ Len(t) \in Nat
  BY <1>1, LiteralLen, EventStreamsAssumption
<1>3. 1 \in 1 .. Depth /\ 2 \in 1 .. Depth /\ Len(t) > 2
  BY <1>1, <1>2
<1> QED BY <1>1, <1>2, <1>3, PrefixIs DEF Taxonomy, Reserved, Literal

(* The filter of a prefix of Depth segments takes a subject only behind that prefix. *)
LEMMA BehindPrefix ==
    ASSUME NEW p, NEW s, Literal(p), Literal(s), Takes(Append(p, Tailing), s)
    PROVE  Len(s) > Len(p) /\ \A i \in 1 .. Len(p) : s[i] = p[i]
  BY FilterTakes DEF Literal, Begins

(* A subject of an entity's stream overlaps none of another's. *)
LEMMA EntityOverlap ==
    ASSUME NEW t, Taxonomy(t), NEW u \in Subjects,
           NEW f \in streamSubjects(u), NEW g \in streamSubjects(t), Overlap(f, g)
    PROVE  StreamName(u) = StreamName(t)
<1> DEFINE p == streamPrefix(t)
           q == streamPrefix(u)
           pf == Append(p, Tailing)
           qf == Append(q, Tailing)
<1>1. Literal(p) /\ p \in Seq(Segs) /\ Len(p) = Depth /\ Depth \in Nat /\ streamSubjects(t) = {p, pf}
  BY TaxonomyIs
<1>2. Literal(u) /\ Literal(q) /\ q \in Seq(Segs) /\ Len(u) \in Nat
  BY SubjectsLiteral, PrefixIs, LiteralLen DEF Literal
<1>3. SUFFICES q = p
  BY DEF StreamName
<1> HIDE DEF p, q
<1>4. pf[Len(pf)] = Tailing
  BY <1>1, FilterIs
<1>5. ASSUME NEW a, NEW b, Literal(a), Literal(b), Overlap(a, b) PROVE a = b
  BY <1>5, LiteralLen, LiteralTakes DEF Overlap
<1>6. ASSUME NEW a, NEW b, Literal(a), Literal(b), ~(Len(a) > Len(b)) PROVE ~Overlap(a, Append(b, Tailing)) /\ ~Overlap(Append(b, Tailing), a)
  <2>1. a # Append(b, Tailing) /\ a[Len(a)] # Tailing
    <3>1. b \in Seq(Segs)
      BY <1>6 DEF Literal
    <3>2. Append(b, Tailing)[Len(Append(b, Tailing))] = Tailing
      BY <3>1, FilterIs
    <3> QED BY <1>6, <3>2, LiteralLen
  <2>2. ~Takes(a, Append(b, Tailing)) /\ ~Takes(Append(b, Tailing), a)
    BY <1>6, <2>1, LiteralTakes, BehindPrefix
  <2> QED BY <2>1, <2>2 DEF Overlap
<1>7. CASE Len(u) > Depth
  <2>1. Len(q) = Depth /\ f \in {q, qf}
    BY <1>2, <1>7, PrefixIs DEF q
  <2>2. ~(Len(q) > Len(p)) /\ ~(Len(p) > Len(q))
    BY <1>1, <2>1
  <2>3. CASE f = q /\ g = p
    BY <1>1, <1>2, <1>5, <2>3
  <2>4. CASE f = q /\ g = pf
    BY <1>1, <1>2, <1>6, <2>2, <2>4
  <2>5. CASE f = qf /\ g = p
    BY <1>1, <1>2, <1>6, <2>2, <2>5
  <2>6. CASE f = qf /\ g = pf
    BY <1>1, <1>2, <2>1, <2>6, FiltersOverlap
  <2> QED BY <1>1, <2>1, <2>3, <2>4, <2>5, <2>6
<1>8. CASE ~(Len(u) > Depth)
  <2>1. q = u /\ f = u
    BY <1>2, <1>8, PrefixIs DEF q
  <2>2. g = p
    BY <1>1, <1>2, <1>6, <1>8, <2>1
  <2> QED BY <1>1, <1>2, <1>5, <2>1, <2>2
<1> QED BY <1>7, <1>8

(* Nor does it overlap the subject of anyone's dead letters. *)
LEMMA DeadApart ==
    ASSUME NEW t, Taxonomy(t), NEW u \in Subjects, NEW g \in streamSubjects(t)
    PROVE  ~Overlap(dlqDeliverSubject(u), g)
<1> DEFINE p == streamPrefix(t)
           d == dlqDeliverSubject(u)
           pf == Append(p, Tailing)
<1>1. /\ Literal(p) /\ p \in Seq(Segs) /\ Len(p) = Depth /\ Depth \in Nat /\ streamSubjects(t) = {p, pf}
      /\ ~(p[1] = <<"zynax">> /\ p[2] = <<"dlq">>)
  BY TaxonomyIs
<1>2. Literal(d) /\ d[1] = <<"zynax">> /\ d[2] = <<"dlq">>
  BY SubjectsLiteral, DeadSubject
<1>3. d # p
  BY <1>1, <1>2
<1>4. pf[Len(pf)] = Tailing /\ d[Len(d)] # Tailing /\ p[Len(p)] # Tailing
  BY <1>1, <1>2, FilterIs, LiteralLen
<1>5. 1 \in 1 .. Depth /\ 2 \in 1 .. Depth
  BY EventStreamsAssumption
<1> HIDE DEF p, d, pf
<1>6. ~Takes(d, p) /\ ~Takes(p, d) /\ ~Takes(d, pf)
  BY <1>1, <1>2, <1>3, <1>4, LiteralTakes
<1>7. ~Takes(pf, d)
  BY <1>1, <1>2, <1>5, BehindPrefix DEF pf
<1>8. ~Overlap(d, p) /\ ~Overlap(d, pf)
  BY <1>4, <1>6, <1>7 DEF Overlap
<1> QED BY <1>1, <1>8 DEF d

(* The stream of its entity is the only one that takes a type. *)
LEMMA EntityTakes ==
    ASSUME NEW t, Taxonomy(t), NEW u \in Subjects
    PROVE  /\ \A f \in streamSubjects(u) : Takes(f, t) => StreamName(u) = StreamName(t)
           /\ ~Takes(dlqDeliverSubject(u), t)
<1> DEFINE p == streamPrefix(t)
           q == streamPrefix(u)
<1>1. /\ Literal(t) /\ Literal(p) /\ p \in Seq(Segs) /\ Len(p) = Depth /\ Depth \in Nat
      /\ \A i \in 1 .. Depth : p[i] = t[i]
      /\ ~(p[1] = <<"zynax">> /\ p[2] = <<"dlq">>) /\ Len(t) > Depth
  BY TaxonomyIs
<1>2. Literal(u) /\ Literal(q) /\ q \in Seq(Segs) /\ Len(u) \in Nat /\ Len(t) \in Nat
  BY <1>1, SubjectsLiteral, PrefixIs, LiteralLen DEF Literal
<1>3. ASSUME NEW f \in streamSubjects(u), Takes(f, t) PROVE StreamName(u) = StreamName(t)
  <2>1. CASE Len(u) > Depth
    <3>1. Len(q) = Depth /\ f \in {q, Append(q, Tailing)}
      BY <1>2, <2>1, PrefixIs
    <3>2. f # q
      <4>1. q # t
        BY <1>1, <3>1
      <4> QED BY <1>2, <1>3, <4>1, LiteralTakes
    <3>3. \A i \in 1 .. Depth : t[i] = q[i]
      <4>1. Takes(Append(q, Tailing), t)
        BY <1>3, <3>1, <3>2
      <4> HIDE DEF q
      <4> QED BY <1>1, <1>2, <3>1, <4>1, BehindPrefix
    <3>4. p = q
      <4> HIDE DEF p, q
      <4>1. Len(p) = Len(q) /\ \A i \in 1 .. Len(p) : p[i] = q[i]
        BY <1>1, <3>1, <3>3
      <4> QED BY <1>1, <1>2, <4>1, SeqEqual
    <3> QED BY <3>4 DEF StreamName
  <2>2. CASE ~(Len(u) > Depth)
    <3>1. f = u
      BY <1>2, <2>2, PrefixIs
    <3> QED BY <1>1, <1>2, <1>3, <2>2, <3>1, LiteralTakes
  <2> QED BY <2>1, <2>2
<1>4. ~Takes(dlqDeliverSubject(u), t)
  <2> DEFINE d == dlqDeliverSubject(u)
  <2>1. Literal(d) /\ d[1] = <<"zynax">> /\ d[2] = <<"dlq">>
    BY SubjectsLiteral, DeadSubject
  <2>2. 1 \in 1 .. Depth /\ 2 \in 1 .. Depth
    BY EventStreamsAssumption
  <2> HIDE DEF d
  <2>3. d # t
    BY <1>1, <2>1, <2>2
  <2>4. ~Takes(d, t)
    BY <2>1, <2>3, LiteralTakes
  <2> QED BY <2>4 DEF d
<1> QED BY <1>3, <1>4

(* Every stream is one that ensureStream or ensureDLQStream made for a subject. *)
MadeFor(all) ==
    \A n \in DOMAIN all :
        \/ \E u \in Subjects : n = StreamName(u) /\ all[n] = streamSubjects(u)
        \/ \E u \in Subjects : n = dlqStreamName(StreamName(u)) /\ all[n] = {dlqDeliverSubject(u)}

(* A consumer reads the stream of its pattern, behind the filter of its subject. *)
ReadsOwn(c) ==
    \E p \in Patterns :
        /\ c.pattern = p
        /\ c.stream = StreamName(StreamSubjectFromPattern(p))
        /\ c.filter = SubjectFilter(StreamSubjectFromPattern(p))

(* The last publish of the taxonomy went to the stream of its entity or was refused, and
   on to the consumers there that take it. *)
PublishSeen ==
    (last.type # <<>> /\ Len(last.type) > Depth) =>
        /\ Taxonomy(last.type)
        /\ last.stream \subseteq {StreamName(last.type)}
        /\ NamedApart(last.type) => last.stream # {}
        /\ last.got = {c \in consumers : /\ c.stream \in last.stream
                                         /\ Takes(c.filter, last.type)
                                         /\ matchGlobSegments(c.pattern, last.type)}

StreamsInv == MadeFor(streams) /\ (\A c \in consumers : ReadsOwn(c)) /\ PublishSeen

LEMMA StreamAdded ==
    ASSUME NEW all, MadeFor(all), NEW u \in Subjects
    PROVE  /\ MadeFor(AddStream(all, StreamName(u), streamSubjects(u)))
           /\ MadeFor(AddStream(all, dlqStreamName(StreamName(u)), {dlqDeliverSubject(u)}))
           /\ StreamName(u) \in DOMAIN AddStream(all, StreamName(u), streamSubjects(u))
<1>1. ASSUME NEW name, NEW subjects,
             \/ name = StreamName(u) /\ subjects = streamSubjects(u)
             \/ name = dlqStreamName(StreamName(u)) /\ subjects = {dlqDeliverSubject(u)}
      PROVE  MadeFor(AddStream(all, name, subjects)) /\ name \in DOMAIN AddStream(all, name, subjects)
  <2> DEFINE more == AddStream(all, name, subjects)
  <2>1. /\ DOMAIN more = DOMAIN all \cup {name}
        /\ \A n \in DOMAIN all : more[n] = all[n]
        /\ name \notin DOMAIN all => more[name] = subjects
    BY DEF AddStream
  <2> HIDE DEF more
  <2>2. MadeFor(more)
    BY <1>1, <2>1 DEF MadeFor
  <2> QED BY <2>1, <2>2 DEF more
<1> QED BY <1>1

(* No stream but that of its entity takes a publish of the taxonomy, and that one does
   unless another subject has its name. *)
LEMMA TypeTaken ==
    ASSUME NEW t, Taxonomy(t), MadeFor(streams)
    PROVE  /\ ~Overlaps(streams, StreamName(t), streamSubjects(t))
           /\ Owners(ensureStream(t), t) \subseteq {StreamName(t)}
           /\ NamedApart(t) => Owners(ensureStream(t), t) # {}
<1>1. ~Overlaps(streams, StreamName(t), streamSubjects(t))
  <2> SUFFICES ASSUME NEW n \in DOMAIN streams, NEW f \in streams[n], NEW g \in streamSubjects(t),
                      Overlap(f, g), StreamName(t) \notin DOMAIN streams
               PROVE  FALSE
    BY DEF Overlaps
  <2>1. CASE \E u \in Subjects : n = StreamName(u) /\ streams[n] = streamSubjects(u)
    BY <2>1, EntityOverlap
  <2>2. CASE \E u \in Subjects : streams[n] = {dlqDeliverSubject(u)}
    BY <2>2, DeadApart
  <2> QED BY <2>1, <2>2 DEF MadeFor
<1> DEFINE all == ensureStream(t)
           name == StreamName(t)
           p == streamPrefix(t)
<1>2. t \in Subjects /\ Literal(t) /\ Literal(p) /\ p \in Seq(Segs) /\ Len(p) = Depth /\ Depth \in Nat
      /\ Len(t) > Len(p) /\ \A i \in 1 .. Depth : p[i] = t[i]
  BY TaxonomyIs
<1>3. MadeFor(all) /\ name \in DOMAIN all
  BY <1>2, StreamAdded DEF ensureStream
<1> HIDE DEF all
<1>4. ASSUME NEW n \in DOMAIN all, NEW f \in all[n], Takes(f, t) PROVE n = name
  <2>1. CASE \E u \in Subjects : n = StreamName(u) /\ all[n] = streamSubjects(u)
    BY <1>4, <2>1, EntityTakes
  <2>2. CASE \E u \in Subjects : all[n] = {dlqDeliverSubject(u)}
    BY <1>4, <2>2, EntityTakes
  <2> QED BY <1>3, <2>1, <2>2 DEF MadeFor
<1>5. ASSUME NamedApart(t) PROVE \E f \in all[name] : Takes(f, t)
  <2>1. PICK u \in Subjects : name = StreamName(u) /\ all[name] = streamSubjects(u)
    <3>1. \A u \in Subjects : name # dlqStreamName(StreamName(u))
      BY <1>5 DEF NamedApart
    <3> QED BY <1>3, <3>1 DEF MadeFor
  <2>2. streamPrefix(u) = p /\ Len(u) > Depth
    BY <1>5, <2>1 DEF NamedApart
  <2>3. Append(p, Tailing) \in all[name]
    <3> HIDE DEF p
    <3>1. streamSubjects(u) = {streamPrefix(u), Append(streamPrefix(u), Tailing)}
      BY <2>2, SubjectsLiteral, PrefixIs
    <3> QED BY <2>1, <2>2, <3>1
  <2>4. Takes(Append(p, Tailing), t)
    <3> HIDE DEF p
    <3>1. Len(t) >= Len(p)
      BY <1>2, LiteralLen
    <3> QED BY <1>2, <3>1, FilterTakes DEF Begins
  <2> QED BY <2>3, <2>4
<1>6. Owners(all, t) \subseteq {name} /\ (NamedApart(t) => Owners(all, t) # {})
  BY <1>3, <1>4, <1>5 DEF Owners
<1> QED BY <1>1, <1>6 DEF all

LEMMA StreamsInitHolds == StreamsInit => StreamsInv
  BY DEF StreamsInit, StreamsInv, MadeFor, PublishSeen, NoPublish

LEMMA StreamsStep == StreamsInv /\ [StreamsNext]_streamVars => StreamsInv'
<1> SUFFICES ASSUME StreamsInv, [StreamsNext]_streamVars PROVE StreamsInv'
  OBVIOUS
<1>0. MadeFor(streams) /\ (\A c \in consumers : ReadsOwn(c)) /\ PublishSeen
  BY DEF StreamsInv
<1>1. ASSUME NEW t \in EventTypes, PublishMsg(t) PROVE StreamsInv'
  <2> DEFINE refused == Overlaps(streams, StreamName(t), streamSubjects(t))
             all == IF refused THEN streams ELSE ensureStream(t)
             to == IF refused THEN {} ELSE Owners(all, t)
             got == {c \in consumers : /\ c.stream \in to /\ Takes(c.filter, t) /\ matchGlobSegments(c.pattern, t)}
  <2>1. /\ streams' = all /\ consumers' = consumers /\ ~Reserved(t)
        /\ last' = [type |-> t, stream |-> to, got |-> got]
    BY <1>1 DEF PublishMsg
  <2>2. MadeFor(streams)'
    <3>1. t \in Subjects
      BY DEF Subjects
    <3>2. MadeFor(ensureStream(t))
      BY <1>0, <3>1, StreamAdded DEF ensureStream
    <3>3. MadeFor(all)
      BY <1>0, <3>2
    <3> HIDE DEF all
    <3> QED BY <2>1, <3>3 DEF MadeFor
  <2>3. last'.type = t /\ last'.stream = to /\ last'.got = got
    <3> HIDE DEF to, got
    <3> QED BY <2>1
  <2>4. ASSUME Len(t) > Depth PROVE Taxonomy(t) /\ to \subseteq {StreamName(t)} /\ (NamedApart(t) => to # {})
    <3>1. Taxonomy(t)
      BY <2>1, <2>4 DEF Taxonomy
    <3> QED BY <1>0, <3>1, TypeTaken
  <2> HIDE DEF to, all, refused
  <2>5. PublishSeen'
    BY <2>1, <2>3, <2>4 DEF PublishSeen, Taxonomy
  <2>6. (\A c \in consumers : ReadsOwn(c))'
    BY <1>0, <2>1 DEF ReadsOwn
  <2> QED BY <2>2, <2>5, <2>6 DEF StreamsInv
<1>2. ASSUME last' = NoPublish PROVE PublishSeen'
  BY <1>2 DEF PublishSeen, NoPublish
<1>3. ASSUME NEW id \in SubscriberIds, NEW p \in Patterns, SubscribeTo(id, p) PROVE StreamsInv'
  <2> DEFINE u == StreamSubjectFromPattern(p)
             c0 == [durable |-> DurableConsumerName(id), stream |-> StreamName(u), filter |-> SubjectFilter(u), pattern |-> p]
  <2>1. /\ streams' \in {streams, ensureStream(u), ensureDLQStream(ensureStream(u), u)}
        /\ consumers' \in {consumers, consumers \cup {c0}}
        /\ last' = NoPublish
    BY <1>3 DEF SubscribeTo
  <2>2. MadeFor(ensureStream(u)) /\ MadeFor(ensureDLQStream(ensureStream(u), u))
    <3>1. u \in Subjects
      BY DEF Subjects
    <3>2. MadeFor(ensureStream(u))
      BY <1>0, <3>1, StreamAdded DEF ensureStream
    <3> QED BY <3>1, <3>2, StreamAdded DEF ensureDLQStream
  <2>3. MadeFor(streams)'
    BY <1>0, <2>1, <2>2 DEF MadeFor
  <2>4. ReadsOwn(c0)
    BY DEF ReadsOwn
  <2> HIDE DEF c0
  <2>5. (\A c \in consumers : ReadsOwn(c))'
    BY <1>0, <2>1, <2>4 DEF ReadsOwn
  <2> QED BY <1>2, <2>1, <2>3, <2>5 DEF StreamsInv
<1>4. ASSUME NEW id \in SubscriberIds, Unsubscribe(id) PROVE StreamsInv'
  <2>1. consumers' \subseteq consumers /\ last' = NoPublish /\ streams' = streams
    BY <1>4 DEF Unsubscribe
  <2> QED BY <1>0, <1>2, <2>1 DEF StreamsInv, MadeFor, ReadsOwn
<1>5. ASSUME UNCHANGED streamVars PROVE StreamsInv'
  BY <1>0, <1>5 DEF streamVars, StreamsInv, MadeFor, ReadsOwn, PublishSeen, Taxonomy
<1> QED BY <1>1, <1>3, <1>4, <1>5 DEF StreamsNext

(* Behind the filter of its entity an anchored follower gets exactly what matches. *)
LEMMA AnchoredGets ==
    ASSUME NEW t, Taxonomy(t), NEW c, ReadsOwn(c), Anchored(c.pattern)
    PROVE  (c.stream = StreamName(t) /\ Takes(c.filter, t) /\ matchGlobSegments(c.pattern, t)) <=> Matches(c.pattern, t)
<1>1. PICK p \in Patterns : c.pattern = p /\ c.stream = StreamName(StreamSubjectFromPattern(p))
                            /\ c.filter = SubjectFilter(StreamSubjectFromPattern(p))
  BY DEF ReadsOwn
<1> DEFINE s == StreamSubjectFromPattern(p)
           q == streamPrefix(s)
           r == streamPrefix(t)
<1>2. Literal(t) /\ Len(t) \in Nat /\ Depth \in Nat /\ Len(t) > Depth /\ Literal(r) /\ Len(r) = Depth
      /\ \A i \in 1 .. Depth : r[i] = t[i]
  BY TaxonomyIs, LiteralLen
<1>3. Literal(s) /\ Len(s) > Depth /\ \A i \in 1 .. Depth : s[i] = p[i]
  BY <1>1, PatternSubject
<1>4. Literal(q) /\ Len(q) = Depth /\ c.filter = Append(q, Tailing) /\ \A i \in 1 .. Depth : q[i] = p[i]
  <2> HIDE DEF s
  <2> QED BY <1>1, <1>3, PrefixIs DEF s
<1>5. matchGlobSegments(p, t) <=> Matches(p, t)
  <2>1. Literal(p) /\ DOMAIN p = 1 .. Len(p) /\ Len(p) \in Nat
    BY TypesLiteral, LiteralLen
  <2> QED BY <1>1, <1>2, <2>1, GlobMatches
<1>6. ASSUME Matches(p, t) PROVE c.stream = StreamName(t) /\ Takes(c.filter, t)
  <2>1. \A i \in 1 .. Depth : p[i] = t[i]
    BY <1>6 DEF Matches
  <2> HIDE DEF s, q, r
  <2>2. q = r
    <3>1. q \in Seq(Segs) /\ r \in Seq(Segs) /\ Len(q) = Len(r) /\ \A i \in 1 .. Len(q) : q[i] = r[i]
      BY <1>2, <1>4, <2>1 DEF Literal
    <3> QED BY <3>1, SeqEqual
  <2>3. c.stream = StreamName(t)
    BY <1>1, <2>2 DEF StreamName, s, q, r
  <2>4. Takes(Append(q, Tailing), t)
    <3>1. q \in Seq(Segs) /\ Len(t) >= Len(q) /\ Len(t) > Len(q)
      BY <1>2, <1>4 DEF Literal
    <3>2. Begins(t, q)
      BY <1>4, <2>1, <3>1 DEF Begins
    <3> QED BY <1>2, <3>1, <3>2, FilterTakes
  <2> QED BY <1>4, <2>3, <2>4
<1> QED BY <1>1, <1>5, <1>6

(* Whoever creates streams and consumers first, an event of the taxonomy that is published
   is taken by exactly one stream, and a follower whose pattern names an entity gets it
   exactly when the type matches; the publish is refused only when another subject claims
   the name of the stream: for any event types, patterns and depth of the taxonomy. *)
THEOREM EventsArrive == StreamsSpec => []EventsReachFollowers
<1>1. StreamsInv => EventsReachFollowers
  <2> SUFFICES ASSUME StreamsInv, last.type # <<>>, Len(last.type) > Depth
               PROVE  /\ last.stream = {} => last.got = {} /\ ~NamedApart(last.type)
                      /\ last.stream # {} =>
                            /\ Cardinality(last.stream) = 1
                            /\ \A c \in consumers : Anchored(c.pattern) => (c \in last.got <=> Matches(c.pattern, last.type))
    BY DEF EventsReachFollowers
  <2>1. Taxonomy(last.type) /\ last.stream \subseteq {StreamName(last.type)}
        /\ (NamedApart(last.type) => last.stream # {})
        /\ last.got = {c \in consumers : /\ c.stream \in last.stream
                                         /\ Takes(c.filter, last.type)
                                         /\ matchGlobSegments(c.pattern, last.type)}
    BY DEF StreamsInv, PublishSeen
  <2>2. last.stream = {} => last.got = {} /\ ~NamedApart(last.type)
    BY <2>1
  <2>3. ASSUME last.stream # {} PROVE last.stream = {StreamName(last.type)} /\ Cardinality(last.stream) = 1
    <3>1. last.stream = {StreamName(last.type)}
      BY <2>1, <2>3
    <3> QED BY <3>1, FS_Singleton
  <2>4. ASSUME last.stream # {}, NEW c \in consumers, Anchored(c.pattern)
        PROVE  c \in last.got <=> Matches(c.pattern, last.type)
    <3>1. ReadsOwn(c)
      BY DEF StreamsInv
    <3>2. c \in last.got <=> c.stream = StreamName(last.type) /\ Takes(c.filter, last.type) /\ matchGlobSegments(c.pattern, last.type)
      BY <2>1, <2>3, <2>4
    <3> QED BY <2>1, <2>4, <3>1, <3>2, AnchoredGets
  <2> QED BY <2>2, <2>3, <2>4
<1> QED BY <1>1, StreamsInitHolds, StreamsStep, PTL DEF StreamsSpec

=============================================================================
