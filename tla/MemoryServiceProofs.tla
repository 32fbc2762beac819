--------------------------- MODULE MemoryServiceProofs ---------------------------
(***************************************************************************)
(* Proofs about the memory service, for any number of clients, any ids,    *)
(* any keys and any requests.                                              *)
(***************************************************************************)
EXTENDS MemoryService, SequenceTheorems, TLAPS

---------------------------------------------------------------------------
(* Keys *)

(* The separator is a string as well; the provers need to be told. *)
Alphabet == STRING \cup {":"}
Chars == Seq(Alphabet)

LEMMA CharsOf == Seq(STRING) \subseteq Chars
<1>1. STRING \subseteq Alphabet
    BY DEF Alphabet
<1> QED BY <1>1, SeqMonotonic DEF Chars

(* The Redis keys that begin like those of a namespace. *)
Under(ns) == {k \in Chars : IsPrefix(KVKeyPrefix(ns), k)}

(* A Redis key, character by character. *)
LEMMA KeySpelling ==
    ASSUME NEW ns \in Chars, NEW key \in Chars
    PROVE  /\ KVKeyPrefix(ns) \in Chars /\ Len(KVKeyPrefix(ns)) = Len(ns) + 1
           /\ KVKeyPrefix(ns)[Len(ns) + 1] = ":"
           /\ \A i \in 1 .. Len(ns) : KVKeyPrefix(ns)[i] = ns[i]
           /\ KVKey(ns, key) \in Chars /\ Len(KVKey(ns, key)) = Len(ns) + 1 + Len(key)
           /\ \A i \in 1 .. Len(ns) + 1 : KVKey(ns, key)[i] = KVKeyPrefix(ns)[i]
<1> DEFINE sep == <<":">>
           p == ns \o sep
<1>1. sep \in Chars /\ Len(sep) = 1 /\ sep[1] = ":"
    <2>1. ":" \in Alphabet
        BY DEF Alphabet
    <2>2. Len(sep) = 1 /\ sep[1] = ":"
        OBVIOUS
    <2> QED BY <2>1, <2>2 DEF Chars
<1>2. Len(ns) \in Nat /\ Len(key) \in Nat
    BY LenProperties DEF Chars
<1>3. p \in Chars /\ Len(p) = Len(ns) + 1
    BY <1>1, ConcatProperties DEF Chars
<1>4. \A i \in 1 .. Len(ns) + 1 : p[i] = IF i <= Len(ns) THEN ns[i] ELSE sep[i - Len(ns)]
    BY <1>1, ConcatProperties DEF Chars
<1>5. p \o key \in Chars /\ Len(p \o key) = Len(p) + Len(key)
    BY <1>3, ConcatProperties DEF Chars
<1>6. \A i \in 1 .. Len(p) + Len(key) : (p \o key)[i] = IF i <= Len(p) THEN p[i] ELSE key[i - Len(p)]
    BY <1>3, ConcatProperties DEF Chars
<1> HIDE DEF p, sep
<1>7. p[Len(ns) + 1] = ":"
    BY <1>1, <1>2, <1>4
<1>8. \A i \in 1 .. Len(ns) : p[i] = ns[i]
    BY <1>2, <1>4
<1>9. \A i \in 1 .. Len(ns) + 1 : (p \o key)[i] = p[i]
    BY <1>2, <1>3, <1>6
<1>10. KVKeyPrefix(ns) = p /\ KVKey(ns, key) = p \o key
    BY DEF KVKeyPrefix, KVKey, p, sep
<1> QED BY <1>2, <1>3, <1>5, <1>7, <1>8, <1>9, <1>10

(* The beginning of a sequence. *)
LEMMA Beginning ==
    ASSUME NEW s \in Chars, NEW k \in Nat, k <= Len(s)
    PROVE  /\ SubSeq(s, 1, k) \in Chars /\ Len(SubSeq(s, 1, k)) = k
           /\ \A i \in 1 .. k : SubSeq(s, 1, k)[i] = s[i]
<1>1. Len(s) \in Nat /\ \A i \in 1 .. Len(s) : s[i] \in Alphabet
    BY LenProperties, ElementOfSeq DEF Chars
<1>2. \A i \in 1 .. k : s[i] \in Alphabet
    BY <1>1
<1>3. /\ SubSeq(s, 1, k) \in Chars
      /\ Len(SubSeq(s, 1, k)) = IF 1 <= k THEN k - 1 + 1 ELSE 0
      /\ \A i \in 1 .. k - 1 + 1 : SubSeq(s, 1, k)[i] = s[1 + i - 1]
    BY <1>2, SubSeqProperties DEF Chars
<1>4. 1 <= k \/ k = 0
    OBVIOUS
<1>5. k - 1 + 1 = k /\ \A i \in 1 .. k : 1 + i - 1 = i
    OBVIOUS
<1> QED BY <1>3, <1>4, <1>5

(* A key begins like those of a namespace, character by character. *)
LEMMA PrefixSpelling ==
    ASSUME NEW ns \in Chars, NEW t \in Chars
    PROVE  /\ t \in Under(ns) <=> /\ Len(ns) + 1 <= Len(t)
                                  /\ \A i \in 1 .. Len(ns) + 1 : KVKeyPrefix(ns)[i] = t[i]
           /\ t \in Under(ns) => SubSeq(t, 1, Len(ns) + 1) = KVKeyPrefix(ns)
<1> DEFINE p == KVKeyPrefix(ns)
           n == Len(ns)
<1>1. << >> \in Chars /\ p \in Chars /\ Len(p) = n + 1
    BY KeySpelling DEF Chars
<1>2. n \in Nat /\ Len(t) \in Nat
    BY LenProperties DEF Chars
<1>3. t \in Under(ns) <=> n + 1 <= Len(t) /\ SubSeq(p, 1, n + 1) = SubSeq(t, 1, n + 1)
    BY <1>1 DEF Under, IsPrefix
<1> HIDE DEF p, n
<1>4. /\ SubSeq(p, 1, n + 1) \in Chars /\ Len(SubSeq(p, 1, n + 1)) = n + 1
      /\ \A i \in 1 .. n + 1 : SubSeq(p, 1, n + 1)[i] = p[i]
    BY <1>1, <1>2, Beginning
<1>5. ASSUME n + 1 <= Len(t)
      PROVE  /\ SubSeq(t, 1, n + 1) \in Chars /\ Len(SubSeq(t, 1, n + 1)) = n + 1
             /\ \A i \in 1 .. n + 1 : SubSeq(t, 1, n + 1)[i] = t[i]
    BY <1>2, <1>5, Beginning
<1>6. SubSeq(p, 1, n + 1) = p
    <2>1. \A i \in 1 .. n + 1 : SubSeq(p, 1, n + 1)[i] = p[i]
        BY <1>4
    <2> QED BY <1>1, <1>2, <1>4, <2>1, SeqEqual DEF Chars
<1>7. ASSUME n + 1 <= Len(t), \A i \in 1 .. n + 1 : p[i] = t[i]
      PROVE  SubSeq(p, 1, n + 1) = SubSeq(t, 1, n + 1)
    <2>1. \A i \in 1 .. n + 1 : SubSeq(p, 1, n + 1)[i] = SubSeq(t, 1, n + 1)[i]
        BY <1>4, <1>5, <1>7
    <2> QED BY <1>4, <1>5, <1>7, <2>1, SeqEqual DEF Chars
<1>8. ASSUME n + 1 <= Len(t), SubSeq(p, 1, n + 1) = SubSeq(t, 1, n + 1)
      PROVE  \A i \in 1 .. n + 1 : p[i] = t[i]
    BY <1>4, <1>5, <1>8
<1>9. t \in Under(ns) <=> n + 1 <= Len(t) /\ \A i \in 1 .. n + 1 : p[i] = t[i]
    BY <1>3, <1>7, <1>8
<1>10. t \in Under(ns) => SubSeq(t, 1, n + 1) = p
    BY <1>3, <1>6
<1> QED BY <1>9, <1>10 DEF p, n

(* The keys of a namespace begin like it. *)
LEMMA OwnPrefix ==
    ASSUME NEW ns \in Chars, NEW key \in Chars PROVE KVKey(ns, key) \in Under(ns)
<1>1. /\ KVKey(ns, key) \in Chars /\ Len(KVKey(ns, key)) = Len(ns) + 1 + Len(key)
      /\ \A i \in 1 .. Len(ns) + 1 : KVKey(ns, key)[i] = KVKeyPrefix(ns)[i]
    BY KeySpelling
<1>2. Len(ns) \in Nat /\ Len(key) \in Nat
    BY LenProperties DEF Chars
<1> QED BY <1>1, <1>2, PrefixSpelling

LEMMA IdSpelling ==
    ASSUME NEW ns \in Ids
    PROVE  /\ ns \in Namespaces /\ ns \in Chars /\ Len(ns) \in Nat
           /\ \A i \in 1 .. Len(ns) : ns[i] \notin Wild \cup {":"}
<1>1. ns \in Namespaces /\ Characters(ns) \cap (Wild \cup {":"}) = {}
    BY DEF Ids
<1>2. ns \in Seq(STRING)
    BY <1>1, MemoryAssumption
<1>3. ns \in Chars /\ Len(ns) \in Nat /\ DOMAIN ns = 1 .. Len(ns)
    BY <1>2, CharsOf, LenProperties
<1> QED BY <1>1, <1>3 DEF Characters

(* No key begins like those of two namespaces with proper ids. *)
LEMMA UnderTells ==
    ASSUME NEW ns \in Ids, NEW ms \in Ids, NEW t \in Under(ns) \cap Under(ms)
    PROVE  ns = ms
<1> DEFINE p == KVKeyPrefix(ns)
           q == KVKeyPrefix(ms)
           n == Len(ns)
           m == Len(ms)
<1>1. /\ ns \in Chars /\ n \in Nat /\ \A i \in 1 .. n : ns[i] # ":"
      /\ ms \in Chars /\ m \in Nat /\ \A i \in 1 .. m : ms[i] # ":"
    BY IdSpelling
<1>2. << >> \in Chars /\ t \in Chars
    BY DEF Under, Chars
<1>3. /\ p[n + 1] = ":" /\ \A i \in 1 .. n : p[i] = ns[i]
      /\ q[m + 1] = ":" /\ \A i \in 1 .. m : q[i] = ms[i]
    BY <1>1, <1>2, KeySpelling
<1>4. /\ \A i \in 1 .. n + 1 : p[i] = t[i]
      /\ \A i \in 1 .. m + 1 : q[i] = t[i]
    BY <1>1, <1>2, PrefixSpelling
<1> HIDE DEF p, q, n, m
<1>5. n = m
    <2>1. CASE n < m
        <3>1. n + 1 \in 1 .. m /\ n + 1 \in 1 .. n + 1 /\ n + 1 \in 1 .. m + 1
            BY <1>1, <2>1
        <3> QED BY <1>1, <1>3, <1>4, <3>1
    <2>2. CASE m < n
        <3>1. m + 1 \in 1 .. n /\ m + 1 \in 1 .. n + 1 /\ m + 1 \in 1 .. m + 1
            BY <1>1, <2>2
        <3> QED BY <1>1, <1>3, <1>4, <3>1
    <2> QED BY <1>1, <2>1, <2>2
<1>6. \A i \in 1 .. n : ns[i] = ms[i]
    <2> SUFFICES ASSUME NEW i \in 1 .. n PROVE ns[i] = ms[i]
        OBVIOUS
    <2>1. i \in 1 .. n + 1 /\ i \in 1 .. m + 1 /\ i \in 1 .. m
        BY <1>1, <1>5
    <2> QED BY <1>3, <1>4, <2>1
<1> QED BY <1>1, <1>5, <1>6, SeqEqual DEF n, m, Chars

(* The pattern of a SCAN is literal in the prefix of a proper id. *)
LEMMA LiteralPrefix ==
    ASSUME NEW r \in Request, r.ns \in Ids, NEW t \in Chars
    PROVE  /\ PatternMatches(r, t) => t \in Under(r.ns)
           /\ r.op # "ListKeys" /\ t \in Under(r.ns) => PatternMatches(r, t)
<1> DEFINE ns == r.ns
           p == KVKeyPrefix(ns)
           n == Len(ns)
<1>1. ns \in Chars /\ n \in Nat /\ \A i \in 1 .. n : ns[i] \notin Wild \cup {":"}
    BY IdSpelling
<1>2. << >> \in Chars /\ Len(t) \in Nat
    BY LenProperties DEF Chars
<1>3. p \in Chars /\ Len(p) = n + 1 /\ p[n + 1] = ":" /\ \A i \in 1 .. n : p[i] = ns[i]
    BY <1>1, <1>2, KeySpelling
<1>4. DOMAIN p = 1 .. n + 1
    BY <1>3, LenProperties DEF Chars
<1> HIDE DEF p, n, ns
<1>5. Characters(p) \cap Wild = {}
    <2> SUFFICES ASSUME NEW i \in 1 .. n + 1 PROVE p[i] \notin Wild
        BY <1>4 DEF Characters
    <2>1. CASE i = n + 1
        BY <1>3, <2>1 DEF Wild
    <2>2. CASE i # n + 1
        <3>1. i \in 1 .. n
            BY <1>1, <2>2
        <3> QED BY <1>1, <1>3, <3>1
    <2> QED BY <2>1, <2>2
<1>6. \A x : GlobMatches(p, x) <=> x = p
    BY <1>5 DEF GlobMatches
<1>7. ASSUME PatternMatches(r, t) PROVE t \in Under(ns)
    <2>1. PICK cut \in 0 .. Len(t) : SubSeq(t, 1, cut) = p
        BY <1>6, <1>7 DEF PatternMatches, p, ns
    <2>2. /\ Len(SubSeq(t, 1, cut)) = cut
          /\ \A i \in 1 .. cut : SubSeq(t, 1, cut)[i] = t[i]
        BY <1>2, Beginning
    <2>3. cut = n + 1
        BY <1>3, <2>1, <2>2
    <2>4. n + 1 <= Len(t) /\ \A i \in 1 .. n + 1 : p[i] = t[i]
        BY <1>1, <1>2, <2>1, <2>2, <2>3
    <2> QED BY <1>1, <2>4, PrefixSpelling DEF p, n
<1>8. ASSUME r.op # "ListKeys", t \in Under(ns) PROVE PatternMatches(r, t)
    <2>1. n + 1 <= Len(t) /\ SubSeq(t, 1, n + 1) = p
        BY <1>1, <1>8, PrefixSpelling DEF p, n
    <2>2. n + 1 \in 0 .. Len(t)
        BY <1>1, <1>2, <2>1
    <2>3. GlobMatches(p, SubSeq(t, 1, n + 1))
        BY <1>6, <2>1
    <2> QED BY <1>8, <2>2, <2>3 DEF PatternMatches, p, ns
<1> QED BY <1>7, <1>8 DEF ns

(* The keys of a request lie under its namespace. *)
LEMMA KeysUnder ==
    /\ \A ns \in Ids : KeysOf(ns) \subseteq Under(ns)
    /\ \A r \in Request : \A i \in DOMAIN r.entries : KVKey(r.ns, r.entries[i].key) \in Under(r.ns)
<1>1. Keys \subseteq Chars
    BY MemoryAssumption, CharsOf
<1>2. ASSUME NEW r \in Request, NEW i \in DOMAIN r.entries PROVE r.entries[i].key \in Chars /\ r.ns \in Chars
    <2>1. r.entries \in Seq([key : Seq(STRING), ttl : BOOLEAN]) /\ r.ns \in Seq(STRING)
        BY DEF Request
    <2>2. r.entries[i] \in [key : Seq(STRING), ttl : BOOLEAN]
        BY <2>1, LenProperties, ElementOfSeq
    <2> QED BY <2>1, <2>2, CharsOf
<1> QED BY <1>1, <1>2, IdSpelling, OwnPrefix DEF KeysOf

---------------------------------------------------------------------------
(* The invariant *)

Statuses == {"open", "OK", "NotFound", "InvalidArgument", "Internal"}

Call == [req : Request, status : Statuses, pos : Nat, batch : SUBSET Chars, answer : SUBSET Chars,
         fresh : SUBSET Chars, todo : SUBSET Chars]

(* What the calls of a namespace may read. *)
Readable(ns) == IF ns \in Ids THEN Exposed(ns) ELSE Chars

LEMMA ReadableChars == \A ns \in Namespaces : ns \in Readable(ns) /\ Readable(ns) \subseteq Chars
BY MemoryAssumption, CharsOf DEF Readable, Exposed

(* A call that was let through is of a namespace; what it has read is that    *)
(* namespace's; what it is about to delete lies under it; and what a          *)
(* DeleteNamespace has not deleted yet is new, or it will come across it.     *)
Fits(call, stored) ==
    /\ call.status # "InvalidArgument" => call.req.ns \in Namespaces
    /\ call.answer \subseteq Readable(call.req.ns)
    /\ call.req.ns \in Ids => call.batch \subseteq Under(call.req.ns)
    /\ (call.status = "open" /\ call.req.op = "DeleteNamespace" /\ call.req.ns \in Ids)
         => KeysOf(call.req.ns) \cap stored \subseteq call.fresh \cup call.todo \cup call.batch

CallsFit ==
    /\ calls \in [Clients -> {<< >>} \cup {<<call>> : call \in Call}]
    /\ \A c \in Clients : calls[c] # << >> => Fits(Current(c), DOMAIN kv)

(* Every value lies under the namespace that wrote it. *)
ValuesOwned == \A k \in DOMAIN kv : kv[k].owner \in Namespaces /\ k \in Under(kv[k].owner)

MemInv == CallsFit /\ ValuesOwned

(* A call that is under way. *)
LEMMA CurrentFits ==
    ASSUME MemInv, NEW c \in Clients, calls[c] # << >>
    PROVE  Current(c) \in Call /\ calls[c] = <<Current(c)>> /\ Fits(Current(c), DOMAIN kv)
<1>1. PICK call \in Call : calls[c] = <<call>>
    BY DEF MemInv, CallsFit
<1>2. Current(c) = call
    BY <1>1 DEF Current
<1> QED BY <1>1, <1>2 DEF MemInv, CallsFit

(* What is stored, of one namespace. *)
LEMMA StoredKeys ==
    ASSUME MemInv, NEW k \in DOMAIN kv
    PROVE  /\ k \in Chars /\ kv[k].owner \in Chars
           /\ \A ns \in Ids : k \in Under(ns) => kv[k].owner \in Exposed(ns)
<1>1. kv[k].owner \in Namespaces /\ k \in Under(kv[k].owner)
    BY DEF MemInv, ValuesOwned
<1>2. k \in Chars /\ kv[k].owner \in Chars
    BY <1>1, MemoryAssumption, CharsOf DEF Under
<1> QED BY <1>1, <1>2, UnderTells DEF Exposed

(* These are the states of NamespacesIsolated. *)
LEMMA MemParts == MemInv => OwnValues /\ OwnAnswers
<1> SUFFICES ASSUME MemInv PROVE OwnValues /\ OwnAnswers
    OBVIOUS
<1>1. \A ns \in Ids : \A k \in KeysOf(ns) \cap DOMAIN kv : kv[k].owner \in Exposed(ns)
    BY StoredKeys, KeysUnder
<1>2. \A c \in Clients : calls[c] # << >> => Current(c).answer \subseteq Readable(Req(c).ns)
    BY CurrentFits DEF Fits, Req
<1> QED BY <1>1, <1>2 DEF OwnValues, OwnAnswers, Readable

(* What a step has to keep, and may not do. *)
Isolates == MemInv' /\ OwnWrites /\ Emptied

(* A step that writes nothing, or removes some values. *)
LEMMA NothingWritten ==
    ASSUME UNCHANGED <<kv, vectors>> PROVE OwnWrites
BY DEF OwnWrites

(* A call that moves on while values stay or go. *)
LEMMA CallMoves ==
    ASSUME MemInv, NEW c \in Clients, NEW call \in Call, Becomes(c, call), Fits(call, DOMAIN kv'),
           DOMAIN kv' \subseteq DOMAIN kv, \A k \in DOMAIN kv' : kv'[k] = kv[k],
           (Does(c, "DeleteNamespace") /\ Req(c).ns \in Ids /\ call.status = "OK")
              => KeysOf(Req(c).ns) \cap DOMAIN kv' \subseteq Current(c).fresh
    PROVE  MemInv' /\ Emptied
<1>1. /\ calls' \in [Clients -> {<< >>} \cup {<<x>> : x \in Call}]
      /\ calls'[c] = <<call>> /\ calls'[c][1] = call /\ \A d \in Clients : d # c => calls'[d] = calls[d]
    BY DEF Becomes, MemInv, CallsFit
<1>2. ASSUME NEW d \in Clients, calls'[d] # << >> PROVE Fits(calls'[d][1], DOMAIN kv')
    <2>1. CASE d = c
        BY <1>1, <2>1
    <2>2. CASE d # c
        <3>1. calls'[d][1] = Current(d) /\ Fits(Current(d), DOMAIN kv)
            BY <1>1, <1>2, <2>2, CurrentFits DEF Current
        <3> QED BY <3>1 DEF Fits
    <2> QED BY <2>1, <2>2
<1>3. CallsFit'
    BY <1>1, <1>2 DEF CallsFit, Current
<1>4. ValuesOwned'
    BY DEF MemInv, ValuesOwned
<1>5. ASSUME NEW d \in Clients, Does(d, "DeleteNamespace"), Req(d).ns \in Ids, calls'[d][1].status = "OK"
      PROVE  KeysOf(Req(d).ns) \cap DOMAIN kv' \subseteq Current(d).fresh
    <2>1. d = c
        BY <1>1, <1>5 DEF Does, InCall, Current
    <2> QED BY <1>1, <1>5, <2>1
<1> QED BY <1>3, <1>4, <1>5 DEF MemInv, Emptied

---------------------------------------------------------------------------
(* The steps *)

(* Invoke: a call begins, is refused, or takes the process with it. *)
LEMMA InvokeIsolates ==
    ASSUME MemInv, NEW c \in Clients, NEW r \in Requests[c], Invoke(c, r) PROVE Isolates
<1>1. calls[c] = << >> /\ UNCHANGED <<kv, vectors>>
    BY DEF Invoke
<1>2. r \in Request /\ r.ns \in Namespaces \cup {<< >>}
    BY MemoryAssumption
<1>3. DOMAIN kv \subseteq Chars
    BY StoredKeys
<1>4. NewCall(r) \in Call
    BY <1>2, <1>3 DEF NewCall, Call, Statuses
<1>5. OwnWrites
    BY <1>1, NothingWritten
<1>6. ~Does(c, "DeleteNamespace")
    BY <1>1 DEF Does, InCall
<1>7. CASE ~ValidateAccess(r.ns)
    <2> DEFINE x == [NewCall(r) EXCEPT !.status = "InvalidArgument"]
    <2>1. x \in Call /\ Fits(x, DOMAIN kv')
        BY <1>4 DEF Call, Statuses, Fits, NewCall
    <2>2. Becomes(c, x)
        BY <1>7 DEF Invoke, Becomes
    <2> HIDE DEF x
    <2> QED BY <1>1, <1>5, <1>6, <2>1, <2>2, CallMoves DEF Isolates
<1>8. CASE ValidateAccess(r.ns) /\ StoreOf(r) \in wired
    <2>1. r.ns \in Namespaces
        BY <1>2, <1>8 DEF ValidateAccess
    <2>2. Fits(NewCall(r), DOMAIN kv')
        BY <1>1, <2>1 DEF Fits, NewCall, ScanOps
    <2>3. Becomes(c, NewCall(r))
        BY <1>8 DEF Invoke, Becomes
    <2> QED BY <1>1, <1>4, <1>5, <1>6, <2>2, <2>3, CallMoves DEF Isolates
<1>9. CASE ValidateAccess(r.ns) /\ StoreOf(r) \notin wired
    <2>1. calls' = [d \in Clients |-> << >>]
        BY <1>9 DEF Invoke
    <2>2. CallsFit' /\ Emptied
        BY <2>1 DEF CallsFit, Emptied
    <2>3. ValuesOwned'
        BY <1>1 DEF MemInv, ValuesOwned
    <2> QED BY <1>5, <2>2, <2>3 DEF Isolates, MemInv
<1> QED BY <1>7, <1>8, <1>9

(* A call is answered. *)
LEMMA ReturnIsolates ==
    ASSUME MemInv, NEW c \in Clients, CallReturns(c) PROVE Isolates
<1>1. calls' = [calls EXCEPT ![c] = << >>] /\ UNCHANGED <<kv, vectors>>
    BY DEF CallReturns
<1>2. \A d \in Clients : calls'[d] = << >> \/ calls'[d] = calls[d]
    BY <1>1 DEF MemInv, CallsFit
<1>3. CallsFit'
    BY <1>1, <1>2 DEF MemInv, CallsFit, Current
<1>4. Emptied
    BY <1>2 DEF Emptied, Does, InCall, Current
<1>5. ValuesOwned'
    BY <1>1 DEF MemInv, ValuesOwned
<1> QED BY <1>1, <1>3, <1>4, <1>5, NothingWritten DEF Isolates, MemInv

(* A call that ends without deleting a namespace, its answer aside. *)
LEMMA EndIsolates ==
    ASSUME MemInv, NEW c \in Clients, InCall(c), NEW s \in Statuses, NEW a \in SUBSET Readable(Req(c).ns),
           NEW t \in SUBSET Chars, s # "InvalidArgument", s = "Internal" \/ Req(c).op # "DeleteNamespace",
           Becomes(c, [Current(c) EXCEPT !.status = s, !.answer = a, !.todo = t]),
           DOMAIN kv' \subseteq DOMAIN kv, \A k \in DOMAIN kv' : kv'[k] = kv[k]
    PROVE  MemInv' /\ Emptied
<1> DEFINE x == [Current(c) EXCEPT !.status = s, !.answer = a, !.todo = t]
<1>1. Current(c) \in Call /\ Fits(Current(c), DOMAIN kv) /\ Req(c) = Current(c).req
    BY CurrentFits DEF InCall, Req
<1>2. Current(c).status = "open" /\ Req(c).ns \in Namespaces /\ a \in SUBSET Chars
    BY <1>1, ReadableChars DEF Fits, InCall
<1>3. /\ x \in Call /\ x.status = s /\ x.answer = a /\ x.req = Current(c).req /\ x.batch = Current(c).batch
    BY <1>1, <1>2 DEF Call
<1>4. Fits(x, DOMAIN kv')
    BY <1>1, <1>2, <1>3 DEF Fits
<1>5. ~(Does(c, "DeleteNamespace") /\ x.status = "OK")
    BY <1>3 DEF Does
<1> HIDE DEF x
<1> QED BY <1>3, <1>4, <1>5, CallMoves DEF x

(* Such an end, with the answer or without. *)
LEMMA EndForms ==
    ASSUME MemInv, NEW c \in Clients, InCall(c), NEW s \in Statuses, NEW a \in SUBSET Readable(Req(c).ns),
           s # "InvalidArgument", s = "Internal" \/ Req(c).op # "DeleteNamespace",
           \/ Ends(c, s)
           \/ Becomes(c, [Current(c) EXCEPT !.status = s, !.answer = a]),
           DOMAIN kv' \subseteq DOMAIN kv, \A k \in DOMAIN kv' : kv'[k] = kv[k]
    PROVE  MemInv' /\ Emptied
<1> DEFINE x == Current(c)
<1>1. x \in Call /\ x.answer \in SUBSET Readable(Req(c).ns)
    BY CurrentFits DEF InCall, Fits, Req
<1>2. x.todo \in SUBSET Chars
    BY <1>1 DEF Call
<1>3. [x EXCEPT !.status = s, !.answer = a] = [x EXCEPT !.status = s, !.answer = a, !.todo = x.todo]
    BY <1>1 DEF Call
<1>4. [x EXCEPT !.status = s] = [x EXCEPT !.status = s, !.answer = x.answer, !.todo = x.todo]
    BY <1>1 DEF Call
<1>5. CASE Becomes(c, [x EXCEPT !.status = s, !.answer = a])
    <2>1. Becomes(c, [x EXCEPT !.status = s, !.answer = a, !.todo = x.todo])
        BY <1>3, <1>5
    <2> QED BY <1>2, <2>1, EndIsolates
<1>6. CASE Ends(c, s)
    <2>1. Becomes(c, [x EXCEPT !.status = s, !.answer = x.answer, !.todo = x.todo])
        BY <1>4, <1>6 DEF Ends
    <2> QED BY <1>1, <1>2, <2>1, EndIsolates
<1> QED BY <1>5, <1>6

(* What a call is about. *)
LEMMA CallFacts ==
    ASSUME MemInv, NEW c \in Clients, InCall(c)
    PROVE  /\ Current(c) \in Call /\ Req(c) \in Request /\ Req(c).ns \in Namespaces
           /\ Asked(c) \subseteq Under(Req(c).ns)
           /\ Owners(Asked(c)) \subseteq Readable(Req(c).ns)
<1>1. Current(c) \in Call /\ Fits(Current(c), DOMAIN kv) /\ Current(c).status = "open"
    BY CurrentFits DEF InCall
<1>2. Req(c) \in Request /\ Req(c).ns \in Namespaces
    BY <1>1 DEF Fits, Call, Req
<1>3. Asked(c) \subseteq Under(Req(c).ns)
    BY <1>2, KeysUnder DEF Asked
<1>4. Owners(Asked(c)) \subseteq Readable(Req(c).ns)
    BY <1>2, <1>3, StoredKeys DEF Owners, Readable
<1> QED BY <1>1, <1>2, <1>3, <1>4

(* What a scan finds lies under the namespace of the call. *)
LEMMA FoundFacts ==
    ASSUME MemInv, NEW c \in Clients, InCall(c), NEW visited
    PROVE  /\ Found(c, visited) \subseteq Chars
           /\ Owners(Found(c, visited)) \subseteq Readable(Req(c).ns)
           /\ Req(c).ns \in Ids =>
                 /\ Found(c, visited) \subseteq Under(Req(c).ns)
                 /\ Req(c).op # "ListKeys" => Under(Req(c).ns) \cap visited \cap DOMAIN kv \subseteq Found(c, visited)
<1>1. Req(c) \in Request /\ Req(c).ns \in Namespaces
    BY CallFacts
<1>2. \A k \in Found(c, visited) : k \in DOMAIN kv /\ PatternMatches(Req(c), k)
    BY DEF Found
<1>3. Found(c, visited) \subseteq Chars
    BY <1>2, StoredKeys
<1>4. Req(c).ns \in Ids => Found(c, visited) \subseteq Under(Req(c).ns)
    BY <1>1, <1>2, <1>3, LiteralPrefix
<1>5. Owners(Found(c, visited)) \subseteq Readable(Req(c).ns)
    BY <1>2, <1>4, StoredKeys DEF Owners, Readable
<1>6. ASSUME Req(c).ns \in Ids, Req(c).op # "ListKeys", NEW k \in Under(Req(c).ns) \cap visited \cap DOMAIN kv
      PROVE  k \in Found(c, visited)
    <2>1. PatternMatches(Req(c), k)
        BY <1>1, <1>6, StoredKeys, LiteralPrefix
    <2> QED BY <2>1 DEF Found
<1> QED BY <1>3, <1>4, <1>5, <1>6

(* The calls that only read. *)
LEMMA ReadsIsolate ==
    ASSUME MemInv, NEW c \in Clients, NEW visited \in SUBSET (DOMAIN kv \cup Current(c).todo),
           StoreFails(c) \/ Get(c) \/ MGet(c) \/ QueryVector(c) \/ ListKeys(c, visited)
    PROVE  Isolates
<1>1. InCall(c) /\ UNCHANGED <<kv, vectors>>
    BY DEF StoreFails, Get, MGet, QueryVector, ListKeys, Does
<1>2. Owners(Asked(c)) \in SUBSET Readable(Req(c).ns) /\ Current(c) \in Call
    BY <1>1, CallFacts
<1>3. MemInv' /\ Emptied
    <2>1. CASE StoreFails(c)
        <3>1. Ends(c, "Internal") /\ "Internal" \in Statuses
            BY <2>1 DEF StoreFails, Statuses
        <3> QED BY <1>1, <1>2, <3>1, EndForms
    <2>2. CASE Get(c)
        <3>1. PICK s \in {"OK", "NotFound"} : Becomes(c, [Current(c) EXCEPT !.status = s, !.answer = Owners(Asked(c))])
            BY <2>2 DEF Get
        <3>2. s \in Statuses /\ s # "InvalidArgument" /\ Req(c).op # "DeleteNamespace"
            BY <2>2 DEF Get, Does, Statuses
        <3> QED BY <1>1, <1>2, <3>1, <3>2, EndForms
    <2>3. CASE MGet(c)
        <3>1. Becomes(c, [Current(c) EXCEPT !.status = "OK", !.answer = Owners(Asked(c))])
            BY <2>3 DEF MGet
        <3>2. "OK" \in Statuses /\ Req(c).op # "DeleteNamespace"
            BY <2>3 DEF MGet, Does, Statuses
        <3> QED BY <1>1, <1>2, <3>1, <3>2, EndForms
    <2>4. CASE QueryVector(c)
        <3>1. PICK vs \in Nearest(Req(c)) :
                 Becomes(c, [Current(c) EXCEPT !.status = IF Req(c).k = 0 THEN "Internal" ELSE "OK",
                                               !.answer = {v.ns : v \in vs}])
            BY <2>4 DEF QueryVector
        <3>2. {v.ns : v \in vs} \in SUBSET Readable(Req(c).ns)
            BY <1>1, CallFacts, ReadableChars DEF Nearest
        <3>3. (IF Req(c).k = 0 THEN "Internal" ELSE "OK") \in Statuses \ {"InvalidArgument"}
            BY DEF Statuses
        <3>4. Req(c).op # "DeleteNamespace"
            BY <2>4 DEF QueryVector, Does
        <3> QED BY <1>1, <3>1, <3>2, <3>3, <3>4, EndForms
    <2>5. CASE ListKeys(c, visited)
        <3> DEFINE left == Current(c).todo \ visited
                   s == IF left = {} THEN "OK" ELSE "open"
                   a == Current(c).answer \cup Owners(Found(c, visited))
        <3>1. Becomes(c, [Current(c) EXCEPT !.todo = left, !.status = s, !.answer = a])
            BY <2>5 DEF ListKeys
        <3>2. s \in Statuses /\ s # "InvalidArgument" /\ Req(c).op # "DeleteNamespace" /\ left \in SUBSET Chars
            BY <1>2, <2>5 DEF ListKeys, Does, Statuses, Call
        <3>3. Current(c).answer \subseteq Readable(Req(c).ns)
            BY <1>1, CurrentFits DEF InCall, Fits, Req
        <3>4. a \in SUBSET Readable(Req(c).ns)
            BY <1>1, <3>3, FoundFacts
        <3>5. [Current(c) EXCEPT !.todo = left, !.status = s, !.answer = a]
                = [Current(c) EXCEPT !.status = s, !.answer = a, !.todo = left]
            BY <1>2 DEF Call
        <3> HIDE DEF left, s, a
        <3> QED BY <1>1, <3>1, <3>2, <3>4, <3>5, EndIsolates
    <2> QED BY <2>1, <2>2, <2>3, <2>4, <2>5
<1> QED BY <1>1, <1>3, NothingWritten DEF Isolates

(* The value of a key stays, or its absence. *)
Same(k) == (k \in DOMAIN kv <=> k \in DOMAIN kv') /\ (k \in DOMAIN kv => kv'[k] = kv[k])

(* What changes lies under the namespace whose call changes it. *)
LEMMA OwnKeysChange ==
    ASSUME NEW ns \in Namespaces, actor' = ns, \A ms : ms # ns => RowsOf(vectors', ms) = RowsOf(vectors, ms),
           ns \in Ids => \A k : k \notin Under(ns) => Same(k)
    PROVE  OwnWrites
<1>1. ASSUME NEW ms \in Ids, NEW k \in KeysOf(ms), actor' \notin Exposed(ms)
      PROVE  Same(k)
    <2>1. ns \in Ids /\ ms # ns
        BY <1>1 DEF Exposed
    <2>2. k \notin Under(ns)
        BY <1>1, <2>1, KeysUnder, UnderTells
    <2> QED BY <2>1, <2>2
<1> QED BY <1>1 DEF OwnWrites, Same

(* Delete, the DEL of one key of the call's namespace. *)
LEMMA DeleteIsolates ==
    ASSUME MemInv, NEW c \in Clients, Delete(c) PROVE Isolates
<1>1. InCall(c) /\ Req(c).op = "Delete" /\ Ends(c, "OK") /\ actor' = Req(c).ns /\ vectors' = vectors
    BY DEF Delete, Does
<1>2. kv' = [k \in DOMAIN kv \ Asked(c) |-> kv[k]]
    BY DEF Delete, Del
<1>3. Req(c).ns \in Namespaces /\ Asked(c) \subseteq Under(Req(c).ns)
    BY <1>1, CallFacts
<1>4. OwnWrites
    BY <1>1, <1>2, <1>3, OwnKeysChange DEF Same
<1>5. "OK" \in Statuses /\ {} \in SUBSET Readable(Req(c).ns)
    BY DEF Statuses
<1>6. MemInv' /\ Emptied
    BY <1>1, <1>2, <1>5, EndForms
<1> QED BY <1>4, <1>6 DEF Isolates

(* The vectors: a row is written or deleted. *)
LEMMA VectorsIsolate ==
    ASSUME MemInv, NEW c \in Clients, StoreVector(c) \/ \E id \in 1 .. MaxVectors : DeleteVector(c, id)
    PROVE  Isolates
<1>1. /\ InCall(c) /\ Req(c).op # "DeleteNamespace" /\ Ends(c, "OK") /\ actor' = Req(c).ns /\ kv' = kv
    BY DEF StoreVector, DeleteVector, Does
<1>2. \A ns : ns # Req(c).ns => RowsOf(vectors', ns) = RowsOf(vectors, ns)
    BY DEF StoreVector, DeleteVector, RowsOf
<1>3. OwnWrites
    BY <1>1, <1>2, CallFacts, OwnKeysChange DEF Same
<1>4. "OK" \in Statuses /\ {} \in SUBSET Readable(Req(c).ns)
    BY DEF Statuses
<1>5. MemInv' /\ Emptied
    BY <1>1, <1>4, EndForms
<1> QED BY <1>3, <1>5 DEF Isolates

(* A value expires. *)
LEMMA ExpireIsolates ==
    ASSUME MemInv, NEW k \in DOMAIN kv, Expire(k) PROVE Isolates
<1>1. kv[k].ttl /\ kv' = [x \in DOMAIN kv \ {k} |-> kv[x]] /\ actor' = << >> /\ UNCHANGED <<vectors, calls>>
    BY DEF Expire, Del
<1>2. OwnWrites
    BY <1>1 DEF OwnWrites
<1>3. CallsFit'
    BY <1>1 DEF MemInv, CallsFit, Current, Fits
<1>4. ValuesOwned'
    BY <1>1 DEF MemInv, ValuesOwned
<1>5. Emptied
    BY <1>1 DEF Emptied, Does, InCall, Current
<1> QED BY <1>2, <1>3, <1>4, <1>5 DEF Isolates, MemInv

(* One SCAN of a DeleteNamespace: what it found is to be deleted. *)
LEMMA ScanIsolates ==
    ASSUME MemInv, NEW c \in Clients, NEW visited \in SUBSET (DOMAIN kv \cup Current(c).todo),
           DeleteNamespace(c, visited)
    PROVE  Isolates
<1> DEFINE old == Current(c)
           left == old.todo \ visited
           found == Found(c, visited)
           s == IF left = {} /\ found = {} THEN "OK" ELSE "open"
           x == [old EXCEPT !.todo = left, !.batch = found, !.status = s]
           ns == Req(c).ns
<1>1. /\ InCall(c) /\ Req(c).op = "DeleteNamespace" /\ old.batch = {} /\ Becomes(c, x)
      /\ UNCHANGED <<kv, vectors>>
    BY DEF DeleteNamespace, Does, Scan
<1>2. old \in Call /\ Fits(old, DOMAIN kv) /\ old.req = Req(c) /\ old.status = "open"
    BY <1>1, CurrentFits DEF InCall, Req
<1>3. /\ found \subseteq Chars
      /\ ns \in Ids => found \subseteq Under(ns) /\ Under(ns) \cap visited \cap DOMAIN kv \subseteq found
    BY <1>1, FoundFacts
<1>4. ns \in Ids => KeysOf(ns) \cap DOMAIN kv \subseteq old.fresh \cup old.todo
    BY <1>1, <1>2 DEF Fits
<1>5. ns \in Ids => KeysOf(ns) \subseteq Under(ns)
    BY KeysUnder
<1>6. ns \in Ids => KeysOf(ns) \cap DOMAIN kv \subseteq old.fresh \cup left \cup found
    BY <1>3, <1>4, <1>5
<1>7. /\ x \in Call /\ x.req = Req(c) /\ x.answer = old.answer /\ x.fresh = old.fresh
      /\ x.todo = left /\ x.batch = found /\ x.status = s
    BY <1>2, <1>3 DEF Call, Statuses
<1>8. Fits(x, DOMAIN kv')
    BY <1>1, <1>2, <1>3, <1>6, <1>7 DEF Fits
<1>9. ns \in Ids /\ s = "OK" => KeysOf(ns) \cap DOMAIN kv' \subseteq old.fresh
    BY <1>1, <1>6
<1> HIDE DEF x
<1>10. MemInv' /\ Emptied
    BY <1>1, <1>7, <1>8, <1>9, CallMoves
<1> QED BY <1>1, <1>10, NothingWritten DEF Isolates

(* The DEL of what the SCAN found. *)
LEMMA BatchIsolates ==
    ASSUME MemInv, NEW c \in Clients, DeleteBatch(c) PROVE Isolates
<1> DEFINE old == Current(c)
           s == IF old.todo = {} THEN "OK" ELSE "open"
           x == [old EXCEPT !.batch = {}, !.status = s]
           ns == Req(c).ns
<1>1. /\ InCall(c) /\ Req(c).op = "DeleteNamespace" /\ Becomes(c, x) /\ actor' = ns /\ vectors' = vectors
      /\ kv' = [k \in DOMAIN kv \ old.batch |-> kv[k]]
    BY DEF DeleteBatch, Does, Del
<1>2. old \in Call /\ Fits(old, DOMAIN kv) /\ old.req = Req(c) /\ old.status = "open"
    BY <1>1, CurrentFits DEF InCall, Req
<1>3. ns \in Namespaces /\ (ns \in Ids => old.batch \subseteq Under(ns))
    BY <1>2 DEF Fits
<1>4. OwnWrites
    BY <1>1, <1>3, OwnKeysChange DEF Same
<1>5. ns \in Ids => KeysOf(ns) \cap DOMAIN kv' \subseteq old.fresh \cup old.todo
    BY <1>1, <1>2 DEF Fits
<1>6. /\ x \in Call /\ x.req = Req(c) /\ x.answer = old.answer /\ x.fresh = old.fresh
      /\ x.todo = old.todo /\ x.batch = {} /\ x.status = s
    BY <1>2 DEF Call, Statuses
<1>7. Fits(x, DOMAIN kv')
    BY <1>2, <1>5, <1>6 DEF Fits
<1>8. ns \in Ids /\ s = "OK" => KeysOf(ns) \cap DOMAIN kv' \subseteq old.fresh
    BY <1>5
<1> HIDE DEF x
<1>9. MemInv' /\ Emptied
    BY <1>1, <1>6, <1>7, <1>8, CallMoves
<1> QED BY <1>4, <1>9 DEF Isolates

(* One SET: the calls that delete a namespace meanwhile take note of the key. *)
LEMMA PutIsolates ==
    ASSUME MemInv, NEW c \in Clients, Does(c, "Set") \/ Does(c, "MSet"),
           NEW pos \in Nat, NEW s \in Statuses, s # "InvalidArgument", Put(c, pos, s)
    PROVE  Isolates
<1> DEFINE r == Req(c)
           e == r.entries[Current(c).pos + 1]
           k == KVKey(r.ns, e.key)
           x == [Current(c) EXCEPT !.pos = pos, !.status = s]
<1>1. /\ InCall(c) /\ r.op \in {"Set", "MSet"} /\ actor' = r.ns /\ vectors' = vectors
      /\ Current(c).pos < Len(r.entries)
      /\ kv' = [y \in DOMAIN kv \cup {k} |-> IF y = k THEN [owner |-> r.ns, ttl |-> e.ttl] ELSE kv[y]]
      /\ calls' = [d \in Clients |-> IF calls[d] = << >> THEN << >>
                                     ELSE IF d = c THEN <<x>> ELSE <<Fresh(d, k)>>]
    BY DEF Put, Does
<1>2. /\ Current(c) \in Call /\ r \in Request /\ r.ns \in Namespaces /\ r = Current(c).req
      /\ Fits(Current(c), DOMAIN kv) /\ calls[c] # << >>
    BY <1>1, CallFacts, CurrentFits DEF InCall, Req
<1>3. Current(c).pos + 1 \in DOMAIN r.entries
    <2>1. Current(c).pos \in Nat
        BY <1>2 DEF Call
    <2>2. r.entries \in Seq([key : Seq(STRING), ttl : BOOLEAN])
        BY <1>2 DEF Request
    <2>3. Len(r.entries) \in Nat /\ DOMAIN r.entries = 1 .. Len(r.entries)
        BY <2>2, LenProperties
    <2> QED BY <1>1, <2>1, <2>3
<1>4. k \in Under(r.ns) /\ k \in Chars
    BY <1>2, <1>3, KeysUnder DEF Under
<1> HIDE DEF k
<1>5. DOMAIN kv' = DOMAIN kv \cup {k} /\ \A y \in DOMAIN kv : y # k => kv'[y] = kv[y]
    BY <1>1
<1>6. OwnWrites
    BY <1>1, <1>2, <1>4, <1>5, OwnKeysChange DEF Same
<1>7. ValuesOwned'
    <2>1. kv'[k].owner = r.ns
        BY <1>1
    <2> QED BY <1>2, <1>4, <1>5, <2>1 DEF MemInv, ValuesOwned
<1>8. x \in Call /\ Fits(x, DOMAIN kv')
    <2>1. /\ x \in Call /\ x.req = r /\ x.status = s
          /\ x.answer = Current(c).answer /\ x.batch = Current(c).batch
        BY <1>2 DEF Call
    <2> HIDE DEF x
    <2> QED BY <1>1, <1>2, <2>1 DEF Fits
<1>9. ASSUME NEW d \in Clients, calls[d] # << >>
      PROVE  /\ Fresh(d, k) \in Call /\ Fits(Fresh(d, k), DOMAIN kv')
             /\ Fresh(d, k).status = Current(d).status
    <2>1. Current(d) \in Call /\ Fits(Current(d), DOMAIN kv)
        BY <1>9, CurrentFits
    <2> DEFINE f == IF Does(d, "DeleteNamespace") THEN Current(d).fresh \cup {k} ELSE Current(d).fresh
               y == Current(d)
    <2>2. Fresh(d, k) = [y EXCEPT !.fresh = f]
        BY DEF Fresh
    <2>3. f \in SUBSET Chars
        BY <1>4, <2>1 DEF Call
    <2>4. (y.status = "open" /\ y.req.op = "DeleteNamespace" /\ y.req.ns \in Ids) => f = y.fresh \cup {k}
        BY <1>9 DEF Does, InCall, Req
    <2> HIDE DEF f, y
    <2>5. /\ [y EXCEPT !.fresh = f] \in Call /\ [y EXCEPT !.fresh = f].fresh = f
          /\ [y EXCEPT !.fresh = f].req = y.req /\ [y EXCEPT !.fresh = f].status = y.status
          /\ [y EXCEPT !.fresh = f].answer = y.answer /\ [y EXCEPT !.fresh = f].batch = y.batch
          /\ [y EXCEPT !.fresh = f].todo = y.todo
        BY <2>1, <2>3 DEF Call, y
    <2>6. Fits([y EXCEPT !.fresh = f], DOMAIN kv')
        <3>1. (y.status = "open" /\ y.req.op = "DeleteNamespace" /\ y.req.ns \in Ids)
                => KeysOf(y.req.ns) \cap DOMAIN kv' \subseteq f \cup y.todo \cup y.batch
            BY <1>5, <2>1, <2>4 DEF Fits, y
        <3> QED BY <2>1, <2>5, <3>1 DEF Fits, y
    <2> QED BY <2>2, <2>5, <2>6 DEF y
<1>10. ASSUME NEW d \in Clients
       PROVE  \/ calls[d] = << >> /\ calls'[d] = << >>
              \/ d = c /\ calls'[d] = <<x>>
              \/ d # c /\ calls[d] # << >> /\ calls'[d] = <<Fresh(d, k)>>
    BY <1>1, <1>2
<1> HIDE DEF x
<1>11. calls' \in [Clients -> {<< >>} \cup {<<call>> : call \in Call}]
    <2>1. DOMAIN calls' = Clients /\ calls' = [d \in Clients |-> calls'[d]]
        BY <1>1
    <2>2. \A d \in Clients : calls'[d] \in {<< >>} \cup {<<call>> : call \in Call}
        BY <1>8, <1>9, <1>10
    <2> QED BY <2>1, <2>2
<1>12. \A d \in Clients : calls'[d] # << >> => Fits(calls'[d][1], DOMAIN kv')
    BY <1>8, <1>9, <1>10
<1>13. CallsFit'
    BY <1>11, <1>12 DEF CallsFit, Current
<1>14. Emptied
    <2> SUFFICES ASSUME NEW d \in Clients, Does(d, "DeleteNamespace"), calls'[d] # << >>
                 PROVE  calls'[d][1].status # "OK"
        BY DEF Emptied
    <2>1. d # c /\ calls[d] # << >> /\ Current(d).status = "open"
        BY <1>1 DEF Does, InCall
    <2> QED BY <1>9, <1>10, <2>1
<1> QED BY <1>6, <1>7, <1>13, <1>14 DEF Isolates, MemInv

(* Set, MSet and a SET whose confirmation is lost. *)
LEMMA WritesIsolate ==
    ASSUME MemInv, NEW c \in Clients, Set(c) \/ MSet(c) \/ SetUnconfirmed(c) PROVE Isolates
<1>1. Does(c, "Set") \/ Does(c, "MSet")
    BY DEF Set, MSet, SetUnconfirmed
<1>2. Current(c) \in Call /\ Current(c).pos \in Nat
    BY <1>1, CallFacts DEF Does, Call
<1>3. 0 \in Nat /\ Current(c).pos + 1 \in Nat /\ {"OK", "open", "Internal"} \subseteq Statuses \ {"InvalidArgument"}
    BY <1>2 DEF Statuses
<1>4. CASE \E pos \in Nat, s \in {"OK", "open", "Internal"} : Put(c, pos, s)
    BY <1>1, <1>3, <1>4, PutIsolates
<1>5. CASE Does(c, "MSet") /\ Ends(c, "OK") /\ UNCHANGED <<kv, vectors>>
    <2>1. InCall(c) /\ Req(c).op # "DeleteNamespace" /\ {} \in SUBSET Readable(Req(c).ns) /\ "OK" \in Statuses
        BY <1>5 DEF Does, Statuses
    <2>2. MemInv' /\ Emptied
        BY <1>5, <2>1, EndForms
    <2> QED BY <1>5, <2>2, NothingWritten DEF Isolates
<1>6. CASE Set(c) \/ SetUnconfirmed(c)
    BY <1>2, <1>3, <1>4, <1>6 DEF Set, SetUnconfirmed
<1>7. CASE MSet(c)
    BY <1>2, <1>3, <1>4, <1>5, <1>7 DEF MSet
<1> QED BY <1>6, <1>7

(* Every step. *)
LEMMA MemStep == MemInv /\ [MemoryNext]_memVars => Isolates
<1> SUFFICES ASSUME MemInv, [MemoryNext]_memVars PROVE Isolates
    OBVIOUS
<1>1. ASSUME NEW c \in Clients, NEW r \in Requests[c], Invoke(c, r) PROVE Isolates
    BY <1>1, InvokeIsolates
<1>2. ASSUME NEW c \in Clients, CallReturns(c) PROVE Isolates
    BY <1>2, ReturnIsolates
<1>3. ASSUME NEW c \in Clients, StoreFails(c) \/ Get(c) \/ MGet(c) \/ QueryVector(c) PROVE Isolates
    <2>1. {} \in SUBSET (DOMAIN kv \cup Current(c).todo)
        OBVIOUS
    <2> QED BY <1>3, <2>1, ReadsIsolate
<1>4. ASSUME NEW c \in Clients, Set(c) \/ MSet(c) \/ SetUnconfirmed(c) PROVE Isolates
    BY <1>4, WritesIsolate
<1>5. ASSUME NEW c \in Clients, Delete(c) PROVE Isolates
    BY <1>5, DeleteIsolates
<1>6. ASSUME NEW c \in Clients, NEW visited \in SUBSET (DOMAIN kv \cup Current(c).todo),
             ListKeys(c, visited) \/ DeleteNamespace(c, visited)
      PROVE  Isolates
    BY <1>6, ReadsIsolate, ScanIsolates
<1>7. ASSUME NEW c \in Clients, DeleteBatch(c) PROVE Isolates
    BY <1>7, BatchIsolates
<1>8. ASSUME NEW c \in Clients, StoreVector(c) \/ \E id \in 1 .. MaxVectors : DeleteVector(c, id) PROVE Isolates
    BY <1>8, VectorsIsolate
<1>9. ASSUME NEW k \in DOMAIN kv, Expire(k) PROVE Isolates
    BY <1>9, ExpireIsolates
<1>10. CASE UNCHANGED memVars
    <2>1. UNCHANGED <<kv, vectors, calls>>
        BY <1>10 DEF memVars
    <2>2. MemInv'
        BY <2>1 DEF MemInv, CallsFit, ValuesOwned, Current, Fits
    <2>3. Emptied
        BY <2>1 DEF Emptied, Does, InCall, Current
    <2> QED BY <2>1, <2>2, <2>3, NothingWritten DEF Isolates
<1> QED BY <1>1, <1>2, <1>3, <1>4, <1>5, <1>6, <1>7, <1>8, <1>9, <1>10 DEF MemoryNext

(* Namespaces are isolated, for any number of clients whose calls run at the  *)
(* same time, fail half-way or die with the process, and a DeleteNamespace    *)
(* that answers OK has removed all that was there when it began, but for      *)
(* calls with an id that has a separator or a character of the glob syntax    *)
(* (KVKey and KVKeyPrefix, the calls of the handler, the scans and the        *)
(* batched DEL of RedisKV).                                                   *)
THEOREM MemoryIsolated == MemorySpec => NamespacesIsolated
<1>1. MemoryInit => MemInv
    BY DEF MemoryInit, MemInv, CallsFit, ValuesOwned
<1>2. MemInv /\ [MemoryNext]_memVars => MemInv' /\ OwnWrites /\ Emptied
    BY MemStep DEF Isolates
<1> QED BY <1>1, <1>2, MemParts, PTL DEF MemorySpec, NamespacesIsolated

=============================================================================
