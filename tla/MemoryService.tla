---------------------------- MODULE MemoryService ----------------------------
(***************************************************************************)
(* The memory-service: its key-value calls over one Redis key space, where *)
(* a namespace is a prefix of the key, and its vector calls over Postgres. *)
(***************************************************************************)
EXTENDS Naturals, Sequences, FiniteSets, SequencesExt

CONSTANTS Clients,     \* callers, one call at a time each
          Namespaces,  \* workflow ids, as sequences of characters
          Keys,        \* keys, as sequences of characters
          Requests,    \* the requests of each client, see Request
          Wirings,     \* the stores the handler is built with: sets of "kv", "vec"
          MaxVectors,  \* bound on the vectors stored
          MaxMemFaults    \* bound on errors of the stores

VARIABLES wired,    \* the stores this process has
          kv,    \* Redis: the owner and expiry of each value, by Redis key
          vectors,  \* Postgres: rows of memory_vectors, [id, ns, embedding]
          calls,    \* the call of each client, none or one
          nextId, memFaults,
          actor     \* the namespace whose call wrote last; <<>> for an expiry

memVars == <<wired, kv, vectors, calls, nextId, memFaults, actor>>
rest == <<wired, nextId, memFaults>>

\* entries: the keys of the request with whether they carry a TTL; all: an empty
\* prefix in ListKeys; k: top_k; embedding: a point on a line.
Request == [op : STRING, ns : Seq(STRING), entries : Seq([key : Seq(STRING), ttl : BOOLEAN]),
            all : BOOLEAN, k : Nat, embedding : Nat]

\* An id is any string that is not empty.
ASSUME MemoryAssumption ==
    /\ \A ns \in Namespaces : ns \in Seq(STRING) /\ ns # <<>>
    /\ \A key \in Keys : key \in Seq(STRING)
    /\ \A c \in Clients : \A r \in Requests[c] : r \in Request /\ r.ns \in Namespaces \cup {<<>>}

KVKey(ns, key) == ns \o <<":">> \o key

\* Mutant: the separator is forgotten.
PrefixWithoutSeparator(ns) == ns

KVKeyPrefix(ns) == ns \o <<":">>

\* Both arguments of ValidateAccess are the request's workflow id.
ValidateAccess(ns) == ns # <<>>

MemoryInit ==
    /\ wired \in Wirings
    /\ kv = <<>> /\ vectors = {}
    /\ calls = [c \in Clients |-> <<>>]
    /\ nextId = 1 /\ memFaults = 0 /\ actor = <<>>

-----------------------------------------------------------------------------
(* Calls.                                                                  *)

VectorOps == {"StoreVector", "QueryVector", "DeleteVector"}
ScanOps == {"ListKeys", "DeleteNamespace"}
StoreOf(r) == IF r.op \in VectorOps THEN "vec" ELSE "kv"

\* pos: entries done; todo: Redis keys the SCAN has still to visit; batch: keys to
\* DEL; answer: owners of what was read; fresh: Redis keys written since the call.
NewCall(r) == [req |-> r, status |-> "open", pos |-> 0, batch |-> {}, answer |-> {}, fresh |-> {},
               todo |-> IF r.op \in ScanOps THEN DOMAIN kv ELSE {}]

\* An empty namespace is refused; a store that was not wired is a nil interface,
\* and the panic takes the process and every call with it.
Invoke(c, r) ==
    /\ calls[c] = <<>>
    /\ calls' = IF ~ValidateAccess(r.ns) THEN [calls EXCEPT ![c] = <<[NewCall(r) EXCEPT !.status = "InvalidArgument"]>>]
                ELSE IF StoreOf(r) \notin wired THEN [d \in Clients |-> <<>>]
                ELSE [calls EXCEPT ![c] = <<NewCall(r)>>]
    /\ UNCHANGED <<kv, vectors, rest, actor>>

\* The answer, or the end of the caller's context before the next store call.
CallReturns(c) ==
    /\ calls[c] # <<>>
    /\ calls' = [calls EXCEPT ![c] = <<>>]
    /\ UNCHANGED <<kv, vectors, rest, actor>>

Current(c) == calls[c][1]
Req(c) == Current(c).req
InCall(c) == calls[c] # <<>> /\ Current(c).status = "open"
Does(c, op) == InCall(c) /\ Req(c).op = op

Becomes(c, call) == calls' = [calls EXCEPT ![c] = <<call>>]
Ends(c, status) == Becomes(c, [Current(c) EXCEPT !.status = status])

MemFault == memFaults < MaxMemFaults /\ memFaults' = memFaults + 1 /\ UNCHANGED <<wired, nextId>>

\* Any store call may fail without an effect: Internal.
StoreFails(c) ==
    /\ InCall(c)
    /\ MemFault /\ Ends(c, "Internal")
    /\ UNCHANGED <<kv, vectors, actor>>

-----------------------------------------------------------------------------
(* Key-value calls: each Redis command is atomic.                          *)

Fresh(d, k) == [Current(d) EXCEPT !.fresh = IF Does(d, "DeleteNamespace") THEN @ \cup {k} ELSE @]

\* One SET of the call's next entry; a DeleteNamespace under way notes the key.
Put(c, pos, status) ==
    LET r == Req(c)
        e == r.entries[Current(c).pos + 1]
        k == KVKey(r.ns, e.key)
    IN  /\ Current(c).pos < Len(r.entries)
        /\ kv' = [x \in DOMAIN kv \cup {k} |-> IF x = k THEN [owner |-> r.ns, ttl |-> e.ttl] ELSE kv[x]]
        /\ calls' = [d \in Clients |-> IF calls[d] = <<>> THEN <<>>
                                       ELSE IF d = c THEN <<[Current(c) EXCEPT !.pos = pos, !.status = status]>>
                                       ELSE <<Fresh(d, k)>>]
        /\ actor' = r.ns
        /\ UNCHANGED vectors

Set(c) ==
    /\ Does(c, "Set")
    /\ Put(c, 0, "OK")
    /\ UNCHANGED rest

\* One Set for each entry, in order: a failure keeps the entries before it.
MSet(c) ==
    /\ Does(c, "MSet")
    /\ \/ LET pos == Current(c).pos + 1
          IN  Put(c, pos, IF pos = Len(Req(c).entries) THEN "OK" ELSE "open")
       \/ Req(c).entries = <<>> /\ Ends(c, "OK") /\ UNCHANGED <<kv, vectors, actor>>
    /\ UNCHANGED rest

\* The value is written and the answer of Redis is lost.
SetUnconfirmed(c) ==
    /\ Does(c, "Set") \/ Does(c, "MSet")
    /\ Put(c, Current(c).pos, "Internal")
    /\ MemFault

Owners(ks) == {kv[k].owner : k \in ks \cap DOMAIN kv}
Asked(c) == {KVKey(Req(c).ns, Req(c).entries[i].key) : i \in DOMAIN Req(c).entries}

Get(c) ==
    /\ Does(c, "Get")
    /\ LET found == Asked(c) \subseteq DOMAIN kv
       IN  Becomes(c, [Current(c) EXCEPT !.status = IF found THEN "OK" ELSE "NotFound",
                                         !.answer = Owners(Asked(c))])
    /\ UNCHANGED <<kv, vectors, rest, actor>>

\* Missing keys are left out of the answer.
MGet(c) ==
    /\ Does(c, "MGet")
    /\ Becomes(c, [Current(c) EXCEPT !.status = "OK", !.answer = Owners(Asked(c))])
    /\ UNCHANGED <<kv, vectors, rest, actor>>

Del(ks) == kv' = [k \in DOMAIN kv \ ks |-> kv[k]]

\* No error when the key is not there.
Delete(c) ==
    /\ Does(c, "Delete")
    /\ Del(Asked(c)) /\ Ends(c, "OK") /\ actor' = Req(c).ns
    /\ UNCHANGED <<vectors, rest>>

\* A glob of Redis: "*" stands for any characters, "?" for one. Classes and escapes are
\* not spelt out: a part that has one may match anything.
Wild == {"*", "?", "[", "]", "\\"}
Characters(s) == {s[i] : i \in DOMAIN s}
GlobMatches(glob, s) ==
    LET fits[n \in 0 .. Len(glob)] ==
            IF n = 0 THEN {0}
            ELSE IF glob[n] = "*" THEN {j \in 0 .. Len(s) : \E i \in fits[n - 1] : i <= j}
            ELSE {j \in 1 .. Len(s) : j - 1 \in fits[n - 1] /\ glob[n] \in {"?", s[j]}}
    IN  IF Characters(glob) \cap Wild = {} THEN s = glob
        ELSE Len(s) \in fits[Len(glob)] \/ ~(Characters(glob) \cap Wild \subseteq {"*", "?"})

\* The pattern of a SCAN: the prefix of the namespace, which is not escaped, and "*" or
\* what a ListKeys asks for, which is no prefix but the rest of the pattern.
PatternMatches(r, k) ==
    \E cut \in 0 .. Len(k) :
        /\ GlobMatches(KVKeyPrefix(r.ns), SubSeq(k, 1, cut))
        /\ (r.op = "ListKeys" /\ ~r.all) =>
              \E i \in DOMAIN r.entries : GlobMatches(r.entries[i].key, SubSeq(k, cut + 1, Len(k)))

\* One SCAN: some of the keys there from the beginning, and any of those added
\* since, or seen before. A key that stays throughout is seen.
Scan(c, visited) ==
    /\ InCall(c) /\ Current(c).batch = {}
    /\ Current(c).todo # {} => visited \cap Current(c).todo # {}

Found(c, visited) == {k \in visited \cap DOMAIN kv : PatternMatches(Req(c), k)}

ListKeys(c, visited) ==
    /\ Does(c, "ListKeys") /\ Scan(c, visited)
    /\ LET left == Current(c).todo \ visited
       IN  Becomes(c, [Current(c) EXCEPT !.todo = left, !.status = IF left = {} THEN "OK" ELSE "open",
                                         !.answer = @ \cup Owners(Found(c, visited))])
    /\ UNCHANGED <<kv, vectors, rest, actor>>

DeleteNamespace(c, visited) ==
    /\ Does(c, "DeleteNamespace") /\ Scan(c, visited)
    /\ LET left == Current(c).todo \ visited
           found == Found(c, visited)
       IN  Becomes(c, [Current(c) EXCEPT !.todo = left, !.batch = found,
                                         !.status = IF left = {} /\ found = {} THEN "OK" ELSE "open"])
    /\ UNCHANGED <<kv, vectors, rest, actor>>

\* The DEL of what the last SCAN returned, values written in between included.
DeleteBatch(c) ==
    /\ Does(c, "DeleteNamespace") /\ Current(c).batch # {}
    /\ Del(Current(c).batch) /\ actor' = Req(c).ns
    /\ Becomes(c, [Current(c) EXCEPT !.batch = {}, !.status = IF Current(c).todo = {} THEN "OK" ELSE "open"])
    /\ UNCHANGED <<vectors, rest>>

Expire(k) ==
    /\ k \in DOMAIN kv /\ kv[k].ttl
    /\ Del({k}) /\ actor' = <<>>
    /\ UNCHANGED <<vectors, calls, rest>>

-----------------------------------------------------------------------------
(* Vectors: one statement each.                                            *)

StoreVector(c) ==
    /\ Does(c, "StoreVector") /\ nextId <= MaxVectors
    /\ vectors' = vectors \cup {[id |-> nextId, ns |-> Req(c).ns, embedding |-> Req(c).embedding]}
    /\ nextId' = nextId + 1 /\ actor' = Req(c).ns
    /\ Ends(c, "OK")
    /\ UNCHANGED <<kv, wired, memFaults>>

Distance(v, e) == IF v.embedding > e THEN v.embedding - e ELSE e - v.embedding

\* The k nearest rows of the namespace; which of two equally near is not fixed.
Nearest(r) ==
    LET own == {v \in vectors : v.ns = r.ns}
    IN  {vs \in SUBSET own :
            /\ Cardinality(vs) = IF Cardinality(own) < r.k THEN Cardinality(own) ELSE r.k
            /\ \A v \in vs, w \in own \ vs : Distance(v, r.embedding) <= Distance(w, r.embedding)}

\* A k below one is an error of the store.
QueryVector(c) ==
    /\ Does(c, "QueryVector")
    /\ \E vs \in Nearest(Req(c)) :
          Becomes(c, [Current(c) EXCEPT !.status = IF Req(c).k = 0 THEN "Internal" ELSE "OK",
                                        !.answer = {v.ns : v \in vs}])
    /\ UNCHANGED <<kv, vectors, rest, actor>>

\* The id may be of another namespace.
DeleteVector(c, id) ==
    /\ Does(c, "DeleteVector")
    /\ vectors' = {v \in vectors : ~(v.ns = Req(c).ns /\ v.id = id)}
    /\ Ends(c, "OK") /\ actor' = Req(c).ns
    /\ UNCHANGED <<kv, rest>>

-----------------------------------------------------------------------------
MemoryNext ==
    \/ \E c \in Clients :
          \/ \E r \in Requests[c] : Invoke(c, r)
          \/ CallReturns(c) \/ StoreFails(c) \/ Set(c) \/ MSet(c) \/ SetUnconfirmed(c)
          \/ Get(c) \/ MGet(c) \/ Delete(c)
          \/ calls[c] # <<>> /\ \E visited \in SUBSET (DOMAIN kv \cup Current(c).todo) :
                ListKeys(c, visited) \/ DeleteNamespace(c, visited)
          \/ DeleteBatch(c)
          \/ StoreVector(c) \/ QueryVector(c) \/ \E id \in 1..MaxVectors : DeleteVector(c, id)
    \/ \E k \in DOMAIN kv : Expire(k)

MemorySpec == MemoryInit /\ [][MemoryNext]_memVars

-----------------------------------------------------------------------------
KeysOf(ns) == {KVKey(ns, key) : key \in Keys}
RowsOf(vs, ns) == {v \in vs : v.ns = ns}

\* Ids without the separator and the characters of a glob: "wf-" and hex digits, and the
\* time of a rerun. requireNamespace lets any other through.
Ids == {ns \in Namespaces : Characters(ns) \cap (Wild \cup {":"}) = {}}

\* Whose calls may come across the data of a namespace: its own, and those of such an id.
Exposed(ns) == {ns} \cup (Namespaces \ Ids)

\* Every value lies under the namespace that wrote it.
OwnValues == \A ns \in Ids : \A k \in KeysOf(ns) \cap DOMAIN kv : kv[k].owner \in Exposed(ns)

\* No answer holds another's.
OwnAnswers ==
    \A c \in Clients : (calls[c] # <<>> /\ Req(c).ns \in Ids) => Current(c).answer \subseteq Exposed(Req(c).ns)

\* What a namespace holds changes by its own calls and by expiry.
OwnWrites ==
    \A ns \in Ids :
        /\ \A k \in KeysOf(ns) :
              LET had == k \in DOMAIN kv
                  has == k \in DOMAIN kv'
              IN  (had # has \/ (had /\ has /\ kv'[k] # kv[k]))
                    => actor' \in Exposed(ns) \/ (actor' = <<>> /\ had /\ kv[k].ttl)
        /\ RowsOf(vectors', ns) # RowsOf(vectors, ns) => actor' = ns

\* A DeleteNamespace that succeeds leaves only what was written while it ran.
Emptied ==
    \A c \in Clients :
        (Does(c, "DeleteNamespace") /\ Req(c).ns \in Ids /\ calls'[c] # <<>> /\ calls'[c][1].status = "OK")
            => KeysOf(Req(c).ns) \cap DOMAIN kv' \subseteq Current(c).fresh

\* Namespaces are isolated: no call of one workflow reads, changes or removes the
\* data of another, whatever calls run at the same time, fail half-way or die with
\* the process; and a DeleteNamespace that answers OK has removed everything that was
\* there when it began. This is so of ids as the gateway makes them. The service checks
\* no more than that an id is not empty: one with a ":", or with a character of the glob
\* syntax, which reaches SCAN unescaped (redis_kv.go:70, 139), may come across the
\* key-values of others, though not their vectors.
NamespacesIsolated == [](OwnValues /\ OwnAnswers) /\ [][OwnWrites /\ Emptied]_memVars

=============================================================================
