------------------------------- MODULE GatesProofs -------------------------------
(***************************************************************************)
(* Proofs about what stands before a call of a capability: the quota gate  *)
(* of the engine-adapter, for any number of callers and any quotas; the    *)
(* credential of the git-adapter, for any number of concurrent requests    *)
(* and any moments at which tokens expire and minting fails; and the start *)
(* and the stop of the process that serves it, for every main and every    *)
(* configuration.                                                          *)
(***************************************************************************)
EXTENDS QuotaChecker, GitCredential, ServiceLifecycle, FiniteSetTheorems, SequenceTheorems, TLAPS

---------------------------------------------------------------------------
(* The quota gate *)

QuotaTypeOK ==
    /\ caller \in [Callers -> {"idle", "admitted", "running", "refused"}]
    /\ metered \in [Callers -> BOOLEAN]

(* CeilingHolds of one namespace: the metered invocations in flight. *)
Counted(ns) ==
    {c \in Callers : NamespaceOf[c] = ns /\ caller[c] \in {"admitted", "running"} /\ metered[c]}

(* The quota at position i is the one in force for its namespace. *)
InForce(i) ==
    /\ HasCounter /\ Quotas[i].namespace # "" /\ Quotas[i].maxConcurrent > 0
    /\ \A j \in i+1..Len(Quotas) : Quotas[j].namespace # Quotas[i].namespace

QuotaInv ==
    /\ QuotaTypeOK
    /\ \A i \in DOMAIN Quotas :
         InForce(i) => Cardinality(Counted(Quotas[i].namespace)) <= Quotas[i].maxConcurrent

(* That is CeilingHolds. *)
LEMMA QuotaParts == QuotaInv => CeilingHolds
BY DEF QuotaInv, CeilingHolds, InForce, Counted

(* Sets of callers are finite. *)
LEMMA CallersFinite ==
    ASSUME NEW S \in SUBSET Callers PROVE IsFiniteSet(S) /\ Cardinality(S) \in Nat
BY QuotaAssumption, FS_Subset, FS_CardinalityType

(* A namespace whose metered invocations do not grow stays under its ceiling. *)
LEMMA CeilingKept ==
    ASSUME NEW S \in SUBSET Callers, NEW T \in SUBSET S, NEW m \in Int, Cardinality(S) <= m
    PROVE  Cardinality(T) <= m
<1>1. IsFiniteSet(S) /\ Cardinality(S) \in Nat /\ Cardinality(T) \in Nat
    BY CallersFinite
<1>2. Cardinality(T) <= Cardinality(S)
    BY <1>1, FS_Subset
<1> QED BY <1>1, <1>2

(* Check admits one more only below the ceiling. *)
LEMMA CheckCounts ==
    ASSUME QuotaInv, NEW c \in Callers, Check(c), NEW i \in DOMAIN Quotas, InForce(i)
    PROVE  Cardinality(Counted(Quotas[i].namespace)') <= Quotas[i].maxConcurrent
<1> DEFINE q == Quotas[i]
           ns == q.namespace
           S == Counted(ns)
           T == Counted(ns)'
           running == CallersIn(ns, "running")
<1>1. q.maxConcurrent \in Int /\ q \in quotaConfigs(ns) /\ Cardinality(S) <= q.maxConcurrent
    BY QuotaAssumption DEF InForce, quotaConfigs, QuotaInv
<1>2. S \in SUBSET Callers /\ T \in SUBSET Callers /\ running \in SUBSET Callers
    BY DEF Counted, CallersIn
<1>3. T \subseteq S \cup {c}
    BY DEF Check, Counted, QuotaInv, QuotaTypeOK
<1>4. CASE c \notin T
    BY <1>1, <1>2, <1>3, <1>4, CeilingKept
<1>5. CASE c \in T
    <2>1. NamespaceOf[c] = ns /\ CallersIn(ns, "admitted") = {} /\ caller'[c] # "refused"
        <3>1. NamespaceOf[c] = ns /\ caller'[c] # "refused" /\ metered'[c]
            BY <1>5 DEF Counted
        <3>2. metered'[c] = (CallersIn(NamespaceOf[c], "admitted") = {})
            BY DEF Check, QuotaInv, QuotaTypeOK
        <3> QED BY <3>1, <3>2
    <2>2. ~Unbounded(ns)
        <3>1. q.maxConcurrent # 0
            <4>1. q.maxConcurrent > 0
                BY DEF InForce
            <4> HIDE DEF q
            <4> QED BY <1>1, <4>1
        <3>2. HasCounter
            BY DEF InForce
        <3> QED BY <1>1, <3>1, <3>2 DEF Unbounded
    <2>3. ~Exceeded(ActiveCount(ns), q)
        BY <1>1, <2>1, <2>2 DEF Check, QuotaInv, QuotaTypeOK
    <2>4. S \subseteq running
        BY <2>1 DEF Counted, CallersIn
    <2>5. IsFiniteSet(running) /\ Cardinality(running) \in Nat
        BY <1>2, CallersFinite
    <2>6. Cardinality(running) < q.maxConcurrent
        BY <1>1, <2>3, <2>5 DEF Exceeded, ActiveCount
    <2>7. Cardinality(running \cup {c}) <= Cardinality(running) + 1
        <3> HIDE DEF running
        <3>1. Cardinality(running \cup {c}) = IF c \in running THEN Cardinality(running)
                                                              ELSE Cardinality(running) + 1
            BY <2>5, FS_AddElement
        <3> QED BY <2>5, <3>1
    <2>8. IsFiniteSet(running \cup {c}) /\ Cardinality(running \cup {c}) \in Nat
        BY <1>2, CallersFinite
    <2>9. T \subseteq running \cup {c}
        BY <1>3, <2>4
    <2>10. Cardinality(T) <= Cardinality(running \cup {c}) /\ Cardinality(T) \in Nat
        BY <1>2, <2>8, <2>9, FS_Subset, CallersFinite
    <2> QED BY <1>1, <2>5, <2>6, <2>7, <2>8, <2>10
<1> QED BY <1>4, <1>5

(* Every step keeps the ceilings. *)
LEMMA QuotaStep == QuotaInv /\ [QuotaNext]_quotaVars => QuotaInv'
<1> SUFFICES ASSUME QuotaInv, [QuotaNext]_quotaVars PROVE QuotaInv'
    OBVIOUS
<1>1. ASSUME NEW i \in DOMAIN Quotas, InForce(i), Counted(Quotas[i].namespace)' \subseteq Counted(Quotas[i].namespace)
      PROVE  Cardinality(Counted(Quotas[i].namespace)') <= Quotas[i].maxConcurrent
    <2>1. Counted(Quotas[i].namespace) \in SUBSET Callers
        BY DEF Counted
    <2>2. Quotas[i].maxConcurrent \in Int
        BY QuotaAssumption
    <2>3. Cardinality(Counted(Quotas[i].namespace)) <= Quotas[i].maxConcurrent
        BY <1>1 DEF QuotaInv
    <2> QED BY <1>1, <2>1, <2>2, <2>3, CeilingKept
<1>2. ASSUME NEW c \in Callers, Check(c) PROVE QuotaInv'
    <2>1. QuotaTypeOK'
        BY <1>2 DEF Check, QuotaInv, QuotaTypeOK
    <2>2. \A i \in DOMAIN Quotas :
             InForce(i) => Cardinality(Counted(Quotas[i].namespace)') <= Quotas[i].maxConcurrent
        BY <1>2, CheckCounts
    <2> QED BY <2>1, <2>2 DEF QuotaInv, InForce
<1>3. ASSUME NEW c \in Callers, CounterFails(c) PROVE QuotaInv'
    <2>1. QuotaTypeOK'
        BY <1>3 DEF CounterFails, QuotaInv, QuotaTypeOK
    <2>2. \A ns : Counted(ns)' \subseteq Counted(ns)
        BY <1>3 DEF CounterFails, Counted, QuotaInv, QuotaTypeOK
    <2> QED BY <1>1, <2>1, <2>2 DEF QuotaInv, InForce
<1>4. ASSUME NEW c \in Callers, Submitted(c) PROVE QuotaInv'
    <2>1. QuotaTypeOK'
        BY <1>4 DEF Submitted, QuotaInv, QuotaTypeOK
    <2>2. \A ns : Counted(ns)' \subseteq Counted(ns)
        BY <1>4 DEF Submitted, Counted, QuotaInv, QuotaTypeOK
    <2> QED BY <1>1, <2>1, <2>2 DEF QuotaInv, InForce
<1>5. ASSUME NEW c \in Callers, InvocationEnds(c) PROVE QuotaInv'
    <2>1. QuotaTypeOK'
        BY <1>5 DEF InvocationEnds, QuotaInv, QuotaTypeOK
    <2>2. \A ns : Counted(ns)' \subseteq Counted(ns)
        BY <1>5 DEF InvocationEnds, Counted, QuotaInv, QuotaTypeOK
    <2> QED BY <1>1, <2>1, <2>2 DEF QuotaInv, InForce
<1>6. CASE UNCHANGED quotaVars
    BY <1>6 DEF quotaVars, QuotaInv, QuotaTypeOK, Counted, InForce
<1> QED BY <1>2, <1>3, <1>4, <1>5, <1>6 DEF QuotaNext

(* A namespace goes over its ceiling only with invocations admitted while    *)
(* another one was between its check and its submission, or while the        *)
(* counter was out, for any callers and any list of quotas (Check of the     *)
(* QuotaChecker).                                                            *)
THEOREM QuotaCeiling == QuotaSpec => []CeilingHolds
<1>1. NewQuotaChecker => QuotaInv
    <2> SUFFICES ASSUME NewQuotaChecker PROVE QuotaInv
        OBVIOUS
    <2>1. QuotaTypeOK
        BY DEF NewQuotaChecker, QuotaTypeOK
    <2>2. \A ns : Counted(ns) = {}
        BY DEF NewQuotaChecker, Counted
    <2>3. Cardinality({}) = 0
        BY FS_EmptySet
    <2>4. ASSUME NEW i \in DOMAIN Quotas, InForce(i) PROVE 0 <= Quotas[i].maxConcurrent
        <3>1. Quotas[i].maxConcurrent > 0 /\ Quotas[i].maxConcurrent \in Int
            BY <2>4, QuotaAssumption DEF InForce
        <3> QED BY <3>1
    <2> QED BY <2>1, <2>2, <2>3, <2>4 DEF QuotaInv
<1> QED BY <1>1, QuotaStep, QuotaParts, PTL DEF QuotaSpec

---------------------------------------------------------------------------
(* The credential of the git-adapter *)

Sends == [expires : Nat, at : Nat, fallback : BOOLEAN]

CredentialTypeOK ==
    /\ now \in Nat /\ now <= MaxTime /\ held \in Nat
    /\ sending \in [Outbound -> {"idle", "wait", "mint", "sent", "failed"}]
    /\ sent \in [Outbound -> Sends]

(* Requests are made only by an adapter that serves, which has passed the gate. *)
GatePassed ==
    /\ \A r \in Outbound : sending[r] # "idle" => Serving
    /\ Serving => validateTokenScope

(* What is fixed when a token is handed out. *)
Good(s) == s.at < s.expires /\ (s.fallback \/ s.at + RefreshSkew <= s.expires)
TokensGood == \A r \in Outbound : sending[r] = "sent" => Good(sent[r])

CredentialInv == CredentialTypeOK /\ GatePassed /\ TokensGood

(* These are TokenOutlivesRequest. *)
LEMMA CredentialParts == CredentialInv => TokenOutlivesRequest
BY DEF CredentialInv, GatePassed, TokensGood, Good, TokenOutlivesRequest, validateTokenScope

(* A request that is sent with a good token keeps the invariant. *)
LEMMA SendKeeps ==
    ASSUME CredentialInv, NEW r \in Outbound, NEW e \in Nat, NEW f \in BOOLEAN, Send(r, e, f), Serving,
           now < e, f \/ now + RefreshSkew <= e, UNCHANGED <<env, stage, now>>, held' \in Nat
    PROVE  CredentialInv'
<1> DEFINE s == [expires |-> e, at |-> now, fallback |-> f]
<1>1. s \in Sends /\ s.at = now /\ s.expires = e /\ s.fallback = f
    BY DEF CredentialInv, CredentialTypeOK, Sends
<1>2. Good(s)
    BY <1>1 DEF Good
<1>3. /\ sending' = [sending EXCEPT ![r] = "sent"] /\ sent' = [sent EXCEPT ![r] = s]
    BY DEF Send
<1> HIDE DEF s
<1>4. CredentialTypeOK'
    BY <1>1, <1>3 DEF CredentialInv, CredentialTypeOK
<1>5. GatePassed'
    BY DEF CredentialInv, GatePassed, Serving, validateTokenScope, Probed, Inspect, ParseMode
<1>6. TokensGood'
    <2> SUFFICES ASSUME NEW x \in Outbound, sending'[x] = "sent" PROVE Good(sent'[x])
        BY DEF TokensGood, Good
    <2>1. CASE x = r
        BY <1>2, <1>3, <2>1 DEF CredentialInv, CredentialTypeOK
    <2>2. CASE x # r
        BY <1>3, <2>2 DEF CredentialInv, CredentialTypeOK, TokensGood
    <2> QED BY <2>1, <2>2
<1> QED BY <1>4, <1>5, <1>6 DEF CredentialInv

(* A step that sends nothing keeps it. *)
LEMMA QuietKeeps ==
    ASSUME CredentialInv, UNCHANGED env, held' \in Nat, now' \in Nat, now' <= MaxTime,
           sending' \in [Outbound -> {"idle", "wait", "mint", "sent", "failed"}],
           sent' \in [Outbound -> Sends],
           \A r \in Outbound : sending'[r] = "sent" => sending[r] = "sent" /\ sent'[r] = sent[r],
           \A r \in Outbound : sending'[r] # "idle" => Serving',
           Serving' => Serving \/ validateTokenScope
    PROVE  CredentialInv'
<1>1. CredentialTypeOK'
    BY DEF CredentialTypeOK
<1>2. GatePassed'
    <2>1. validateTokenScope' <=> validateTokenScope
        BY DEF validateTokenScope, Probed, Inspect, ParseMode
    <2> QED BY <2>1 DEF CredentialInv, GatePassed
<1>3. TokensGood'
    BY DEF CredentialInv, TokensGood, Good
<1> QED BY <1>1, <1>2, <1>3 DEF CredentialInv

(* Every step keeps the invariant. *)
LEMMA CredentialStep == CredentialInv /\ [CredentialNext]_credVars => CredentialInv'
<1> SUFFICES ASSUME CredentialInv, [CredentialNext]_credVars PROVE CredentialInv'
    OBVIOUS
<1>t. CredentialTypeOK
    BY DEF CredentialInv
<1>g. \A r \in Outbound : sending[r] # "idle" => Serving
    BY DEF CredentialInv, GatePassed
<1>a. RefreshSkew \in Nat /\ RefreshSkew > 0 /\ Lifetime \in Nat /\ Lifetime >= RefreshSkew /\ MaxTime \in Nat
    BY GitCredentialAssumption
<1>1. CASE Load
    <2>1. UNCHANGED <<env, now, held, sending, sent>> /\ ~Serving /\ ~Serving'
        BY <1>1 DEF Load, Serving
    <2> QED BY <1>t, <1>g, <2>1, QuietKeeps DEF CredentialTypeOK
<1>2. CASE Resolve
    <2>1. UNCHANGED <<env, now, held, sending, sent>> /\ ~Serving
        BY <1>2 DEF Resolve, Serving
    <2>2. ~Serving'
        BY <1>2 DEF Resolve, Serving
    <2> QED BY <1>t, <1>g, <2>1, <2>2, QuietKeeps DEF CredentialTypeOK
<1>3. CASE Tick
    <2>1. UNCHANGED <<env, stage, held, sending, sent>> /\ now' = now + 1 /\ now < MaxTime /\ Serving
        BY <1>3 DEF Tick
    <2>2. now' \in Nat /\ now' <= MaxTime
        BY <1>t, <1>a, <2>1 DEF CredentialTypeOK
    <2>3. Serving'
        BY <2>1 DEF Serving
    <2> QED BY <1>t, <2>1, <2>2, <2>3, QuietKeeps DEF CredentialTypeOK
<1>4. ASSUME NEW b \in BOOLEAN, runScopeGate(b) PROVE CredentialInv'
    <2>1. UNCHANGED <<env, now, sending, sent>> /\ ~Serving
        BY <1>4 DEF runScopeGate, Serving
    <2>2. held' \in Nat
        BY <1>4, <1>t, <1>a DEF runScopeGate, CredentialTypeOK
    <2>3. Serving' => validateTokenScope
        BY <1>4 DEF runScopeGate, Serving
    <2> QED BY <1>t, <1>g, <2>1, <2>2, <2>3, QuietKeeps DEF CredentialTypeOK
<1>5. ASSUME NEW r \in Outbound, RoundTrip(r) PROVE CredentialInv'
    <2>1. Serving /\ UNCHANGED <<env, stage, now, held>>
        BY <1>5 DEF RoundTrip
    <2>2. Serving'
        BY <2>1 DEF Serving
    <2>3. CASE env.app
        <3>1. sending' = [sending EXCEPT ![r] = "wait"] /\ sent' = sent
            BY <1>5, <2>3 DEF RoundTrip
        <3> QED BY <1>t, <2>1, <2>2, <3>1, QuietKeeps DEF CredentialTypeOK
    <2>4. CASE ~env.app
        <3>1. Send(r, Static, FALSE)
            BY <1>5, <2>4 DEF RoundTrip
        <3>2. Static \in Nat /\ now < Static /\ now + RefreshSkew <= Static /\ held' \in Nat
            BY <1>t, <1>a, <2>1 DEF Static, CredentialTypeOK
        <3> QED BY <2>1, <3>1, <3>2, SendKeeps
    <2> QED BY <2>3, <2>4
<1>6. ASSUME NEW r \in Outbound, Token(r) PROVE CredentialInv'
    <2>1. Serving /\ UNCHANGED <<env, stage, now, held>>
        BY <1>6, <1>g DEF Token
    <2>2. Serving'
        BY <2>1 DEF Serving
    <2>3. CASE valid /\ Send(r, held, FALSE)
        <3>1. held \in Nat /\ held' \in Nat /\ now < held /\ now + RefreshSkew <= held
            BY <1>t, <1>a, <2>1, <2>3 DEF valid, CredentialTypeOK
        <3> QED BY <2>1, <2>3, <3>1, SendKeeps
    <2>4. CASE sending' = [sending EXCEPT ![r] = "mint"] /\ UNCHANGED sent
        BY <1>t, <2>1, <2>2, <2>4, QuietKeeps DEF CredentialTypeOK
    <2> QED BY <1>6, <2>3, <2>4 DEF Token
<1>7. ASSUME NEW r \in Outbound, MintFails(r) PROVE CredentialInv'
    <2>1. Serving /\ UNCHANGED <<env, stage, now, held>>
        BY <1>7, <1>g DEF MintFails
    <2>2. Serving'
        BY <2>1 DEF Serving
    <2>3. CASE held # 0 /\ now < held
        <3>1. Send(r, held, TRUE)
            BY <1>7, <2>3 DEF MintFails
        <3>2. held \in Nat /\ held' \in Nat
            BY <1>t, <2>1 DEF CredentialTypeOK
        <3> QED BY <2>1, <2>3, <3>1, <3>2, SendKeeps
    <2>4. CASE ~(held # 0 /\ now < held)
        <3>1. sending' = [sending EXCEPT ![r] = "failed"] /\ sent' = sent
            BY <1>7, <2>4 DEF MintFails
        <3> QED BY <1>t, <2>1, <2>2, <3>1, QuietKeeps DEF CredentialTypeOK
    <2> QED BY <2>3, <2>4
<1>8. ASSUME NEW r \in Outbound, Answered(r) PROVE CredentialInv'
    <2>1. Serving /\ UNCHANGED <<env, stage, now, held>>
        BY <1>8, <1>g DEF Answered
    <2>2. Serving'
        BY <2>1 DEF Serving
    <2>3. sending' = [sending EXCEPT ![r] = "idle"] /\ sent' = [sent EXCEPT ![r] = NoToken]
        BY <1>8 DEF Answered
    <2>4. NoToken \in Sends
        BY DEF NoToken, Sends
    <2>5. sending' \in [Outbound -> {"idle", "wait", "mint", "sent", "failed"}] /\ sent' \in [Outbound -> Sends]
        BY <1>t, <2>3, <2>4 DEF CredentialTypeOK
    <2>6. \A x \in Outbound : sending'[x] = "sent" => sending[x] = "sent" /\ sent'[x] = sent[x]
        BY <1>t, <2>3 DEF CredentialTypeOK
    <2> QED BY <1>t, <2>1, <2>2, <2>5, <2>6, QuietKeeps DEF CredentialTypeOK
<1>9. ASSUME NEW r \in Outbound, NEW b \in BOOLEAN, Mint(r, b) PROVE CredentialInv'
    <2>1. Serving /\ UNCHANGED <<env, stage, now>> /\ Send(r, held', FALSE)
        BY <1>9, <1>g DEF Mint
    <2>2. held' \in Nat /\ now < held' /\ now + RefreshSkew <= held'
        BY <1>9, <1>t, <1>a DEF Mint, CredentialTypeOK
    <2> QED BY <2>1, <2>2, SendKeeps
<1>10. CASE UNCHANGED credVars
    <2>1. UNCHANGED <<env, stage, now, held, sending, sent>>
        BY <1>10 DEF credVars
    <2>2. Serving' <=> Serving
        BY <2>1 DEF Serving
    <2> QED BY <1>t, <1>g, <2>1, <2>2, QuietKeeps DEF CredentialTypeOK
<1> QED BY <1>1, <1>2, <1>3, <1>4, <1>5, <1>6, <1>7, <1>8, <1>9, <1>10 DEF CredentialNext

(* A request never carries an expired token, keeps the refresh margin unless *)
(* minting failed, and is never sent with a token that the gate refuses, for *)
(* any number of concurrent requests (Token and RoundTrip of the             *)
(* credential sources, runScopeGate).                                        *)
THEOREM CredentialOutlives == CredentialSpec => []TokenOutlivesRequest
<1>1. CredentialInit => CredentialInv
    <2> SUFFICES ASSUME CredentialInit PROVE CredentialInv
        OBVIOUS
    <2>1. NoToken \in Sends
        BY DEF NoToken, Sends
    <2>2. CredentialTypeOK
        BY <2>1, GitCredentialAssumption DEF CredentialInit, CredentialTypeOK
    <2>3. GatePassed /\ TokensGood
        BY DEF CredentialInit, GatePassed, TokensGood, Serving
    <2> QED BY <2>2, <2>3 DEF CredentialInv
<1> QED BY <1>1, CredentialStep, CredentialParts, PTL DEF CredentialSpec

---------------------------------------------------------------------------
(* The life of a process *)

(* What an ended process may leave open. *)
LeftOpen == {"config", "notify", "tls", "credential", "gate", "agent", "listen", "health", "started", "serve",
             "redis", "informer", "controller"}

(* Once a main serves, nothing that can still fail is left to do. *)
ServesLast(steps) == \A i, j \in 1..Len(steps) : steps[i] = "serve" /\ i < j => steps[j] \in Infallible

(* An adapter looks for its credential before it reports a status, and has no *)
(* startup probe.                                                            *)
CredentialFirst(steps) ==
    \A i, j \in 1..Len(steps) : steps[i] = "credential" => /\ steps[j] # "started"
                                                           /\ j < i => steps[j] # "health"

Has(s, x) == \E i \in 1..Len(s) : s[i] = x

(* An adapter serves after the steps that look at its configuration. *)
ChecksFirst(adapter, steps) ==
    \A i \in 1..Len(steps) : steps[i] = "serve" =>
        /\ \E j \in 1..(i - 1) : steps[j] = "config"
        /\ adapter \in Keyed => \E j \in 1..(i - 1) : steps[j] = "credential"
        /\ adapter \in {"llm-adapter", "adk-adapter"} => \E j \in 1..(i - 1) : steps[j] = "agent"

(* What is said of a main, once its profile is known. *)
Sound(adapter, steps, closes, skips) ==
    /\ \E Names : steps \in Seq(Names)
    /\ steps # <<>>
    /\ ServesLast(steps) /\ CredentialFirst(steps)
    /\ \A i \in 1..Len(steps) : steps[i] \in LeftOpen \/ Has(closes, steps[i])
    /\ DOMAIN closes = 1..Len(closes)
    /\ skips \cap {"config", "credential", "agent"} = {}
    /\ adapter \in Configured => ChecksFirst(adapter, steps)

---------------------------------------------------------------------------
(* The inductive invariant. Past(x): the startup is past the step x. *)

Past(x) == \E i \in 1..(at - 1) : profile.steps[i] = x

LifeTypeOK ==
    /\ svc \in Services /\ cfg \in Configs[svc]
    /\ phase \in {"start", "run", "drain", "close", "ended", "exited", "killed"}
    /\ at \in 1..(Len(profile.steps) + 1) /\ (phase = "start" => at <= Len(profile.steps))
    /\ opened \subseteq had /\ \A x \in had : Past(x)
    /\ degraded \in BOOLEAN /\ late \in BOOLEAN /\ inflight \in Nat

(* The connections a request needs are closed after the last request. *)
ClosedLast ==
    /\ phase \in {"start", "run", "drain"} => Used \subseteq opened
    /\ phase = "close" /\ inflight > 0 => late
    /\ inflight > 0 => "serve" \in had
    /\ "serve" \in opened => phase \in {"start", "run", "killed"}
    /\ phase = "ended" => \A i \in DOMAIN profile.closes : profile.closes[i] \notin opened

(* The health status is what the startup and the drain have made it. *)
HealthTold ==
    /\ health # "none" => "health" \in had
    /\ degraded => Past("credential") /\ health # "SERVING"
    /\ phase = "drain" /\ profile.drains => health # "SERVING"

(* The startup passes a check only with a configuration that meets it, or *)
(* without the credential.                                                *)
PassedChecks ==
    svc \in Configured =>
        /\ Past("config") => LoadConfig(svc, cfg)
        /\ Past("credential") /\ svc \in Keyed => degraded \/ CredentialFound(svc, cfg)
        /\ Past("agent") => degraded \/ NewAgentServer(svc, cfg)

(* The startup passes a connection that is needed only by opening it. *)
NeededOpened == \A x \in Connections \ profile.skips : Past(x) => x \in had

LifeInv == LifeTypeOK /\ ClosedLast /\ HealthTold /\ PassedChecks /\ NeededOpened

---------------------------------------------------------------------------
(* The profiles. *)

(* What can be said of a startup that is put together from two. *)
LEMMA JoinedAt ==
    ASSUME NEW X, NEW s \in Seq(X), NEW t \in Seq(X), NEW i \in 1..Len(s \o t)
    PROVE  /\ i \in Nat /\ Len(s) \in Nat
           /\ i <= Len(s) => i \in 1..Len(s) /\ (s \o t)[i] = s[i]
           /\ Len(s) < i => i - Len(s) \in 1..Len(t) /\ (s \o t)[i] = t[i - Len(s)]
BY ConcatProperties

LEMMA ServesBefore ==
    ASSUME NEW X, NEW s \in Seq(X), NEW t \in Seq(X \cap Infallible), ServesLast(s)
    PROVE  ServesLast(s \o t)
<1> SUFFICES ASSUME NEW i \in 1..Len(s \o t), NEW j \in 1..Len(s \o t), (s \o t)[i] = "serve", i < j
             PROVE  (s \o t)[j] \in Infallible
    BY DEF ServesLast
<1>t. t \in Seq(X)
    OBVIOUS
<1>1. CASE Len(s) < j
    <2>1. (s \o t)[j] = t[j - Len(s)] /\ j - Len(s) \in 1..Len(t)
        BY <1>1, <1>t, JoinedAt
    <2> QED BY <2>1
<1>2. CASE j <= Len(s)
    <2>1. (s \o t)[j] = s[j] /\ (s \o t)[i] = s[i] /\ i \in 1..Len(s) /\ j \in 1..Len(s)
        BY <1>2, <1>t, JoinedAt
    <2> QED BY <2>1 DEF ServesLast
<1>3. j \in Nat /\ Len(s) \in Nat
    BY <1>t, JoinedAt
<1> QED BY <1>1, <1>2, <1>3

LEMMA ServesAfter ==
    ASSUME NEW X, NEW s \in Seq(X \ {"serve"}), NEW t \in Seq(X), ServesLast(t)
    PROVE  ServesLast(s \o t)
<1> SUFFICES ASSUME NEW i \in 1..Len(s \o t), NEW j \in 1..Len(s \o t), (s \o t)[i] = "serve", i < j
             PROVE  (s \o t)[j] \in Infallible
    BY DEF ServesLast
<1>s. s \in Seq(X)
    OBVIOUS
<1>1. Len(s) < i
    <2> SUFFICES ASSUME i <= Len(s) PROVE FALSE
        BY <1>s, JoinedAt
    <2>1. (s \o t)[i] = s[i] /\ i \in 1..Len(s)
        BY <1>s, JoinedAt
    <2> QED BY <2>1
<1>2. i \in Nat /\ j \in Nat /\ Len(s) \in Nat /\ Len(s) < j
    BY <1>1, <1>s, JoinedAt
<1>3. /\ (s \o t)[i] = t[i - Len(s)] /\ i - Len(s) \in 1..Len(t)
      /\ (s \o t)[j] = t[j - Len(s)] /\ j - Len(s) \in 1..Len(t)
    BY <1>1, <1>2, <1>s, JoinedAt
<1>4. i - Len(s) < j - Len(s)
    BY <1>2
<1> QED BY <1>3, <1>4 DEF ServesLast

LEMMA HasJoined ==
    ASSUME NEW X, NEW s \in Seq(X), NEW t \in Seq(X), NEW x, Has(s, x) \/ Has(t, x)
    PROVE  Has(s \o t, x)
<1>1. CASE Has(s, x)
    BY <1>1, ConcatProperties DEF Has
<1>2. CASE Has(t, x)
    <2>1. PICK i \in 1..Len(t) : t[i] = x
        BY <1>2 DEF Has
    <2>2. Len(s) + i \in 1..Len(s \o t) /\ Len(s) + i > Len(s) /\ (Len(s) + i) - Len(s) = i
        BY ConcatProperties
    <2>3. (s \o t)[Len(s) + i] = t[i]
        BY <2>2, JoinedAt
    <2> QED BY <2>1, <2>2, <2>3 DEF Has
<1> QED BY <1>1, <1>2

(* A service: it has no credential and, once it serves, nothing left that fails. *)
LEMMA ServiceSound ==
    ASSUME NEW X, NEW steps \in Seq(X), steps # <<>>, ServesLast(steps), "credential" \notin X,
           NEW Y, NEW closes \in Seq(Y), \A x \in X : x \in LeftOpen \/ Has(closes, x),
           NEW skips, skips \cap {"config", "credential", "agent"} = {},
           NEW s, s \notin Configured
    PROVE  Sound(s, steps, closes, skips)
<1>1. \A i \in 1..Len(steps) : steps[i] \in X
    OBVIOUS
<1>2. CredentialFirst(steps)
    BY <1>1 DEF CredentialFirst
<1>3. DOMAIN closes = 1..Len(closes)
    OBVIOUS
<1> QED BY <1>1, <1>2, <1>3 DEF Sound

(* A startup whose last part serves, and one with a part after that. *)
LEMMA LastServes ==
    ASSUME NEW X, NEW s \in Seq(X \ {"serve"}), NEW t \in Seq(X), ServesLast(t)
    PROVE  s \o t \in Seq(X) /\ ServesLast(s \o t) /\ (t # <<>> => s \o t # <<>>)
<1>1. s \in Seq(X)
    OBVIOUS
<1>2. s \o t \in Seq(X) /\ Len(s \o t) = Len(s) + Len(t) /\ Len(s) \in Nat /\ Len(t) \in Nat
    BY <1>1, ConcatProperties
<1>3. t # <<>> => Len(t) > 0
    OBVIOUS
<1> QED BY <1>2, <1>3, ServesAfter

LEMMA FirstServes ==
    ASSUME NEW X, NEW s \in Seq(X), NEW t \in Seq(X \cap Infallible), ServesLast(s), s # <<>>
    PROVE  s \o t \in Seq(X) /\ ServesLast(s \o t) /\ s \o t # <<>>
<1>1. t \in Seq(X)
    OBVIOUS
<1>2. s \o t \in Seq(X) /\ Len(s \o t) = Len(s) + Len(t) /\ Len(s) \in Nat /\ Len(t) \in Nat
    BY <1>1, ConcatProperties
<1>3. Len(s) > 0
    OBVIOUS
<1> QED BY <1>2, <1>3, ServesBefore

(* The pieces of the startups. *)
LEMMA Pieces ==
    ASSUME NEW X
    PROVE  /\ "tracer" \in X => InitTracer \in Seq(X)
           /\ "metrics" \in X => StartMetricsServer \in Seq(X) /\ startMetricsServer \in Seq(X)
           /\ {"listen", "serve"} \subseteq X => ListenAndServe \in Seq(X)
           /\ {"tls", "brokerConn"} \subseteq X => dialGRPCClients \in Seq(X)
           /\ buildArgoEngine \in Seq(X)
           /\ "http" \in X => startHTTP \in Seq(X)
           /\ "admin" \in X => startAdmin \in Seq(X)
           /\ {"worker", "temporal", "brokerConn", "events"} \subseteq X => cleanup \in Seq(X)
           /\ "informer" \in X => startCRDInformer \in Seq(X)
           /\ {"tls", "compConn", "engConn", "events"} \subseteq X => NewGatewayClients \in Seq(X)
           /\ "controller" \in X => StartController \in Seq(X)
           /\ "serve" \in X => serveUntilShutdown \in Seq(X)
           /\ "selector" \in X => NewSchedulerClient \in Seq(X)
           /\ "repo" \in X => newRepository \in Seq(X)
           /\ "publisher" \in X => attachEventPublisher \in Seq(X)
           /\ "health" \in X => newGRPCServer \in Seq(X)
BY DEF InitTracer, StartMetricsServer, startMetricsServer, ListenAndServe, dialGRPCClients, buildArgoEngine,
       startHTTP, startAdmin, cleanup, startCRDInformer, NewGatewayClients, StartController,
       serveUntilShutdown, NewSchedulerClient, newRepository, attachEventPublisher, newGRPCServer

LEMMA ServePieces ==
    /\ ServesLast(ListenAndServe) /\ ListenAndServe # <<>>
    /\ ServesLast(serveUntilShutdown) /\ serveUntilShutdown # <<>>
BY DEF ServesLast, ListenAndServe, serveUntilShutdown

(* The startup of the engine-adapter, up to the probes. *)
LEMMA GRPCServes ==
    ASSUME NEW X, {"tls", "health", "listen", "serve"} \subseteq X
    PROVE  startGRPC \in Seq(X) /\ ServesLast(startGRPC) /\ startGRPC # <<>>
<1> DEFINE s == <<"tls", "health">>
<1>1. s \in Seq(X \ {"serve"}) /\ s \in Seq(X) /\ startGRPC = s \o ListenAndServe
    BY DEF startGRPC
<1> HIDE DEF s
<1>2. ListenAndServe \in Seq(X)
    BY Pieces
<1> QED BY <1>1, <1>2, LastServes, ServePieces

(* The engine-adapter, with either engine. *)
LEMMA EngineAdapterSound ==
    ASSUME NEW build \in Seq({"temporal", "tls", "brokerConn", "events", "worker"}),
           NEW s, s \notin Configured
    PROVE  LET p == engineAdapter(build) IN Sound(s, p.steps, p.closes, p.skips)
<1> DEFINE X == {"tracer", "temporal", "tls", "brokerConn", "events", "worker", "health", "listen", "serve",
                 "http", "admin", "started", "notify"}
           l == <<"started", "notify">>
           c == <<"http", "admin">>
           s0 == InitTracer \o build
           s1 == s0 \o startGRPC
           s2 == s1 \o startHTTP
           s3 == s2 \o startAdmin
           steps == s3 \o l
           c1 == c \o cleanup
           closes == c1 \o InitTracer
           p == engineAdapter(build)
<1>1. /\ InitTracer \in Seq(X \ {"serve"}) /\ build \in Seq(X \ {"serve"})
      /\ startGRPC \in Seq(X) /\ ServesLast(startGRPC) /\ startGRPC # <<>>
      /\ startHTTP \in Seq(X \cap Infallible) /\ startAdmin \in Seq(X \cap Infallible)
      /\ l \in Seq(X \cap Infallible)
    <2>1. {"http", "admin", "started", "notify"} \subseteq X \cap Infallible
        BY DEF Infallible
    <2>2. l \in Seq(X \cap Infallible)
        BY <2>1
    <2>3. startGRPC \in Seq(X) /\ ServesLast(startGRPC) /\ startGRPC # <<>>
        BY GRPCServes
    <2>4. build \in Seq(X \ {"serve"})
        OBVIOUS
    <2>5. "tracer" \in X \ {"serve"}
        OBVIOUS
    <2> HIDE DEF X, l
    <2> QED BY <2>1, <2>2, <2>3, <2>4, <2>5, Pieces
<1>2. p.steps = steps /\ p.closes = closes /\ p.skips = {}
    BY DEF engineAdapter, Profile
<1>3. /\ c \in Seq(X) /\ cleanup \in Seq(X) /\ InitTracer \in Seq(X)
      /\ Has(c, "http") /\ Has(c, "admin") /\ Has(InitTracer, "tracer")
      /\ Has(cleanup, "worker") /\ Has(cleanup, "temporal") /\ Has(cleanup, "brokerConn") /\ Has(cleanup, "events")
    BY Pieces DEF Has, cleanup, InitTracer
<1>4. X = {"http", "admin", "tracer", "worker", "temporal", "brokerConn", "events"}
            \cup {"tls", "health", "listen", "serve", "started", "notify"}
    OBVIOUS
<1> HIDE DEF X, l, c
<1>5. s0 \in Seq(X \ {"serve"}) /\ s0 \in Seq(X)
    BY <1>1, ConcatProperties
<1> HIDE DEF s0
<1>6. s1 \in Seq(X) /\ ServesLast(s1) /\ s1 # <<>>
    BY <1>1, <1>5, LastServes
<1> HIDE DEF s1
<1>7. s2 \in Seq(X) /\ ServesLast(s2) /\ s2 # <<>>
    BY <1>1, <1>6, FirstServes
<1> HIDE DEF s2
<1>8. s3 \in Seq(X) /\ ServesLast(s3) /\ s3 # <<>>
    BY <1>1, <1>7, FirstServes
<1> HIDE DEF s3
<1>9. steps \in Seq(X) /\ ServesLast(steps) /\ steps # <<>>
    BY <1>1, <1>8, FirstServes
<1>10. c1 \in Seq(X) /\ \A x : Has(c, x) \/ Has(cleanup, x) => Has(c1, x)
    BY <1>3, HasJoined, ConcatProperties
<1> HIDE DEF c1
<1>11. closes \in Seq(X) /\ \A x : Has(c1, x) \/ Has(InitTracer, x) => Has(closes, x)
    BY <1>3, <1>10, HasJoined, ConcatProperties
<1> HIDE DEF steps, closes
<1>12. \A x \in X : x \in LeftOpen \/ Has(closes, x)
    BY <1>3, <1>4, <1>10, <1>11 DEF LeftOpen
<1>13. "credential" \notin X
    BY <1>4
<1>14. Sound(s, steps, closes, {})
    BY <1>9, <1>11, <1>12, <1>13, ServiceSound
<1> QED BY <1>2, <1>14

LEMMA TemporalEngine == buildTemporalEngine \in Seq({"temporal", "tls", "brokerConn", "events", "worker"})
<1> DEFINE X == {"temporal", "tls", "brokerConn", "events", "worker"}
           a == <<"temporal">>
           b == <<"events", "worker">>
<1>1. a \in Seq(X) /\ b \in Seq(X) /\ dialGRPCClients \in Seq(X)
    BY Pieces
<1>2. buildTemporalEngine = (a \o dialGRPCClients) \o b
    BY DEF buildTemporalEngine
<1> HIDE DEF X, a, b
<1>3. buildTemporalEngine \in Seq(X)
    BY <1>1, <1>2, ConcatProperties
<1> QED BY <1>3 DEF X

(* The services. *)
LEMMA AgentRegistrySound ==
    LET p == agentRegistry IN Sound("agent-registry", p.steps, p.closes, p.skips)
<1> DEFINE X == {"config", "notify", "tracer", "metrics", "tls", "informer", "health", "listen", "serve"}
           W == X \ {"serve"}
           a == <<"config", "notify">>
           b == <<"tls">>
           d == <<"health">>
           closes == <<"metrics", "tracer">>
           s == ((((a \o InitTracer) \o StartMetricsServer) \o b) \o startCRDInformer) \o d
           p == agentRegistry
<1>1. /\ a \in Seq(W) /\ b \in Seq(W) /\ d \in Seq(W)
      /\ "tracer" \in W /\ "metrics" \in W /\ "informer" \in W /\ {"listen", "serve"} \subseteq X
    OBVIOUS
<1>2. p.steps = s \o ListenAndServe /\ p.closes = closes /\ p.skips = {"informer"}
    BY DEF agentRegistry, Profile
<1>3. closes \in Seq(X) /\ \A x \in X : x \in LeftOpen \/ Has(closes, x)
    BY DEF LeftOpen, Has
<1>4. "credential" \notin X /\ "agent-registry" \notin Configured
    BY DEF Configured
<1> HIDE DEF X, a, b, d, closes
<1>5. InitTracer \in Seq(W) /\ StartMetricsServer \in Seq(W) /\ startCRDInformer \in Seq(W) /\ ListenAndServe \in Seq(X)
    BY <1>1, Pieces
<1>6. s \in Seq(W)
    BY <1>1, <1>5, ConcatProperties
<1> HIDE DEF s
<1>7. s \o ListenAndServe \in Seq(X) /\ ServesLast(s \o ListenAndServe) /\ s \o ListenAndServe # <<>>
    BY <1>1, <1>5, <1>6, LastServes, ServePieces
<1>8. Sound("agent-registry", s \o ListenAndServe, closes, {"informer"})
    BY <1>3, <1>4, <1>7, ServiceSound
<1> QED BY <1>2, <1>8

LEMMA APIGatewaySound ==
    LET p == apiGateway IN Sound("api-gateway", p.steps, p.closes, p.skips)
<1> DEFINE X == {"config", "notify", "tls", "compConn", "engConn", "events", "controller", "tracer", "started", "serve"}
           W == X \ {"serve"}
           a == <<"config", "notify">>
           b == <<"started">>
           closes == <<"tracer", "compConn", "engConn", "events">>
           s == (((a \o NewGatewayClients) \o StartController) \o InitTracer) \o b
           p == apiGateway
<1>1. /\ a \in Seq(W) /\ b \in Seq(W)
      /\ "tracer" \in W /\ "controller" \in W /\ {"tls", "compConn", "engConn", "events"} \subseteq W /\ "serve" \in X
    OBVIOUS
<1>2. p.steps = s \o serveUntilShutdown /\ p.closes = closes /\ p.skips = {"controller"}
    BY DEF apiGateway, Profile
<1>3. closes \in Seq(X) /\ \A x \in X : x \in LeftOpen \/ Has(closes, x)
    BY DEF LeftOpen, Has
<1>4. "credential" \notin X /\ "api-gateway" \notin Configured
    BY DEF Configured
<1> HIDE DEF X, a, b, closes
<1>5. InitTracer \in Seq(W) /\ StartController \in Seq(W) /\ NewGatewayClients \in Seq(W) /\ serveUntilShutdown \in Seq(X)
    BY <1>1, Pieces
<1>6. s \in Seq(W)
    BY <1>1, <1>5, ConcatProperties
<1> HIDE DEF s
<1>7. s \o serveUntilShutdown \in Seq(X) /\ ServesLast(s \o serveUntilShutdown) /\ s \o serveUntilShutdown # <<>>
    BY <1>1, <1>5, <1>6, LastServes, ServePieces
<1>8. Sound("api-gateway", s \o serveUntilShutdown, closes, {"controller"})
    BY <1>3, <1>4, <1>7, ServiceSound
<1> QED BY <1>2, <1>8

LEMMA WorkflowCompilerSound ==
    LET p == workflowCompiler IN Sound("workflow-compiler", p.steps, p.closes, p.skips)
<1> DEFINE X == {"config", "tls", "tracer", "health", "listen", "metrics", "notify", "serve"}
           W == X \ {"serve"}
           a == <<"config", "tls">>
           b == <<"health", "listen">>
           z == <<"notify", "serve">>
           closes == <<"metrics", "tracer">>
           s == ((a \o InitTracer) \o b) \o startMetricsServer
           p == workflowCompiler
<1>1. /\ a \in Seq(W) /\ b \in Seq(W)
      /\ "tracer" \in W /\ "metrics" \in W
      /\ z \in Seq(X) /\ z # <<>> /\ ServesLast(z)
    BY DEF ServesLast, Infallible
<1>2. p.steps = s \o z /\ p.closes = closes /\ p.skips = {}
    BY DEF workflowCompiler, Profile
<1>3. closes \in Seq(X) /\ \A x \in X : x \in LeftOpen \/ Has(closes, x)
    BY DEF LeftOpen, Has
<1>4. "credential" \notin X /\ "workflow-compiler" \notin Configured
    BY DEF Configured
<1> HIDE DEF X, a, b, z, closes
<1>5. InitTracer \in Seq(W) /\ startMetricsServer \in Seq(W)
    BY <1>1, Pieces
<1>6. s \in Seq(W)
    BY <1>1, <1>5, ConcatProperties
<1> HIDE DEF s
<1>7. s \o z \in Seq(X) /\ ServesLast(s \o z) /\ s \o z # <<>>
    BY <1>1, <1>5, <1>6, LastServes
<1>8. Sound("workflow-compiler", s \o z, closes, {})
    BY <1>3, <1>4, <1>7, ServiceSound
<1> QED BY <1>2, <1>8

LEMMA TaskBrokerSound ==
    LET p == taskBroker IN Sound("task-broker", p.steps, p.closes, p.skips)
<1> DEFINE X == {"config", "notify", "tracer", "metrics", "tls", "selector", "repo", "publisher", "health", "listen", "serve"}
           W == X \ {"serve"}
           a == <<"config", "notify">>
           b == <<"tls">>
           closes == <<"publisher", "repo", "selector", "metrics", "tracer">>
           s == ((((((a \o InitTracer) \o StartMetricsServer) \o b) \o NewSchedulerClient) \o newRepository)
                   \o attachEventPublisher) \o newGRPCServer
           p == taskBroker
<1>1. /\ a \in Seq(W) /\ b \in Seq(W)
      /\ "tracer" \in W /\ "metrics" \in W /\ "selector" \in W /\ "repo" \in W /\ "publisher" \in W /\ "health" \in W
      /\ {"listen", "serve"} \subseteq X
    OBVIOUS
<1>2. p.steps = s \o ListenAndServe /\ p.closes = closes /\ p.skips = {"publisher"}
    BY DEF taskBroker, Profile
<1>3. closes \in Seq(X) /\ \A x \in X : x \in LeftOpen \/ Has(closes, x)
    BY DEF LeftOpen, Has
<1>4. "credential" \notin X /\ "task-broker" \notin Configured
    BY DEF Configured
<1> HIDE DEF X, a, b, closes
<1>5. InitTracer \in Seq(W) /\ StartMetricsServer \in Seq(W) /\ NewSchedulerClient \in Seq(W) /\ newRepository \in Seq(W) /\ attachEventPublisher \in Seq(W) /\ newGRPCServer \in Seq(W) /\ ListenAndServe \in Seq(X)
    BY <1>1, Pieces
<1>6. s \in Seq(W)
    BY <1>1, <1>5, ConcatProperties
<1> HIDE DEF s
<1>7. s \o ListenAndServe \in Seq(X) /\ ServesLast(s \o ListenAndServe) /\ s \o ListenAndServe # <<>>
    BY <1>1, <1>5, <1>6, LastServes, ServePieces
<1>8. Sound("task-broker", s \o ListenAndServe, closes, {"publisher"})
    BY <1>3, <1>4, <1>7, ServiceSound
<1> QED BY <1>2, <1>8

LEMMA MemoryServiceSound ==
    LET p == memoryService IN Sound("memory-service", p.steps, p.closes, p.skips)
<1> DEFINE X == {"config", "notify", "tracer", "metrics", "tls", "redis", "health", "listen", "serve"}
           W == X \ {"serve"}
           a == <<"config", "notify">>
           b == <<"tls", "redis", "health">>
           closes == <<"metrics", "tracer">>
           s == ((a \o InitTracer) \o StartMetricsServer) \o b
           p == memoryService
<1>1. /\ a \in Seq(W) /\ b \in Seq(W)
      /\ "tracer" \in W /\ "metrics" \in W /\ {"listen", "serve"} \subseteq X
    OBVIOUS
<1>2. p.steps = s \o ListenAndServe /\ p.closes = closes /\ p.skips = {"redis"}
    BY DEF memoryService, Profile
<1>3. closes \in Seq(X) /\ \A x \in X : x \in LeftOpen \/ Has(closes, x)
    BY DEF LeftOpen, Has
<1>4. "credential" \notin X /\ "memory-service" \notin Configured
    BY DEF Configured
<1> HIDE DEF X, a, b, closes
<1>5. InitTracer \in Seq(W) /\ StartMetricsServer \in Seq(W) /\ ListenAndServe \in Seq(X)
    BY <1>1, Pieces
<1>6. s \in Seq(W)
    BY <1>1, <1>5, ConcatProperties
<1> HIDE DEF s
<1>7. s \o ListenAndServe \in Seq(X) /\ ServesLast(s \o ListenAndServe) /\ s \o ListenAndServe # <<>>
    BY <1>1, <1>5, <1>6, LastServes, ServePieces
<1>8. Sound("memory-service", s \o ListenAndServe, closes, {"redis"})
    BY <1>3, <1>4, <1>7, ServiceSound
<1> QED BY <1>2, <1>8

(* The adapters: each startup as it is written. *)
LEMMA GitAdapterSound ==
    LET p == gitAdapter IN Sound("git-adapter", p.steps, p.closes, p.skips)
<1> DEFINE steps == <<"config", "credential", "gate", "notify", "listen", "health", "serve">>
           p == gitAdapter
<1>1. p.steps = steps /\ p.closes = <<>> /\ p.skips = {}
    BY DEF gitAdapter, Adapter, Profile
<1>2. steps \in Seq(LeftOpen) /\ steps # <<>> /\ \A i \in 1..Len(steps) : steps[i] \in LeftOpen
    BY DEF LeftOpen
<1>3. ServesLast(steps) /\ CredentialFirst(steps)
    BY DEF ServesLast, CredentialFirst, Infallible
<1>4. ChecksFirst("git-adapter", steps)
    BY DEF ChecksFirst, Keyed
<1>5. DOMAIN <<>> = 1..Len(<<>>)
    OBVIOUS
<1> HIDE DEF steps
<1> QED BY <1>1, <1>2, <1>3, <1>4, <1>5 DEF Sound

LEMMA LLMAdapterSound ==
    LET p == llmAdapter IN Sound("llm-adapter", p.steps, p.closes, p.skips)
<1> DEFINE steps == <<"config", "credential", "agent", "listen", "notify", "health", "serve">>
           p == llmAdapter
<1>1. p.steps = steps /\ p.closes = <<>> /\ p.skips = {}
    BY DEF llmAdapter, Adapter, Profile
<1>2. steps \in Seq(LeftOpen) /\ steps # <<>> /\ \A i \in 1..Len(steps) : steps[i] \in LeftOpen
    BY DEF LeftOpen
<1>3. ServesLast(steps) /\ CredentialFirst(steps)
    BY DEF ServesLast, CredentialFirst, Infallible
<1>4. ChecksFirst("llm-adapter", steps)
    BY DEF ChecksFirst, Keyed
<1>5. DOMAIN <<>> = 1..Len(<<>>)
    OBVIOUS
<1> HIDE DEF steps
<1> QED BY <1>1, <1>2, <1>3, <1>4, <1>5 DEF Sound

LEMMA CIAdapterSound ==
    LET p == ciAdapter IN Sound("ci-adapter", p.steps, p.closes, p.skips)
<1> DEFINE steps == <<"config", "credential", "notify", "listen", "health", "serve">>
           p == ciAdapter
<1>1. p.steps = steps /\ p.closes = <<>> /\ p.skips = {}
    BY DEF ciAdapter, Adapter, Profile
<1>2. steps \in Seq(LeftOpen) /\ steps # <<>> /\ \A i \in 1..Len(steps) : steps[i] \in LeftOpen
    BY DEF LeftOpen
<1>3. ServesLast(steps) /\ CredentialFirst(steps)
    BY DEF ServesLast, CredentialFirst, Infallible
<1>4. ChecksFirst("ci-adapter", steps)
    BY DEF ChecksFirst, Keyed
<1>5. DOMAIN <<>> = 1..Len(<<>>)
    OBVIOUS
<1> HIDE DEF steps
<1> QED BY <1>1, <1>2, <1>3, <1>4, <1>5 DEF Sound

LEMMA ADKAdapterSound ==
    LET p == adkAdapter IN Sound("adk-adapter", p.steps, p.closes, p.skips)
<1> DEFINE steps == <<"config", "notify", "listen", "agent", "health", "serve">>
           p == adkAdapter
<1>1. p.steps = steps /\ p.closes = <<>> /\ p.skips = {}
    BY DEF adkAdapter, Adapter, Profile
<1>2. steps \in Seq(LeftOpen) /\ steps # <<>> /\ \A i \in 1..Len(steps) : steps[i] \in LeftOpen
    BY DEF LeftOpen
<1>3. ServesLast(steps) /\ CredentialFirst(steps)
    BY DEF ServesLast, CredentialFirst, Infallible
<1>4. ChecksFirst("adk-adapter", steps)
    BY DEF ChecksFirst, Keyed
<1>5. DOMAIN <<>> = 1..Len(<<>>)
    OBVIOUS
<1> HIDE DEF steps
<1> QED BY <1>1, <1>2, <1>3, <1>4, <1>5 DEF Sound

LEMMA HTTPAdapterSound ==
    LET p == httpAdapter IN Sound("http-adapter", p.steps, p.closes, p.skips)
<1> DEFINE steps == <<"config", "notify", "listen", "health", "serve">>
           p == httpAdapter
<1>1. p.steps = steps /\ p.closes = <<>> /\ p.skips = {}
    BY DEF httpAdapter, Adapter, Profile
<1>2. steps \in Seq(LeftOpen) /\ steps # <<>> /\ \A i \in 1..Len(steps) : steps[i] \in LeftOpen
    BY DEF LeftOpen
<1>3. ServesLast(steps) /\ CredentialFirst(steps)
    BY DEF ServesLast, CredentialFirst, Infallible
<1>4. ChecksFirst("http-adapter", steps)
    BY DEF ChecksFirst, Keyed
<1>5. DOMAIN <<>> = 1..Len(<<>>)
    OBVIOUS
<1> HIDE DEF steps
<1> QED BY <1>1, <1>2, <1>3, <1>4, <1>5 DEF Sound

(* Every profile is sound. *)
LEMMA ProfileSound ==
    ASSUME svc \in Services
    PROVE  Sound(svc, profile.steps, profile.closes, profile.skips)
<1>1. svc \in Mains
    BY LifeAssumption
<1>2. CASE svc = "engine-adapter"
    BY <1>2, EngineAdapterSound, TemporalEngine DEF profile, Configured
<1>3. CASE svc = "engine-adapter-argo"
    BY <1>3, EngineAdapterSound, Pieces DEF profile, Configured
<1>4. CASE svc = "agent-registry"
    BY <1>4, AgentRegistrySound DEF profile
<1>5. CASE svc = "api-gateway"
    BY <1>5, APIGatewaySound DEF profile
<1>6. CASE svc = "workflow-compiler"
    BY <1>6, WorkflowCompilerSound DEF profile
<1>7. CASE svc = "task-broker"
    BY <1>7, TaskBrokerSound DEF profile
<1>8. CASE svc = "memory-service"
    BY <1>8, MemoryServiceSound DEF profile
<1>9. CASE svc = "git-adapter"
    BY <1>9, GitAdapterSound DEF profile
<1>10. CASE svc = "llm-adapter"
    BY <1>10, LLMAdapterSound DEF profile
<1>11. CASE svc = "ci-adapter"
    BY <1>11, CIAdapterSound DEF profile
<1>12. CASE svc = "adk-adapter"
    BY <1>12, ADKAdapterSound DEF profile
<1>13. CASE svc = "http-adapter"
    BY <1>13, HTTPAdapterSound DEF profile
<1> QED BY <1>1, <1>2, <1>3, <1>4, <1>5, <1>6, <1>7, <1>8, <1>9, <1>10, <1>11, <1>12, <1>13 DEF Mains

(* A configuration that passed the checks of the startup has the fields the *)
(* calls read.                                                             *)
LEMMA ChecksSuffice ==
    ASSUME NEW a \in Configured, NEW c \in Configuration, LoadConfig(a, c),
           a \in Keyed => CredentialFound(a, c),
           a \in {"llm-adapter", "adk-adapter"} => NewAgentServer(a, c)
    PROVE  FieldsGiven(a, c)
<1>1. CASE a = "llm-adapter"
    <2>1. validateLLM(c) /\ ResolveSecret(c) /\ NewRouter(c)
        BY <1>1 DEF LoadConfig, loadLLM, Keyed, CredentialFound, NewAgentServer
    <2>2. HasCredential(a, c)
        BY <1>1, <2>1 DEF HasCredential, validateLLM, validateProvider, validateRequiredByProvider, ResolveSecret
    <2>3. HasUpstream(a, c)
        BY <1>1, <2>1 DEF HasUpstream, validateLLM, validateProvider, validateRequiredByProvider
    <2>4. HasSchemas(a, c)
        BY <2>1 DEF HasSchemas, NewRouter
    <2>5. IsReachable(a, c) /\ Len(c.caps) > 0
        BY <2>1 DEF IsReachable, validateLLM, validateIdentity, hasExplicitHost, Declare
    <2> QED BY <2>2, <2>3, <2>4, <2>5 DEF FieldsGiven
<1>2. CASE a = "adk-adapter"
    <2> DEFINE d == withDefaults(c)
    <2>1. validateADK(d) /\ newAgentServer(c)
        BY <1>2 DEF LoadConfig, loadADK, NewAgentServer
    <2>2. d.caps = c.caps /\ d.advertise = c.advertise /\ (d.endpoint = "host:port" => c.endpoint = "host:port")
        BY DEF withDefaults, Configuration, Addresses
    <2> HIDE DEF d
    <2>3. HasCredential(a, c) /\ HasUpstream(a, c)
        BY <1>2 DEF HasCredential, HasUpstream
    <2>4. HasSchemas(a, c)
        BY <2>1 DEF HasSchemas, newAgentServer
    <2>5. IsReachable(a, c) /\ Len(c.caps) > 0
        BY <2>1, <2>2 DEF IsReachable, validateADK, hasExplicitHost, Declare
    <2> QED BY <2>3, <2>4, <2>5 DEF FieldsGiven
<1>3. CASE a = "ci-adapter"
    <2>1. validateCI(c) /\ c.secret
        BY <1>3 DEF LoadConfig, loadCI, Keyed, CredentialFound, ResolveCIToken
    <2> QED BY <1>3, <2>1 DEF FieldsGiven, HasCredential, HasUpstream, HasSchemas, IsReachable, validateCI, Declare
<1>4. CASE a = "git-adapter"
    <2>1. validateGit(c)
        BY <1>4 DEF LoadConfig, loadGit
    <2> QED BY <1>4, <2>1 DEF FieldsGiven, HasCredential, HasUpstream, HasSchemas, IsReachable, validateGit, Declare
<1>5. CASE a = "http-adapter"
    <2>1. validateHTTP(c)
        BY <1>5 DEF LoadConfig, loadHTTP
    <2> QED BY <1>5, <2>1 DEF FieldsGiven, HasCredential, HasUpstream, HasSchemas, IsReachable, validateHTTP, Declare
<1> QED BY <1>1, <1>2, <1>3, <1>4, <1>5 DEF Configured

---------------------------------------------------------------------------
(* The steps of a process. *)

LEMMA ProfileKept == ASSUME svc' = svc PROVE profile' = profile
BY DEF profile

(* The invariant implies the property. *)
LEMMA LifeParts == LifeInv => ServesWhatIsOpen
<1> SUFFICES ASSUME LifeInv PROVE ServesWhatIsOpen
    OBVIOUS
<1>t. LifeTypeOK /\ ClosedLast /\ HealthTold /\ PassedChecks /\ NeededOpened
    BY DEF LifeInv
<1>s. Sound(svc, profile.steps, profile.closes, profile.skips)
    BY <1>t, ProfileSound DEF LifeTypeOK
<1>1. (Alive /\ inflight > 0 /\ ~late) => Used \subseteq opened
    BY <1>t DEF Alive, ClosedLast
<1>2. ASSUME Routed PROVE /\ Used \cup Needed \subseteq opened
                          /\ phase \in {"start", "run"} /\ ~degraded
                          /\ svc \in Configured => FieldsGiven(svc, cfg)
    <2>1. "serve" \in opened /\ phase \in {"start", "run"} /\ "serve" \in had
        BY <1>2, <1>t DEF Routed, Alive, ClosedLast, LifeTypeOK
    <2>2. ~degraded
        <3> SUFFICES ASSUME degraded PROVE FALSE
            OBVIOUS
        <3>1. Past("credential") /\ health # "SERVING"
            BY <1>t DEF HealthTold
        <3>2. Past("started")
            BY <1>2, <1>t, <3>1 DEF Routed, LifeTypeOK
        <3> QED BY <1>s, <1>t, <3>1, <3>2 DEF Past, Sound, CredentialFirst, LifeTypeOK
    <2>3. ASSUME svc \in Configured PROVE FieldsGiven(svc, cfg)
        <3>1. ChecksFirst(svc, profile.steps) /\ Past("serve")
            BY <1>s, <1>t, <2>1, <2>3 DEF Sound, LifeTypeOK
        <3>2. /\ Past("config")
              /\ svc \in Keyed => Past("credential")
              /\ svc \in {"llm-adapter", "adk-adapter"} => Past("agent")
            <4>1. PICK i \in 1..(at - 1) : profile.steps[i] = "serve"
                BY <3>1 DEF Past
            <4>2. i \in 1..Len(profile.steps) /\ 1..(i - 1) \subseteq 1..(at - 1)
                BY <1>t DEF LifeTypeOK
            <4> QED BY <3>1, <4>1, <4>2 DEF ChecksFirst, Past
        <3>3. cfg \in Configuration
            BY <1>t, LifeAssumption DEF LifeTypeOK
        <3> QED BY <1>t, <2>2, <2>3, <3>2, <3>3, ChecksSuffice DEF PassedChecks
    <2>4. Used \subseteq opened
        BY <1>t, <2>1 DEF ClosedLast
    <2>5. ASSUME NEW x \in Needed PROVE x \in opened
        <3>1. PICK j \in 1..Len(profile.steps) : profile.steps[j] = x
            BY <1>s, <2>5 DEF Needed, Sound
        <3>2. PICK i \in 1..(at - 1) : profile.steps[i] = "serve"
            BY <1>t, <2>1 DEF LifeTypeOK, Past
        <3>3. x \in Connections \ profile.skips /\ x # "serve" /\ x \notin Infallible
            BY <2>5 DEF Needed, Connections, Infallible
        <3>4. i \in 1..Len(profile.steps) /\ ~(i < j) /\ i # j
            BY <1>s, <1>t, <3>1, <3>2, <3>3 DEF Sound, ServesLast, LifeTypeOK
        <3>5. j \in 1..(at - 1)
            BY <3>1, <3>2, <3>4, <1>t DEF LifeTypeOK
        <3>6. x \in had
            BY <1>t, <3>1, <3>3, <3>5 DEF NeededOpened, Past
        <3> QED BY <2>4, <3>3, <3>6 DEF Used
    <2> QED BY <2>1, <2>2, <2>3, <2>4, <2>5
<1>3. (phase = "drain" /\ profile.drains) => health # "SERVING"
    BY <1>t DEF HealthTold
<1>4. ASSUME phase = "ended", NEW r \in opened PROVE r \in LeftOpen
    <2>1. PICK i \in 1..(at - 1) : profile.steps[i] = r
        BY <1>4, <1>t DEF LifeTypeOK, Past
    <2>2. i \in 1..Len(profile.steps)
        BY <1>t DEF LifeTypeOK
    <2>3. ~Has(profile.closes, r)
        BY <1>4, <1>t, <1>s DEF Has, Sound, ClosedLast
    <2> QED BY <1>s, <2>1, <2>2, <2>3 DEF Sound
<1> QED BY <1>1, <1>2, <1>3, <1>4 DEF ServesWhatIsOpen, LeftOpen

LEMMA PastKept ==
    ASSUME svc' = svc, at' = at PROVE \A x : Past(x)' <=> Past(x)
BY ProfileKept DEF Past

LEMMA PastGrows ==
    ASSUME LifeTypeOK, phase = "start", svc' = svc, at' = at + 1
    PROVE  \A x : Past(x)' <=> Past(x) \/ x = profile.steps[at]
<1>1. at \in Nat \ {0} /\ profile' = profile
    BY ProfileKept DEF LifeTypeOK
<1>2. 1..(at' - 1) = 1..(at - 1) \cup {at}
    BY <1>1
<1> QED BY <1>1, <1>2 DEF Past

(* A step of the startup that opens at most what it is for, and passes a check *)
(* only when it holds or the adapter is degraded.                            *)
LEMMA StartedKeeps ==
    ASSUME LifeInv, phase = "start", Started,
           NEW S \in SUBSET {StartStep}, opened' = opened \cup S, had' = had \cup S,
           degraded' = degraded \/ (degraded' = TRUE /\ StartStep = "credential" /\ health' = health),
           health' = health \/ ("health" \in S /\ setHealth("SERVING")),
           svc \in Configured =>
               /\ StartStep = "config" => LoadConfig(svc, cfg)
               /\ StartStep = "credential" /\ svc \in Keyed => degraded' \/ CredentialFound(svc, cfg)
               /\ StartStep = "agent" => degraded' \/ NewAgentServer(svc, cfg),
           StartStep \in Connections \ profile.skips => StartStep \in S
    PROVE  LifeInv'
<1>t. LifeTypeOK /\ ClosedLast /\ HealthTold /\ PassedChecks /\ NeededOpened
    BY DEF LifeInv
<1>s. Sound(svc, profile.steps, profile.closes, profile.skips)
    BY <1>t, ProfileSound DEF LifeTypeOK
<1>1. /\ UNCHANGED <<svc, cfg, inflight, late>> /\ at' = at + 1 /\ profile' = profile
      /\ phase' = IF at = Len(profile.steps) THEN "run" ELSE "start"
    BY ProfileKept DEF Started
<1>2. \A x : Past(x)' <=> Past(x) \/ x = StartStep
    BY <1>t, <1>1, PastGrows DEF StartStep
<1>3. degraded' \in BOOLEAN /\ (degraded => degraded')
    BY <1>t DEF LifeTypeOK
<1>4. LifeTypeOK'
    <2>1. \A x \in had' : Past(x)'
        BY <1>2, <1>t DEF LifeTypeOK
    <2>2. Len(profile.steps) \in Nat
        BY <1>s DEF Sound
    <2>3. /\ at' \in 1..(Len(profile.steps) + 1) /\ (phase' = "start" => at' <= Len(profile.steps))
          /\ phase' \in {"start", "run"}
        BY <1>1, <1>t, <2>2 DEF LifeTypeOK
    <2> QED BY <1>1, <1>3, <1>t, <2>1, <2>3 DEF LifeTypeOK
<1>5. ClosedLast'
    BY <1>1, <1>t DEF ClosedLast, LifeTypeOK, Used, Connections
<1>6. HealthTold'
    <2>1. health' # "none" => "health" \in had'
        BY <1>t DEF HealthTold
    <2>2. ASSUME degraded' PROVE Past("credential")' /\ health' # "SERVING"
        <3>1. CASE degraded
            BY <1>2, <1>t, <3>1 DEF HealthTold, setHealth
        <3>2. CASE ~degraded
            <4>1. StartStep = "credential" /\ health' = health
                BY <1>t, <2>2, <3>2 DEF LifeTypeOK
            <4>2. ~Past("health")
                <5> SUFFICES ASSUME NEW j \in 1..(at - 1), profile.steps[j] = "health" PROVE FALSE
                    BY DEF Past
                <5>1. at \in 1..Len(profile.steps) /\ j \in 1..Len(profile.steps) /\ j < at
                    BY <1>t DEF LifeTypeOK
                <5> QED BY <1>s, <4>1, <5>1 DEF Sound, CredentialFirst, StartStep
            <4>3. health = "none"
                BY <1>t, <4>2 DEF HealthTold, LifeTypeOK
            <4> QED BY <1>2, <4>1, <4>3
        <3> QED BY <3>1, <3>2
    <2> QED BY <1>1, <2>1, <2>2 DEF HealthTold
<1>7. PassedChecks'
    BY <1>1, <1>2, <1>3, <1>t DEF PassedChecks
<1>8. NeededOpened'
    BY <1>1, <1>2, <1>t DEF NeededOpened, Connections
<1> QED BY <1>4, <1>5, <1>6, <1>7, <1>8 DEF LifeInv

(* A step of a process that has started, or fails to. *)
LEMMA RunKeeps ==
    ASSUME LifeInv, UNCHANGED <<svc, cfg, at, had, degraded>>,
           phase' = phase \/ phase' \in {"run", "drain", "close", "ended", "exited", "killed"},
           opened' \subseteq opened, inflight' \in Nat, late' \in BOOLEAN,
           health' = health \/ (health' = "NOT_SERVING" /\ "health" \in had),
           phase' = "drain" /\ profile.drains => health' # "SERVING",
           ClosedLast'
    PROVE  LifeInv'
<1>t. LifeTypeOK /\ ClosedLast /\ HealthTold /\ PassedChecks /\ NeededOpened
    BY DEF LifeInv
<1>1. profile' = profile /\ \A x : Past(x)' <=> Past(x)
    BY ProfileKept, PastKept
<1>2. LifeTypeOK'
    BY <1>1, <1>t DEF LifeTypeOK
<1>3. HealthTold'
    BY <1>1, <1>t DEF HealthTold
<1>4. PassedChecks'
    BY <1>1, <1>t DEF PassedChecks
<1>5. NeededOpened'
    BY <1>1, <1>t DEF NeededOpened, Connections
<1> QED BY <1>2, <1>3, <1>4, <1>5 DEF LifeInv

(* Nothing that can fail is done while there are requests. *)
LEMMA NoRequestsYet ==
    ASSUME LifeInv, phase = "start", StartStep \notin Infallible
    PROVE  "serve" \notin had /\ inflight = 0
<1>t. LifeTypeOK /\ ClosedLast
    BY DEF LifeInv
<1>s. Sound(svc, profile.steps, profile.closes, profile.skips)
    BY <1>t, ProfileSound DEF LifeTypeOK
<1>1. ~Past("serve")
    <2> SUFFICES ASSUME NEW i \in 1..(at - 1), profile.steps[i] = "serve" PROVE FALSE
        BY DEF Past
    <2>1. at \in 1..Len(profile.steps) /\ i \in 1..Len(profile.steps) /\ i < at
        BY <1>t DEF LifeTypeOK
    <2> QED BY <1>s, <2>1 DEF Sound, ServesLast, StartStep
<1>2. "serve" \notin had
    BY <1>1, <1>t DEF LifeTypeOK
<1> QED BY <1>2, <1>t DEF ClosedLast, LifeTypeOK

LEMMA LifeStep == LifeInv /\ [LifeNext]_lifeVars => LifeInv'
<1> SUFFICES ASSUME LifeInv, [LifeNext]_lifeVars PROVE LifeInv'
    OBVIOUS
<1>t. LifeTypeOK /\ ClosedLast /\ HealthTold /\ PassedChecks /\ NeededOpened
    BY DEF LifeInv
<1>s. Sound(svc, profile.steps, profile.closes, profile.skips)
    BY <1>t, ProfileSound DEF LifeTypeOK
<1>1. CASE Open
    <2>1. svc \in Configured =>
               /\ StartStep = "config" => LoadConfig(svc, cfg)
               /\ StartStep = "credential" /\ svc \in Keyed => CredentialFound(svc, cfg)
               /\ StartStep = "agent" => NewAgentServer(svc, cfg)
        BY <1>1 DEF Open, CanSucceed
    <2>2. /\ phase = "start" /\ Started /\ degraded' = degraded
          /\ opened' = opened \cup {StartStep} /\ had' = had \cup {StartStep}
          /\ health' = health \/ (StartStep = "health" /\ setHealth("SERVING"))
        BY <1>1 DEF Open
    <2> QED BY <2>1, <2>2, StartedKeeps
<1>2. CASE Skip
    <2>1. /\ phase = "start" /\ Started /\ UNCHANGED <<opened, had, health, degraded>>
          /\ StartStep \in profile.skips \/ (degraded /\ StartStep \in {"gate", "agent"})
        BY <1>2 DEF Skip, Bypassed
    <2>2. /\ StartStep \notin {"config", "credential"} /\ (StartStep = "agent" => degraded)
          /\ StartStep \notin Connections \ profile.skips
        BY <1>s, <2>1 DEF Sound, Connections
    <2>3. opened' = opened \cup {} /\ had' = had \cup {}
        BY <2>1
    <2> QED BY <2>1, <2>2, <2>3, StartedKeeps
<1>3. CASE Degrade
    <2>1. /\ phase = "start" /\ Started /\ UNCHANGED <<opened, had, health>>
          /\ degraded' = TRUE /\ StartStep = "credential" /\ StartStep \notin Connections
        BY <1>3 DEF Degrade, Connections
    <2>2. opened' = opened \cup {} /\ had' = had \cup {}
        BY <2>1
    <2> QED BY <2>1, <2>2, StartedKeeps
<1>4. CASE StartFails
    <2>1. /\ phase = "start" /\ StartStep \notin Infallible /\ phase' \in {"exited", "close"}
          /\ UNCHANGED <<svc, cfg, at, opened, had, degraded, tls, health, inflight, work, peers, signalled, late>>
        BY <1>4 DEF StartFails, CanFail
    <2>2. "serve" \notin had /\ inflight = 0
        BY <2>1, NoRequestsYet
    <2>3. ClosedLast'
        BY <1>t, <2>1, <2>2 DEF ClosedLast, LifeTypeOK
    <2> QED BY <1>t, <2>1, <2>3, RunKeeps DEF LifeTypeOK
<1>5. CASE Drain
    <2>1. /\ phase = "run" /\ phase' = "drain" /\ opened' = opened \ {"serve"}
          /\ IF profile.drains /\ "health" \in had THEN setHealth("NOT_SERVING") ELSE UNCHANGED health
          /\ UNCHANGED <<svc, cfg, at, had, degraded, inflight, late>>
        BY <1>5 DEF Drain
    <2>2. health' = health \/ (health' = "NOT_SERVING" /\ "health" \in had)
        BY <2>1 DEF setHealth
    <2>3. profile.drains => health' # "SERVING"
        BY <1>t, <2>1 DEF setHealth, HealthTold
    <2>4. ClosedLast'
        BY <1>t, <2>1, ProfileKept DEF ClosedLast, LifeTypeOK, Used, Connections
    <2> QED BY <1>t, <2>1, <2>2, <2>3, <2>4, RunKeeps DEF LifeTypeOK
<1>6. CASE Drained
    <2>1. /\ phase = "drain" /\ phase' = "close" /\ inflight = 0
          /\ UNCHANGED <<svc, cfg, at, opened, had, degraded, health, inflight, late>>
        BY <1>6 DEF Drained
    <2>2. ClosedLast'
        BY <1>t, <2>1 DEF ClosedLast
    <2> QED BY <1>t, <2>1, <2>2, RunKeeps DEF LifeTypeOK
<1>7. CASE ShutdownLate
    <2>1. /\ phase = "drain" /\ phase' = "close" /\ late' = TRUE
          /\ UNCHANGED <<svc, cfg, at, opened, had, degraded, health, inflight>>
        BY <1>7 DEF ShutdownLate
    <2>2. ClosedLast'
        BY <1>t, <2>1 DEF ClosedLast
    <2> QED BY <1>t, <2>1, <2>2, RunKeeps DEF LifeTypeOK
<1>8. CASE Close
    <2>1. /\ phase = "close" /\ phase' \in {"close", "ended"} /\ opened' \subseteq opened
          /\ phase' = "ended" => opened' = opened /\ Deferred = {}
          /\ UNCHANGED <<svc, cfg, at, had, degraded, health, inflight, late>>
        BY <1>8 DEF Close
    <2>2. ClosedLast'
        BY <1>t, <2>1, ProfileKept DEF ClosedLast, Deferred
    <2> QED BY <1>t, <2>1, <2>2, RunKeeps DEF LifeTypeOK
<1>9. CASE Accept
    <2>1. /\ "serve" \in opened /\ phase \in {"start", "run"} /\ inflight' = inflight + 1
          /\ UNCHANGED <<svc, cfg, phase, at, opened, had, degraded, health, late>>
        BY <1>9 DEF Accept
    <2>2. ClosedLast'
        BY <1>t, <2>1, ProfileKept DEF ClosedLast, LifeTypeOK, Used
    <2> QED BY <1>t, <2>1, <2>2, RunKeeps DEF LifeTypeOK, HealthTold
<1>10. ASSUME NEW ok \in BOOLEAN, RequestEnds(ok) PROVE LifeInv'
    <2>1. /\ inflight > 0 /\ inflight' = inflight - 1
          /\ UNCHANGED <<svc, cfg, phase, at, opened, had, degraded, health, late>>
        BY <1>10 DEF RequestEnds
    <2>2. ClosedLast' /\ inflight' \in Nat
        BY <1>t, <2>1, ProfileKept DEF ClosedLast, LifeTypeOK, Used
    <2> QED BY <1>t, <2>1, <2>2, RunKeeps DEF LifeTypeOK, HealthTold
<1>11. CASE ServeFails
    <2>1. /\ phase = "run" /\ phase' \in {"run", "close"} /\ opened' = opened \ {"serve"} /\ inflight' = 0
          /\ UNCHANGED <<svc, cfg, at, had, degraded, health, late>>
        BY <1>11 DEF ServeFails
    <2>2. ClosedLast'
        BY <1>t, <2>1 DEF ClosedLast, Used, Connections
    <2> QED BY <1>t, <2>1, <2>2, RunKeeps DEF LifeTypeOK
<1>12. CASE Sigterm
    <2>1. /\ Alive /\ phase' \in {phase, "killed"}
          /\ UNCHANGED <<svc, cfg, at, opened, had, degraded, health, inflight, late>>
        BY <1>12 DEF Sigterm
    <2>2. ClosedLast'
        BY <1>t, <2>1, ProfileKept DEF ClosedLast, Used
    <2> QED BY <1>t, <2>1, <2>2, RunKeeps DEF LifeTypeOK, HealthTold
<1>13. CASE ManagerEnds
    <2>1. /\ Alive /\ (\E m \in {"informer", "controller"} : opened' = opened \ {m})
          /\ UNCHANGED <<svc, cfg, phase, at, had, degraded, health, inflight, late>>
        BY <1>13 DEF ManagerEnds
    <2>2. ClosedLast'
        BY <1>t, <2>1 DEF ClosedLast, Used, Connections, Alive
    <2> QED BY <1>t, <2>1, <2>2, RunKeeps DEF LifeTypeOK, HealthTold
<1>14. CASE GrowsStale \/ PeersChange \/ UNCHANGED lifeVars
    <2>1. UNCHANGED <<svc, cfg, phase, at, opened, had, degraded, health, inflight, late>>
        BY <1>14 DEF GrowsStale, PeersChange, lifeVars
    <2>2. ClosedLast'
        BY <1>t, <2>1, ProfileKept DEF ClosedLast, Used
    <2> QED BY <1>t, <2>1, <2>2, RunKeeps DEF LifeTypeOK, HealthTold
<1> QED BY <1>1, <1>2, <1>3, <1>4, <1>5, <1>6, <1>7, <1>8, <1>9, <1>10, <1>11, <1>12, <1>13, <1>14
        DEF LifeNext, ProcessStep

(* Requests in flight find what they use open until they end or the deadline  *)
(* of the drain has passed; traffic goes only to a process that has opened     *)
(* every connection its configuration does not leave out and, if it is an     *)
(* adapter, was given the fields its calls read; and a process that returns    *)
(* has closed what it opened: for every main, every configuration of it and   *)
(* any number of requests.                                                    *)
THEOREM ProcessServes == LifeSpec => []ServesWhatIsOpen
<1>1. LifeInit => LifeInv
    <2> SUFFICES ASSUME LifeInit PROVE LifeInv
        OBVIOUS
    <2>1. Sound(svc, profile.steps, profile.closes, profile.skips)
        BY ProfileSound DEF LifeInit
    <2>2. Len(profile.steps) \in Nat \ {0}
        BY <2>1 DEF Sound
    <2>3. \A x : ~Past(x)
        BY DEF Past, LifeInit
    <2>4. at \in 1..(Len(profile.steps) + 1) /\ at <= Len(profile.steps)
        BY <2>2 DEF LifeInit
    <2>5. LifeTypeOK
        BY <2>4 DEF LifeInit, LifeTypeOK
    <2>6. ClosedLast /\ HealthTold /\ PassedChecks /\ NeededOpened
        BY <2>3 DEF LifeInit, ClosedLast, HealthTold, PassedChecks, NeededOpened, Used
    <2> QED BY <2>5, <2>6 DEF LifeInv
<1> QED BY <1>1, LifeStep, LifeParts, PTL DEF LifeSpec

=============================================================================
