----------------------------- MODULE QuotaChecker -----------------------------
(***************************************************************************)
(* The execution-time quota gate of the engine-adapter: callers ask Check  *)
(* before they submit a capability invocation. The gate is built and       *)
(* tested, and nothing constructs it in the service yet.                   *)
(***************************************************************************)
EXTENDS Integers, Sequences, FiniteSets

CONSTANTS Callers,        \* workers that dispatch capabilities
          NamespaceOf,    \* the namespace a caller works for
          Quotas,         \* the configured quotas, in order: [namespace, maxConcurrent]
          HasCounter,     \* whether the gate was given a counter
          MaxQuotaFaults \* bound on errors of the counter

ASSUME QuotaAssumption ==
    /\ IsFiniteSet(Callers)
    /\ Len(Quotas) \in Nat /\ DOMAIN Quotas = 1 .. Len(Quotas)
    /\ \A i \in DOMAIN Quotas : Quotas[i].maxConcurrent \in Int
    /\ HasCounter \in BOOLEAN /\ MaxQuotaFaults \in Nat

VARIABLES caller,      \* of each caller: "idle", "admitted", "running", "refused"
          metered,     \* whether the count a caller was admitted on was read, and left nobody out
          quotaFaults  \* errors of the counter so far

quotaVars == <<caller, metered, quotaFaults>>

\* The last quota of a namespace counts; one without a namespace is dropped.
quotaConfigs(ns) ==
    {q \in {Quotas[i] : i \in DOMAIN Quotas} :
        /\ q.namespace = ns /\ ns # ""
        /\ \E i \in DOMAIN Quotas : Quotas[i] = q /\ \A j \in i+1..Len(Quotas) : Quotas[j].namespace # ns}

CallersIn(ns, s) == {c \in Callers : NamespaceOf[c] = ns /\ caller[c] = s}

\* The tasks the broker has in flight for the namespace.
ActiveCount(ns) == Cardinality(CallersIn(ns, "running"))

NewQuotaChecker ==
    /\ caller = [c \in Callers |-> "idle"]
    /\ metered = [c \in Callers |-> FALSE]
    /\ quotaFaults = 0

\* Mutant: the ceiling itself is taken for free.
ExceededAbove(active, q) == active > q.maxConcurrent

Exceeded(active, q) == active >= q.maxConcurrent

\* No counter, no quota, or a quota of zero: the dispatch is allowed.
Unbounded(ns) == ~HasCounter \/ \A q \in quotaConfigs(ns) : q.maxConcurrent = 0

Check(c) ==
    LET ns == NamespaceOf[c]
        refused == ~Unbounded(ns) /\ \E q \in quotaConfigs(ns) : Exceeded(ActiveCount(ns), q)
    IN  /\ caller[c] = "idle"
        /\ caller' = [caller EXCEPT ![c] = IF refused THEN "refused" ELSE "admitted"]
        /\ metered' = [metered EXCEPT ![c] = CallersIn(ns, "admitted") = {}]
        /\ UNCHANGED quotaFaults

\* An error of the counter admits the dispatch.
CounterFails(c) ==
    /\ caller[c] = "idle" /\ ~Unbounded(NamespaceOf[c])
    /\ quotaFaults < MaxQuotaFaults /\ quotaFaults' = quotaFaults + 1
    /\ caller' = [caller EXCEPT ![c] = "admitted"]
    /\ metered' = [metered EXCEPT ![c] = FALSE]

\* The broker takes the task.
Submitted(c) ==
    /\ caller[c] = "admitted"
    /\ caller' = [caller EXCEPT ![c] = "running"]
    /\ UNCHANGED <<metered, quotaFaults>>

\* The invocation has ended, or the refusal was reported: the worker is free.
InvocationEnds(c) ==
    /\ caller[c] \in {"running", "refused"}
    /\ caller' = [caller EXCEPT ![c] = "idle"]
    /\ metered' = [metered EXCEPT ![c] = FALSE]
    /\ UNCHANGED quotaFaults

QuotaNext == \E c \in Callers : Check(c) \/ CounterFails(c) \/ Submitted(c) \/ InvocationEnds(c)

QuotaSpec == NewQuotaChecker /\ [][QuotaNext]_quotaVars

-----------------------------------------------------------------------------
\* A namespace goes over its ceiling only with invocations that were admitted while
\* another one was between its check and its submission, or while the counter was
\* out: all others together stay within MaxConcurrent. The quota in force is that
\* of the last configuration that names the namespace.
CeilingHolds ==
    \A i \in DOMAIN Quotas :
        LET q == Quotas[i]
            overridden == \E j \in i+1..Len(Quotas) : Quotas[j].namespace = q.namespace
            counted == {c \in Callers : /\ NamespaceOf[c] = q.namespace
                                        /\ caller[c] \in {"admitted", "running"} /\ metered[c]}
        IN  (HasCounter /\ q.namespace # "" /\ ~overridden /\ q.maxConcurrent > 0)
                => Cardinality(counted) <= q.maxConcurrent

=============================================================================
