---------------------------- MODULE TaskBrokerMC ----------------------------
(***************************************************************************)
(* Instances of TaskBroker for TLC.                                        *)
(***************************************************************************)
EXTENDS TaskBroker, TLC

CONSTANTS g1, g2, g3

\* Requests that target expert e1 while their payload carries the context slice
\* of e2, without and with a retry; and an untargeted one with a negative retry
\* budget.
ExpertRequest == [expert |-> "e1", slice |-> "e2", maxRetries |-> 0]
RetryRequest == [ExpertRequest EXCEPT !.maxRetries = 1]
FreeRequest == [expert |-> NoAgent, slice |-> NoAgent, maxRetries |-> -1]

OneRequest == {RetryRequest}
PlainRequest == {ExpertRequest}
MCRequests == {RetryRequest, FreeRequest}
BothRequests == {ExpertRequest, RetryRequest}

\* Each agent carries its own label; or e2 carries the label of e1 too.
OwnScope == [a \in Agents |-> a]
SharedScope == [a \in Agents |-> IF a = "e2" THEN "e1" ELSE a]

\* Goroutine slots are interchangeable.
ThreadSymmetry == Permutations(Threads)

=============================================================================
