------------------------------- MODULE MCNetDb -------------------------------
(***************************************************************************)
(* NetDb for TLC: three routers, all floodfills, one random hash for     *)
(* Explore, one caller thread, at most two attempts per lookup *)
(* and a timeout of three seconds after a retry delay of zero.             *)
(***************************************************************************)
EXTENDS NetDb

MCIdentBits == 3
MCIdents == {1, 2, 4}
MCFloodfillIdents == {1, 2, 4}
MCExploreKeys == {0}
\* Two floodfills, enough for a retry to pick a second one, for the
\* caller-thread question.
MCTwoIdents == {1, 2}
\* Two random hashes explored in one round, for the through_tunnels question.
TwoExploreKeys == {0, 5}
TwoExplorations == 2
\* A fixed permutation of the 3-bit hashes stands for CreateRoutingKey.
MCRoutingKey == [i \in 0..7 |-> (5 * i + 3) % 8]

\* The real timers keep MaxAttempts * (RetryDelay + 1) below RequestTimeout
\* (7 * 6 < 60); so do these.
MCRequestTimeout == 2
MCRetryDelay == 0
MCMaxAttempts == 2
MCExploreCount == 1
\* Objects alive before and after one step plus a caller's iterator.
MCGenMod == 4
\* A longer timeout and a third attempt, for the total-age question.
MCLongTimeout == 4
MCMoreAttempts == 3
MCMaxQueue == 1    \* m_Queue holds one message at a time
MCReachable == {1}

\* At most NetBound lookups in flight and RequestBound requests
\* outstanding at once.
NetBound == 1
RequestBound == 2
OneRequest == 1
NetConstraint ==
  /\ Cardinality(net) <= NetBound
  /\ Cardinality(DOMAIN requests) <= RequestBound

=============================================================================
