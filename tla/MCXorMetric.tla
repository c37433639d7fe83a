----------------------------- MODULE MCXorMetric -----------------------------
(***************************************************************************)
(* Checks the floodfill selections of XorMetric on every small input: a   *)
(* floodfill list, a target, a count, excluded and unreachable sets.  The  *)
(* steps let the excluded set grow one queried floodfill at a time, as a   *)
(* lookup's m_ExcludedPeers does, and clear it again (ClearExcludedPeers). *)
(***************************************************************************)
EXTENDS XorMetric

\* 3-bit identity hashes; a fixed permutation stands for the SHA-256 based
\* CreateRoutingKey.
MCIdentBits == 3
Idents == 0..(2^MCIdentBits - 1)
MCRoutingKey == [i \in Idents |-> (5 * i + 3) % 8]

FloodfillPool == {1, 2, 4, 7}
Targets == {0, 3, 5}
\* HandleDatabaseLookupMsg asks GetClosestFloodfills for 3.
Counts == {2, 3}
UnreachableChoices == {{}} \cup {{f} : f \in FloodfillPool}

VARIABLES dest, floodfills, num, unreachable, excluded, closest, closests
vars == <<dest, floodfills, num, unreachable, excluded, closest, closests>>

Init ==
  /\ dest \in Targets
  /\ floodfills \in SetToAllKPermutations(FloodfillPool)
  /\ num \in Counts
  /\ unreachable \in UnreachableChoices
  /\ excluded = {}
  /\ closest = GetClosestFloodfill(dest, floodfills, unreachable, excluded)
  /\ closests = GetClosestFloodfills(dest, num, floodfills, unreachable, excluded)

\* Query again with the excluded set x.
Requery(x) ==
  /\ excluded' = x
  /\ closest' = GetClosestFloodfill(dest, floodfills, unreachable, x)
  /\ closests' = GetClosestFloodfills(dest, num, floodfills, unreachable, x)
  /\ UNCHANGED <<dest, floodfills, num, unreachable>>

Exclude == \E f \in FloodfillPool \ excluded : Requery(excluded \cup {f})

ClearExcluded == excluded # {} /\ Requery({})

Next == Exclude \/ ClearExcluded

Spec == Init /\ [][Next]_vars

\* GetClosestFloodfill returns the eligible floodfill nearest to the routing
\* key of the target (the one every lookup and flood is sent to), and no
\* router only when none is eligible.
ClosestFloodfillIsNearest ==
  closest = NearestRef(dest, floodfills, unreachable, excluded)

\* GetClosestFloodfills returns at most num eligible floodfills, strictly
\* ascending by metric, each nearer than every eligible floodfill it leaves
\* out: the reply of HandleDatabaseLookupMsg never points further away than
\* a floodfill it omits.
ClosestFloodfillsSound ==
  LET key == RoutingKey[dest]
      e == Eligible(floodfills, unreachable, excluded)
  IN /\ Len(closests) <= num
     /\ IsSorted(closests, LAMBDA a, b : Metric(key, a) < Metric(key, b))
     /\ ToSet(closests) \subseteq e
     /\ \A r \in ToSet(closests), o \in e \ ToSet(closests) :
          Metric(key, r) < Metric(key, o)

=============================================================================
