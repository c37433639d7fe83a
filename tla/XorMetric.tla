------------------------------ MODULE XorMetric ------------------------------
(***************************************************************************)
(* Kademlia-style peer selection of the network database                  *)
(* (src/core/router/identity.h, src/core/router/net_db/impl.cc).           *)
(*                                                                         *)
(* An identity hash is a W-bit number.  XORMetric compares the 32 bytes of *)
(* dest_key ^ ident with memcmp, i.e. as a big-endian number, so the       *)
(* metric is the number (RoutingKey[dest] XOR ident) compared with <.       *)
(* The floodfill list m_Floodfills is a sequence in push_back order.       *)
(***************************************************************************)
EXTENDS Integers, FiniteSets, Sequences, Bitwise, SequencesExt

CONSTANTS
  IdentBits,     \* width of an identity hash (256 in the code)
  RoutingKey,    \* CreateRoutingKey: identity hash -> routing key
  NoRouter       \* the null shared_ptr returned when nothing qualifies

\* min_metric.SetMax(): all bytes 0xFF.
MaxMetric == 2^IdentBits - 1

\* dest_key ^ ident (identity.h XORMetric, operator^), tabulated once over
\* all pairs of hashes.
XorTable == [a \in 0..MaxMetric |-> [b \in 0..MaxMetric |-> a ^^ b]]
Metric(key, ident) == XorTable[key][ident]

\* GetClosestFloodfill: one pass over the list from min_metric = SetMax(),
\* keeping a strictly smaller metric; unreachable and excluded floodfills
\* are skipped.  A floodfill at metric MaxMetric is never selected.
RECURSIVE ScanClosest(_, _, _, _, _, _)

\* Mutant: the scan forgets to skip excluded floodfills.
ScanClosestNoExclude(key, list, unreachable, excluded, best, minMetric) ==
  IF list = <<>> THEN best
  ELSE LET f == Head(list)
       IN IF f \notin unreachable /\ Metric(key, f) < minMetric
          THEN ScanClosest(key, Tail(list), unreachable, excluded, f, Metric(key, f))
          ELSE ScanClosest(key, Tail(list), unreachable, excluded, best, minMetric)

ScanClosest(key, list, unreachable, excluded, best, minMetric) ==
  IF list = <<>> THEN best
  ELSE LET f == Head(list)
           better == /\ f \notin unreachable
                     /\ Metric(key, f) < minMetric
                     /\ f \notin excluded
       IN IF better
          THEN ScanClosest(key, Tail(list), unreachable, excluded, f, Metric(key, f))
          ELSE ScanClosest(key, Tail(list), unreachable, excluded, best, minMetric)

GetClosestFloodfill(dest, floodfills, unreachable, excluded) ==
  ScanClosest(RoutingKey[dest], floodfills, unreachable, excluded,
              NoRouter, MaxMetric)

\* GetClosestNonFloodfill: the same pass over the RouterInfo table, given as
\* the sequence of its routers without the floodfill cap in key order.  It
\* does not test IsUnreachable.
GetClosestNonFloodfill(dest, nonFloodfills, excluded) ==
  ScanClosest(RoutingKey[dest], nonFloodfills, {}, excluded, NoRouter, MaxMetric)

\* The element of a non-empty set s with the largest metric to key
\* (sorted.rbegin() of the std::set ordered by metric).
Worst(key, s) == CHOOSE w \in s : \A v \in s : Metric(key, v) <= Metric(key, w)

\* The scan of GetClosestFloodfills: keep at most num floodfills, evicting
\* the worst one when a closer floodfill is found.
RECURSIVE ScanSorted(_, _, _, _, _)

\* Mutant: sorted.size() <= num, one floodfill too many is kept.
ScanSortedOffByOne(key, num, list, unreachable, sorted) ==
  IF list = <<>> THEN sorted
  ELSE LET f == Head(list)
           next ==
             IF f \in unreachable THEN sorted
             ELSE IF Cardinality(sorted) <= num THEN sorted \cup {f}
             ELSE IF Metric(key, f) < Metric(key, Worst(key, sorted))
                  THEN (sorted \cup {f}) \ {Worst(key, sorted)}
                  ELSE sorted
       IN ScanSorted(key, num, Tail(list), unreachable, next)

ScanSorted(key, num, list, unreachable, sorted) ==
  IF list = <<>> THEN sorted
  ELSE LET f == Head(list)
           next ==
             IF f \in unreachable THEN sorted
             ELSE IF Cardinality(sorted) < num THEN sorted \cup {f}
             ELSE IF Metric(key, f) < Metric(key, Worst(key, sorted))
                  THEN (sorted \cup {f}) \ {Worst(key, sorted)}
                  ELSE sorted
       IN ScanSorted(key, num, Tail(list), unreachable, next)

\* A set as the sequence ascending by metric to key (the iteration order of
\* the std::set ordered by XORMetric).  XOR with one key is injective, so
\* the n-th element is the one with n-1 smaller metrics.
Ascending(key, s) ==
  [n \in 1..Cardinality(s) |->
     CHOOSE x \in s : Cardinality({y \in s : Metric(key, y) < Metric(key, x)}) = n - 1]

\* GetClosestFloodfills: the excluded set is applied to the num kept
\* floodfills, after the scan.
GetClosestFloodfills(dest, num, floodfills, unreachable, excluded) ==
  LET key == RoutingKey[dest]
  IN SelectSeq(Ascending(key, ScanSorted(key, num, floodfills, unreachable, {})),
               LAMBDA f : f \notin excluded)

\* The flood of HandleDatabaseStoreMsg: three rounds of GetClosestFloodfill
\* with a local excluded set that no round inserts into; the message goes
\* to every floodfill the rounds return.
FloodTargets(dest, floodfills, unreachable) ==
  LET excluded == {}
      pick == GetClosestFloodfill(dest, floodfills, unreachable, excluded)
  IN IF pick = NoRouter THEN <<>> ELSE [i \in 1..3 |-> pick]

-----------------------------------------------------------------------------
(* Reference definitions: what a Kademlia lookup asks for.                 *)

\* Floodfills a selection may return.
Eligible(floodfills, unreachable, excluded) ==
  {f \in ToSet(floodfills) : f \notin unreachable \cup excluded}

\* The nearest eligible floodfill, or NoRouter.  A floodfill whose metric is
\* all ones (probability 2^-256 for real hashes) does not count as eligible.
NearestRef(dest, floodfills, unreachable, excluded) ==
  LET key == RoutingKey[dest]
      e == {f \in Eligible(floodfills, unreachable, excluded) :
              Metric(key, f) < MaxMetric}
  IN IF e = {} THEN NoRouter
     ELSE CHOOSE f \in e : \A g \in e : Metric(key, f) <= Metric(key, g)

\* The n nearest floodfills GetClosestFloodfill could return, as a set.
NearestSet(dest, n, floodfills, unreachable) ==
  LET key == RoutingKey[dest]
      asc == Ascending(key, {f \in Eligible(floodfills, unreachable, {}) :
                               Metric(key, f) < MaxMetric})
  IN ToSet(SubSeq(asc, 1, IF Len(asc) < n THEN Len(asc) ELSE n))
=============================================================================
