----------------------------- MODULE MCNetDbStore -----------------------------
(***************************************************************************)
(* NetDbStore with three routers in a 3-bit identity space, one of them   *)
(* using introducers, one LeaseSet, and grace periods of one and two       *)
(* expirations, so that every branch of SaveUpdated's age rule is taken.   *)
(***************************************************************************)
EXTENDS NetDbStore

MCIdentBits == 3
MCRoutingKey == [i \in 0..(2^MCIdentBits - 1) |-> (5 * i + 3) % 8]
MCIdents == {1, 2}
MCLeaseSetKeys == {6}
MCIntroducerIdents == {2}

\* Entries orphaned in m_Floodfills are never removed, so the list can grow
\* without end; the search stops at this length.
MaxListLen == 2
ListBound == Len(floodfills) <= MaxListLen
====
