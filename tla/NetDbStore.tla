------------------------------ MODULE NetDbStore ------------------------------
(***************************************************************************)
(* The tables of the network database and the handlers that change them    *)
(* (src/core/router/net_db/impl.cc): m_RouterInfos, the floodfill list     *)
(* m_Floodfills, the RouterInfo files of the netDb directory, m_LeaseSets; *)
(* AddRouterInfo, AddLeaseSet, SetUnreachable, the save timer              *)
(* (SaveUpdated then ManageLeaseSets), Stop and Start (Load), Publish and  *)
(* the DatabaseLookup responder.                                           *)
(*                                                                         *)
(* A RouterInfo object is abstracted to its floodfill cap, whether it uses *)
(* introducers, its age (time since its timestamp, in RouterExpiration     *)
(* units, saturated at MaxAge), and its IsUpdated / IsUnreachable flags.   *)
(* m_Floodfills holds shared_ptrs: an entry is [id, live], where live is   *)
(* FALSE once the object it points to has been erased from m_RouterInfos. *)
(***************************************************************************)
EXTENDS XorMetric

CONSTANTS
  Idents,          \* identity hashes of the routers we may hear of
  LeaseSetKeys,    \* destination hashes of LeaseSets
  Me,              \* context.GetRouterInfo().GetIdentHash()
  IntroducerIdents,\* routers whose RouterInfo lists introducers
  WeAreFloodfill,  \* context.IsFloodfill()
  MaxAge,          \* ages beyond this behave alike
  RouterMinGracePeriod, RouterMaxGracePeriod,   \* Time::, in expirations
  RouterUnreachableThreshold, MaxRouterUnreachable, MinRouterUnreachable,
  MaxExcludedPeers,\* Size::MaxExcludedPeers
  SizeBits         \* width of std::size_t

VARIABLES
  routers,    \* m_RouterInfos: ident -> RouterInfo
  floodfills, \* m_Floodfills: sequence of entries
  disk,       \* RouterInfo files: ident -> [ff, age] of the saved copy
  leasesets,  \* m_LeaseSets: key -> has it no non-expired lease left
  running,    \* m_IsRunning
  started,    \* the startup period (RouterStartupPeriod) has passed
  armed       \* last_save # 0: the save timer has fired once
vars == <<routers, floodfills, disk, leasesets, running, started, armed>>

None == [kind |-> "none"]
Types == {"exploratory", "routerinfo", "leaseset", "normal"}

RouterRec == [ff : BOOLEAN, age : 0..MaxAge, updated : BOOLEAN, unreachable : BOOLEAN]
Entry == [id : Idents, live : BOOLEAN]

\* size_t arithmetic: total-- wraps at zero.
SizeT == 2^SizeBits
Dec(t) == (t + SizeT - 1) % SizeT

\* Expiry tests of SaveUpdated and Load: ts > timestamp + k * RouterExpiration.
Expired(r, k) == r.age > k

\* FindRouter / FindLeaseSet.
FindRouter(i) == i \in DOMAIN routers
FindLeaseSet(k) == k \in DOMAIN leasesets

\* The iteration order of std::map<IdentHash, ...>: ascending hash.
KeyOrder(S) == [n \in 1..Cardinality(S) |->
                  CHOOSE x \in S : Cardinality({y \in S : y < x}) = n - 1]

Unreachables == {i \in DOMAIN routers : routers[i].unreachable}
NonFloodfills == {i \in DOMAIN routers : ~routers[i].ff}
\* m_RouterInfos restricted to routers without the floodfill cap.
NonFloodfillSeq == KeyOrder(NonFloodfills)
\* The identities the list entries point to that are still in the table;
\* an erased object is unreachable, so GetClosestFloodfill(s) skip it.
LiveFloodfills == [n \in 1..Len(SelectSeq(floodfills, LAMBDA e : e.live)) |->
                     SelectSeq(floodfills, LAMBDA e : e.live)[n].id]

\* m_Floodfills.remove(it.second): every entry pointing to that object.
RemoveObject(list, i) == SelectSeq(list, LAMBDA e : ~(e.id = i /\ e.live))
\* Entries pointing to the erased objects lose their object.
Orphan(list, gone) == [n \in 1..Len(list) |->
                         IF list[n].id \in gone THEN [list[n] EXCEPT !.live = FALSE]
                         ELSE list[n]]

-----------------------------------------------------------------------------
(* AddRouterInfo, reached from HandleDatabaseStoreMsg for a RouterInfo     *)
(* that passed the size checks and gunzip.  A known router is Update()d:   *)
(* a newer RouterInfo (ours always has age 0) replaces its contents,       *)
(* caps included, and marks it updated; its m_Floodfills membership is not *)
(* touched.  A new router is inserted and, with the floodfill cap, pushed  *)
(* to m_Floodfills.                                                        *)
AddRouterInfo(i, ff) ==
  /\ running
  /\ IF FindRouter(i)
       THEN /\ routers' = IF routers[i].age > 0
                          THEN [routers EXCEPT ![i] = [@ EXCEPT !.ff = ff, !.age = 0,
                                                                !.updated = TRUE]]
                          ELSE routers
            /\ UNCHANGED floodfills
       ELSE /\ routers' = routers @@ (i :> [ff |-> ff, age |-> 0, updated |-> TRUE,
                                             unreachable |-> FALSE])
            /\ floodfills' = IF ff THEN Append(floodfills, [id |-> i, live |-> TRUE])
                             ELSE floodfills
  /\ UNCHANGED <<disk, leasesets, running, started, armed>>

\* AddLeaseSet: only a LeaseSet that was not received through a tunnel is
\* stored; an update that fails validation erases the entry, an invalid new
\* one is dropped.
AddLeaseSet(k, valid, fromTunnel) ==
  /\ running
  /\ leasesets' =
       IF fromTunnel THEN leasesets
       ELSE IF FindLeaseSet(k)
            THEN IF valid THEN [leasesets EXCEPT ![k] = FALSE]
                 ELSE [j \in DOMAIN leasesets \ {k} |-> leasesets[j]]
            ELSE IF valid THEN leasesets @@ (k :> FALSE) ELSE leasesets
  /\ UNCHANGED <<routers, floodfills, disk, running, started, armed>>

\* NetDb::SetUnreachable, called by the transports.
SetUnreachable(i, u) ==
  /\ running
  /\ FindRouter(i)
  /\ routers' = [routers EXCEPT ![i].unreachable = u]
  /\ UNCHANGED <<floodfills, disk, leasesets, running, started, armed>>

-----------------------------------------------------------------------------
(* SaveUpdated: one pass over m_RouterInfos in key order.  An updated      *)
(* router is saved and made reachable again.  Any other router expires if  *)
(* it uses introducers, or, with more than RouterUnreachableThreshold      *)
(* routers counted and the startup period over, by the age rule that       *)
(* total selects, each decrementing total; an unreachable router then     *)
(* decrements total once more, has its file removed and is taken off the   *)
(* floodfill list if it has the floodfill cap.  Unreachable routers leave  *)
(* the table only if some file was removed.                                *)

\* The age rule of the eviction branch, selected by the running total.
AgeRule(r, total) ==
  IF WeAreFloodfill THEN Expired(r, 1)
  ELSE IF total > MaxRouterUnreachable THEN Expired(r, RouterMinGracePeriod)
  ELSE IF total > MinRouterUnreachable THEN Expired(r, RouterMaxGracePeriod)
  ELSE FALSE

\* SaveToFile: the file holds the RouterInfo itself (caps, timestamp).
SavedCopy(r) == [ff |-> r.ff, age |-> r.age]

\* One iteration of the loop on router i.  SaveToFile fails for the routers
\* in failed (the disk is full, the directory unwritable): its result is
\* ignored, the file stays as it was, and the flags are cleared and the
\* buffer deleted all the same.
SaveOne(st, i, failed) ==
  LET r == st.routers[i]
  IN IF r.updated
     THEN [st EXCEPT !.disk = IF i \in failed THEN @ ELSE (i :> SavedCopy(r)) @@ @,
                     !.routers[i] = [r EXCEPT !.updated = FALSE, !.unreachable = FALSE]]
     ELSE LET intro == i \in IntroducerIdents /\ Expired(r, 1)
              byAge == /\ ~intro
                       /\ st.total > RouterUnreachableThreshold /\ started
                       /\ AgeRule(r, st.total)
              u == r.unreachable \/ intro \/ byAge
              t1 == IF byAge THEN Dec(st.total) ELSE st.total
          IN IF ~u THEN st
             ELSE [st EXCEPT !.routers[i].unreachable = TRUE,
                             !.total = Dec(t1),
                             !.deleted = IF i \in DOMAIN st.disk THEN @ + 1 ELSE @,
                             !.disk = [j \in DOMAIN @ \ {i} |-> @[j]],
                             !.floodfills = IF r.ff THEN RemoveObject(@, i) ELSE @]

RECURSIVE SaveLoop(_, _, _)
SaveLoop(st, order, failed) ==
  IF order = <<>> THEN st
  ELSE SaveLoop(SaveOne(st, Head(order), failed), Tail(order), failed)

\* if (deleted_count): erase the unreachable routers from m_RouterInfos.
SaveEnd(st) ==
  IF st.deleted = 0 THEN st
  ELSE LET gone == {i \in DOMAIN st.routers : st.routers[i].unreachable}
       IN [st EXCEPT !.routers = [i \in DOMAIN @ \ gone |-> @[i]],
                     !.floodfills = Orphan(@, gone)]

SaveUpdated(failed) ==
  SaveEnd(SaveLoop([routers |-> routers, floodfills |-> floodfills, disk |-> disk,
                    total |-> Cardinality(DOMAIN routers), deleted |-> 0],
                   KeyOrder(DOMAIN routers), failed))

\* ManageLeaseSets: LeaseSets with no non-expired lease are erased.
ManageLeaseSets == [k \in {j \in DOMAIN leasesets : ~leasesets[j]} |-> leasesets[k]]

\* The save timer of Run: the first expiry only sets last_save.  The
\* routers whose SaveToFile fails are chosen among those saved for the first
\* time (no file yet); a failed rewrite of an existing file, which leaves an
\* older copy behind, is not tried, to keep the state space small.
SaveTimer ==
  /\ running
  /\ IF armed
       THEN \E failed \in SUBSET {i \in DOMAIN routers : routers[i].updated /\ i \notin DOMAIN disk} :
            LET st == SaveUpdated(failed)
            IN /\ routers' = st.routers
               /\ floodfills' = st.floodfills
               /\ disk' = st.disk
               /\ leasesets' = ManageLeaseSets
       ELSE UNCHANGED <<routers, floodfills, disk, leasesets>>
  /\ armed' = TRUE
  /\ UNCHANGED <<running, started>>

-----------------------------------------------------------------------------
(* Stop and Start.  Stop saves the profiles only and clears the tables;    *)
(* RouterInfos not yet written by SaveUpdated are lost.  The next process  *)
(* starts with a new startup period and a fresh last_save.  Load reads     *)
(* every file: a router that uses introducers and is past                  *)
(* RouterExpiration has its file removed, every other one is inserted      *)
(* (not updated, buffer deleted) and, with the floodfill cap, pushed to     *)
(* m_Floodfills in directory order.                                        *)
Stop ==
  /\ running
  /\ routers' = <<>>
  /\ floodfills' = <<>>
  /\ leasesets' = <<>>
  /\ running' = FALSE
  /\ started' = FALSE
  /\ armed' = FALSE
  /\ UNCHANGED disk

Load ==
  LET kept == {i \in DOMAIN disk : ~(i \in IntroducerIdents /\ Expired(disk[i], 1))}
  IN /\ routers' = [i \in kept |-> [ff |-> disk[i].ff, age |-> disk[i].age,
                                     updated |-> FALSE, unreachable |-> FALSE]]
     /\ disk' = [i \in kept |-> disk[i]]
     /\ LET order == KeyOrder({i \in kept : disk[i].ff})
        IN floodfills' = [n \in 1..Len(order) |-> [id |-> order[n], live |-> TRUE]]

Start ==
  /\ ~running
  /\ Load
  /\ running' = TRUE
  /\ UNCHANGED <<leasesets, started, armed>>

-----------------------------------------------------------------------------
(* Publish: two rounds of GetClosestFloodfill to our own identity, each    *)
(* pick inserted into the excluded set; our RouterInfo goes to each pick.  *)

\* Mutant: the pick is not inserted into excluded.
PublishTargetsNoExclude(list, unreachable) ==
  LET p1 == GetClosestFloodfill(Me, list, unreachable, {})
      p2 == GetClosestFloodfill(Me, list, unreachable, {})
  IN SelectSeq(<<p1, p2>>, LAMBDA f : f # NoRouter)

PublishTargets(list, unreachable) ==
  LET p1 == GetClosestFloodfill(Me, list, unreachable, {})
      p2 == GetClosestFloodfill(Me, list, unreachable, {p1} \ {NoRouter})
  IN SelectSeq(<<p1, p2>>, LAMBDA f : f # NoRouter)

\* Publish changes no table: it is the message it sends.
Publish == [kind |-> "publish", to |-> PublishTargets(LiveFloodfills, Unreachables)]

-----------------------------------------------------------------------------
(* HandleDatabaseLookupMsg.  An excluded list longer than MaxExcludedPeers *)
(* is ignored (num_excluded = 0).  An exploratory lookup is answered with  *)
(* up to three non-floodfill routers, picked one round at a time with the  *)
(* excluded set growing.  Otherwise a known RouterInfo whose buffer can be *)
(* loaded (held since the last update, or read back from its file) or a    *)
(* known LeaseSet is sent back in a DatabaseStore, and failing that a      *)
(* search reply names GetClosestFloodfills(key, 3, excluded).  The reply   *)
(* tunnel, garlic wrapping and transport are left out.  The handler       *)
(* changes no table, so it is the reply it sends for a message.           *)

RECURSIVE ExploreRoundsNoExclude(_, _, _, _)
\* Mutant: a round's pick is not added to excluded_routers.
ExploreRoundsNoExclude(key, nonFF, excl, n) ==
  IF n = 0 THEN <<>>
  ELSE LET r == GetClosestNonFloodfill(key, nonFF, excl)
       IN IF r = NoRouter THEN ExploreRoundsNoExclude(key, nonFF, excl, n - 1)
          ELSE <<r>> \o ExploreRoundsNoExclude(key, nonFF, excl, n - 1)

RECURSIVE ExploreRounds(_, _, _, _)
ExploreRounds(key, nonFF, excl, n) ==
  IF n = 0 THEN <<>>
  ELSE LET r == GetClosestNonFloodfill(key, nonFF, excl)
       IN IF r = NoRouter THEN ExploreRounds(key, nonFF, excl, n - 1)
          ELSE <<r>> \o ExploreRounds(key, nonFF, excl \cup {r}, n - 1)

\* LoadBuffer / GetBuffer succeed.
HasBuffer(i) == routers[i].updated \/ i \in DOMAIN disk

HandleDatabaseLookupMsg(key, type, excluded) ==
  LET excl == IF Cardinality(excluded) > MaxExcludedPeers THEN {} ELSE excluded
      ri == type \in {"routerinfo", "normal"} /\ FindRouter(key) /\ HasBuffer(key)
      ls == type \in {"leaseset", "normal"} /\ FindLeaseSet(key)
  IN    IF key = 0 THEN None
          ELSE IF type = "exploratory"
          THEN [kind |-> "search", type |-> type, key |-> key, excluded |-> excl,
                peers |-> ExploreRounds(key, NonFloodfillSeq, excl, 3)]
          ELSE IF ri \/ ls THEN [kind |-> "store", type |-> type, key |-> key]
          ELSE [kind |-> "search", type |-> type, key |-> key, excluded |-> excl,
                peers |-> GetClosestFloodfills(key, 3, LiveFloodfills, Unreachables, excl)]

-----------------------------------------------------------------------------
(* The environment: time passes for every RouterInfo in memory and on      *)
(* disk, leases expire, and the startup period ends.                       *)
Older(r) == [r EXCEPT !.age = IF @ < MaxAge THEN @ + 1 ELSE @]

Tick ==
  /\ routers' = [i \in DOMAIN routers |-> Older(routers[i])]
  /\ disk' = [i \in DOMAIN disk |-> Older(disk[i])]
  /\ UNCHANGED <<floodfills, leasesets, running, started, armed>>

LeaseSetExpires(k) ==
  /\ FindLeaseSet(k)
  /\ leasesets' = [leasesets EXCEPT ![k] = TRUE]
  /\ UNCHANGED <<routers, floodfills, disk, running, started, armed>>

StartupOver ==
  /\ running /\ ~started
  /\ started' = TRUE
  /\ UNCHANGED <<routers, floodfills, disk, leasesets, running, armed>>

\* A fresh install: no files, the NetDb not yet started.
Init ==
  /\ routers = <<>>
  /\ floodfills = <<>>
  /\ disk = <<>>
  /\ leasesets = <<>>
  /\ running = FALSE
  /\ started = FALSE
  /\ armed = FALSE

LookupKeys == {0} \cup Idents \cup LeaseSetKeys
ExcludedLists == {{}} \cup {{i} : i \in Idents} \cup {Idents}

Next ==
  \/ \E i \in Idents, ff \in BOOLEAN : AddRouterInfo(i, ff)
  \/ \E k \in LeaseSetKeys, valid, fromTunnel \in BOOLEAN : AddLeaseSet(k, valid, fromTunnel)
  \/ \E i \in Idents, u \in BOOLEAN : SetUnreachable(i, u)
  \/ SaveTimer
  \/ Stop
  \/ Start
  \/ Tick
  \/ \E k \in LeaseSetKeys : LeaseSetExpires(k)
  \/ StartupOver

Spec == Init /\ [][Next]_vars

-----------------------------------------------------------------------------
(* Properties                                                              *)

TypeOK ==
  /\ DOMAIN routers \subseteq Idents /\ \A i \in DOMAIN routers : routers[i] \in RouterRec
  /\ \A n \in 1..Len(floodfills) : floodfills[n] \in Entry
  /\ DOMAIN disk \subseteq Idents
  /\ \A i \in DOMAIN disk : disk[i] \in [ff : BOOLEAN, age : 0..MaxAge]
  /\ DOMAIN leasesets \subseteq LeaseSetKeys
  /\ \A k \in DOMAIN leasesets : leasesets[k] \in BOOLEAN
  /\ {running, started, armed} \subseteq BOOLEAN

\* The lookup responder can answer for every router it holds: each entry of
\* m_RouterInfos has its buffer in memory (updated since the last save) or
\* its file on disk for LoadBuffer.  SaveUpdated removes the files of
\* unreachable routers and erases them from the table only if a removal
\* succeeded; Load removes files without inserting the router.
RouterInfoRetrievable == \A i \in DOMAIN routers : HasBuffer(i)

\* An exploratory DatabaseLookup is answered with the (at most) three
\* routers without the floodfill cap nearest to the key, outside the
\* requester's excluded list, nearest first (the three rounds of
\* GetClosestNonFloodfill in HandleDatabaseLookupMsg).
ExploratoryReplyNearest ==
  \A k \in LookupKeys \ {0}, excluded \in ExcludedLists :
    LET reply == HandleDatabaseLookupMsg(k, "exploratory", excluded)
        key == RoutingKey[k]
        asc == Ascending(key, {i \in NonFloodfills \ reply.excluded :
                                 Metric(key, i) < MaxMetric})
    IN reply.peers = SubSeq(asc, 1, IF Len(asc) < 3 THEN Len(asc) ELSE 3)

\* Publish sends our RouterInfo to the two distinct reachable floodfills
\* nearest to our identity, or to all of them if there are fewer.
PublishToNearestTwo ==
  running =>
    /\ Len(Publish.to) = Cardinality(ToSet(Publish.to))
    /\ ToSet(Publish.to) = NearestSet(Me, 2, LiveFloodfills, Unreachables)

\* Every entry of m_Floodfills points to a router of m_RouterInfos: a
\* router leaves the list when SaveUpdated finds it unreachable, before the
\* table erases it.
FloodfillListInTable == \A n \in 1..Len(floodfills) : floodfills[n].live
=============================================================================
