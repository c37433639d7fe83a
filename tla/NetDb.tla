-------------------------------- MODULE NetDb --------------------------------
(***************************************************************************)
(* The network database worker and its request tracker                    *)
(* (src/core/router/net_db/impl.cc, src/core/router/net_db/requests.cc).   *)
(*                                                                         *)
(* One NetDb thread runs NetDb::Run: it handles the DatabaseStore and      *)
(* DatabaseSearchReply messages posted to m_Queue and fires the            *)
(* ManageRequests and Explore timers.  Other threads (Callers) call        *)
(* NetDb::RequestDestination directly; their RequestComplete runs in the   *)
(* three steps of the code: an unlocked find, the callback, a locked       *)
(* erase.  Floodfills answer lookups, lose them, or push unsolicited       *)
(* stores.  Time is the age of each request in seconds, saturated at       *)
(* RequestTimeout, the only bound the code compares it against.            *)
(***************************************************************************)
EXTENDS Integers, FiniteSets, Sequences, SequencesExt, XorMetric

CONSTANTS
  Idents,           \* identity hashes of routers (numbers, see XorMetric)
  FloodfillIdents,  \* routers whose RouterInfo has the floodfill cap
  ExploreKeys,      \* random hashes Explore may draw
  Callers,          \* threads other than the NetDb thread
  RequestTimeout,   \* "request is worthless after 1 minute" (60)
  RetryDelay,       \* "no response for 5 seconds" (5)
  MaxAttempts,      \* attempts / max_ff (7)
  ExploreCount,     \* exploratory_count passed to Explore
  GenMod,           \* request objects are numbered in 0..GenMod-1
  Reachable,        \* floodfills a transport session may be opened with
  TrackLife,        \* keep the history field life (only NoLookupAfterTimeout reads it)
  TrackSent,        \* keep the history field sent (the liveness run does not read it)
  MaxQueue          \* bound on m_Queue

ASSUME FloodfillIdents \subseteq Idents
ASSUME Reachable \subseteq FloodfillIdents
ASSUME ExploreKeys \cap Idents = {}
ASSUME RetryDelay + 1 < RequestTimeout

Keys == Idents \cup ExploreKeys

VARIABLES
  known,       \* identity hashes in m_RouterInfos
  floodfills,  \* m_Floodfills, in push_back order
  requests,    \* m_RequestedDestinations: key -> RequestedDestination
  queue,       \* m_Queue of I2NP messages for the NetDb thread
  net,         \* DatabaseLookup messages on their way to floodfills
  tunnels,     \* the exploratory pool has an outbound and an inbound tunnel
  connected,   \* transports.IsConnected
  owed,        \* objects whose completion callback has not been invoked
  pc,          \* step of each caller thread
  target,      \* destination a caller thread is requesting
  iter,        \* object the caller's RequestComplete found (its iterator)
  chosen       \* the floodfill a caller's GetClosestFloodfill returned

vars == <<known, floodfills, requests, queue, net, tunnels, connected,
          owed, pc, target, iter, chosen>>

\* A RequestedDestination: excluded = m_ExcludedPeers, age = now minus
\* m_CreationTime.  Its m_RequestComplete is set iff gen \in owed.  life
\* (age since the object was made) and sent (floodfills a lookup was really
\* sent to) are history, not state of the code.
Request == [gen : 0..(GenMod - 1), exploratory : BOOLEAN,
            excluded : SUBSET Idents, age : 0..RequestTimeout,
            life : 0..RequestTimeout, sent : Seq(Idents)]

Msg == [type : {"Store"}, key : Idents]
         \cup [type : {"SearchReply"}, key : Keys, peers : SUBSET Idents]

Lookup == [to : Idents, key : Keys]

Live(g) == \E k \in DOMAIN requests : requests[k].gen = g

Closest(k, excluded) == GetClosestFloodfill(k, floodfills, {}, excluded)

-----------------------------------------------------------------------------
(* The request tracker as operators on T = [requests, net, owed].          *)

Tracker == [requests |-> requests, net |-> net, owed |-> owed]

\* The number of a new RequestedDestination object: the least one that no
\* object of this step, before or after, and no caller's iterator holds, so
\* that objects are told apart as the code's pointers tell them apart.
UsedGens(t) ==
  {requests[k].gen : k \in DOMAIN requests} \cup {t.requests[k].gen : k \in DOMAIN t.requests}
    \cup {iter[c] : c \in {x \in Callers : pc[x] # "idle"}}
NewGen(t) ==
  LET free == (0..(GenMod - 1)) \ UsedGens(t)
  IN CHOOSE g \in free : \A h \in free : g <= h

\* Function f without key k.
Without(f, k) == [x \in DOMAIN f \ {k} |-> f[x]]

\* NetDbRequests::CreateRequest: a new object, inserted unless key k is
\* already requested.
CreateRequest(t, k, exploratory, cb) ==
  IF k \in DOMAIN t.requests THEN t
  ELSE [t EXCEPT
          !.requests = t.requests @@
             (k :> [gen |-> NewGen(t), exploratory |-> exploratory,
                    excluded |-> {}, age |-> 0, life |-> 0, sent |-> <<>>]),
          !.owed = IF cb THEN @ \cup {NewGen(t)} ELSE @ \ {NewGen(t)}]

\* Mutant: the floodfill is not inserted into m_ExcludedPeers.
ExcludingNoInsert(r, f) == [r EXCEPT !.age = 0]

\* CreateRequestMessage(floodfill): the floodfill joins m_ExcludedPeers and
\* m_CreationTime is reset to now.
Excluding(r, f) == [r EXCEPT !.excluded = @ \cup {f}, !.age = 0]

\* Record in the history that a lookup went to floodfill f.
Sent(s, f) == IF TrackSent THEN Append(s, f) ELSE s

\* The lookup of request k reaches the wire towards floodfill f.
Send(t, k, f) ==
  [t EXCEPT !.net = @ \cup {[to |-> f, key |-> k]},
            !.requests[k].sent = Sent(@, f)]

\* NetDbRequests::RequestComplete when its three steps run back to back:
\* the callback (Success or Fail) is invoked once and the entry erased.
RequestComplete(t, k) ==
  IF k \in DOMAIN t.requests
  THEN [t EXCEPT !.requests = Without(@, k), !.owed = @ \ {t.requests[k].gen}]
  ELSE t

\* Mutant: the if (floodfill) test is dropped.
RequestDestinationNoCheck(t, k) ==
  IF k \in DOMAIN t.requests THEN t
  ELSE LET t1 == CreateRequest(t, k, FALSE, FALSE)
           f == Closest(k, {})
       IN Send([t1 EXCEPT !.requests[k] = Excluding(@, f)], k, f)

\* NetDb::RequestDestination from the NetDb thread (no callback): look the
\* destination up directly at the closest floodfill, or complete it at once.
RequestDestination(t, k) ==
  IF k \in DOMAIN t.requests THEN t
  ELSE LET t1 == CreateRequest(t, k, FALSE, FALSE)
           f == Closest(k, {})
       IN IF f # NoRouter
          THEN Send([t1 EXCEPT !.requests[k] = Excluding(@, f)], k, f)
          ELSE RequestComplete(t1, k)

\* One iteration of NetDbRequests::ManageRequests for key k.  An entry it
\* erases is dropped without its callback.
ManageRequest(t, k) ==
  LET d == t.requests[k]
      f == Closest(k, d.excluded)
      erase == [t EXCEPT !.requests = Without(@, k)]
  IN IF d.age >= RequestTimeout THEN erase
     ELSE IF d.age <= RetryDelay THEN t
     ELSE IF ~d.exploratory /\ Cardinality(d.excluded) < MaxAttempts
          THEN IF f # NoRouter /\ tunnels
               THEN Send([t EXCEPT !.requests[k] = Excluding(@, f)], k, f)
               ELSE erase
          ELSE erase

RECURSIVE ManageAll(_, _)
ManageAll(t, ks) ==
  IF ks = {} THEN t
  ELSE LET k == CHOOSE x \in ks : TRUE
       IN ManageAll(ManageRequest(t, k), ks \ {k})

ManageRequests(t) == ManageAll(t, DOMAIN t.requests)

\* Assign the primed tracker variables from T.
SetTracker(t) ==
  /\ requests' = t.requests
  /\ net' = t.net
  /\ owed' = t.owed

\* NetDb::Explore(n) for the random hashes picks: one request each; lookups
\* go through the exploratory tunnels unless no tunnels exist or one of the
\* chosen floodfills is connected directly, in which case the rest go
\* direct.  The tunnel batch is sent only at the end, and only if
\* through_tunnels still holds and no CreateRequest failed.
RECURSIVE ExploreLoop(_, _)
ExploreLoop(e, picks) ==
  IF picks = <<>> \/ e.stop THEN e
  ELSE LET k == Head(picks)
           rest == Tail(picks)
       IN IF k \in DOMAIN e.t.requests
          THEN [e EXCEPT !.stop = TRUE]
          ELSE LET t1 == CreateRequest(e.t, k, TRUE, FALSE)
                   f == Closest(k, {})
               IN IF f # NoRouter /\ f \notin e.used
                  THEN LET through == e.through /\ f \notin connected
                           t2 == [t1 EXCEPT !.requests[k] = Excluding(@, f)]
                       IN IF through
                          THEN ExploreLoop([e EXCEPT !.t = t2, !.through = through,
                                              !.used = @ \cup {f},
                                              !.pending = @ \cup {<<k, f>>}], rest)
                          ELSE ExploreLoop([e EXCEPT !.t = Send(t2, k, f),
                                              !.through = through,
                                              !.used = @ \cup {f}], rest)
                  ELSE ExploreLoop([e EXCEPT !.t = RequestComplete(t1, k)], rest)

RECURSIVE SendAll(_, _)
SendAll(t, ps) ==
  IF ps = {} THEN t
  ELSE LET p == CHOOSE x \in ps : TRUE
       IN SendAll(Send(t, p[1], p[2]), ps \ {p})

Explore(t, picks) ==
  LET e == ExploreLoop([t |-> t, through |-> tunnels, used |-> {},
                        pending |-> {}, stop |-> FALSE], picks)
  IN IF ~e.stop /\ e.through THEN SendAll(e.t, e.pending) ELSE e.t

\* The peers loop of HandleDatabaseSearchReplyMsg: RequestDestination for
\* every peer in ps.
RECURSIVE RequestAll(_, _)
RequestAll(t, ps) ==
  IF ps = {} THEN t
  ELSE LET p == CHOOSE x \in ps : TRUE
       IN RequestAll(RequestDestination(t, p), ps \ {p})

\* The part of HandleDatabaseSearchReplyMsg that concerns the request for
\* key k when the reply lists peers.
SearchReplyRequest(t, k, peers) ==
  IF k \notin DOMAIN t.requests THEN t
  ELSE LET d == t.requests[k]
           f == Closest(k, d.excluded)
       IN IF /\ peers # {}
             /\ ~d.exploratory
             /\ tunnels
             /\ Cardinality(d.excluded) < MaxAttempts
             /\ f # NoRouter
          THEN Send([t EXCEPT !.requests[k] = Excluding(@, f)], k, f)
          ELSE RequestComplete(t, k)

-----------------------------------------------------------------------------
(* The NetDb thread.                                                       *)

\* HandleDatabaseStoreMsg for a RouterInfo, then AddRouterInfo: a new
\* router is added (to m_Floodfills too if it has the cap) and any request
\* for it completes.
HandleDatabaseStoreMsg ==
  LET m == Head(queue)
  IN /\ queue # <<>>
     /\ m.type = "Store"
     /\ queue' = Tail(queue)
     /\ known' = known \cup {m.key}
     /\ floodfills' = IF m.key \notin known /\ m.key \in FloodfillIdents
                      THEN Append(floodfills, m.key) ELSE floodfills
     /\ SetTracker(RequestComplete(Tracker, m.key))
     /\ UNCHANGED <<tunnels, connected, pc, target, iter, chosen>>

\* HandleDatabaseSearchReplyMsg: retry the request at the next floodfill
\* or complete it, then request every listed peer that is unknown or whose
\* RouterInfo is outdated.
HandleDatabaseSearchReplyMsg ==
  LET m == Head(queue)
  IN /\ queue # <<>>
     /\ m.type = "SearchReply"
     /\ \E outdated \in SUBSET (m.peers \cap known) :
          SetTracker(RequestAll(SearchReplyRequest(Tracker, m.key, m.peers),
                                (m.peers \ known) \cup outdated))
     /\ queue' = Tail(queue)
     /\ UNCHANGED <<known, floodfills, tunnels, connected, pc, target, iter, chosen>>

\* The manage-requests timer of NetDb::Run.
ManageRequestsTimer ==
  /\ SetTracker(ManageRequests(Tracker))
  /\ UNCHANGED <<known, floodfills, queue, tunnels, connected, pc, target, iter, chosen>>

\* The exploratory timer of NetDb::Run: ManageRequests, then Explore with
\* fresh random hashes.
ExploreTimer ==
  LET t == ManageRequests(Tracker)
      free == ExploreKeys \ DOMAIN t.requests
      n == IF ExploreCount < Cardinality(free) THEN ExploreCount
           ELSE Cardinality(free)
  IN /\ \E s \in kSubset(n, free) : \E picks \in SetToSeqs(s) :
          SetTracker(Explore(t, picks))
     /\ UNCHANGED <<known, floodfills, queue, tunnels, connected, pc, target, iter, chosen>>

\* One second passes.
Older(x) == IF x < RequestTimeout THEN x + 1 ELSE x

Tick ==
  /\ requests' = [k \in DOMAIN requests |->
                    [requests[k] EXCEPT !.age = Older(@),
                                        !.life = IF TrackLife THEN Older(@) ELSE @]]
  /\ UNCHANGED <<known, floodfills, queue, net, tunnels, connected,
                 owed, pc, target, iter, chosen>>

-----------------------------------------------------------------------------
(* Caller threads running NetDb::RequestDestination with a callback.       *)

\* The caller returns from NetDb::RequestDestination; its locals die.
NoTarget == CHOOSE k \in Idents : TRUE
Return(c) ==
  /\ pc' = [pc EXCEPT ![c] = "idle"]
  /\ target' = [target EXCEPT ![c] = NoTarget]
  /\ iter' = [iter EXCEPT ![c] = 0]

\* CreateRequest under m_RequestedDestinationsMutex; a duplicate returns.
CallerRequest(c) ==
  /\ pc[c] = "idle"
  /\ \E k \in Idents :
       IF k \in DOMAIN requests
       THEN UNCHANGED <<requests, net, owed, pc, target, iter>>
       ELSE /\ SetTracker(CreateRequest(Tracker, k, FALSE, TRUE))
            /\ target' = [target EXCEPT ![c] = k]
            /\ iter' = [iter EXCEPT ![c] = requests'[k].gen]
            /\ pc' = [pc EXCEPT ![c] = "lookup"]
  /\ UNCHANGED <<known, floodfills, queue, tunnels, connected, chosen>>

\* The object the caller created, if it is still in the map.
Mine(c) == target[c] \in DOMAIN requests /\ requests[target[c]].gen = iter[c]

\* GetClosestFloodfill(destination, dest->GetExcludedPeers()); without a
\* floodfill, RequestComplete.  The NetDb thread may run before the lookup
\* is sent.
CallerLookup(c) ==
  LET k == target[c]
      f == Closest(k, IF Mine(c) THEN requests[k].excluded ELSE {})
  IN /\ pc[c] = "lookup"
     /\ IF f # NoRouter
        THEN pc' = [pc EXCEPT ![c] = "send"] /\ chosen' = [chosen EXCEPT ![c] = f]
        ELSE pc' = [pc EXCEPT ![c] = "find"] /\ UNCHANGED chosen
     /\ UNCHANGED <<known, floodfills, requests, queue, net, tunnels, connected,
                    owed, target, iter>>

\* transports.SendMessage(floodfill, dest->CreateRequestMessage(floodfill)):
\* the floodfill picked in the previous step joins m_ExcludedPeers and the
\* lookup goes out directly.
CallerSend(c) ==
  LET k == target[c]
      f == chosen[c]
  IN /\ pc[c] = "send"
     /\ net' = net \cup {[to |-> f, key |-> k]}
     /\ requests' = IF Mine(c)
                    THEN [requests EXCEPT ![k] =
                            [Excluding(@, f) EXCEPT !.sent = Sent(@, f)]]
                    ELSE requests
     /\ Return(c)
     /\ chosen' = [chosen EXCEPT ![c] = NoTarget]
     /\ UNCHANGED <<known, floodfills, queue, tunnels, connected, owed>>

\* RequestComplete: m_RequestedDestinations.find(ident), without the lock.
CallerFind(c) ==
  LET k == target[c]
  IN /\ pc[c] = "find"
     /\ IF k \in DOMAIN requests
        THEN /\ iter' = [iter EXCEPT ![c] = requests[k].gen]
             /\ pc' = [pc EXCEPT ![c] = "fail"]
             /\ UNCHANGED target
        ELSE Return(c)
     /\ UNCHANGED <<known, floodfills, requests, queue, net, tunnels, connected,
                    owed, chosen>>

\* it->second->Fail(): invokes and clears m_RequestComplete.  Through an
\* iterator whose entry was erased meanwhile this is undefined; the model
\* lets it do nothing.
CallerFail(c) ==
  /\ pc[c] = "fail"
  /\ owed' = IF Mine(c) THEN owed \ {iter[c]} ELSE owed
  /\ pc' = [pc EXCEPT ![c] = "erase"]
  /\ UNCHANGED <<known, floodfills, requests, queue, net, tunnels, connected,
                 target, iter, chosen>>

\* m_RequestedDestinations.erase(it) under the lock.
CallerErase(c) ==
  /\ pc[c] = "erase"
  /\ requests' = IF Mine(c) THEN Without(requests, target[c]) ELSE requests
  /\ Return(c)
  /\ UNCHANGED <<known, floodfills, queue, net, tunnels, connected,
                 owed, chosen>>

-----------------------------------------------------------------------------
(* Floodfills and the environment.                                         *)

\* A floodfill answers a lookup with the RouterInfo or a search reply
\* listing at most one peer.
FloodfillAnswer ==
  /\ Len(queue) < MaxQueue
  /\ \E l \in net :
       /\ net' = net \ {l}
       /\ \/ l.key \in Idents /\ queue' = Append(queue, [type |-> "Store", key |-> l.key])
          \/ \E ps \in {{}} \cup {{p} : p \in Idents} :
               queue' = Append(queue, [type |-> "SearchReply", key |-> l.key, peers |-> ps])
  /\ UNCHANGED <<known, floodfills, requests, tunnels, connected,
                 owed, pc, target, iter, chosen>>

LookupLost ==
  /\ \E l \in net : net' = net \ {l}
  /\ UNCHANGED <<known, floodfills, requests, queue, tunnels, connected,
                 owed, pc, target, iter, chosen>>

\* A DatabaseStore nobody here asked for (a flood or a publish).
UnsolicitedStore ==
  /\ Len(queue) < MaxQueue
  /\ \E k \in Idents : queue' = Append(queue, [type |-> "Store", key |-> k])
  /\ UNCHANGED <<known, floodfills, requests, net, tunnels, connected,
                 owed, pc, target, iter, chosen>>

TunnelsChange ==
  /\ tunnels' = ~tunnels
  /\ UNCHANGED <<known, floodfills, requests, queue, net, connected,
                 owed, pc, target, iter, chosen>>

ConnectionChange ==
  /\ \E f \in Reachable :
       connected' = IF f \in connected THEN connected \ {f} ELSE connected \cup {f}
  /\ UNCHANGED <<known, floodfills, requests, queue, net, tunnels,
                 owed, pc, target, iter, chosen>>

-----------------------------------------------------------------------------

Init ==
  /\ known = {}
  /\ floodfills = <<>>
  /\ requests = <<>>
  /\ queue = <<>>
  /\ net = {}
  /\ tunnels \in BOOLEAN
  /\ connected = {}
  /\ owed = {}
  /\ pc = [c \in Callers |-> "idle"]
  /\ target = [c \in Callers |-> NoTarget]
  /\ iter = [c \in Callers |-> 0]
  /\ chosen = [c \in Callers |-> NoTarget]

NetDbThread ==
  \/ HandleDatabaseStoreMsg
  \/ HandleDatabaseSearchReplyMsg
  \/ ManageRequestsTimer
  \/ ExploreTimer

CallerThread(c) ==
  \/ CallerRequest(c)
  \/ CallerLookup(c)
  \/ CallerSend(c)
  \/ CallerFind(c)
  \/ CallerFail(c)
  \/ CallerErase(c)

Environment ==
  \/ FloodfillAnswer
  \/ LookupLost
  \/ UnsolicitedStore
  \/ TunnelsChange
  \/ ConnectionChange

Next ==
  \/ NetDbThread
  \/ \E c \in Callers : CallerThread(c)
  \/ Tick
  \/ Environment

\* The NetDb thread keeps draining m_Queue and firing its timers, time
\* passes, and caller threads are scheduled.  Floodfills owe nothing.
Fairness ==
  /\ WF_vars(HandleDatabaseStoreMsg)
  /\ WF_vars(HandleDatabaseSearchReplyMsg)
  /\ WF_vars(ManageRequestsTimer)
  /\ WF_vars(Tick)
  /\ \A c \in Callers : WF_vars(CallerLookup(c) \/ CallerSend(c) \/ CallerFind(c)
                                \/ CallerFail(c) \/ CallerErase(c))

Spec == Init /\ [][Next]_vars /\ Fairness

-----------------------------------------------------------------------------
(* Properties.                                                             *)

TypeOK ==
  /\ known \subseteq Idents
  /\ floodfills \in Seq(FloodfillIdents)
  /\ DOMAIN requests \subseteq Keys
  /\ \A k \in DOMAIN requests : requests[k] \in Request
  /\ queue \in Seq(Msg)
  /\ net \subseteq Lookup
  /\ tunnels \in BOOLEAN
  /\ connected \subseteq Reachable
  /\ owed \subseteq 0..(GenMod - 1)
  /\ pc \in [Callers -> {"idle", "lookup", "send", "find", "fail", "erase"}]
  /\ target \in [Callers -> Idents]
  /\ iter \in [Callers -> 0..(GenMod - 1)]
  /\ chosen \in [Callers -> Idents]

\* A request never sends its lookup to the same floodfill twice (spec.md):
\* every path that queries (RequestDestination, ManageRequests, the
\* search-reply retry, Explore) picks outside m_ExcludedPeers, but a caller's
\* RequestDestination reads the set before its CreateRequestMessage inserts.
NoFloodfillQueriedTwice ==
  \A k \in DOMAIN requests : IsInjective(requests[k].sent)

\* Every floodfill in m_ExcludedPeers was really sent a lookup: Explore
\* marks floodfills excluded for lookups that it may never send.
ExcludedWereQueried ==
  \A k \in DOMAIN requests : requests[k].excluded \subseteq ToSet(requests[k].sent)

\* A callback still owed belongs to an object still in the map: nothing
\* erases a request without invoking its m_RequestComplete.
CallbacksNotLost ==
  \A g \in owed : Live(g)

\* No lookup is sent for a request once RequestTimeout has passed since
\* its object was made ("request is worthless after 1 minute").
NoLookupAfterTimeout ==
  [][\A k \in DOMAIN requests \cap DOMAIN requests' :
       requests'[k].gen = requests[k].gen
       /\ Len(requests'[k].sent) > Len(requests[k].sent)
       => requests[k].life < RequestTimeout]_vars

\* RequestComplete's unlocked find is used only while its entry is still in
\* the map: Fail and erase never go through a dangling iterator.
IteratorNeverStale ==
  [][\A c \in Callers : pc[c] \in {"fail", "erase"} => Mine(c)]_vars

\* Every request object is eventually retired from m_RequestedDestinations
\* by ManageRequests, a reply or a caller, however the network behaves.
\* Time passes, so an object that stays reaches life = RequestTimeout; from
\* then on only its removal (or a new object for the key, which starts at
\* life 0) ends the wait.  Needs TrackLife.
RequestsRetire ==
  \A k \in Keys :
    (k \in DOMAIN requests /\ requests[k].life = RequestTimeout)
      ~> (k \notin DOMAIN requests \/ requests[k].life < RequestTimeout)

=============================================================================
