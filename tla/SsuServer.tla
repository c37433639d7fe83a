----------------------------- MODULE SsuServer -----------------------------
(***************************************************************************)
(* The SSU server of src/core/router/transports/ssu/server.cc: the table  *)
(* of sessions by remote endpoint, the relay tags, the list of introducers *)
(* kept while the router is firewalled, the peer-test table, the receive   *)
(* loop that posts batches of packets to the io_service, and the two      *)
(* timers.  A handler posted to the io_service runs as one step.  The     *)
(* session objects (handshake, ProcessNextMessage, FlushData, Introduce)  *)
(* and the router context are outside src/: a session is its state, its   *)
(* creation time and its relay tag, and what they do is a choice of the   *)
(* environment.  Time is whole seconds; a timer fires when its deadline   *)
(* is reached, and time does not pass an armed deadline.                   *)
(***************************************************************************)
EXTENDS Integers, Sequences, FiniteSets, TLC

CONSTANTS
  Endpoints,          \* remote UDP endpoints
  NoAddress,          \* a RouterInfo without an SSU address
  NoSession,          \* the null shared_ptr<SSUSession>
  Routers,            \* RouterInfos: [ep, usesIntroducer, introducers]
  NoRouter,           \* the null RouterInfo
  IntroducerRouters,  \* what netdb.GetRandomIntroducer may return
  RelayTags,          \* nonzero relay tags
  Nonces, Roles,      \* peer-test nonces and PeerTestParticipant values
  RouterStates,       \* context.GetState(): "testing", "ok", "firewalled"
  MaxIntroducers,     \* SSUSize::MaxIntroducers
  ToIntroducerSessionDuration, KeepAliveInterval, PeerTestTimeout, \* SSUDuration
  MaxBatch,           \* packets read per wake (25 in the code)
  MaxPending,         \* posted HandleReceivedPackets not yet run
  MaxTime             \* the clock stops here

VARIABLES
  running,       \* m_IsRunning
  socketOpen,    \* m_Socket is open (bound in the constructor)
  receiving,     \* an async_receive_from is outstanding
  sessions,      \* m_Sessions: endpoint -> session
  relays,        \* m_Relays: relay tag -> endpoint
  introducers,   \* m_Introducers
  routerState,   \* context.GetState()
  peerTests,     \* m_PeerTests: nonce -> [creationTime, role, session]
  pending,       \* batches posted to HandleReceivedPackets, in order
  clock,         \* GetSecondsSinceEpoch()
  introDeadline, \* m_IntroducersUpdateTimer, or NoTimer
  testDeadline,  \* m_PeerTestsCleanupTimer, or NoTimer
  dirty          \* sessions given packets by a batch and not flushed since

vars == <<running, socketOpen, receiving, sessions, relays, introducers,
          routerState, peerTests, pending, clock, introDeadline, testDeadline,
          dirty>>

NoTimer == -1
Session == [state : {"pending", "established"}, created : 0..MaxTime,
            tag : RelayTags \cup {0}]
NewSession == [state |-> "pending", created |-> clock, tag |-> 0]
Without(f, x) == [y \in DOMAIN f \ {x} |-> f[y]]

-----------------------------------------------------------------------------
(* GetSession(router): the session to the router's SSU address, created   *)
(* if there is none.  A router that uses introducers is reached through   *)
(* the first of its introducers that already has a session, or else       *)
(* through a new session to its first introducer; a router that uses      *)
(* introducers but lists none has its new session erased again.  The     *)
(* search for an introducer session sees the session just inserted.       *)
GetSession(r) ==
  IF r = NoRouter \/ r.ep = NoAddress \/ r.ep \in DOMAIN sessions THEN sessions
  ELSE LET withNew == (r.ep :> NewSession) @@ sessions
           intros == r.introducers
       IN CASE ~r.usesIntroducer -> withNew
            [] Len(intros) > 0 ->
                 IF \E i \in 1..Len(intros) : intros[i] \in DOMAIN withNew
                   THEN withNew
                   ELSE (intros[1] :> NewSession) @@ withNew
            [] OTHER -> sessions

\* An introducer session still young enough to be used (FindSession and the
\* ToIntroducerSessionDuration test of the introducers timer).
Fresh(e) ==
  e \in DOMAIN sessions /\ clock < sessions[e].created + ToIntroducerSessionDuration

(* FindIntroducers(max): the results it can return.  The loop inserts the *)
(* first random session that has a relay tag, is established and fresh,  *)
(* and breaks, so it returns at most one.                                  *)
FindIntroducers(max) ==
  LET eligible == {e \in DOMAIN sessions : /\ sessions[e].tag # 0
                                           /\ sessions[e].state = "established"
                                           /\ Fresh(e)}
  IN IF max = 0 \/ eligible = {} THEN {{}} ELSE {{e} : e \in eligible}

\* The introducers the timer keeps (the others are removed from the context).
KeptIntroducers == SelectSeq(introducers, Fresh)

\* Mutant: a found introducer is appended without the MaxIntroducers test.
HandleIntroducersUpdateTimerNoCap ==
  /\ introDeadline = clock
  /\ \/ /\ routerState = "testing"
        /\ introDeadline' = clock + KeepAliveInterval
        /\ UNCHANGED <<sessions, introducers>>
     \/ /\ routerState = "ok"
        /\ introDeadline' = NoTimer
        /\ UNCHANGED <<sessions, introducers>>
     \/ /\ routerState = "firewalled"
        /\ \E found \in FindIntroducers(MaxIntroducers), accepted \in BOOLEAN,
              r \in IntroducerRouters \cup {NoRouter} :
             LET newList == IF found # {} /\ accepted
                              THEN Append(KeptIntroducers, CHOOSE e \in found : TRUE)
                              ELSE KeptIntroducers
             IN /\ introducers' = newList
                /\ sessions' = IF newList = <<>> THEN GetSession(r) ELSE sessions
        /\ introDeadline' = clock + KeepAliveInterval
  /\ UNCHANGED <<running, socketOpen, receiving, relays, routerState, peerTests,
                 pending, clock, testDeadline, dirty>>

(* HandleIntroducersUpdateTimer: while testing, wait again; once OK, stop *)
(* for good; when firewalled, keep the fresh introducers, add one found   *)
(* by FindIntroducers if the context accepts it (AddIntroducer, outside   *)
(* src/, may refuse), and with none at all open a session to a random     *)
(* introducer from the NetDb.                                              *)
HandleIntroducersUpdateTimer ==
  /\ introDeadline = clock
  /\ \/ /\ routerState = "testing"
        /\ introDeadline' = clock + KeepAliveInterval
        /\ UNCHANGED <<sessions, introducers>>
     \/ /\ routerState = "ok"
        /\ introDeadline' = NoTimer
        /\ UNCHANGED <<sessions, introducers>>
     \/ /\ routerState = "firewalled"
        /\ \E found \in FindIntroducers(MaxIntroducers), accepted \in BOOLEAN,
              r \in IntroducerRouters \cup {NoRouter} :
             LET kept == KeptIntroducers
                 newList == IF Len(kept) < MaxIntroducers /\ found # {} /\ accepted
                              THEN Append(kept, CHOOSE e \in found : TRUE)
                              ELSE kept
             IN /\ introducers' = newList
                /\ sessions' = IF newList = <<>> THEN GetSession(r) ELSE sessions
        /\ introDeadline' = clock + KeepAliveInterval
  /\ UNCHANGED <<running, socketOpen, receiving, relays, routerState, peerTests,
                 pending, clock, testDeadline, dirty>>

-----------------------------------------------------------------------------
(* HandleReceivedPackets, one packet at a time.  st is the handler's      *)
(* local state: the session table, the session it holds (by endpoint) and *)
(* the sessions with data not yet flushed.  A packet from another          *)
(* endpoint flushes the held session and looks the new one up, creating   *)
(* it (WaitForConnect) if there is none.  ProcessNextMessage may throw    *)
(* (throw), and may close the session, which then calls DeleteSession     *)
(* (close); the handler keeps using the session it holds.                 *)
Lookup(st, p) ==
  IF st.cur # NoSession /\ st.cur = p THEN st
  ELSE [sessions |-> IF p \in DOMAIN st.sessions THEN st.sessions
                     ELSE (p :> NewSession) @@ st.sessions,
        cur |-> p,
        dirty |-> IF st.cur # NoSession THEN st.dirty \ {st.cur} ELSE st.dirty]

\* Mutant: the catch clause drops the session without flushing it.
PacketStepNoCatchFlush(st, p, throw, close) ==
  LET s1 == Lookup(st, p)
      s2 == [s1 EXCEPT !.dirty = @ \cup {p},
                       !.sessions = IF close THEN Without(@, p) ELSE @]
  IN IF throw THEN [s2 EXCEPT !.cur = NoSession] ELSE s2

PacketStep(st, p, throw, close) ==
  LET s1 == Lookup(st, p)
      s2 == [s1 EXCEPT !.dirty = @ \cup {p},
                       !.sessions = IF close THEN Without(@, p) ELSE @]
  IN IF throw THEN [s2 EXCEPT !.cur = NoSession, !.dirty = @ \ {p}] ELSE s2

RECURSIVE ProcessPackets(_, _, _, _, _)
ProcessPackets(batch, i, st, throws, closes) ==
  IF i > Len(batch) THEN st
  ELSE ProcessPackets(batch, i + 1,
                      PacketStep(st, batch[i], i \in throws, i \in closes),
                      throws, closes)

HandleReceivedPackets ==
  /\ pending # <<>>
  /\ LET batch == Head(pending)
     IN \E throws, closes \in SUBSET DOMAIN batch :
          LET st == ProcessPackets(batch, 1,
                      [sessions |-> sessions, cur |-> NoSession, dirty |-> dirty],
                      throws, closes)
          IN /\ sessions' = st.sessions
             /\ dirty' = IF st.cur # NoSession THEN st.dirty \ {st.cur} ELSE st.dirty
  /\ pending' = Tail(pending)
  /\ UNCHANGED <<running, socketOpen, receiving, relays, introducers, routerState,
                 peerTests, clock, introDeadline, testDeadline>>

\* Up to MaxBatch packets, each from any endpoint.
Batches == UNION {[1..n -> Endpoints] : n \in 1..MaxBatch}

(* HandleReceivedFrom: a completed receive reads what else the socket has *)
(* (up to the batch limit), posts the batch and receives again.           *)
HandleReceivedFrom ==
  /\ receiving /\ Len(pending) < MaxPending
  /\ \E b \in Batches : pending' = Append(pending, b)
  /\ UNCHANGED <<running, socketOpen, receiving, sessions, relays, introducers,
                 routerState, peerTests, clock, introDeadline, testDeadline, dirty>>

-----------------------------------------------------------------------------
(* Start: post Receive (which fails at once on a closed socket, ending    *)
(* the receive loop) and arm both timers.  The transports start a server *)
(* once, on its open socket; Stop closes the socket and Start never      *)
(* reopens it, so a restarted server would not receive.                  *)
Start ==
  /\ ~running /\ socketOpen
  /\ running' = TRUE
  /\ receiving' = TRUE
  /\ introDeadline' = clock + KeepAliveInterval
  /\ testDeadline' = clock + PeerTestTimeout
  /\ UNCHANGED <<socketOpen, sessions, relays, introducers, routerState, peerTests,
                 pending, clock, dirty>>

(* Stop: DeleteAllSessions, then close the socket, which ends the receive *)
(* loop.  The timers are not cancelled and posted batches are not         *)
(* dropped.  The transports stop a running server.                         *)
Stop ==
  /\ running
  /\ sessions' = <<>>
  /\ running' = FALSE
  /\ socketOpen' = FALSE
  /\ receiving' = FALSE
  /\ UNCHANGED <<relays, introducers, routerState, peerTests, pending, clock,
                 introDeadline, testDeadline, dirty>>

\* The transports ask for a session to a router (only while running).
TransportsGetSession ==
  /\ running
  /\ \E r \in Routers : sessions' = GetSession(r)
  /\ UNCHANGED <<running, socketOpen, receiving, relays, introducers, routerState,
                 peerTests, pending, clock, introDeadline, testDeadline, dirty>>

\* DeleteSession: a session that failed or timed out closes and is erased.
DeleteSession(e) ==
  /\ e \in DOMAIN sessions
  /\ sessions' = Without(sessions, e)
  /\ UNCHANGED <<running, socketOpen, receiving, relays, introducers, routerState,
                 peerTests, pending, clock, introDeadline, testDeadline, dirty>>

\* A session completes its handshake, with or without a relay tag.
SessionEstablished(e) ==
  /\ e \in DOMAIN sessions /\ sessions[e].state = "pending"
  /\ \E tag \in RelayTags \cup {0} :
       sessions' = [sessions EXCEPT ![e] = [@ EXCEPT !.state = "established",
                                                      !.tag = tag]]
  /\ UNCHANGED <<running, socketOpen, receiving, relays, introducers, routerState,
                 peerTests, pending, clock, introDeadline, testDeadline, dirty>>

\* AddRelay: m_Relays[tag] = relay, by an established session that gave out the tag.
AddRelay(tag, e) ==
  /\ e \in DOMAIN sessions /\ sessions[e].state = "established"
  /\ relays' = (tag :> e) @@ relays
  /\ UNCHANGED <<running, socketOpen, receiving, sessions, introducers, routerState,
                 peerTests, pending, clock, introDeadline, testDeadline, dirty>>

\* NewPeerTest: m_PeerTests[nonce] = {now, role, session}, replacing any; a
\* peer test runs over an established session.
NewPeerTest(n, role, e) ==
  /\ e \in DOMAIN sessions /\ sessions[e].state = "established"
  /\ peerTests' = (n :> [creationTime |-> clock, role |-> role, session |-> e])
                  @@ peerTests
  /\ UNCHANGED <<running, socketOpen, receiving, sessions, relays, introducers,
                 routerState, pending, clock, introDeadline, testDeadline, dirty>>

\* Mutant: UpdatePeerTest writes m_PeerTests[nonce].role, inserting a
\* default entry (time 0, no session) for an unknown nonce.
UpdatePeerTestInsert(n, role) ==
  /\ peerTests' = IF n \in DOMAIN peerTests
                     THEN [peerTests EXCEPT ![n].role = role]
                     ELSE (n :> [creationTime |-> 0, role |-> role, session |-> NoSession])
                          @@ peerTests
  /\ UNCHANGED <<running, socketOpen, receiving, sessions, relays, introducers,
                 routerState, pending, clock, introDeadline, testDeadline, dirty>>

\* UpdatePeerTest: a known nonce takes a new role (an unknown one is ignored).
UpdatePeerTest(n, role) ==
  /\ n \in DOMAIN peerTests
  /\ peerTests' = [peerTests EXCEPT ![n].role = role]
  /\ UNCHANGED <<running, socketOpen, receiving, sessions, relays, introducers,
                 routerState, pending, clock, introDeadline, testDeadline, dirty>>

RemovePeerTest(n) ==
  /\ n \in DOMAIN peerTests
  /\ peerTests' = Without(peerTests, n)
  /\ UNCHANGED <<running, socketOpen, receiving, sessions, relays, introducers,
                 routerState, pending, clock, introDeadline, testDeadline, dirty>>

\* Mutant: the cleanup handler does not schedule itself again.
HandlePeerTestsCleanupTimerOnce ==
  /\ testDeadline = clock
  /\ peerTests' = [n \in {m \in DOMAIN peerTests :
                            ~(clock > peerTests[m].creationTime + PeerTestTimeout)}
                     |-> peerTests[n]]
  /\ testDeadline' = NoTimer
  /\ UNCHANGED <<running, socketOpen, receiving, sessions, relays, introducers,
                 routerState, peerTests, pending, clock, introDeadline, dirty>>

(* HandlePeerTestsCleanupTimer: erase the tests older than the timeout,   *)
(* and wait again.                                                          *)
HandlePeerTestsCleanupTimer ==
  /\ testDeadline = clock
  /\ peerTests' = [n \in {m \in DOMAIN peerTests :
                            ~(clock > peerTests[m].creationTime + PeerTestTimeout)}
                     |-> peerTests[n]]
  /\ testDeadline' = clock + PeerTestTimeout
  /\ UNCHANGED <<running, socketOpen, receiving, sessions, relays, introducers,
                 routerState, pending, clock, introDeadline, dirty>>

\* The router's reachability test ends, or its result changes.
RouterStateChange ==
  /\ \E s \in RouterStates \ {routerState} : routerState' = s
  /\ UNCHANGED <<running, socketOpen, receiving, sessions, relays, introducers,
                 peerTests, pending, clock, introDeadline, testDeadline, dirty>>

\* A second passes, unless a timer is due now.
Tick ==
  /\ clock < MaxTime
  /\ introDeadline # clock /\ testDeadline # clock
  /\ clock' = clock + 1
  /\ UNCHANGED <<running, socketOpen, receiving, sessions, relays, introducers,
                 routerState, peerTests, pending, introDeadline, testDeadline, dirty>>

-----------------------------------------------------------------------------
Init ==
  /\ running = FALSE /\ socketOpen = TRUE /\ receiving = FALSE
  /\ sessions = <<>> /\ relays = <<>> /\ introducers = <<>>
  /\ routerState = "testing"
  /\ peerTests = <<>> /\ pending = <<>>
  /\ clock = 0 /\ introDeadline = NoTimer /\ testDeadline = NoTimer
  /\ dirty = {}

Next ==
  \/ Start \/ Stop
  \/ HandleReceivedFrom \/ HandleReceivedPackets
  \/ TransportsGetSession
  \/ \E e \in Endpoints : DeleteSession(e) \/ SessionEstablished(e)
  \/ \E t \in RelayTags, e \in Endpoints : AddRelay(t, e)
  \/ \E n \in Nonces, role \in Roles :
       \/ \E e \in Endpoints : NewPeerTest(n, role, e)
       \/ UpdatePeerTest(n, role)
  \/ \E n \in Nonces : RemovePeerTest(n)
  \/ HandleIntroducersUpdateTimer
  \/ HandlePeerTestsCleanupTimer
  \/ RouterStateChange
  \/ Tick

Spec == Init /\ [][Next]_vars

-----------------------------------------------------------------------------
TypeOK ==
  /\ running \in BOOLEAN /\ socketOpen \in BOOLEAN /\ receiving \in BOOLEAN
  /\ \E D \in SUBSET Endpoints : sessions \in [D -> Session]
  /\ \E D \in SUBSET RelayTags : relays \in [D -> Endpoints]
  /\ introducers \in Seq(Endpoints) /\ Len(introducers) <= MaxIntroducers
  /\ routerState \in RouterStates
  /\ \E D \in SUBSET Nonces :
       peerTests \in [D -> [creationTime : 0..MaxTime, role : Roles, session : Endpoints]]
  /\ pending \in Seq(Batches)
  /\ clock \in 0..MaxTime
  /\ introDeadline \in {NoTimer} \cup Nat /\ testDeadline \in {NoTimer} \cup Nat
  /\ dirty \in SUBSET Endpoints

(* Between handlers no session holds unflushed data: HandleReceivedPackets *)
(* flushes the session it holds when the next packet comes from another   *)
(* endpoint, when ProcessNextMessage throws, and at the end of the batch, *)
(* whatever order of endpoints, exceptions and closes a batch brings.      *)
FlushedAfterBatch == dirty = {}

(* A peer test is erased at most one cleanup period after it expires:     *)
(* HandlePeerTestsCleanupTimer always rearms itself, also after Stop, so  *)
(* m_PeerTests never holds a test older than twice PeerTestTimeout.        *)
PeerTestsExpire ==
  \A n \in DOMAIN peerTests : clock <= peerTests[n].creationTime + 2 * PeerTestTimeout

(* After Stop no session is left: Stop deletes all sessions.  The timers   *)
(* are not cancelled and posted batches still run, and both create        *)
(* sessions while the io_service runs on.                                  *)
NoSessionAfterStop == running \/ DOMAIN sessions = {}

=============================================================================
