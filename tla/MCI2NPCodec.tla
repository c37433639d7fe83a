---------------------------- MODULE MCI2NPCodec ----------------------------
(***************************************************************************)
(* A router writing I2NP messages and a peer reading them.  Each step     *)
(* writes one message with one writer of i2np.cc, or passes the last one   *)
(* on as a floodfill does (FloodMsg) or as the lookup responder does when *)
(* it answers through a tunnel gateway (WrapTunnelGatewayMsg).  sent       *)
(* records what the writer was asked to say, in the form the readers of   *)
(* impl.cc should return it.  The receiving router hands the message over  *)
(* to its I2NPMessagesHandler (Receive), which dispatches it by the type   *)
(* byte the writer put in the header, and flushes its tunnel batches.      *)
(***************************************************************************)
EXTENDS I2NPDispatch

CONSTANTS
  Idents,      \* nonzero ident hashes (a zero ident is dropped by every reader)
  TunnelIDs,   \* reply tunnel IDs, 0 meaning a direct reply
  Tokens,      \* reply tokens, 0 meaning none
  Sizes,       \* lengths of our compressed RouterInfos and LeaseSets
  RemoteSizes, \* lengths of the data of stores other routers send us
  ReplyIDs,    \* reply message IDs given to the writers, 0 meaning random
  Rand,        \* the value Rand<std::uint32_t>() returns
  Me,          \* our own ident, written last in a search reply
  RawTypes,    \* types of the messages CreateI2NPMessage copies from a buffer
  MaxPut       \* bound on the messages handed to the handler

VARIABLES msg, sent, puts
codecVars == <<msg, sent>>
dispatchVars == <<tunnelMsgs, gatewayMsgs, posted, puts>>
vars == <<msg, sent, tunnelMsgs, gatewayMsgs, posted, puts>>

NoMessage == [offset |-> 0, cap |-> 0, bytes |-> <<>>]

\* What ParseStore must return for a store of key h.
StoreFields(h, type, token, tid, gw, data) ==
  [key |-> Hash(h), type |-> type, token |-> token, tunnel |-> tid,
   gateway |-> IF token # 0 THEN Hash(gw) ELSE <<>>, valid |-> TRUE, data |-> data]

Init == /\ msg = NoMessage /\ sent = [kind |-> "none"]
        /\ tunnelMsgs = <<>> /\ gatewayMsgs = <<>>
        /\ posted = [d \in Dests |-> <<>>] /\ puts = 0

WriteRawMessage ==
  \E type \in RawTypes, s \in Sizes, r \in ReplyIDs :
    /\ msg' = CreateI2NPMessage(type, Blob(s), r, Rand)
    /\ sent' = [kind |-> "raw"]

WriteRouterInfoStore ==
  \E h \in Idents, t \in Tokens, s \in Sizes :
    /\ msg' = CreateDatabaseStoreMsgRI(h, t, s, Rand)
    /\ sent' = [kind |-> "store", fields |-> StoreFields(h, 0, t, 0, h, Blob(s))]

WriteLeaseSetStore ==
  \E h \in Idents, t \in Tokens, hasLease \in BOOLEAN,
     ltid \in TunnelIDs \ {0}, lgw \in Idents, s \in Sizes :
    LET reply == t # 0 /\ hasLease
    IN /\ msg' = CreateDatabaseStoreMsgLS(h, t, hasLease, ltid, lgw, s, Rand)
       /\ sent' = [kind |-> "store",
                   fields |-> StoreFields(h, 1, IF reply THEN t ELSE 0,
                                          IF reply THEN ltid ELSE 0, lgw, Blob(s))]

(* A DatabaseStore from another router, as the transports hand it over:  *)
(* CreateI2NPMessage(buf, len, from) copies it into a long message.  The   *)
(* sender may claim any length its transport frames.                       *)
ReceiveStore ==
  \E h \in Idents, type \in {0, 1}, t \in Tokens, tid \in TunnelIDs, gw \in Idents,
     s \in RemoteSizes :
    LET p == Hash(h) \o <<type>> \o Bytes(t, 4)
             \o (IF t # 0 THEN Bytes(tid, 4) \o Hash(gw) ELSE <<>>)
             \o (IF type = 0 THEN Bytes(s, 2) ELSE <<>>) \o Blob(s)
    IN /\ msg' = ReceiveI2NPMessage(Header(DatabaseStore, Rand, Len(p)) \o p)
       /\ sent' = [kind |-> "store",
                   fields |-> [StoreFields(h, type, t, IF t # 0 THEN tid ELSE 0, gw, Blob(s))
                                 EXCEPT !.valid = type # 0 \/ s <= RouterInfoMaxBuffer]]

WriteRouterInfoLookup ==
  \E key, from \in Idents, tid \in TunnelIDs, expl \in BOOLEAN, excl \in SUBSET Idents :
    /\ msg' = CreateRouterInfoDatabaseLookupMsg(key, from, tid, expl, excl, Rand)
    /\ sent' = [kind |-> "lookup", key |-> key, tunnel |-> tid, excluded |-> excl,
                type |-> IF expl THEN ExploratoryLookup ELSE RouterInfoLookup,
                replyKey |-> 0]

WriteLeaseSetLookup ==
  \E dest, gw \in Idents, tid \in TunnelIDs \ {0}, excl \in SUBSET Idents, k \in Idents :
    /\ msg' = CreateLeaseSetDatabaseLookupMsg(dest, excl, gw, tid, k, Me, Rand)
    /\ sent' = [kind |-> "lookup", key |-> dest, tunnel |-> tid, excluded |-> excl,
                type |-> LeaseSetLookup, replyKey |-> k]

\* The peers GetClosestFloodfills can return: up to 3 distinct, here up to 2.
PeerLists == {s \in UNION {[1..n -> Idents] : n \in 0..2} : IsInjective(s)}

WriteSearchReply ==
  \E ident \in Idents, routers \in PeerLists :
    /\ msg' = CreateDatabaseSearchReply(ident, routers, Me, Rand)
    /\ sent' = [kind |-> "reply", key |-> ident, peers |-> routers]

\* A floodfill receiving a store with a reply token floods it on.
Flood ==
  /\ sent.kind = "store" /\ sent.fields.token # 0
  /\ msg' = FloodMsg(msg, Rand)
  /\ sent' = [sent EXCEPT !.fields = [@ EXCEPT !.token = 0, !.tunnel = 0,
                                              !.gateway = <<>>]]

\* The lookup responder sends its reply to a tunnel gateway (impl.cc 768).
WrapReply ==
  /\ sent.kind \in {"store", "reply"}
  /\ \E tid \in TunnelIDs \ {0} :
       /\ msg' = WrapTunnelGatewayMsg(tid, msg, Rand)
       /\ sent' = [kind |-> "gateway", tunnel |-> tid, inner |-> msg.bytes]

WriteGatewayMessage ==
  \E tid \in TunnelIDs \ {0}, s \in Sizes, r \in ReplyIDs :
    /\ msg' = CreateTunnelGatewayMsgFor(tid, DatabaseStore, Blob(s), r, Rand)
    /\ sent' = [kind |-> "gateway", tunnel |-> tid,
                inner |-> Header(DatabaseStore, IF r # 0 THEN r ELSE Rand, s) \o Blob(s)]

(* The receiving router puts the last message into its handler.  Only    *)
(* Garlic and DeliveryStatus routing looks at msg->from, so only they are  *)
(* given every origin.                                                     *)
Receive ==
  /\ msg # NoMessage /\ puts < MaxPut
  /\ LET t == GetTypeID(msg.bytes)
     IN \E from \in IF t \in {Garlic, DeliveryStatus} THEN Origins ELSE {"none"} :
          PutNextMessage([n |-> puts + 1, type |-> t, from |-> from])
  /\ puts' = puts + 1
  /\ UNCHANGED codecVars

FlushHandler == Flush /\ UNCHANGED <<puts, msg, sent>>

Write ==
  \/ WriteRawMessage \/ WriteRouterInfoStore \/ WriteLeaseSetStore
  \/ WriteRouterInfoLookup \/ WriteLeaseSetLookup \/ WriteSearchReply
  \/ ReceiveStore \/ Flood \/ WrapReply \/ WriteGatewayMessage

(* The sender writes only while the receiver may still take a message,   *)
(* so that the handler's states are not multiplied by every message that   *)
(* could follow them.                                                       *)
Next == (puts < MaxPut /\ Write /\ UNCHANGED dispatchVars) \/ Receive \/ FlushHandler

Spec == Init /\ [][Next]_vars

-----------------------------------------------------------------------------
(* A DatabaseStore of a RouterInfo or a LeaseSet, or its flood, is read by  *)
(* HandleDatabaseStoreMsg as the key, type, token, reply tunnel and gateway *)
(* and data CreateDatabaseStoreMsg was given (a LeaseSet with no live lease *)
(* has its token cleared), however the reply block shifts the offsets.     *)
StoreRoundTrip == sent.kind = "store" => ParseStore(msg) = sent.fields

(* A lookup whose excluded list is within the responder's cap is read by   *)
(* HandleDatabaseLookupMsg with its key, type and excluded peers, and a    *)
(* LeaseSet lookup's reply key is where the search-reply branch reads it.  *)
LookupRoundTrip ==
  sent.kind = "lookup" /\ Cardinality(sent.excluded) <= MaxExcludedPeers =>
    LET r == ParseLookup(msg)
    IN /\ r.key = Hash(sent.key)
       /\ r.type = sent.type
       /\ r.excluded = {Hash(e) : e \in sent.excluded}
       /\ sent.type = LeaseSetLookup =>
            HashAt(Payload(msg), r.listEnd) = Hash(sent.replyKey)

(* A search reply is read by HandleDatabaseSearchReplyMsg as the key and   *)
(* exactly the peers CreateDatabaseSearchReply was given, in order (our    *)
(* own ident, written after them, is not taken for a peer).               *)
SearchReplyRoundTrip ==
  sent.kind = "reply" =>
    ParseSearchReply(msg) =
      [key |-> Hash(sent.key), peers |-> [i \in DOMAIN sent.peers |-> Hash(sent.peers[i])]]

(* A tunnel gateway message carries the tunnel ID and, behind its length,   *)
(* the whole inner message, header included, whose own size field gives    *)
(* back that length (GetI2NPMessageLength at the endpoint).                *)
GatewayCarriesMessage ==
  sent.kind = "gateway" =>
    LET p == Payload(msg)
        n == ReadBytes(p, 4, 2)
    IN /\ ReadBytes(p, 0, 4) = sent.tunnel
       /\ [j \in 1..n |-> ByteAt(p, GatewayHeaderSize + j)] = sent.inner
       /\ GetI2NPMessageLength(sent.inner) = n

(* The handlers the table of section 4.1 of spec.md names for a type: the *)
(* tunnel subsystem (the build messages reach the build-request processor *)
(* through the tunnel thread), the NetDb, the originating pool when there *)
(* is one and else the router context.  Garlic for a destination whose    *)
(* pool is gone may also be discarded; any other type is discarded.       *)
SpecHandlers(it) ==
  CASE it.type \in {TunnelData, TunnelGateway} \cup BuildTypes -> {"tunnels"}
    [] it.type \in NetDbTypes -> {"netdb"}
    [] it.type \in {Garlic, DeliveryStatus} ->
         IF it.from = "pool" THEN {"pool"} ELSE {"context", "dropped"}
    [] OTHER -> {"dropped"}

\* Where the handler holds messages: its two batches and the subsystems.
Holders == [h \in Dests \cup {"dataBatch", "gatewayBatch"} |->
              CASE h = "dataBatch"    -> tunnelMsgs
                [] h = "gatewayBatch" -> gatewayMsgs
                [] OTHER              -> posted[h]]
Copies(n) ==
  {<<h, i>> \in (DOMAIN Holders) \X (1..MaxPut) :
     i \in DOMAIN Holders[h] /\ Holders[h][i].n = n}

(* Through any mix of PutNextMessage and Flush (the destructor flushing    *)
(* again after an explicit Flush included), every message handed to       *)
(* I2NPMessagesHandler is held exactly once: still in one of its batches,  *)
(* or posted once, to a handler the spec's table names for its type.       *)
DeliveredOnce ==
  \A n \in 1..puts :
    /\ Cardinality(Copies(n)) = 1
    /\ \A d \in Dests : \A i \in DOMAIN posted[d] :
         posted[d][i].n = n => d \in SpecHandlers(posted[d][i])

=============================================================================
