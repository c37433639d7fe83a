---------------------------- MODULE I2NPDispatch ----------------------------
(***************************************************************************)
(* The receiving side of i2np.cc: HandleI2NPMessage, which routes a        *)
(* message by the type byte of its header, and I2NPMessagesHandler, which *)
(* holds TunnelData and TunnelGateway messages back and posts them to the *)
(* tunnel thread in two batches when it is flushed (explicitly or by its   *)
(* destructor).  A message handed over is an item: the order n in which    *)
(* it was put, the type read from its header and its origin (msg->from:   *)
(* none, a local destination with a live tunnel pool, or one whose pool is *)
(* gone).  posted[d] is what subsystem d received, in order; "dropped"     *)
(* collects the messages the code logs and discards.                      *)
(***************************************************************************)
EXTENDS I2NPCodec

CONSTANTS
  DeliveryStatus, Garlic, TunnelData,                   \* further type IDs
  TunnelBuild, TunnelBuildReply, VariableTunnelBuild, VariableTunnelBuildReply

VARIABLES tunnelMsgs, gatewayMsgs, posted

Origins == {"none", "pool", "gone"}
Dests == {"tunnels", "netdb", "pool", "context", "build", "buildReply", "dropped"}
BuildTypes ==
  {TunnelBuild, TunnelBuildReply, VariableTunnelBuild, VariableTunnelBuildReply}
NetDbTypes == {DatabaseStore, DatabaseSearchReply, DatabaseLookup}

\* GetTypeID: the first byte of the header.
GetTypeID(bytes) == ByteAt(bytes, 1)

(* HandleI2NPMessage(buf, len): the raw-buffer dispatch.  It runs the     *)
(* build-message handlers; TunnelBuildReply is an explicit no-op and any *)
(* other type is logged as unexpected.                                     *)
RawRoute(t) ==
  CASE t = VariableTunnelBuild      -> "build"
    [] t = TunnelBuild              -> "build"
    [] t = VariableTunnelBuildReply -> "buildReply"
    [] OTHER                        -> "dropped"

(* HandleI2NPMessage(msg): where the shared-message dispatch sends an     *)
(* item.  Garlic from a destination goes to its pool, and is dropped when *)
(* that pool is gone; a DeliveryStatus falls back to the router context.  *)
(* Any type the switch does not name goes to the raw-buffer dispatch.     *)
Route(it) ==
  LET t == it.type IN
  CASE t \in {TunnelData, TunnelGateway} \cup BuildTypes -> "tunnels"
    [] t = Garlic         -> CASE it.from = "none" -> "context"
                               [] it.from = "pool" -> "pool"
                               [] OTHER            -> "dropped"
    [] t \in NetDbTypes   -> "netdb"
    [] t = DeliveryStatus -> IF it.from = "pool" THEN "pool" ELSE "context"
    [] OTHER              -> RawRoute(t)

Post(d, items) == posted' = [posted EXCEPT ![d] = @ \o items]

HandleI2NPMessage(it) ==
  /\ Post(Route(it), <<it>>)
  /\ UNCHANGED <<tunnelMsgs, gatewayMsgs>>

\* I2NPMessagesHandler::PutNextMessage
PutNextMessage(it) ==
  \/ /\ it.type = TunnelData
     /\ tunnelMsgs' = Append(tunnelMsgs, it)
     /\ UNCHANGED <<gatewayMsgs, posted>>
  \/ /\ it.type = TunnelGateway
     /\ gatewayMsgs' = Append(gatewayMsgs, it)
     /\ UNCHANGED <<tunnelMsgs, posted>>
  \/ /\ it.type \notin {TunnelData, TunnelGateway}
     /\ HandleI2NPMessage(it)

\* Mutant: the gateway batch is posted but its vector is not cleared.
FlushNoClear ==
  /\ Post("tunnels", tunnelMsgs \o gatewayMsgs)
  /\ tunnelMsgs' = <<>>
  /\ UNCHANGED gatewayMsgs

(* I2NPMessagesHandler::Flush, also run by the destructor: the TunnelData *)
(* batch, then the TunnelGateway batch, to the tunnel thread; each vector *)
(* is cleared after it is posted.                                          *)
Flush ==
  /\ Post("tunnels", tunnelMsgs \o gatewayMsgs)
  /\ tunnelMsgs' = <<>>
  /\ gatewayMsgs' = <<>>

=============================================================================
