----------------------------- MODULE TunnelBuild -----------------------------
(***************************************************************************)
(* The tunnel-build record processor (src/core/router/i2np.cc).            *)
(*                                                                         *)
(* Build messages are posted to the tunnel thread, which handles them one  *)
(* at a time: HandleVariableTunnelBuildMsg, HandleTunnelBuildMsg and       *)
(* HandleVariableTunnelBuildReplyMsg.  HandleBuildRequestRecords scans the *)
(* records for the first one addressed to this router, decrypts it, accepts *)
(* or rejects the hop against the transit-tunnel limit, writes the reply   *)
(* status into that record and encrypts every record with the reply key.   *)
(* A record is abstracted to whom it is for, whether its ElGamal block     *)
(* decrypts, and its 0x40 flag (this hop is the outbound endpoint).        *)
(***************************************************************************)
EXTENDS Integers, Sequences, FiniteSets

CONSTANTS
  Me, Other,          \* this router's identity hash, and any other
  MaxTransit,         \* MAX_NUM_TRANSIT_TUNNELS
  NumRecords,         \* NUM_TUNNEL_BUILD_RECORDS of a TunnelBuild message
  MaxCount,           \* largest record count buf[0] the model sends
  MaxLen,             \* largest number of records physically present
  ReplyIds            \* reply message IDs

ASSUME MaxTransit \in Nat /\ NumRecords \in 1..MaxLen /\ MaxLen <= MaxCount

\* A request record as it arrives, and as it leaves: status is Unanswered
\* until this hop writes its reply byte; enc counts AES-CBC passes.
Unanswered == -1

Record == [to : {Me, Other}, decrypts : BOOLEAN, endpoint : BOOLEAN,
           status : {Unanswered, 0, 30}, enc : 0..2]

Fresh == {r \in Record : r.status = Unanswered /\ r.enc = 0}

\* A build message: kind, the reply message ID of its header, the record
\* count the code uses (buf[0] or NUM_TUNNEL_BUILD_RECORDS) and the records
\* physically in the buffer.
Build == [kind : {"Variable", "Fixed", "VariableReply"}, id : ReplyIds,
          count : 1..MaxCount, recs : Seq(Record)]

VARIABLES
  inbox,       \* build messages posted to the tunnel thread
  transit,     \* tunnels.GetTransitTunnels().size()
  accepts,     \* context.AcceptsTunnels() /\ ~transports.IsBandwidthExceeded()
  pendingIn,   \* reply IDs of our inbound tunnels being built
  pendingOut,  \* reply IDs of our outbound tunnels being built
  built,       \* our tunnels established (by reply ID)
  sent         \* the message forwarded to the next hop by the last step

vars == <<inbox, transit, accepts, pendingIn, pendingOut, built, sent>>

-----------------------------------------------------------------------------

\* The index of the first of the count records addressed to Me, 0 if none.
\* Indices past the buffer read bytes of whatever follows it; they are
\* never taken for this router's record here.
OurRecord(count, recs) ==
  LET mine == {i \in 1..count : i <= Len(recs) /\ recs[i].to = Me}
  IN IF mine = {} THEN 0 ELSE CHOOSE i \in mine : \A j \in mine : i <= j

\* The acceptance test: AcceptsTunnels, transit table size against the
\* limit (<=, so a table of MaxTransit still accepts one more), bandwidth.
\* Mutant: the limit tested one further.
AcceptsHopOverLimit(n) == accepts /\ n <= MaxTransit + 1

AcceptsHop(n) == accepts /\ n <= MaxTransit

\* The reply byte: 0 to participate, 30 (TUNNEL_REJECT_BANDWIDTH) for every
\* rejection.
ReplyStatus(accept) == IF accept THEN 0 ELSE 30

\* The AES-CBC pass over records 0..num-1 with the reply key and IV.
\* Mutant: the last record is left out.
EncryptAllButLast(recs, count) ==
  [j \in DOMAIN recs |-> IF j < count THEN [recs[j] EXCEPT !.enc = @ + 1]
                         ELSE recs[j]]

EncryptAll(recs, count) ==
  [j \in DOMAIN recs |-> IF j <= count THEN [recs[j] EXCEPT !.enc = @ + 1]
                         ELSE recs[j]]

\* HandleBuildRequestRecords on message m.  fault is where an exception is
\* thrown and rethrown to the caller: "none", "create" (CreateTransitTunnel,
\* before AddTransitTunnel) or "encrypt" (the CBC pass, after it).  The
\* ElGamalDecrypt result is ignored; when it fails, clear_text keeps what
\* the caller put there: zeros in HandleVariableTunnelBuildMsg, whatever
\* the stack held in HandleTunnelBuildMsg (flag is the 0x40 bit it reads).
HandleBuildRequestRecords(m, fault, flag) ==
  LET i == OurRecord(m.count, m.recs)
      accept == AcceptsHop(transit)
      clear == IF i = 0 THEN FALSE ELSE m.recs[i].decrypts
      replied == IF i = 0 THEN m.recs
                 ELSE [m.recs EXCEPT ![i].status = ReplyStatus(accept)]
  IN [found |-> i # 0,
      recs |-> IF i = 0 THEN m.recs ELSE EncryptAll(replied, m.count),
      created |-> i # 0 /\ accept /\ fault # "create",
      endpoint |-> i # 0 /\ IF clear THEN m.recs[i].endpoint
                            ELSE m.kind = "Fixed" /\ flag,
      throws |-> i # 0 /\ fault # "none"]

\* What is forwarded: through the reply tunnel (a TunnelGateway message
\* wrapping the records) when this hop is the outbound endpoint, else the
\* build message onward to the next hop.
Forward(m, o) ==
  [kind |-> IF o.endpoint THEN "Reply" ELSE m.kind, id |-> m.id,
   count |-> m.count, recs |-> o.recs]

\* The tunnel thread handles a request message that is not a reply to one
\* of our own builds.
HandleRequest(m) ==
  \E fault \in {"none", "create", "encrypt"}, flag \in BOOLEAN :
    LET o == HandleBuildRequestRecords(m, fault, flag)
    IN /\ transit' = IF o.created THEN transit + 1 ELSE transit
       /\ sent' = IF o.found /\ ~o.throws THEN {Forward(m, o)} ELSE {}

\* HandleTunnelBuildResponse of a pending tunnel (code outside src/): the
\* tunnel is established or declined.  The pending table keeps the entry.
BuildResponse(id) ==
  \E ok \in BOOLEAN : built' = IF ok THEN built \cup {id} ELSE built \ {id}

\* HandleVariableTunnelBuildMsg: a reply to our pending inbound tunnel, or
\* a request to process with num = buf[0].
HandleVariableTunnelBuildMsg ==
  \E m \in inbox :
    /\ m.kind = "Variable"
    /\ inbox' = {}
    /\ IF m.id \in pendingIn
       THEN /\ BuildResponse(m.id)
            /\ sent' = {}
            /\ UNCHANGED transit
       ELSE /\ HandleRequest(m)
            /\ UNCHANGED built
    /\ UNCHANGED <<accepts, pendingIn, pendingOut>>

\* HandleTunnelBuildMsg: always NUM_TUNNEL_BUILD_RECORDS records.
HandleTunnelBuildMsg ==
  \E m \in inbox :
    /\ m.kind = "Fixed"
    /\ inbox' = {}
    /\ HandleRequest(m)
    /\ UNCHANGED <<accepts, pendingIn, pendingOut, built>>

\* HandleVariableTunnelBuildReplyMsg: the reply for our pending outbound
\* tunnel; for an unknown reply ID only a warning is logged.
HandleVariableTunnelBuildReplyMsg ==
  \E m \in inbox :
    /\ m.kind = "VariableReply"
    /\ inbox' = {}
    /\ IF m.id \in pendingOut THEN BuildResponse(m.id) ELSE UNCHANGED built
    /\ sent' = {}
    /\ UNCHANGED <<transit, accepts, pendingIn, pendingOut>>

-----------------------------------------------------------------------------
(* The environment: peers, our own tunnel pools, transit expiry.           *)

\* A build message arrives (a record count of buf[0] over records that fit).
Receive ==
  /\ inbox = {}
  /\ \E kind \in {"Variable", "Fixed", "VariableReply"}, id \in ReplyIds,
        n \in 1..MaxLen, c \in 1..MaxCount :
       \E recs \in [1..n -> Fresh] :
         /\ kind = "Fixed" => c = NumRecords
         /\ inbox' = {[kind |-> kind, id |-> id, count |-> c, recs |-> recs]}
  /\ sent' = {}
  /\ UNCHANGED <<transit, accepts, pendingIn, pendingOut, built>>

\* Our tunnel pool starts building a tunnel whose reply comes back under id.
StartOwnBuild ==
  \E id \in ReplyIds \ (pendingIn \cup pendingOut) :
    /\ \/ pendingIn' = pendingIn \cup {id} /\ UNCHANGED pendingOut
       \/ pendingOut' = pendingOut \cup {id} /\ UNCHANGED pendingIn
    /\ sent' = {}
  /\ UNCHANGED <<inbox, transit, accepts, built>>

\* The tunnel pool drops a pending build (established, declined or timed
\* out) from its pending table.
PendingCleanup ==
  \E id \in pendingIn \cup pendingOut :
    /\ pendingIn' = pendingIn \ {id}
    /\ pendingOut' = pendingOut \ {id}
    /\ sent' = {}
    /\ UNCHANGED <<inbox, transit, accepts, built>>

\* A transit tunnel expires and is removed from the table.
TransitExpires ==
  /\ transit > 0
  /\ transit' = transit - 1
  /\ sent' = {}
  /\ UNCHANGED <<inbox, accepts, pendingIn, pendingOut, built>>

\* The router starts or stops accepting tunnels, or bandwidth runs out.
AcceptanceChange ==
  /\ accepts' = ~accepts
  /\ sent' = {}
  /\ UNCHANGED <<inbox, transit, pendingIn, pendingOut, built>>

Init ==
  /\ inbox = {}
  /\ transit = 0
  /\ accepts \in BOOLEAN
  /\ pendingIn = {}
  /\ pendingOut = {}
  /\ built = {}
  /\ sent = {}

Next ==
  \/ HandleVariableTunnelBuildMsg
  \/ HandleTunnelBuildMsg
  \/ HandleVariableTunnelBuildReplyMsg
  \/ Receive
  \/ StartOwnBuild
  \/ PendingCleanup
  \/ TransitExpires
  \/ AcceptanceChange

Spec == Init /\ [][Next]_vars

-----------------------------------------------------------------------------
(* Properties.                                                             *)

\* The type invariant.  The transit table holds at most
\* MAX_NUM_TRANSIT_TUNNELS + 1 tunnels: the test is size() <= the maximum
\* before one more is added, and nothing else adds transit tunnels.
TypeOK ==
  /\ inbox \subseteq Build
  /\ transit \in 0..MaxTransit + 1
  /\ accepts \in BOOLEAN
  /\ pendingIn \subseteq ReplyIds /\ pendingOut \subseteq ReplyIds
  /\ built \subseteq ReplyIds

\* Every forwarded build message carries exactly one reply record, written
\* at the first record addressed to this router, with status 0 or 30, and
\* every one of its count records went through the AES pass exactly once:
\* no request is forwarded in clear and no batch half encrypted.
ForwardedBatchWellFormed ==
  \A m \in sent :
    LET counted == {j \in 1..m.count : j <= Len(m.recs)}
        replies == {j \in counted : m.recs[j].status # Unanswered}
    IN /\ Cardinality(replies) = 1
       /\ \A j \in replies : m.recs[j].to = Me
                             /\ \A k \in counted : m.recs[k].to = Me => j <= k
       /\ \A j \in counted : m.recs[j].enc = 1

\* A transit tunnel is registered only when its requester is answered:
\* an exception in HandleBuildRequestRecords aborts the whole batch, the
\* tunnel added before it included.
BatchAtomic == [][transit' > transit => sent' # {}]_vars

=============================================================================
