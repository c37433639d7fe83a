----------------------------- MODULE I2NPCodec -----------------------------
(***************************************************************************)
(* The I2NP message layer of i2np.cc and the parts of net_db/impl.cc that *)
(* read what it writes.  A message is the bytes from GetBuffer() (the     *)
(* header, then the payload) with the offset of GetBuffer() in its buffer *)
(* and the buffer's capacity (max_len).  Bytes are integers; an ident     *)
(* hash, a reply key or a tag h is HashLen bytes of value h; compressed   *)
(* RouterInfos and LeaseSets are opaque blobs of a given length.  Writers *)
(* are operators from their arguments to a message, readers operators    *)
(* from a message to the fields they take from it.                        *)
(***************************************************************************)
EXTENDS Integers, Sequences, FiniteSets, SequencesExt, Bitwise

CONSTANTS
  HashLen,            \* sizeof(IdentHash), 32
  HeaderSize,         \* I2NP_HEADER_SIZE, 16
  InitialOffset,      \* the offset of a new message's header in its buffer
  ShortMax, LongMax,  \* I2NP_MAX_SHORT_MESSAGE_SIZE, I2NP_MAX_MESSAGE_SIZE
  GatewayHeaderSize,  \* TUNNEL_GATEWAY_HEADER_SIZE: tunnel ID (4), length (2)
  MaxExcludedPeers,   \* Size::MaxExcludedPeers of the lookup responder
  RouterInfoMaxBuffer,  \* RouterInfo::Size::MaxBuffer
  DatabaseStore, DatabaseLookup, DatabaseSearchReply, TunnelGateway, \* type IDs
  DeliveryFlag, EncryptionFlag, TypeMask,          \* DatabaseLookup flag bits
  RouterInfoLookup, LeaseSetLookup, ExploratoryLookup

ASSUME HeaderSize = 16 /\ GatewayHeaderSize = 6

\* OutputByteStream::Write: n bytes of v, big-endian, truncated to n bytes.
Bytes(v, n) == [j \in 1..n |-> (v \div 2^(8 * (n - j))) % 256]

(* Byte i of a message whose bytes are s.  A reader that runs past the   *)
(* written length reads whatever the buffer holds there; the model reads   *)
(* zeros, one of the values a fresh buffer can hold.                       *)
ByteAt(s, i) == IF i \in 1..Len(s) THEN s[i] ELSE 0

\* InputByteStream::Read of n bytes at byte offset at of s.
RECURSIVE ReadBytes(_, _, _)
ReadBytes(s, at, n) ==
  IF n = 0 THEN 0 ELSE ReadBytes(s, at, n - 1) * 256 + ByteAt(s, at + n)

Hash(h) == [j \in 1..HashLen |-> h]
HashAt(s, at) == [j \in 1..HashLen |-> ByteAt(s, at + j)]
Blob(n) == [j \in 1..n |-> 100 + (j % 100)]
\* A std::set<IdentHash> written out in its (ascending) iteration order.
HashList(S) ==
  LET s == SetToSortSeq(S, LAMBDA a, b : a < b)
  IN FlattenSeq([i \in DOMAIN s |-> Hash(s[i])])

(* The header of section 6 of spec.md: type, message ID, expiration, size,  *)
(* checksum.  Expiration and checksum are not modelled (zero bytes).        *)
Header(type, id, size) ==
  Bytes(type, 1) \o Bytes(id, 4) \o [j \in 1..8 |-> 0] \o Bytes(size, 2) \o <<0>>

Payload(m) == SubSeq(m.bytes, HeaderSize + 1, Len(m.bytes))
SizeOf(m) == ReadBytes(m.bytes, 13, 2)

\* GetI2NPMessageLength: the size field plus the header.
GetI2NPMessageLength(s) == ReadBytes(s, 13, 2) + HeaderSize

\* NewI2NPMessage(len): the short tier below half its capacity.
NewI2NPMessage(len) == IF len < ShortMax \div 2 THEN ShortMax ELSE LongMax

(* FillI2NPMessageHeader on a buffer of capacity cap holding payload p at   *)
(* offset off: type, the reply ID or a random one, and the size of p.       *)
FillI2NPMessageHeader(off, cap, type, reply, rnd, p) ==
  [offset |-> off, cap |-> cap,
   bytes |-> Header(type, IF reply # 0 THEN reply ELSE rnd, Len(p)) \o p]

\* CreateI2NPMessage(type, buf, len, reply): an oversized payload is dropped.
CreateI2NPMessage(type, data, reply, rnd) ==
  LET cap == NewI2NPMessage(Len(data))
  IN FillI2NPMessageHeader(InitialOffset, cap, type, reply, rnd,
       IF InitialOffset + HeaderSize + Len(data) < cap THEN data ELSE <<>>)

(* CreateI2NPMessage(buf, len, from): a received message, header and all, *)
(* in a long buffer; one that does not fit is left empty.                 *)
ReceiveI2NPMessage(s) ==
  [offset |-> InitialOffset, cap |-> LongMax,
   bytes |-> IF InitialOffset + Len(s) < LongMax THEN s ELSE Header(0, 0, 0)]

\* Mutant: the reply tunnel ID is written without setting the delivery flag.
CreateRouterInfoDatabaseLookupMsgNoFlag(key, from, tid, exploratory, excl, rnd) ==
  LET flag == IF exploratory THEN ExploratoryLookup ELSE RouterInfoLookup
      p == Hash(key) \o Hash(from)
           \o (IF tid # 0 THEN <<flag>> \o Bytes(tid, 4) ELSE <<flag>>)
           \o Bytes(Cardinality(excl), 2) \o HashList(excl)
  IN FillI2NPMessageHeader(InitialOffset, LongMax, DatabaseLookup, 0, rnd, p)

(* CreateRouterInfoDatabaseLookupMsg with the excluded set of a request     *)
(* (every caller in src/ passes one, so the long tier is used).             *)
CreateRouterInfoDatabaseLookupMsg(key, from, tid, exploratory, excl, rnd) ==
  LET flag == IF exploratory THEN ExploratoryLookup ELSE RouterInfoLookup
      p == Hash(key) \o Hash(from)
           \o (IF tid # 0 THEN <<flag | DeliveryFlag>> \o Bytes(tid, 4)
                          ELSE <<flag>>)
           \o Bytes(Cardinality(excl), 2) \o HashList(excl)
  IN FillI2NPMessageHeader(InitialOffset, LongMax, DatabaseLookup, 0, rnd, p)

CreateLeaseSetDatabaseLookupMsg(dest, excl, gw, tid, key, tag, rnd) ==
  LET p == Hash(dest) \o Hash(gw)
           \o <<DeliveryFlag | EncryptionFlag | LeaseSetLookup>>
           \o Bytes(tid, 4) \o Bytes(Cardinality(excl), 2) \o HashList(excl)
           \o Hash(key) \o <<1>> \o Hash(tag)
  IN FillI2NPMessageHeader(InitialOffset,
       IF excl # {} THEN LongMax ELSE ShortMax, DatabaseLookup, 0, rnd, p)

\* Mutant: the count includes our own ident.
CreateDatabaseSearchReplyCountsMe(ident, routers, me, rnd) ==
  LET p == Hash(ident) \o <<(Len(routers) + 1) % 256>>
           \o FlattenSeq([i \in DOMAIN routers |-> Hash(routers[i])]) \o Hash(me)
  IN FillI2NPMessageHeader(InitialOffset, ShortMax, DatabaseSearchReply, 0, rnd, p)

\* CreateDatabaseSearchReply: the count is one byte, our own ident last.
CreateDatabaseSearchReply(ident, routers, me, rnd) ==
  LET p == Hash(ident) \o <<Len(routers) % 256>>
           \o FlattenSeq([i \in DOMAIN routers |-> Hash(routers[i])]) \o Hash(me)
  IN FillI2NPMessageHeader(InitialOffset, ShortMax, DatabaseSearchReply, 0, rnd, p)

StoreHeaderSize == HashLen + 5

(* CreateDatabaseStoreMsg(router, token): a reply token adds a zero tunnel  *)
(* ID and the router's ident; the gzip output follows its 16-bit size, and  *)
(* the message moves to the long tier when the short one cannot hold it.    *)
CreateDatabaseStoreMsgRI(h, token, size, rnd) ==
  LET head == Hash(h) \o <<0>> \o Bytes(token, 4)
              \o (IF token # 0 THEN Bytes(0, 4) \o Hash(h) ELSE <<>>)
              \o Bytes(size, 2)
      cap == IF InitialOffset + HeaderSize + Len(head) + size > ShortMax
             THEN LongMax ELSE ShortMax
  IN FillI2NPMessageHeader(InitialOffset, cap, DatabaseStore, 0, rnd,
                           head \o Blob(size))

\* Mutant: the token is kept when no lease is left to reply through.
CreateDatabaseStoreMsgLSKeepToken(h, token, hasLease, ltid, lgw, size, rnd) ==
  LET reply == token # 0 /\ hasLease
      p == Hash(h) \o <<1>> \o Bytes(token, 4)
           \o (IF reply THEN Bytes(ltid, 4) \o Hash(lgw) ELSE <<>>)
           \o Blob(size)
  IN FillI2NPMessageHeader(InitialOffset, ShortMax, DatabaseStore, 0, rnd, p)

(* CreateDatabaseStoreMsg(lease_set, token): the reply goes to the first   *)
(* non-expired lease; with none the token is overwritten with 0.            *)
CreateDatabaseStoreMsgLS(h, token, hasLease, ltid, lgw, size, rnd) ==
  LET reply == token # 0 /\ hasLease
      p == Hash(h) \o <<1>> \o Bytes(IF reply THEN token ELSE 0, 4)
           \o (IF reply THEN Bytes(ltid, 4) \o Hash(lgw) ELSE <<>>)
           \o Blob(size)
  IN FillI2NPMessageHeader(InitialOffset, ShortMax, DatabaseStore, 0, rnd, p)

(* HandleDatabaseStoreMsg's reading of a store: the reply fields when the   *)
(* token is set, then a LeaseSet to the end of the message, or a RouterInfo *)
(* of the given size, dropped (valid FALSE) if over either bound.           *)
ParseStore(m) ==
  LET p == Payload(m)
      len == SizeOf(m)
      token == ReadBytes(p, HashLen + 1, 4)
      off == StoreHeaderSize + (IF token # 0 THEN 4 + HashLen ELSE 0)
      type == ByteAt(p, HashLen + 1)
      size == ReadBytes(p, off, 2)
  IN [key |-> HashAt(p, 0), type |-> type, token |-> token,
      tunnel |-> IF token # 0 THEN ReadBytes(p, StoreHeaderSize, 4) ELSE 0,
      gateway |-> IF token # 0 THEN HashAt(p, StoreHeaderSize + 4) ELSE <<>>,
      valid |-> type # 0 \/ (size <= RouterInfoMaxBuffer /\ size <= len - (off + 2)),
      data |-> IF type # 0 THEN [j \in 1..(len - off) |-> ByteAt(p, off + j)]
               ELSE [j \in 1..size |-> ByteAt(p, off + 2 + j)]]

(* The flood of a store with a reply token on a floodfill: key and type,   *)
(* a zero token, then everything after the reply fields, in a short       *)
(* message whatever the length.                                           *)
FloodMsg(m, rnd) ==
  LET p == Payload(m)
      off == StoreHeaderSize + 4 + HashLen
  IN FillI2NPMessageHeader(InitialOffset, ShortMax, DatabaseStore, 0, rnd,
       SubSeq(p, 1, HashLen + 1) \o Bytes(0, 4)
       \o [j \in 1..(SizeOf(m) - off) |-> ByteAt(p, off + j)])

(* HandleDatabaseLookupMsg's reading of a lookup: the reply tunnel ID is   *)
(* read at buf + 64; a count over MaxExcludedPeers becomes 0; the session *)
(* key is read where the excluded pointer stands (listStart when the       *)
(* object is found, listEnd when a search reply is built).                 *)
ParseLookup(m) ==
  LET p == Payload(m)
      flag == ByteAt(p, 2 * HashLen + 1)
      delivery == (flag & DeliveryFlag) # 0
      x == 2 * HashLen + 1 + (IF delivery THEN 4 ELSE 0)
      n0 == ReadBytes(p, x, 2)
      n == IF n0 > MaxExcludedPeers THEN 0 ELSE n0
  IN [key |-> HashAt(p, 0), type |-> flag & TypeMask, count |-> n0,
      tunnel |-> IF delivery THEN ReadBytes(p, 2 * HashLen, 4) ELSE 0,
      excluded |-> {HashAt(p, x + 2 + i * HashLen) : i \in 0..(n - 1)},
      listStart |-> x + 2, listEnd |-> x + 2 + n * HashLen]

\* HandleDatabaseSearchReplyMsg: num at buf[32], peer i at buf + 33 + 32i.
ParseSearchReply(m) ==
  LET p == Payload(m)
  IN [key |-> HashAt(p, 0),
      peers |-> [i \in 1..ByteAt(p, HashLen + 1) |-> HashAt(p, HashLen + 1 + (i - 1) * HashLen)]]

\* Mutant: the length field counts the inner payload only.
CreateTunnelGatewayMsgPayloadLen(tid, s, rnd) ==
  FillI2NPMessageHeader(InitialOffset, NewI2NPMessage(Len(s)), TunnelGateway,
                        0, rnd, Bytes(tid, 4) \o Bytes(Len(s) - HeaderSize, 2) \o s)

\* CreateTunnelGatewayMsg(tunnel_ID, buf, len): a copy in a new message.
CreateTunnelGatewayMsg(tid, s, rnd) ==
  FillI2NPMessageHeader(InitialOffset, NewI2NPMessage(Len(s)), TunnelGateway,
                        0, rnd, Bytes(tid, 4) \o Bytes(Len(s), 2) \o s)

(* CreateTunnelGatewayMsg(tunnel_ID, msg): in place when the buffer has    *)
(* room before the header, else a copy.                                    *)
WrapTunnelGatewayMsg(tid, m, rnd) ==
  IF m.offset >= HeaderSize + GatewayHeaderSize
  THEN FillI2NPMessageHeader(m.offset - (HeaderSize + GatewayHeaderSize), m.cap,
         TunnelGateway, 0, rnd, Bytes(tid, 4) \o Bytes(Len(m.bytes), 2) \o m.bytes)
  ELSE CreateTunnelGatewayMsg(tid, m.bytes, rnd)

(* CreateTunnelGatewayMsg(tunnel_ID, type, buf, len, reply): the content    *)
(* message is built past room for the gateway header, which then goes     *)
(* in front of it.                                                         *)
CreateTunnelGatewayMsgFor(tid, type, data, reply, rnd) ==
  LET inner == Header(type, IF reply # 0 THEN reply ELSE rnd, Len(data)) \o data
  IN FillI2NPMessageHeader(InitialOffset, NewI2NPMessage(Len(data)), TunnelGateway,
       0, rnd, Bytes(tid, 4) \o Bytes(Len(inner), 2) \o inner)
=============================================================================
