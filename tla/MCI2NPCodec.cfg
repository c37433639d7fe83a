CONSTANTS
  HashLen = 2
  HeaderSize = 16
  InitialOffset = 2
  ShortMax = 96
  LongMax = 192
  GatewayHeaderSize = 6
  MaxExcludedPeers = 1
  RouterInfoMaxBuffer = 48
  DatabaseStore = 1
  DatabaseLookup = 2
  DatabaseSearchReply = 3
  TunnelGateway = 19
  DeliveryFlag = 1
  EncryptionFlag = 2
  TypeMask = 12
  LeaseSetLookup = 4
  RouterInfoLookup = 8
  ExploratoryLookup = 12
  Idents = {1, 2}
  TunnelIDs = {0, 258}
  Tokens = {0, 300}
  Sizes = {3, 40}
  RemoteSizes = {3, 90}
  ReplyIDs = {0, 9}
  Rand = 5
  Me = 3
  DeliveryStatus = 10
  Garlic = 11
  TunnelData = 18
  TunnelBuild = 21
  TunnelBuildReply = 22
  VariableTunnelBuild = 23
  VariableTunnelBuildReply = 24
  RawTypes = {10, 11, 18, 20, 23}
  MaxPut = 2
SPECIFICATION Spec
INVARIANT StoreRoundTrip
INVARIANT LookupRoundTrip
INVARIANT SearchReplyRoundTrip
INVARIANT GatewayCarriesMessage
INVARIANT DeliveredOnce
