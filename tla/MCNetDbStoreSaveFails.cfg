\* NetDbStore: SaveUpdated drops the buffer of a router whose SaveToFile failed.
CONSTANTS
  IdentBits <- MCIdentBits
  RoutingKey <- MCRoutingKey
  NoRouter = NoRouter
  Idents <- MCIdents
  LeaseSetKeys <- MCLeaseSetKeys
  Me = 3
  IntroducerIdents <- MCIntroducerIdents
  WeAreFloodfill = FALSE
  MaxAge = 2
  RouterMinGracePeriod = 0
  RouterMaxGracePeriod = 1
  RouterUnreachableThreshold = 1
  MaxRouterUnreachable = 2
  MinRouterUnreachable = 1
  MaxExcludedPeers = 1
  SizeBits = 16
SPECIFICATION Spec
INVARIANT RouterInfoRetrievable
CONSTRAINT ListBound
