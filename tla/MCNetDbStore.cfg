CONSTANTS
  IdentBits <- MCIdentBits
  RoutingKey <- MCRoutingKey
  NoRouter = NoRouter
  Idents <- MCIdents
  LeaseSetKeys <- MCLeaseSetKeys
  Me = 3
  IntroducerIdents <- MCIntroducerIdents
  WeAreFloodfill = FALSE
  MaxAge = 2
  RouterMinGracePeriod = 0
  RouterMaxGracePeriod = 1
  RouterUnreachableThreshold = 1
  MaxRouterUnreachable = 2
  MinRouterUnreachable = 1
  MaxExcludedPeers = 1
  SizeBits = 16
SPECIFICATION Spec
INVARIANTS
  ExploratoryReplyNearest
  PublishToNearestTwo
CONSTRAINT ListBound
