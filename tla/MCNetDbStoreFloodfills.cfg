CONSTANTS
  IdentBits <- MCIdentBits
  RoutingKey <- MCRoutingKey
  NoRouter = NoRouter
  Idents <- MCIdents
  LeaseSetKeys <- MCLeaseSetKeys
  Me = 3
  IntroducerIdents <- MCIntroducerIdents
  WeAreFloodfill = FALSE
  MaxAge = 3
  RouterMinGracePeriod = 1
  RouterMaxGracePeriod = 2
  RouterUnreachableThreshold = 1
  MaxRouterUnreachable = 2
  MinRouterUnreachable = 1
  MaxExcludedPeers = 1
  SizeBits = 16
SPECIFICATION Spec
INVARIANT FloodfillListInTable
CONSTRAINT ListBound
