CONSTANTS
  IdentBits <- MCIdentBits
  RoutingKey <- MCRoutingKey
  NoRouter = NoRouter
  Idents <- MCIdents
  FloodfillIdents <- MCFloodfillIdents
  Reachable <- MCReachable
  TrackLife = TRUE
  TrackSent = TRUE
  ExploreKeys <- MCExploreKeys
  Callers = {}
  RequestTimeout <- MCLongTimeout
  RetryDelay <- MCRetryDelay
  MaxAttempts <- MCMoreAttempts
  ExploreCount <- MCExploreCount
  GenMod <- MCGenMod
  MaxQueue <-   MCMaxQueue
CONSTRAINT NetConstraint
SPECIFICATION Spec
PROPERTY NoLookupAfterTimeout
