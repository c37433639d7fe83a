CONSTANTS
  IdentBits <- MCIdentBits
  RoutingKey <- MCRoutingKey
  NoRouter = NoRouter
  Idents <- MCIdents
  FloodfillIdents <- MCFloodfillIdents
  Reachable <- MCReachable
  TrackLife = FALSE
  TrackSent = TRUE
  ExploreKeys <- MCExploreKeys
  Callers = {}
  RequestTimeout <- MCRequestTimeout
  RetryDelay <- MCRetryDelay
  MaxAttempts <- MCMaxAttempts
  ExploreCount <- MCExploreCount
  GenMod <- MCGenMod
  MaxQueue <-   MCMaxQueue
CONSTRAINT NetConstraint
SPECIFICATION Spec
INVARIANT TypeOK
INVARIANT NoFloodfillQueriedTwice
