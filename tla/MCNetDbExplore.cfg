CONSTANTS
  IdentBits <- MCIdentBits
  RoutingKey <- MCRoutingKey
  NoRouter = NoRouter
  Idents <- MCIdents
  FloodfillIdents <- MCFloodfillIdents
  Reachable <- MCReachable
  TrackLife = FALSE
  TrackSent = TRUE
  ExploreKeys <- TwoExploreKeys
  Callers = {}
  RequestTimeout <- MCRequestTimeout
  RetryDelay <- MCRetryDelay
  MaxAttempts <- MCMaxAttempts
  ExploreCount <- TwoExplorations
  GenMod <- MCGenMod
  MaxQueue <-   MCMaxQueue
CONSTRAINT NetConstraint
SPECIFICATION Spec
INVARIANT ExcludedWereQueried
