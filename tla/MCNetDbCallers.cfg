CONSTANTS
  IdentBits <- MCIdentBits
  RoutingKey <- MCRoutingKey
  NoRouter = NoRouter
  Idents <- MCTwoIdents
  FloodfillIdents <- MCTwoIdents
  Reachable <- MCReachable
  TrackLife = FALSE
  TrackSent = TRUE
  ExploreKeys <- MCExploreKeys
  Callers = {c1}
  RequestTimeout <- MCRequestTimeout
  RetryDelay <- MCRetryDelay
  MaxAttempts <- MCMaxAttempts
  ExploreCount <- MCExploreCount
  GenMod <- MCGenMod
  MaxQueue <-   MCMaxQueue
  RequestBound <- OneRequest
CONSTRAINT NetConstraint
SPECIFICATION Spec
INVARIANT NoFloodfillQueriedTwice
