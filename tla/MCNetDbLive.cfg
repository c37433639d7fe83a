CONSTANTS
  IdentBits <- MCIdentBits
  RoutingKey <- MCRoutingKey
  NoRouter = NoRouter
  Idents <- MCTwoIdents
  FloodfillIdents <- MCTwoIdents
  Reachable <- MCReachable
  TrackLife = TRUE
  TrackSent = FALSE
  ExploreKeys = {}
  Callers = {c1}
  RequestTimeout <- MCRequestTimeout
  RetryDelay <- MCRetryDelay
  MaxAttempts <- MCMaxAttempts
  ExploreCount <- MCExploreCount
  GenMod <- MCGenMod
  MaxQueue <-   MCMaxQueue
  RequestBound <- OneRequest
CONSTRAINT NetConstraint
SPECIFICATION Spec
PROPERTY RequestsRetire
INVARIANT TypeOK
