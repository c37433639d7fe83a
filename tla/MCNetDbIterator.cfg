CONSTANTS
  IdentBits <- MCIdentBits
  RoutingKey <- MCRoutingKey
  NoRouter = NoRouter
  Idents <- MCIdents
  FloodfillIdents <- MCFloodfillIdents
  Reachable = {}
  TrackLife = FALSE
  TrackSent = TRUE
  ExploreKeys = {}
  Callers = {c1}
  RequestTimeout <- MCRequestTimeout
  RetryDelay <- MCRetryDelay
  MaxAttempts <- MCMaxAttempts
  ExploreCount <- MCExploreCount
  GenMod <- MCGenMod
  MaxQueue <-   MCMaxQueue
  RequestBound <- OneRequest
CONSTRAINT NetConstraint
SPECIFICATION Spec
PROPERTY IteratorNeverStale
