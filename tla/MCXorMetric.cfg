CONSTANTS
  IdentBits <- MCIdentBits
  RoutingKey <- MCRoutingKey
  NoRouter = NoRouter
SPECIFICATION Spec
INVARIANT ClosestFloodfillIsNearest
INVARIANT ClosestFloodfillsSound
