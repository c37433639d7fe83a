\* The peer-test table and its cleanup timer, through Stop, with one
\* directly reachable endpoint and no received packets.
CONSTANTS
  Endpoints <- MCOneEndpoint
  NoAddress = NoAddress
  NoSession = NoSession
  NoRouter = NoRouter
  Routers <- MCDirectRouters
  IntroducerRouters <- MCDirectRouters
  RelayTags = {7}
  Nonces = {1, 2}
  Roles = {"alice", "bob"}
  RouterStates <- MCRouterStates
  MaxIntroducers = 1
  ToIntroducerSessionDuration = 1
  KeepAliveInterval = 1
  PeerTestTimeout = 1
  MaxBatch = 2
  MaxPending = 0
  MaxTime = 4
SPECIFICATION Spec
INVARIANTS TypeOK PeerTestsExpire
