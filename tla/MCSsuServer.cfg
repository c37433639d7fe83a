\* Receive path, sessions and introducers; the peer-test table is in
\* MCSsuPeerTests.cfg.
CONSTANTS
  Endpoints <- MCEndpoints
  NoAddress = NoAddress
  NoSession = NoSession
  NoRouter = NoRouter
  Routers <- MCRouters
  IntroducerRouters <- MCIntroducerRouters
  RelayTags = {7}
  Nonces = {}
  Roles = {"alice", "bob"}
  RouterStates <- MCRouterStates
  MaxIntroducers = 1
  ToIntroducerSessionDuration = 1
  KeepAliveInterval = 1
  PeerTestTimeout = 1
  MaxBatch = 2
  MaxPending = 1
  MaxTime = 2
SPECIFICATION Spec
INVARIANTS TypeOK FlushedAfterBatch
