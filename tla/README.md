# TLA+ models of the xi2p network database

This directory holds TLA+ models of the core of xi2p. That core is the
network database (NetDb), its request tracker, the XOR-metric floodfill
selection, the I2NP message layer and the tunnel-build record processor.
It also holds the TLC configurations that check the models. `PROJECT.json`
lists the components, the runs, the mutants, the mapping from every modelled
definition to its source lines, the findings and the hazards.

Run a check from this directory: `tlc -workers 2 -config <cfg> <module>`.

## 1. The system

| Part | Source | State | Operations |
|---|---|---|---|
| XOR metric and floodfill selection | `identity.h` (XORMetric), `net_db/impl.cc` 945-1026 | the floodfill list `m_Floodfills` in insertion order | GetClosestFloodfill, GetClosestFloodfills, GetClosestNonFloodfill, the 3-round store flood |
| Request tracker | `net_db/requests.cc` | `m_RequestedDestinations`: key -> RequestedDestination (excluded peers, creation time, exploratory flag, completion callback) under one mutex | CreateRequest, CreateRequestMessage, Success/Fail, RequestComplete, FindRequest, ManageRequests |
| NetDb worker | `net_db/impl.cc` | RouterInfo table, floodfill list, LeaseSets, inbound queue `m_Queue`, four timers | Run, HandleDatabaseStore/SearchReply/LookupMsg, AddRouterInfo, Explore, Publish, SaveUpdated, RequestDestination |
| I2NP codec | `i2np.cc` 59-345, 586-683 | message buffers of two capacity tiers (short, long) | NewI2NPMessage, FillI2NPMessageHeader, CreateI2NPMessage, the Create*Msg builders, CreateTunnelGatewayMsg |
| I2NP dispatch | `i2np.cc` 685-802 | the handler's TunnelData and TunnelGateway vectors | HandleI2NPMessage (shared and raw), I2NPMessagesHandler::PutNextMessage, Flush, the destructor |
| Tunnel-build processor | `i2np.cc` 347-583 | the transit-tunnel table | HandleBuildRequestRecords, HandleVariableTunnelBuildMsg, HandleTunnelBuildMsg, the reply handlers |
| Byte streams | `util/byte_stream.cc` 52-153 | a cursor (`m_DataPtr`, `m_Length`, `m_Counter`) over a buffer | the constructors, Advance, WriteData, ReadBytes, both SkipBytes |
| SSU server | `transports/ssu/server.cc` | sessions by endpoint, relay tags, introducers, the peer-test table, posted packet batches, two timers | Start, Stop, HandleReceivedFrom, HandleReceivedPackets, GetSession, DeleteSession, AddRelay, the introducers timer with FindIntroducers, NewPeerTest, UpdatePeerTest, RemovePeerTest, the peer-test cleanup timer |

How the parts interact:

- One NetDb thread runs `NetDb::Run`. It drains `m_Queue` (stores, search
  replies, lookups) and, between batches, fires the ManageRequests, Save,
  Publish and Explore timers.
- Other threads call `NetDb::RequestDestination` directly.
  - Their `CreateRequest` is locked.
  - Their `RequestComplete` is not: an unlocked `find`, the callback, and
    then a locked `erase`.
- Floodfills answer lookups with a DatabaseStore or a DatabaseSearchReply.
  A lookup or its answer may be lost.
- Tunnels come and go, and transports connect and disconnect peers.

Hard behaviours in this code:

- the interleaving of caller threads with the NetDb thread on the request map;
- lookups and replies that are lost or arrive late;
- timeouts racing answers;
- retries that reset the request's age;
- loops that stop part-way (`Explore`);
- selection loops whose exclusion sets do not grow as intended;
- counters at their limits (the transit-tunnel limit, the message read cap).

## 2. Modules

### XorMetric (pure operators) and MCXorMetric

- **Hashes.** An identity hash is a 3-bit number.
  - `XORMetric` compares with `memcmp`, which is the same as comparing
    big-endian numbers, so `Metric(key, ident) == key ^^ ident`.
  - The SHA-256 `CreateRoutingKey` is the constant `RoutingKey`, a fixed
    permutation in the MC module.
- **ScanClosest / GetClosestFloodfill.** This is the loop of
  `GetClosestFloodfill`: it starts from `min_metric.SetMax()`, keeps a
  strictly smaller metric, and skips unreachable and excluded floodfills.
- **ScanSorted / GetClosestFloodfills.** This is the bounded `std::set`
  scan. The worst entry is evicted, and excluded floodfills are dropped only
  after the scan.
- **FloodTargets.** This is the three rounds of the store flood in
  `HandleDatabaseStoreMsg`. No run checks it: that the flood sends to the
  same floodfill three times is a one-message unit test (section 3).
- **XorTable, Ascending.** The metric is tabulated once, and `Ascending`
  sorts by rank; the NetDbStore invariants use both to stay fast.
- **Reference definitions.** `Eligible`, `NearestRef`, `NClosestRef` and
  `NearestSet` state what a Kademlia lookup asks for.
- **MCXorMetric.** Init enumerates:
  - every floodfill list of 1-4 routers from {1,2,4,7}, in every order;
  - targets {0,3,5};
  - counts {2,3}, where 3 is what `HandleDatabaseLookupMsg` asks for;
  - no unreachable floodfill, or one.

  The steps then grow the excluded set one floodfill at a time, as a
  lookup's `m_ExcludedPeers` grows, or clear it (31,200 states).

### TunnelBuild and MCTunnelBuild

`TunnelBuild` models the build-message handlers of the tunnel thread
(`i2np.cc` 347-583). `HandleI2NPMessage` posts build messages to that
thread, so it handles them one at a time, and each handler is one action.

| Variable | Code |
|---|---|
| `inbox` | the build message the tunnel thread is handling (at most one) |
| `transit` | `tunnels.GetTransitTunnels().size()` |
| `accepts` | `context.AcceptsTunnels() && !transports.IsBandwidthExceeded()` |
| `pendingIn`, `pendingOut` | reply IDs in the pending inbound / outbound tables |
| `built` | our tunnels in state Established |
| `sent` | the message the last step forwarded (a set of at most one) |

- A record is abstracted to whom it is for, whether its ElGamal block
  decrypts, its 0x40 flag, its reply byte and the number of CBC passes over
  it. A message has a kind, a reply ID, the record count the code uses
  (`buf[0]`, or `NUM_TUNNEL_BUILD_RECORDS`) and the records really present.
- `HandleBuildRequestRecords` is an operator. It finds the first record
  addressed to us, tests `size() <= MAX_NUM_TRANSIT_TUNNELS`, writes 0 or
  30, and encrypts records 1..num. An exception may be thrown in
  `CreateTransitTunnel`, before the tunnel is added, or in the CBC pass,
  after it. Either way it is rethrown and nothing is sent.
- The result of `ElGamalDecrypt` is ignored. When decryption fails, the
  0x40 flag is read from the caller's `clear_text`: zeros in
  `HandleVariableTunnelBuildMsg`, and uninitialized stack bytes (any value)
  in `HandleTunnelBuildMsg`.
- `HandleTunnelBuildResponse`, the pending tables and the transit table are
  in tunnels code outside src/. A response is established or declined.
  The environment actions are `Receive`, `StartOwnBuild`,
  `PendingCleanup`, `TransitExpires` and `AcceptanceChange`.
- **MCTunnelBuild** uses a transit limit of 1, two records in a
  TunnelBuild, at most two records in a buffer with a count byte of up to
  three, and one reply ID. That ID is a stranger's until our own build
  takes it (24k states, 9 s). Every handler branch is reached: ours first
  or second, accepted and rejected, thrown, endpoint or not, and count
  above the records present.

### NetDb and MCNetDb

`NetDb` models the request tracker, the NetDb thread, caller threads and
the network.

**Variables**

| Variable | Code |
|---|---|
| `known` | the keys of `m_RouterInfos` |
| `floodfills` | `m_Floodfills` |
| `requests` | `m_RequestedDestinations`; each entry is a record (below) |
| `queue` | `m_Queue` |
| `net` | lookups in flight |
| `tunnels` | the exploratory pool has both an outbound and an inbound tunnel |
| `connected` | `transports.IsConnected` |
| `owed` | objects whose `m_RequestComplete` is still set |
| `pc`, `target`, `iter` | each caller thread's step and locals |

An entry of `requests` is a record:

- `excluded` is `m_ExcludedPeers`.
- `age` is now minus `m_CreationTime`, in seconds, saturated at
  `RequestTimeout`.
- `gen` tells objects apart. `NewGen` hands out the least number in
  `0..GenMod-1` that no live object, no object of the pre-state and no
  caller's iterator holds (`UsedGens`), as `make_shared` never returns the
  address of a live object.
- `life` and `sent` are history: the age since the object was made, and the
  floodfills a lookup really went to.

**Operators and actions**

- The tracker functions are operators on a record
  `T = [requests, net, owed]`. Each handler is one atomic action
  that applies them in the code's order, the trailing `RequestComplete`
  calls included.
  - NetDb thread: `HandleDatabaseStoreMsg` (with `AddRouterInfo`),
    `HandleDatabaseSearchReplyMsg`, `ManageRequestsTimer`, `ExploreTimer`
    (`ManageRequests` then `Explore`, a fold over the random hashes).
  - Caller threads: `CallerRequest` (the locked `CreateRequest`),
    `CallerLookup` (`GetClosestFloodfill` with the request's excluded
    set, its answer kept in `chosen`), `CallerSend` (`CreateRequestMessage`,
    which inserts that floodfill into `m_ExcludedPeers`, and the send),
    `CallerFind` (the unlocked find), `CallerFail`, `CallerErase` (the
    locked erase). The caller holds no lock between its
    `GetClosestFloodfill` and its `CreateRequestMessage`, so these are two
    steps, and the NetDb thread may run between them.
- A `Fail()` or `erase` through an iterator whose entry is gone is undefined
  behaviour. The model lets it do nothing.
- `Tick` is one second of time.
- The environment:
  - `FloodfillAnswer` answers a lookup with a Store, or with a SearchReply
    listing at most one peer;
  - `LookupLost` drops a lookup;
  - `UnsolicitedStore` delivers a store nobody asked for;
  - `TunnelsChange` and `ConnectionChange` flip tunnels and connections.

**Fairness.** Weak fairness is assumed for:

- the NetDb thread's message handling and its ManageRequests timer. Run
  loops forever and its wait has a timeout.
- `Tick`;
- each caller thread's steps after `CreateRequest`.

The floodfills and the network get no fairness.

**Constants.** `MCNetDb` uses:

- three floodfills {1,2,4} (`MaxAttempts` only binds with at least three).
  `netdb_callers` and `netdb_retire` use two, {1,2} (`MCTwoIdents`), with
  floodfill 1 directly connectable (`MCReachable`). A retry that must pick a
  second floodfill, and one that finds none left, both happen with two.
  The third floodfill only multiplies the states that the caller thread
  interleaves with;
- one random hash for Explore (none in the liveness run, whose caller
  thread already brings a request of every kind the property is about);
- `RequestTimeout = 2` and `RetryDelay = 0` for the real 60 and 5;
- `MaxAttempts = 2` for 7;
- one queue slot.

These bounds are state constraints:

- at most one lookup in flight (`NetBound`);
- at most two requests at once (`RequestBound`); runs with a caller thread,
  and the liveness run, use one.

The real timers keep `MaxAttempts * (RetryDelay + 1)` below `RequestTimeout`
(7 * 6 < 60), and so do the model's. With these bounds every branch of
ManageRequests, SearchReply and Explore is reached. The runs fire every
action.

`TrackLife` keeps the history field `life`. It is only enabled for the two
runs that read it. `TrackSent` keeps the history field `sent`. It is off in
the liveness run, where a retry loop would make the history grow without
bound.

### LookupTracker: the abstract request tracker

`LookupTracker` states what `NetDbRequests` promises, without timers,
messages or threads: a map from keys to `[gen, exploratory, tried]` in which
`tried` only grows while the object lives. `NetDb` refined it through a
mapping of each request to its `gen`, `exploratory` flag and
`m_ExcludedPeers`. The module is kept but no run checks it any more: the
only thing the refinement said of the code was that `CreateRequestMessage`
inserts into the set, which `ExcludingNoInsert` already breaks through
`RequestsRetire`.

### NetDbStore and MCNetDbStore

`NetDbStore` models the tables of `impl.cc` and their persistence, and the
two handlers that read them: the lookup responder and Publish.

| Variable | Code |
|---|---|
| `routers` | `m_RouterInfos`: ident -> floodfill cap, age in `MaxAge` steps, `IsUpdated`, `IsUnreachable` |
| `floodfills` | `m_Floodfills` as a sequence of `[id, live]`; `live` is FALSE once the router it points to has been erased from `m_RouterInfos` |
| `disk` | the RouterInfo files: ident -> the saved cap and age |
| `leasesets` | `m_LeaseSets`: key -> all leases expired |
| `running`, `started`, `armed` | `m_IsRunning`; the startup grace is over; the save timer has fired once since Start (`Run` saves from the second firing on) |

Actions, each a whole function of the code:

- `AddRouterInfo(i, ff)`: a new router is inserted, updated, and appended
  to the floodfill list if it has the cap; a known one is updated in place
  (caps included) if the store is newer, and the floodfill list is left
  alone.
- `AddLeaseSet`, `SetUnreachable`, and `LeaseSetExpires` / `Tick` /
  `StartupOver` for time.
- `SaveTimer`: `SaveUpdated` then `ManageLeaseSets`. `SaveUpdated` is a
  RECURSIVE walk over the routers in key order (`SaveLoop` / `SaveOne`):
  an updated router is saved; otherwise the age rules (`AgeRule`: the
  floodfill, many-routers and few-routers branches) and the introducer
  rule decide eviction. The counter `total` is a `size_t` and `Dec`
  decrements it modulo `2^SizeBits`. `SaveEnd` erases the unreachable
  routers only if some file was removed, as the code does. `SaveToFile`
  may fail (disk full, directory unwritable): `SaveTimer` chooses the set
  of failing saves among the routers saved for the first time. The code
  ignores the result, so the file is not written but the flags are cleared
  and the buffer deleted all the same. A failed rewrite of an existing file
  (which leaves the older copy behind) is not tried; it would triple the
  state space.
- `Stop` clears the tables and keeps the files; `Start` runs `Load`, which
  rebuilds the table and floodfill list from the files and drops expired
  introducer routers.
- `HandleDatabaseLookupMsg(key, type, excluded)` and `Publish` are
  operators, not actions: their reply depends only on the state, so the
  invariants quantify over every lookup instead of storing a reply.

Constants: two routers (`MCIdents = {1,2}`, router 2 an introducer), one
LeaseSet key, `Me = 3`. Grace periods are 0 and 1, and `MaxAge = 2` (the
floodfill-orphan run keeps 1, 2 and 3). Ages 0, 1 and 2 are enough to fall
below, between and above the two periods, which is all `Expired` compares.
The unreachable threshold is 1, and `MaxExcludedPeers = 1`. Orphaned floodfill
entries grow the list without end, so `ListBound` keeps it at two entries.
The `Time::` and `Size::` values are defined outside src/; the model keeps
their order (`RouterMinGracePeriod < RouterMaxGracePeriod`) and lets the
thresholds be small so every branch of `AgeRule` is taken (427k states,
1.5 minutes).

### I2NPCodec and MCI2NPCodec

`I2NPCodec` models the message layer of `i2np.cc` and the code in
`impl.cc` that reads it. A message is a record `[offset, cap, bytes]`:

- `bytes` holds what `GetBuffer()` points at: the header of spec.md
  section 6, then the payload;
- `offset` is where that is in the buffer;
- `cap` is the buffer's `max_len`.

Bytes are integers, written and read big-endian by `Bytes` and
`ReadBytes`. The layouts therefore carry their real offsets. An ident
hash h is `HashLen` bytes of value h. A compressed RouterInfo or a
LeaseSet is an opaque blob. Expiration and checksum are zero bytes. A
reader that runs past the written length reads zeros (`ByteAt`).

Operators:

- the writers: `CreateI2NPMessage` (the tier choice of `NewI2NPMessage`
  and the dropped oversized payload), `FillI2NPMessageHeader`, both
  `DatabaseLookup` writers, `CreateDatabaseSearchReply`, both
  `CreateDatabaseStoreMsg`, and the three `CreateTunnelGatewayMsg` forms;
- `ReceiveI2NPMessage`, the copy of a received message;
- the readers: `ParseStore`, `FloodMsg`, `ParseLookup` and
  `ParseSearchReply`, the reading parts of the three NetDb handlers.

`MCI2NPCodec` writes one message per step. A step may also take the last
message on:

- as a floodfill does (`Flood`, for a store with a token);
- as the lookup responder does when it answers through a tunnel gateway
  (`WrapReply`, `impl.cc` 766).

`ReceiveStore` is a store from another router. It may be longer than
anything we write, up to what a transport frames.

The variable `sent` records what the reader should get back.

Constants:

- `HashLen = 2` for 32;
- `ShortMax = 96` and `LongMax = 192` for 4 KB and 32 KB. The real header
  (16) and gateway header (6) keep their sizes, so `ShortMax` must stay
  large enough that the tier rule holds as it does in the code.
- `RouterInfoMaxBuffer = 48` for half the short tier;
- one excluded peer allowed (`MaxExcludedPeers = 1`), so lookups with two
  excluded peers take the over-cap branch;
- the multi-byte token 300 and tunnel ID 258, so that byte order matters.

`WrapTunnelGatewayMsg`'s in-place branch needs a message with 22 bytes of
room before its header. No writer in src/ makes one, and the model never
takes that branch.

### I2NPDispatch, composed in MCI2NPCodec

`I2NPDispatch` extends `I2NPCodec` with the receiving side of `i2np.cc`
(685-802). A message handed over is an item `[n, type, from]`:

- `n` is the order in which it was put;
- `type` is `GetTypeID`, the first header byte the writer put in;
- `from` is `msg->from`: none, a local destination with a live tunnel
  pool, or one whose pool is gone.

`posted[d]` is the sequence subsystem `d` received: the tunnel thread
(`PostTunnelData`), the NetDb (`PostI2NPMsg`), a tunnel pool, the router
context, or "dropped" for what the code logs and discards. What those
subsystems then do is outside src/.

- `Route` is the shared-message switch of `HandleI2NPMessage`. Its
  default case calls the raw-buffer switch, `RawRoute`. The build cases of
  `RawRoute` are never reached that way, because the shared switch sends
  every build type to the tunnel thread first.
- `PutNextMessage` holds TunnelData and TunnelGateway messages in two
  vectors and dispatches all others at once.
- `Flush` posts the TunnelData vector, then the TunnelGateway vector, and
  clears both. The destructor calls it again (`FlushHandler`).

In `MCI2NPCodec`, `Receive` puts the last written message into the handler.
The router sends at most `MaxPut = 2` messages, and the writer stops at that
bound. Two messages are enough to hold both vectors at once, to flush twice
(as an explicit `Flush` followed by the destructor does), and to mix a
held message with one dispatched at once. `RawTypes` adds DeliveryStatus,
Garlic, TunnelData, VariableTunnelBuild and the unhandled Data type (20),
written with `CreateI2NPMessage`. Garlic and DeliveryStatus are put with
every origin.

No fairness is assumed. When the handler's owner destroys it, and so when
the destructor's `Flush` runs, is decided in the transports, outside src/;
the runs check safety only.

### SsuServer and MCSsuServer

`SsuServer` models `transports/ssu/server.cc`. One io_service runs every
handler; a handler is one step.

| Variable | Code |
|---|---|
| `running`, `socketOpen`, `receiving` | `m_IsRunning`, the IPv4 socket, an outstanding `async_receive_from` |
| `sessions` | `m_Sessions`: endpoint -> [state, creation time, relay tag] |
| `relays`, `introducers`, `peerTests` | `m_Relays`, `m_Introducers`, `m_PeerTests` |
| `pending` | batches posted to `HandleReceivedPackets` and not yet run |
| `introDeadline`, `testDeadline` | the two timers' expiry, or `NoTimer` |
| `clock` | seconds since the epoch |
| `dirty` | sessions given a packet by a batch and not flushed since |

Actions:

- `Start` arms both timers and starts the receive loop. `Stop` deletes all
  sessions and closes the socket; it cancels no timer and drops no posted
  batch.
- `HandleReceivedFrom` posts a batch of up to `MaxBatch` packets.
- `HandleReceivedPackets` folds `PacketStep` over the batch (`ProcessPackets`,
  RECURSIVE). Any packet's `ProcessNextMessage` may throw, or may close the
  session, which erases it from the table.
- `GetSession` is the whole lookup-or-create, including the introducer path
  and the erase when a router lists no introducers. The transports call it
  (`TransportsGetSession`), and so does the introducers timer.
- `HandleIntroducersUpdateTimer` covers all three router states.
  `FindIntroducers` returns at most one session, because its loop breaks at
  the first.
- `HandlePeerTestsCleanupTimer` erases the expired tests and rearms.
- `SessionEstablished`, `RouterStateChange` and `Tick` are the environment.
  `Tick` does not pass a due timer, so timers fire on time.

The receive path and the peer-test table are independent except through
sessions, and checking them together multiplies the state space past what
TLC can explore. There are therefore two passing configurations:

- `MCSsuServer.cfg`: two endpoints; four routers (direct, through an
  introducer, listing no introducers, no SSU address); batches of up to two
  packets; `MaxIntroducers = 1`; a one-second introducer session life;
  three seconds. No peer tests.
- `MCSsuPeerTests.cfg`: one endpoint, two nonces, two roles, and a timeout
  of one second over four seconds. A test can therefore pass through two
  cleanups before time stops.

`MCSsuStop.cfg` is the receive configuration, checked for
`NoSessionAfterStop`. Whether the io_service keeps running after `Stop` is
decided by its owner, outside src/. In the window before that owner stops
it, a firewalled router's introducers timer calls `GetSession`, and a batch
already posted creates sessions. `DeleteAllSessions` has already run, so
nothing closes them.

### ByteStream and MCByteStream

`byte_stream.cc` holds the cursors that build and parse messages.

- **State.** A cursor is a record with these fields:
  - `ptr` is `m_DataPtr`, an offset into the buffer;
  - `length` is `m_Length`;
  - `counter` is `m_Counter`;
  - `size` is the length it was built with.

  `length` and `counter` are size_t, so they are kept modulo `SizeMax`.
- **Buffer.** `buf` holds the buffer's bytes and starts with any contents,
  as a reused or freshly reserved buffer does.
- **Streams.** One `OutputByteStream` writes and then one `InputByteStream`
  reads the same buffer. Two ghost variables record what happened:
  - `written` is what the writer's successful calls asked for;
  - `reads` is every `ReadBytes` result, with its offset.
- **Actions.**
  - `NewOutput` and `NewInput` are the constructors. A null pointer throws
    `invalid_argument`, and a zero length throws `length_error`.
  - `WriteData` has its null and zero checks, saves the pointer, calls
    `Advance`, and then copies or memsets.
  - `OutSkipBytes` is `WriteData(nullptr, len, true)`.
  - `ReadBytes` saves the pointer and then calls `Advance`.
  - `InSkipBytes` is `Advance`.
- **Advance.** `AdvanceOk` is `Advance`'s guard. `Advanced` is its three
  assignments. The asserts are left out, as in a release build, where the
  guard is the only check.
- **Exceptions.** A thrown exception is recorded in `err`, and the object
  stays as it was.

**MCByteStream** uses a 3-byte buffer and byte values {1, 2}. Lengths run
0..4, so every guard is tried at zero, at the end and one past it. size_t is
3 bits wide, so a wrap-around stays visible.

## 3. Runs

| Run | cfg | Expect | What it shows |
|---|---|---|---|
| xor_selection | MCXorMetric.cfg | pass | GetClosestFloodfill returns the nearest eligible floodfill. GetClosestFloodfills returns a strictly sorted prefix of the nearest eligible ones, at most num. |
| netdb_callers | MCNetDbCallers.cfg | violation | `NoFloodfillQueriedTwice` fails in 7 steps: the caller creates a request; time passes and a store makes floodfill 2 known; the caller's `GetClosestFloodfill` picks floodfill 2; `ManageRequests` on the NetDb thread retries the request and picks floodfill 2 too, whose exclusion the caller has not yet inserted; then the caller's `CreateRequestMessage` and send query floodfill 2 again. spec.md says a floodfill is never queried twice for the same lookup. |
| netdb_retire | MCNetDbLive.cfg | pass | Liveness: with a caller thread and the NetDb thread both driving requests, every request object eventually leaves the map (`RequestsRetire`), and the request map stays well typed, with no request sent to a missing floodfill (`TypeOK`). 134K states, 1.5 minutes. |
| netdb_stale_iterator | MCNetDbIterator.cfg | violation | A caller's unlocked find returns an iterator that the NetDb thread erases before `Fail()` and `erase`. |
| netdb_store | MCNetDbStore.cfg | pass | Through stores, cap changes, transport failures, save passes with failing first saves, lease expiry and restarts from disk: an exploratory lookup is answered with the three nearest non-floodfills not excluded (`ExploratoryReplyNearest`); Publish goes to the two nearest live floodfills (`PublishToNearestTwo`). |
| netdb_floodfill_orphan | MCNetDbStoreFloodfills.cfg | violation | A floodfill stored, updated without the cap, then unreachable is erased by `SaveUpdated` while its entry stays in `m_Floodfills` (8 steps). |
| i2np_codec | MCI2NPCodec.cfg | pass | The readers of `impl.cc` take out of a DatabaseStore (ours, a peer's, or its flood), a DatabaseLookup, a DatabaseSearchReply or a TunnelGateway message what the writers of `i2np.cc` put in, through every reply-block, delivery-flag and tier variant. Every message handed to `I2NPMessagesHandler` is held or posted exactly once, to a handler that the table in spec.md section 4.1 names for its header type (`DeliveredOnce`). 9,011 states, 25 s. |
| tunnel_build | MCTunnelBuild.cfg | pass | Every forwarded batch has exactly one reply record, at the first record addressed to us, and every record is encrypted once. The transit table stays within `MAX_NUM_TRANSIT_TUNNELS + 1`, as the spec's `<=` allows. |
| ssu_receive | MCSsuServer.cfg | pass | Batches from two endpoints, with exceptions and sessions closed mid-batch, leave no session unflushed (`FlushedAfterBatch`). Transports open sessions directly and through an introducer, the introducers timer runs in every router state, and Stop may come at any point; the introducer list stays within `MaxIntroducers` (`TypeOK`). 130K states, 30 s. |
| ssu_peer_tests | MCSsuPeerTests.cfg | pass | New, updated and removed peer tests, Stop and the cleanup timer: no peer test outlives twice `PeerTestTimeout` (`PeerTestsExpire`), and an update never creates an entry. 116K states, 8 s. |
| byte_stream | MCByteStream.cfg | pass | Every sequence of constructor, write, skip and read calls on a 3-byte buffer, with lengths from 0 to one past the buffer, keeps both cursors inside their streams with `m_Counter + m_Length` equal to the stream length (`NoOverrun`). The reader gets back the bytes the writer wrote, zeros for skipped bytes included (`RoundTrip`). A call that throws changes neither the buffer nor a cursor (`FailedCallUnchanged`). 16K states, 4 s. |
| ssu_stop | MCSsuStop.cfg | violation | Stop deletes all sessions, but the introducers timer it leaves armed creates one again (6 steps): `NoSessionAfterStop` fails. |

Each property of a passing run has a mutant in `PROJECT.json`: a plausible
bug in the mapped code that the run then catches.

- `ScanClosestNoExclude` forgets the excluded set.
- `ScanSortedOffByOne` tests `<= num`.
- `RequestDestinationNoCheck` drops `if (floodfill)`; the caller then
  sends to no floodfill, and `TypeOK` fails.
- `ExcludingNoInsert` never grows `m_ExcludedPeers`. The request is then
  retried forever, each retry resetting its age, and `RequestsRetire`
  fails.
- `ExploreRoundsNoExclude` forgets to exclude a round's answer from the
  next round.
- `PublishTargetsNoExclude` asks for the second floodfill without
  excluding the first.
- `CreateDatabaseStoreMsgLSKeepToken` keeps the token of a LeaseSet store
  with no live lease; the reader then takes LeaseSet bytes for a reply
  tunnel.
- `CreateRouterInfoDatabaseLookupMsgNoFlag` writes the reply tunnel ID
  without the delivery flag.
- `CreateDatabaseSearchReplyCountsMe` counts our own ident among the peers.
- `CreateTunnelGatewayMsgPayloadLen` writes the inner payload's length
  instead of the inner message's.
- `FlushNoClear` posts the TunnelGateway vector but does not clear it, so
  the destructor's second `Flush` posts it again.
- `AcceptsHopOverLimit` tests `size() <= MAX + 1`.
- `EncryptAllButLast` stops the CBC loop one record early.
- `HandleIntroducersUpdateTimerNoCap` appends a found introducer without
  the `MaxIntroducers` test.
- `PacketStepNoCatchFlush` drops the held session in the catch clause
  without `FlushData`.
- `UpdatePeerTestInsert` writes `m_PeerTests[nonce].role`, which inserts
  an entry for an unknown nonce.
- `HandlePeerTestsCleanupTimerOnce` does not reschedule the cleanup.
- `AdvanceOkOffByOne` lets `Advance` take one byte more than `m_Length`,
  which wraps `m_Length` around.
- `ReadBytesAfterAdvance` takes the returned pointer after `Advance`.
- `WriteDataCopyFirst` copies the bytes before `Advance` can throw.

Defects found while modelling that a unit test reaches directly, so no run
is spent on them:

- `GetClosestFloodfills` (`impl.cc` 997) drops excluded floodfills after
  truncating to `num`. It can return fewer floodfills than it could.
- `HandleBuildRequestRecords` ignores the bool that `ElGamalDecrypt`
  returns (`i2np.cc` 376). An undecryptable record is accepted, and the
  transit tunnel is made from zeros or from uninitialized stack bytes.
- The store flood (`impl.cc` 537) calls `GetClosestFloodfill` three
  times with an empty excluded set, so it sends to one floodfill three
  times.
- A request can be sent to `MaxAttempts + 1` floodfills: the NetDb thread
  can retry a fresh request before the caller's own first lookup (the same
  window as the `netdb_callers` violation).
- `SaveUpdated` ignores the result of `SaveToFile` (`impl.cc` 391) and
  deletes the buffer anyway. A router whose file could not be written stays
  in the table with neither buffer nor file, and the lookup responder can
  no longer send it back. `MCNetDbStoreSaveFails.cfg` with
  `RouterInfoRetrievable` shows it in four steps (a store, the first save
  timer, a failing save).
- `HandleDatabaseLookupMsg` reads the reply tunnel ID at `buf + 64`
  (`impl.cc` 680), which is the flag byte; the tunnel ID follows it.
- It reads the encrypted-reply session key from `excluded`, which only the
  search-reply branches advance past the excluded list (`impl.cc` 750):
  when the router is found, or the list is over the cap, the key is read
  from the excluded peers.
- A `num_excluded` above `MaxExcludedPeers` is set to 0 (`impl.cc` 689),
  where the spec says the list is capped.
- `Stop` saves profiles but not the RouterInfos updated since the last
  save (`impl.cc` 80); spec.md section 5 says they are persisted. Updates
  are lost on every stop.
- `SaveUpdated`'s `total` can wrap below zero (`impl.cc` 433) when more
  routers were unreachable than the threshold; it takes three or more
  routers and thresholds defined outside src/, so it is listed as a hazard
  without a run.
- A floodfill floods a store with a reply token by copying everything
  after the reply block into a short (4 KB) message, with no length check
  and before the RouterInfo size check (`impl.cc` 532). A store of more
  than about 4 KB from any peer overflows that buffer. `MCI2NPCodec`
  reaches it in two steps (`ReceiveStore` with a long LeaseSet, then
  `Flood`) when `offset + len <= capacity` is checked; no run is spent on
  it because one oversized store in a unit test shows it.
- `ManageRequests` erases timed-out and exhausted requests without
  calling `Fail()` (`requests.cc` 183), so the caller's callback is never
  invoked; spec.md says it is invoked exactly once. `MCNetDbCallbacks.cfg`
  with `CallbacksNotLost` shows it in a few steps.
- A search reply that arrives after the 60 s timeout, before the next
  `ManageRequests` pass, retries the request and resets its creation time
  (`impl.cc` 616), so lookups continue past the total lifetime.
  `MCNetDbLifetime.cfg` with `NoLookupAfterTimeout` shows it.
- `Explore` marks a floodfill excluded for a lookup that it queued for the
  tunnel batch, and then drops the batch when a later floodfill is
  connected directly (`impl.cc` 803). `MCNetDbExplore.cfg` with
  `ExcludedWereQueried` shows it.
  These three had runs of their own in an earlier version of this project.
  Each is reached within a single handler, so a unit test shows it, and
  their run slots went to the SSU server.
- An exception in the CBC pass of `HandleBuildRequestRecords` comes after
  `AddTransitTunnel` (`i2np.cc` 401). The exception is rethrown and no reply
  is sent, but the transit tunnel stays registered; the spec says an
  exception aborts the whole batch. `MCTunnelBuildBatchAtomic.cfg` with
  `BatchAtomic` shows it in two steps. It had a run of its own, and its slot
  went to the byte streams.
- `HandleVariableTunnelBuildMsg` never checks `num = buf[0]` against `len`
  (`i2np.cc` 473). Records past the buffer are read and encrypted in place.

## 4. Not modelled, and why

- **Timer intervals.** `Time::*`, `Size::*` and the RouterInfo/LeaseSet
  classes are declared in headers that are not under src/. Timers may
  therefore fire at any time, and message contents are abstract.
- **Malformed messages.** The early returns of `HandleDatabaseStoreMsg`
  (zero ident, bad size, oversized gzip) only drop the message, which is the
  same as the message never arriving.
- **Lookup reply layout.** The responder is modelled by what it answers
  (none, the stored object, or the peers of a search reply); the reply
  tunnel, garlic encryption and byte offsets are not (their defects are
  in section 3's list).
- **Rest of the codec.** The DeliveryStatus and TunnelData writers (their
  readers are outside src/) and `RenewI2NPMessageHeader` are not modelled.
  Their messages are written by `CreateI2NPMessage` with the same type byte.
- **Order across types.** `Flush` posts gateway messages after data
  messages, and messages of the other types go on before both. Neither the
  code nor spec.md promises an order here, so no property states one.
- **Garlic for a gone destination.** Such a message is logged and dropped
  (`i2np.cc` 736). spec.md's table says Garlic goes "to originating tunnel
  pool or local context"; `DeliveredOnce` allows the drop, because that
  destination no longer exists to receive it.
- **SSU IPv6.** `ReceiveV6` and `HandleReceivedFromV6` repeat the IPv4
  receive loop on a second socket; they feed the same
  `HandleReceivedPackets` and are left out.
- **SSU sessions and the router context.** `SSUSession` (handshake,
  `ProcessNextMessage`, `FlushData`, `Introduce`, `SendKeepAlive`) and the
  context (`GetState`, `AddIntroducer`, `RemoveIntroducer`) are outside
  src/. A session's handshake completing, a thrown exception, a session
  closing itself, the router state changing and `AddIntroducer`'s answer are
  choices of the environment. `Send`, `FindRelaySession`,
  `GetRandomEstablishedSession`, `GetPeerTestParticipant` and
  `GetPeerTestSession` change no state.
- **SSU threads.** Every handler runs as one step on the io_service. The
  unlocked `find` of `HandleReceivedPackets` against inserts by a
  transports thread is listed as a hazard.
- **MCNetDb.cfg.** The NetDb thread alone with two concurrent requests
  (1.07M states). No run uses it: `netdb_callers` asks the same question
  with a caller thread as well.
- **Byte-stream helpers.** `GetFormattedHex` only formats bytes for the
  log. `AddressToByteVector` and `BytesToAddress` convert boost addresses
  and keep no state; no code under src/ calls `BytesToAddress`. The
  `Read<T>` and `Write<T>` templates that most codec code uses are in
  `byte_stream.h`, which is not under src/; `I2NPCodec` models their
  effect as big-endian bytes.
- **Compression.** `compression.cc` wraps the Crypto++ Deflate, Gzip and
  Gunzip engines (`Put`, `MessageEnd`, `Get`). Its state is the engine's,
  and its result is a compressed byte string. Neither is within TLC's
  reach.
- **Outside the core.** Crypto, logging, the client layer and the daemon
  are pure computation or I/O.

## 5. Plan

Done: XorMetric; I2NPCodec (writers and readers); I2NPDispatch; NetDb (tracker and worker); NetDbStore (tables, save, load,
lookup responder, Publish); TunnelBuild.

Also done: SsuServer (session table, receive batches, introducers timer,
peer tests, Start and Stop); ByteStream (the cursor classes).

Next:

1. Compose NetDbStore with NetDb: the store handler of NetDb then uses the
   full `AddRouterInfo`.
