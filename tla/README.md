# A TLA+ model of pony (fcore)

pony distributes VPN connections.  An **API service** owns the truth: PostgreSQL
rows, and a `Cache` in memory that answers every request.  **Node agents** run
beside WireGuard or Xray on the exit nodes and serve the connections they are
told about; an **auth service** does the same for Hysteria2 tokens.  The API
tells them through a ZeroMQ PUB socket, and they ask for a resync over HTTP when
they start.  Agents send metrics back.

The hard part is that a connection lives in several places (row, Cache, what was
published, the agent's memory, its snapshot file, the VPN backend) and that every
operation writes them one after the other, with locks released and `await`s in
between, while requests, background tasks, database syncs and restarts do the
same.  The modules here model exactly those steps.

## Modules

| Module | Contents | Source |
|---|---|---|
| `ConnSync` | the connection lifecycle in the API: creation, deletion, restoration, background tasks, database sync | `src/bin/api/sync`, `tasks.rs` |
| `NodeAgent` | one node agent, with the API reduced to what the agent sees | `src/bin/node` |
| `AuthService` | the auth service beside the API steps it can tell apart | `src/bin/auth` |
| `TokenRegister` | what `AuthService` promises: one ordered register per token | |
| `SubDays` | expiry dates in Cache and row | `sync/tasks.rs`, `postgres/subscription.rs` |
| `KeyActivation` | access keys, on top of `SubDays` | `http/handlers/key.rs`, `postgres/keys.rs` |
| `Referrals` | refer codes and bonus days, on top of `SubDays` | `http/handlers/subscription.rs`, `trial.rs` |
| `Subscriptions` | the composition of the three | |
| `Trial` | trials, the file that remembers them, and the mail | `http/handlers/trial.rs`, `email.rs` |
| `NodeRegistry` | registration of nodes, between agent and API | `src/bin/node/node.rs`, `handlers/node.rs`, `postgres/node.rs`, `memory/storage/node.rs` |
| `MetricFlow` | measurements on their way from agent to API | `src/metrics`, `src/bin/node/metrics.rs`, `stats.rs` |
| `MetricStore` | the API's metric storage under insertion and collection | `src/metrics/storage.rs` |
| `KeyCode` | the text of an access key | `memory/key.rs` |
| `ConnForms` | environments, topics, protocols, rows and messages, each with its inverse | `memory/env.rs`, `zmq/topic.rs`, `postgres/connection.rs` |
| `WgAlloc` | WireGuard address allocation and arithmetic | `memory/connection/wireguard.rs`, `handlers/connection.rs` |
| `Links` | what a subscriber is shown | `config/inbound.rs`, `config/clash.rs`, `handlers/subscription.rs` |
| `MC...` | instances for TLC; `MCForms` explores `KeyCode`, `ConnForms` and `WgAlloc` side by side, `MCSubscriber` `Links` and `Trial` | |
| `...Proofs` | theorems about every module but `KeyCode` and `WgAlloc`; see *Proofs* | |

How they meet: `KeyActivation` and `Referrals` extend `SubDays` and use its actions
for `add_days` and `add_sub`, and `Subscriptions` interleaves the requests of both
with `PUT /subscription`, syncs and crashes over the same dates.  `AuthService`
composes API, socket and service.  `NodeRegistry` composes agents and API.  The
others meet at an interface that one side abstracts: `ConnSync` ends where a message
is published, `NodeAgent` begins there; `MetricFlow` ends at the insertion with which
`MetricStore` begins; `Trial` treats `add_sub` and `add_conn` as steps that may fail.

Operators whose comment begins with "Mutant" are deliberately wrong variants of
the definition that follows them.  `Next` does not use them; substituted for the
definition they make a property fail, which shows that the property depends on
that piece of code.

A *history* variable records why an intended equality fails (`owed`, `astray`, `raced`,
`excused`, `late`, ...).  No guard reads one.  The properties then say that there is no
other reason than those recorded.

### ConnSync

| Variable | Code |
|---|---|
| `dbConn`, `dbSub` | tables `connections` (`is_deleted`) and `subscriptions` (`expires_at`, as active or expired) |
| `memConn`, `memSub` | `Cache.connections`, `Cache.subscriptions` |
| `told` | the last message published about a connection: `serve` (Create, Update) or `drop` (Delete) |
| `sync` | a database sync in progress, with what its queries returned |
| `newSub`, `newConn`, `del`, `ext`, `res`, `subQueue` | where each running operation is, and what it selected under an earlier lock |
| `connExpired`, `revoked`, `faults` | the clock, a history variable, the fault counter |

An action is the code between two points where another task can run: a lock
section, a query, or a send.  `delete_connection` is `DeleteCheck`, `DeleteDb`,
`DeleteSend`, `DeleteMem`; its three callers select the connections first.  The
background tasks loop sequentially over their selection, while
`restore_connections_by_subscription` runs its connections concurrently
(`join_all`).  `get_state_from_db` holds the write lock over its queries, which is
`MemFree` in the other actions' guards, but operations that are between two locks
still write rows meanwhile.  Where a query or a send can fail there is a
`...Fails` action that takes the code's error path.

Abstractions:

- `SubExpires` lets the row's and the Cache's expiry pass separately, because a
  failed `add_days` or `update_sub` leaves them different.  Copies that a sync or
  an `add_sub` carries expire after they are installed.
- `update_sub` and a resync hold their lock throughout and are one action each.
- `add_days` adds zero or more days.  `update_sub` may set any status.
- A failed `add_sub` INSERT and a failed validation change nothing and are left
  out.  Ids are fresh UUIDs, so a connection is created once.
- A send that reports success has reached the publisher; whether an agent
  receives it is `NodeAgent`'s concern.

### NodeAgent

| Variable | Code |
|---|---|
| `created`, `live` | the API's connections |
| `since`, `bootSince` | `modified_at` compared with the timestamp of the saved and of the loaded snapshot |
| `queue`, `batch` | the SUB socket, and the progress of `handle_messages_batch` |
| `mem`, `served`, `snap` | `node.memory`, the WireGuard peers and Xray users, the snapshot file |
| `restoring` | tasks spawned by `restore_wg_connections` and `restore_xray_connections` |
| `phase`, `toSync` | `run`: down, listening, resync finished; inbounds still to request |
| `owed` | history: connections this run of the agent will not add by itself |

A connection becomes *owed* in four ways, each a behaviour of the code:

1. its add failed, or was cancelled because another message of the batch failed
   (`try_join_all`; an "already exists" answer is such a failure);
2. its snapshot restore task failed;
3. the snapshot that was loaded is dated after the connection's last change and
   does not contain it (`Gap`).  The timestamp covers messages that were not
   handled yet, and the first snapshot is taken before the first resync;
4. a database sync of the API took its `modified_at` back before the resync,
   because `delete` and `restore` do not write that column.

`owed` is counted anew at every start, and a connection leaves it when
memory and backend have it.  `ServedOrOwed` says that there is no fifth way.

Abstractions: Create and Update are handled alike; all Xray protocols and
Shadowsocks are one kind; the API publishes a change when it makes it (the
interleavings inside the API are `ConnSync`'s).  The agent receives everything
published from its start on: the pause after `connect` is taken to be long enough,
and the high-water mark is not reached.  Writing the snapshot is atomic because of
the rename.  The clocks of API and node agree.  Registration is `NodeRegistry`'s.

### MetricStore

| Variable | Code |
|---|---|
| `inner`, `metadata`, `tagIndex` | the three DashMaps of `MetricStorage` |
| `ins` | the `insert_envelope` of the one `MetricWorker`: indexing, or about to add the point |
| `gc` | each `perform_gc` under way: which of its four passes, what that pass has left, `alive_series` |
| `overlapped` | history: series one of whose insertions met a collection |

A step is what one shard lock covers.  A new series is indexed inside
`metadata.entry(..).or_insert_with`, so the sweep of the metadata waits for it
(`GcMetadata`), but no lock spans the four passes of `perform_gc`.  `main` spawns a
collection every 60 seconds without waiting for the last one, hence `Collectors`.

A series that was overlapped and is fully listed again when a collection begins with
nobody else at work counts as recovered.  One that the race left half listed stays
in `overlapped`: `or_insert_with` does not index a series whose metadata exists.

Abstractions: a point is its age, in units longer than a collection, so time does
not pass while the points are trimmed against one `min_ts`.  An envelope arrives up
to `MaxLag` old, in any order.  Ages beyond `MaxAge` are alike.  Series keys are
taken to be distinct (64-bit hashes).  Values and queries change nothing.
Collections at work must leave time to pass now and then (the `[]<>` conjunct of
`FairSpec`): with two of them unbounded in speed, one could always be comparing ages.

### AuthService and TokenRegister

| Variable | Code |
|---|---|
| `live`, `known`, `cache` | rows that are live; the API's Cache, and what it holds as live |
| `new` | where `create_connection_handler` is: row, Cache, message |
| `job` | deletes and restores under way, any number per connection, and the next step of each |
| `sync` | `get_state_from_db`, with what its query returned |
| `since`, `bootSince` | as in `NodeAgent` |
| `queue`, `mem`, `snap`, `phase` | the SUB socket, the service's memory, its snapshot file, `run` |

Each operation is the sequence of its steps: a creation writes row and Cache and sends
last, `delete_connection` writes the row, sends, and then writes the Cache, a restore sends,
and then writes row and Cache.  Operations on one connection overlap with each other, with
syncs and with the API's death.  A send may fail, and a message may be dropped although it
was sent (`Publish`): the service is away, reconnecting, or its queue is full.  A batch is
applied under one write lock, so it is one action.

A connection is *missed* when its row is live, or a restore is about to write it, and
nothing under way makes the running service accept it; it *lingers* when its row is deleted,
the service accepts it or will once it has caught up, and no Delete or restore is due.  Both
are state predicates, and the properties name the steps that bring them about.

`TokenRegister` is the abstract specification: announcements about a token are heard
one by one and in order, independently of other tokens, and a stop forgets all but
what was saved.  The refinement mapping takes each token's part of the shared queue, the
messages at the positions `About(c)` in their order (`ActsAt`), so a batch with several
tokens maps to one step of each of them.

### SubDays, KeyActivation, Referrals, Subscriptions

| Variable | Code |
|---|---|
| `row`, `cache` | `expires_at` in the table and in `Cache.subscriptions`, as day numbers |
| `new`, `call` | `add_sub` and `add_days` between their two stores |
| `sync` | `get_state_from_db`, which holds the write lock |
| `issued`, `usedBy`, `act` | the `keys` table; the key an activation works on |
| `req`, `referred` | creations with a refer code; `referred_by` |
| `due`, `astray`, `spoiled`, `credits`, `paid`, `raced`, `bonuses`, `wasted` | history: ledgers and reasons |

`add_days` computes the new date twice: from the Cache's date for the Cache, and in
SQL from the row's date for the row.  `set_expires_at` refuses a date that is not in
the future and the refusal is ignored, so zero days on an expired subscription change
the row only.  `update_sub` computes from the Cache and writes both, under one lock.
`AddDaysMem` and `AddDaysDb` are the steps; activations and bonuses use them as they are.

Abstractions: a day is long compared with an `add_days` between its two stores (`Tick`
waits for it).  `DaysOf` are natural numbers; a key's days are an `i16`, and a
negative one would shorten the subscription.  A `PUT` that changes `referred_by`,
`refer_code` or `limit_bytes` is left out.

### Trial

`req[r].at` is the place of a request in `post_trial_handler`: bonus, `add_sub`, the
connections one by one, `save_trial_hmac` (the map, then the line).  `file` is the trial
file as lines that are whole or not; `Appended` glues a line to one that a crash
left open.  `mail` is the spawned task with its retries.  A `write_all` that returned
is taken to have reached the file.  A request with neither user name nor address, which
is neither checked nor saved, is left out.

### NodeRegistry

`cfg` and `at` are the agents, `reqs` the requests in the API, with `live` false once
the agent has given the request up; `rows`, `mem` and `sync` as elsewhere.  `mem` has a
vector for each environment, and `Nodes::add` searches only the new one.  Rows of
inbounds are inserted and updated but never removed.  A request given up may stop
between its steps, or run on and write late.

### MetricFlow

`task` is `collect_metrics`, which lists the connections and then asks for each,
`batch` and `taken` the two sides of `flush_to_zmq`'s swap, `wire` the socket, `got`
what `MetricWorker` inserted.  An Xray user that does not answer counts as 0; an
inbound or a WireGuard peer that does not answer gives no point.  Xray keeps the counters
of a user that is removed, the kernel forgets those of a peer: `RemovePeer` is a reset.  An
agent has an Xray client, a WireGuard client or both (`clients`).  The list of users
also holds WireGuard connections, for which Xray always answers nothing; those zeros
are left out.

### KeyCode, ConnForms, WgAlloc, Links

These are mostly operators: `Encode`/`Decode`, `ToBeBytes`/`FromBeBytes`, `Checksum` at
full width; `Deserialize`, `EnvText`, `ParseEnv`, `ToRow`, `FromRow` on texts whose
letters are tokens; mask and increment arithmetic on `Width` bits; `CreateLink`, `Proxy`
and the handlers' answers as sets.  The actions around them take the code's values
through the sequences in which the operators meet: typing a code with slips; deleting,
restoring, reloading and resyncing a connection; concurrent allocations, whose INSERT may
report an error and have committed all the same; connections and nodes that come and go.
The HMAC is a constant operator.  The aliases of built-in environments (`exp`,
`prod`, ...), which no program writes, are left out.

## Runs

| Run | Instance | Properties | Distinct states |
|---|---|---|---|
| `conn_tasks` | the background tasks with, one at a time, an own expiry, a DELETE request, an `add_days` call, a second connection; 1 fault | `NothingWithoutRow`, `NoOrphanInCache`, `ZombieOrigin` | 1,032,000 |
| `conn_live` | one connection, background tasks, `add_days` calls or 1 fault, fairness | `ExpiredSubCutOff`, `ActiveSubServed` | 117,000 |
| `conn_revoked` | one connection, one DELETE request | `RevokedStaysDeleted`: violated | |
| `node_agent` | one WireGuard and one Xray connection, 1 fault, fairness | `ServedOrOwed`, `StaleOrigin`, `EventuallyServed` | 328,000 |
| `auth` | one connection with two operations at a time, or two connections; fairness | `MissedOrigin`, `LingersOrigin`, `ImplementsRegister`, `EventuallyAccepted` | 176,000 |
| `subscriptions` | two workers, two subscriptions, one key, two codes, 1 fault | `RowMatchesLedger`, `CacheMatchesRow`, `KeyOnce`, `UsedMeansPaid`, `OwnerStays`, `BonusLedger` | 1,540,000 |
| `registry` | one node, two environments, two starts, 2 faults, fairness | `CacheWithinRows`, `RegisteredRow`, `EventuallyRegistered`, `CacheSettles` | 133,000 |
| `metric_flow` | a heartbeat, with an inbound and a user or with a peer, 6 points, 1 mishap, fairness | `OnceInOrder`, `FallsExplained`, `EventuallyOut` | 1,161,000 |
| `metric_store` | two nodes, one series with two tags, two collections, fairness | `TypeOK`, `PointsFindable`, `Forgotten` | 373,000 |
| `forms` | key codes, connection forms, 4-bit addresses | `CodeExact`, `HandlersAgree`, `RowIsFaithful`, `ServedByItsEnv`, `UniqueAddr`, `PeerRange` | 104,000 |
| `key_tampered` | the same | `TamperedFails`: violated | |
| `subscriber` | two connections, two nodes, two environments, twelve inbounds; two people, two trial requests at a time, 5 in all, 3 faults | `PageMatchesLinks`, `ClashAgrees`, `AdditionsKeepLinks`, `OneTrial`, `RefusedMeansGranted`, `Remembered` | 388,000 |

What they show:

- **Rows first** (`NothingWithoutRow`): the Cache and the nodes never know of
  something the database does not, through syncs that replace the Cache while an
  insertion is between row and Cache.
- **No orphans** (`NoOrphanInCache`): a cached connection has its subscription in
  the Cache.  It rests on admission looking the subscription up in the Cache, so
  that its row is older than the connection's.
- **Zombies** (`ZombieOrigin`): overlapping deletes, restores and syncs of one
  connection never end with the nodes serving a deleted row.  Five steps can: a
  Delete that cannot be sent, a restore whose UPDATE fails after its message, a
  crash, the Create that a new connection sends last, and a resync that reads the
  Cache between a Delete and the Cache update.  These are real: nothing sends the
  Delete again once the Cache says deleted.
- **Convergence** (`ExpiredSubCutOff`, `ActiveSubServed`): the stores follow the
  subscription in the end, also where an `add_days` decided whether to restore before the
  subscription expired or was extended by another.  (One of no days restores the
  connections of a subscription that stays expired, until the next cleanup; the premise
  excludes that such calls never end.)  They speak of row and Cache, not of the nodes, for
  the reason above.  Connections with an expiry of their own are excluded from this
  instance: under an active subscription cleanup and restore undo each other for ever.
- **Deleted by the user** (`RevokedStaysDeleted`, violated): the restore task
  brings back a connection that `DELETE /connection` answered as deleted.
- **Agent** (`ServedOrOwed`, `StaleOrigin`, `EventuallyServed`): what is live is
  served or owed in one of the four ways; what is deleted stays served only after
  a Delete that was lost (agent down, crash) or failed, or when a spawned restore
  task overtakes it; and no batch stops the subscriber.
- **Auth service** (`MissedOrigin`, `LingersOrigin`, `EventuallyAccepted`): a live
  connection becomes missed only by a start from a snapshot that is younger than the
  connection's last change, or before the connection is in the Cache; a message that is not
  sent or is dropped; a Delete or its Cache write that comes after a restore; or a reload of
  the Cache that takes `modified_at` back or meets a creation.  A deleted one comes to
  linger only by a start from an old snapshot, a Delete that is not sent or is dropped, a
  failed restore, a crash of the API, the Create sent last, or a resync that reads a Cache
  entry of a deleted row.  A service that stays up comes to accept a connection that stays
  live, unless it is missed.
- **Dates** (`RowMatchesLedger`, `CacheMatchesRow`): the row is what the successful
  operations add up to, except after an `update_sub` that wrote a Cache date back which
  had parted from the row; the two part only by a sync or an `update_sub` in the middle
  of an `add_days`, a database error, zero days on an expired subscription, or
  `add_sub`'s late insert.  A sync repairs the Cache.
- **Keys** (`KeyOnce`, `UsedMeansPaid`): days are added twice only if two requests
  read the key before either marked it, or the mark failed.  No key is used for nothing.
- **Referrals** (`OwnerStays`, `BonusLedger`): each bonus belongs to a referred
  subscription, a request about to create one, or one that then failed.
- **Trials** (`OneTrial`, `RefusedMeansGranted`, `Remembered`): a second trial needs
  two requests past the check together, a failure after `add_sub`, or a lost line; and a
  lost line has a recorded cause.
- **Registry**: the Cache advertises only what has rows; a moved node stays listed in
  its old environment until a sync, and no longer.
- **Metrics** (`OnceInOrder`, `FallsExplained`, `EventuallyOut`, `PointsFindable`,
  `Forgotten`): points arrive at most once and in order, which the trimming of a deque from
  its front relies on; counters fall only after a reset or the removal of a peer, or to a
  user's 0 for a failed request; a series with points is found by every tag unless one of
  its insertions met a collection; and one no longer reported leaves all three maps, so that
  the damage of a race lasts no longer.
- **Codes** (`CodeExact`, `HandlersAgree`): every code of `Code::new` parses, and one wrong
  symbol is found by the checksum alone, unless it is the last one and differs in the two
  bits that no byte is decoded from; both handlers find the same codes.
- **A test that fails for one code in eight** (`TamperedFails`, violated):
  `test_code_invalid_signature` replaces the last symbol of a random code by X and asserts
  "tampered code must fail".  A code that ends in U parses as before.  The handlers then
  look up the row by the text and do not find it.
- **Forms** (`RowIsFaithful`, `ServedByItsEnv`): every row can be loaded.  A lower-case
  environment's connections are served by exactly its nodes.  A mixed-case one's are not:
  `EU` is published as `updates-customEU`, which parses to lower case, so that a node of
  `EU` ignores it.  The node gets the connection by a resync, under its `Init` topic, as
  long as the Cache has not been reloaded, and then serves it after its deletion; after a
  reload the connection is one of `eu`.  An Mtproto connection comes back from its row as an
  Xray one.
- **Addresses** (`UniqueAddr`, `PeerRange`): one is given twice only if the second request
  chose while the first, or another, was not in the Cache yet, which includes one whose
  INSERT was taken for failed.  They stay inside the network, the broadcast address
  included; once the top one is taken, allocation is refused for good, whatever was deleted
  below it.
- **Links** (`PageMatchesLinks`, `ClashAgrees`, `AdditionsKeepLinks`): page, lists and Clash
  configuration agree for standard inbounds; one inbound without a needed setting turns a
  whole text answer into an error.

**Bounds.**  Connections interact only through the loops that visit them, so one
connection with all actors shows the races on it and two show the sequential and
concurrent loops and shared batches.  One fault suffices to enter every error path
and every crash point; sequences of faults are covered by the proofs, which bound
nothing.  Stops of the auth service and of the API are not bounded in `auth`.
`MaxQueue` batches fit in the socket: two let a Delete and a later add wait together.  What
is sent to a full one is held back in `node_agent` and dropped in `auth`.
Three faults of a trial are a cut line, a line glued to it and a restart.
`MaxWritten` is 6 in `metric_flow`, enough for two rounds of all sources, so that a counter
of each kind is seen to fall for each of its reasons; `MaxPoints` is 1 in
`metric_store`, where every insertion overflows the deque.

Some instances cover alternatives side by side instead of together:

- `MCOneBeside` lets a behaviour of `conn_tasks` have only one of the four additions to
  the background tasks: faults go with the connection's own expiry only, syncs with that
  and the DELETE request;
- `MCFew` of `MCNodeAgent` has two connections without faults, or one with a fault;
- `MCDaysApart` keeps the calls of `add_days` in `conn_live` apart from faults, syncs and
  the creation;
- `MCFew` of `MCAuthService` lets two operations on the first connection overlap while it is
  alone, and one operation, without a sync, once the second is created;
- in `metric_flow`, `MCInit` gives the agent one client, `MCFew` lets only what that client
  measures change, with one reset before the last point, and one message on the wire;
  `MCMeasured` ends traffic and collections with the last point;
- `MCBudget` allows at most two events of days added, days gone by and faults.  With two
  ids, two referred creations at the same time have no owner and do not occur;
- `MCForms` and `MCSubscriber` move one of their parts at a time, as these share no state.

The bounds of runs with fairness are guards of `MCSpec`, on steps that fairness does not
ask for or that wait as they would for room in a queue.

Larger instances were checked once and passed: `subscriptions` without the budget, with
dates up to 4 and an `update_sub` that takes a day away (21.9 million states), and with
the budget and shifts of a day both ways (3.95 million); the safety of `node_agent` with
a second Xray connection and a queue of two (4.6 million), and all of it without `MCFew`
(984,000); `registry` with three starts and one fault (742,000); `metric_store` with points
up to a second late (547,000).

Deadlock is checked in every run but `subscriber`, whose trial requests are bounded and
where nothing remains to be done at the end.  Symmetry is used only without liveness.

**Fairness.**  `FairSpec` of `ConnSync` is fair to operations under way and to the
ticking tasks, and strongly so where they wait for the lock, because tokio's
`RwLock` queues waiters in order.  Requests, expiry and faults are never forced.
`FairSpec` of `NodeAgent` is weakly fair to the resync, the spawned tasks and the
subscriber, which have no competitor for what they wait on.
`AuthService` is fair to a creation past its row, strongly where it waits for the lock, to a
sync under way, to the subscriber, and strongly to `Resync`: the retries of
`get_connections` meet an API that answers now and then.  No delete,
restore or delivery of a message is forced.
`NodeRegistry` is fair to the agents' retries, the handlers and the periodic sync, and
strongly so to the step that waits for the lock of each sync.
`MetricFlow` is weakly fair to flushing, sending and receiving, which are loops.
`FairSpec` of `MetricStore` is weakly fair to an insertion that has begun and strongly
fair to the clock and the collections: `main` keeps starting them and they wait only
for short locks.  Nobody is forced to report a metric.

## Proofs

A theorem holds for every value of the constants that satisfies the assumption named
with it: any number of nodes, connections, requests, messages and faults.  The bounds in
guards (`MaxFaults`, `MaxQueue`, ...) are constants like any other, so a proof covers every
value of them.

| Module | About | Assumptions |
|---|---|---|
| `ConnSyncProofs` | `ConnSync` | `ConstantsAssumption` |
| `NodeAgentProofs` | `NodeAgent` | `NodeAssumption` |
| `AuthServiceProofs` | `AuthService`, `TokenRegister` | `AuthAssumption` |
| `KeyActivationProofs` | lemmas about `SubDays` and `KeyActivation`, whoever calls them | `SubDaysAssumption`, `KeyAssumption` |
| `SubscriptionsProofs` | `Subscriptions`, and with it its three parts | the same and `ReferralAssumption` |
| `NodeStateProofs` | `NodeRegistry` and `MetricStore` | `RegistryAssumption`, `StoreAssumption` |
| `MetricFlowProofs` | `MetricFlow` | `FlowAssumption` |
| `SubscriberProofs` | `Links`, `ConnForms` and `Trial` | `InboundAssumption`, `FormsAssumption`, `TrialAssumption` |

A leaf that says `Zenon` needs no arithmetic; it is given to that prover directly, which
keeps the long modules quick to check (none takes more than a few minutes).

What the assumptions ask of the code, beyond types and numbers:

- `ConstantsAssumption`: the background tasks are not among the requests.
- `NodeAssumption`: a connection is of WireGuard or of Xray.
- `ReferralAssumption`: there are finitely many subscriptions and requests, since bonuses
  are counted; every subscription has a code.
- `FormsAssumption`: lower-casing twice is lower-casing once; the built-in names are in
  lower case, none of them is `custom`, and all texts are made of letters.
- `InboundAssumption`: an inbound has a tag, a network and some of the settings.
- `FlowAssumption`: the system's series (`sys...`, `net.<interface>....bps`) have other
  names than those of inbounds (`net.inbound....`), users and peers.
- `StoreAssumption`: `max_points` is not 0.

### ConnSync

| Theorem | Statement |
|---|---|
| `TypeCorrect` | `Spec => []TypeOK` |
| `RowsFirst` | `Spec => []NothingWithoutRow` |
| `NoOrphans` | `Spec => []NoOrphanInCache` |
| `ZombieOrigins` | `Spec => ZombieOrigin` |

`NothingWithoutRow` is not inductive: an operation that has passed its check acts
later on what it saw.  `IInv` adds what operations in progress carry:

- `CarriedRows`: a pending Cache insert, and everything a database sync has read,
  has a row;
- `SnapshotCovers`: what a sync has read covers the Cache it will replace, so that
  the replacement forgets nothing;
- `Admitted`: a connection past admission has its subscription in the Cache;
- `WorkKnown`: what a deletion or restoration works on is in the Cache;
- `RestoreLast`: `add_days` restores connections only in its last part.

`InvStep` has one step per action.  `NoOrphans` follows from the same invariant, and
`ZombieOrigins` is a step property proved from `TypeOK` and `IInv` in `ZombieStep`,
again by action: each action that does not belong to `LeavesZombie` either leaves
`told` and `dbConn` alone or hands over to an operation that `MessageDue` names.

### NodeAgent

| Theorem | Statement |
|---|---|
| `NInvAlways` | `Spec => []NInv` |
| `ServedOrAccounted` | `Spec => []ServedOrOwed` |
| `StaleOnlyByCauses` | `Spec => StaleOrigin` |

`ServedOrOwed` does not say in which order messages about a connection wait.  `NInv` does:
whatever waits in the socket or is being handled and is no longer wanted is followed
by a message that corrects it (`Settled`); a Delete is alone in its batch, so that its
failure cancels no add (`DeletesAlone`); an Xray user whose entry in memory is still to
be made is in the backend (`AddedFirst`); a stopped agent has no messages (`Stopped`).
`Cared` is `ServedOrOwed` with one correction: a restore task counts only while memory has
its connection.

### AuthService

| Theorem | Statement |
|---|---|
| `TypeCorrect` | `Spec => []TypeOK` |
| `NoOtherGap` | `Spec => MissedOrigin` |
| `LingersOnlyByCauses` | `Spec => LingersOrigin` |
| `RegistersImplemented` | `Spec => ImplementsRegister` |

`MissedOrigin` and `LingersOrigin` are step properties and rest on `TypeOK` alone: `Missed`
and `Lingers` speak of everything that is under way, so that no step needs to know what came
before it.  `Appended` and `Received` say what a message does to `WillAccept`, at the tail
and at the head of the queue, and `Published` what a send does, arriving or not.  `ApiSplit`
divides `Next` into steps of the API that send nothing (`Silent`), its sends (`Sends`), and
steps of the service; each property has one lemma per part (`SilentMissed`, `SendMissed`,
`ServiceMissed`, and the same for `Lingers`), by action.

`RegistersImplemented` is the refinement.  A token's register waits for the messages about
that token, by their positions in the socket; the `k`-th is the position of rank `k`.
`RankOrder` and `KthRank` say that ranks number the positions without gaps;
`ActsAppended` that a message published to the socket is appended to the registers of the
tokens it names and of no other; `ActsTaken` that taking the head of the socket shifts all
positions and takes the head of exactly those registers.  `RegisterStep` then maps every
step: `Publish` to announcements, `Receive` to hearing, snapshot, crash and start to
`Save`, `Stop` and `Recall`, everything else to a stutter.

### Subscriptions

| Theorem | Statement |
|---|---|
| `RowsAddUp` | `SubsSpec => []RowMatchesLedger` |
| `CacheFollowsRow` | `SubsSpec => []CacheMatchesRow` |
| `KeyDaysOnce` | `SubsSpec => []KeyOnce` |
| `KeyPaidFor` | `SubsSpec => []UsedMeansPaid` |
| `OwnerFound` | `SubsSpec => []OwnerStays` |
| `BonusesAccounted` | `SubsSpec => []BonusLedger` |

Dates.  Several `add_days` may have written the Cache and not yet the row, in any
order.  `Balanced` says that the Cache's date is the row's after the pending days of all
of them; the sum is a function on sets of calls (`IsTotal`), so that one call's
step changes one number and no induction is needed.  `ReadIsRow` says the same of the rows
that a sync has read, `FirstDate` of a row whose `add_sub` has not inserted it into the Cache.

Keys.  `KeyOnce` says nothing of a request that has read the key.  `OneWorker` does:
apart from races, one request works on a key, the key is unused meanwhile and its days are
not added before that request has the answer of `add_days`.  `MarkAfterPay` is the same for
`UsedMeansPaid`.  Every other request is shown to leave the keys alone (`BystanderKeeps`).

Referrals.  `OwnerStays` rests on entries never leaving the Cache: what a sync has read
covers the Cache that it replaces (`SInv`), and a request whose owner was found keeps it
(`RInv`).  `BInv` counts: each step moves one subscription or request between the sets
whose sizes `BonusLedger` adds up (`OneMore`, `OneLess`).

### NodeRegistry and MetricStore

| Theorem | Statement |
|---|---|
| `RegistryTypeCorrect` | `RegistrySpec => []RegistryTypeOK` |
| `Advertised` | `RegistrySpec => []CacheWithinRows` |
| `Registered` | `RegistrySpec => []RegisteredRow` |
| `TypeCorrect` | `Spec => []TypeOK` (`MetricStore`), with the bound by `max_points` |
| `Findable` | `Spec => []PointsFindable` |

`RInv` adds that an agent which waits has one request and it carries its configuration
(`Awaited`), that what a request has upserted is in the rows (`Written`), and that what a
sync has read still is (`ReadRows`).

`DropOldType` and `DropExcessType` are the facts about the trimming of a deque; the first
takes from the library that a set of numbers has a least one.  `PointsFindable` becomes
inductive with four more conjuncts, all about series that are not overlapped: `OverlapNoted`
(no collection meets their insertion), `MetadataIndexed` (metadata means indexed, and an
insertion finds what its earlier steps did), `AliveKnown` (a series with points on a node
already scanned is alive; after the scan every series with points is) and `DeadRemoved` (the
index pass finds no metadata of a dead series).  There is one lemma per action.

### MetricFlow

| Theorem | Statement |
|---|---|
| `PointsInOrder` | `FlowSpec => []OnceInOrder` |
| `FallsHaveReasons` | `FlowSpec => []FallsExplained` |

`FInv` states the order stage by stage instead of over the concatenation of all: storage,
each message on the wire, the taken batch and the buffer are ordered, and each comes
before the next (`Chain`); every time up to now is at one stage or lost, and not both
(`Placed`).  `Traced` carries the second theorem: a counter is at least what any point on
its way showed of it unless it was reset since, the removal of a peer included, and of two
points the later one shows less only for a reason.

### Links, ConnForms and Trial

| Theorem | Statement |
|---|---|
| `PageAgrees` | `LinksSpec => []PageMatchesLinks` |
| `ClashFollows` | `LinksSpec => []ClashAgrees` |
| `AdditionsOnlyAdd` | `LinksSpec => AdditionsKeepLinks` |
| `RowsLoad` | `FormsSpec => []RowIsFaithful` |
| `HeardByItsEnv` | `FormsSpec => []ServedByItsEnv` |
| `TrialOnce` | `Spec => []OneTrial` (`Trial`) |
| `RefusedHadTrial` | `Spec => []RefusedMeansGranted` |
| `RestartRemembers` | `Spec => []Remembered` |
| `FaultlessForgetsNobody` | without a fault nobody is among the exceptions of `Remembered` |

What the handlers of `Links` show holds of every state, so no invariant is needed.
`Listing` says what `inbounds_list` holds, `Answers` what the handlers make of it, and
`SameTransport` compares `proxy` with `create_link` for a standard inbound.

In `ConnForms`, `RoundTrip` says that an environment comes back from its text but for the
case of a custom name, and `Accepted` that a node accepts exactly the topic of its own
environment, if that is in lower case: a longer name with the node's as prefix passes the
socket and is then refused.  `FormsInv` says that the connection is the one that was made up
to case and MTProto variant (`SameConnection`), and that nobody serves it who would not hear
of its deletion, but for the nodes of a mixed-case environment (`ServedAsHeard`, `Unheard`).

`TInv` of `Trial` adds the types, that apart from the excused one request serves a person
and it goes on to save them (`OneServed`), that the map comes before the line
(`LineAfterMap`), and that whoever has a line, cut or glued, has a trial (`GrantedFirst`).
`MInv` is `Remembered` with the fact that only faults cut lines (`FaultsForget`).

### Only model-checked

- The liveness properties (`ExpiredSubCutOff`, `ActiveSubServed`, `EventuallyServed`,
  `EventuallyAccepted`, `EventuallyRegistered`, `CacheSettles`, `EventuallyOut`,
  `Forgotten`): fairness is outside the prover's reach.
- `CodeExact` and `HandlersAgree`: `KeyCode` folds over the symbols of a code, and what a
  fold computes needs an induction over data, which the prover does not do.
- `UniqueAddr` and `PeerRange`: `WgAlloc` masks addresses with the operators of `Bitwise`,
  which the prover cannot read.
- `RevokedStaysDeleted` and `TamperedFails` are false, see above.

## Not modelled

- The queries of the metric store, `http/handlers/metrics.rs` and its websocket: they
  read one series and change nothing.
- `config/h2.rs`, `config/wireguard.rs`, `config/settings.rs`, the services' `config.rs`:
  parsed once, without state; a file that does not parse ends the process.
- `proto/wireguard.rs`, `proto/xray`: calls to the kernel and to Xray's gRPC interface,
  which appear as steps that succeed or fail.
- HTTP routing, filters and response shapes; `proto/conn.rs`, which no module declares.
- The high-water mark of a node agent's ZeroMQ socket: an agent that falls behind loses
  messages as a disconnected one does, without a resync.  (`AuthService` has it.)
- Health monitoring of nodes (`README.md:35`): no code does it, and `update_node_status`
  is only called with `Online`.
- Connections with an expiry of their own under an active subscription are in the safety
  run, but no property is stated of their flapping.
- A `PUT /subscription` that changes `referred_by`, `refer_code` or `limit_bytes`; a trial
  request with neither user name nor address; negative days of a key.
