# A TLA+ model of verse-entrance-server

`hubserv` is the way into a peer-to-peer network of browsers. A browser that
opens a page signs an SDP offer and posts it to `/enter`; the server makes a
WebRTC data channel with it, remembers it under its session id and under the
url of the page, and over that channel tells it which other browsers are on the
same page and passes signed messages between them. Several servers may form a
cluster that divides the urls among its nodes.

This directory holds TLA+ modules that model the server, TLC configurations
that check them on small instances, and eight modules of proofs that hold for
every instance.

    tlasany M.tla                            parse
    tlc -workers 2 -config X.cfg M           model-check one run
    tlapm RegistryProofs.tla                 check the proofs of one module

`PROJECT.json` lists the components, the runs, the source lines each definition
models, the hazards, and for every checked property a plausible bug (a
"mutant") that makes it fail. Source paths below are relative to `src/`.


## 1. Inventory

### Components

| component | source | state | operations |
|---|---|---|---|
| connection registry | `hubserv/src/state.rs`, `state/url_data.rs` | `client_count` (atomic), `connection_map` session → ClientData, `url_data_map` url → UrlData (DashMaps), and in each UrlData `client_count` and `clients` | `is_new_connection_available`, `add_connection`, `remove_connection`, `get_connection`, `get_url_data` |
| entrance handler, client life cycle | `entrance_server_router.rs`, `state/client_data.rs` | one RTCPeerConnection per request, its callbacks; in ClientData the `OnceCell` `dc` | `POST /enter`, `POST /candidate`, ice and peer state callbacks, `on_data_channel`, `on_message`, `dispose` |
| routing-info cache | `state/url_data.rs`, `client_data.rs`, `swarm.rs` | `routing_info`, `routing_info_updated` of a UrlData; `routing_info` of each ClientData | `exchange_routeing_info`, `update_routing_info_if_needed`, `remove_connection`'s `retain` |
| RPC dispatch, transfer | `rtc_api.rs`, `swarm.rs` | none of its own | `on_rtc_message`, `on_swarm_message`, `transfer` |
| routing-information tree | `proto/src/routing_info_ex.rs` | a tree of RoutingInfo messages | breadth-first iterator, `get_min_depth`, `is_known`, `add_known`, `to_send_data`, `get_known_gateway_session_ids*` |
| cluster client | `hubserv/src/cluster.rs`, `cluster/src/client.rs` | the node list a node has loaded | load at start and every minute, `is_my_work`, `get_worker`, `redirect_if_needed` |
| cluster manager | `cluster/src/manager.rs`, `cf.rs`, `node_source.rs`, `aws.rs`, `func.rs` | the published list (S3) and the zone's A records (Cloudflare), both remote | `Manager::update` at start-up and on `/update-cluster` |
| start-up | `hubserv/src/main.rs`, `args.rs`, `etc/` | the options, the phase of the process | tags, secrets, options, first update, first list, servers; systemd's restart |
| SignalFuture | `common/src/signal_future.rs` | result and waker | `resolve`, `reject`, `set_timeout`, `poll`, `clone` |
| ThrottleJobRunner, BandWidth | `common/src/throttle_job_runner.rs`, `band_width.rs` | a job queue; a byte counter | `add`, `dispose`; `add_bytes` |
| packet codec | `proto/src/lib.rs`, `common/src/compress.rs` | none | `encode_packet`, `decode_packet`, `compress_if_needed` |
| request verification | `hubserv/src/types.rs` | none | `verify`, url normalisation |
| servers | `api_server.rs`, `status_server.rs`, `tls_acceptor.rs` | none | set-up of axum, ACME, `/update-cluster`, metrics page |
| helpers | the rest of `common/src` | none | time, crypto, errors, logs, sleep, spawn |

### How they interact

* `enter` asks the registry whether there is room, awaits the WebRTC set-up for
  up to five seconds, then calls `remove_connection` for whatever connection the
  session still has and `add_connection` for the new one.
* The two state-change callbacks of a peer connection call `remove_connection`
  with the **session id** when it is disconnected, failed or closed. The call
  disposes the ClientData, which mutes its data channel and spawns a task that
  closes the peer connection, which runs both callbacks again.
* `on_data_channel` binds a channel to the ClientData the session has at that
  moment. `on_message` asks the cluster client whether the url is still this
  node's, and if not closes the connection and removes it; otherwise it runs
  the RPC, which reads the registry (`get_url_data`, `get_connection`), the
  routing-info cache, or another client's channel.
* The cluster client polls the list the cluster manager publishes. Nothing
  keeps the nodes' copies, or two managers' updates, in step.
* `main` updates the cluster, loads the node list and only then starts the
  servers. Every error on the way is unwrapped, and systemd starts the process
  over.

### What is hard

* **Threads without a lock.** axum handlers, WebRTC callbacks and spawned tasks
  run on tokio's thread pool. `add_connection` and `remove_connection` are
  synchronous but are sequences of atomic steps on two DashMaps, two counters
  and a mutex; only the url's map entry is locked across a few of them.
* **Stale facts.** The room that was there before five seconds of awaits; the
  ClientData a callback was not told about; the UrlData a message handler
  expects; the node list of a minute ago; an EC2 answer older than the list it
  overwrites; the addressee of a transfer.
* **Partial failure.** A client that took a slot and is refused by its url; an
  update of the cluster that fails between two remote calls and is started over;
  a process that dies at any point of its start.
* **Ordering.** A `Closed` callback of an earlier connection after the session
  has come back; removal against refresh of the cache; `finish` inside `poll`;
  a queue whose jobs wait for jobs that wait for their place.
* **Conversions that are repeated.** A packet encoded twice, a url normalised in
  two places, role and stage swapped twice.

### What makes each component correct

* Registry: never more clients than either limit although check and count are
  separate steps; counters exact, so that no interleaving eats a place for
  good; a client always finds its UrlData and no empty UrlData stays.
* Entrance: whatever the order of handler, callbacks, closes and messages, a
  refused request leaves nothing, a dead connection is noticed and gives its
  slot back, a live one is not evicted by its predecessor's callbacks.
* Cache: one refresh at a time, spaced, answers contain the asker's newest
  info, and a removed client does not linger.
* Transfer: hops within the ttl, answers that are true, no endless circulation.
* Routing tree: nearest first, shortest depth, what is sent is a cut of the
  tree, rumours of gateways fade.
* Cluster: one redirect at most, refusal only on disagreement, all clients of a
  url at one node in the end, all served.
* Manager: unique records, success means exactly what was seen, no update
  takes a running node's records; what overlapping updates spoil, the next one
  that is alone repairs.
* Start-up: who serves is in the node list and in DNS; a node with all its
  options serves in the end.
* SignalFuture: an outcome is handed out once and its waiter is woken.
* ThrottleJobRunner: no more than the window at once, and all jobs that do not
  wait for later windows end. BandWidth: the rate is right within the second
  it cuts off.
* Packet: what is set is what arrives. Urls: the visitors of a page meet.


## 2. The modules

| module | models | composed with |
|---|---|---|
| `Admission` | abstract: who may hold a slot and a place under a url, with no maps, counters or threads | implemented by `Registry` (proved in `RegistryProofs`) |
| `Registry` | every atomic step of `add_connection` and `remove_connection` | used by `Entrance` |
| `RegistryInv` | the inductive invariant, in named parts | extends `Registry` |
| `RegistryProofs` | its proof and the theorems that follow | extends `RegistryInv` |
| `Entrance` | `/enter`, the callbacks, `dispose`, the data channel and its messages | extends `Registry`, implements its `Spec` |
| `EntranceInv`, `EntranceProofs` | its inductive invariant and the theorems that follow | extend `Entrance` and `RegistryInv`, `RegistryProofs` |
| `RoutingInfoCache`, `RoutingInfoCacheProofs` | the exchange of routing infos and the cache of one url | |
| `Transfer`, `TransferProofs` | a signed message from one client's channel to another's | takes the registry as a map |
| `Cluster`, `ClusterProofs` | how nodes with different lists share urls | |
| `ClusterManager` | how updates publish nodes, fail and overlap | used by `Startup` |
| `Startup`, `StartupProofs` | the process from its start to serving, its deaths and restarts; the proofs about updates and about starts | extends `ClusterManager` |
| `RoutingInfo`, `RoutingInfoProofs` | the algorithms on routing-information trees | `MCParts` |
| `Packet` | a packet that is set, encoded and decoded | `MCParts` |
| `RequestUrl` | what `/enter` and `/candidate` accept, and the url they go on with | `MCParts` |
| `SignalFuture` | the future of `common` | `MCParts` |
| `ThrottleJobRunner` | the job queue of `common` | `MCParts` |
| `BandWidth` | the bandwidth meter of `common` | `MCParts` |
| `PartsProofs` | the proofs about the five modules above | extends them |
| `MCParts` | puts the six modules above beside each other; `part` says which one a behaviour is about | |
| `MC*` | instances for TLC | each extends one of the above |

### How state and actions correspond to the code

**Registry.** A member of `Clients` is one `ClientData` object; a UrlData object
is named after the client whose `add_connection` created it, so that dropping
and recreating a url's entry gives a new object. A call is a walk through
program counters:

    add:    load -> cas -> insert -> entry -> (urlLoad -> urlCas -> push) -> added
                 \-> refused                     \-> uncount -> unmap -> refused
    remove: lookup -> uncount -> dispose -> getUrl -> urlUncount -> retain -> dropUrl

Each arrow is one atomic step of the source: a load, a `compare_exchange`, a
`fetch_sub`, one DashMap operation, one locked `Vec` operation. `urlLock` is the
DashMap entry guard that `add_connection` holds from `entry` until it leaves
`UrlData::add_connection`; DashMap locks a shard, the model only the entry,
which allows more interleavings. `url_data_map.get` and `remove_if` wait for the
guard. Counters wrap at `CounterWrap`, which stands for 2^64.

`SerialSessions` says whether the callers keep the contract that `AddAllowed`
and `RemoveAllowed` state: no `add_connection` overlaps another call for the
same session, nor starts while the session has a connection. (Removals may
overlap removals.) The code does not enforce it; `Entrance` shows when it keeps
it and what happens otherwise.

**Entrance** adds to each client its request (`enterPc`), peer connection
(`transport`), the state changes whose callback has not run (`notices`), the
spawned close (`closing`), and its data channel (`channel`, `bound`, `dc`,
`messagePc`). The registry's removal tasks are `<<cause, client>>`: the call made
by the handler, a callback or a message. `OneAtATime` assumes of clients that a
session asks again only when nothing of its earlier connections can still act.
The WebRTC library is external; the module's header lists what is taken from it.

**RoutingInfoCache** numbers each client's infos: `info[c]` is the newest one
stored, `cache[c]` the one served (0: none). The refresh is clock, load, claim,
copy of the client list, one step per client's mutex, write; `purged` remembers
who was gone before the refresh whose result is in the cache.

**Transfer** takes one `on_message` call apart where it may be overtaken: check of
signature and ttl, look-up of the addressee, send, answer. The registry is
reduced to the map it looks in.

**RoutingInfo** grows forests node by node (`Decode`) and evaluates the operators
on all of them; each is compared with a definition that does not walk.

**Cluster** gives every node its own copy of the list, loaded in two steps
(`FetchList`, `StoreList`) with `Publish` in between, and follows each client's
request from host to host.

**ClusterManager** has one action per remote call; `FailUpdate` ends an update
before any of them, and after the effect of the one before. Updates may overlap
at will: `mixed` remembers whose last update overlapped another one, and
`healed` whether one that was alone has succeeded since the last overlap.

**Startup** composes it with the life of the process. `phase` walks through
`main`: tags, secrets and options, update, load, servers; any error, and `Kill`
at any point, starts it over, and `Stop` takes the instance away. A deployment
is the set of options that the command line, the environment and the secret
hold. `RequestUpdate` is `/update-cluster`, served by a node that serves and lost
with it.

**Packet** takes a param as a text inside a number of zlib streams, and the mark
`is_compressed` as the code keeps it: `set_request` leaves it alone.
**RequestUrl** takes a url as a record of what the parser has made of it; the
rest that `normalize_url` drops is one field.

**SignalFuture** has one action per critical section. **ThrottleJobRunner**
numbers jobs by their place in the channel, so that three counters and the set
of those that have ended are its whole state; a job is polled, hence started,
when `buffered` takes it from the channel. **BandWidth** keeps beside the code's
counters the bytes and milliseconds that it should have measured.


## 3. The runs

Twelve runs; "states" are distinct states. Every passing run reaches the limits
it is about, and every checked property has a mutant that breaks it in that run.

| run | instance | states | shows |
|---|---|---|---|
| `registry` | 4 clients, one session twice, 3 urls, 2 slots, 1 place per url, 2 removal tasks | 71 k | the inductive invariant (with types, exact url counts, UrlData found and never left empty), exact slots, both limits, agreement of the views at rest, removal once; refinement of `Admission`; every call returns |
| `entrance` | 2 sessions, 1 slot, 1 callback each | 203 k | a dead registered connection has something on its way to find it; a refused, failed or abandoned request leaves nothing; the handlers use the registry within its contract |
| `entrance_live` | one session twice, both callbacks | 66 k | under fairness: lost connections are closed and give slot and place back, requests are answered; only a connection's own callbacks evict it |
| `entrance_leak` | one session twice at once | violation | removing everything does not restore availability (finding 1) |
| `entrance_unreachable` | 1 client | violation | `unreachable!` is reached (finding 2) |
| `routing_info_cache` | 3 clients, interval 2, clock to 4, 2 exchanges each | 3.4 M up to symmetry | refreshes spaced, own info served, the removed are gone after the next refresh |
| `routing_info_ghost` | 2 clients | violation | a removed client is written back (finding 3) |
| `transfer` | 2 sessions, 3 connections, 4 messages with ttl 0, 1, 2 | 594 k | hops within the ttl, right answers, no endless circulation |
| `cluster` | 2 nodes, 2 clients of one url, 3 lists, 1 change, 1 crash | 862 k | one redirect at most, refusals only on disagreement; in the end together, and served |
| `parts` | forests of up to 3 nodes; 2 texts; urls of 2 hosts with up to 3 slashes, 2 remembered; 2 awaiting tasks, 3 calls of `finish`; 4 jobs, window 2; a clock of 14 ms | 582 k | tree algorithms against reference definitions; packets survive; spellings meet; wakers; the window; all jobs done; the rate within a factor of two |
| `startup` | 2 nodes, 5 deployments, 1 failure or death, 1 request | 989 k | who serves is found; unique records, exact success, running nodes keep their records; in the end served |
| `startup_readme` | 1 node, the README's options | violation | a node that never serves (finding 4) |

### Bounds

* Two sessions competing and one coming back are enough for every pair of
  calls that can meet in the registry: an action touches one client, one url
  and the counters. Three sessions race for two slots and two sessions for the
  one place on `u1`; a session comes back on another url. The proofs remove the
  bound.
* `CounterWrap` is larger than any count reached, so that a wrap is a visible
  error and not an accident of the bound.
* `MaxTime` of the cache leaves room for two refreshes, which
  is what `PurgedStayGone` and `RefreshesAreSpaced` compare. `Tick` never lets a
  refresh take longer than the interval (it does not await).
* Three nodes make the smallest forests in which depth and order differ
  (two roots, one child), with every combination of mentions. The proofs remove
  the bound.
* A ttl of 2 is the smallest with which a message is passed on and passed on
  again. In `transfer` clients send each message once and pass each copy on once.
* In `startup` two nodes and a request make three updates that can overlap
  pairwise. One failure or death, anywhere, is enough for a half-done update that
  another one, or its own restart, finds. Instances do not come back under the
  same ip. `StartTries` is 2 where the code has 5. The deployments are
  production's (`etc/`), the README's, the local one, one without a host and one
  without an instance to take tags from; role and stage have one value each.
* `MaxZips` 1 and a text that shrinks twice let a caller's own stream be
  compressed again, and one that never shrinks stay as it is.
* `MaxPassed` 2: `SpellingsMeet` compares two requests. Three slashes are the fewest
  of which one can be popped and still leave spellings that differ.
* Four jobs in a window of two fill it, wait behind it, and reach beyond it; at
  most two of them wait for another job (`FewNeed`), which makes chains, circles
  and jobs that wait past the window.
* The meter's second is 3 ms and its span 4, so that spans with and without a
  cut-off rest occur, and two measurements within 14 ms.
* One change of the list and one crash: the properties under fairness are about
  what happens after the last of them.

### Fairness

* `Registry`, `Entrance`: the steps of a synchronous call, a spawned task and a
  pending callback are weakly fair: tokio runs what is ready and nothing in them
  waits except for the url entry, which is held for synchronous code only. What
  clients and the network do has no fairness. A set-up ends because of its
  timeout, which is why `SetupFails \/ Evict` is fair as a whole.
* `Transfer`: weak fairness of each connection's handler.
* `Cluster`: the poll loop loads again every minute, systemd restarts the
  process (`Restart=always` in `etc/systemd/system/hubserver.service`), the server answers. That a client
  keeps asking, and that a connected one keeps sending, are assumptions about
  clients, named in the module; the exchange of routing infos and keep-alives
  are what the second one stands for.
* `Startup`: weak fairness of `ProcessStep(n)`, the steps of one process up to its
  servers: remote calls end, with success or not, and `Restart=always` in
  `hubserver.service` brings a dead process back; and of `LoadList(n)`: the poll
  loop loads again every minute and some load succeeds. Stops, deaths, failures and
  requests have none.
* `SignalFuture`: a `finish` that has begun ends, and a scheduled task is polled.
* `ThrottleJobRunner`: its task is polled, and a job that waits for nothing ends.

### Assumptions a reader should know

* **`SerialSessions` / `OneAtATime`.** The registry's promises hold when calls
  for one session do not overlap. The code has nothing that ensures it: two
  `/enter` requests of one session, or the late `Closed` callback of an earlier
  connection, overlap freely. `ImplementsRegistry` and `EvictedByOwnConnection`
  show that the handlers keep the contract when a session asks again only after
  its earlier connections have drained; `entrance_leak` shows the price when it
  does not. A page that is reloaded while its old connection is open is exposed
  to the stale callback every time: it evicts the new connection.
* **Overlapping updates** promise nothing. The last writer of the list wins with
  an older EC2 answer; two nodes list the same stale record, the second delete is
  an error, and `cm.update().await.unwrap()` (`hubserv/src/main.rs:54`) panics.
  The model lets updates overlap and the properties say what remains true: an
  update that overlaps no other keeps all its promises, whatever failed or
  overlapping ones have left, and `ServersAreFound` holds again from then on.
* **`SignalFuture`.** `poll` takes the result and stores the waker in two
  critical sections. A `finish` on another thread between them finds no waker:
  the result lies ready and the task sleeps. `unheard` records this and the
  other way, a clone that replaces the waker; `ReadyIsWoken` says there is no
  third. On one thread (wasm) with one awaiting task neither can happen. hubserv
  does not use SignalFuture.
* **A zlib stream as a param.** `set_request` leaves `is_compressed` as it is, so
  that a stream set in a packet that was compressed before arrives unpacked. No
  caller in the server does that; `ParamSurvives` says that nothing else goes wrong.
* **`MinSpan >= Second`**: `BandWidth` divides by zero for a shorter span.
* **Finitely many connections** in `Transfer`, `MaxParallel # 0` in
  `ThrottleJobRunner`.
* **`MaxByUrl # 0`**: `add_connection` lets the first client of a url in without
  looking at the limit.


## 4. Findings

1. `entrance_leak`: a removal that falls between `connection_map.insert` and the
   url entry (`hubserv/src/state.rs:114-116`) takes a client that its url counts
   afterwards and for good. `state.rs:255-256` asserts that removal restores
   availability.
2. `entrance_unreachable`: `exchange_routeing_info` looks the url up after the
   client was removed and reaches `unreachable!("url data not found")`
   (`hubserv/src/swarm.rs:103`).
3. `routing_info_ghost`: a refresh that copied the client list before a removal
   writes the removed client back (`state/url_data.rs:73`), against what
   `url_data.rs:272-273` asserts of sequential calls; `PurgedStayGone` says for
   how long.
4. `startup_readme`: with `http_host` and `public_ip` the code always sets
   `cluster_node_host` (`args.rs:108-111`), and `main` then unwraps the Cloudflare
   credentials, role, stage and S3 path of a cluster (`main.rs:33-40`). The command
   under "Run" in `README.md:28-38` gives none of them, and the server panics at
   every start unless the environment happens to supply them.


## 5. What is proved

Eight modules, without a bound on anything the instances bound.

| module | theorem | says |
|---|---|---|
| `RegistryProofs` | `TypeCorrect` | `Spec => []TypeOK`, with no contract at all |
| | `IndInvHolds` | `Spec => []IndInv` |
| | `SlotsAreAccounted` | `client_count` is the number of slot holders |
| | `ConnectionCapHolds` | no more than `MaxConnections` registered clients |
| | `UrlSlotsAreAccounted` | a mapped UrlData counts exactly its url's clients |
| | `UrlCapHolds` | no more than `MaxByUrl` registered clients of one url |
| | `UrlDataIsReachable` | a registered client is listed in the UrlData its url maps to |
| | `EmptyUrlDataIsReaped` | an empty UrlData in the map has a removal about to drop it |
| | `ClientsAreRemovedOnce` | `RemovedOnce` |
| | `ViewsDoAgree` | `ViewsAgree` |
| | `RegistryImplementsAdmission` | `Spec => ImplementsAdmission` |
| `EntranceProofs` | `EntranceInvHolds` | `EntranceSpec => []EntranceInv` |
| | `EntranceImplementsRegistry` | `EntranceSpec => ImplementsRegistry` |
| | `OverlapsRemoveOnce` | `EntranceSpec` implies `RemovedOnce`, also when a session overlaps itself |
| | `GuaranteesReachClients` | `EntranceSpec` implies `ImplementsAdmission`, `ConnectionCap`, `UrlCap`, `ViewsAgree`, `RemovedOnce` |
| | `DeadConnectionsAreNoticed` | `DeadIsNoticed` |
| | `RefusedLeaveNothing` | `RefusedLeavesNothing` |
| | `EvictionsAreOwn` | `EvictedByOwnConnection` |
| `RoutingInfoCacheProofs` | `ClaimsKeepTheInterval` | `RefreshesAreSpaced` |
| | `LeaversStayGone` | `PurgedStayGone` |
| | `RefresherSeesItself` | `OwnInfoServed` |
| `RoutingInfoProofs` | `WalksAreByDepth` | `WalkIsByDepth` |
| | `SentDataIsCut` | `SendDataIsCut` |
| | `MentionsAlwaysDecide` | `MentionsDecide` |
| | `RumoursAlwaysFade` | `RumoursFade` |
| `TransferProofs` | `HopsAreBounded` | `HandedWithinTtl` |
| | `AnswersAreTrue` | `AnswersAreRight` |
| `ClusterProofs` | `RedirectsAreBounded` | `AtMostOneRedirect` |
| | `RefusalsHaveAReason` | `RefusedOnlyOnDisagreement` |
| `StartupProofs` | `NoRecordTwice` | `RecordsAreUnique` |
| | `RunningKeepTheirRecords` | `RunningKeepsRecords` |
| | `SuccessLeavesWhatWasSeen` | `SuccessIsExact` |
| | `StartsAreUpdates` | `StartupSpec => Spec` of `ClusterManager` |
| | `ServingNodesAreFound` | `ServersAreFound` |
| `PartsProofs` | `ParamsSurvive` | `ParamSurvives` |
| | `PagesMeet` | `SpellingsMeet` |
| | `JobsStartBehindEnded` | `StartsBehindEnded` |
| | `RatesAreWithinTwice` | `RateIsWithinTwice` |
| | `ReadyTasksAreWoken` | `ReadyIsWoken` |
| | `OutcomesAreTakenOnce` | `TakenOnce` |

Besides the assumptions on constants, the theorems of `RegistryProofs` assume
`SerialSessions` and `MaxByUrl # 0`, except `TypeCorrect` and
`ClientsAreRemovedOnce`, which assume nothing.
Those of `EntranceProofs` assume `SerialSessions` and `OneAtATime`, except
`OverlapsRemoveOnce`, which assumes neither; `GuaranteesReachClients` also assumes
`MaxByUrl # 0`, and is where the three modules meet: what clients see follows from
the handlers keeping the contract, and the contract giving the guarantees. Those of
`ClusterProofs` are about `SafeSpec`, which
has no fairness; the first three of `StartupProofs` about the `Spec` of
`ClusterManager`, which `StartsAreUpdates` carries over to `StartupSpec`.

### The registry

`SlotsAccounted` alone is not inductive: a step may only decrement
what it has taken, and that depends on who else may be inside a call. `IndInv`
is `CallInv /\ SlotInv /\ UrlInv` with three parts on who is still listed where:

* `TypeInv` has types and what each program counter has read (`LocalInv`);
* `SessionInv` is what the contract buys: one call per session, and
  `connection_map` in step with the call's program counter;
* `RemovalInv`: a removal owns the client it took, alone;
* `SlotInv` then moves count and holders together: only a successful
  `compare_exchange` adds one of each, only `fetch_sub` takes one of each;
* `EntryInv`: who works on a UrlData holds the entry, and the UrlData is the one
  in the map; so `UrlCountInv` moves count and holders together per url, and
  `remove_if` cannot drop a UrlData with a client in it, which is
  `UrlDataReachable`; whoever takes the count to zero is on its way to the drop,
  which is `EmptyUrlDataHasReaper`;
* `ListedInv`: whom a mapped UrlData lists is registered or has a removal that has
  not come to `retain` yet, and such a removal holds that very UrlData, or its
  client is listed in none that is mapped; so at rest the lists, the map and the
  counts name the same clients (`ViewsAgree`);
* `DisposedInv` and `ListedAreAdded`: nobody is disposed, or listed, who is not
  added, and the disposed are out of the map for good;
* `OwnershipInv`: a client enters `connection_map` once and under its own session,
  and the one step that takes it out gives it to one removal (`RemovedOnce`).

Each part has one lemma for the steps of `add_connection` and one for those of
`remove_connection`, split by action; `IndInvNext` puts them together.

What survives when calls for one session overlap: the counts do not (a client can
be taken out of the map while its `add_connection` has not reached the url, or be
overwritten there by the session's next client; `entrance_leak` shows the result),
nor does a removal always decrement the UrlData that is in the map. But
`OwnershipInv` with `TypeInv` is inductive by itself, from the atomicity of the map
operations alone; so one removal at most takes, uncounts and disposes a client, in
the registry (`ClientsAreRemovedOnce`) and in the entrance server whatever a session
does (`OverlapsRemoveOnce`).

`Clients` may be infinite; that the holders are finitely many is part of the
invariant.

### The refinements

`RegistryImplementsAdmission` maps the program counters of a client, its place in the map and
the removal that holds it to one phase (`Phase` in `Registry`), and shows action by
action that a step moves one client's phase as `Admission` allows, or none. The
guards of `Admission` are about the numbers of clients, those of the code about
counters; `SlotInv` and `UrlCountInv` make them the same number.

`EntranceInv` says who can still act on a session. `OneLeftInv` is its core: of
the clients of one session one at most is not drained. That is what `OneAtATime`
gives a request that begins, but it has to last: no step may bring a drained
client back (`DrainedKept`), which is why a callback, a close and a message must
belong to a request that is over (`ConnectionInv`), `add_connection` to one that is
not (`AdmitInv`), and a removal to the client it was started for and to no other
one that its session has (`OwnRemovalInv`): `remove_connection` is told the session
alone. Then nothing else of the session is inside the registry when `Admit` or a
callback calls it (`AloneOnSession`), which is the contract. `NoticeInv` adds that a
registered client whose connection is dead has its end still before it; it is
needed because a client that is registered, dead and unnoticed would be drained
and still in the map. TLC has checked `EntranceInv` on the instance of
`entrance_live`, with both callbacks, and on three clients of two sessions (put
`INVARIANT EntranceInv` into the cfg).

### The other modules

* **Cache.** What an exchange may write depends on the clock it has read, the list
  it has copied and who left since. `ClaimsAreSpaced` and `ClockIsRecent` bound
  the three clocks against each other, so that `OneHolds`: only one exchange at
  a time is between its claim and its answer. `CollectedFits` then says what it
  holds is of clients listed and not gone when it began, and current for
  itself; `ListIsCurrent` says that the list has nobody twice and nobody who left.
* **Transfer.** `OneCopy` is the heart: of each message there is one copy, in one
  mailbox or one call. So its ttl and its hops can be added up (`TtlIsLeft`), an
  answer false means that no copy is left (`FalseIsFinal`), and the answers true,
  given or about to be, are counted by a finite set of calls (`TrueIsEarned`).
* **Cluster.** `HostTellsHops`: a request that names the cluster host has not been
  redirected, one that has been names a node, and only the first kind is
  redirected. `SettledRequestsAgree`: while no list changes, one list rules all
  serving nodes, and the redirected request is where it says.
* **Manager.** The invariant is about an update that is alone (`SoloIsAlone`): it
  sees every running node that has a record (`SoloSees`, for which an instance
  must be unknown before it runs, `NewIsUnknown`), what it has still to do follows
  from what it saw (`PlansFit`), and the records are those of the nodes seen but
  for what is still to be done (`SoloExact`).
* **Start-up.** That a node that updated is found must survive the updates of others.
  While `healed`, every update under way is alone (`HealedIsSolo`), and what is alone
  has seen all nodes that updated before it began (`SoloSeesUpdated`), for they run
  (`BusyRuns`) and nobody updates beside it; so neither its upload nor its deletes
  take one away (`UpdatedAreFound`). When an update that is alone succeeds after an
  overlap, the same two facts make all of them found again. `PhaseInv` ties the phase
  of `main` to the update it awaits.
* **Urls.** A request that passes has a url that was parsed, with a host, and its
  normal form (`PassedInv`); `SlashesMeet` is when two normal forms agree.
* **BandWidth.** The code's counters are those of the span (`MeterInv`); `RateBounds` is
  what two whole divisions, one inside the other, can lose.
* **Packet.** Every packet holds what was set in it, or that compressed once with
  the mark set; encoding and decoding keep this.
* **SignalFuture.** A parked task is heard: its waker is stored or held by a
  finisher (`ParkedIsHeard`); one inside `poll` beside an outcome will be polled
  again (`PolledIsWoken`); an outcome has one place.
* **ThrottleJobRunner.** What was handed over has ended, and the window is never
  longer than `MaxParallel`; the rest is arithmetic.

TLC has checked every one of these invariants before its proof. Each proof has
one lemma or step per action, and under it one step per part that it disturbs.

### The routing-information tree

`MaxNodes`, the size of the forest, is any number, and so are the sessions, the
lists of known gateways and the counts. `ForestInv` says that nodes are numbered
without a gap and a parent before its children, which is how a message is decoded.
All else is about recursion over such a forest, and so needs induction over data.
The library states induction with an operator as a parameter, which the provers
cannot instantiate. `RoutingInfoProofs` therefore does it with sets: `LeastNumber`
(from `WFMin`), then `Induct`, `InductTo` and `InductBelow`, which take the set of the
numbers that have the property. A recursive function is a `CHOOSE`, of which
nothing is known until some function is shown to satisfy its equation;
`Recursion` gives that function, once for a step function of any kind. For its
sake the algorithms are recursive functions over numbers and not folds.

* **Walk.** The argument is about what has been visited followed by what is
  queued, as one sequence, and about how far the visit has come (`Tour`): no node
  is in it twice, each has its depth (`Numbered`), depths never decrease (`Sorted`)
  and none is more than one below the node that comes next (`Near`); a node's parent
  has been visited (`ParentsFirst`) and all its children are listed once it has
  been (`ChildrenListed`). `TourGoesOn`: a call of `next` keeps this. As no node comes
  twice (`DistinctFits`), the queue is empty after as many calls as there are nodes, and
  then all have been visited. Depths, trees and shortest paths are defined by
  going up (`Up`), so that the walk is compared with something that does not walk.
* **Sent data.** Level `n` of what is sent holds nodes of depth `n` (`LevelDepths`); the
  levels of what was sent are those of the tree (`LevelsAgree`), so a cut of a cut
  differs from the cut at most in its counts (`SendTwice`), and these are equal as
  a count replaces children only where all of them were sent.
* **Known gateways.** After any number of rumours, each session's ttl is the
  largest that was heard less one (`Faded`); `AddRumourFades` is the one step where
  `<` against `ttl` and `ttl - 1` in the code must fit together. After any number of
  nodes of the second loop, `Decided` says what the mentions so far have
  decided.

### Only model-checked

Everything under fairness: `CallsReturn`, `LostIsReleased`, `EnterReturns`,
`CirculationEnds`, `ServedTogether`, `AllServed`, `NodeServes`, `OutcomeIsTaken`,
`JobsGetDone`. Liveness is out of the prover's reach. Every other property of the
passing runs is proved.


## 6. What is not modelled

* The effect of `POST /candidate`, which hands a candidate to the WebRTC library;
  the library itself beyond its callbacks.
* That the channel a ClientData holds is its own. It is not always: `on_data_channel`
  takes the ClientData the session has at that moment, and a removal takes the old
  connection out of the map before it mutes it. The repository does not say what
  should happen; the server only logs it.
* The random sample of relations when there are more than `max_routing_results`: it
  is drawn for one answer and changes nothing.
* Keep-alives and unknown RPCs, which change nothing.
* The access log and its one-shot flag; the metrics page, which reads the counters.
* Signatures, zlib and protobuf: an outcome (`RefuseUnsigned`, `RejectRequest`,
  `Genuine`) or exact inverses. The spelling of hosts: a record's kind.
* TLS and ACME, sockets, CORS, the values of options; `tls_acceptor.rs` is in no
  module tree. `dns::set_arecord` is never called: its conditions, `http_host` and
  `public_ip`, set `cluster_node_host`, which the branch before it tests.
* The helpers of `common` that wrap libraries (time, crypto, http, logs, sleep,
  spawn): no state of their own.


## 7. Plan

Done, in this order:

1. `Admission`, `Registry`, `RegistryInv`, `RegistryProofs`: what every other part
   relies on.
2. `Entrance` on top of it, with the refinement to the registry's contract.
3. `RoutingInfoCache` and `RoutingInfo`, `Cluster` and `ClusterManager`,
   `SignalFuture`, `Transfer`.
4. `ThrottleJobRunner`, `BandWidth`, `Packet`, `RequestUrl`, run together in `MCParts`.
5. Updates that overlap, and `Startup` around `ClusterManager`.
6. The proofs of the seven modules besides the registry's.
7. That the registry implements `Admission` and `Entrance` the registry, and every
   other safety property of the runs; last those of `RoutingInfo`, for trees of any
   size.

Open:

1. Cluster and start-up composed: the list the nodes poll as the manager writes it.
