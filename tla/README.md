# TLA+ models of felix's IP-set reconciler, event sequencer, syncer decoupler, dataplane connection and BPF map library

This directory holds TLA+ models of parts of the calico sources under `src/`,
with the TLC configurations that check them. `PROJECT.json` lists every
component, every run, the mutants that show each property can fail, the
source lines behind each definition, the findings and the hazards.

## The system and its parts

felix is calico's per-node agent. Its **calculation graph** (not under `src/`)
turns datastore facts into a stream of callbacks: IP sets and their members,
active policies and profiles, endpoints, VTEPs, routes, config and others.

- The **event sequencer** (`src/felix/calc/event_sequencer.go`) buffers these
  callbacks. It coalesces changes to one key, and its `Flush` emits messages in
  a fixed order of kinds. The dataplane applies them in that order, so a
  message must never depend on one that has not been sent yet.
- The dataplane side programs the kernel. In BPF mode, IP sets are kept by the
  **BPF IP-set reconciler** (`src/felix/bpf/ipsets/ipsets.go`). It holds each
  set's desired membership and pending adds and removes. `ApplyUpdates` writes
  and deletes entries of a pinned BPF map. That map outlives the process, so
  after a restart a resync rebuilds the pending sets from what is in the map.
- The **syncer callbacks decoupler** (`src/typha/pkg/calc/async_decoupler.go`)
  passes syncer callbacks to a consumer goroutine over an unbuffered channel.
- The **legacy felix main** (`src/go/felix/felix.go`) connects the calculation
  graph to a separate dataplane driver process. It marshals each message onto
  a pipe and restarts on config changes. It imports the legacy calculation
  graph `github.com/projectcalico/felix/go/felix/calc`, which is not in the
  repository, not the event sequencer under `src/felix/calc`.
- The **BPF library** (`src/felix/bpf/bpf.go`, `BPFLib`) keeps pinned BPF
  maps through `bpftool`: the failsafe-port hash map, one XDP CIDR
  `lpm_trie` per interface and the sockmap endpoints `lpm_trie`. Keys and
  values go to `bpftool` as hex bytes that the library encodes and decodes
  itself. Its callers (the XDP and sockmap state code) are not under `src/`.
- The rest has no protocol of its own, so it is not modelled:
  - the rest of `bpf.go`: loading and attaching programs, and map-ID queries;
  - `globalnetworkpolicy.go`: a CRUD client;
  - `register.go`: API type registration;
  - test utilities and functional tests.

## Modules

### `BPFIPSets` (instanced by `MC_BPFIPSets`)

Models the BPF IP-set reconciler.

**State** (the `bpfIPSets` fields):
- `ipSets`: numeric ID → `bpfIPSet` record;
- `alloc`: the IDAllocator's string → numeric ID map;
- `dirtyIPSetIDs`, `resyncScheduled`;
- `needed`: the name filter;
- `bpfMap`: the kernel map, a set of `<<numeric ID, member>>` entries.
- `calcMembers`: the members the caller has given each set. A member is
  of this reconciler's IP version (`Members`) or of the other one
  (`OtherMembers`).

Environment state:
- `calcActive`: the sets the caller has added and not removed. Callers obey
  the calculation graph's IP-set protocol.
- `status`: running, panicked or crashed.
- `failuresLeft`, `crashesLeft`: budgets that bound failures and crashes.

**Actions**, one per method:
- `AddOrReplaceIPSet`, `RemoveIPSet`, `AddMembers`, `RemoveMembers`,
  `QueueResync`, `SetIPSetNameFilter`, `ApplyIPSetNameFilter`.
- Each of the member operations first converts members with
  `protoIPSetMemberToBPFEntry` (`ConvertedEntries` for a whole set). A
  member of the other IP version converts to nil and is skipped, as in the
  code.
- `ApplyUpdates`, one atomic step: the resync scan, orphan deletes, the dirty
  loop and ID release.
- Inside `ApplyUpdates`, any subset of map calls may fail, within
  `MaxFailures`. A failed `Iter` leaves the scan with only part of the map.
- `Crash` and `Restart`. A restart rebuilds the reconciler empty, with a resync
  scheduled, and keeps the map.

**Spec-modelled**: the IDAllocator (`GetNoAlloc`, `FreeIDs`, `ReleaseUintID`).
It is outside `src/`, so it is modelled from its contract in spec §4.3.
So is the member conversion `protoIPSetMemberToBPFEntry`, which the
constructor is given from outside `src/`.

### `EventSequencer` (instanced by `MC_EventSequencer`)

Models the event sequencer.

**State**:
- `buf`: the `EventSequencer` struct. Its fields keep the Go names. A Go map is
  a function over the keys it holds. A member multidict is a set of pairs.
- `calc`: what the calculation graph wants downstream.
- `dp`: the dataplane's copy, built by applying the emitted messages.

`calc` and `dp` map each key of each kind to a value or to `Absent`. Values are
abstracted to the references that ordering is about:
- a policy or profile names the IP sets its rules use;
- an endpoint names its policies and profiles;
- a route names the node whose VTEP it goes through.

**Actions**: one per callback.
- `IPSetAdded`, `IPSetRemoved`, `IPSetMemberAdded`, `IPSetMemberRemoved`.
- `Active` and `Inactive`, for the keyed kinds that share one update/remove
  pattern: policies, profiles, endpoints, VTEPs, routes, service accounts,
  namespaces, host IPs (v4 and v6), host metadata, IP pools and services.
  `UpdateCallback` and `RemoveCallback` dispatch to one operator per Go
  callback (`OnPolicyActive`, `OnHostIPUpdate`, `OnVTEPRemove`, ...). Each is
  defined through `QueueUpdate` or `QueueDelete`, the pattern they share.
  `OnEndpointTierUpdate` with a nil endpoint is a deletion.
- `WireguardUpdate`, `WireguardRemove`. One wireguard record of a node
  becomes two dataplane objects, its IPv4 and its IPv6 endpoint. An update
  with one public key empty removes that family's endpoint if it was sent.
  The remove callback queues a delete unconditionally; the flush checks the
  sent sets.
- `EncapUpdate`, `GlobalBGPConfigUpdate`, `DatastoreNotReady`,
  `ConfigUpdate`.
- `Flush`. `FlushSteps` runs the `flush*` methods in `FlushOrder`, the order
  of `Flush()` in the code. It records the dataplane state after each step.
  Each step is the operator named after its Go method (`flushPolicyUpdates`,
  `flushVTEPRemoves`, ...). `flushServiceAccounts`, `flushNamespaces` and
  `flushServices` send their deletes before their updates
  (`DeletesThenUpdates`).
  - One step iterates one Go map of one kind, so its messages have distinct
    keys and commute. Map iteration order therefore cannot matter.
  - Checking every intermediate state between steps covers every
    intermediate state of the real flush.
- A `log.Panic` in a callback is a failed `Assert`. A passing run therefore
  also shows that the protocol below never triggers a panic.

**Spec-modelled**:
- The calculation graph. It changes one object per step through the matching
  callback. It flushes only at the end of a batch, when `calc` is closed under
  references.
- The dataplane's reading of a message (`ApplyMsg`).

The kinds without references (service accounts, namespaces, host IPs,
host metadata, IP pools, services) are instantiated through `GenericKinds`.
Their values are opaque payloads. They share one code pattern, so the
cluster run uses one of them.

### `TierInfo` (extended by `MC_EventSequencer`)

Models `tierInfoToProtoTierInfo` and `addPolicyToTierInfo`, the pure
conversion that `flushEndpointTierUpdates` runs for each endpoint. It turns
the tiers of policies that apply to an endpoint into the four tier lists of
the endpoint message: normal, untracked, pre-DNAT and forward.
- A policy is abstracted to its name and the five predicates the code reads:
  `DoNotTrack`, `PreDNAT`, `ApplyOnForward`, governs ingress, governs egress.
- `TierInfos` is the loop over one tier's policies, a `FoldLeft` of
  `AddToTiers`. `tierInfoToProtoTierInfo` folds `AppendTier` over the tiers.
- A reference definition (`RefList`) says the same thing declaratively,
  with `SelectSeq`. `TierInfoMatchesReference` compares the two over
  every list of at most two tiers holding at most two policies, with
  every combination of flags the API allows.

### `SyncerCallbacks` (instanced by `AsyncDecoupler`)

The abstract specification of what the decoupler promises: the syncer's
callbacks reach the sink as if called directly.
- `made` and `got`: the callbacks made and the callbacks received.
- `Make(v)` is allowed only once the previous callback has returned.
  `Deliver` hands over the outstanding one, and is not allowed after
  `closed`.
- `Cancel` and `Close`: Done is closed only after cancellation.
- Fairness: delivery is owed until cancellation, and closing is owed after
  it.

`AsyncDecoupler` instantiates it with the refinement mapping:
- `made` is `delivered` plus the value blocked in the send, if any;
- `got` is `delivered`;
- `cancelled` is `ctxDone`;
- `closed` is `done`.

`RefinesSyncerCallbacks` asserts the abstract specification, fairness
included.

### `AsyncDecoupler` (instanced by `MC_AsyncDecoupler`)

Models the syncer callbacks decoupler.

**State**:
- `pending`: the value the syncer goroutine is blocked sending on the
  unbuffered channel `c`, or `None`;
- `calls`: the callbacks the syncer has made, bounded by `MaxCalls`;
- `consumer`: the goroutine running `SendToContext`: not started, running or
  returned;
- `ctxDone`, `done`: the context is cancelled, `Done` is closed;
- `delivered`: what the sink has received, in order.

**Actions**:
- `Call(kind)`: `OnStatusUpdated` or `OnUpdates` starts its channel send.
- `Start`: `go SendTo(...)` in felix's main.
- `Receive`: the first select case. It completes the send, so the callback
  returns, and hands the value to the sink.
- `Stop`: the second select case. The loop returns and the deferred
  `close(a.Done)` runs. When both cases are ready, either may fire, as in Go.
- `Cancel`: the caller cancels the context. It is enabled only when
  `Cancellable` is TRUE, i.e. the caller used `SendToContext`; `SendTo` passes
  `context.Background()`, which is never cancelled.

### `FelixConn` (instanced by `MC_FelixConn`)

Models the legacy felix main (`src/go/felix/felix.go`). Each goroutine is a
process with a program counter, and an unbuffered channel send is a joint
step of the sender and the receiver.

**Goroutines and state**:
- main's start-up (`mainPc` in `LoadingPcs`, `configErr`,
  `configErrorsLeft`, `datastoreReady`):
  - `LoadLocalConfig` is one pass of the `configRetry` loop up to
    `loadConfigFromDatastore`. A config-file, parse (`configParams.Err`) or
    `NewClient` error sleeps and retries. `configParams = config.New()` at
    the top of each pass clears the previous error.
  - `GetReadyFlag` and `ListConfig` are `loadConfigFromDatastore`. It waits
    for the datastore's Ready flag, then lists the global and the per-host
    config. A failed read or List starts over at the flag.
  - `ValidateConfig`: an invalid datastore config is `log.Fatalf`. The
    sleep and `continue` after it never run, despite the loop's comment
    "Keep retrying on failure".
  - `StartDriver`: the pipes, the driver process and `go manageShutdown`.
    Any failure there is fatal.
  - `ReadyFlagChanges`: the datastore's administrator sets or clears the
    Ready flag (an environment step).
  - `TermSignalBeforeNotify`: before `manageShutdown` calls
    `signal.Notify`, SIGTERM ends the process at once.
- main (`mainPc`), afterwards: it starts the calculation graph, then `DataplaneConn`,
  then sends the opening `ConfigUpdate`. It then waits on
  `failureReportChan` and relays the reason to `manageShutdown`. Last, it
  sleeps and calls `log.Fatal`.
- the calculation graph (`calcPending`, `calcSent`, `calcConfig`). It is
  the legacy package felix.go imports, not in the repository, so it is
  modelled from its contract: it sends messages of the kinds in
  `CalcKinds`, and a `ConfigUpdate` only when the merged config changed.
- the sender, `sendMessagesToDataplaneDriver` (`senderPc`, `config`,
  `datastoreInSync`, `inSyncQueued`, `nextSeqNumber`):
  - `Handle` is its type switch;
  - `Marshal` is `marshalToDataplane`, which appends an envelope to `pipe`
    or is fatal on a type with no case;
  - `ShutDown`, `SenderReportFailure` and `SenderPanic` are
    `shutDownProcess`, with its deferred second call after `log.Panic`.
- the reader, `readMessagesFromDataplane` (`firstStatusReportSent`,
  `reports`, `statusesRead`, `statusPending`):
  - status reports, with datastore writes that may fail;
  - endpoint status messages (`ReadEndpointStatus`). With a status reporter
    the reader blocks sending them on the unbuffered
    `StatusUpdatesFromDataplane`. Without one it drops them.
  - the fatal read once the driver has gone.
- the status reporter (`statusReporter`, `statusesReported`). main creates
  it only if `EndpointReportingEnabled` (`StartStatusReporter`), before
  `DataplaneConn.Start`. Its package is not under `src/`. Its loop is
  modelled from its contract: it receives from `StatusUpdatesFromDataplane`
  and from `InSync`.
- `manageShutdown` (`mgrPc`): its select over driver exit, SIGTERM and the
  relayed reason, then stopping the driver and exiting.
- the driver process (`driverRunning`).

`exited` and `exitCause` record how the process ended.

**Not modelled**:
- config contents: a config is a model value (`MainConfig`), and parse and
  validation outcomes are nondeterministic;
- the byte-level encoding of envelopes;
- messages of unknown type from the driver: the default case only logs.
- the gap between `signal.Notify` and `manageShutdown`'s select: the model
  takes them as one step. A SIGTERM in that gap is dropped, because
  `termSignalChan` is unbuffered (a hazard in `PROJECT.json`).

### `BPFLib` (instanced by `MC_BPFLib`)

The maps are kept at byte level, so the code's encoders and decoders are
what the properties test:
- `pinned`: which of the map files exist in the BPF filesystem.
- `failsafe`: the failsafe hash map's set of 4-byte keys, which
  `failsafeToHex` builds (proto, a padding byte, the port little endian).
- `cidr[i]`, `sockEndpoints`: the `lpm_trie` maps' entries. Keys come from
  `CidrToHex` (the mask as a little-endian u32, then the IPv4 bytes). Values
  come from `cidrMapValueToHex` or the fixed `01 00 00 00`.
- `failsafeWanted`, `cidrWanted`, `sockWanted`: ghost variables holding what
  the caller was told succeeded.

There is one action per method that changes a map:
- `newMap` is the three `New...Map` methods: an existing pin is taken as it
  is, contents and all (the FIXME at bpf.go:255);
- `Remove...Map` is the `os.Remove` of the pin, after which the map is gone;
- `Update...` and `RemoveItem...` are the `bpftool map update` and `delete`
  calls.

A call that fails changes nothing, so failures are stuttering steps. Such a
call is one on an unpinned map, a mask outside 0..32, a prefix length the
kernel refuses, or a delete of an absent node. The dump and lookup methods
are operators over the state, each decoding through the code's own helpers
(`hexToFailsafe`, `hexToIPNet`, `hexToCIDRMapValue`, `NewCIDRMapKey`).

The kernel side is modelled from its documented semantics and is not mapped
to the sources:
- a hash map is a set of keys;
- an `lpm_trie` node is identified by its prefix length and prefix, and an
  update replaces the node of the same identity, key bytes included;
- a lookup returns the longest stored prefix that contains the key.

So two addresses masked to one prefix share one node, and the later update
replaces the earlier. `CIDRDumpMatches` and `CIDRLookupLongestMatch` state
this as the map's semantics. Whether a caller ever puts two addresses of
one prefix and needs both is decided by the XDP state code, which is not
under `src/`, so the collapse is listed as a hazard with no property.

`nativeEndian` is taken as little endian: `NewBPFLib` refuses any other
host (bpf.go:1469, 2208).

The instance is `MC_BPFLib`: one interface, TCP ports 22 and 8080, and the
addresses 10.0.0.1, 10.0.0.2 and 10.0.1.1. With masks 24, 32 and the
invalid 33:
- two addresses share a /24, so one node replaces another;
- /24 and /32 prefixes nest, so the longest match matters;
- 33 exercises the mask bounds check.

## Runs

| run | module / cfg | bounds | checks |
|---|---|---|---|
| `ipsets_converge` | `BPFIPSets_live.cfg` | 2 sets, 2 members, 2 numeric IDs, 1 failure, 1 crash, no filter | `TypeOK`, `NoMissingEntries`, `NoStrayEntries`, `Converges`, `DesiredMatchesCaller`, `NoPanic` |
| `ipsets_filter` | `BPFIPSets_filter.cfg` | name filter on, 1 member of each IP version, symmetry | `NoMissingEntries` |
| `ipsets_filter_stray` | `BPFIPSets_filter_stray.cfg` | filter on | `NoStrayEntries`, expected violated |
| `seq_policy` | `EventSequencer_policy.cfg` | 2 IP sets, 1 member, 1 policy, 1 endpoint, symmetry on IP sets | `NoDanglingReferences`, `EveryMessageApplies`, `BuffersTrackDataplane`, `EndpointTierInfosCorrect` |
| `seq_profile_route` | `EventSequencer_profile_route.cfg` | 1 IP set (no members), 1 profile, 1 endpoint, 1 VTEP, 1 route through it, 2 config values | `NoDanglingReferences`, `BuffersTrackDataplane`, `EveryMessageApplies` |
| `seq_cluster` | `EventSequencer_cluster.cfg` | 1 service, 1 wireguard node, 2 payloads | `EveryMessageApplies`, `BuffersTrackDataplane` |
| `dec_cancel` | `AsyncDecoupler_cancel.cfg` | 5 callbacks, cancellable context | `DeliveredInCallOrder`, `NoDeliveryAfterDone`, `CallbacksReturnUnlessCancelled`, `StopsAfterCancel`, `RefinesSyncerCallbacks` |
| `conn_pass` | `FelixConn_pass.cfg` | 2 configs, 3 calculation-graph messages (config, not-ready, InSync, IP set), 2 status reports, 1 failed write, 1 endpoint status, reporting on or off, 1 config-loading error, 1 change of the Ready flag | `DriverConfigNeverChanges`, `FirstReportMarked`, `ReportedFailureLeadsToExit`, `NoStatusLost`, `StartupCompletes` |
| `conn_startup` | `FelixConn_startup.cfg` | as `conn_pass`, without start-up errors, Ready-flag changes, endpoint statuses or reporting | `FailureLeadsToExit`, expected violated |
| `seq_route_move` | `EventSequencer_route_move.cfg` | 2 nodes, 1 route that may move | `NoDanglingReferences`, expected violated |
| `bpf_maps` | `MC_BPFLib` / `BPFLib_maps.cfg` | 1 interface, 1 protocol, 2 ports, 3 addresses, masks 24/32/33, 2 ref counts | `TypeOK`, `CIDRDumpMatches`, `CIDRLookupLongestMatch`, `SockmapEndpointsMatch` |
| `bpf_failsafe` | `MC_BPFLib` / `BPFLib_failsafe.cfg` | as `bpf_maps` | `FailsafeDumpMatches`, expected violated |

The run list holds 12 runs. One more cfg is kept beside the model and is
not in it: `BPFIPSets_filter_panic.cfg` checks `NoPanic` with the filter
on, and TLC finds it violated (finding 1). Run it with
`tlc -config BPFIPSets_filter_panic.cfg MC_BPFIPSets`.

What the properties say:

- **`NoMissingEntries`, `NoStrayEntries`**: when the reconciler is running and
  no resync is pending, the map holds exactly the entries its bookkeeping says
  are there. That is:
  - every desired entry that is not still a pending add;
  - plus every entry still a pending remove;
  - and nothing under an unknown ID.

  These are the facts a resync-free `ApplyUpdates` relies on.
- **`DesiredMatchesCaller`**: while running, every set the caller has added
  has a live ID, and its desired entries are exactly the caller's members of
  this IP version. `ipsets_converge` checks it across crashes and failed
  map writes, with no name filter.
- **`Converges`**: every disagreement between the map and the desired
  membership is eventually repaired.
- **`NoDanglingReferences`**: at every intermediate point of a flush, nothing
  in the dataplane references an object the dataplane lacks:
  - no policy or profile uses a missing IP set;
  - no endpoint uses a missing policy or profile;
  - no route uses a missing VTEP.
- **`EveryMessageApplies`**: coalescing is exact.
  - Every removal is for an object the dataplane has.
  - Every delta adds only non-members and removes only members.
- **`EndpointTierInfosCorrect`**: whenever an endpoint update is pending,
  the tier conversion its flush will run (`tierInfoToProtoTierInfo`) agrees
  with the reference on every bounded tier list. Each policy lands in the
  lists where it applies, in tier and policy order. A pre-DNAT policy
  keeps only its ingress side. Tiers with nothing in a list are left out of
  that list.
- **`BuffersTrackDataplane`**: the `sent*` sets and the recorded config equal
  what the dataplane holds. The buffers are exactly the difference between the
  dataplane and `calc`: flushing now would make the dataplane equal `calc`.

- **`DeliveredInCallOrder`**: the sink receives the callbacks in call order,
  none lost or repeated, except the one still blocked in its send.
- **`NoDeliveryAfterDone`** (an action property): no step after `Done` is
  closed gives the sink anything.
- **`CallbacksReturnUnlessCancelled`**: every callback eventually returns or
  the context is cancelled. With `SendTo` the context is never cancelled, so
  for felix every callback returns. After a cancellation the next callback
  blocks forever on the unbuffered channel; that is inherent in the API, and
  no caller in `src/` cancels.
- **`StopsAfterCancel`**: after cancellation, `Done` is eventually closed.
- **`RefinesSyncerCallbacks`**: the decoupler implements `SyncerCallbacks`.
  This is one statement of the four above, checked against an independent
  abstract specification, fairness included.

- **`DriverConfigNeverChanges`**: every `ConfigUpdate` the driver receives
  carries the same config, whichever of main and the calculation graph sent
  it first. A changed config makes felix restart instead.
- **`FirstReportMarked`**: of the status reports the datastore accepted,
  exactly the first is marked `FirstUpdate`, even after a failed write.
- **`ReportedFailureLeadsToExit`**: once main waits on `failureReportChan`, a
  failure the sender reports ends in the process exiting.
- **`FailureLeadsToExit`**: every failure the sender reports, at any time,
  ends in exit.
- **`NoStatusLost`**: while endpoint reporting is on, every endpoint status
  the reader reads reaches the status reporter or is the one being sent.
  This depends on main creating the reporter before it starts the reader.
- **`StartupCompletes`**: once the Ready flag stays set, start-up finishes:
  felix is running or has exited. This holds whatever transient config
  errors came first, and even if the flag was cleared between its read and
  the config Lists.
- **`NoPanic`**: a caller that keeps the calculation graph's protocol never
  reaches a `log.Panic` of `RemoveIPSet`, `AddMembers` or `RemoveMembers`.
  This covers re-adding a set whose deletion is still pending, which
  `getOrCreateIPSet` revives. It holds without a name filter and fails with
  one (finding 1).
- **`CIDRDumpMatches`**: for each prefix the caller put and did not remove,
  `DumpCIDRMap` gives the last address and ref count put for it. The check
  covers any sequence of updates, removals and re-created pins.
- **`CIDRLookupLongestMatch`**: `LookupCIDRMap(ip, mask)` returns the ref
  count of the caller's longest prefix containing `ip/mask`, or an error if
  there is none. This is what the XDP program relies on: the byte order
  `CidrToHex` writes is the one the kernel matches prefixes on.
- **`SockmapEndpointsMatch`**: the sockmap endpoints map dumps as the
  caller's prefixes, and a lookup succeeds exactly when one of them contains
  the address.
- **`FailsafeDumpMatches`** (`bpf_failsafe`, expected violated):
  `DumpFailsafeMap` returns exactly the ports put and not removed.

The decoupler and `FelixConn` runs have no deadlock check: the syncer may stop making
callbacks, and felix's exit is a final state. The `FelixConn` hang, where
every goroutine is blocked, is what `FailureLeadsToExit` is about.

**Why these bounds are enough.**

BPFIPSets:
- Two sets and two numeric IDs let an ID be released by one set and reused by
  the other.
- Two members let a set be partly written.
- The filter run has one member of each IP version instead. The member of
  the other version must be skipped by every member operation.
- One failure and one crash reach every failure point: each `Update`, `Delete`
  and `Iter`, and a crash between any two steps.

EventSequencer:
- Two IP sets let a policy switch from one set to another.
- One member is enough for deltas, since deltas on different members do not
  interact.
- One policy, one profile and one endpoint give each dependency edge of the
  flush order.
- One VTEP and one route through it give both route/VTEP flush edges; the
  route-move run has two nodes so the route can be re-homed.
- In the cluster run, two payloads let a value be replaced within a batch.
  One wireguard node covers every combination of IPv4 and IPv6 keys.
- Policies and profiles are in separate runs because the two kinds share code
  and together exceed five minutes. The profile run has no IP-set members:
  deltas are covered by the policy run.

AsyncDecoupler:
- Five callbacks let values of both kinds be in flight before, during and
  after a cancellation. Every callback goes through the same send, so more
  would only repeat states.

FelixConn:
- Two configs distinguish main's config from a changed one.
- Three messages let a data message, a config change and a restart trigger
  come before or after main's `ConfigUpdate`.
- Two reports and one failed write let the first write fail and a later one
  succeed.
- One config-loading error, which can fall on any failing step, and one
  change of the Ready flag, from either initial value, give every retry
  edge of start-up. They also let the flag be cleared between its read and
  the Lists.
- One endpoint status, with reporting on and off, reaches both branches of
  the reader's `statusReporter != nil` check. Further statuses go through
  the same send.

**Fairness.**
- `ipsets_converge` assumes weak fairness of `ApplyUpdates` and `Restart`.
  felix's dataplane loop calls `ApplyUpdates` on every apply cycle and retries
  while anything is dirty, and a crashed felix is restarted by its supervisor.
- The decoupler's consumer steps (`Start`, `Receive`, `Stop`) are weakly
  fair: the Go scheduler runs every runnable goroutine. The syncer's calls and
  the cancellation are not, since neither is bound to happen.
- In `FelixConn`:
  - The steps of main, the sender, the reader and `manageShutdown` are
    weakly fair, start-up included: each start-up step sleeps at most a
    second and retries.
  - The status reporter's receives are weakly fair too. Its package is not
    in the repository, so this is its assumed contract: its loop keeps
    receiving from both of its channels.
  - Environment events are not fair: the calculation graph's messages, the
    driver's status reports, the driver dying, SIGTERM and changes of the
    Ready flag.
- No property of the sequencer needs fairness. The calculation graph may stop
  calling it, so its runs check safety only.

## Findings

1. **Filter-rejected sets leak entries** (`ipsets_filter_stray`).
   - `AddOrReplaceIPSet` (ipsets.go:146) and `ApplyIPSetNameFilter`
     (ipsets.go:422) mark a rejected set `Deleted` without `RemoveAll`.
   - `ApplyUpdates` then writes its pending adds and releases its ID while the
     entries stay in the map.
   - If the ID is reused, those entries belong to the new set.
   - The same state has a second effect. Between the filter marking a set
     `Deleted` and the next `ApplyUpdates`, a legal `RemoveIPSet`,
     `AddMembers` or `RemoveMembers` for it panics (ipsets.go:168).
     `BPFIPSets_filter_panic.cfg` shows it.
2. **The failsafe dump byte-swaps ports** (`bpf_failsafe`).
   - `failsafeToHex` writes the port little endian, LSB first, as its comment
     at bpf.go:1253 says.
   - `hexToFailsafe` reads the third byte as the MSB and the fourth as the
     LSB (bpf.go:1316).
   - So `DumpFailsafeMap` returns 22 as 5632 and 8080 as 36895, and
     `FailsafeDumpMatches` fails after one `UpdateFailsafeMap`.
   - The library's callers are not under `src/`.
3. **A moved route can outlive its VTEP** (`seq_route_move`).
   - A route update that changes the route's node is flushed in
     `flushRouteAdds`, after `flushVTEPRemoves`.
   - If the old node's VTEP is removed in the same batch, the dataplane briefly
     routes through a VTEP it no longer has.
   - Spec §4.1 item 6 and the comment in `Flush` say this cannot happen.

4. **Start-up hang on an early restart trigger** (`conn_startup`).
   - main starts the calculation graph and the sender before it sends its
     opening `ConfigUpdate` (felix.go:217, 234, 238).
   - If the sender first receives `DatastoreNotReady`, or a second config
     change, `shutDownProcess` blocks on `failureReportChan`.
   - main is still blocked sending on `ToDataplane`, which nobody reads any
     more.
   - Unless the driver dies or SIGTERM arrives, felix hangs instead of
     restarting.

## Plan for the rest

1. An abstract specification of the sequencer's promise (the dataplane jumps
   to `calc` at each flush, through closed states only), with `EventSequencer`
   checked against it by a refinement mapping. This needs a property the
   existing invariants do not already imply; the obvious mapping (identity
   on `calc` and `dp`) does not give one.
2. The GlobalNetworkPolicy client's shallow copy, which shares the caller's
   label map. A caller that reuses one object for a tiered policy and then
   for a default-tier one stores the second with the first one's tier
   label (see the hazards in `PROJECT.json`). A model would hold the
   caller's object, its label map and the store, with one action per
   client method.
