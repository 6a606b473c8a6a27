# MyBoat in TLA+

A formal model of MyBoat: telemetry travels from a boat's SignalK server through
the edge collector, the ingest API and a live broker to the browsers that watch
the boat. The modules here are translated from the code under `apps/` and
`packages/`; TLC checks them on small instances, and TLAPS proves the safety
properties that matter most for every value of their constants.

```
tlc -workers 2 -config CollectorBuffer.cfg CollectorBuffer.tla    # one run
tlapm CollectorBufferProofs.tla                                   # one proof module
```

`PROJECT.json` lists the runs, the source lines of every definition, the
hazards, the findings and the theorems.

## 1. The system

```
 SignalK --ws--> edge collector --POST delta--> ingest handlers --> D1 rows
                  |  identity, sources POSTs ------^    |  \--> InfluxDB history
                  '-- local ws stream                   v publish
                                               VesselLiveBroker (Durable Object)
                                                        | ws: sync, snapshot, ais, status
 AIS Hub <--lookup, rolling sync-- web server           v
                                               browser live store --> pages
```

| Component | State | Operations | What is hard | What makes it correct |
|---|---|---|---|---|
| **Delta buffer** of the edge collector (`apps/edge-collector/src/index.ts`) | `batch`, `isFlushing`, `flushTimer`, `lastPostStartedAt`, `nextPostNotBefore`, counters, `isShuttingDown` | receive a delta, flush, post answers, timer, shutdown, second signal | every handler may run while a post is awaited; throttle, backoff, timers and shutdown share one flag and one timer | nothing vanishes, order is kept, memory is bounded, the queue never stalls, shutdown ends and drains |
| **Source policy** (`packages/telemetry-source-policy`) in collector and ingest | `stickyWinners` per collector | select winners of a delta; select again on ingest | sources interleave; the ingest side has no memory; a shadow collector has a memory of its own | no flapping, no silence, the gate agrees with the collector |
| **Delta ingest** (`server/api/ingest/v1/delta.post.ts`) | snapshot row, installation counters, diagnostics, identity, broker | read, merge, write, count, publish, answer | no transaction; requests of one boat overlap after a timeout; the retry regroups items | acknowledged telemetry is in the row and counted, `observedAt` does not go back and `lastSeenAt` only by an identity refresh or behind one, the broker follows |
| **Live broker** (`worker/VesselLiveBroker.ts`) | stored snapshot, contacts, connection state; a demand per socket | publish, upgrade, set_demand, close, eviction | sockets die unnoticed; publishes race demands | what it sends, in the order sent, ends in its own snapshot |
| **Browser live store** (`app/composables/useMyBoatVesselStore.ts`) | live controller (socket, timer, active URL), entries with snapshot and contacts, demands by consumer | watchers, socket events, reconnect timer | watchers, events and timers of old and new sockets interleave | the view is current, is never stranded, holds one connection |
| **Identity, sources ingest** (`identity.post.ts`, `sources.post.ts`, `vesselIdentity.ts`, `telemetrySources.ts`) | observed identities, source states | merge and write | read-modify-write by two handlers | the server comes to name the vessel the collector is on; a flag that was set stays set; fields are neither lost nor aged |
| **Installations, onboarding** (`onboarding.post.ts`, `primary.post.ts`, `archive.post.ts`, `keys.post.ts`) | primary flags, archive marks, keys | onboard, make primary, archive, issue a key | several statements per request, no transaction | a form sent twice makes one vessel and one installation, a promotion or an archive takes effect, the published identity is the primary installation's |
| **AIS Hub** (`utils/aishub.ts`, `utils/aishub-sync.ts`) | `lastRequestAt`, cache, sync state | search, refresh of followed vessels, rolling sync | check and record are apart, requests and the schedule race | one upstream lookup per minute, no step back to older reports, copies that agree with the catalog, a status that is true |
| **Traffic** (`utils/traffic.ts`, `useMyBoatTraffic.ts`) | contacts in broker and store | poll, live upsert and removal, stale sweep | poll answers race live updates | a contact seen live is not taken away by an older answer |
| History, InfluxDB, passages, accounts, read side | external stores | queries, formatting | - | not modelled, see section 9 |

## 2. The plan

In order of importance, each built on what the ones before it left:

1. `Outbox`, `CollectorBuffer`: the collector's queue and its promise. *Done; safety,
   the refinement and what follows from the promise proved.*
2. `LiveBroker`, `LiveChannel` (composes both ends of the socket). *Done, safety proved.*
3. `DeltaIngest` (composes collector posts, handler, row, broker). *Done, safety and the
   same promise proved.*
4. `SourceSelection` (composes collectors and gate). *Done, all properties proved.*
5. `Installations`: onboarding, promotion, archive and the ingest of an identity over
   the same rows. *Done, all properties proved.*
6. `AisHub`: search, lookups, follows and the rolling sync. *Done, all properties proved.*
7. `IdentityRefresh` (composes the collector's refresh, the handlers it posts to, the
   delta ingest and a shadow collector). *Done, safety proved.*
8. Left: `Traffic`, the AIS contacts in broker and store, where a poll's answer races
   live updates; AIS contacts and status messages in `LiveBroker`.

## 3. Modules

### Outbox, CollectorBuffer

`Outbox` is what the collector promises, without timers or posts: items are
accepted in order, leave from the front when answered for, and leave otherwise
only when the queue is over its capacity, the oldest waiting items first.

`CollectorBuffer` is the code. The process is single threaded and a handler runs
until its next `await`, so an action is such a stretch: `Receive` is
`enqueueSelectedTelemetry` with its trim and the flush it may start,
`FlushBatch`/`StartPost` is `flushBatch` up to `await postDeltaBatch`, the three
`Post...` actions are its try, catch and finally, `Shutdown`, `ServersClosed` and
`DrainContinues` are `shutdown` between its awaits, and `SecondSignal` is the
second SIGINT or SIGTERM, whose `shutdown` returns at once and lets the process
exit. `pending` is `flushBatch`'s local. A clock value is kept as the time left
until it; `Tick` lets time pass and a timer may fire late. `retryWait` is a
history variable for one documented claim. Logging, warnings, counters that no
property is about and the health page are left out.

### LiveBroker, LiveChannel

`LiveBroker` is the Durable Object. A handler is one action since the runtime's
input gate delivers nothing while a storage put is under way and its output gate
holds frames back until it is durable; for the same reason eviction and the
constructor's restore are invisible. `LiveChannel` adds a namespace's live
controller in the browser and the two directions of each socket as sequences. A
connection may break at any moment: what is on its way is lost, and each end
learns of it separately and later. A socket the controller closes stays in
`leaving` until its close event, which may come after the controller has opened
another one: `Concerns` is the listeners' guard against it. Sockets that both ends
forgot are reused.
Watchers run in the microtask queue before the next event, so the change and the
watchers it triggers are one action.

A demand is `none`, `ais` (contacts alone, which keeps the socket and gets no
snapshot) or `self`. What the page shows is `Page`, the live snapshot merged with
the stored one, the vessel's row as an HTTP answer or a cached page had it
(`MergedSnapshot`): `Hydrate` sets the stored one, at any moment, to the row of any
publish so far or of the one under way. The merge is field by field, the live
snapshot first, and the live snapshots are whole, so the page shows the live one;
it shows **the stored row, of whatever age**, while the live one is null, as after
the sync that greets every socket, and while the two are more than
`SELF_OVERLAY_MAX_DISTANCE_NM` apart. `Distant` is the set of such pairs.

### DeltaIngest

The collector's posts and the handler's database calls in order: `Post`, `Read`
(the row), `Store` (merge into what was read; write), `Heartbeat` (counters,
where the database adds), `Publish` (may fail and be swallowed), `Answer`. `Fail`
ends a request anywhere. `Timeout` is `AbortSignal.timeout`: the collector takes
the items back, and **the abandoned request may still be running**, since nothing
on the server side listens to the abort before its database calls are done.
Items are numbered by `receivedAt`; a metric of the row holds the number of the
item it came from, so "newer" is "greater". `missed` and `overlapped` are history
variables that name the two excuses the properties allow.

An installation's `lastSeenAt` has two writers: `Heartbeat`, with the newest
`receivedAt` of the batch, and `IdentityHeartbeat`, the identity handler, with the
time the collector made its refresh. Both come from one clock, but nothing orders
the posts: a refresh may arrive behind batches of later items, and a batch that was
buffered before a refresh behind it. `refreshed` says which wrote last. An item may
carry metrics, another path of the own vessel alone (`OtherPath`: it makes a
snapshot and its time without a metric), or nothing.

### SourceSelection

One path of one context. `Receive` is `enqueueSelectedTelemetry` for a delta
that brings the path from some sources: ranking, sticky retention, new sticky
winner. `Post` is the ingest side's memoryless selection and the write of the
row. The rank tables of `getSourceRank` are the constants `Rank` and `GateRank`,
so that the theorems hold for every table; the runs use values that the tables
contain (see `MCSourceSelection`).

### Installations

The tables of one captain (`publicProfiles`, `vessels`, `vesselInstallations`, the
observed and the published identities) and the requests that work on them:
`onboarding.post.ts`, `primary.post.ts`, `archive.post.ts` and the ingest of an
identity, with `syncVesselObservedIdentityFromPrimaryInstallation`, in which three of
them end. A request is a record: its kind, the database call it is about to make
(`pc`) and what its earlier calls read. **Every database call is a step**, since no handler
opens a transaction, and two requests interleave call by call; `Fail` ends one
before any call and leaves what it did. An insert fails where the table's key says
so (`ProfileTaken`, `WriteIdentity`, `Publish`); nothing in the schema refuses a
second vessel or installation. `WriteVessel` and `WriteInstallation` take any id the
database has not used. A key goes on working when its installation is archived, so
an ingest may begin for any installation. An identity's field holds the
number of the post it came from, so "older" is "smaller".

The history variables `doubled`, `resumed` and `crowded`, and a request's `met` and
`metManager`, name the overlaps that void a promise, and no others: the handlers look
and then write, so an overlap may break it, and the properties say what holds
otherwise, **including after failures halfway and beside requests of other kinds**.

### AisHub

The catalog of AIS Hub vessels, the copies in the captain's followed rows, the
cooldown (`lastRequestAt`), the search cache and the sync's status, under searches,
refreshes, follows, imports, unfollows and the rolling sync. Requests are records
as above, in any number of isolates: the database calls and the fetch are steps.
`Send` and `Record` are apart because the code records a lookup after its answer;
`Stop` ends a request anywhere (an isolate dies, a call throws), `Throw` is a call
that throws inside the sync's `try`, whose `catch` writes the status. `Remember`
writes the catalog row by row, `ReadRows` and `CopyRows` bring the copies up to it;
the sync's `UpsertBatch` and `RefreshCopies` do it with one statement per batch, guarded
by the WHERE of the upsert. What is known of a vessel is the number of its report,
or 0 for one whose time is not known: the parsers of `shared/aishub.ts` give null
for a time that is missing or malformed, which any answer may have (`Heard`), and an
import has none. The upsert of a lookup writes such a record over any row, and the
WHERE of the sync's lets it through too, so **a row may lose its report's time by
any lookup or sync**, and is then open to any report; `held` remembers the latest
report each row has had. A follow whose lookup says nothing takes the stored row, or
else what the browser submitted (`Stored`). A sync is stamped at its start, a lookup
of MMSIs as it is sent and a search when it is answered (`Sent`, `Answer`).
A search whose matches are stored changes nothing and is not an action; a search
matches reports, not vessels, since a vessel may be renamed (`Named`).

### IdentityRefresh

The collector's single-flight `refreshObservedIdentity` (`step`, `awaited`, `timer`),
its triggers (the socket opens, a delta names another self, the timer), shutdown
and restart; and at the server the handlers of `identity.post.ts`,
`sources.post.ts` and of the delta ingest, each a read and a later write of an
installation's row. `Fails` is a fetch of SignalK that fails or a post given up on,
**whose handler may still run** and write later; `Vanish` loses a request. Of the
payloads the self context is kept and whether a shadow publisher was seen: the two
things other components go by. `Other` stands for the posts that reach the same rows
from elsewhere, a delta ingest or a shadow collector.

## 4. Runs

| Run | Shows | Result |
|---|---|---|
| `collector_buffer` | all safety, refinement and liveness properties of the buffer | holds, 6 523 states |
| `collector_bound` | README of the collector, line 66: at most `COLLECTOR_MAX_BUFFER_ITEMS` are kept | violated: a failed post is put back without a trim |
| `collector_retry` | README of the collector, line 32: other failures use the reconnect delay | violated: a full batch retries at once |
| `live_channel` | view, reconnect, connection state and catch-up of a live view | holds, 216 402 states |
| `delta_ingest` | row, counter, times and broker against acknowledged posts | holds, 1 270 463 states |
| `ingest_latest` | architecture, line 170: D1 holds the latest snapshot | violated: an abandoned request's late write |
| `source_selection` | no flapping, no silence, gate agrees | holds, 85 051 states |
| `selection_shadow` | README of the collector, line 86: a shadow never overrides a fresh primary | violated: the gate sees one post at a time |
| `selection_gate` | architecture, line 167: the gate re-runs the selection | violated: it ranks without `self` |
| `installations` | onboarding, promotion, archive and identity ingest, call by call | holds, 257 097 states |
| `aishub` | cooldown, catalog, copies and status under searches, lookups, follows and the sync | holds, 2 738 765 states |
| `identity_refresh` | the collector's refresh and the rows it ends in | holds, 1 003 442 states |

The properties:

* **NothingLost, InOrder** - an item is held, posted or dropped, in exactly one
  of them, and posts go out in order through requeues and trims.
* **MemoryBound** - the bound that really holds: one post above the limit.
* **NeverStalls, EveryItemSettles** - no spent timer, throttle or
  backoff leaves items without a next flush; against an endpoint that answers
  now and then every item is settled.
* **DrainsUnlessFailing, ShutdownEnds** - shutdown ends, and drains unless a post
  failed or an old one was in flight.
* **ImplementsOutbox** - the refinement mapping is `queue <- pending \o batch`.
* **ViewIsCurrent** - with nothing on its way, the live snapshot of an entry that asks
  for it is the broker's (the page shows it unless the stored row is too far from it).
  **NeverStranded**, **OneConnection**, **ConnectedIsTrue** - the controller is
  never left without socket and timer, never keeps two connections, never says
  "connected" without one and always with an open one. **NeverStepsBack** - a page
  that has shown a live snapshot never shows an older one as live later, across syncs,
  breaks, demands and hydration with older rows. It does not say that the page never
  shows anything older: in between it may fall back to an older stored row, as above.
  **ViewCatchesUp** - an entry that stays open, and whose demand stays, has the
  last snapshot in the end; a demand that goes on changing replaces each socket
  before it opens.
* **AckedIsStored, EveryAckedCounted, NeverOlder, BrokerFollowsRow** - what was
  acknowledged is in the row (unless requests overlapped) and in the counter
  (always); the broker catches up with a missed publish. `observedAt` does not go back
  while no requests overlap. **`lastSeenAt` may**: by an identity refresh that arrives
  late, and by a batch behind a refresh; `NeverOlder` says that it goes back in no
  other way, and by a batch never behind an item that was acknowledged.
* **NoFlapping, NeverSilent, GateAgrees** - a path changes hands only to a better
  source or from a silent one, is never suppressed for more than a window, and
  the gate does not undo the selection of a batch no longer than a window.
* **OneOfEach, FirstFormWins** - onboarding looks and then inserts, with nothing in the
  tables to stop a second row: unless two ran at once there is one vessel and one
  installation in use; and of two first forms sent at once the profile's key
  lets one through.
* **PrimaryTakesEffect, ArchiveHandsOver** - demote and promote, archive and fallback
  are several updates: beside ingests they end with the one primary installation
  asked for, or with another one in use as primary.
* **SyncAgrees** - a request that ran alone leaves the published identity that of a
  primary installation, whatever earlier failures and overlaps left.
  **IdentityNeverOlder** - the read-merge-write ages no field unless two ingests of
  that installation overlapped.
* **LookupsApart** - one lookup per cooldown, unless lookups overlapped or one was
  never recorded. **StatusSettles** - "running" is true, unless a sync was cut off.
* **CatalogNeverOlder, CopyAgrees** - a row is given a report earlier than one it has held
  only by a request that ran beside another or by cached or submitted results, and by
  a sync only over an earlier one yet or where the row has lost its report's time; it
  says nothing of the loss of the time, which any answer may bring. A request that ran
  alone leaves copies and rows equal.
* **FollowsSelf** - whatever refreshes were dropped because one ran, the server comes to
  name the vessel the collector is on. **ShadowStays** - a shadow publisher once seen
  is forgotten only by a handler that read before another wrote.

Further properties are theorems (section 7), in no configuration of a run; TLC finds
them to hold on the instances of `collector_buffer`, `delta_ingest` and
`identity_refresh`:

* **Orderly, GoneForGood** (`Outbox`, of the buffer's queue) - held items are in order and younger than all
  that were answered for; an item that left the queue never comes back.
* **ImplementsOutbox, NothingInvented** (`DeltaIngest`) - requests that were abandoned
  and answer late or never leave the collector's promise intact; row and broker hold
  no metric the boat did not send.
* **RefreshGoesOn** (`IdentityRefresh`) - the safety half of `FollowsSelf`: a collector
  that knows its vessel has a refresh running or a timer that starts one, and waits
  only for a request that exists.

## 5. Bounds

* `CollectorBuffer`: five items, a batch of two, a post of two, a limit of three:
  enough for a full buffer behind a post in flight, a trim, a requeue beyond the
  limit, a drain of several turns. Times of one to three ticks put every order of
  throttle, backoff, flush timer and retry delay in reach.
* `LiveChannel`: two sockets (one that either end has yet to forget and a new one),
  three publishes of which the first and the last are too far apart to be merged, two
  breaks or URL changes, two messages on their way when a demand changes (`MaxQueue`
  only bounds the user's haste). It also holds with three sockets, two publishes, one
  break and one message (411 800 states), and with two of each and three messages.
* `DeltaIngest`: three items, two metrics and a path that is none, two requests at
  once, one fault: a request abandoned, repeated and regrouped; refreshes as many as
  there are moments for. With two faults, as `ingest_latest` has them, the same
  properties hold (7 850 089 states). Requests and metrics are symmetric; only
  safety is checked there.
* `SourceSelection`: three sources of which two are equal, a window of two, nine
  instants, four items of the path in one post.
* `Installations`: two requests at once out of four, so that a failure or an overlap is
  followed by two more requests that meet what it left; two vessels, three
  installations (the chosen one, the former primary, a fallback), two fields so that
  a merge can lose one. Requests and rows are symmetric; only safety is checked there.
* `AisHub`: two requests at once out of three, one vessel with two reports, two
  instants, a cooldown and a cache of one tick: enough for a lookup in the cooldown,
  after it, a cache entry that outlives a report and one that expires, and a row that
  loses its report's time and is given an earlier one. A sync that writes over an earlier
  row while the row has held one later still takes three reports: of that case the
  theorem speaks, not the run.
* `IdentityRefresh`: two contexts, so that the self changes while a refresh runs, two
  handlers, two failures and restarts, one post from elsewhere; it also holds with one
  failure and two posts from elsewhere.

The bounds are in the guards of `Receive`, `Publish`, `Break`, `UrlChanges`,
`ChangeDemand`, `Hydrate`, `Enqueue`, `Timeout` and `Fail` of `DeltaIngest`, `Tick` of
`SourceSelection`, `Begin` of `Installations` and `AisHub`, `Report` and `Tick` of
`AisHub`, and `Failure` and `Other` of `IdentityRefresh`.
`CHECK_DEADLOCK FALSE` is set where a model really may rest: all items
acknowledged, the last instant reached with nothing left to post, or the bound on
requests, which ends the behaviour of `Installations`, `AisHub` and `IdentityRefresh`.

## 6. Fairness and assumptions

* Collector: Node fires due timers, time passes, an awaited post ends (it has a
  timeout), and the callbacks of `server.close` run. No fairness on deltas,
  signals or on which answer a post gets, except in `EveryItemSettles`, whose
  premise is an endpoint that does not refuse for ever.
* Live channel: each end goes on taking what has arrived, the reconnect timer
  fires, a dead connection is noticed in the end. Users, publishers and the
  network are not fair.
* Identity refresh: the collector's timer fires and its fetches are answered or fail
  (`Refreshes`: both have a timeout), and the server works its requests off
  (`Serve`). No fairness on failures, restarts, other posts, or on what SignalK
  announces.
* The wall clock never steps back. `sticky` and the throttle subtract wall-clock
  times; a step back lengthens them by the step.
* A D1 statement is atomic, several are not: the handlers use no transaction.

## 7. Proofs

* `CollectorBufferProofs` (from `ConfigAssumption`, what `parsePositiveInteger`
  enforces). `NothingLost` and `InOrder` are not inductive alone: a failure
  prepends `pending`, so that the sequence to reason about is
  `pending \o batch`. The invariant `IInv` conjoins the types; `FlightInv` (a post
  is in flight exactly when `pending` is not empty, and is no longer than a post);
  `QueueInv`, the two properties over an arbitrary sequence, for which lemmas say
  what appending, trimming the front and answering for the front do;
  `MemoryBound`; `NeverStalls`; and `ShutdownInv`, where the loop stands between its
  awaits, without which `DrainsUnlessFailing` does not follow. Theorems:
  `TypeCorrect`, `LosesNothing`, `KeepsOrder`, `BoundsMemory`, `NoStall`,
  `DrainComplete`, and `KeepsPromise`, that the module implements `Outbox`: what the
  outbox holds is the sequence above, so that a flush moves items within it, a trim
  removes from behind the post in flight (`Behind`), a success acknowledges its
  front, and a failure, a timer or a step of the shutdown stutters. `GivenUpForGood`
  then takes over what `OutboxProofs` proves of the promise.
* `OutboxProofs`, of the abstract specification alone, for any capacity: `Orderly` is
  inductive with the types, given what `Without` and an append leave at each position
  (`Thinned`, `Longer`); `GoneForGood` follows step by step, as a step keeps a part of
  the queue and adds only numbers above `accepted`. Theorems: `KeepsOrder`, `NeverBack`.
* `LiveChannelProofs` (from `BoundsAssumption` and `QueueAssumption`, which only
  say that the bounds are numbers, and `DistantAssumption`, that no snapshot is far
  from itself). `ViewIsCurrent` speaks of a moment when nothing is
  on its way, so its strengthening speaks of what is: while the socket is up, the
  demand in force is the last `set_demand` on its way, or else the one the broker
  has (`AskedFor`); and once it has arrived, the broker's snapshot is the last one
  on its way, or else the view (`Told`). `Channels` says that only an open link
  carries messages and that the broker knows its socket, `Controller` where the
  controller stands between its socket's events. One lemma for each action, and
  one each for `Disconnect` and `OpenSocket`, in which four of them end.
  `NeverStepsBack` needs that the snapshots on their way to each socket rise towards the
  broker's and that none of them, on any socket, is older than the view (`Ordered`); once
  broker, view and all that is on its way are past a snapshot, they stay so (`Past`),
  whatever is stored: a page that shows the live snapshot shows the view (`ShowsLive`).
  Theorems: `TypeCorrect`, `ViewCurrent`, `NotStranded`, `ConnectedTruthful`,
  `SingleConnection`, `ViewStepsForward`.
* `DeltaIngestProofs` (from `IngestAssumption`). `IInv` says what each running
  request may hold (`Batches`: its items start behind what was acknowledged when
  no request overlapped it), that at most the awaited request runs then (`Alone`), that
  what it read is the row it will merge into (`RowInv`), that the times the batches
  wrote are those of items the next batch carries again (`TimesInv`; of `lastSeenAt` only
  while no refresh wrote it since), and what the broker lacks at
  each step (`BrokerInv`); `CountInv` is separate, as it holds with overlaps
  too, and so is the bound of the faults (`FaultsKnown`), which completes the types.
  `KeepsPromise` maps the queue to the items not yet acknowledged (`Held`, of which
  lemmas say what an item more and an answered front leave); only `Enqueue` and the
  `Answer` of the awaited request are steps of `Outbox`. `InventsNothing` holds with
  overlaps: what a request read long ago is still of items the boat sent
  (`GenuineInv`, `MergedGenuine`).
  Theorems: `TypeCorrect`, `StoresAcked`, `CountsAcked`, `BrokerFollows`,
  `TimesNeverBack`, `KeepsPromise`, `InventsNothing`.
* `SourceSelectionProofs` (from `SelectionAssumption`, for any rank tables).
  `IInv` relates the history to the sticky winner: it is the last winner
  (`RemembersLast`), no source that won within a window is worse than it or equal
  without being it (`Uncontested`), and the path was heard no later than a window
  after it (`Covered`). The types rest on the gate having a winner for every batch,
  the minimum of rank, age and source. `GateConfirms` assumes that
  the gate puts a source after another wherever the policy does (`GateKeepsOrder`; it may
  tell apart sources the policy does not); without that, the run `selection_gate`
  refutes `GateAgrees`. Each item of a batch
  either kept the source or took over from a worse rank (`BatchInv`), so that the last
  is the one the gate takes. Theorems: `TypeCorrect`, `SilenceBounded`,
  `TakeoverJustified`, `GateConfirms`.
* `InstallationsProofs` (from the module's assumptions). Each property speaks of
  a request that met no overlap of a named kind, so
  `IInv` says what such a request still knows where it stands: that what it
  read is still true (`Managing`, `Syncing`, `Filing` and `Ingesting`, one for each
  kind of work), with the shape of each request, what the histories record
  (`Histories`), that each installation stays with its vessel (`Rooted`) and
  that no date is later than the clock (`Dated`). `Single` is inductive beside `Filing`, and
  `First` speaks of the onboardings that are about to insert a vessel. Theorems: `TypeCorrect`,
  `OneOfEachHolds`, `FirstFormHolds`, `PrimaryHolds`, `ArchiveHolds`, `SyncHolds`,
  `IdentityHolds`.
* `AisHubProofs`. `IInv` conjoins the types and what a request
  may hold at each step, whatever the others do (`Core`); that one which met no other
  finds the catalog as it left it, has no report earlier than the row has held, and
  leaves the copies as promised, vessel by vessel (`Unmet`); that no row, nor the
  cache, is ahead of the hub (`Known`); that unless lookups overlapped or one was lost, at most one is on
  its way, and the last one is on record when none is (`Apart`); and that a status
  of `running` belongs to a sync that is at work (`Settled`).
  Theorems: `TypeCorrect`, `StatusTrue`, `CopiesAgree`, `CooldownKept`, `CatalogForward`.
* `IdentityRefreshProofs`. `IInv` adds to the types that a handler about
  to write, beside which none wrote, carries what is on record (`SeenKept`). `RefreshGoesOn` is
  inductive beside it. Theorems: `TypeCorrect`, `ShadowRecorded`, `RefreshLives`.

Only model-checked: liveness (`ShutdownEnds`, `EveryItemSettles`, `ViewCatchesUp`,
`FollowsSelf`), since the prover does not handle fairness and
ENABLED. Every other property of a passing run is a theorem. No module uses a
recursive operator, and no theorem needs induction over data.

## 8. What the checks found

1. The buffer limit is exceeded by a failed post (`collector_bound`).
2. The retry delay does not hold back a full batch (`collector_retry`).
3. An abandoned ingest request overwrites newer telemetry (`ingest_latest`).
4. A shadow collector replaces fresh primary values (`selection_shadow`).
5. The gate ranks the boat's own position as another vessel's (`selection_gate`).

## 9. Not modelled

Parts without a module:

* Nearby traffic, the AIS contacts and the status message of the live channel: the
  browser polls, a later poll or message repeats what a lost one said, nothing of it
  is stored, and it would multiply the states of `LiveChannel` without touching its
  demand and its view.
* History and InfluxDB: code that builds queries and lines, without state of its own.
* Passage playback: a computation over recorded tracks.
* Accounts and sessions: delegated to an external identity provider.
* The read side of the vessel and fleet pages, which writes nothing.
* The collector's SignalK connection and its local stream, of which the models keep
  what they hand on: an item received, a self context.
* Pages, styling, seeds, tooling, lint rules and deploy files, which carry no logic of
  the running system.

Not promised, since the code does otherwise: handlers look and then write without a
transaction, and most properties name the overlap that voids them. Two ingests of one
installation that overlap lose fields of the identity or the shadow flag; lookups
that overlap, or fail after the fetch, exceed the cooldown; one that met another
request may write an older report or leave copies behind their rows; a sync that dies
leaves its status; archives and promotions that overlap may leave no primary
installation in use, and an identity published then may be another's.
`PROJECT.json` lists these among the hazards without a property. `IdentityNeverOlder`
counts age by the order of posts: a late batch with older values is a newer post.

Left out of modelled parts:

* `Installations`: names, slugs and their collisions, the connection state, the issue
  of keys, which are only ever added and each name one installation. A field's value is
  the number of its post.
* `AisHub`: a missing API key; there is one captain and one query.
* `LiveBroker`, `LiveChannel`: AIS contacts, the status message, and of an entry
  everything but its snapshots. A live snapshot is taken as whole, so that the merge
  field by field is the choice of one of the two.
* `IdentityRefresh`: duplicate hotspots, tracked winners and the diagnostics read
  from them; of the identity and the inventory the self context is kept.
* `DeltaIngest`: what history lines, source diagnostics, identity and key bookkeeping
  write; they are steps at which a request may fail. `SourceSelection` stands for the
  selection itself, for one path.
