----------------------------- MODULE DeltaIngest -----------------------------
(***************************************************************************)
(* POST /api/ingest/v1/delta (apps/web/server/api/ingest/v1/delta.post.ts) *)
(* for the primary installation of a vessel, and the collector's posts to  *)
(* it (postDeltaBatch and flushBatch of apps/edge-collector/src/index.ts). *)
(*                                                                         *)
(* The handler reads the vessel's snapshot row, merges the batch into what *)
(* it read, writes the row back, adds to the installation's counters and   *)
(* publishes the merged snapshot to the LiveBroker, each in a database call *)
(* or a fetch of its own.  The collector posts one batch at a time, but it  *)
(* gives a post up after requestTimeoutMs, and the server does not learn of *)
(* it: the abandoned request may still run while the retry does.  Beside    *)
(* the batches it posts identity refreshes (module IdentityRefresh), which   *)
(* write the installation's lastSeenAt too.                                 *)
(*                                                                         *)
(* Items are numbered in the order of their receivedAt; a field of the row *)
(* holds the number of the item it came from.  All items have one source,  *)
(* the winner of the selection for every path.  The tables no other step   *)
(* reads (source diagnostics, identity, API keys, history) are left out:   *)
(* their calls are steps at which a request may fail.                      *)
(***************************************************************************)
EXTENDS Integers, FiniteSetsExt

CONSTANTS
  MaxItems,    \* bound of the model: how many items the boat ever sends
  MaxFaults,   \* bound of the model: how many posts fail or time out
  Requests,    \* bound of the model: requests the server may be running at once
  Fields,      \* the metrics of a snapshot
  OtherPath,   \* a path of the own vessel that is no metric of a snapshot
  MaxPostItems,\* config.maxPostItems
  None         \* no request

ASSUME IngestAssumption ==
  /\ MaxItems \in Nat /\ MaxFaults \in Nat
  /\ MaxPostItems \in Nat \ {0}
  /\ None \notin Requests /\ OtherPath \notin Fields

Items == 1..MaxItems

(* What an item may carry of the own vessel: metrics, or (other paths beside *)
(* metrics change nothing) another path alone, or nothing.                  *)
Loads == SUBSET Fields \cup {{OtherPath}}

VARIABLES
  carries,    \* the paths of the own vessel each item carries; never changes
  enqueued,   \* the items the collector has received
  acked,      \* its batch holds the items from here to enqueued
  posting,    \* the request flushBatch waits for, or None
  requests,   \* the requests the server runs
  row,        \* vesselLiveSnapshots: the item each metric came from, 0: null
  observedAt, \* its observedAt, 0: no row yet
  lastSeen,   \* vesselInstallations.lastSeenAt, as the newest item not after it
  refreshed,  \* history: an identity refresh was the last to write it
  eventCount, \* vesselInstallations.eventCount
  broker,     \* the metrics of the snapshot the LiveBroker holds
  faults,     \* how many posts failed or timed out so far
  missed,     \* history: the row changed and the broker has not been told since
  overlapped  \* history: a post began while the server still ran an older one

boat == <<carries, enqueued, acked>>
snapshotRow == <<row, observedAt>>
installation == <<lastSeen, refreshed, eventCount>>
vars == <<boat, posting, requests, snapshotRow, installation, broker, faults, missed,
          overlapped>>

Steps == {"sent", "read", "stored", "counted", "published"}

Snapshots == [Fields -> 0..MaxItems]

Idle == [pc |-> "idle"]
Running == [pc : Steps, lo : Items, hi : Items, existing : Snapshots]

TypeOK ==
  /\ carries \in [Items -> Loads]
  /\ enqueued \in 0..MaxItems /\ acked \in 0..enqueued
  /\ posting \in Requests \cup {None}
  /\ requests \in [Requests -> Running \cup {Idle}]
  /\ row \in Snapshots /\ broker \in Snapshots
  /\ observedAt \in 0..MaxItems /\ lastSeen \in 0..MaxItems
  /\ eventCount \in Nat
  /\ faults \in 0..MaxFaults
  /\ refreshed \in BOOLEAN /\ missed \in BOOLEAN /\ overlapped \in BOOLEAN

Nothing == [f \in Fields |-> 0]

Init ==
  /\ carries \in [Items -> Loads]
  /\ enqueued = 0 /\ acked = 0 /\ posting = None
  /\ requests = [r \in Requests |-> Idle]
  /\ row = Nothing /\ broker = Nothing
  /\ observedAt = 0 /\ lastSeen = 0 /\ refreshed = FALSE /\ eventCount = 0
  /\ faults = 0 /\ missed = FALSE /\ overlapped = FALSE

-----------------------------------------------------------------------------
(* What a batch does to a snapshot. *)

Runs(r) == requests[r].pc # "idle"

(* The items of the batch that carry f: the selection keeps the newest.     *)
Carrying(r, f) == {i \in requests[r].lo..requests[r].hi : f \in carries[i]}

(* The items of the batch that a curated delta of the own vessel is made of: *)
(* the newest always is one, and each of them counts, metrics or not.       *)
SelfItems(r) == {i \in requests[r].lo..requests[r].hi : carries[i] # {}}

SnapshotChanged(r) == SelfItems(r) # {}

(* mergeSnapshotPatch of every selected delta, oldest first *)
PatchOnly(r) ==
  [f \in Fields |-> IF Carrying(r, f) = {} THEN 0 ELSE Max(Carrying(r, f))]
OldestWins(r) ==
  [f \in Fields |-> IF Carrying(r, f) = {} THEN requests[r].existing[f]
                                           ELSE Min(Carrying(r, f))]
Merged(r) ==
  [f \in Fields |-> IF Carrying(r, f) = {} THEN requests[r].existing[f]
                                           ELSE Max(Carrying(r, f))]

(* latestSnapshotObservedAt *)
SnapshotObservedAt(r) == Max(SelfItems(r))

At(r, step) == [requests EXCEPT ![r].pc = step]

-----------------------------------------------------------------------------
(* The collector. *)

(* enqueueBatch *)
Enqueue ==
  /\ enqueued < MaxItems
  /\ enqueued' = enqueued + 1
  /\ UNCHANGED <<carries, acked, posting, requests, snapshotRow, installation,
                 broker, faults, missed, overlapped>>

(* flushBatch: the oldest items of the batch are posted, a retry with those *)
(* that arrived since.                                                      *)
SmallerAfterFault == IF faults > 0 THEN acked + 1 ELSE Min({enqueued, acked + MaxPostItems})
PostEnd == Min({enqueued, acked + MaxPostItems})
Post(r) ==
  /\ posting = None /\ ~Runs(r)
  /\ acked < enqueued
  /\ posting' = r
  /\ requests' = [requests EXCEPT ![r] = [pc |-> "sent", lo |-> acked + 1,
                                          hi |-> PostEnd,
                                          existing |-> Nothing]]
  /\ overlapped' = (overlapped \/ \E q \in Requests : Runs(q))
  /\ UNCHANGED <<boat, snapshotRow, installation, broker, faults, missed>>

(* AbortSignal.timeout: the batch goes back, the server may go on.          *)
Timeout ==
  /\ posting # None
  /\ faults < MaxFaults
  /\ faults' = faults + 1
  /\ posting' = None
  /\ UNCHANGED <<boat, requests, snapshotRow, installation, broker, missed,
                 overlapped>>

-----------------------------------------------------------------------------
(* The handler. *)

(* select existingSnapshotRow *)
Read(r) ==
  /\ requests[r].pc = "sent"
  /\ requests' = [requests EXCEPT ![r].pc = "read", ![r].existing = row]
  /\ UNCHANGED <<boat, posting, snapshotRow, installation, broker, faults, missed,
                 overlapped>>

(* insert ... onConflictDoUpdate of the row *)
Store(r) ==
  /\ requests[r].pc = "read"
  /\ requests' = At(r, "stored")
  /\ IF SnapshotChanged(r)
       THEN /\ row' = Merged(r)
            /\ observedAt' = SnapshotObservedAt(r)
       ELSE UNCHANGED <<row, observedAt>>
  /\ UNCHANGED <<boat, posting, installation, broker, faults, missed, overlapped>>

(* update vesselInstallations; the database adds to the count               *)
OneEvent(r) == 1
EventsOf(r) == requests[r].hi - requests[r].lo + 1
Heartbeat(r) ==
  /\ requests[r].pc = "stored"
  /\ requests' = At(r, "counted")
  /\ lastSeen' = requests[r].hi
  /\ refreshed' = FALSE
  /\ eventCount' = eventCount + EventsOf(r)
  /\ UNCHANGED <<boat, posting, snapshotRow, broker, faults, missed, overlapped>>

(* The other writer of lastSeenAt: the identity handler, with the time at    *)
(* which the collector made the refresh.  It may arrive long after, beside   *)
(* batches and behind ones of later items.                                  *)
IdentityHeartbeat(t) ==
  /\ t <= enqueued
  /\ lastSeen' = t
  /\ refreshed' = TRUE
  /\ UNCHANGED <<boat, posting, requests, snapshotRow, eventCount, broker, faults, missed,
                 overlapped>>

(* publishVesselLiveMessage: the merged snapshot, if the batch changed it.  *)
(* A failure is logged and swallowed.                                       *)
PublishedSnapshot(r) == Merged(r)
Publish(r) ==
  /\ requests[r].pc = "counted"
  /\ requests' = At(r, "published")
  /\ \/ /\ ~SnapshotChanged(r)
        /\ UNCHANGED <<broker, missed>>
     \/ /\ SnapshotChanged(r)
        /\ broker' = PublishedSnapshot(r)
        /\ missed' = FALSE
     \/ /\ SnapshotChanged(r)
        /\ missed' = TRUE
        /\ UNCHANGED broker
  /\ UNCHANGED <<boat, posting, snapshotRow, installation, faults, overlapped>>

(* The answer: flushBatch drops the batch, if it still waits for it.        *)
FullPost(r) == requests[r].lo + MaxPostItems - 1
AckedBy(r) == requests[r].hi
Answer(r) ==
  /\ requests[r].pc = "published"
  /\ requests' = [requests EXCEPT ![r] = Idle]
  /\ IF posting = r
       THEN acked' = AckedBy(r) /\ posting' = None
       ELSE UNCHANGED <<acked, posting>>
  /\ UNCHANGED <<carries, enqueued, snapshotRow, installation, broker, faults,
                 missed, overlapped>>

(* The request ends early (a call of it throws, its answer is lost, the      *)
(* server drops it): what it did so far stays, the collector keeps the batch. *)
Fail(r) ==
  /\ Runs(r)
  /\ IF posting = r
       THEN faults < MaxFaults /\ faults' = faults + 1 /\ posting' = None
       ELSE UNCHANGED <<faults, posting>>
  /\ requests' = [requests EXCEPT ![r] = Idle]
  /\ missed' = \/ missed
               \/ requests[r].pc \in {"stored", "counted"} /\ SnapshotChanged(r)
  /\ UNCHANGED <<boat, snapshotRow, installation, broker, overlapped>>

Next ==
  \/ Enqueue
  \/ Timeout
  \/ \E t \in 0..MaxItems : IdentityHeartbeat(t)
  \/ \E r \in Requests : \/ Post(r)
                         \/ Read(r)
                         \/ Store(r)
                         \/ Heartbeat(r)
                         \/ Publish(r)
                         \/ Answer(r)
                         \/ Fail(r)

Spec == Init /\ [][Next]_vars

-----------------------------------------------------------------------------
(* Properties. *)

Stored(i) == \A f \in carries[i] \cap Fields : row[f] >= i

(* docs/architecture.md:170 "MyBoat updates D1 with latest vessel snapshot": *)
(* the row never falls behind an item whose batch was acknowledged.         *)
LatestSnapshotStored == \A i \in 1..acked : Stored(i)

(* The read-modify-write of the row loses no metric of an acknowledged item *)
(* through failed, retried and regrouped batches, as long as no request     *)
(* outlived its post until the next one.                                    *)
AckedIsStored == ~overlapped => LatestSnapshotStored

(* Nor do the times a captain reads freshness from go back when a batch is   *)
(* sent again: it carries all it carried before.  That holds of the row's    *)
(* observedAt.  lastSeenAt has a second writer that nothing orders with the  *)
(* batches: it goes back by a refresh that arrives late, and by a batch that *)
(* arrives after a refresh made after its items; but a batch never takes it  *)
(* back from what a batch wrote, nor behind an acknowledged item.           *)
NeverOlder ==
  [][~overlapped' =>
       /\ observedAt' >= observedAt
       /\ lastSeen' < lastSeen => refreshed' \/ (refreshed /\ lastSeen' > acked)]_vars

(* The installation's event count misses no acknowledged item, even when    *)
(* requests overlap: the database adds, no request writes what it read.     *)
EveryAckedCounted == eventCount >= acked

(* A publish that fails is swallowed, but the next one makes up for it, for *)
(* the metrics it does not carry too: between requests the broker holds the *)
(* row's metrics unless the row's last change was not published.            *)
BrokerFollowsRow ==
  ~overlapped /\ ~missed /\ (\A r \in Requests : ~Runs(r)) => broker = row

(* The collector of this module, posts and requests included, keeps the     *)
(* promise CollectorBuffer keeps: items leave its queue from the front only, *)
(* when the endpoint answered for them, and an abandoned request that goes  *)
(* on, or answers late, never makes it drop an item it did not carry.       *)
Promise == INSTANCE Outbox
  WITH Capacity <- MaxItems, accepted <- enqueued, acked <- 1..acked, stopped <- FALSE,
       queue <- [i \in 1..(enqueued - acked) |-> acked + i]
ImplementsOutbox == Promise!OutboxSpec

(* Even when requests overlap, the row and the broker invent nothing: each  *)
(* metric is one of an item that the boat sent and that carries it, however *)
(* reads, merges, late writes and late publishes interleave.                *)
Genuine(metrics) ==
  \A f \in Fields : metrics[f] # 0 => metrics[f] <= enqueued /\ f \in carries[metrics[f]]
NothingInvented == Genuine(row) /\ Genuine(broker)
=============================================================================
