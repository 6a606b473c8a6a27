-------------------------- MODULE DeltaIngestProofs --------------------------
(***************************************************************************)
(* Proofs about DeltaIngest: what the read-modify-write of the snapshot    *)
(* row and the increment of the event count guarantee, for any number of   *)
(* items, requests, metrics and faults.                                    *)
(***************************************************************************)
EXTENDS DeltaIngest, SequenceTheorems, WellFoundedInduction, TLAPS

(* Max of a bounded set of naturals is its greatest element. *)
LEMMA MaxOf ==
  ASSUME NEW n \in Nat, NEW T, T \subseteq 0..n, T # {}
  PROVE  Max(T) \in T /\ \A x \in T : x <= Max(T)
<1> DEFINE Less == {pair \in Nat \X Nat : pair[1] < pair[2]}
           Gaps == {gap \in 0..n : n - gap \in T}
<1>1. IsWellFoundedOn(Less, Nat)
  BY NatLessThanWellFounded, Zenon DEF OpToRel
<1>2. \A y, x \in Nat : y < x => <<y, x>> \in Less
  OBVIOUS
<1> HIDE DEF Less
<1>3. \A x \in T : n - x \in Gaps
  OBVIOUS
<1>4. Gaps \subseteq Nat /\ Gaps # {}
  <2>1. Gaps \subseteq Nat
    OBVIOUS
  <2>2. PICK x \in T : n - x \in Gaps
    BY <1>3
  <2>3. QED
    BY <2>1, <2>2, Zenon
<1>5. PICK least \in Gaps : \A y \in Gaps : <<y, least>> \notin Less
  <2> HIDE DEF Gaps
  <2>1. QED
    BY <1>1, <1>4, WFMin, Zenon
<1>6. \A y \in Gaps : least <= y
  <2>1. \A y \in Gaps : y \in Nat /\ least \in Nat /\ ~(y < least)
    BY <1>2, <1>4, <1>5, Zenon
  <2>2. QED
    BY <2>1
<1>7. n - least \in T /\ \A y \in T : y <= n - least
  <2>1. \A y \in T : least <= n - y /\ y \in 0..n
    BY <1>3, <1>6
  <2>2. QED
    BY <1>5, <2>1
<1>8. \E x \in T : \A y \in T : x >= y
  BY <1>7
<1>9. Max(T) \in T /\ \A y \in T : Max(T) >= y
  BY <1>8, Zenon DEF Max
<1>10. QED
  BY <1>9

LEMMA MinOfTwo ==
  ASSUME NEW a \in Nat, NEW b \in Nat
  PROVE  Min({a, b}) = IF a <= b THEN a ELSE b
BY DEF Min

-----------------------------------------------------------------------------
(* The inductive invariant. *)

IngestTypes ==
  /\ carries \in [Items -> Loads]
  /\ enqueued \in 0..MaxItems /\ acked \in 0..enqueued
  /\ posting \in Requests \cup {None}
  /\ requests \in [Requests -> Running \cup {Idle}]
  /\ row \in Snapshots /\ broker \in Snapshots
  /\ observedAt \in 0..MaxItems /\ lastSeen \in 0..MaxItems
  /\ eventCount \in Nat
  /\ refreshed \in BOOLEAN /\ missed \in BOOLEAN /\ overlapped \in BOOLEAN

HasStored(r) == requests[r].pc \in {"stored", "counted", "published"}
Unpublished(r) == requests[r].pc \in {"stored", "counted"} /\ SnapshotChanged(r)

(* The collector waits for a request that runs and that starts where its    *)
(* batch does; every request's batch is a range of enqueued items.          *)
Batches ==
  /\ posting # None => Runs(posting) /\ requests[posting].lo = acked + 1
  /\ \A r \in Requests : Runs(r) => /\ requests[r].lo <= requests[r].hi
                                    /\ requests[r].hi <= enqueued
                                    /\ requests[r].hi < requests[r].lo + MaxPostItems

(* What the collector will take as acknowledged is counted already. *)
CountInv ==
  /\ eventCount >= acked
  /\ posting # None /\ requests[posting].pc \in {"counted", "published"}
       => eventCount >= requests[posting].hi

(* Unless requests overlapped, a request is alone and starts behind acked,  *)
Alone ==
  ~overlapped =>
    /\ \A r, q \in Requests : Runs(r) /\ Runs(q) => r = q
    /\ \A r \in Requests : Runs(r) => requests[r].lo = acked + 1

(* the row is still what it read, or holds all of its batch,                *)
RowInv ==
  ~overlapped =>
    /\ \A i \in 1..acked : Stored(i)
    /\ \A r \in Requests : requests[r].pc = "read" => requests[r].existing = row
    /\ \A r \in Requests : HasStored(r) => \A i \in 1..requests[r].hi : Stored(i)

(* the times come from items its batch reaches (lastSeenAt unless a refresh *)
(* wrote it),                                                               *)
TimesInv ==
  ~overlapped =>
    /\ observedAt <= enqueued /\ lastSeen <= enqueued
    /\ observedAt <= acked + MaxPostItems
    /\ ~refreshed => lastSeen <= acked + MaxPostItems
    /\ observedAt > 0 => carries[observedAt] # {}
    /\ \A r \in Requests : Runs(r) => /\ observedAt <= requests[r].hi
                                      /\ ~refreshed => lastSeen <= requests[r].hi

(* and only its unpublished change, or a missed one, keeps the broker from   *)
(* the row.                                                                *)
BrokerInv ==
  ~overlapped =>
    /\ \A r \in Requests : Unpublished(r) => row = Merged(r)
    /\ ~missed /\ (\A r \in Requests : ~Unpublished(r)) => broker = row

IInv == IngestTypes /\ Batches /\ CountInv /\ Alone /\ RowInv /\ TimesInv /\ BrokerInv

LEMMA InitHolds == Init => IInv
<1> SUFFICES ASSUME Init PROVE IInv
  OBVIOUS
<1>1. Nothing \in Snapshots
  BY IngestAssumption DEF Nothing, Snapshots
<1>2. \A r \in Requests : requests[r] = Idle /\ requests[r].pc = "idle"
  BY DEF Init, Idle
<1>3. IngestTypes
  <2>1. requests \in [Requests -> Running \cup {Idle}]
    BY DEF Init
  <2>2. /\ enqueued \in 0..MaxItems /\ acked \in 0..enqueued
        /\ observedAt \in 0..MaxItems /\ lastSeen \in 0..MaxItems /\ eventCount \in Nat
    BY IngestAssumption DEF Init
  <2>3. /\ carries \in [Items -> Loads] /\ posting \in Requests \cup {None}
        /\ row \in Snapshots /\ broker \in Snapshots
        /\ refreshed \in BOOLEAN /\ missed \in BOOLEAN /\ overlapped \in BOOLEAN
    BY <1>1 DEF Init
  <2>4. QED
    BY <2>1, <2>2, <2>3 DEF IngestTypes
<1>4. Batches /\ CountInv /\ Alone
  BY <1>2 DEF Init, Batches, CountInv, Alone, Runs
<1>5. RowInv
  BY <1>2 DEF Init, RowInv, HasStored
<1>6. TimesInv
  BY <1>2, IngestAssumption DEF Init, TimesInv, Runs
<1>7. BrokerInv
  BY <1>2 DEF Init, BrokerInv, Unpublished
<1>8. QED
  BY <1>3, <1>4, <1>5, <1>6, <1>7 DEF IInv

-----------------------------------------------------------------------------
(* Facts about a request and its batch. *)

LEMMA RequestType ==
  ASSUME IngestTypes, NEW r \in Requests, Runs(r)
  PROVE  /\ requests[r] \in Running
         /\ requests[r].lo \in Items /\ requests[r].hi \in Items
         /\ requests[r].existing \in Snapshots
BY DEF IngestTypes, Runs, Running, Idle

LEMMA CarryingBounds ==
  ASSUME IngestTypes, NEW r \in Requests, Runs(r), NEW f \in Fields, Carrying(r, f) # {}
  PROVE  /\ Max(Carrying(r, f)) \in Carrying(r, f)
         /\ Max(Carrying(r, f)) \in requests[r].lo..requests[r].hi
         /\ \A i \in Carrying(r, f) : i <= Max(Carrying(r, f))
<1>1. Carrying(r, f) \subseteq 0..MaxItems /\ MaxItems \in Nat
  BY RequestType, IngestAssumption DEF Carrying, Items
<1>2. Max(Carrying(r, f)) \in Carrying(r, f) /\ \A i \in Carrying(r, f) : i <= Max(Carrying(r, f))
  BY <1>1, MaxOf
<1>3. QED
  BY <1>2 DEF Carrying

LEMMA MergedType ==
  ASSUME IngestTypes, NEW r \in Requests, Runs(r)
  PROVE  Merged(r) \in Snapshots
<1>1. ASSUME NEW f \in Fields
      PROVE  (IF Carrying(r, f) = {} THEN requests[r].existing[f] ELSE Max(Carrying(r, f)))
               \in 0..MaxItems
  <2>1. CASE Carrying(r, f) = {}
    BY <2>1, RequestType DEF Snapshots
  <2>2. CASE Carrying(r, f) # {}
    BY <2>2, CarryingBounds, RequestType, IngestAssumption DEF Items
  <2>3. QED
    BY <2>1, <2>2
<1>2. QED
  BY <1>1 DEF Merged, Snapshots

(* Merging a batch into a row that holds all items before it yields a row   *)
(* that holds all items up to its end.                                     *)
LEMMA MergedStores ==
  ASSUME IngestTypes, NEW r \in Requests, Runs(r),
         requests[r].existing = row, requests[r].lo = acked + 1,
         \A i \in 1..acked : Stored(i)
  PROVE  /\ \A i \in 1..requests[r].hi : \A f \in carries[i] \cap Fields : Merged(r)[f] >= i
         /\ ~SnapshotChanged(r) => \A i \in 1..requests[r].hi : Stored(i)
<1>1. /\ acked \in Nat /\ requests[r].hi \in Items /\ requests[r].lo \in Items
      /\ requests[r].hi \in Nat /\ requests[r].lo \in Nat
  BY RequestType, IngestAssumption DEF IngestTypes, Items
<1>2. ASSUME NEW i \in 1..requests[r].hi, NEW f \in carries[i] \cap Fields
      PROVE  Merged(r)[f] >= i
  <2>1. f \in Fields /\ f \in carries[i]
    OBVIOUS
  <2>2. CASE i \in requests[r].lo..requests[r].hi
    <3>1. i \in Carrying(r, f)
      BY <2>1, <2>2 DEF Carrying
    <3>2. i <= Max(Carrying(r, f)) /\ Max(Carrying(r, f)) \in requests[r].lo..requests[r].hi
      BY <2>1, <3>1, CarryingBounds
    <3>3. Merged(r)[f] = Max(Carrying(r, f))
      BY <2>1, <3>1 DEF Merged
    <3>4. QED
      BY <1>1, <3>2, <3>3
  <2>3. CASE i \in 1..acked
    <3>1. row[f] >= i
      BY <2>1, <2>3 DEF Stored
    <3>2. CASE Carrying(r, f) = {}
      BY <2>1, <3>1, <3>2 DEF Merged
    <3>3. CASE Carrying(r, f) # {}
      <4>1. Max(Carrying(r, f)) \in requests[r].lo..requests[r].hi
        BY <2>1, <3>3, CarryingBounds
      <4>2. Merged(r)[f] = Max(Carrying(r, f))
        BY <2>1, <3>3 DEF Merged
      <4>3. QED
        BY <1>1, <2>3, <4>1, <4>2
    <3>4. QED
      BY <3>2, <3>3
  <2>4. QED
    BY <1>1, <2>2, <2>3
<1>3. ASSUME ~SnapshotChanged(r), NEW i \in 1..requests[r].hi
      PROVE  Stored(i)
  <2>1. CASE i \in requests[r].lo..requests[r].hi
    <3>1. carries[i] = {}
      BY <1>3, <2>1 DEF SnapshotChanged, SelfItems
    <3>2. QED
      BY <3>1 DEF Stored
  <2>2. CASE i \in 1..acked
    BY <2>2
  <2>3. QED
    BY <1>1, <2>1, <2>2
<1>4. QED
  BY <1>2, <1>3

(* The observation time of a batch is that of its last item of the vessel.  *)
LEMMA ObservedAtBounds ==
  ASSUME IngestTypes, NEW r \in Requests, Runs(r), SnapshotChanged(r)
  PROVE  /\ SnapshotObservedAt(r) \in requests[r].lo..requests[r].hi
         /\ carries[SnapshotObservedAt(r)] # {}
         /\ \A i \in requests[r].lo..requests[r].hi :
               carries[i] # {} => i <= SnapshotObservedAt(r)
<1>1. MaxItems \in Nat /\ requests[r].lo \in Items /\ requests[r].hi \in Items
  BY RequestType, IngestAssumption
<1>2. SelfItems(r) \subseteq 0..MaxItems
  BY <1>1 DEF SelfItems, Items
<1>3. SelfItems(r) # {}
  BY DEF SnapshotChanged
<1>4. Max(SelfItems(r)) \in SelfItems(r) /\ \A i \in SelfItems(r) : i <= Max(SelfItems(r))
  BY <1>1, <1>2, <1>3, MaxOf
<1>5. QED
  BY <1>4 DEF SelfItems, SnapshotObservedAt

-----------------------------------------------------------------------------
(* The steps. *)

(* What depends on the batch of a request only. *)
LEMMA SameBatch ==
  ASSUME NEW r \in Requests, carries' = carries, requests[r]'.lo = requests[r].lo,
         requests[r]'.hi = requests[r].hi
  PROVE  /\ SnapshotChanged(r)' <=> SnapshotChanged(r)
         /\ SnapshotObservedAt(r)' = SnapshotObservedAt(r)
         /\ requests[r]'.existing = requests[r].existing => Merged(r)' = Merged(r)
BY DEF SnapshotChanged, SnapshotObservedAt, SelfItems, Merged, Carrying

LEMMA EnqueueHolds == IInv /\ Enqueue => IInv'
<1> SUFFICES ASSUME IInv, Enqueue PROVE IInv'
  OBVIOUS
<1>1. IngestTypes'
  BY IngestAssumption DEF IInv, IngestTypes, Enqueue, boat, snapshotRow, installation
<1>2. Batches' /\ CountInv' /\ Alone'
  <2>1. \A r \in Requests : Runs(r) => requests[r].hi \in Items
    BY RequestType DEF IInv
  <2>2. QED
    BY <2>1, IngestAssumption DEF IInv, IngestTypes, Enqueue, Batches, CountInv, Alone,
       snapshotRow, installation, Runs, Items
<1>3. RowInv' /\ BrokerInv'
  BY DEF IInv, Enqueue, snapshotRow, installation, RowInv, BrokerInv, HasStored, Stored,
     Unpublished, SnapshotChanged, SelfItems, Merged, Carrying
<1>4. TimesInv'
  BY IngestAssumption DEF IInv, IngestTypes, Enqueue, snapshotRow, installation, TimesInv, Runs
<1>5. QED
  BY <1>1, <1>2, <1>3, <1>4 DEF IInv

LEMMA TimeoutHolds == IInv /\ Timeout => IInv'
<1> SUFFICES ASSUME IInv, Timeout PROVE IInv'
  OBVIOUS
<1>1. IngestTypes'
  BY DEF IInv, IngestTypes, Timeout, boat, snapshotRow, installation
<1>2. Batches' /\ CountInv' /\ Alone' /\ TimesInv'
  BY DEF IInv, Timeout, boat, snapshotRow, installation, Batches, CountInv, Alone, TimesInv, Runs
<1>3. RowInv' /\ BrokerInv'
  BY DEF IInv, Timeout, boat, snapshotRow, installation, RowInv, BrokerInv, HasStored, Stored,
     Unpublished, SnapshotChanged, SelfItems, Merged, Carrying
<1>4. QED
  BY <1>1, <1>2, <1>3 DEF IInv

(* A request goes a step further: it and its batch stay what they were. *)
LEMMA Advances ==
  ASSUME IngestTypes, NEW r \in Requests, NEW step \in Steps, Runs(r),
         requests' = At(r, step), carries' = carries
  PROVE  /\ requests' \in [Requests -> Running \cup {Idle}]
         /\ requests[r]'.pc = step
         /\ \A q \in Requests :
              /\ requests[q]'.lo = requests[q].lo /\ requests[q]'.hi = requests[q].hi
              /\ requests[q]'.existing = requests[q].existing
              /\ q # r => requests[q]' = requests[q]
              /\ Runs(q)' <=> Runs(q)
              /\ SnapshotChanged(q)' <=> SnapshotChanged(q)
              /\ Merged(q)' = Merged(q)
<1>1. requests[r] \in Running
  BY RequestType
<1>2. requests' = [requests EXCEPT ![r] = [requests[r] EXCEPT !.pc = step]]
  BY DEF At
<1>3. [requests[r] EXCEPT !.pc = step] \in Running
  BY <1>1 DEF Running
<1>4. requests \in [Requests -> Running \cup {Idle}]
  BY DEF IngestTypes
<1>5. requests' \in [Requests -> Running \cup {Idle}]
  BY <1>2, <1>3, <1>4
<1>6. /\ requests[r]' = [requests[r] EXCEPT !.pc = step]
      /\ \A q \in Requests : q # r => requests[q]' = requests[q]
  BY <1>2, <1>4
<1>7. /\ requests[r]'.pc = step /\ requests[r]'.lo = requests[r].lo
      /\ requests[r]'.hi = requests[r].hi /\ requests[r]'.existing = requests[r].existing
  BY <1>1, <1>6 DEF Running
<1>8. \A q \in Requests :
        /\ requests[q]'.lo = requests[q].lo /\ requests[q]'.hi = requests[q].hi
        /\ requests[q]'.existing = requests[q].existing
        /\ Runs(q)' <=> Runs(q)
  BY <1>6, <1>7 DEF Runs, Steps
<1>9. QED
  BY <1>5, <1>6, <1>7, <1>8, SameBatch

LEMMA ReadHolds == ASSUME IInv, NEW r \in Requests, Read(r) PROVE IInv'
<1>1. Runs(r) /\ requests[r] \in Running /\ IngestTypes
  BY RequestType DEF Read, Runs, IInv
<1>2. requests' = [requests EXCEPT ![r] = [requests[r] EXCEPT !.pc = "read", !.existing = row]]
  BY DEF Read
<1>3. [requests[r] EXCEPT !.pc = "read", !.existing = row] \in Running
  BY <1>1 DEF Running, IngestTypes, Steps
<1>4. requests' \in [Requests -> Running \cup {Idle}]
  BY <1>1, <1>2, <1>3 DEF IngestTypes
<1>5. /\ requests[r]' = [requests[r] EXCEPT !.pc = "read", !.existing = row]
      /\ \A q \in Requests : q # r => requests[q]' = requests[q]
  BY <1>1, <1>2 DEF IngestTypes
<1>6. /\ requests[r]'.pc = "read" /\ requests[r]'.lo = requests[r].lo
      /\ requests[r]'.hi = requests[r].hi /\ requests[r]'.existing = row
  BY <1>1, <1>5 DEF Running
<1>7. \A q \in Requests :
        /\ requests[q]'.lo = requests[q].lo /\ requests[q]'.hi = requests[q].hi
        /\ Runs(q)' <=> Runs(q)
        /\ q # r => requests[q]' = requests[q]
  BY <1>1, <1>5, <1>6 DEF Runs
<1>8. /\ carries' = carries /\ enqueued' = enqueued /\ acked' = acked /\ posting' = posting
      /\ row' = row /\ observedAt' = observedAt /\ lastSeen' = lastSeen
      /\ refreshed' = refreshed /\ eventCount' = eventCount /\ broker' = broker /\ missed' = missed
      /\ overlapped' = overlapped
  BY DEF Read, boat, snapshotRow, installation
<1>9. IngestTypes'
  BY <1>1, <1>4, <1>8 DEF IngestTypes
<1>10. Batches' /\ CountInv' /\ Alone' /\ TimesInv'
  BY <1>6, <1>7, <1>8 DEF IInv, IngestTypes, Batches, CountInv, Alone, TimesInv
<1>11. RowInv'
  BY <1>6, <1>7, <1>8 DEF IInv, RowInv, HasStored, Stored
<1>12. \A q \in Requests : Unpublished(q)' <=> Unpublished(q) /\ q # r
  BY <1>6, <1>7, <1>8, SameBatch DEF Unpublished, Read
<1>13. \A q \in Requests : q # r => Merged(q)' = Merged(q)
  BY <1>7, <1>8, SameBatch
<1>14. ~Unpublished(r)
  BY DEF Read, Unpublished
<1>15. BrokerInv'
  BY <1>8, <1>12, <1>13, <1>14 DEF IInv, BrokerInv
<1>16. QED
  BY <1>9, <1>10, <1>11, <1>15 DEF IInv

LEMMA StoreHolds == ASSUME IInv, NEW r \in Requests, Store(r) PROVE IInv'
<1>1. Runs(r) /\ IngestTypes /\ requests[r].pc = "read" /\ "stored" \in Steps
  BY DEF Store, Runs, IInv, Steps
<1>2. /\ carries' = carries /\ enqueued' = enqueued /\ acked' = acked /\ posting' = posting
      /\ lastSeen' = lastSeen /\ refreshed' = refreshed /\ eventCount' = eventCount /\ broker' = broker
      /\ missed' = missed /\ overlapped' = overlapped /\ requests' = At(r, "stored")
  BY DEF Store, boat, installation
<1>3. IF SnapshotChanged(r) THEN row' = Merged(r) /\ observedAt' = SnapshotObservedAt(r)
                            ELSE row' = row /\ observedAt' = observedAt
  BY DEF Store
<1>4. SnapshotChanged(r) => SnapshotObservedAt(r) \in 1..requests[r].hi
                            /\ SnapshotObservedAt(r) \in Items
  BY <1>1, ObservedAtBounds, RequestType, IngestAssumption DEF Items
<1>5. IngestTypes'
  BY <1>1, <1>2, <1>3, <1>4, Advances, MergedType, IngestAssumption DEF IngestTypes, Items
<1>6. Batches' /\ CountInv' /\ Alone'
  BY <1>1, <1>2, Advances DEF IInv, IngestTypes, Batches, CountInv, Alone
<1>7. RowInv'
  <2> SUFFICES ASSUME ~overlapped PROVE RowInv'
    BY <1>2 DEF RowInv
  <2>1. /\ requests[r].existing = row /\ requests[r].lo = acked + 1
        /\ \A i \in 1..acked : Stored(i)
    BY <1>1 DEF IInv, RowInv, Alone
  <2>2. \A i \in 1..requests[r].hi : Stored(i)'
    BY <1>1, <1>2, <1>3, <2>1, MergedStores DEF Stored
  <2>3. acked \in 0..requests[r].hi /\ requests[r].hi \in Nat
    BY <1>1, <2>1, RequestType, IngestAssumption DEF IInv, IngestTypes, Batches, Items
  <2>4. \A i \in 1..acked : Stored(i)'
    BY <2>2, <2>3
  <2>5. \A q \in Requests : q # r => ~HasStored(q)' /\ requests[q]'.pc # "read"
    BY <1>1, <1>2, Advances DEF IInv, Alone, HasStored, Runs
  <2>6. requests[r]'.pc = "stored" /\ requests[r]'.hi = requests[r].hi
    BY <1>1, <1>2, Advances
  <2>7. QED
    BY <1>2, <2>2, <2>4, <2>5, <2>6 DEF RowInv
<1>8. TimesInv'
  <2> SUFFICES ASSUME ~overlapped PROVE TimesInv'
    BY <1>2 DEF TimesInv
  <2>1. /\ requests[r].lo = acked + 1 /\ requests[r].hi <= enqueued
        /\ requests[r].hi < requests[r].lo + MaxPostItems
        /\ \A q \in Requests : Runs(q) => q = r
    BY <1>1 DEF IInv, Alone, Batches
  <2>2. \A q \in Requests : Runs(q)' => q = r
    BY <1>1, <1>2, <2>1, Advances
  <2>3. requests[r].hi \in Nat /\ acked \in Nat /\ enqueued \in Nat /\ MaxPostItems \in Nat
    BY <1>1, RequestType, IngestAssumption DEF IngestTypes, Items
  <2>4. observedAt' <= requests[r].hi /\ (~refreshed => lastSeen' <= requests[r].hi)
    BY <1>1, <1>2, <1>3, <1>4, <2>3 DEF IInv, TimesInv
  <2>5. observedAt' > 0 => carries[observedAt'] # {}
    BY <1>1, <1>3, ObservedAtBounds DEF IInv, TimesInv
  <2>6. observedAt' \in Nat /\ lastSeen' \in Nat
    BY <1>5, IngestAssumption DEF IngestTypes
  <2>7. requests[r]'.hi = requests[r].hi /\ lastSeen' <= enqueued
    BY <1>1, <1>2, Advances DEF IInv, TimesInv
  <2>8. QED
    BY <1>2, <2>1, <2>2, <2>3, <2>4, <2>5, <2>6, <2>7 DEF TimesInv
<1>9. BrokerInv'
  <2> SUFFICES ASSUME ~overlapped PROVE BrokerInv'
    BY <1>2 DEF BrokerInv
  <2>1. \A q \in Requests : ~Unpublished(q)
    BY <1>1 DEF IInv, Alone, Unpublished, Runs
  <2>2. \A q \in Requests : Unpublished(q)' <=> q = r /\ SnapshotChanged(r)
    BY <1>1, <1>2, <2>1, Advances DEF Unpublished
  <2>3. Merged(r)' = Merged(r)
    BY <1>1, <1>2, Advances
  <2>4. QED
    BY <1>2, <1>3, <2>1, <2>2, <2>3 DEF IInv, BrokerInv
<1>10. QED
  BY <1>5, <1>6, <1>7, <1>8, <1>9 DEF IInv

LEMMA HeartbeatHolds == ASSUME IInv, NEW r \in Requests, Heartbeat(r) PROVE IInv'
<1>1. Runs(r) /\ IngestTypes /\ requests[r].pc = "stored" /\ "counted" \in Steps
  BY DEF Heartbeat, Runs, IInv, Steps
<1>2. /\ carries' = carries /\ enqueued' = enqueued /\ acked' = acked /\ posting' = posting
      /\ row' = row /\ observedAt' = observedAt /\ broker' = broker
      /\ missed' = missed /\ overlapped' = overlapped /\ requests' = At(r, "counted")
      /\ lastSeen' = requests[r].hi /\ refreshed' = FALSE
      /\ eventCount' = eventCount + (requests[r].hi - requests[r].lo + 1)
  BY DEF Heartbeat, EventsOf, boat, snapshotRow
<1>3. /\ requests[r].hi \in Nat /\ requests[r].lo \in Nat /\ requests[r].lo <= requests[r].hi
      /\ requests[r].hi \in 0..MaxItems /\ eventCount \in Nat /\ acked \in Nat
  BY <1>1, RequestType, IngestAssumption DEF IInv, IngestTypes, Batches, Items
<1>4. IngestTypes'
  <2>1. lastSeen' \in 0..MaxItems
    BY <1>2, <1>3
  <2>2. eventCount' \in Nat
    BY <1>2, <1>3
  <2>3. refreshed' \in BOOLEAN
    BY <1>2, Zenon
  <2>4. requests' \in [Requests -> Running \cup {Idle}]
    BY <1>1, <1>2, Advances
  <2>5. QED
    BY <1>1, <1>2, <2>1, <2>2, <2>3, <2>4 DEF IngestTypes
<1>5. Batches' /\ Alone'
  BY <1>1, <1>2, Advances DEF IInv, IngestTypes, Batches, Alone
<1>6. CountInv'
  <2>1. eventCount' >= eventCount /\ eventCount' \in Nat
    BY <1>2, <1>3
  <2>2. ASSUME posting = r PROVE eventCount' >= requests[r].hi
    <3>1. requests[r].lo = acked + 1 /\ eventCount >= acked
      BY <1>1, <2>2, IngestAssumption DEF IInv, Batches, CountInv
    <3>2. QED
      BY <1>2, <1>3, <3>1
  <2>3. ASSUME posting # r, posting # None, requests[posting]'.pc \in {"counted", "published"}
        PROVE  eventCount' >= requests[posting].hi
    <3>1. posting \in Requests /\ requests[posting]' = requests[posting] /\ Runs(posting)
      BY <1>1, <1>2, <2>3, Advances DEF IngestTypes, IInv, Batches
    <3>2. requests[posting].hi \in Nat
      BY <1>1, <3>1, RequestType, IngestAssumption DEF Items
    <3>3. eventCount >= requests[posting].hi
      BY <2>3, <3>1 DEF IInv, CountInv
    <3>4. QED
      BY <1>3, <2>1, <3>2, <3>3
  <2>4. posting # None => posting \in Requests /\ requests[posting]'.hi = requests[posting].hi
    BY <1>1, <1>2, Advances DEF IngestTypes
  <2>5. eventCount' >= acked
    BY <1>3, <2>1 DEF IInv, CountInv
  <2>6. QED
    BY <1>2, <2>2, <2>3, <2>4, <2>5 DEF CountInv
<1>7. RowInv'
  BY <1>1, <1>2, Advances DEF IInv, RowInv, HasStored, Stored
<1>8. TimesInv'
  <2> SUFFICES ASSUME ~overlapped PROVE TimesInv'
    BY <1>2 DEF TimesInv
  <2>1. /\ requests[r].lo = acked + 1 /\ requests[r].hi <= enqueued
        /\ requests[r].hi < requests[r].lo + MaxPostItems
        /\ \A q \in Requests : Runs(q) => q = r
    BY <1>1 DEF IInv, Alone, Batches
  <2>2. \A q \in Requests : Runs(q)' => q = r
    BY <1>1, <1>2, <2>1, Advances
  <2>3. requests[r]'.hi = requests[r].hi /\ MaxPostItems \in Nat
    BY <1>1, <1>2, Advances, IngestAssumption
  <2>4. QED
    BY <1>1, <1>2, <1>3, <2>1, <2>2, <2>3 DEF IInv, TimesInv
<1>9. BrokerInv'
  <2>1. \A q \in Requests : Unpublished(q)' <=> Unpublished(q)
    BY <1>1, <1>2, Advances DEF Unpublished
  <2>2. QED
    BY <1>1, <1>2, <2>1, Advances DEF IInv, BrokerInv
<1>10. QED
  BY <1>4, <1>5, <1>6, <1>7, <1>8, <1>9 DEF IInv

(* A refresh moves lastSeenAt only. *)
LEMMA IdentityHeartbeatHolds ==
  ASSUME IInv, NEW t \in 0..MaxItems, IdentityHeartbeat(t)
  PROVE  IInv'
<1>1. /\ carries' = carries /\ enqueued' = enqueued /\ acked' = acked /\ posting' = posting
      /\ requests' = requests /\ row' = row /\ observedAt' = observedAt
      /\ eventCount' = eventCount /\ broker' = broker /\ missed' = missed
      /\ overlapped' = overlapped
      /\ lastSeen' = t /\ t <= enqueued /\ refreshed' = TRUE
  BY DEF IdentityHeartbeat, boat, snapshotRow
<1>2. IngestTypes'
  BY <1>1 DEF IInv, IngestTypes
<1>3. Batches' /\ CountInv' /\ Alone'
  BY <1>1 DEF IInv, Batches, CountInv, Alone, Runs
<1>4. RowInv' /\ BrokerInv'
  BY <1>1 DEF IInv, RowInv, BrokerInv, HasStored, Stored, Unpublished, SnapshotChanged,
     SelfItems, Merged, Carrying
<1>5. TimesInv'
  BY <1>1 DEF IInv, TimesInv, Runs
<1>6. QED
  BY <1>2, <1>3, <1>4, <1>5 DEF IInv

LEMMA PublishHolds == ASSUME IInv, NEW r \in Requests, Publish(r) PROVE IInv'
<1>1. Runs(r) /\ IngestTypes /\ requests[r].pc = "counted" /\ "published" \in Steps
  BY DEF Publish, Runs, IInv, Steps
<1>2. /\ carries' = carries /\ enqueued' = enqueued /\ acked' = acked /\ posting' = posting
      /\ row' = row /\ observedAt' = observedAt /\ lastSeen' = lastSeen
      /\ refreshed' = refreshed /\ eventCount' = eventCount /\ overlapped' = overlapped
      /\ requests' = At(r, "published")
  BY DEF Publish, boat, snapshotRow, installation
<1>3. \/ ~SnapshotChanged(r) /\ broker' = broker /\ missed' = missed
      \/ SnapshotChanged(r) /\ broker' = Merged(r) /\ missed' = FALSE
      \/ SnapshotChanged(r) /\ broker' = broker /\ missed' = TRUE
  BY DEF Publish, PublishedSnapshot
<1>4. IngestTypes'
  BY <1>1, <1>2, <1>3, Advances, MergedType DEF IngestTypes
<1>5. Batches' /\ Alone' /\ TimesInv'
  BY <1>1, <1>2, Advances DEF IInv, IngestTypes, Batches, Alone, TimesInv
<1>6. CountInv'
  <2>1. posting # None => posting \in Requests
    BY <1>1 DEF IngestTypes
  <2>2. QED
    BY <1>1, <1>2, <2>1, Advances DEF IInv, CountInv
<1>7. RowInv'
  BY <1>1, <1>2, Advances DEF IInv, RowInv, HasStored, Stored
<1>8. BrokerInv'
  <2> SUFFICES ASSUME ~overlapped PROVE BrokerInv'
    BY <1>2 DEF BrokerInv
  <2>1. \A q \in Requests : ~Unpublished(q)'
    BY <1>1, <1>2, Advances DEF IInv, Alone, Unpublished, Runs
  <2>2. \A q \in Requests : Unpublished(q) <=> q = r /\ SnapshotChanged(r)
    BY <1>1 DEF IInv, Alone, Unpublished, Runs
  <2>3. QED
    BY <1>2, <1>3, <2>1, <2>2 DEF IInv, BrokerInv
<1>9. QED
  BY <1>4, <1>5, <1>6, <1>7, <1>8 DEF IInv

(* A request ends: the others stay what they were. *)
LEMMA Ends ==
  ASSUME IngestTypes, NEW r \in Requests,
         requests' = [requests EXCEPT ![r] = Idle], carries' = carries
  PROVE  /\ requests' \in [Requests -> Running \cup {Idle}]
         /\ ~Runs(r)' /\ requests[r]'.pc = "idle"
         /\ \A q \in Requests : q # r => /\ requests[q]' = requests[q]
                                         /\ Runs(q)' <=> Runs(q)
                                         /\ SnapshotChanged(q)' <=> SnapshotChanged(q)
                                         /\ Merged(q)' = Merged(q)
<1>1. requests' \in [Requests -> Running \cup {Idle}] /\ requests[r]' = Idle
  BY DEF IngestTypes
<1>2. \A q \in Requests : q # r => requests[q]' = requests[q]
  BY DEF IngestTypes
<1>3. QED
  BY <1>1, <1>2, SameBatch DEF Runs, Idle

LEMMA AnswerHolds == ASSUME IInv, NEW r \in Requests, Answer(r) PROVE IInv'
<1>1. Runs(r) /\ IngestTypes /\ requests[r].pc = "published"
  BY DEF Answer, Runs, IInv
<1>2. /\ carries' = carries /\ enqueued' = enqueued /\ row' = row /\ observedAt' = observedAt
      /\ lastSeen' = lastSeen /\ refreshed' = refreshed /\ eventCount' = eventCount /\ overlapped' = overlapped
      /\ broker' = broker /\ missed' = missed
      /\ requests' = [requests EXCEPT ![r] = Idle]
  BY DEF Answer, snapshotRow, installation
<1>3. IF posting = r THEN acked' = requests[r].hi /\ posting' = None
                     ELSE acked' = acked /\ posting' = posting
  BY DEF Answer, AckedBy
<1>4. /\ requests[r].hi \in Nat /\ requests[r].hi <= enqueued /\ enqueued \in Nat
      /\ requests[r].lo \in Nat /\ requests[r].lo <= requests[r].hi /\ acked \in Nat
  BY <1>1, RequestType, IngestAssumption DEF IInv, IngestTypes, Batches, Items
<1>5. acked' \in 0..enqueued /\ acked' >= acked
  <2>1. CASE posting = r
    BY <1>1, <1>3, <1>4, <2>1, IngestAssumption DEF IInv, Batches
  <2>2. CASE posting # r
    BY <1>1, <1>3, <1>4, <2>2 DEF IngestTypes
  <2>3. QED
    BY <2>1, <2>2
<1>6. IngestTypes'
  BY <1>1, <1>2, <1>3, <1>5, Ends DEF IngestTypes
<1>7. Batches'
  <2>1. posting' # None => posting' \in Requests /\ posting' # r /\ posting' = posting
                           /\ acked' = acked
    BY <1>1, <1>3 DEF IngestTypes
  <2>2. QED
    BY <1>1, <1>2, <2>1, Ends DEF IInv, Batches
<1>8. CountInv'
  <2>1. posting' # None => posting' \in Requests /\ posting' # r /\ posting' = posting
    BY <1>1, <1>3 DEF IngestTypes
  <2>2. eventCount >= acked'
    BY <1>1, <1>3, IngestAssumption DEF IInv, CountInv
  <2>3. QED
    BY <1>1, <1>2, <2>1, <2>2, Ends DEF IInv, CountInv
<1>9. ASSUME ~overlapped PROVE \A q \in Requests : ~Runs(q)'
  BY <1>1, <1>2, <1>9, Ends DEF IInv, Alone
<1>10. Alone'
  BY <1>2, <1>9 DEF Alone
<1>11. RowInv'
  <2> SUFFICES ASSUME ~overlapped PROVE RowInv'
    BY <1>2 DEF RowInv
  <2>1. \A i \in 1..acked' : Stored(i)
    BY <1>1, <1>3 DEF IInv, RowInv, HasStored
  <2>2. QED
    BY <1>2, <1>9, <2>1 DEF RowInv, HasStored, Runs, Stored
<1>12. TimesInv'
  <2> SUFFICES ASSUME ~overlapped PROVE TimesInv'
    BY <1>2 DEF TimesInv
  <2>1. /\ observedAt <= acked' + MaxPostItems
        /\ ~refreshed => lastSeen <= acked' + MaxPostItems
    <3>1. /\ observedAt \in Nat /\ lastSeen \in Nat /\ MaxPostItems \in Nat /\ acked' \in Nat
      BY <1>1, <1>4, <1>5, IngestAssumption DEF IngestTypes
    <3>2. /\ observedAt <= acked + MaxPostItems
          /\ ~refreshed => lastSeen <= acked + MaxPostItems
      BY DEF IInv, TimesInv
    <3>3. \A n, a, b, m \in Nat : n <= a + m /\ a <= b => n <= b + m
      OBVIOUS
    <3>4. acked \in Nat /\ acked <= acked'
      BY <1>4, <1>5, <3>1
    <3>5. QED
      BY <3>1, <3>2, <3>3, <3>4
  <2>2. QED
    BY <1>2, <1>9, <2>1 DEF IInv, TimesInv
<1>13. BrokerInv'
  <2> SUFFICES ASSUME ~overlapped PROVE BrokerInv'
    BY <1>2 DEF BrokerInv
  <2>1. \A q \in Requests : ~Unpublished(q) /\ ~Unpublished(q)'
    BY <1>1, <1>9 DEF IInv, Alone, Unpublished, Runs
  <2>2. QED
    BY <1>2, <2>1 DEF IInv, BrokerInv
<1>14. QED
  BY <1>6, <1>7, <1>8, <1>10, <1>11, <1>12, <1>13 DEF IInv

LEMMA FailHolds == ASSUME IInv, NEW r \in Requests, Fail(r) PROVE IInv'
<1>1. Runs(r) /\ IngestTypes
  BY DEF Fail, IInv
<1>2. /\ carries' = carries /\ enqueued' = enqueued /\ acked' = acked /\ row' = row
      /\ observedAt' = observedAt /\ lastSeen' = lastSeen /\ refreshed' = refreshed /\ eventCount' = eventCount
      /\ overlapped' = overlapped /\ broker' = broker
      /\ missed' = (missed \/ Unpublished(r))
      /\ requests' = [requests EXCEPT ![r] = Idle]
  BY DEF Fail, boat, snapshotRow, installation, Unpublished
<1>3. IF posting = r THEN posting' = None ELSE posting' = posting
  BY DEF Fail
<1>4. posting' # None => posting' \in Requests /\ posting' # r /\ posting' = posting
  BY <1>1, <1>3 DEF IngestTypes
<1>5. IngestTypes'
  BY <1>1, <1>2, <1>3, Ends DEF IngestTypes
<1>6. Batches' /\ CountInv'
  BY <1>1, <1>2, <1>4, Ends DEF IInv, Batches, CountInv
<1>7. ASSUME ~overlapped PROVE \A q \in Requests : ~Runs(q)'
  BY <1>1, <1>2, <1>7, Ends DEF IInv, Alone
<1>8. Alone' /\ RowInv' /\ TimesInv'
  BY <1>2, <1>7 DEF IInv, Alone, RowInv, TimesInv, HasStored, Runs, Stored
<1>9. BrokerInv'
  <2> SUFFICES ASSUME ~overlapped PROVE BrokerInv'
    BY <1>2 DEF BrokerInv
  <2>1. \A q \in Requests : ~Unpublished(q)' /\ (q # r => ~Unpublished(q))
    BY <1>1, <1>7 DEF IInv, Alone, Unpublished, Runs
  <2>2. QED
    BY <1>2, <2>1 DEF IInv, BrokerInv
<1>10. QED
  BY <1>5, <1>6, <1>8, <1>9 DEF IInv

LEMMA PostHolds == ASSUME IInv, NEW r \in Requests, Post(r) PROVE IInv'
<1> DEFINE new == [pc |-> "sent", lo |-> acked + 1, hi |-> PostEnd, existing |-> Nothing]
<1>1. IngestTypes /\ ~Runs(r) /\ posting = None /\ acked < enqueued
  BY DEF Post, IInv
<1>2. /\ carries' = carries /\ enqueued' = enqueued /\ acked' = acked /\ row' = row
      /\ observedAt' = observedAt /\ lastSeen' = lastSeen /\ refreshed' = refreshed /\ eventCount' = eventCount
      /\ broker' = broker /\ missed' = missed /\ posting' = r
      /\ requests' = [requests EXCEPT ![r] = new]
      /\ overlapped' = (overlapped \/ \E q \in Requests : Runs(q))
  BY DEF Post, boat, snapshotRow, installation
<1>3. /\ acked \in Nat /\ enqueued \in Nat /\ MaxPostItems \in Nat /\ MaxPostItems > 0
      /\ enqueued <= MaxItems /\ MaxItems \in Nat /\ observedAt \in Nat /\ lastSeen \in Nat
      /\ acked + MaxPostItems \in Nat
  BY <1>1, IngestAssumption DEF IngestTypes
<1>4. /\ PostEnd \in Nat /\ PostEnd <= enqueued /\ PostEnd <= acked + MaxPostItems
      /\ PostEnd >= acked + 1
      /\ \A n \in Nat : n <= enqueued /\ n <= acked + MaxPostItems => n <= PostEnd
  <2>1. PostEnd = IF enqueued <= acked + MaxPostItems THEN enqueued ELSE acked + MaxPostItems
    BY <1>3, MinOfTwo DEF PostEnd
  <2>2. QED
    BY <1>1, <1>3, <2>1
<1>5. new \in Running
  <2>1. Nothing \in Snapshots
    BY <1>3 DEF Nothing, Snapshots
  <2>2. acked + 1 \in Items /\ PostEnd \in Items
    BY <1>1, <1>3, <1>4 DEF Items
  <2>3. QED
    BY <2>1, <2>2 DEF Running, Steps
<1>6. /\ requests' \in [Requests -> Running \cup {Idle}] /\ requests[r]' = new
      /\ \A q \in Requests : q # r => requests[q]' = requests[q]
  <2> HIDE DEF new
  <2>1. QED
    BY <1>1, <1>2, <1>5 DEF IngestTypes
<1>7. /\ requests[r]'.pc = "sent" /\ requests[r]'.lo = acked + 1 /\ requests[r]'.hi = PostEnd
      /\ Runs(r)' /\ ~HasStored(r)' /\ ~Unpublished(r)' /\ ~Unpublished(r)
  BY <1>1, <1>6 DEF Runs, HasStored, Unpublished
<1>8. IngestTypes'
  BY <1>1, <1>2, <1>6 DEF IngestTypes
<1>9. Batches'
  BY <1>1, <1>2, <1>3, <1>4, <1>6, <1>7 DEF IInv, Batches, Runs
<1>10. CountInv'
  BY <1>2, <1>7 DEF IInv, CountInv
<1>11. ASSUME ~overlapped' PROVE ~overlapped /\ \A q \in Requests : q # r => ~Runs(q)'
  BY <1>2, <1>6, <1>11 DEF Runs
<1>12. Alone'
  BY <1>2, <1>7, <1>11 DEF Alone
<1>13. RowInv'
  BY <1>2, <1>7, <1>11 DEF IInv, RowInv, HasStored, Stored, Runs
<1>14. TimesInv'
  <2> SUFFICES ASSUME ~overlapped' PROVE TimesInv'
    BY DEF TimesInv
  <2>1. observedAt <= PostEnd /\ (~refreshed => lastSeen <= PostEnd)
    BY <1>3, <1>4, <1>11 DEF IInv, TimesInv
  <2>2. QED
    BY <1>2, <1>7, <1>11, <2>1 DEF IInv, TimesInv
<1>15. BrokerInv'
  <2> SUFFICES ASSUME ~overlapped' PROVE BrokerInv'
    BY DEF BrokerInv
  <2>1. \A q \in Requests : ~Unpublished(q)' /\ ~Unpublished(q)
    BY <1>2, <1>7, <1>11 DEF Unpublished, Runs
  <2>2. QED
    BY <1>2, <1>11, <2>1 DEF IInv, BrokerInv
<1>16. QED
  BY <1>8, <1>9, <1>10, <1>12, <1>13, <1>14, <1>15 DEF IInv

LEMMA StepHolds == IInv /\ [Next]_vars => IInv'
<1> SUFFICES ASSUME IInv, [Next]_vars PROVE IInv'
  OBVIOUS
<1>1. CASE UNCHANGED vars
  BY <1>1 DEF vars, boat, snapshotRow, installation, IInv, IngestTypes, Batches, CountInv, Alone,
     RowInv, TimesInv, BrokerInv, Runs, HasStored, Unpublished, SnapshotChanged,
     SelfItems, Carrying, Merged, Stored
<1>2. QED
  BY <1>1, EnqueueHolds, TimeoutHolds, PostHolds, ReadHolds, StoreHolds, HeartbeatHolds,
     IdentityHeartbeatHolds, PublishHolds, AnswerHolds, FailHolds DEF Next

THEOREM Inductive == Spec => []IInv
<1>1. QED
  BY InitHolds, StepHolds, PTL DEF Spec

FaultsKnown == faults \in 0..MaxFaults

LEMMA FaultsBounded == FaultsKnown /\ [Next]_vars => FaultsKnown'
<1> USE DEF FaultsKnown
<1>1. SUFFICES ASSUME faults \in 0..MaxFaults, [Next]_vars PROVE faults' \in 0..MaxFaults
  OBVIOUS
<1>2. faults' = faults \/ (faults < MaxFaults /\ faults' = faults + 1)
  BY <1>1 DEF Next, Enqueue, Timeout, Post, Read, Store, Heartbeat, IdentityHeartbeat, Publish,
     Answer, Fail, vars
<1>3. QED
  BY <1>1, <1>2, IngestAssumption

(* The rows, the counters and what requests have read of them stay what the *)
(* schema says; a batch is never acknowledged past what was received.       *)
THEOREM TypeCorrect == Spec => []TypeOK
<1>1. Init => FaultsKnown
  BY IngestAssumption DEF Init, FaultsKnown
<1>2. IInv /\ FaultsKnown => TypeOK
  BY DEF FaultsKnown, IInv, IngestTypes, TypeOK
<1>3. QED
  BY <1>1, <1>2, FaultsBounded, Inductive, PTL DEF Spec

(* Through failed, retried and regrouped batches that do not overlap, the    *)
(* row keeps every metric of every acknowledged item, or a newer one.      *)
THEOREM StoresAcked == Spec => []AckedIsStored
<1>1. IInv => AckedIsStored
  BY DEF IInv, RowInv, AckedIsStored, LatestSnapshotStored
<1>2. QED
  BY <1>1, Inductive, PTL

(* The event count misses no acknowledged item, overlapping requests or not. *)
THEOREM CountsAcked == Spec => []EveryAckedCounted
<1>1. IInv => EveryAckedCounted
  BY DEF IInv, CountInv, EveryAckedCounted
<1>2. QED
  BY <1>1, Inductive, PTL

(* Between requests only an unpublished change keeps the broker from the row. *)
THEOREM BrokerFollows == Spec => []BrokerFollowsRow
<1>1. IInv => BrokerFollowsRow
  BY DEF IInv, BrokerInv, BrokerFollowsRow, Unpublished, Runs
<1>2. QED
  BY <1>1, Inductive, PTL

(* What NeverOlder says of a step. *)
TimesKept ==
  /\ observedAt' >= observedAt
  /\ lastSeen' < lastSeen => refreshed' \/ (refreshed /\ lastSeen' > acked)

LEMMA StoreKeepsTimes ==
  ASSUME IInv, NEW r \in Requests, Store(r), ~overlapped
  PROVE  TimesKept
<1>1. /\ observedAt \in Nat /\ lastSeen \in Nat /\ IngestTypes
      /\ lastSeen' = lastSeen /\ Runs(r)
  BY IngestAssumption DEF IInv, IngestTypes, Store, installation, Runs
<1>2. observedAt' >= observedAt
  <2>1. CASE SnapshotChanged(r)
    <3>1. observedAt' = SnapshotObservedAt(r)
      BY <2>1 DEF Store
    <3>2. /\ observedAt <= requests[r].hi /\ requests[r].lo = acked + 1
          /\ observedAt > 0 => carries[observedAt] # {}
          /\ requests[r].lo \in Nat /\ requests[r].hi \in Nat /\ requests[r].lo > 0
      BY <1>1, RequestType, IngestAssumption DEF IInv, TimesInv, Alone, Items
    <3>3. /\ SnapshotObservedAt(r) \in requests[r].lo..requests[r].hi
          /\ \A i \in requests[r].lo..requests[r].hi :
                carries[i] # {} => i <= SnapshotObservedAt(r)
      BY <1>1, <2>1, ObservedAtBounds
    <3>4. SnapshotObservedAt(r) \in Nat /\ SnapshotObservedAt(r) >= requests[r].lo
      BY <3>2, <3>3
    <3>5. CASE observedAt >= requests[r].lo
      <4>1. observedAt \in requests[r].lo..requests[r].hi /\ carries[observedAt] # {}
        BY <1>1, <3>2, <3>5
      <4>2. QED
        BY <1>1, <3>1, <3>3, <3>4, <4>1
    <3>6. CASE observedAt < requests[r].lo
      BY <1>1, <3>1, <3>2, <3>4, <3>6
    <3>7. QED
      BY <1>1, <3>2, <3>5, <3>6
  <2>2. CASE ~SnapshotChanged(r)
    BY <1>1, <2>2 DEF Store
  <2>3. QED
    BY <2>1, <2>2
<1>3. QED
  BY <1>1, <1>2 DEF TimesKept

LEMMA HeartbeatKeepsTimes ==
  ASSUME IInv, NEW r \in Requests, Heartbeat(r), ~overlapped
  PROVE  TimesKept
<1>1. /\ observedAt \in Nat /\ lastSeen \in Nat /\ acked \in Nat /\ IngestTypes
      /\ observedAt' = observedAt /\ lastSeen' = requests[r].hi /\ Runs(r)
  BY IngestAssumption DEF IInv, IngestTypes, Heartbeat, snapshotRow, Runs
<1>2. /\ requests[r].lo = acked + 1 /\ requests[r].lo <= requests[r].hi
      /\ requests[r].hi \in Nat
      /\ ~refreshed => lastSeen <= requests[r].hi
  BY <1>1, RequestType, IngestAssumption DEF IInv, Alone, Batches, TimesInv, Items
<1>3. QED
  BY <1>1, <1>2 DEF TimesKept

LEMMA TimesGrow ==
  ASSUME IInv, [Next]_vars, ~overlapped'
  PROVE  TimesKept
<1>1. /\ observedAt \in Nat /\ lastSeen \in Nat /\ ~overlapped
  <2>1. ~overlapped
    BY DEF Next, vars, Enqueue, Timeout, Post, Read, Store, Heartbeat, IdentityHeartbeat,
       Publish, Answer, Fail
  <2>2. QED
    BY <2>1, IngestAssumption DEF IInv, IngestTypes
<1>2. CASE \E r \in Requests : Store(r)
  BY <1>1, <1>2, StoreKeepsTimes
<1>3. CASE \E r \in Requests : Heartbeat(r)
  BY <1>1, <1>3, HeartbeatKeepsTimes
<1>4. CASE \E t \in 0..MaxItems : IdentityHeartbeat(t)
  BY <1>1, <1>4 DEF IdentityHeartbeat, snapshotRow, TimesKept
<1>5. CASE UNCHANGED <<observedAt, lastSeen>>
  BY <1>1, <1>5 DEF TimesKept
<1>6. QED
  BY <1>2, <1>3, <1>4, <1>5
     DEF Next, vars, snapshotRow, installation, Enqueue, Timeout, Post, Read, Publish, Answer, Fail

(* delta.post.ts and identity.post.ts: while no request outlives its post,   *)
(* the row's observedAt never goes back, and lastSeenAt only between a batch *)
(* and a refresh, by a batch never behind an acknowledged item.             *)
THEOREM TimesNeverBack == Spec => NeverOlder
<1>1. IInv /\ [Next]_vars => [~overlapped' => TimesKept]_vars
  BY TimesGrow
<1>2. QED
  BY <1>1, Inductive, PTL DEF Spec, NeverOlder, TimesKept

-----------------------------------------------------------------------------
(* The collector keeps the outbox's promise. *)

(* The items behind a, up to e: the queue of a collector that acknowledged  *)
(* a of its e items.                                                        *)
Held(a, e) == [i \in 1..(e - a) |-> a + i]

LEMMA HeldParts ==
  ASSUME NEW a \in Nat, NEW e \in Nat, a <= e
  PROVE  /\ Held(a, e) \in Seq(Nat) /\ Len(Held(a, e)) = e - a
         /\ \A i \in 1..(e - a) : Held(a, e)[i] = a + i
<1>1. Held(a, e) \in Seq(Nat) /\ Len(Held(a, e)) = e - a
  BY DEF Held
<1>2. \A i \in 1..(e - a) : Held(a, e)[i] = a + i
  BY DEF Held
<1>3. QED
  BY <1>1, <1>2

(* One item more at the back of consecutive items. *)
LEMMA OneMore ==
  ASSUME NEW a \in Nat, NEW e \in Nat, a <= e
  PROVE  Held(a, e) \o [i \in 1..1 |-> e + i] = Held(a, e + 1)
<1> DEFINE one == [i \in 1..1 |-> e + i]
<1>1. Held(a, e) \in Seq(Nat) /\ Len(Held(a, e)) = e - a
      /\ \A i \in 1..(e - a) : Held(a, e)[i] = a + i
  BY HeldParts
<1>2. Held(a, e + 1) \in Seq(Nat) /\ Len(Held(a, e + 1)) = e + 1 - a
      /\ \A i \in 1..(e + 1 - a) : Held(a, e + 1)[i] = a + i
  <2>1. e + 1 \in Nat /\ a <= e + 1
    OBVIOUS
  <2>2. QED
    BY <2>1, HeldParts
<1>3. one \in Seq(Nat) /\ Len(one) = 1 /\ one[1] = e + 1
  OBVIOUS
<1> HIDE DEF one
<1> DEFINE old == Held(a, e)
           new == Held(a, e + 1)
<1> HIDE DEF old, new
<1>4. old \o one = new
  <2>1. /\ old \in Seq(Nat) /\ Len(old) = e - a /\ new \in Seq(Nat) /\ Len(new) = e + 1 - a
        /\ one \in Seq(Nat)
    BY <1>1, <1>2, <1>3 DEF old, new
  <2>2. \A i \in 1..(e + 1 - a) : (old \o one)[i] = new[i]
    <3>1. TAKE i \in 1..(e + 1 - a)
    <3>2. new[i] = a + i
      BY <1>2 DEF new
    <3>3. CASE i <= e - a
      <4>1. old[i] = a + i /\ i \in 1..Len(old)
        BY <1>1, <2>1, <3>3 DEF old
      <4>2. QED
        BY <2>1, <3>2, <4>1
    <3>4. CASE i = e + 1 - a
      <4>1. (old \o one)[i] = one[1]
        <5>1. i - Len(old) = 1 /\ i > Len(old) /\ i \in 1..(Len(old) + Len(one))
          BY <1>3, <2>1, <3>1, <3>4
        <5>2. (old \o one)[i] = IF i <= Len(old) THEN old[i] ELSE one[i - Len(old)]
          BY <2>1, <5>1, ConcatProperties, Zenon
        <5>3. (old \o one)[i] = one[i - Len(old)]
          BY <2>1, <5>1, <5>2
        <5>4. QED
          BY <5>1, <5>3, Zenon
      <4>2. QED
        BY <1>3, <3>2, <3>4, <4>1
    <3>5. i <= e - a \/ i = e + 1 - a
      BY <3>1
    <3>6. QED
      BY <3>3, <3>4, <3>5
  <2>3. old \o one \in Seq(Nat) /\ Len(old \o one) = e + 1 - a
    <3>1. old \o one \in Seq(Nat) /\ Len(old \o one) = Len(old) + Len(one)
      BY <2>1, ConcatProperties
    <3>2. QED
      BY <1>3, <2>1, <3>1
  <2>4. QED
    BY <2>1, <2>2, <2>3, SMTT(20)
<1>5. QED
  BY <1>4 DEF one, old, new

(* The n oldest of consecutive items taken from the front. *)
LEMMA FrontTaken ==
  ASSUME NEW a \in Nat, NEW e \in Nat, NEW n \in Nat, a + n <= e,
         NEW q, q = Held(a, e)
  PROVE  /\ SubSeq(q, n + 1, Len(q)) = Held(a + n, e)
         /\ 1..(a + n) = 1..a \cup {q[i] : i \in 1..n}
         /\ n <= Len(q)
<1>0. a <= e /\ a + n \in Nat
  OBVIOUS
<1>1. q \in Seq(Nat) /\ Len(q) = e - a /\ n <= Len(q)
  <2>1. q \in Seq(Nat) /\ Len(q) = e - a
    BY <1>0, HeldParts
  <2>2. QED
    BY <2>1
<1>2. \A i \in 1..(e - a) : q[i] = a + i
  BY <1>0, HeldParts
<1> DEFINE rest == SubSeq(q, n + 1, Len(q))
           left == Held(a + n, e)
<1>3. rest = left
  <2>1. \A i \in (n + 1)..Len(q) : q[i] \in Nat
    BY <1>1, <1>2
  <2>2. /\ rest \in Seq(Nat)
        /\ Len(rest) = IF n + 1 <= Len(q) THEN Len(q) - (n + 1) + 1 ELSE 0
        /\ \A i \in 1..(Len(q) - (n + 1) + 1) : rest[i] = q[n + 1 + i - 1]
    BY <1>1, <2>1, SubSeqProperties
  <2>3. left \in Seq(Nat) /\ Len(left) = e - (a + n)
    BY <1>0, HeldParts
  <2>4. \A i \in 1..(e - (a + n)) : left[i] = a + n + i
    BY <1>0, HeldParts
  <2> HIDE DEF rest, left
  <2>5. Len(rest) = Len(left)
    BY <1>1, <2>2, <2>3
  <2>6. \A i \in 1..Len(left) : rest[i] = left[i]
    <3>1. TAKE i \in 1..Len(left)
    <3>2. i \in 1..(e - (a + n)) /\ n + i \in 1..(e - a) /\ n + 1 + i - 1 = n + i
          /\ i \in 1..(Len(q) - (n + 1) + 1)
      BY <1>1, <2>3
    <3>3. rest[i] = q[n + i] /\ q[n + i] = a + (n + i) /\ left[i] = a + n + i
      BY <1>2, <2>2, <2>4, <3>2
    <3>4. QED
      BY <3>2, <3>3
  <2>7. QED
    BY <2>2, <2>3, <2>5, <2>6
<1>4. {q[i] : i \in 1..n} = (a + 1)..(a + n)
  <2>1. \A i \in 1..n : i \in 1..(e - a) /\ q[i] = a + i
    BY <1>2
  <2>2. \A i \in 1..n : a + i \in (a + 1)..(a + n)
    OBVIOUS
  <2>3. \A i \in (a + 1)..(a + n) : i - a \in 1..n /\ a + (i - a) = i
    OBVIOUS
  <2>4. \A i \in (a + 1)..(a + n) : \E j \in 1..n : q[j] = i
    BY <2>1, <2>3
  <2>5. QED
    BY <2>1, <2>2, <2>4
<1>5. 1..(a + n) = 1..a \cup (a + 1)..(a + n)
  OBVIOUS
<1>6. QED
  BY <1>1, <1>3, <1>4, <1>5

LEMMA EnqueueAccepts ==
  ASSUME IngestTypes, Enqueue
  PROVE  Promise!OutboxNext
<1> DEFINE queue == Held(acked, enqueued)
           longer == queue \o [i \in 1..1 |-> enqueued + i]
<1>1. /\ enqueued \in Nat /\ acked \in Nat /\ acked <= enqueued
      /\ MaxItems \in Nat /\ MaxPostItems \in Nat
  BY IngestAssumption DEF IngestTypes
<1>2. enqueued' = enqueued + 1 /\ acked' = acked /\ enqueued < MaxItems
  BY DEF Enqueue
<1>3. queue' = longer
  BY <1>1, <1>2, OneMore
<1>4. Len(longer) = enqueued + 1 - acked /\ Len(queue) = enqueued - acked
  <2>1. enqueued + 1 \in Nat /\ acked <= enqueued + 1
    BY <1>1
  <2>2. Len(Held(acked, enqueued + 1)) = enqueued + 1 - acked
    BY <1>1, <2>1, HeldParts
  <2>3. QED
    BY <1>1, <2>2, OneMore, HeldParts
<1>5. /\ 0 <= Len(queue) /\ ~(Len(longer) - 0 - MaxItems > 0)
      /\ 0 \in 0..MaxPostItems /\ 1 \in 0..2 /\ enqueued + 1 <= MaxItems
  BY <1>1, <1>2, <1>4
<1> HIDE DEF longer
<1>6. Promise!Accept(1, 0)
  BY <1>2, <1>3, <1>5 DEF Promise!Accept, Held, longer
<1>7. \E k \in 0..2, busy \in 0..MaxPostItems :
        busy <= Len(queue) /\ enqueued + k <= MaxItems /\ Promise!Accept(k, busy)
  BY <1>5, <1>6
<1>8. QED
  BY <1>7 DEF Promise!OutboxNext, Held

LEMMA AnswerAcks ==
  ASSUME IInv, NEW r \in Requests, Answer(r), posting = r
  PROVE  Promise!OutboxNext
<1> DEFINE queue == Held(acked, enqueued)
<1>1. /\ IngestTypes /\ Runs(r) /\ requests[r].lo = acked + 1 /\ posting # None
      /\ requests[r].lo <= requests[r].hi /\ requests[r].hi <= enqueued
      /\ requests[r].hi < requests[r].lo + MaxPostItems
  BY IngestAssumption DEF IInv, Batches, Answer, Runs
<1>2. /\ requests[r].hi \in Nat /\ MaxPostItems \in Nat
      /\ enqueued \in Nat /\ acked \in Nat
  BY <1>1, RequestType, IngestAssumption DEF Items, IngestTypes
<1>3. acked' = requests[r].hi /\ enqueued' = enqueued
  BY DEF Answer, AckedBy
<1>4. PICK n \in Nat :
        /\ n \in 1..MaxPostItems /\ acked + n <= enqueued
        /\ acked' = acked + n
  <2> DEFINE k == requests[r].hi - acked
  <2>1. k \in Nat /\ k \in 1..MaxPostItems /\ acked + k = requests[r].hi
    BY <1>1, <1>2
  <2> HIDE DEF k
  <2>2. acked + k <= enqueued /\ acked' = acked + k
    BY <1>1, <1>3, <2>1, Zenon
  <2>3. QED
    BY <2>1, <2>2, Zenon
<1>5. /\ SubSeq(queue, n + 1, Len(queue)) = Held(acked + n, enqueued)
      /\ 1..(acked + n) = 1..acked \cup {queue[i] : i \in 1..n}
      /\ n <= Len(queue)
  BY <1>2, <1>4, FrontTaken
<1>6. queue' = SubSeq(queue, n + 1, Len(queue))
  BY <1>3, <1>4, <1>5
<1>7. 1..acked' = 1..acked \cup {queue[i] : i \in 1..n}
  BY <1>4, <1>5
<1>8. Promise!Ack(n)
  BY <1>3, <1>6, <1>7 DEF Promise!Ack, Held
<1>9. n <= Len(queue)
  BY <1>5
<1> HIDE DEF queue
<1>10. \E k \in 1..MaxPostItems : k <= Len(queue) /\ Promise!Ack(k)
  BY <1>4, <1>8, <1>9
<1>11. QED
  BY <1>10 DEF Promise!OutboxNext, Held, queue

(* Acknowledgements leave the collector in order, each item once, whether   *)
(* requests are abandoned, repeated, regrouped or overlap.                  *)
THEOREM KeepsPromise == Spec => ImplementsOutbox
<1>1. Init => Promise!OutboxInit
  BY DEF Init, Promise!OutboxInit
<1>2. ASSUME IInv, [Next]_vars
      PROVE  [Promise!OutboxNext]_(Promise!outboxVars)
  <2>1. ASSUME NEW r \in Requests, Answer(r)
        PROVE  Promise!OutboxNext \/ UNCHANGED <<enqueued, acked>>
    BY <1>2, <2>1, AnswerAcks DEF Answer
  <2>2. CASE UNCHANGED <<enqueued, acked>>
    BY <2>2 DEF Promise!outboxVars
  <2>3. IngestTypes
    BY <1>2 DEF IInv
  <2>4. QED
    BY <1>2, <2>1, <2>2, <2>3, EnqueueAccepts
       DEF Next, vars, boat, Timeout, Post, Read, Store, Heartbeat, IdentityHeartbeat, Publish,
           Fail
<1>3. QED
  BY <1>1, <1>2, Inductive, PTL DEF Spec, ImplementsOutbox, Promise!OutboxSpec

-----------------------------------------------------------------------------
(* Nothing is invented, overlapping requests or not: what a request read is  *)
(* genuine, so what it merges into it and writes late is genuine too.        *)

GenuineInv ==
  /\ Genuine(row) /\ Genuine(broker)
  /\ \A r \in Requests : Runs(r) => Genuine(requests[r].existing)

LEMMA GenuineInit == Init => GenuineInv
BY DEF Init, GenuineInv, Genuine, Nothing, Runs, Idle

LEMMA MergedGenuine ==
  ASSUME IInv, GenuineInv, NEW r \in Requests, Runs(r)
  PROVE  Genuine(Merged(r))
<1>1. /\ requests[r].lo \in Nat /\ requests[r].hi \in Nat /\ requests[r].hi <= enqueued
      /\ enqueued \in Nat /\ IngestTypes
  BY RequestType, IngestAssumption DEF IInv, IngestTypes, Batches, Items
<1>2. SUFFICES ASSUME NEW f \in Fields, Merged(r)[f] # 0
               PROVE  Merged(r)[f] <= enqueued /\ f \in carries[Merged(r)[f]]
  BY DEF Genuine
<1>3. CASE Carrying(r, f) = {}
  <2>1. Merged(r)[f] = requests[r].existing[f]
    BY <1>3 DEF Merged
  <2>2. QED
    BY <1>2, <2>1 DEF GenuineInv, Genuine
<1>4. CASE Carrying(r, f) # {}
  <2> DEFINE m == Max(Carrying(r, f))
  <2>1. Merged(r)[f] = m
    BY <1>4 DEF Merged
  <2>2. m \in Carrying(r, f) /\ m \in requests[r].lo..requests[r].hi
    BY <1>1, <1>4, CarryingBounds
  <2> HIDE DEF m
  <2>3. m <= enqueued /\ f \in carries[m]
    BY <1>1, <2>2 DEF Carrying
  <2>4. QED
    BY <2>1, <2>3
<1>5. QED
  BY <1>3, <1>4

(* Metrics that were genuine stay genuine while items are only added. *)
LEMMA StaysGenuine ==
  ASSUME IInv, NEW metrics \in Snapshots, Genuine(metrics),
         carries' = carries, enqueued' \in Nat, enqueued' >= enqueued
  PROVE  \A f \in Fields : metrics[f] # 0 =>
             metrics[f] <= enqueued' /\ f \in carries'[metrics[f]]
<1>1. enqueued \in Nat /\ \A f \in Fields : metrics[f] \in Nat
  BY IngestAssumption DEF IInv, IngestTypes, Snapshots
<1>2. QED
  BY <1>1 DEF Genuine

LEMMA GenuineStep ==
  ASSUME IInv, GenuineInv, [Next]_vars
  PROVE  GenuineInv'
<1>1. IngestTypes /\ enqueued \in Nat
  BY IngestAssumption DEF IInv, IngestTypes
<1>2. /\ carries' = carries /\ enqueued' \in Nat /\ enqueued' >= enqueued
  <2>1. carries' = carries /\ (enqueued' = enqueued \/ enqueued' = enqueued + 1)
    BY DEF Next, vars, boat, Enqueue, Timeout, Post, Read, Store, Heartbeat, IdentityHeartbeat,
       Publish, Answer, Fail
  <2>2. QED
    BY <1>1, <2>1
<1> DEFINE Later(metrics) == \A f \in Fields : metrics[f] # 0 =>
                               metrics[f] <= enqueued' /\ f \in carries'[metrics[f]]
<1>3. \A metrics \in Snapshots : Genuine(metrics) => Later(metrics)
  BY <1>2, StaysGenuine
<1>4. Nothing \in Snapshots /\ Genuine(Nothing)
  BY IngestAssumption DEF Nothing, Snapshots, Genuine
<1>5. row \in Snapshots /\ broker \in Snapshots /\ Genuine(row) /\ Genuine(broker)
  BY <1>1 DEF IngestTypes, GenuineInv
<1>6. \A r \in Requests : Runs(r) =>
         requests[r].existing \in Snapshots /\ Genuine(requests[r].existing)
  BY <1>1, RequestType DEF GenuineInv
<1>7. \A r \in Requests : Runs(r) => Merged(r) \in Snapshots /\ Genuine(Merged(r))
  BY <1>1, MergedGenuine, MergedType
<1>8. \/ row' = row
      \/ \E r \in Requests : Runs(r) /\ row' = Merged(r)
  BY DEF Next, vars, snapshotRow, Enqueue, Timeout, Post, Read, Store, Heartbeat,
     IdentityHeartbeat, Publish, Answer, Fail, Runs
<1>9. \/ broker' = broker
      \/ \E r \in Requests : Runs(r) /\ broker' = Merged(r)
  BY DEF Next, vars, Enqueue, Timeout, Post, Read, Store, Heartbeat, IdentityHeartbeat, Publish,
     Answer, Fail, Runs, PublishedSnapshot
<1>10. \A r \in Requests : requests'[r].pc # "idle" =>
          \/ requests'[r].existing = Nothing
          \/ requests'[r].existing = row
          \/ Runs(r) /\ requests'[r].existing = requests[r].existing
  <2>1. ASSUME NEW q \in Requests, Post(q) \/ Read(q), NEW r \in Requests,
               requests'[r].pc # "idle"
        PROVE  \/ requests'[r].existing = Nothing
               \/ requests'[r].existing = row
               \/ Runs(r) /\ requests'[r].existing = requests[r].existing
    <3>1. CASE r # q
      BY <1>1, <2>1, <3>1 DEF IngestTypes, Post, Read, Runs
    <3>2. CASE r = q /\ Post(q)
      BY <1>1, <2>1, <3>2 DEF IngestTypes, Post
    <3>3. CASE r = q /\ Read(q)
      <4>1. requests[q] \in Running
        BY <1>1, <3>3, RequestType DEF Read, Runs
      <4>2. requests'[q] = [requests[q] EXCEPT !.pc = "read", !.existing = row]
        BY <1>1, <3>3 DEF IngestTypes, Read
      <4>3. QED
        BY <3>3, <4>1, <4>2 DEF Running
    <3>4. QED
      BY <2>1, <3>1, <3>2, <3>3
  <2>2. CASE \E q \in Requests : Answer(q) \/ Fail(q)
    <3>1. PICK q \in Requests : requests' = [requests EXCEPT ![q] = Idle]
      BY <2>2 DEF Answer, Fail
    <3>2. /\ requests'[q].pc = "idle"
          /\ \A r \in Requests : r # q => requests'[r] = requests[r]
      BY <1>1, <3>1 DEF IngestTypes, Idle
    <3>3. QED
      BY <3>2 DEF Runs
  <2>3. CASE \E q \in Requests : Store(q) \/ Heartbeat(q) \/ Publish(q)
    BY <1>1, <2>3 DEF IngestTypes, Store, Heartbeat, Publish, At, Runs, Running, Idle
  <2>4. CASE Enqueue \/ Timeout \/ UNCHANGED vars \/ \E t \in 0..MaxItems : IdentityHeartbeat(t)
    BY <2>4 DEF Enqueue, Timeout, IdentityHeartbeat, vars, Runs
  <2>5. CASE \E q \in Requests : Post(q) \/ Read(q)
    <3>1. PICK q \in Requests : Post(q) \/ Read(q)
      BY <2>5
    <3>2. QED
      BY <2>1, <3>1, SMT
  <2>6. QED
    BY <2>2, <2>3, <2>4, <2>5 DEF Next
<1>11. Later(row') /\ Later(broker')
  BY <1>3, <1>5, <1>7, <1>8, <1>9
<1>12. \A r \in Requests : requests'[r].pc # "idle" => Later(requests'[r].existing)
  BY <1>3, <1>4, <1>5, <1>6, <1>10
<1>13. QED
  BY <1>11, <1>12 DEF GenuineInv, Genuine, Runs

(* Row and broker hold only what the boat sent, overlapping requests or not. *)
THEOREM InventsNothing == Spec => []NothingInvented
<1>1. GenuineInv => NothingInvented
  BY DEF GenuineInv, NothingInvented
<1>2. QED
  BY <1>1, Inductive, GenuineInit, GenuineStep, PTL DEF Spec
=============================================================================
