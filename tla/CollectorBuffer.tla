--------------------------- MODULE CollectorBuffer ---------------------------
(***************************************************************************)
(* The delta buffer of the edge collector, apps/edge-collector/src/index.ts *)
(* (enqueueSelectedTelemetry, trimBufferedBatch, scheduleFlush, flushBatch,*)
(* postDeltaBatch, shutdown).                                              *)
(*                                                                         *)
(* The process is single threaded: a handler runs until its next await, so *)
(* one action is one such stretch.  flushBatch awaits the post, and every  *)
(* other handler may run before the answer arrives.  A clock value is kept *)
(* as the time that is left until it (0: it has passed), which is all the  *)
(* code ever compares; Tick lets time pass.                                *)
(***************************************************************************)
EXTENDS Integers, Sequences

CONSTANTS
  BatchSize, MaxBufferedItems, MaxPostItems,                    \* config, in items
  FlushInterval, MinPostInterval, RateLimitBackoff, ReconnectDelay, \* config, in ticks
  RetryAfters,    \* the Retry-After delays a 429 answer may carry (0: none)
  MaxItems        \* bound of the model: how many items are ever buffered

(* parsePositiveInteger refuses any setting that is not a positive integer. *)
ASSUME ConfigAssumption ==
  /\ BatchSize \in Nat \ {0}
  /\ MaxBufferedItems \in Nat \ {0}
  /\ MaxPostItems \in Nat \ {0}
  /\ FlushInterval \in Nat \ {0}
  /\ MinPostInterval \in Nat \ {0}
  /\ RateLimitBackoff \in Nat \ {0}
  /\ ReconnectDelay \in Nat \ {0}
  /\ RetryAfters \subseteq Nat
  /\ MaxItems \in Nat

VARIABLES
  phase,        \* "running", then isShuttingDown: "closing", "draining", "exited", or
                \* "killed": exited by a second signal
  batch,        \* the buffered items, oldest first
  pending,      \* the items of the post in flight: flushBatch's local
  flushMode,    \* "idle", or isFlushing with the caller's options: "normal", "drain"
  flushTimer,   \* Off, or the time left until the flush timer fires
  spacing,      \* time left until lastPostStartedAt + minPostIntervalMs
  backoff,      \* time left until nextPostNotBefore
  drainFrom,    \* shutdown's `before`; 0 before the first turn of its loop
  lastPost,     \* which of lastPostSucceededAt, lastPostFailedAt is later
  accepted,     \* how many items were buffered so far; they are numbered 1..accepted
  acked,        \* the items counted in postedItems
  dropped,      \* the items counted in droppedItems
  retryWait     \* history: time left until reconnectDelayMs after a failed post

vars == <<phase, batch, pending, flushMode, flushTimer, spacing, backoff, drainFrom,
          lastPost, accepted, acked, dropped, retryWait>>

Off == -1

MaxOf(a, b) == IF a >= b THEN a ELSE b
MinOf(a, b) == IF a <= b THEN a ELSE b

Items(s) == {s[i] : i \in 1..Len(s)}

TypeOK ==
  /\ phase \in {"running", "closing", "draining", "exited", "killed"}
  /\ batch \in Seq(1..MaxItems)
  /\ pending \in Seq(1..MaxItems)
  /\ flushMode \in {"idle", "normal", "drain"}
  /\ flushTimer \in Nat \cup {Off}
  /\ spacing \in Nat
  /\ backoff \in Nat
  /\ drainFrom \in Nat
  /\ lastPost \in {"none", "ok", "failed"}
  /\ accepted \in 0..MaxItems
  /\ acked \subseteq 1..MaxItems
  /\ dropped \subseteq 1..MaxItems
  /\ retryWait \in Nat

Init ==
  /\ phase = "running"
  /\ batch = <<>> /\ pending = <<>>
  /\ flushMode = "idle"
  /\ flushTimer = Off
  /\ spacing = 0 /\ backoff = 0 /\ drainFrom = 0
  /\ lastPost = "none"
  /\ accepted = 0 /\ acked = {} /\ dropped = {}
  /\ retryWait = 0

IsFlushing == flushMode # "idle"

Ended == phase \in {"exited", "killed"}

-----------------------------------------------------------------------------
(* Pieces of the handlers. *)

(* scheduleFlush: a timer that is already set stays as it is. *)
ScheduleFlush(timer, delay) ==
  IF phase # "running" \/ timer # Off THEN timer ELSE delay

(* trimBufferedBatch: how many of the oldest items are too many. *)
NoOverflow(b) == 0
OverflowOffByOne(b) == MaxOf(Len(b) - MaxBufferedItems + 1, 0)
Overflow(b) == MaxOf(Len(b) - MaxBufferedItems, 0)

MsUntilPostAllowed == MaxOf(spacing, backoff)

(* The items one post takes, and the ones it leaves in the buffer. *)
PostSize(b) == MinOf(MaxPostItems, Len(b))
Taken(b) == SubSeq(b, 1, PostSize(b))
Left(b) == SubSeq(b, PostSize(b) + 1, Len(b))

(* What the catch branch makes of the buffer. *)
RequeueAtBack(p, b) == b \o p
RequeueNothing(p, b) == b
Requeue(p, b) == p \o b

(* flushBatch up to its await, with the buffer b and the timer it is called with. *)
StartPost(b, mode) ==
  /\ flushMode' = mode
  /\ flushTimer' = Off
  /\ pending' = Taken(b)
  /\ batch' = Left(b)
  /\ spacing' = MinPostInterval

FlushBatch(b, timer) ==
  \/ /\ IsFlushing \/ b = <<>>
     /\ batch' = b
     /\ flushTimer' = timer
     /\ UNCHANGED <<pending, flushMode, spacing>>
  \/ /\ ~IsFlushing /\ b # <<>>
     /\ MsUntilPostAllowed > 0
     /\ batch' = b
     /\ flushTimer' = ScheduleFlush(timer, MsUntilPostAllowed)
     /\ UNCHANGED <<pending, flushMode, spacing>>
  \/ /\ ~IsFlushing /\ b # <<>>
     /\ MsUntilPostAllowed = 0
     /\ StartPost(b, "normal")

(* flushBatch's finally: never leave items behind without a timer. *)
NoRearm(b, timer) == timer
Rearm(b, timer) ==
  IF b # <<>> THEN ScheduleFlush(timer, FlushInterval) ELSE timer

-----------------------------------------------------------------------------
(* The handlers. *)

(* enqueueSelectedTelemetry: a SignalK delta leaves a canonical item, a    *)
(* debug item, both or neither in the buffer.  The collector's socket      *)
(* delivers no message once shutdown has called close() on it.             *)
Receive(k) ==
  LET longer == batch \o [i \in 1..k |-> accepted + i]
      over   == Overflow(longer)
      kept   == SubSeq(longer, over + 1, Len(longer))
  IN  /\ phase = "running"
      /\ accepted + k <= MaxItems
      /\ accepted' = accepted + k
      /\ dropped' = dropped \cup Items(SubSeq(longer, 1, over))
      /\ IF Len(kept) >= BatchSize
           THEN FlushBatch(kept, flushTimer)
           ELSE /\ batch' = kept
                /\ flushTimer' = ScheduleFlush(flushTimer, FlushInterval)
                /\ UNCHANGED <<pending, flushMode, spacing>>
      /\ UNCHANGED <<phase, backoff, drainFrom, lastPost, acked, retryWait>>

(* The callback scheduleFlush sets. *)
FlushTimerFires ==
  /\ flushTimer = 0
  /\ FlushBatch(batch, Off)
  /\ UNCHANGED <<phase, backoff, drainFrom, lastPost, accepted, acked, dropped, retryWait>>

(* postDeltaBatch returns: a 2xx answer arrived within requestTimeoutMs. *)
PostSucceeds ==
  /\ IsFlushing /\ ~Ended
  /\ backoff' = 0
  /\ lastPost' = "ok"
  /\ acked' = acked \cup Items(pending)
  /\ pending' = <<>>
  /\ flushMode' = "idle"
  /\ flushTimer' = Rearm(batch, flushTimer)
  /\ UNCHANGED <<phase, batch, spacing, drainFrom, accepted, dropped, retryWait>>

(* What both failures do; `delay` is the one their branch schedules, which *)
(* the shutdown loop's rescheduleOnFailure: false leaves out.              *)
PostFailed(delay) ==
  LET requeued == Requeue(pending, batch)
      timer    == IF flushMode = "normal" THEN ScheduleFlush(flushTimer, delay)
                                          ELSE flushTimer
  IN  /\ IsFlushing /\ ~Ended
      /\ batch' = requeued
      /\ pending' = <<>>
      /\ lastPost' = "failed"
      /\ flushMode' = "idle"
      /\ flushTimer' = Rearm(requeued, timer)
      /\ UNCHANGED <<phase, spacing, drainFrom, accepted, acked, dropped>>

(* A 429 answer. *)
PostRateLimited(retryAfter) ==
  LET delay == MaxOf(retryAfter, RateLimitBackoff)
  IN  /\ PostFailed(delay)
      /\ backoff' = delay
      /\ UNCHANGED retryWait

(* Any other status, a network error or the request timeout.  The endpoint *)
(* may have stored the items all the same.                                 *)
PostFails ==
  /\ PostFailed(ReconnectDelay)
  /\ retryWait' = ReconnectDelay
  /\ UNCHANGED backoff

(* shutdown up to its first await: SIGINT or SIGTERM. *)
Shutdown ==
  /\ phase = "running"
  /\ phase' = "closing"
  /\ flushTimer' = Off
  /\ UNCHANGED <<batch, pending, flushMode, spacing, backoff, drainFrom, lastPost,
                 accepted, acked, dropped, retryWait>>

(* One turn of shutdown's loop.  It ends the process when the buffer is    *)
(* empty, when the last turn did not shorten it, or when flushBatch returns *)
(* at once because an earlier post is still in flight; otherwise flushBatch *)
(* posts with ignoreThrottle.                                              *)
OneTurnOnly(b) == drainFrom # 0
StalledOnlyIfLonger(b) == drainFrom # 0 /\ Len(b) > drainFrom
Stalled(b) == drainFrom # 0 /\ Len(b) >= drainFrom

DrainTurn ==
  \/ /\ batch = <<>> \/ IsFlushing \/ Stalled(batch)
     /\ phase' = "exited"
     /\ UNCHANGED <<batch, pending, flushMode, flushTimer, spacing, drainFrom>>
  \/ /\ batch # <<>> /\ ~IsFlushing /\ ~Stalled(batch)
     /\ phase' = "draining"
     /\ drainFrom' = Len(batch)
     /\ StartPost(batch, "drain")

(* Both server.close callbacks have run: shutdown enters its loop. *)
ServersClosed ==
  /\ phase = "closing"
  /\ DrainTurn
  /\ UNCHANGED <<backoff, lastPost, accepted, acked, dropped, retryWait>>

(* The loop's await is over. *)
DrainContinues ==
  /\ phase = "draining"
  /\ ~IsFlushing
  /\ DrainTurn
  /\ UNCHANGED <<backoff, lastPost, accepted, acked, dropped, retryWait>>

(* Time passes; a timer may fire late. *)
ElapseUnclamped(t) == t - 1
Elapse(t) == IF t > 0 THEN t - 1 ELSE t
Tick ==
  /\ ~Ended
  /\ \E t \in {flushTimer, spacing, backoff, retryWait} : t > 0
  /\ flushTimer' = Elapse(flushTimer)
  /\ spacing' = Elapse(spacing)
  /\ backoff' = Elapse(backoff)
  /\ retryWait' = Elapse(retryWait)
  /\ UNCHANGED <<phase, batch, pending, flushMode, drainFrom, lastPost, accepted,
                 acked, dropped>>

(* A second signal: the handler's call of shutdown returns at once, since  *)
(* isShuttingDown is set, and its finally exits, whatever the first one does. *)
SecondSignal ==
  /\ phase \in {"closing", "draining"}
  /\ phase' = "killed"
  /\ UNCHANGED <<batch, pending, flushMode, flushTimer, spacing, backoff, drainFrom,
                 lastPost, accepted, acked, dropped, retryWait>>

(* process.exit(0): nothing happens any more. *)
Exited == Ended /\ UNCHANGED vars

Next ==
  \/ \E k \in 0..2 : Receive(k)
  \/ FlushTimerFires
  \/ PostSucceeds
  \/ \E retryAfter \in RetryAfters : PostRateLimited(retryAfter)
  \/ PostFails
  \/ Shutdown
  \/ ServersClosed
  \/ DrainContinues
  \/ SecondSignal
  \/ Tick
  \/ Exited

Spec == Init /\ [][Next]_vars

-----------------------------------------------------------------------------
(* Safety. *)

Held == pending \o batch

(* No item vanishes: every item the handler put into the buffer is in it,  *)
(* in the post in flight, counted as posted or counted as dropped, in      *)
(* exactly one of them, through failed posts, requeues and trims.          *)
NothingLost ==
  /\ acked \cup dropped \cup Items(Held) = 1..accepted
  /\ acked \cap dropped = {}
  /\ (acked \cup dropped) \cap Items(Held) = {}

Sorted(s) == \A i, j \in 1..Len(s) : i < j => s[i] < s[j]

(* The endpoint answers for items in the order they were buffered: the     *)
(* post in flight and the buffer behind it are sorted, and every item      *)
(* already answered for is older than all of them.  A retry therefore      *)
(* never overtakes, or falls behind, newer telemetry.                      *)
InOrder ==
  /\ Sorted(Held)
  /\ \A a \in acked, i \in 1..Len(Held) : a < Held[i]

(* What really bounds the memory: the buffer is trimmed when an item comes *)
(* in and never when a failed post puts its items back, so it can exceed   *)
(* maxBufferedItems, by at most one post.                                  *)
MemoryBound ==
  /\ Len(Held) <= MaxBufferedItems + MaxPostItems
  /\ IsFlushing => Len(batch) <= MaxBufferedItems

(* The queue never stalls: while the collector runs, items that wait are   *)
(* waited for by the flush timer or by the post in flight, although the    *)
(* timer can fire, and is then spent, while a post is in flight.           *)
NeverStalls ==
  phase = "running" /\ batch # <<>> => IsFlushing \/ flushTimer # Off

(* Shutdown gives items up only when a post failed after the signal or was *)
(* in flight when the loop began: throttles and backoffs do not cut the    *)
(* drain short, whatever the number of posts it takes.  (A second signal    *)
(* does: phase is then "killed".)                                           *)
DrainsUnlessFailing ==
  phase = "exited" /\ Held # <<>> => flushMode = "normal" \/ lastPost = "failed"

(* apps/edge-collector/README.md:66 "Maximum queued delta messages kept in *)
(* memory before the oldest buffered items are dropped".                   *)
DocumentedBufferBound == Len(batch) <= MaxBufferedItems

(* apps/edge-collector/README.md:32 "Other ingest failures still use       *)
(* COLLECTOR_RECONNECT_DELAY_MS for the retry delay": while the collector  *)
(* runs, no post starts before the delay after a failed one has passed.    *)
DocumentedRetryDelay ==
  [][~IsFlushing /\ flushMode' = "normal" => retryWait = 0]_vars

(* The buffer implements the outbox: the items in flight are still its     *)
(* first ones, a failed post changes nothing, and a trim takes the oldest  *)
(* items that are not in flight.                                           *)
Promise == INSTANCE Outbox
  WITH Capacity <- MaxBufferedItems, queue <- Held, stopped <- Ended
ImplementsOutbox == Promise!OutboxSpec

-----------------------------------------------------------------------------
(* Liveness. *)

(* Node fires a timer that is due, a post ends within requestTimeoutMs, the *)
(* clock moves, and the callbacks shutdown awaits run.                      *)
Fairness ==
  /\ WF_vars(Tick)
  /\ WF_vars(FlushTimerFires)
  /\ WF_vars(PostSucceeds \/ PostFails \/ \E r \in RetryAfters : PostRateLimited(r))
  /\ WF_vars(ServersClosed)
  /\ WF_vars(DrainContinues)

FairSpec == Spec /\ Fairness

(* A signal always ends the process, even when every post of the drain      *)
(* fails.                                                                   *)
ShutdownEnds == phase # "running" ~> Ended

(* Against an endpoint that does not refuse for ever, an accepted item is   *)
(* eventually answered for, or dropped because the buffer was full, or the  *)
(* process has ended: no throttle, backoff or spent timer ends the retries  *)
(* (if one did, PostSucceeds would never be enabled again and its fairness  *)
(* would ask nothing of the endpoint).                                      *)
EveryItemSettles ==
  SF_vars(PostSucceeds) => \A i \in 1..MaxItems :
    i \in Items(Held) ~> i \in acked \cup dropped \/ Ended
=============================================================================
