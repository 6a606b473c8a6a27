------------------------------- MODULE Outbox -------------------------------
(***************************************************************************)
(* What the edge collector's delta buffer promises to the rest of MyBoat,  *)
(* without timers, throttles, retries or posts: items are accepted in      *)
(* order, leave the queue from the front when the ingest endpoint answers  *)
(* for them, and leave it in any other way only when the queue is full.    *)
(* CollectorBuffer implements this specification.                          *)
(***************************************************************************)
EXTENDS Integers, Sequences

CONSTANTS
  Capacity,       \* the number of waiting items above which items are given up
  MaxPostItems,   \* how many items one post can answer for
  MaxItems        \* bound of the model: how many items are ever accepted

VARIABLES
  accepted,       \* how many items were accepted; they are numbered 1..accepted
  queue,          \* the accepted items that are still held, oldest first
  acked,          \* the items the endpoint has answered for
  stopped         \* the process has exited

outboxVars == <<accepted, queue, acked, stopped>>

OutboxInit ==
  /\ accepted = 0
  /\ queue = <<>>
  /\ acked = {}
  /\ stopped = FALSE

(* The queue without the items at positions from..to. *)
Without(q, from, to) == SubSeq(q, 1, from - 1) \o SubSeq(q, to + 1, Len(q))

(* k items are accepted at the back.  When more than Capacity items wait   *)
(* behind the `busy` ones being posted, the oldest waiting items are given *)
(* up, exactly as many as are too many.                                    *)
Accept(k, busy) ==
  LET longer == queue \o [i \in 1..k |-> accepted + i]
      over   == Len(longer) - busy - Capacity
  IN  /\ ~stopped
      /\ accepted' = accepted + k
      /\ queue' = IF over > 0 THEN Without(longer, busy + 1, busy + over) ELSE longer
      /\ UNCHANGED <<acked, stopped>>

(* The endpoint answers for the n oldest items. *)
Ack(n) ==
  /\ ~stopped
  /\ acked' = acked \cup {queue[i] : i \in 1..n}
  /\ queue' = SubSeq(queue, n + 1, Len(queue))
  /\ UNCHANGED <<accepted, stopped>>

Stop ==
  /\ ~stopped
  /\ stopped' = TRUE
  /\ UNCHANGED <<accepted, queue, acked>>

OutboxNext ==
  \/ \E k \in 0..2, busy \in 0..MaxPostItems :
       /\ busy <= Len(queue)
       /\ accepted + k <= MaxItems
       /\ Accept(k, busy)
  \/ \E n \in 1..MaxPostItems : n <= Len(queue) /\ Ack(n)
  \/ Stop

OutboxSpec == OutboxInit /\ [][OutboxNext]_outboxVars

-----------------------------------------------------------------------------
(* What every component that keeps the promise inherits. *)

(* The held items are in the order in which they were accepted, and every   *)
(* one of them is younger than all the endpoint answered for: nothing is    *)
(* answered for twice, or before an older item that is still held.          *)
Orderly ==
  /\ \A i \in 1..Len(queue) : queue[i] \in 1..accepted
  /\ \A i, j \in 1..Len(queue) : i < j => queue[i] < queue[j]
  /\ acked \subseteq 1..accepted
  /\ \A a \in acked, i \in 1..Len(queue) : a < queue[i]

(* An item that left the queue, answered for or given up, never comes back. *)
Holds(item) == \E i \in 1..Len(queue) : queue[i] = item
GoneForGood == [][\A item \in 1..accepted : ~Holds(item) => ~Holds(item)']_outboxVars
=============================================================================
