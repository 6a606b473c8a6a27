---------------------------- MODULE OutboxProofs ----------------------------
(***************************************************************************)
(* What Outbox promises, proved of the promise itself: whoever implements   *)
(* it answers for items in order, and never sees a given-up item again.     *)
(***************************************************************************)
EXTENDS Outbox, SequenceTheorems, TLAPS

OutboxTypes == accepted \in Nat /\ queue \in Seq(Nat)

OutboxInv == OutboxTypes /\ Orderly

-----------------------------------------------------------------------------
(* Sequences. *)

(* The first n items, and those behind them. *)
LEMMA FrontOf ==
  ASSUME NEW q \in Seq(Nat), NEW n \in Nat, n <= Len(q)
  PROVE  /\ SubSeq(q, 1, n) \in Seq(Nat) /\ Len(SubSeq(q, 1, n)) = n
         /\ \A i \in 1..n : SubSeq(q, 1, n)[i] = q[i]
<1>1. Len(q) \in Nat /\ \A i \in 1..n : q[i] \in Nat
  OBVIOUS
<1>2. /\ SubSeq(q, 1, n) \in Seq(Nat)
      /\ Len(SubSeq(q, 1, n)) = IF 1 <= n THEN n - 1 + 1 ELSE 0
      /\ \A i \in 1..(n - 1 + 1) : SubSeq(q, 1, n)[i] = q[1 + i - 1]
  BY <1>1, SubSeqProperties
<1> DEFINE r == SubSeq(q, 1, n)
<1> HIDE DEF r
<1>3. Len(r) = n
  BY <1>2 DEF r
<1>4. \A i \in 1..n : r[i] = q[i]
  <2>1. \A i \in 1..n : i \in 1..(n - 1 + 1) /\ 1 + i - 1 = i
    OBVIOUS
  <2>2. QED
    BY <1>2, <2>1 DEF r
<1>5. QED
  BY <1>2, <1>3, <1>4 DEF r

LEMMA BackOf ==
  ASSUME NEW q \in Seq(Nat), NEW n \in Nat, n <= Len(q)
  PROVE  /\ SubSeq(q, n + 1, Len(q)) \in Seq(Nat)
         /\ Len(SubSeq(q, n + 1, Len(q))) = Len(q) - n
         /\ \A i \in 1..(Len(q) - n) : SubSeq(q, n + 1, Len(q))[i] = q[i + n]
<1> DEFINE r == SubSeq(q, n + 1, Len(q))
<1>1. Len(q) \in Nat /\ \A i \in (n + 1)..Len(q) : q[i] \in Nat
  OBVIOUS
<1>2. /\ r \in Seq(Nat)
      /\ Len(r) = IF n + 1 <= Len(q) THEN Len(q) - (n + 1) + 1 ELSE 0
      /\ \A i \in 1..(Len(q) - (n + 1) + 1) : r[i] = q[n + 1 + i - 1]
  BY <1>1, SubSeqProperties
<1> HIDE DEF r
<1>3. Len(r) = Len(q) - n
  BY <1>1, <1>2
<1>4. \A i \in 1..(Len(q) - n) : r[i] = q[i + n]
  <2>1. \A i \in 1..(Len(q) - n) : i \in 1..(Len(q) - (n + 1) + 1) /\ n + 1 + i - 1 = i + n
    BY <1>1
  <2>2. QED
    BY <1>2, <2>1
<1>5. QED
  BY <1>2, <1>3, <1>4 DEF r

(* Where the items of a queue from which some were taken out were before.   *)
LEMMA Thinned ==
  ASSUME NEW q \in Seq(Nat), NEW kept \in Nat, NEW gone \in Nat, kept + gone <= Len(q)
  PROVE  LET r == Without(q, kept + 1, kept + gone)
         IN  /\ r \in Seq(Nat) /\ Len(r) = Len(q) - gone
             /\ \A i \in 1..Len(r) : r[i] = q[IF i <= kept THEN i ELSE i + gone]
<1> DEFINE front == SubSeq(q, 1, kept)
           back == SubSeq(q, kept + gone + 1, Len(q))
           r == front \o back
<1>1. Len(q) \in Nat /\ kept <= Len(q) /\ kept + gone \in Nat
  OBVIOUS
<1>2. front \in Seq(Nat) /\ Len(front) = kept /\ \A i \in 1..kept : front[i] = q[i]
  BY <1>1, FrontOf
<1>3. /\ back \in Seq(Nat) /\ Len(back) = Len(q) - (kept + gone)
      /\ \A i \in 1..(Len(q) - (kept + gone)) : back[i] = q[i + (kept + gone)]
  BY <1>1, BackOf
<1> HIDE DEF front, back
<1>4. /\ r \in Seq(Nat) /\ Len(r) = Len(front) + Len(back)
      /\ \A i \in 1..Len(front) + Len(back) :
           r[i] = IF i <= Len(front) THEN front[i] ELSE back[i - Len(front)]
  <2>1. front \in Seq(Nat) /\ back \in Seq(Nat)
    BY <1>2, <1>3
  <2>2. QED
    BY <2>1, ConcatProperties, Zenon
<1> HIDE DEF r
<1>5. Len(r) = Len(q) - gone
  BY <1>1, <1>2, <1>3, <1>4
<1>6. ASSUME NEW i \in 1..Len(r) PROVE r[i] = q[IF i <= kept THEN i ELSE i + gone]
  <2>1. CASE i <= kept
    <3>1. i \in 1..kept /\ i \in 1..Len(front) + Len(back)
      BY <1>1, <1>2, <1>3, <1>4, <1>6, <2>1
    <3>2. r[i] = front[i] /\ front[i] = q[i]
      BY <1>2, <1>4, <2>1, <3>1
    <3>3. QED
      BY <2>1, <3>2
  <2>2. CASE ~(i <= kept)
    <3>1. i - kept \in 1..(Len(q) - (kept + gone)) /\ i - kept + (kept + gone) = i + gone
      BY <1>1, <1>5, <1>6, <2>2
    <3>2. r[i] = back[i - kept]
      BY <1>1, <1>2, <1>3, <1>4, <1>5, <1>6, <2>2
    <3>3. QED
      BY <1>3, <2>2, <3>1, <3>2
  <2>3. QED
    BY <2>1, <2>2
<1>7. Without(q, kept + 1, kept + gone) = r
  <2>1. Without(q, kept + 1, kept + gone)
          = SubSeq(q, 1, (kept + 1) - 1) \o SubSeq(q, kept + gone + 1, Len(q))
    BY DEF Without
  <2>2. (kept + 1) - 1 = kept
    OBVIOUS
  <2>3. SubSeq(q, 1, (kept + 1) - 1) = front
    BY <2>2, Zenon DEF front
  <2>4. QED
    BY <2>1, <2>3, Zenon DEF r, back
<1>8. QED
  BY <1>4, <1>5, <1>6, <1>7

(* A longer queue: the old items, then the new ones. *)
LEMMA Longer ==
  ASSUME NEW q \in Seq(Nat), NEW k \in Nat, NEW n \in Nat
  PROVE  LET r == q \o [i \in 1..k |-> n + i]
         IN  /\ r \in Seq(Nat) /\ Len(r) = Len(q) + k
             /\ \A i \in 1..Len(r) : r[i] = IF i <= Len(q) THEN q[i] ELSE n + (i - Len(q))
<1> DEFINE new == [i \in 1..k |-> n + i]
           r == q \o new
<1>1. new \in Seq(Nat) /\ Len(new) = k /\ Len(q) \in Nat
  OBVIOUS
<1>2. \A i \in 1..k : new[i] = n + i
  OBVIOUS
<1> HIDE DEF new
<1>3. /\ r \in Seq(Nat) /\ Len(r) = Len(q) + Len(new)
      /\ \A i \in 1..Len(q) + Len(new) :
           r[i] = IF i <= Len(q) THEN q[i] ELSE new[i - Len(q)]
  BY <1>1, ConcatProperties
<1> HIDE DEF r
<1>4. ASSUME NEW i \in 1..Len(r) PROVE r[i] = IF i <= Len(q) THEN q[i] ELSE n + (i - Len(q))
  <2>1. CASE i <= Len(q)
    BY <1>1, <1>3, <1>4, <2>1
  <2>2. CASE ~(i <= Len(q))
    <3>1. i - Len(q) \in 1..k
      BY <1>1, <1>3, <1>4, <2>2
    <3>2. QED
      BY <1>1, <1>2, <1>3, <1>4, <2>2, <3>1
  <2>3. QED
    BY <2>1, <2>2
<1>5. QED
  BY <1>1, <1>3, <1>4 DEF r, new

-----------------------------------------------------------------------------
(* Order, and what a queue is made of. *)

Increasing(q) == \A i, j \in 1..Len(q) : i < j => q[i] < q[j]
Part(r, q) == \A i \in 1..Len(r) : \E j \in 1..Len(q) : r[i] = q[j]

LEMMA ThinnedOrder ==
  ASSUME NEW q \in Seq(Nat), NEW kept \in Nat, NEW gone \in Nat, kept + gone <= Len(q),
         Increasing(q)
  PROVE  LET r == Without(q, kept + 1, kept + gone)
         IN  r \in Seq(Nat) /\ Increasing(r) /\ Part(r, q)
<1> DEFINE r == Without(q, kept + 1, kept + gone)
           at(i) == IF i <= kept THEN i ELSE i + gone
<1>1. /\ r \in Seq(Nat) /\ Len(r) = Len(q) - gone /\ Len(q) \in Nat
      /\ \A i \in 1..Len(r) : r[i] = q[at(i)]
  <2>1. /\ r \in Seq(Nat) /\ Len(r) = Len(q) - gone
        /\ \A i \in 1..Len(r) : r[i] = q[at(i)]
    BY Thinned, Zenon
  <2>2. Len(q) \in Nat
    OBVIOUS
  <2>3. QED
    BY <2>1, <2>2, Zenon
<1> HIDE DEF r
<1>2. \A i \in 1..Len(r) : at(i) \in 1..Len(q)
  BY <1>1
<1>3. \A i, j \in 1..Len(r) : i < j => at(i) < at(j)
  BY <1>1
<1> HIDE DEF at
<1>4. Increasing(r)
  BY <1>1, <1>2, <1>3 DEF Increasing
<1>5. Part(r, q)
  BY <1>1, <1>2 DEF Part
<1>6. QED
  BY <1>1, <1>4, <1>5 DEF r

LEMMA BackOrder ==
  ASSUME NEW q \in Seq(Nat), NEW n \in Nat, n <= Len(q), Increasing(q)
  PROVE  LET r == SubSeq(q, n + 1, Len(q))
         IN  /\ r \in Seq(Nat) /\ Increasing(r) /\ Part(r, q)
             /\ \A i \in 1..n, j \in 1..Len(r) : q[i] < r[j]
<1> DEFINE r == SubSeq(q, n + 1, Len(q))
<1>1. /\ r \in Seq(Nat) /\ Len(r) = Len(q) - n /\ Len(q) \in Nat
      /\ \A i \in 1..(Len(q) - n) : r[i] = q[i + n]
  BY BackOf
<1> HIDE DEF r
<1>2. \A i \in 1..Len(r) : r[i] = q[i + n] /\ i + n \in 1..Len(q)
  BY <1>1
<1>3. Increasing(r)
  <2>1. \A i, j \in 1..Len(r) : i < j => i + n < j + n
    BY <1>1
  <2>2. QED
    BY <1>2, <2>1 DEF Increasing
<1>4. Part(r, q)
  BY <1>2 DEF Part
<1>5. \A i \in 1..n, j \in 1..Len(r) : q[i] < r[j]
  <2>1. \A i \in 1..n, j \in 1..Len(r) : i < j + n /\ i \in 1..Len(q)
    BY <1>1
  <2>2. QED
    BY <1>2, <2>1 DEF Increasing
<1>6. QED
  BY <1>1, <1>3, <1>4, <1>5 DEF r

-----------------------------------------------------------------------------
(* The steps. *)

(* A part of the queue, behind all that is answered for, holds nothing the  *)
(* queue did not hold.                                                      *)
StaysGone == \A item \in 1..accepted : ~Holds(item) => ~Holds(item)'

LEMMA AcceptHolds ==
  ASSUME Capacity \in Nat, OutboxInv, NEW k \in Nat, NEW busy \in Nat, busy <= Len(queue),
         Accept(k, busy)
  PROVE  OutboxInv' /\ StaysGone
<1> DEFINE longer == queue \o [i \in 1..k |-> accepted + i]
           over == Len(longer) - busy - Capacity
<1>1. /\ accepted \in Nat /\ queue \in Seq(Nat) /\ Len(queue) \in Nat
      /\ \A i \in 1..Len(queue) : queue[i] \in 1..accepted
      /\ \A i, j \in 1..Len(queue) : i < j => queue[i] < queue[j]
      /\ acked \subseteq 1..accepted
      /\ \A a \in acked, i \in 1..Len(queue) : a < queue[i]
  BY DEF OutboxInv, OutboxTypes, Orderly
<1>2. /\ accepted' = accepted + k /\ acked' = acked
      /\ queue' = IF over > 0 THEN Without(longer, busy + 1, busy + over) ELSE longer
  BY DEF Accept
<1>3. /\ longer \in Seq(Nat) /\ Len(longer) = Len(queue) + k
      /\ \A i \in 1..Len(longer) :
           longer[i] = IF i <= Len(queue) THEN queue[i] ELSE accepted + (i - Len(queue))
  BY <1>1, Longer
<1> HIDE DEF longer
<1>4. \A i \in 1..Len(longer) :
        \/ i \in 1..Len(queue) /\ longer[i] = queue[i]
        \/ i > Len(queue) /\ longer[i] = accepted + (i - Len(queue))
                          /\ longer[i] \in (accepted + 1)..(accepted + k)
  BY <1>1, <1>3
<1>5. Increasing(longer)
  <2>1. SUFFICES ASSUME NEW i \in 1..Len(longer), NEW j \in 1..Len(longer), i < j
                 PROVE  longer[i] < longer[j]
    BY DEF Increasing
  <2>2. CASE j \in 1..Len(queue)
    <3>1. i \in 1..Len(queue) /\ longer[i] = queue[i] /\ longer[j] = queue[j]
      BY <1>1, <1>4, <2>1, <2>2
    <3>2. QED
      BY <1>1, <2>1, <2>2, <3>1
  <2>3. CASE j > Len(queue)
    <3>1. longer[j] = accepted + (j - Len(queue))
      BY <1>1, <1>4, <2>1, <2>3
    <3>2. CASE i \in 1..Len(queue)
      <4>1. longer[i] = queue[i] /\ queue[i] \in 1..accepted
        BY <1>1, <1>4, <2>1, <3>2
      <4>2. QED
        BY <1>1, <2>3, <3>1, <4>1
    <3>3. CASE i > Len(queue)
      BY <1>1, <1>4, <2>1, <3>1, <3>3
    <3>4. QED
      BY <1>1, <2>1, <3>2, <3>3
  <2>4. QED
    BY <1>1, <2>1, <2>2, <2>3
<1>6. queue' \in Seq(Nat) /\ Increasing(queue') /\ Part(queue', longer)
  <2>1. CASE over > 0
    <3>1. over \in Nat /\ busy + over <= Len(longer)
      BY <1>1, <1>3, <2>1
    <3> HIDE DEF over
    <3>2. QED
      BY <1>2, <1>3, <1>5, <2>1, <3>1, ThinnedOrder
  <2>2. CASE ~(over > 0)
    BY <1>2, <1>3, <1>5, <2>2 DEF Part
  <2>3. QED
    BY <2>1, <2>2
<1>7. ASSUME NEW i \in 1..Len(queue')
      PROVE  \/ \E j \in 1..Len(queue) : queue'[i] = queue[j]
             \/ queue'[i] \in (accepted + 1)..(accepted + k)
  <2>1. PICK j \in 1..Len(longer) : queue'[i] = longer[j]
    BY <1>6 DEF Part
  <2>2. QED
    BY <1>4, <2>1
<1>8. \A i \in 1..Len(queue') :
        queue'[i] \in 1..accepted' /\ \A a \in acked' : a < queue'[i]
  <2>1. TAKE i \in 1..Len(queue')
  <2>2. CASE \E j \in 1..Len(queue) : queue'[i] = queue[j]
    <3>1. PICK j \in 1..Len(queue) : queue'[i] = queue[j]
      BY <2>2
    <3>2. queue[j] \in 1..accepted /\ \A a \in acked : a < queue[j]
      BY <1>1
    <3>3. queue[j] \in 1..accepted'
      BY <1>1, <1>2, <3>2
    <3>4. QED
      BY <1>2, <3>1, <3>2, <3>3
  <2>3. CASE queue'[i] \in (accepted + 1)..(accepted + k)
    BY <1>1, <1>2, <2>3
  <2>4. QED
    BY <1>7, <2>1, <2>2, <2>3
<1>9. OutboxInv'
  <2>1. accepted' \in Nat /\ acked' \subseteq 1..accepted'
    BY <1>1, <1>2
  <2>2. QED
    BY <1>6, <1>8, <2>1 DEF OutboxInv, OutboxTypes, Orderly, Increasing
<1>10. StaysGone
  <2>1. SUFFICES ASSUME NEW item \in 1..accepted, ~Holds(item),
                        NEW i \in 1..Len(queue'), queue'[i] = item
                 PROVE  FALSE
    BY DEF StaysGone, Holds
  <2>2. item \notin (accepted + 1)..(accepted + k)
    BY <1>1, <2>1
  <2>3. QED
    BY <1>7, <2>1, <2>2 DEF Holds
<1>11. QED
  BY <1>9, <1>10

LEMMA AckHolds ==
  ASSUME OutboxInv, NEW n \in Nat, n <= Len(queue), Ack(n)
  PROVE  OutboxInv' /\ StaysGone
<1>1. /\ accepted \in Nat /\ queue \in Seq(Nat) /\ Len(queue) \in Nat
      /\ \A i \in 1..Len(queue) : queue[i] \in 1..accepted
      /\ Increasing(queue)
      /\ acked \subseteq 1..accepted
      /\ \A a \in acked, i \in 1..Len(queue) : a < queue[i]
  BY DEF OutboxInv, OutboxTypes, Orderly, Increasing
<1>2. /\ acked' = acked \cup {queue[i] : i \in 1..n} /\ accepted' = accepted
      /\ queue' = SubSeq(queue, n + 1, Len(queue))
  BY DEF Ack
<1>3. /\ queue' \in Seq(Nat) /\ Increasing(queue') /\ Part(queue', queue)
      /\ \A i \in 1..n, j \in 1..Len(queue') : queue[i] < queue'[j]
  BY <1>1, <1>2, BackOrder
<1>4. \A i \in 1..n : queue[i] \in 1..accepted
  BY <1>1
<1>5. \A i \in 1..Len(queue') :
        queue'[i] \in 1..accepted' /\ \A a \in acked' : a < queue'[i]
  <2>1. TAKE i \in 1..Len(queue')
  <2>2. PICK j \in 1..Len(queue) : queue'[i] = queue[j]
    BY <1>3, <2>1 DEF Part
  <2>3. QED
    BY <1>1, <1>2, <1>3, <2>1, <2>2
<1>6. OutboxInv'
  BY <1>1, <1>2, <1>3, <1>4, <1>5 DEF OutboxInv, OutboxTypes, Orderly, Increasing
<1>7. StaysGone
  BY <1>3 DEF StaysGone, Holds, Part
<1>8. QED
  BY <1>6, <1>7

LEMMA OutboxInitHolds == OutboxInit => OutboxInv
BY DEF OutboxInit, OutboxInv, OutboxTypes, Orderly

LEMMA OutboxStep ==
  ASSUME Capacity \in Nat, MaxPostItems \in Nat, OutboxInv, [OutboxNext]_outboxVars
  PROVE  OutboxInv' /\ StaysGone
<1>1. ASSUME NEW k \in 0..2, NEW busy \in 0..MaxPostItems, busy <= Len(queue), Accept(k, busy)
      PROVE  OutboxInv' /\ StaysGone
  <2>1. k \in Nat /\ busy \in Nat
    OBVIOUS
  <2>2. QED
    BY <1>1, <2>1, AcceptHolds
<1>2. ASSUME NEW n \in 1..MaxPostItems, n <= Len(queue), Ack(n)
      PROVE  OutboxInv' /\ StaysGone
  <2>1. n \in Nat
    OBVIOUS
  <2>2. QED
    BY <1>2, <2>1, AckHolds
<1>3. CASE Stop \/ UNCHANGED outboxVars
  BY <1>3 DEF Stop, outboxVars, OutboxInv, OutboxTypes, Orderly, StaysGone, Holds
<1>4. QED
  BY <1>1, <1>2, <1>3 DEF OutboxNext

-----------------------------------------------------------------------------
(* The theorems. *)

(* Whoever keeps the promise holds its items in the order it accepted them  *)
(* and has no item answered for that is younger than one it still holds.    *)
THEOREM KeepsOrder ==
  ASSUME Capacity \in Nat, MaxPostItems \in Nat
  PROVE  OutboxSpec => []Orderly
<1>1. OutboxInv /\ [OutboxNext]_outboxVars => OutboxInv'
  BY OutboxStep
<1>2. OutboxInv => Orderly
  BY DEF OutboxInv
<1>3. QED
  BY OutboxInitHolds, <1>1, <1>2, PTL DEF OutboxSpec

(* And an item that left its queue, answered for or given up, never comes   *)
(* back to it.                                                              *)
THEOREM NeverBack ==
  ASSUME Capacity \in Nat, MaxPostItems \in Nat
  PROVE  OutboxSpec => GoneForGood
<1>1. OutboxInv /\ [OutboxNext]_outboxVars =>
        OutboxInv' /\ [\A item \in 1..accepted : ~Holds(item) => ~Holds(item)']_outboxVars
  BY OutboxStep DEF StaysGone
<1>2. QED
  BY OutboxInitHolds, <1>1, PTL DEF OutboxSpec, GoneForGood
=============================================================================
