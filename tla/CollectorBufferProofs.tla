------------------------ MODULE CollectorBufferProofs ------------------------
(***************************************************************************)
(* Proofs about CollectorBuffer: its type invariant and its safety         *)
(* invariants, for every configuration and every number of items.          *)
(***************************************************************************)
EXTENDS CollectorBuffer, SequenceTheorems, TLAPS

-----------------------------------------------------------------------------
(* Facts about sequences of items. *)

(* A prefix and the rest of a sequence: their types and lengths, and that  *)
(* together they are the sequence again, so that what flushBatch takes out *)
(* of the buffer a failed post puts back in place.                         *)
LEMMA Split ==
  ASSUME NEW S, NEW s \in Seq(S), NEW n \in 0..Len(s)
  PROVE  /\ SubSeq(s, 1, n) \in Seq(S)
         /\ Len(SubSeq(s, 1, n)) = n
         /\ SubSeq(s, n + 1, Len(s)) \in Seq(S)
         /\ Len(SubSeq(s, n + 1, Len(s))) = Len(s) - n
         /\ SubSeq(s, 1, n) \o SubSeq(s, n + 1, Len(s)) = s
<1>1. Len(s) \in Nat /\ n \in Nat /\ n <= Len(s)
  OBVIOUS
<1>2. \A i \in 1..n : s[i] \in S
  OBVIOUS
<1>3. \A i \in (n + 1)..Len(s) : s[i] \in S
  OBVIOUS
<1>4. SubSeq(s, 1, n) \in Seq(S) /\ Len(SubSeq(s, 1, n)) = n
  BY <1>1, <1>2
<1>5. SubSeq(s, n + 1, Len(s)) \in Seq(S) /\ Len(SubSeq(s, n + 1, Len(s))) = Len(s) - n
  BY <1>1, <1>3
<1>6. SubSeq(s, 1, n) \o SubSeq(s, n + 1, Len(s)) = SubSeq(s, 1, Len(s))
  <2>1. n \in (1 - 1)..Len(s) /\ 1 \in 1..(Len(s) + 1) /\ Len(s) \in n..Len(s)
    BY <1>1
  <2>2. QED
    BY <2>1, ConcatAdjacentSubSeq
<1>7. SubSeq(s, 1, Len(s)) = s
  BY SubSeqFull
<1>8. QED
  BY <1>4, <1>5, <1>6, <1>7

(* The elements of a concatenation are those of its two parts. *)
LEMMA ItemsConcat ==
  ASSUME NEW S, NEW s \in Seq(S), NEW t \in Seq(S)
  PROVE  Items(s \o t) = Items(s) \cup Items(t)
<1>1. Len(s \o t) = Len(s) + Len(t) /\ Len(s) \in Nat /\ Len(t) \in Nat
  OBVIOUS
<1>2. \A i \in 1..Len(s) : (s \o t)[i] = s[i]
  OBVIOUS
<1>3. \A i \in 1..Len(t) : (s \o t)[Len(s) + i] = t[i] /\ Len(s) + i \in 1..Len(s \o t)
  OBVIOUS
<1>4. \A i \in 1..Len(s \o t) : i \in 1..Len(s) \/ (i - Len(s) \in 1..Len(t) /\ i = Len(s) + (i - Len(s)))
  BY <1>1
<1>5. ASSUME NEW x \in Items(s \o t) PROVE x \in Items(s) \cup Items(t)
  <2>1. PICK i \in 1..Len(s \o t) : x = (s \o t)[i]
    BY DEF Items
  <2>2. CASE i \in 1..Len(s)
    BY <2>1, <2>2, <1>2 DEF Items
  <2>3. CASE i - Len(s) \in 1..Len(t) /\ i = Len(s) + (i - Len(s))
    BY <2>1, <2>3, <1>3 DEF Items
  <2>4. QED
    BY <2>2, <2>3, <1>4
<1>6. ASSUME NEW x \in Items(s) PROVE x \in Items(s \o t)
  <2>1. PICK i \in 1..Len(s) : x = s[i]
    BY DEF Items
  <2>2. i \in 1..Len(s \o t)
    BY <1>1
  <2>3. QED
    BY <2>1, <2>2, <1>2 DEF Items
<1>7. ASSUME NEW x \in Items(t) PROVE x \in Items(s \o t)
  <2>1. PICK i \in 1..Len(t) : x = t[i]
    BY DEF Items
  <2>2. QED
    BY <2>1, <1>3 DEF Items
<1>8. QED
  BY <1>5, <1>6, <1>7

LEMMA ItemsType ==
  ASSUME NEW S, NEW s \in Seq(S)
  PROVE  Items(s) \subseteq S
BY ElementOfSeq DEF Items

(* The halves of a sorted sequence have no element in common. *)
LEMMA SortedHalvesDisjoint ==
  ASSUME NEW s \in Seq(Int), NEW t \in Seq(Int), Sorted(s \o t)
  PROVE  /\ Items(s) \cap Items(t) = {}
         /\ Sorted(s) /\ Sorted(t)
         /\ \A i \in 1..Len(s), j \in 1..Len(t) : s[i] < t[j]
<1>1. Len(s \o t) = Len(s) + Len(t) /\ Len(s) \in Nat /\ Len(t) \in Nat
  OBVIOUS
<1>2. \A i \in 1..Len(s) : (s \o t)[i] = s[i]
  OBVIOUS
<1>3. \A i \in 1..Len(t) : (s \o t)[Len(s) + i] = t[i]
  OBVIOUS
<1>4. ASSUME NEW i \in 1..Len(s), NEW j \in 1..Len(t) PROVE s[i] < t[j]
  <2>1. i \in 1..Len(s \o t) /\ Len(s) + j \in 1..Len(s \o t) /\ i < Len(s) + j
    BY <1>1
  <2>2. (s \o t)[i] < (s \o t)[Len(s) + j]
    BY <2>1 DEF Sorted
  <2>3. QED
    BY <2>2, <1>2, <1>3
<1>5. Sorted(s)
  BY <1>1, <1>2, SMTT(20) DEF Sorted
<1>6. Sorted(t)
  <2>1. ASSUME NEW i \in 1..Len(t), NEW j \in 1..Len(t), i < j PROVE t[i] < t[j]
    <3>1. Len(s) + i \in 1..Len(s \o t) /\ Len(s) + j \in 1..Len(s \o t) /\ Len(s) + i < Len(s) + j
      BY <2>1, <1>1
    <3>2. QED
      BY <3>1, <1>3 DEF Sorted
  <2>2. QED
    BY <2>1 DEF Sorted
<1>7. Items(s) \cap Items(t) = {}
  <2>1. ASSUME NEW x \in Items(s), x \in Items(t) PROVE FALSE
    <3>1. PICK i \in 1..Len(s) : x = s[i]
      BY DEF Items
    <3>2. PICK j \in 1..Len(t) : x = t[j]
      BY <2>1 DEF Items
    <3>3. s[i] \in Int /\ s[i] < t[j] /\ s[i] = t[j]
      BY <3>1, <3>2, <1>4, ElementOfSeq
    <3>4. QED
      BY <3>3
  <2>2. QED
    BY <2>1
<1>8. QED
  BY <1>4, <1>5, <1>6, <1>7

-----------------------------------------------------------------------------
(* What the steps do to the queue of held items. *)

(* NothingLost and InOrder of a queue q, with the items A answered for and *)
(* D dropped out of the first a.                                           *)
Accounted(A, D, q, a) ==
  /\ A \cup D \cup Items(q) = 1..a
  /\ A \cap D = {}
  /\ (A \cup D) \cap Items(q) = {}

Ordered(A, q) ==
  /\ Sorted(q)
  /\ \A x \in A, i \in 1..Len(q) : x < q[i]

(* Items numbered on from a may be put at the back of the queue. *)
LEMMA NewItems ==
  ASSUME NEW a \in Nat, NEW k \in Nat, NEW m \in Nat, a + k <= m,
         NEW q \in Seq(1..m), NEW A, NEW D,
         Accounted(A, D, q, a), Ordered(A, q)
  PROVE  LET new == [i \in 1..k |-> a + i]
         IN  /\ new \in Seq(1..m)
             /\ Len(new) = k
             /\ Accounted(A, D, q \o new, a + k)
             /\ Ordered(A, q \o new)
<1> DEFINE new == [i \in 1..k |-> a + i]
<1>1. new \in Seq(1..m) /\ Len(new) = k /\ \A i \in 1..k : new[i] = a + i
  <2>1. \A i \in 1..k : a + i \in 1..m
    OBVIOUS
  <2>2. QED
    BY <2>1
<1>2. Items(new) = (a + 1)..(a + k)
  <2>1. ASSUME NEW x \in (a + 1)..(a + k) PROVE x \in Items(new)
    <3>1. x - a \in 1..k /\ x = a + (x - a)
      OBVIOUS
    <3>2. new[x - a] = x
      BY <3>1, <1>1
    <3>3. QED
      BY <3>1, <3>2, <1>1 DEF Items
  <2>2. ASSUME NEW x \in Items(new) PROVE x \in (a + 1)..(a + k)
    <3>1. PICK i \in 1..k : x = new[i]
      BY <1>1 DEF Items
    <3>2. QED
      BY <3>1, <1>1
  <2>3. QED
    BY <2>1, <2>2
<1> HIDE DEF new
<1>3. Items(q \o new) = Items(q) \cup ((a + 1)..(a + k))
  BY <1>1, <1>2, ItemsConcat
<1>4. 1..(a + k) = (1..a) \cup ((a + 1)..(a + k)) /\ (1..a) \cap ((a + 1)..(a + k)) = {}
  OBVIOUS
<1>5. Accounted(A, D, q \o new, a + k)
  BY <1>3, <1>4 DEF Accounted
<1>6. \A i \in 1..Len(q) : q[i] \in 1..a
  BY DEF Accounted, Items
<1>7. /\ Len(q \o new) = Len(q) + k
      /\ \A i \in 1..Len(q) : (q \o new)[i] = q[i]
      /\ \A i \in (Len(q) + 1)..(Len(q) + k) : (q \o new)[i] = a + (i - Len(q))
  <2>1. Len(q) \in Nat /\ \A i \in 1..k : (q \o new)[Len(q) + i] = new[i]
    BY <1>1
  <2>2. ASSUME NEW i \in (Len(q) + 1)..(Len(q) + k)
        PROVE  (q \o new)[i] = a + (i - Len(q))
    <3>1. i - Len(q) \in 1..k /\ Len(q) + (i - Len(q)) = i
      BY <2>1
    <3>2. QED
      BY <3>1, <2>1, <1>1
  <2>3. Len(q \o new) = Len(q) + k
    <3>1. Len(q \o new) = Len(q) + Len(new)
      BY <1>1, ConcatProperties
    <3>2. QED
      BY <3>1, <1>1
  <2>4. \A i \in 1..Len(q) : (q \o new)[i] = q[i]
    BY <1>1
  <2>5. QED
    BY <2>2, <2>3, <2>4
<1>8. Ordered(A, q \o new)
  <2>1. ASSUME NEW x \in A, NEW i \in 1..Len(q \o new) PROVE x < (q \o new)[i]
    <3>1. x \in 1..a
      BY DEF Accounted
    <3>2. CASE i \in 1..Len(q)
      BY <3>2, <1>7 DEF Ordered
    <3>3. CASE i \in (Len(q) + 1)..(Len(q) + k)
      BY <3>1, <3>3, <1>7
    <3>4. QED
      BY <3>2, <3>3, <1>7
  <2>2. ASSUME NEW i \in 1..Len(q \o new), NEW j \in 1..Len(q \o new), i < j
        PROVE  (q \o new)[i] < (q \o new)[j]
    <3>1. CASE j \in 1..Len(q)
      <4>1. i \in 1..Len(q)
        BY <2>2, <3>1
      <4>2. QED
        BY <2>2, <3>1, <4>1, <1>7 DEF Ordered, Sorted
    <3>2. CASE i \in 1..Len(q) /\ j \in (Len(q) + 1)..(Len(q) + k)
      BY <3>2, <1>6, <1>7
    <3>3. CASE i \in (Len(q) + 1)..(Len(q) + k)
      BY <2>2, <3>3, <1>7
    <3>4. QED
      BY <3>1, <3>2, <3>3, <1>7, <2>2
  <2>3. QED
    BY <2>1, <2>2 DEF Ordered, Sorted
<1>9. QED
  BY <1>1, <1>5, <1>8 DEF new

(* Items may be taken out of the middle of the queue when they are counted *)
(* as dropped.                                                             *)
LEMMA DropMiddle ==
  ASSUME NEW m \in Nat, NEW a \in Nat, NEW p \in Seq(1..m), NEW f \in Seq(1..m),
         NEW r \in Seq(1..m), NEW A, NEW D,
         Accounted(A, D, p \o (f \o r), a), Ordered(A, p \o (f \o r))
  PROVE  Accounted(A, D \cup Items(f), p \o r, a) /\ Ordered(A, p \o r)
<1>0. /\ p \in Seq(Int) /\ f \in Seq(Int) /\ r \in Seq(Int)
      /\ f \o r \in Seq(Int) /\ f \o r \in Seq(1..m)
  BY SeqMonotonic
<1>1. Items(p \o (f \o r)) = Items(p) \cup Items(f) \cup Items(r)
  <2>1. Items(p \o (f \o r)) = Items(p) \cup Items(f \o r)
    <3>1. f \o r \in Seq(1..m)
      BY <1>0
    <3>2. \A t \in Seq(1..m) : Items(p \o t) = Items(p) \cup Items(t)
      BY ItemsConcat
    <3>3. QED
      BY <3>1, <3>2
  <2>2. Items(f \o r) = Items(f) \cup Items(r)
    BY ItemsConcat
  <2>3. QED
    BY <2>1, <2>2
<1>2. Items(p \o r) = Items(p) \cup Items(r)
  BY ItemsConcat
<1>3. /\ Items(p) \cap Items(f \o r) = {} /\ Sorted(p) /\ Sorted(f \o r)
      /\ \A i \in 1..Len(p), j \in 1..Len(f \o r) : p[i] < (f \o r)[j]
  BY <1>0, SortedHalvesDisjoint DEF Ordered
<1>4. Items(f) \cap Items(r) = {} /\ Sorted(r)
  BY <1>0, <1>3, SortedHalvesDisjoint
<1>5. Items(f \o r) = Items(f) \cup Items(r)
  BY ItemsConcat
<1>6. Accounted(A, D \cup Items(f), p \o r, a)
  BY <1>1, <1>2, <1>3, <1>4, <1>5 DEF Accounted
<1>7. /\ Len(p \o (f \o r)) = Len(p) + Len(f) + Len(r) /\ Len(p \o r) = Len(p) + Len(r)
      /\ Len(p) \in Nat /\ Len(f) \in Nat /\ Len(r) \in Nat
  BY <1>0
<1>8. ASSUME NEW i \in 1..Len(p)
      PROVE  (p \o r)[i] = (p \o (f \o r))[i] /\ i \in 1..Len(p \o (f \o r))
  BY <1>0, <1>7
<1>9. ASSUME NEW i \in 1..Len(r)
      PROVE  /\ (p \o r)[Len(p) + i] = (p \o (f \o r))[Len(p) + Len(f) + i]
             /\ Len(p) + Len(f) + i \in 1..Len(p \o (f \o r))
  <2>1. (p \o r)[Len(p) + i] = r[i]
    BY <1>7
  <2>2. (f \o r)[Len(f) + i] = r[i] /\ Len(f) + i \in 1..Len(f \o r)
    BY <1>7
  <2>3. (p \o (f \o r))[Len(p) + (Len(f) + i)] = (f \o r)[Len(f) + i]
    BY <2>2, <1>0, <1>7
  <2>4. QED
    BY <2>1, <2>2, <2>3, <1>7, SMTT(20)
<1> DEFINE at(i) == IF i <= Len(p) THEN i ELSE i + Len(f)
<1>10. ASSUME NEW i \in 1..Len(p \o r)
       PROVE  at(i) \in 1..Len(p \o (f \o r)) /\ (p \o r)[i] = (p \o (f \o r))[at(i)]
  <2>1. CASE i <= Len(p)
    BY <2>1, <1>7, <1>8
  <2>2. CASE ~(i <= Len(p))
    <3>1. i - Len(p) \in 1..Len(r) /\ Len(p) + (i - Len(p)) = i
          /\ Len(p) + Len(f) + (i - Len(p)) = i + Len(f)
      BY <2>2, <1>7
    <3>2. QED
      BY <3>1, <2>2, <1>9
  <2>3. QED
    BY <2>1, <2>2
<1>11. \A i, j \in 1..Len(p \o r) : i < j => at(i) < at(j)
  BY <1>7
<1> HIDE DEF at
<1>12. Ordered(A, p \o r)
  BY <1>10, <1>11 DEF Ordered, Sorted
<1>13. QED
  BY <1>6, <1>12

(* The front of the queue may be answered for. *)
LEMMA AckFront ==
  ASSUME NEW m \in Nat, NEW a \in Nat, NEW p \in Seq(1..m), NEW b \in Seq(1..m),
         NEW A, NEW D, Accounted(A, D, p \o b, a), Ordered(A, p \o b)
  PROVE  Accounted(A \cup Items(p), D, b, a) /\ Ordered(A \cup Items(p), b)
<1>0. p \in Seq(Int) /\ b \in Seq(Int)
  BY SeqMonotonic
<1>1. Items(p \o b) = Items(p) \cup Items(b)
  BY ItemsConcat
<1>2. /\ Items(p) \cap Items(b) = {} /\ Sorted(b)
      /\ \A i \in 1..Len(p), j \in 1..Len(b) : p[i] < b[j]
  BY <1>0, SortedHalvesDisjoint DEF Ordered
<1>3. Accounted(A \cup Items(p), D, b, a)
  BY <1>1, <1>2 DEF Accounted
<1>4. ASSUME NEW x \in A, NEW i \in 1..Len(b) PROVE x < b[i]
  <2>1. (p \o b)[Len(p) + i] = b[i] /\ Len(p) + i \in 1..Len(p \o b)
    BY <1>0, SMTT(20)
  <2>2. QED
    BY <2>1 DEF Ordered
<1>5. Ordered(A \cup Items(p), b)
  BY <1>2, <1>4 DEF Ordered, Items
<1>6. QED
  BY <1>3, <1>5

-----------------------------------------------------------------------------
(* The inductive invariant. *)

(* A post is in flight exactly when flushBatch holds items, at most one     *)
(* post's worth.                                                            *)
FlightInv ==
  /\ flushMode = "idle" <=> pending = <<>>
  /\ Len(pending) <= MaxPostItems

(* Where shutdown's loop stands: nothing posts for it before it starts, and *)
(* between its turns the buffer is shorter than the turn found it unless    *)
(* the post failed.                                                         *)
ShutdownInv ==
  /\ phase # "running" => flushTimer = Off
  /\ phase \in {"running", "closing"} => drainFrom = 0 /\ flushMode # "drain"
  /\ phase = "draining" =>
       /\ drainFrom # 0 /\ flushMode # "normal"
       /\ IF IsFlushing THEN Len(Held) = drainFrom
          ELSE lastPost = "failed" \/ Len(batch) < drainFrom
  /\ phase = "exited" /\ Held # <<>> => flushMode = "normal" \/ lastPost = "failed"

QueueInv == Accounted(acked, dropped, Held, accepted) /\ Ordered(acked, Held)

IInv ==
  /\ TypeOK
  /\ FlightInv
  /\ QueueInv
  /\ MemoryBound
  /\ NeverStalls
  /\ ShutdownInv

(* The timer operators return a timer. *)
LEMMA Timers ==
  ASSUME TypeOK, NEW timer \in Nat \cup {Off}, NEW delay \in Nat, NEW b \in Seq(1..MaxItems)
  PROVE  /\ ScheduleFlush(timer, delay) \in Nat \cup {Off}
         /\ Rearm(b, timer) \in Nat \cup {Off}
         /\ phase = "running" => ScheduleFlush(timer, delay) # Off
         /\ phase = "running" /\ b # <<>> => Rearm(b, timer) # Off
BY ConfigAssumption DEF ScheduleFlush, Rearm, Off

(* What one post takes and leaves. *)
LEMMA PostParts ==
  ASSUME NEW b \in Seq(1..MaxItems)
  PROVE  /\ Taken(b) \in Seq(1..MaxItems) /\ Left(b) \in Seq(1..MaxItems)
         /\ Taken(b) \o Left(b) = b
         /\ Len(Taken(b)) + Len(Left(b)) = Len(b)
         /\ Len(Taken(b)) <= MaxPostItems
         /\ Len(b) <= MaxBufferedItems + MaxPostItems => Len(Left(b)) <= MaxBufferedItems
         /\ b # <<>> => Taken(b) # <<>>
<1>1. PostSize(b) \in 0..Len(b) /\ PostSize(b) <= MaxPostItems
      /\ (PostSize(b) = MaxPostItems \/ PostSize(b) = Len(b))
  BY ConfigAssumption DEF PostSize, MinOf
<1>2. b # <<>> => Len(b) > 0
  OBVIOUS
<1>3. b # <<>> => PostSize(b) > 0
  BY <1>2, ConfigAssumption DEF PostSize, MinOf
<1>4. /\ Taken(b) \in Seq(1..MaxItems) /\ Len(Taken(b)) = PostSize(b)
      /\ Left(b) \in Seq(1..MaxItems) /\ Len(Left(b)) = Len(b) - PostSize(b)
      /\ Taken(b) \o Left(b) = b
  BY <1>1, Split DEF Taken, Left
<1>5. b # <<>> => Taken(b) # <<>>
  BY <1>3, <1>4
<1>6. Len(Taken(b)) + Len(Left(b)) = Len(b) /\ Len(Taken(b)) <= MaxPostItems
  BY <1>1, <1>4
<1>7. Len(b) <= MaxBufferedItems + MaxPostItems => Len(Left(b)) <= MaxBufferedItems
  <2>1. Len(b) \in Nat /\ MaxBufferedItems \in Nat /\ MaxPostItems \in Nat
    BY ConfigAssumption
  <2>2. Len(Left(b)) = Len(b) - MaxPostItems \/ Len(Left(b)) = 0
    BY <1>1, <1>4, <2>1
  <2>3. QED
    BY <2>1, <2>2
<1>8. QED
  BY <1>4, <1>5, <1>6, <1>7

(* flushBatch moves items from the buffer into flight and loses none.      *)
LEMMA StartPostHolds ==
  ASSUME TypeOK, NEW b \in Seq(1..MaxItems), b # <<>>, NEW mode \in {"normal", "drain"},
         Len(b) <= MaxBufferedItems + MaxPostItems, StartPost(b, mode)
  PROVE  /\ batch' \in Seq(1..MaxItems) /\ pending' \in Seq(1..MaxItems)
         /\ flushMode' = mode /\ flushTimer' \in Nat \cup {Off} /\ spacing' \in Nat
         /\ FlightInv' /\ Held' = b
         /\ Len(batch') <= MaxBufferedItems
<1>1. /\ flushMode' = mode /\ pending' = Taken(b) /\ batch' = Left(b)
      /\ flushTimer' = Off /\ spacing' = MinPostInterval
  BY DEF StartPost
<1>2. Held' = b /\ pending' # <<>> /\ Len(pending') <= MaxPostItems
      /\ Len(batch') <= MaxBufferedItems
      /\ batch' \in Seq(1..MaxItems) /\ pending' \in Seq(1..MaxItems)
  BY <1>1, PostParts DEF Held
<1>3. FlightInv'
  BY <1>1, <1>2 DEF FlightInv
<1>4. QED
  BY <1>1, <1>2, <1>3, ConfigAssumption

LEMMA FlushBatchHolds ==
  ASSUME TypeOK, FlightInv,
         NEW b \in Seq(1..MaxItems), NEW timer \in Nat \cup {Off},
         Len(b) <= MaxBufferedItems + MaxPostItems, phase = "running",
         IsFlushing => Len(b) <= MaxBufferedItems,
         flushMode # "drain",
         FlushBatch(b, timer)
  PROVE  /\ batch' \in Seq(1..MaxItems) /\ pending' \in Seq(1..MaxItems)
         /\ flushMode' \in {"idle", "normal"}
         /\ flushTimer' \in Nat \cup {Off} /\ spacing' \in Nat
         /\ FlightInv' /\ Held' = pending \o b
         /\ IsFlushing' => Len(batch') <= MaxBufferedItems
         /\ batch' # <<>> => IsFlushing' \/ flushTimer' # Off
<1>1. ~IsFlushing => pending = <<>>
  BY DEF FlightInv, IsFlushing
<1>2. pending = <<>> => pending \o b = b
  BY ConcatEmptySeq
<1>3. pending \in Seq(1..MaxItems) /\ flushMode \in {"idle", "normal"} /\ spacing \in Nat
      /\ MsUntilPostAllowed \in Nat
  BY DEF TypeOK, MsUntilPostAllowed, MaxOf
<1>4. CASE (IsFlushing \/ b = <<>>) /\ batch' = b /\ flushTimer' = timer
           /\ UNCHANGED <<pending, flushMode, spacing>>
  BY <1>3, <1>4 DEF FlightInv, Held, IsFlushing
<1>5. CASE ~IsFlushing /\ b # <<>> /\ batch' = b
           /\ flushTimer' = ScheduleFlush(timer, MsUntilPostAllowed)
           /\ UNCHANGED <<pending, flushMode, spacing>>
  <2>1. flushTimer' \in Nat \cup {Off} /\ flushTimer' # Off
    BY <1>3, <1>5, Timers
  <2>2. QED
    BY <2>1, <1>3, <1>5 DEF FlightInv, Held, IsFlushing
<1>6. CASE ~IsFlushing /\ b # <<>> /\ StartPost(b, "normal")
  <2>1. /\ batch' \in Seq(1..MaxItems) /\ pending' \in Seq(1..MaxItems)
        /\ flushMode' = "normal" /\ flushTimer' \in Nat \cup {Off} /\ spacing' \in Nat
        /\ FlightInv' /\ Held' = b /\ Len(batch') <= MaxBufferedItems
    BY <1>6, StartPostHolds
  <2>2. QED
    BY <2>1, <1>1, <1>2, <1>6 DEF IsFlushing
<1>7. QED
  BY <1>4, <1>5, <1>6 DEF FlushBatch

-----------------------------------------------------------------------------
(* Each handler preserves the invariant. *)

LEMMA InitHolds == Init => IInv
<1> SUFFICES ASSUME Init PROVE IInv
  OBVIOUS
<1>1. TypeOK
  BY ConfigAssumption DEF Init, TypeOK, Off
<1>2. Held = <<>>
  BY DEF Init, Held
<1>3. QueueInv
  BY <1>2 DEF Init, QueueInv, Accounted, Ordered, Sorted, Items
<1>4. FlightInv /\ MemoryBound /\ NeverStalls /\ ShutdownInv
  BY <1>2, ConfigAssumption
     DEF Init, FlightInv, MemoryBound, NeverStalls, ShutdownInv, IsFlushing
<1>5. QED
  BY <1>1, <1>3, <1>4 DEF IInv

(* A delta puts 0, 1 or 2 items at the back and trims the waiting items. *)
LEMMA ReceiveHolds ==
  ASSUME IInv, NEW k \in 0..2, Receive(k)
  PROVE  IInv'
<1> DEFINE new == [i \in 1..k |-> accepted + i]
           longer == batch \o new
           over == Overflow(longer)
           front == SubSeq(longer, 1, over)
           kept == SubSeq(longer, over + 1, Len(longer))
<1>1. /\ TypeOK /\ FlightInv /\ QueueInv /\ MemoryBound /\ ShutdownInv
      /\ accepted \in Nat /\ k \in Nat /\ MaxItems \in Nat /\ MaxBufferedItems \in Nat
      /\ phase = "running" /\ flushMode # "drain" /\ accepted + k <= MaxItems
      /\ batch \in Seq(1..MaxItems) /\ pending \in Seq(1..MaxItems)
      /\ flushTimer \in Nat \cup {Off}
      /\ Held \in Seq(1..MaxItems)
  BY ConfigAssumption DEF IInv, TypeOK, ShutdownInv, Receive, Held
<1>2. /\ new \in Seq(1..MaxItems) /\ Len(new) = k
      /\ Accounted(acked, dropped, Held \o new, accepted + k) /\ Ordered(acked, Held \o new)
  BY <1>1, NewItems DEF QueueInv
<1> HIDE DEF new
<1>3. longer \in Seq(1..MaxItems) /\ Held \o new = pending \o longer
  <2>1. longer \in Seq(1..MaxItems)
    BY <1>1, <1>2, ConcatProperties
  <2> DEFINE S == 1..MaxItems
  <2>2. pending \in Seq(S) /\ batch \in Seq(S) /\ new \in Seq(S)
    BY <1>1, <1>2
  <2> HIDE DEF longer, S
  <2>3. (pending \o batch) \o new = pending \o (batch \o new)
    BY <2>2, ConcatAssociative, SMTT(20)
  <2>4. QED
    BY <2>1, <2>3 DEF Held, longer
<1> HIDE DEF longer
<1>4. over \in 0..Len(longer) /\ Len(longer) - over <= MaxBufferedItems
  BY <1>1, <1>3 DEF Overflow, MaxOf
<1>5. /\ front \in Seq(1..MaxItems) /\ kept \in Seq(1..MaxItems)
      /\ Len(kept) <= MaxBufferedItems
      /\ longer = front \o kept
  BY <1>1, <1>3, <1>4, Split
<1>6. /\ accepted' = accepted + k /\ dropped' = dropped \cup Items(front)
      /\ UNCHANGED <<phase, backoff, drainFrom, lastPost, acked, retryWait>>
      /\ IF Len(kept) >= BatchSize
           THEN FlushBatch(kept, flushTimer)
           ELSE /\ batch' = kept
                /\ flushTimer' = ScheduleFlush(flushTimer, FlushInterval)
                /\ UNCHANGED <<pending, flushMode, spacing>>
  BY DEF Receive, longer, new
<1> HIDE DEF over, front, kept
<1>7. /\ batch' \in Seq(1..MaxItems) /\ pending' \in Seq(1..MaxItems)
      /\ flushMode' \in {"idle", "normal"}
      /\ flushTimer' \in Nat \cup {Off} /\ spacing' \in Nat
      /\ FlightInv' /\ Held' = pending \o kept
      /\ IsFlushing' => Len(batch') <= MaxBufferedItems
      /\ batch' # <<>> => IsFlushing' \/ flushTimer' # Off
  <2>1. CASE Len(kept) >= BatchSize
    <3>1. FlushBatch(kept, flushTimer)
      BY <2>1, <1>6
    <3>2. Len(kept) <= MaxBufferedItems + MaxPostItems
      BY <1>1, <1>5, ConfigAssumption
    <3>3. QED
      BY <3>1, <3>2, <1>1, <1>5, FlushBatchHolds
  <2>2. CASE ~(Len(kept) >= BatchSize)
    <3>1. /\ batch' = kept /\ UNCHANGED <<pending, flushMode, spacing>>
          /\ flushTimer' = ScheduleFlush(flushTimer, FlushInterval)
      BY <2>2, <1>6
    <3>2. flushTimer' \in Nat \cup {Off} /\ flushTimer' # Off
      BY <3>1, <1>1, Timers, ConfigAssumption
    <3>3. QED
      BY <3>1, <3>2, <1>1, <1>5 DEF TypeOK, FlightInv, Held, IsFlushing
  <2>3. QED
    BY <2>1, <2>2
<1>8. QueueInv'
  <2>1. Accounted(acked, dropped, pending \o (front \o kept), accepted + k)
        /\ Ordered(acked, pending \o (front \o kept))
    BY <1>2, <1>3, <1>5
  <2>2. Accounted(acked, dropped \cup Items(front), pending \o kept, accepted + k)
        /\ Ordered(acked, pending \o kept)
    <3>1. accepted + k \in Nat /\ MaxItems \in Nat
      BY <1>1
    <3>2. /\ pending \in Seq(1..MaxItems) /\ front \in Seq(1..MaxItems)
          /\ kept \in Seq(1..MaxItems)
      BY <1>1, <1>5
    <3>3. QED
      BY <3>1, <3>2, <2>1, DropMiddle
  <2>3. QED
    BY <2>2, <1>6, <1>7 DEF QueueInv
<1>9. TypeOK'
  <2>1. Items(front) \subseteq 1..MaxItems
    BY <1>5, ItemsType
  <2>2. accepted' \in 0..MaxItems
    BY <1>1, <1>6
  <2>3. dropped \subseteq 1..MaxItems
    BY <1>1 DEF TypeOK
  <2>4. dropped' \subseteq 1..MaxItems
    BY <2>1, <2>3, <1>6
  <2>5. QED
    BY <2>2, <2>4, <1>1, <1>6, <1>7 DEF TypeOK
<1>10. MemoryBound'
  <2>1. Len(Held') <= MaxBufferedItems + MaxPostItems
    BY <1>1, <1>5, <1>7, ConcatProperties, ConfigAssumption DEF FlightInv
  <2>2. QED
    BY <2>1, <1>7 DEF MemoryBound
<1>11. NeverStalls' /\ ShutdownInv'
  BY <1>1, <1>6, <1>7 DEF NeverStalls, ShutdownInv
<1>12. QED
  BY <1>7, <1>8, <1>9, <1>10, <1>11 DEF IInv

LEMMA FlushTimerFiresHolds ==
  ASSUME IInv, FlushTimerFires
  PROVE  IInv'
<1>1. /\ TypeOK /\ FlightInv /\ QueueInv /\ MemoryBound /\ ShutdownInv /\ NeverStalls
      /\ batch \in Seq(1..MaxItems) /\ pending \in Seq(1..MaxItems)
      /\ FlushBatch(batch, Off) /\ Off \in Nat \cup {Off}
      /\ UNCHANGED <<phase, backoff, drainFrom, lastPost, accepted, acked, dropped, retryWait>>
      /\ flushTimer = 0
  BY DEF IInv, TypeOK, FlushTimerFires
<1>2. CASE phase = "running"
  <2>1. Len(batch) <= MaxBufferedItems + MaxPostItems
    BY <1>1, ConcatProperties, ConfigAssumption DEF MemoryBound, Held
  <2>2. flushMode # "drain" /\ (IsFlushing => Len(batch) <= MaxBufferedItems)
    BY <1>1, <1>2 DEF ShutdownInv, MemoryBound
  <2>3. /\ batch' \in Seq(1..MaxItems) /\ pending' \in Seq(1..MaxItems)
        /\ flushMode' \in {"idle", "normal"}
        /\ flushTimer' \in Nat \cup {Off} /\ spacing' \in Nat
        /\ FlightInv' /\ Held' = Held
        /\ IsFlushing' => Len(batch') <= MaxBufferedItems
        /\ batch' # <<>> => IsFlushing' \/ flushTimer' # Off
    BY <1>1, <1>2, <2>1, <2>2, FlushBatchHolds DEF Held
  <2>4. TypeOK' /\ QueueInv'
    BY <1>1, <2>3 DEF TypeOK, QueueInv
  <2>5. MemoryBound' /\ NeverStalls' /\ ShutdownInv'
    BY <1>1, <1>2, <2>3 DEF MemoryBound, NeverStalls, ShutdownInv
  <2>6. QED
    BY <2>3, <2>4, <2>5 DEF IInv
<1>3. phase = "running"
  BY <1>1 DEF ShutdownInv, Off
<1>4. QED
  BY <1>2, <1>3

LEMMA PostSucceedsHolds ==
  ASSUME IInv, PostSucceeds
  PROVE  IInv'
<1>1. /\ TypeOK /\ FlightInv /\ QueueInv /\ MemoryBound /\ ShutdownInv /\ NeverStalls
      /\ batch \in Seq(1..MaxItems) /\ pending \in Seq(1..MaxItems)
      /\ flushTimer \in Nat \cup {Off} /\ accepted \in Nat /\ MaxItems \in Nat
  BY ConfigAssumption DEF IInv, TypeOK
<1>2. /\ IsFlushing /\ ~Ended
      /\ backoff' = 0 /\ lastPost' = "ok" /\ acked' = acked \cup Items(pending)
      /\ pending' = <<>> /\ flushMode' = "idle" /\ flushTimer' = Rearm(batch, flushTimer)
      /\ UNCHANGED <<phase, batch, spacing, drainFrom, accepted, dropped, retryWait>>
  BY DEF PostSucceeds
<1>3. Held' = batch
  BY <1>1, <1>2, ConcatEmptySeq DEF Held
<1>4. TypeOK'
  <2>1. Items(pending) \subseteq 1..MaxItems
    BY <1>1, ItemsType
  <2>2. flushTimer' \in Nat \cup {Off} /\ pending' \in Seq(1..MaxItems)
    BY <1>1, <1>2, Timers
  <2>3. QED
    BY <2>1, <2>2, <1>1, <1>2 DEF TypeOK
<1>5. QueueInv'
  <2>1. Accounted(acked, dropped, pending \o batch, accepted) /\ Ordered(acked, pending \o batch)
    BY <1>1 DEF QueueInv, Held
  <2>2. /\ Accounted(acked \cup Items(pending), dropped, batch, accepted)
        /\ Ordered(acked \cup Items(pending), batch)
    BY <2>1, <1>1, AckFront
  <2>3. QED
    BY <2>2, <1>2, <1>3 DEF QueueInv
<1>6. FlightInv' /\ NeverStalls'
  <2>1. phase = "running" /\ batch # <<>> => Rearm(batch, flushTimer) # Off
    BY <1>1, Timers
  <2>2. QED
    BY <2>1, <1>2, ConfigAssumption DEF FlightInv, NeverStalls
<1>7. Len(Held) = Len(pending) + Len(batch) /\ Len(pending) \in Nat /\ Len(batch) \in Nat
  BY <1>1, ConcatProperties DEF Held
<1>8. MemoryBound'
  BY <1>1, <1>2, <1>3, <1>7, ConfigAssumption DEF MemoryBound, IsFlushing
<1>9. Len(pending) > 0
  BY <1>1, <1>2 DEF FlightInv, IsFlushing
<1>10. ShutdownInv'
  <2>1. phase # "running" => Rearm(batch, flushTimer) = Off
    BY <1>1 DEF ShutdownInv, Rearm, ScheduleFlush
  <2>2. phase = "draining" => Len(batch) < drainFrom
    BY <1>1, <1>2, <1>7, <1>9 DEF ShutdownInv
  <2>3. QED
    BY <2>1, <2>2, <1>1, <1>2 DEF ShutdownInv, IsFlushing, Ended
<1>11. QED
  BY <1>4, <1>5, <1>6, <1>8, <1>10 DEF IInv

(* Both kinds of failure put the post back where it was. *)
LEMMA PostFailedHolds ==
  ASSUME IInv, NEW delay \in Nat, PostFailed(delay), backoff' \in Nat, retryWait' \in Nat
  PROVE  IInv'
<1> DEFINE timer == IF flushMode = "normal" THEN ScheduleFlush(flushTimer, delay)
                                            ELSE flushTimer
<1>1. /\ TypeOK /\ FlightInv /\ QueueInv /\ MemoryBound /\ ShutdownInv /\ NeverStalls
      /\ batch \in Seq(1..MaxItems) /\ pending \in Seq(1..MaxItems)
      /\ flushTimer \in Nat \cup {Off}
  BY DEF IInv, TypeOK
<1>2. /\ IsFlushing /\ ~Ended
      /\ batch' = Held /\ pending' = <<>> /\ lastPost' = "failed" /\ flushMode' = "idle"
      /\ flushTimer' = Rearm(Held, timer)
      /\ UNCHANGED <<phase, spacing, drainFrom, accepted, acked, dropped>>
  BY DEF PostFailed, Requeue, Held
<1>3. Held \in Seq(1..MaxItems)
  BY <1>1, ConcatProperties DEF Held
<1>4. Held' = Held
  BY <1>2, <1>3, ConcatEmptySeq DEF Held
<1>5. timer \in Nat \cup {Off} /\ (phase # "running" => timer = Off)
  BY <1>1, Timers DEF ScheduleFlush, ShutdownInv
<1> HIDE DEF timer
<1>6. /\ flushTimer' \in Nat \cup {Off}
      /\ phase = "running" /\ Held # <<>> => flushTimer' # Off
      /\ phase # "running" => flushTimer' = Off
  <2>1. phase # "running" => Rearm(Held, timer) = Off
    BY <1>5 DEF Rearm, ScheduleFlush
  <2>2. QED
    BY <2>1, <1>1, <1>2, <1>3, <1>5, Timers, ZenonT(40)
<1>7. TypeOK'
  BY <1>1, <1>2, <1>3, <1>6 DEF TypeOK
<1>8. QueueInv'
  BY <1>1, <1>2, <1>4 DEF QueueInv
<1>9. FlightInv' /\ NeverStalls' /\ ShutdownInv'
  BY <1>1, <1>2, <1>6, ConfigAssumption DEF FlightInv, NeverStalls, ShutdownInv, IsFlushing
<1>10. MemoryBound'
  BY <1>1, <1>2, <1>4 DEF MemoryBound, IsFlushing
<1>11. QED
  BY <1>7, <1>8, <1>9, <1>10 DEF IInv

LEMMA PostRateLimitedHolds ==
  ASSUME IInv, NEW retryAfter \in RetryAfters, PostRateLimited(retryAfter)
  PROVE  IInv'
<1>1. MaxOf(retryAfter, RateLimitBackoff) \in Nat /\ retryWait \in Nat
  BY ConfigAssumption DEF MaxOf, IInv, TypeOK
<1>2. /\ PostFailed(MaxOf(retryAfter, RateLimitBackoff))
      /\ backoff' = MaxOf(retryAfter, RateLimitBackoff) /\ retryWait' = retryWait
  BY DEF PostRateLimited
<1>3. QED
  BY <1>1, <1>2, PostFailedHolds

LEMMA PostFailsHolds ==
  ASSUME IInv, PostFails
  PROVE  IInv'
<1>1. ReconnectDelay \in Nat /\ backoff \in Nat
  BY ConfigAssumption DEF IInv, TypeOK
<1>2. PostFailed(ReconnectDelay) /\ backoff' = backoff /\ retryWait' = ReconnectDelay
  BY DEF PostFails
<1>3. QED
  BY <1>1, <1>2, PostFailedHolds

(* Steps that leave the queue and the post alone. *)
LEMMA SameQueue ==
  ASSUME IInv,
         UNCHANGED <<batch, pending, flushMode, drainFrom, lastPost, accepted, acked, dropped>>,
         flushTimer' \in Nat \cup {Off}, spacing' \in Nat, backoff' \in Nat, retryWait' \in Nat,
         phase' \in {"running", "closing", "draining", "exited", "killed"},
         phase' = "running" /\ flushTimer # Off => flushTimer' # Off,
         phase' = "running" => phase = "running",
         ShutdownInv'
  PROVE  IInv'
<1>1. Held' = Held
  BY DEF Held
<1>2. TypeOK'
  BY DEF IInv, TypeOK
<1>3. FlightInv' /\ MemoryBound' /\ NeverStalls'
  BY <1>1 DEF IInv, FlightInv, MemoryBound, NeverStalls, IsFlushing
<1>4. QueueInv'
  BY <1>1 DEF IInv, QueueInv
<1>5. QED
  BY <1>2, <1>3, <1>4 DEF IInv

LEMMA ShutdownHolds ==
  ASSUME IInv, Shutdown
  PROVE  IInv'
<1>1. ShutdownInv'
  BY DEF IInv, ShutdownInv, Shutdown
<1>2. QED
  BY <1>1, SameQueue DEF IInv, TypeOK, Shutdown

LEMMA SecondSignalHolds ==
  ASSUME IInv, SecondSignal
  PROVE  IInv'
<1>1. ShutdownInv'
  BY DEF IInv, ShutdownInv, SecondSignal
<1>2. QED
  BY <1>1, SameQueue DEF IInv, TypeOK, SecondSignal

(* A turn of shutdown's loop. *)
LEMMA DrainTurnHolds ==
  ASSUME IInv, phase = "closing" \/ (phase = "draining" /\ ~IsFlushing), DrainTurn,
         UNCHANGED <<backoff, lastPost, accepted, acked, dropped, retryWait>>
  PROVE  IInv'
<1>1. /\ TypeOK /\ FlightInv /\ QueueInv /\ MemoryBound /\ ShutdownInv
      /\ batch \in Seq(1..MaxItems) /\ pending \in Seq(1..MaxItems)
      /\ drainFrom \in Nat
  BY DEF IInv, TypeOK
<1>2. ~IsFlushing => pending = <<>> /\ Held = batch
  BY <1>1, ConcatEmptySeq DEF FlightInv, IsFlushing, Held
<1>3. CASE /\ batch = <<>> \/ IsFlushing \/ Stalled(batch)
           /\ phase' = "exited"
           /\ UNCHANGED <<batch, pending, flushMode, flushTimer, spacing, drainFrom>>
  <2>1. Held' = Held
    BY <1>3 DEF Held
  <2>2. Held # <<>> => flushMode = "normal" \/ lastPost = "failed"
    <3>1. CASE IsFlushing
      BY <1>1, <3>1 DEF ShutdownInv, IsFlushing, TypeOK
    <3>2. CASE ~IsFlushing /\ batch = <<>>
      BY <1>2, <3>2
    <3>3. CASE ~IsFlushing /\ Stalled(batch)
      BY <1>1, <3>3 DEF ShutdownInv, Stalled
    <3>4. QED
      BY <1>3, <3>1, <3>2, <3>3
  <2>3. ShutdownInv'
    BY <1>1, <1>3, <2>1, <2>2 DEF ShutdownInv
  <2>4. QED
    BY <1>3, <2>3, SameQueue DEF IInv, TypeOK
<1>4. CASE /\ batch # <<>> /\ ~IsFlushing /\ ~Stalled(batch)
           /\ phase' = "draining"
           /\ drainFrom' = Len(batch)
           /\ StartPost(batch, "drain")
  <2>1. Len(batch) <= MaxBufferedItems + MaxPostItems /\ Len(batch) > 0
    BY <1>1, <1>2, <1>4 DEF MemoryBound
  <2>2. /\ batch' \in Seq(1..MaxItems) /\ pending' \in Seq(1..MaxItems)
        /\ flushMode' = "drain" /\ flushTimer' \in Nat \cup {Off} /\ spacing' \in Nat
        /\ FlightInv' /\ Held' = batch /\ Len(batch') <= MaxBufferedItems
    BY <1>1, <1>4, <2>1, StartPostHolds
  <2>3. TypeOK'
    BY <1>1, <1>4, <2>1, <2>2 DEF TypeOK
  <2>4. QueueInv' /\ MemoryBound'
    BY <1>1, <1>2, <1>4, <2>2 DEF QueueInv, MemoryBound
  <2>5. NeverStalls' /\ ShutdownInv'
    BY <1>4, <2>1, <2>2 DEF NeverStalls, ShutdownInv, IsFlushing, StartPost
  <2>6. QED
    BY <2>2, <2>3, <2>4, <2>5 DEF IInv
<1>5. QED
  BY <1>3, <1>4 DEF DrainTurn

LEMMA TickHolds ==
  ASSUME IInv, Tick
  PROVE  IInv'
<1>1. /\ flushTimer' \in Nat \cup {Off} /\ spacing' \in Nat /\ backoff' \in Nat
      /\ retryWait' \in Nat
      /\ flushTimer = Off <=> flushTimer' = Off
      /\ UNCHANGED <<phase, batch, pending, flushMode, drainFrom, lastPost, accepted, acked, dropped>>
  BY DEF IInv, TypeOK, Tick, Elapse, Off
<1>2. Held' = Held
  BY <1>1 DEF Held
<1>3. ShutdownInv'
  BY <1>1, <1>2 DEF IInv, ShutdownInv, IsFlushing
<1>4. QED
  BY <1>1, <1>3, SameQueue DEF IInv, TypeOK

-----------------------------------------------------------------------------
(* The theorems. *)

(* The invariant is inductive. *)
LEMMA StepHolds == IInv /\ [Next]_vars => IInv'
<1> SUFFICES ASSUME IInv, [Next]_vars PROVE IInv'
  OBVIOUS
<1>1. CASE \E k \in 0..2 : Receive(k)
  BY <1>1, ReceiveHolds
<1>2. CASE FlushTimerFires
  BY <1>2, FlushTimerFiresHolds
<1>3. CASE PostSucceeds
  BY <1>3, PostSucceedsHolds
<1>4. CASE \E retryAfter \in RetryAfters : PostRateLimited(retryAfter)
  BY <1>4, PostRateLimitedHolds
<1>5. CASE PostFails
  BY <1>5, PostFailsHolds
<1>6. CASE Shutdown
  BY <1>6, ShutdownHolds
<1>7. CASE ServersClosed
  BY <1>7, DrainTurnHolds DEF ServersClosed
<1>8. CASE DrainContinues
  BY <1>8, DrainTurnHolds DEF DrainContinues
<1>9. CASE Tick
  BY <1>9, TickHolds
<1>10. CASE SecondSignal
  BY <1>10, SecondSignalHolds
<1>11. CASE UNCHANGED vars
  <2>1. Held' = Held
    BY <1>11 DEF vars, Held
  <2>2. ShutdownInv'
    BY <1>11, <2>1 DEF vars, IInv, ShutdownInv, IsFlushing
  <2>3. QED
    BY <1>11, <2>2, SameQueue DEF vars, IInv, TypeOK
<1>12. QED
  BY <1>1, <1>2, <1>3, <1>4, <1>5, <1>6, <1>7, <1>8, <1>9, <1>10, <1>11 DEF Next, Exited

THEOREM Inductive == Spec => []IInv
<1>1. QED
  BY InitHolds, StepHolds, PTL DEF Spec

(* Every variable of the collector's buffer keeps its type. *)
THEOREM TypeCorrect == Spec => []TypeOK
<1>1. IInv => TypeOK
  BY DEF IInv
<1>2. QED
  BY <1>1, Inductive, PTL

(* Failed posts, requeues, trims and shutdown lose no item unaccounted for. *)
THEOREM LosesNothing == Spec => []NothingLost
<1>1. IInv => NothingLost
  BY DEF IInv, QueueInv, Accounted, NothingLost
<1>2. QED
  BY <1>1, Inductive, PTL

(* The endpoint answers for items in the order they were buffered. *)
THEOREM KeepsOrder == Spec => []InOrder
<1>1. IInv => InOrder
  BY DEF IInv, QueueInv, Ordered, InOrder
<1>2. QED
  BY <1>1, Inductive, PTL

(* The buffer exceeds maxBufferedItems by at most one post. *)
THEOREM BoundsMemory == Spec => []MemoryBound
<1>1. IInv => MemoryBound
  BY DEF IInv
<1>2. QED
  BY <1>1, Inductive, PTL

(* Waiting items always have a timer or a post that will see to them. *)
THEOREM NoStall == Spec => []NeverStalls
<1>1. IInv => NeverStalls
  BY DEF IInv
<1>2. QED
  BY <1>1, Inductive, PTL

(* Shutdown gives items up only after a failed post or behind one in flight. *)
THEOREM DrainComplete == Spec => []DrainsUnlessFailing
<1>1. IInv => DrainsUnlessFailing
  BY DEF IInv, ShutdownInv, DrainsUnlessFailing
<1>2. QED
  BY <1>1, Inductive, PTL

-----------------------------------------------------------------------------
(* The buffer implements the outbox. *)

(* What a sequence that follows p is made of, seen from p's end. *)
LEMMA Behind ==
  ASSUME NEW S, NEW p \in Seq(S), NEW s \in Seq(S), NEW n \in 0..Len(s)
  PROVE  /\ SubSeq(p \o s, 1, Len(p)) = p
         /\ SubSeq(p \o s, Len(p) + n + 1, Len(p \o s)) = SubSeq(s, n + 1, Len(s))
<1>1. /\ Len(p) \in Nat /\ Len(s) \in Nat /\ n \in Nat /\ n <= Len(s)
      /\ p \o s \in Seq(S) /\ Len(p \o s) = Len(p) + Len(s)
  BY ConcatProperties
<1>2. /\ \A i \in 1..Len(p) : (p \o s)[i] = p[i]
      /\ \A i \in 1..Len(s) : (p \o s)[Len(p) + i] = s[i]
  OBVIOUS
<1>3. SubSeq(p \o s, 1, Len(p)) = p
  <2>1. /\ SubSeq(p \o s, 1, Len(p)) \in Seq(S) /\ Len(SubSeq(p \o s, 1, Len(p))) = Len(p)
    BY <1>1, Split
  <2>2. \A i \in 1..Len(p) : SubSeq(p \o s, 1, Len(p))[i] = p[i]
    BY <1>1, <1>2
  <2>3. QED
    BY <2>1, <2>2, SeqEqual
<1>4. SubSeq(p \o s, Len(p) + n + 1, Len(p \o s)) = SubSeq(s, n + 1, Len(s))
  <2> DEFINE left == SubSeq(p \o s, Len(p) + n + 1, Len(p \o s))
             right == SubSeq(s, n + 1, Len(s))
  <2>1. Len(p) + n \in 0..Len(p \o s)
    BY <1>1
  <2>2. left \in Seq(S) /\ Len(left) = Len(s) - n
    BY <2>1, <1>1, Split
  <2>3. right \in Seq(S) /\ Len(right) = Len(s) - n
    BY Split
  <2>4. ASSUME NEW i \in 1..Len(left) PROVE left[i] = right[i]
    <3>1. i \in 1..(Len(s) - n) /\ n + i \in 1..Len(s)
      BY <2>2, <1>1
    <3>2. left[i] = (p \o s)[Len(p) + n + i]
      BY <3>1, <1>1
    <3>3. right[i] = s[n + i]
      BY <3>1, <1>1
    <3>4. (p \o s)[Len(p) + (n + i)] = s[n + i]
      BY <3>1, <1>2
    <3>5. QED
      BY <3>2, <3>3, <3>4, <1>1
  <2>5. QED
    BY <2>2, <2>3, <2>4, SeqEqual
<1>5. QED
  BY <1>3, <1>4

(* A step that keeps the items, what became of them and whether the process *)
(* runs is none of the outbox's.                                            *)
LEMMA Stutters ==
  ASSUME Held' = Held, accepted' = accepted, acked' = acked, Ended' = Ended
  PROVE  UNCHANGED Promise!outboxVars
BY DEF Promise!outboxVars

(* Starting a post moves items within the queue only. *)
LEMMA FlushKeepsHeld ==
  ASSUME TypeOK, FlightInv, NEW b \in Seq(1..MaxItems), NEW timer, FlushBatch(b, timer)
  PROVE  Held' = pending \o b
<1>1. ~IsFlushing => pending \o b = b
  BY ConcatEmptySeq DEF FlightInv, IsFlushing
<1>2. CASE StartPost(b, "normal") /\ ~IsFlushing
  BY <1>1, <1>2, PostParts DEF StartPost, Held
<1>3. CASE batch' = b /\ pending' = pending
  BY <1>3 DEF Held
<1>4. QED
  BY <1>2, <1>3 DEF FlushBatch

(* A delta is accepted behind the post in flight, whose items no trim takes. *)
LEMMA ReceiveAccepts ==
  ASSUME IInv, NEW k \in 0..2, Receive(k)
  PROVE  Promise!OutboxNext
<1> DEFINE new == [i \in 1..k |-> accepted + i]
           longer == batch \o new
           over == Overflow(longer)
           kept == SubSeq(longer, over + 1, Len(longer))
           all == Held \o new
           busy == Len(pending)
<1>1. /\ TypeOK /\ FlightInv /\ QueueInv
      /\ accepted \in Nat /\ k \in Nat /\ MaxItems \in Nat /\ MaxBufferedItems \in Nat
      /\ MaxPostItems \in Nat
      /\ phase = "running" /\ accepted + k <= MaxItems
      /\ batch \in Seq(1..MaxItems) /\ pending \in Seq(1..MaxItems)
      /\ busy \in 0..MaxPostItems
      /\ Held \in Seq(1..MaxItems) /\ Len(Held) = Len(pending) + Len(batch)
  BY ConfigAssumption, ConcatProperties, SMTT(20) DEF IInv, TypeOK, Receive, Held, FlightInv
<1>2. new \in Seq(1..MaxItems) /\ Len(new) = k
  BY <1>1, NewItems DEF QueueInv
<1>3. /\ accepted' = accepted + k /\ acked' = acked /\ phase' = phase
      /\ IF Len(kept) >= BatchSize
           THEN FlushBatch(kept, flushTimer)
           ELSE batch' = kept /\ pending' = pending
  BY DEF Receive
<1> HIDE DEF new
<1>4. longer \in Seq(1..MaxItems) /\ all = pending \o longer
  <2>1. longer \in Seq(1..MaxItems)
    BY <1>1, <1>2, ConcatProperties
  <2> DEFINE S == 1..MaxItems
  <2>2. pending \in Seq(S) /\ batch \in Seq(S) /\ new \in Seq(S)
    BY <1>1, <1>2
  <2> HIDE DEF S
  <2>3. (pending \o batch) \o new = pending \o (batch \o new)
    BY <2>2, ConcatAssociative, SMTT(20)
  <2>4. QED
    BY <2>1, <2>3 DEF Held
<1> HIDE DEF longer, all
<1>5. /\ Len(longer) \in Nat
      /\ Len(all) = busy + Len(longer)
      /\ over \in 0..Len(longer)
      /\ over = (IF Len(all) - busy - MaxBufferedItems > 0
                   THEN Len(all) - busy - MaxBufferedItems ELSE 0)
  BY <1>1, <1>4, ConcatProperties DEF Overflow, MaxOf
<1> HIDE DEF over
<1>6. kept \in Seq(1..MaxItems)
  BY <1>4, <1>5, Split
<1>7. Held' = pending \o kept
  <2>1. CASE Len(kept) >= BatchSize
    BY <2>1, <1>1, <1>3, <1>6, FlushKeepsHeld
  <2>2. CASE ~(Len(kept) >= BatchSize)
    BY <2>2, <1>3 DEF Held
  <2>3. QED
    BY <2>1, <2>2
<1>8. /\ SubSeq(all, 1, busy) = pending
      /\ SubSeq(all, busy + over + 1, Len(all)) = kept
  <2>1. \A l \in Seq(1..MaxItems) : \A n \in 0..Len(l) :
          /\ SubSeq(pending \o l, 1, Len(pending)) = pending
          /\ SubSeq(pending \o l, Len(pending) + n + 1, Len(pending \o l))
               = SubSeq(l, n + 1, Len(l))
    BY <1>1, Behind, SMTT(20)
  <2>2. QED
    BY <2>1, <1>4, <1>5
<1> HIDE DEF kept
<1>9. Promise!Without(all, busy + 1, busy + over) = pending \o kept
  <2>1. Promise!Without(all, busy + 1, busy + over)
          = SubSeq(all, 1, (busy + 1) - 1) \o SubSeq(all, busy + over + 1, Len(all))
    BY DEF Promise!Without
  <2>2. (busy + 1) - 1 = busy
    BY <1>1, <1>5
  <2>3. SubSeq(all, 1, (busy + 1) - 1) = pending
    BY <1>8, <2>2, Zenon
  <2>4. QED
    BY <1>8, <2>1, <2>3, Zenon
<1>10. over = 0 => pending \o kept = all
  BY <1>4, <1>5, SubSeqFull DEF kept
<1>11. Promise!Accept(k, busy)
  <2>1. Held' = IF Len(all) - busy - MaxBufferedItems > 0
                  THEN Promise!Without(all, busy + 1,
                                       busy + (Len(all) - busy - MaxBufferedItems))
                  ELSE all
    BY <1>5, <1>7, <1>9, <1>10
  <2>2. ~Ended /\ Ended' = Ended
    BY <1>1, <1>3 DEF Ended
  <2>3. QED
    BY <2>1, <2>2, <1>3 DEF Promise!Accept, all, new
<1>12. busy <= Len(Held)
  BY <1>1
<1>13. QED
  BY <1>1, <1>11, <1>12 DEF Promise!OutboxNext

(* A post that succeeds answers for the front of the queue. *)
LEMMA PostSucceedsAcks ==
  ASSUME IInv, PostSucceeds
  PROVE  Promise!OutboxNext
<1> DEFINE n == Len(pending)
<1>1. /\ batch \in Seq(1..MaxItems) /\ pending \in Seq(1..MaxItems)
      /\ pending # <<>> /\ n <= MaxPostItems /\ ~Ended
      /\ acked' = acked \cup Items(pending) /\ pending' = <<>> /\ batch' = batch
      /\ phase' = phase /\ accepted' = accepted
  BY DEF IInv, TypeOK, FlightInv, IsFlushing, PostSucceeds
<1>2. n \in 1..MaxPostItems /\ n <= Len(Held)
  BY <1>1, ConcatProperties, ConfigAssumption DEF Held
<1>3. Held' = SubSeq(Held, n + 1, Len(Held))
  <2>1. Held' = batch
    BY <1>1, ConcatEmptySeq DEF Held
  <2>2. 0 \in 0..Len(batch) /\ n + 0 + 1 = n + 1 /\ 0 + 1 = 1
    BY <1>1
  <2>3. SubSeq(Held, n + 0 + 1, Len(Held)) = SubSeq(batch, 0 + 1, Len(batch))
    BY <1>1, <2>2, Behind DEF Held
  <2>4. QED
    BY <1>1, <2>1, <2>2, <2>3, SubSeqFull
<1>4. Items(pending) = {Held[i] : i \in 1..n}
  <2>1. \A i \in 1..n : Held[i] = pending[i]
    BY <1>1 DEF Held
  <2>2. QED
    BY <2>1 DEF Items
<1>5. Promise!Ack(n)
  BY <1>1, <1>3, <1>4 DEF Promise!Ack, Ended
<1>6. QED
  BY <1>2, <1>5 DEF Promise!OutboxNext

(* Every step is one of the outbox's, or none of its. *)
LEMMA StepRefines ==
  ASSUME IInv, [Next]_vars
  PROVE  [Promise!OutboxNext]_(Promise!outboxVars)
<1>1. /\ batch \in Seq(1..MaxItems) /\ pending \in Seq(1..MaxItems) /\ TypeOK /\ FlightInv
      /\ ShutdownInv
  BY DEF IInv, TypeOK
<1>2. ASSUME NEW k \in 0..2, Receive(k)
      PROVE  Promise!OutboxNext
  BY <1>2, ReceiveAccepts
<1>3. CASE FlushTimerFires
  <2>1. Held' = Held
    BY <1>1, <1>3, FlushKeepsHeld DEF FlushTimerFires, Held
  <2>2. QED
    BY <2>1, <1>3, Stutters DEF FlushTimerFires, Ended
<1>4. CASE PostSucceeds
  BY <1>4, PostSucceedsAcks
<1>5. ASSUME NEW delay, PostFailed(delay)
      PROVE  UNCHANGED Promise!outboxVars
  <2>1. Held' = Held
    <3>1. Held \in Seq(1..MaxItems)
      BY <1>1, ConcatProperties DEF Held
    <3>2. QED
      BY <1>5, <3>1, ConcatEmptySeq DEF PostFailed, Requeue, Held
  <2>2. QED
    BY <2>1, <1>5, Stutters DEF PostFailed, Ended
<1>6. CASE \E retryAfter \in RetryAfters : PostRateLimited(retryAfter)
  BY <1>5, <1>6 DEF PostRateLimited
<1>7. CASE PostFails
  BY <1>5, <1>7 DEF PostFails
<1>8. CASE Shutdown
  BY <1>8, Stutters DEF Shutdown, Held, Ended
<1>9. ASSUME DrainTurn, ~Ended, phase \in {"closing", "draining"},
             accepted' = accepted, acked' = acked
      PROVE  Promise!OutboxNext \/ UNCHANGED Promise!outboxVars
  <2>1. CASE phase' = "exited" /\ UNCHANGED <<batch, pending>>
    <3>1. Promise!Stop
      BY <2>1, <1>9 DEF Promise!Stop, Held, Ended
    <3>2. QED
      BY <3>1 DEF Promise!OutboxNext
  <2>2. CASE batch # <<>> /\ ~IsFlushing /\ phase' = "draining" /\ StartPost(batch, "drain")
    <3>1. Held = batch
      BY <1>1, <2>2, ConcatEmptySeq DEF FlightInv, IsFlushing, Held
    <3>2. Held' = batch
      BY <1>1, <2>2, PostParts DEF StartPost, Held
    <3>3. QED
      BY <3>1, <3>2, <2>2, <1>9, Stutters DEF Ended
  <2>3. QED
    BY <1>9, <2>1, <2>2 DEF DrainTurn
<1>10. CASE ServersClosed
  BY <1>9, <1>10 DEF ServersClosed, Ended
<1>11. CASE DrainContinues
  BY <1>9, <1>11 DEF DrainContinues, Ended
<1>12. CASE SecondSignal
  <2>1. Promise!Stop
    BY <1>12 DEF SecondSignal, Promise!Stop, Held, Ended
  <2>2. QED
    BY <2>1 DEF Promise!OutboxNext
<1>13. CASE Tick
  BY <1>13, Stutters DEF Tick, Held, Ended
<1>14. CASE UNCHANGED vars
  BY <1>14, Stutters DEF vars, Held, Ended
<1>15. QED
  BY <1>2, <1>3, <1>4, <1>6, <1>7, <1>8, <1>10, <1>11, <1>12, <1>13, <1>14 DEF Next, Exited

(* The detailed buffer keeps the outbox's promise, for every configuration:  *)
(* whatever timers, throttles, retries and shutdown do, items enter and     *)
(* leave the queue as the outbox says.                                      *)
THEOREM KeepsPromise == Spec => ImplementsOutbox
<1>1. Init => Promise!OutboxInit
  BY ConcatEmptySeq DEF Init, Promise!OutboxInit, Held, Ended
<1>2. IInv /\ [Next]_vars => [Promise!OutboxNext]_(Promise!outboxVars)
  BY StepRefines
<1>3. QED
  BY <1>1, <1>2, Inductive, PTL DEF Spec, ImplementsOutbox, Promise!OutboxSpec

(* What the outbox promises of every item (OutboxProofs) holds of the        *)
(* buffer's: one that was answered for or given up is never held, and so     *)
(* never posted, again - neither a failed post, which puts its items back,  *)
(* nor the shutdown's drain brings one back.                                *)
Kept == INSTANCE OutboxProofs
  WITH Capacity <- MaxBufferedItems, queue <- Held, stopped <- Ended

THEOREM GivenUpForGood == Spec => Promise!GoneForGood
<1>1. MaxBufferedItems \in Nat /\ MaxPostItems \in Nat
  BY ConfigAssumption
<1>2. Kept!OutboxSpec => Kept!GoneForGood
  BY <1>1, Kept!NeverBack
<1>3. Promise!OutboxInit => Kept!OutboxInit
  BY DEF Promise!OutboxInit, Kept!OutboxInit
<1>4. [Promise!OutboxNext]_(Promise!outboxVars) => [Kept!OutboxNext]_(Kept!outboxVars)
  BY DEF Promise!OutboxNext, Kept!OutboxNext, Promise!outboxVars, Kept!outboxVars,
     Promise!Accept, Kept!Accept, Promise!Ack, Kept!Ack, Promise!Stop, Kept!Stop,
     Promise!Without, Kept!Without
<1>5. [\A item \in 1..accepted : ~Kept!Holds(item) => ~Kept!Holds(item)']_(Kept!outboxVars)
        => [\A item \in 1..accepted : ~Promise!Holds(item) => ~Promise!Holds(item)']_(Promise!outboxVars)
  BY DEF Promise!outboxVars, Kept!outboxVars, Promise!Holds, Kept!Holds
<1>6. QED
  BY KeepsPromise, <1>2, <1>3, <1>4, <1>5, PTL
     DEF ImplementsOutbox, Promise!OutboxSpec, Kept!OutboxSpec, Promise!GoneForGood, Kept!GoneForGood
=============================================================================
