------------------------ MODULE SourceSelectionProofs ------------------------
(***************************************************************************)
(* Proofs about SourceSelection: what a collector's memory of its last      *)
(* winner guarantees, for any publishers, sources, ranks and window.       *)
(***************************************************************************)
EXTENDS SourceSelection, WellFoundedInduction, TLAPS

(* The least element of a set of naturals. *)
LEMMA LeastNatural ==
  ASSUME NEW T, T \subseteq Nat, T # {}
  PROVE  \E x \in T : \A y \in T : x <= y
<1> DEFINE Less == {pair \in Nat \X Nat : pair[1] < pair[2]}
<1>1. IsWellFoundedOn(Less, Nat)
  BY NatLessThanWellFounded, Zenon DEF OpToRel
<1>2. \A y, x \in Nat : y < x => <<y, x>> \in Less
  OBVIOUS
<1> HIDE DEF Less
<1>3. PICK x \in T : \A y \in T : <<y, x>> \notin Less
  BY <1>1, WFMin, Zenon
<1>4. \A y \in T : ~(y < x)
  BY <1>2, <1>3
<1>5. QED
  BY <1>4

(* Every delta has a winner: compareRankedCandidates leaves no set of       *)
(* candidates without a first one.                                         *)
LEMMA BestExists ==
  ASSUME NEW p \in Publishers, NEW candidates \in SUBSET Sources, candidates # {}
  PROVE  /\ Best(p, candidates) \in candidates
         /\ \A t \in candidates : Precedes(p, Best(p, candidates), t)
<1>1. Rank \in [Sources -> Nat] /\ Sources \subseteq Nat
  BY SelectionAssumption DEF Sources
<1> DEFINE ranks == {Rank[s] : s \in candidates}
<1>2. PICK least \in ranks : \A r \in ranks : least <= r
  <2>1. ranks \subseteq Nat /\ ranks # {}
    BY <1>1
  <2>2. QED
    BY <2>1, LeastNatural
<1> DEFINE firsts == {s \in candidates : Rank[s] = least}
<1>3. firsts \subseteq Nat /\ firsts # {} /\ firsts \subseteq candidates
  BY <1>1, <1>2
<1>4. \A s \in firsts, t \in candidates : Rank[s] < Rank[t] \/ t \in firsts
  BY <1>1, <1>2
<1>5. \E s \in candidates : \A t \in candidates : Precedes(p, s, t)
  <2>1. CASE \E s \in firsts : IsSticky(p, s)
    BY <2>1, <1>3, <1>4 DEF Precedes
  <2>2. CASE ~ \E s \in firsts : IsSticky(p, s)
    <3>1. PICK s \in firsts : \A t \in firsts : s <= t
      BY <1>3, LeastNatural
    <3>2. QED
      BY <2>2, <3>1, <1>3, <1>4 DEF Precedes
  <2>3. QED
    BY <2>1, <2>2
<1>6. QED
  BY <1>5 DEF Best

-----------------------------------------------------------------------------
(* The inductive invariant. *)

SelectionTypes ==
  /\ now \in Nat /\ now >= Start
  /\ sticky \in [Publishers -> [source : Sources, at : Nat]]
  /\ won \in [Publishers -> [Sources -> Nat]]
  /\ heard \in [Publishers -> Nat]

(* The sticky winner is the source that won last. *)
RemembersLast ==
  \A p \in Publishers :
    /\ sticky[p].at <= now
    /\ won[p][sticky[p].source] = sticky[p].at
    /\ \A s \in Sources : won[p][s] <= sticky[p].at

(* It is better than all that won within a window before it: remembering    *)
(* the last winner is as good as remembering all of them.                  *)
Uncontested ==
  \A p \in Publishers, t \in Sources :
    /\ sticky[p].at # Never
    /\ t # sticky[p].source
    /\ sticky[p].at - won[p][t] <= Window
    => Rank[sticky[p].source] < Rank[t]

(* And what was heard after it was suppressed within a window of it. *)
Covered ==
  \A p \in Publishers : heard[p] # Never => heard[p] - sticky[p].at <= Window

IInv == SelectionTypes /\ RemembersLast /\ Uncontested /\ Covered

LEMMA ConstantTypes ==
  /\ Window \in Nat /\ Start = Window + 1
  /\ Rank \in [Sources -> Nat] /\ 1 \in Sources
BY SelectionAssumption DEF Start, Sources

LEMMA InitHolds == Init => IInv
BY ConstantTypes DEF Init, IInv, SelectionTypes, RemembersLast, Uncontested, Covered, Never

(* A delta whose best source yields to the sticky winner. *)
LEMMA SuppressedHolds ==
  ASSUME IInv, NEW p \in Publishers, IsFresh(p),
         UNCHANGED <<sticky, won, now>>, heard' = [heard EXCEPT ![p] = now]
  PROVE  IInv'
<1>1. SelectionTypes' /\ RemembersLast' /\ Uncontested'
  BY DEF IInv, SelectionTypes, RemembersLast, Uncontested
<1>2. Covered'
  BY DEF IInv, SelectionTypes, Covered, IsFresh
<1>3. QED
  BY <1>1, <1>2 DEF IInv

(* A delta whose best source wins. *)
LEMMA WinHolds ==
  ASSUME IInv, NEW p \in Publishers, NEW s \in Sources, ~Retains(p, s),
         sticky' = [sticky EXCEPT ![p] = [source |-> s, at |-> now]],
         won' = [won EXCEPT ![p][s] = now],
         heard' = [heard EXCEPT ![p] = now], now' = now
  PROVE  /\ IInv'
         /\ \A t \in Sources : t # s /\ now - won[p][t] <= Window => Rank[s] < Rank[t]
<1> USE ConstantTypes
<1>1. SelectionTypes'
  BY DEF IInv, SelectionTypes
<1>2. /\ sticky'[p].source = s /\ sticky'[p].at = now
      /\ \A t \in Sources : won'[p][t] = IF t = s THEN now ELSE won[p][t]
      /\ \A q \in Publishers : q # p => sticky'[q] = sticky[q] /\ won'[q] = won[q]
  BY DEF IInv, SelectionTypes
<1>3. ASSUME NEW t \in Sources, t # s, now - won[p][t] <= Window
      PROVE  Rank[s] < Rank[t]
  <2>1. /\ sticky[p].source \in Sources /\ sticky[p].at \in Nat /\ won[p][t] \in Nat
        /\ now \in Nat /\ Rank[s] \in Nat /\ Rank[t] \in Nat
        /\ Rank[sticky[p].source] \in Nat
    BY DEF IInv, SelectionTypes
  <2>2. won[p][t] <= sticky[p].at /\ sticky[p].at <= now
    BY DEF IInv, RemembersLast
  <2>3. IsFresh(p)
    BY <1>3, <2>1, <2>2 DEF IsFresh
  <2>4. sticky[p].at # Never
    BY <2>1, <2>3 DEF IsFresh, Never, IInv, SelectionTypes
  <2>5. Rank[s] < Rank[sticky[p].source] \/ s = sticky[p].source
    BY <2>1, <2>3 DEF Retains
  <2>6. CASE t = sticky[p].source
    BY <2>5, <2>6, <1>3
  <2>7. CASE t # sticky[p].source
    <3>1. sticky[p].at - won[p][t] <= Window
      BY <1>3, <2>1, <2>2
    <3>2. Rank[sticky[p].source] < Rank[t]
      BY <3>1, <2>4, <2>7 DEF IInv, Uncontested
    <3>3. QED
      BY <3>2, <2>1, <2>5
  <2>8. QED
    BY <2>6, <2>7
<1>4. RemembersLast'
  <2>1. ASSUME NEW q \in Publishers
        PROVE  /\ sticky'[q].at <= now'
               /\ won'[q][sticky'[q].source] = sticky'[q].at
               /\ \A t \in Sources : won'[q][t] <= sticky'[q].at
    <3>1. CASE q = p
      <4>1. \A t \in Sources : won[p][t] <= now /\ now <= now
        BY DEF IInv, SelectionTypes, RemembersLast
      <4>2. QED
        BY <3>1, <4>1, <1>2
    <3>2. CASE q # p
      BY <3>2, <1>2 DEF IInv, RemembersLast
    <3>3. QED
      BY <3>1, <3>2
  <2>2. QED
    BY <2>1 DEF RemembersLast
<1>5. Uncontested'
  <2>1. ASSUME NEW q \in Publishers, NEW t \in Sources,
               sticky'[q].at # Never, t # sticky'[q].source,
               sticky'[q].at - won'[q][t] <= Window
        PROVE  Rank[sticky'[q].source] < Rank[t]
    <3>1. CASE q = p
      BY <3>1, <2>1, <1>2, <1>3
    <3>2. CASE q # p
      BY <3>2, <2>1, <1>2 DEF IInv, Uncontested
    <3>3. QED
      BY <3>1, <3>2
  <2>2. QED
    BY <2>1 DEF Uncontested
<1>6. Covered'
  <2>1. now - now <= Window
    BY DEF IInv, SelectionTypes
  <2>2. \A q \in Publishers : heard'[q] = IF q = p THEN now ELSE heard[q]
    BY DEF IInv, SelectionTypes
  <2>3. QED
    BY <2>1, <2>2, <1>2 DEF IInv, Covered
<1>7. QED
  BY <1>1, <1>3, <1>4, <1>5, <1>6 DEF IInv

LEMMA StepHolds == IInv /\ [Next]_vars => IInv'
<1> SUFFICES ASSUME IInv, [Next]_vars PROVE IInv'
  OBVIOUS
<1>1. CASE \E p \in Publishers, candidates \in (SUBSET Sources) \ {{}} : Receive(p, candidates)
  <2>1. PICK p \in Publishers, candidates \in (SUBSET Sources) \ {{}} : Receive(p, candidates)
    BY <1>1
  <2>2. Best(p, candidates) \in Sources
    BY <2>1, BestExists
  <2>3. CASE Retains(p, Best(p, candidates))
    BY <2>1, <2>3, SuppressedHolds DEF Receive, Retains
  <2>4. CASE ~Retains(p, Best(p, candidates))
    BY <2>1, <2>2, <2>4, WinHolds DEF Receive
  <2>5. QED
    BY <2>3, <2>4
<1>2. CASE \E p \in Publishers : Post(p)
  BY <1>2 DEF Post, IInv, SelectionTypes, RemembersLast, Uncontested, Covered
<1>3. CASE Tick
  BY <1>3, ConstantTypes
     DEF Tick, IInv, SelectionTypes, RemembersLast, Uncontested, Covered
<1>4. CASE UNCHANGED vars
  BY <1>4 DEF vars, IInv, SelectionTypes, RemembersLast, Uncontested, Covered
<1>5. QED
  BY <1>1, <1>2, <1>3, <1>4 DEF Next

THEOREM Inductive == Spec => []IInv
<1>1. QED
  BY InitHolds, StepHolds, PTL DEF Spec

-----------------------------------------------------------------------------
(* Types. *)

(* Every post has a winner: compareRankedCandidates orders its items.       *)
LEMMA GateWinnerExists ==
  ASSUME NEW items \in Seq(Selected), items # <<>>
  PROVE  GateWinner(items) \in Selected
<1>1. Range(items) \subseteq Selected /\ Range(items) # {}
  <2>1. Len(items) \in Nat /\ Len(items) # 0 /\ DOMAIN items = 1..Len(items)
        /\ \A k \in 1..Len(items) : items[k] \in Selected
    <3> HIDE DEF Selected
    <3>1. QED
      OBVIOUS
  <2>2. items[1] \in Range(items)
    BY <2>1 DEF Range
  <2>3. QED
    BY <2>1, <2>2 DEF Range
<1>2. GateRank \in [Sources -> Nat] /\ Sources \subseteq Nat /\ MaxTime \in Nat /\ Times \subseteq Nat
      /\ \A t \in Times : MaxTime - t \in Nat
  BY SelectionAssumption DEF Sources, Times, Start
<1>3. \A x \in Range(items) : x.source \in Sources /\ x.source \in Nat /\ x.at \in Times
                              /\ x.at \in Nat /\ GateRank[x.source] \in Nat
                              /\ MaxTime - x.at \in Nat
  BY <1>1, <1>2 DEF Selected
<1> HIDE DEF Selected
<1> DEFINE ranks == {GateRank[x.source] : x \in Range(items)}
<1>4. PICK rank \in ranks : \A other \in ranks : rank <= other
  <2>1. ranks \subseteq Nat /\ ranks # {}
    BY <1>1, <1>3
  <2>2. QED
    BY <2>1, LeastNatural
<1> DEFINE best == {x \in Range(items) : GateRank[x.source] = rank}
           ages == {MaxTime - x.at : x \in best}
<1>5. best # {} /\ \A x \in best, y \in Range(items) :
                     GateRank[x.source] < GateRank[y.source] \/ y \in best
  <2>1. \A y \in Range(items) : GateRank[y.source] \in ranks /\ rank <= GateRank[y.source]
    BY <1>4
  <2>2. rank \in Nat
    BY <1>3
  <2>3. \A y \in Range(items) : rank < GateRank[y.source] \/ y \in best
    BY <1>3, <2>1, <2>2
  <2>4. QED
    BY <2>3
<1>6. PICK age \in ages : \A other \in ages : age <= other
  <2>1. ages \subseteq Nat /\ ages # {}
    BY <1>3, <1>5
  <2>2. QED
    BY <2>1, LeastNatural
<1> DEFINE newest == {x \in best : MaxTime - x.at = age}
           sources == {x.source : x \in newest}
<1>7. newest # {} /\ \A x \in newest, y \in best : x.at > y.at \/ y \in newest
  <2>1. \A y \in best : MaxTime - y.at \in ages /\ age <= MaxTime - y.at
    BY <1>6
  <2>2. \A y \in best : y.at \in Nat
    BY <1>3
  <2>3. ASSUME NEW x \in newest, NEW y \in best PROVE x.at > y.at \/ y \in newest
    <3>1. x.at \in Nat /\ y.at \in Nat /\ MaxTime - x.at = age /\ age <= MaxTime - y.at
      BY <2>1, <2>2
    <3>2. x.at > y.at \/ MaxTime - y.at = age
      BY <1>2, <3>1
    <3>3. QED
      BY <3>2
  <2>4. newest # {}
    OBVIOUS
  <2>5. QED
    BY <2>3, <2>4
<1>8. PICK source \in sources : \A other \in sources : source <= other
  <2>1. sources \subseteq Nat /\ sources # {}
    BY <1>3, <1>7
  <2>2. QED
    BY <2>1, LeastNatural
<1>9. PICK x \in newest : x.source = source
  OBVIOUS
<1>10. \A y \in Range(items) : GatePrecedes(x, y)
  <2>1. SUFFICES ASSUME NEW y \in Range(items) PROVE GatePrecedes(x, y)
    OBVIOUS
  <2>2. CASE y \in newest
    <3>1. x.source <= y.source
      BY <1>8, <1>9, <2>2
    <3>2. x.at = y.at /\ GateRank[x.source] = GateRank[y.source]
      <4>1. x.at \in Nat /\ y.at \in Nat /\ MaxTime \in Nat
        BY <1>2, <1>3
      <4>2. MaxTime - x.at = age /\ MaxTime - y.at = age
        BY <2>2
      <4>3. GateRank[x.source] = rank /\ GateRank[y.source] = rank
        BY <2>2
      <4>4. QED
        BY <4>1, <4>2, <4>3
    <3>3. QED
      BY <3>1, <3>2 DEF GatePrecedes
  <2>3. CASE y \in best /\ y \notin newest
    <3>1. x.at > y.at /\ GateRank[x.source] = GateRank[y.source]
      BY <1>7, <2>3
    <3>2. QED
      BY <3>1 DEF GatePrecedes
  <2>4. CASE y \notin best
    <3>1. GateRank[x.source] < GateRank[y.source]
      BY <1>5, <2>4
    <3>2. QED
      BY <3>1 DEF GatePrecedes
  <2>5. QED
    BY <2>2, <2>3, <2>4
<1>11. GateWinner(items) \in Range(items)
  BY <1>10, Zenon DEF GateWinner
<1>12. QED
  BY <1>1, <1>11

Typed == TypeOK /\ now <= MaxTime

LEMMA TypeStep == Typed /\ [Next]_vars => Typed'
<1> USE DEF Typed
<1>1. SUFFICES ASSUME TypeOK, now <= MaxTime, [Next]_vars PROVE TypeOK' /\ now' <= MaxTime
  OBVIOUS
<1>2. now \in Times /\ Start \in Nat /\ MaxTime \in Nat
  BY <1>1, SelectionAssumption DEF TypeOK, Times, Start
<1>3. ASSUME NEW p \in Publishers, NEW candidates \in (SUBSET Sources) \ {{}},
             Receive(p, candidates)
      PROVE  TypeOK' /\ now' <= MaxTime
  <2>1. PICK s \in Sources : s = Best(p, candidates)
    BY BestExists
  <2>2. heard' = [heard EXCEPT ![p] = now] /\ now' = now /\ row' = row
    BY <1>3 DEF Receive
  <2>3. CASE UNCHANGED <<sticky, batch, won>>
    BY <1>1, <1>2, <2>2, <2>3 DEF TypeOK
  <2>4. CASE /\ sticky' = [sticky EXCEPT ![p] = [source |-> s, at |-> now]]
             /\ batch' = [batch EXCEPT ![p] = Append(@, [source |-> s, at |-> now])]
             /\ won' = [won EXCEPT ![p][s] = now]
    <3>1. Append(batch[p], [source |-> s, at |-> now]) \in Seq(Selected)
      <4>1. batch[p] \in Seq(Selected) /\ [source |-> s, at |-> now] \in Selected
        BY <1>1, <1>2 DEF TypeOK, Selected
      <4> HIDE DEF Typed
      <4>2. QED
        BY <4>1
    <3>2. batch' \in [Publishers -> Seq(Selected)]
      BY <1>1, <2>4, <3>1 DEF TypeOK
    <3>3. won' \in [Publishers -> [Sources -> Times \cup {Never}]]
          /\ heard' \in [Publishers -> Times \cup {Never}]
          /\ sticky' \in [Publishers -> [source : Sources, at : Times \cup {Never}]]
      BY <1>1, <1>2, <2>2, <2>4 DEF TypeOK
    <3>4. QED
      BY <1>1, <2>2, <3>2, <3>3 DEF TypeOK
  <2>5. QED
    BY <1>3, <2>1, <2>3, <2>4 DEF Receive
<1>4. ASSUME NEW p \in Publishers, Post(p)
      PROVE  TypeOK' /\ now' <= MaxTime
  <2>1. batch[p] \in Seq(Selected) /\ batch[p] # <<>>
    BY <1>1, <1>4 DEF TypeOK, Post
  <2>2. PICK winner \in Selected : winner = GateWinner(batch[p])
    BY <2>1, GateWinnerExists
  <2>3. row' = [role |-> Role[p], source |-> winner.source, at |-> winner.at]
    BY <1>4, <2>2 DEF Post
  <2>4. row' \in [role : {"primary", "shadow"}, source : Sources, at : Times \cup {Never}]
    BY <2>3, SelectionAssumption DEF Selected
  <2>5. batch' \in [Publishers -> Seq(Selected)]
    BY <1>1, <1>4 DEF TypeOK, Post
  <2>6. QED
    BY <1>1, <1>4, <2>4, <2>5 DEF TypeOK, Post
<1>5. CASE Tick
  BY <1>1, <1>2, <1>5 DEF TypeOK, Tick
<1>6. CASE UNCHANGED vars
  BY <1>1, <1>6 DEF TypeOK, vars
<1>7. QED
  BY <1>1, <1>3, <1>4, <1>5, <1>6 DEF Next

(* The clock stops at the bound of the model. *)
THEOREM TypesHold == Spec => []Typed
<1>1. Init => Typed
  <2>1. SUFFICES ASSUME Init PROVE TypeOK /\ now <= MaxTime
    BY DEF Typed
  <2>2. now = Start /\ Start \in Nat /\ Start <= MaxTime /\ 1 \in Sources
    BY <2>1, SelectionAssumption DEF Init, Start, Sources
  <2>3. QED
    BY <2>1, <2>2 DEF Init, TypeOK
<1>2. QED
  BY <1>1, TypeStep, PTL DEF Spec

(* Whatever sources, ranks and posts there are, every selection and every   *)
(* gate has a winner, and it is a source that delivered the path.           *)
THEOREM TypeCorrect == Spec => []TypeOK
<1>1. Typed => TypeOK
  BY DEF Typed
<1>2. QED
  BY <1>1, TypesHold, PTL

(* No path falls silent: a source that delivers it is heard within a window. *)
THEOREM SilenceBounded == Spec => []NeverSilent
<1>1. IInv => NeverSilent
  BY DEF IInv, SelectionTypes, RemembersLast, Covered, NeverSilent
<1>2. QED
  BY <1>1, Inductive, PTL

-----------------------------------------------------------------------------
(* Flapping. *)

Displaces(p, s, t) ==
  /\ s # t
  /\ won'[p][s] # won[p][s]
  /\ now - won[p][t] <= Window

LEMMA StepKeepsOrder ==
  ASSUME IInv, [Next]_vars, NEW p \in Publishers, NEW s \in Sources, NEW t \in Sources,
         Displaces(p, s, t)
  PROVE  Rank[s] < Rank[t]
<1>1. won' # won
  BY DEF Displaces
<1>2. PICK q \in Publishers, candidates \in (SUBSET Sources) \ {{}} : Receive(q, candidates)
  BY <1>1 DEF Next, Post, Tick, vars
<1>3. Best(q, candidates) \in Sources
  BY <1>2, BestExists
<1>4. ~Retains(q, Best(q, candidates)) /\ won' = [won EXCEPT ![q][Best(q, candidates)] = now]
  BY <1>1, <1>2 DEF Receive
<1>5. q = p /\ Best(q, candidates) = s
  BY <1>3, <1>4 DEF Displaces, IInv, SelectionTypes
<1>6. QED
  BY <1>2, <1>3, <1>4, <1>5, WinHolds DEF Receive, Displaces

(* A source takes a path over from worse or silent sources only. *)
THEOREM TakeoverJustified == Spec => NoFlapping
<1>1. IInv /\ [Next]_vars => [\A p \in Publishers, s, t \in Sources :
         /\ s # t
         /\ won'[p][s] # won[p][s]
         /\ now - won[p][t] <= Window
         => Rank[s] < Rank[t]]_vars
  BY StepKeepsOrder DEF Displaces
<1>2. QED
  BY <1>1, Inductive, PTL DEF Spec, NoFlapping

-----------------------------------------------------------------------------
(* The gate. *)

(* Two items of a batch, the older one first: the younger one's source took *)
(* the path over by right, or kept it.                                      *)
Succeeds(y, x) ==
  /\ x.at <= y.at
  /\ y.at - x.at <= Window => y.source = x.source \/ Rank[y.source] < Rank[x.source]

(* The batch a collector has yet to post was selected in this way, and its  *)
(* items are no younger than what their sources won last.                   *)
BatchInv ==
  \A p \in Publishers :
    /\ \A i \in 1..Len(batch[p]) : batch[p][i].at <= won[p][batch[p][i].source]
    /\ \A i, j \in 1..Len(batch[p]) : i < j => Succeeds(batch[p][j], batch[p][i])

LEMMA AppendedBatch ==
  ASSUME NEW items \in Seq(Selected), NEW item \in Selected, NEW times \in [Sources -> Nat],
         \A i \in 1..Len(items) : items[i].at <= times[items[i].source],
         \A i, j \in 1..Len(items) : i < j => Succeeds(items[j], items[i]),
         \A i \in 1..Len(items) : Succeeds(item, items[i]),
         \A s \in Sources : times[s] <= item.at
  PROVE  LET longer == Append(items, item)
             later == [times EXCEPT ![item.source] = item.at]
         IN  /\ \A i \in 1..Len(longer) : longer[i].at <= later[longer[i].source]
             /\ \A i, j \in 1..Len(longer) : i < j => Succeeds(longer[j], longer[i])
<1> DEFINE longer == Append(items, item)
           later == [times EXCEPT ![item.source] = item.at]
<1>1. /\ \A x \in Selected : x.source \in Sources /\ x.at \in Nat
      /\ \A i \in 1..Len(items) : items[i] \in Selected
  <2>1. Times \subseteq Nat
    BY ConstantTypes DEF Times
  <2>2. \A x \in Selected : x.source \in Sources /\ x.at \in Nat
    BY <2>1 DEF Selected
  <2> HIDE DEF Selected
  <2>3. QED
    BY <2>2
<1>2. /\ Len(items) \in Nat
      /\ Len(longer) = Len(items) + 1
      /\ longer[Len(items) + 1] = item
      /\ \A i \in 1..Len(items) : longer[i] = items[i]
  OBVIOUS
<1>3. \A s \in Sources : later[s] = IF s = item.source THEN item.at ELSE times[s]
  BY <1>1
<1> HIDE DEF longer, later
<1>4. ASSUME NEW i \in 1..Len(longer) PROVE longer[i].at <= later[longer[i].source]
  <2>1. CASE i = Len(items) + 1
    BY <2>1, <1>1, <1>2, <1>3
  <2>2. CASE i \in 1..Len(items)
    <3>1. /\ items[i].source \in Sources /\ items[i].at \in Nat /\ item.at \in Nat
          /\ items[i].at <= times[items[i].source] /\ times[items[i].source] <= item.at
          /\ times[items[i].source] \in Nat
      BY <2>2, <1>1
    <3>2. items[i].at <= later[items[i].source]
      BY <3>1, <1>3
    <3>3. QED
      BY <3>2, <2>2, <1>2
  <2>3. QED
    BY <2>1, <2>2, <1>2
<1>5. ASSUME NEW i \in 1..Len(longer), NEW j \in 1..Len(longer), i < j
      PROVE  Succeeds(longer[j], longer[i])
  <2>1. i \in 1..Len(items)
    BY <1>2, <1>5
  <2>2. CASE j = Len(items) + 1
    BY <2>1, <2>2, <1>2
  <2>3. CASE j \in 1..Len(items)
    BY <2>1, <2>3, <1>2, <1>5
  <2>4. QED
    BY <2>2, <2>3, <1>2
<1>6. QED
  BY <1>4, <1>5 DEF longer, later

LEMMA BatchStep ==
  ASSUME IInv, Typed, BatchInv, [Next]_vars
  PROVE  BatchInv'
<1>0. TypeOK /\ now \in Times
  BY SelectionAssumption DEF Typed, TypeOK, Times, Start
<1>1. ASSUME NEW p \in Publishers, NEW candidates \in (SUBSET Sources) \ {{}},
             Receive(p, candidates)
      PROVE  BatchInv'
  <2>1. PICK s \in Sources : s = Best(p, candidates)
    BY BestExists
  <2>2. CASE UNCHANGED <<batch, won>>
    BY <2>2 DEF BatchInv
  <2>3. CASE /\ ~Retains(p, s)
             /\ sticky' = [sticky EXCEPT ![p] = [source |-> s, at |-> now]]
             /\ batch' = [batch EXCEPT ![p] = Append(@, [source |-> s, at |-> now])]
             /\ won' = [won EXCEPT ![p][s] = now]
             /\ heard' = [heard EXCEPT ![p] = now] /\ now' = now
    <3> DEFINE item == [source |-> s, at |-> now]
               items == batch[p]
               times == won[p]
    <3>1. \A t \in Sources : t # s /\ now - won[p][t] <= Window => Rank[s] < Rank[t]
      BY <2>3, WinHolds
    <3>2. items \in Seq(Selected) /\ times \in [Sources -> Nat] /\ now \in Nat /\ Window \in Nat
          /\ \A t \in Sources : times[t] <= now
      <4>1. items \in Seq(Selected)
        BY <1>0 DEF TypeOK
      <4>2. times \in [Sources -> Nat] /\ now \in Nat
        BY DEF IInv, SelectionTypes
      <4>3. \A t \in Sources : won[p][t] <= now
        BY DEF IInv, SelectionTypes, RemembersLast
      <4>4. QED
        BY <4>1, <4>2, <4>3, SelectionAssumption
    <3>3. \A x \in Selected : x.source \in Sources /\ x.at \in Nat
      BY ConstantTypes DEF Selected, Times
    <3>4. item \in Selected
      BY <1>0 DEF Selected
    <3>5. /\ \A i \in 1..Len(items) : items[i].at <= times[items[i].source]
          /\ \A i, j \in 1..Len(items) : i < j => Succeeds(items[j], items[i])
      BY DEF BatchInv
    <3>6. ASSUME NEW i \in 1..Len(items) PROVE Succeeds(item, items[i])
      <4>1. items[i] \in Selected
        <5> HIDE DEF Selected
        <5>1. QED
          BY <3>2
      <4>2. /\ items[i].source \in Sources /\ items[i].at \in Nat
            /\ times[items[i].source] \in Nat
            /\ items[i].at <= times[items[i].source] /\ times[items[i].source] <= now
        BY <4>1, <3>2, <3>3, <3>5
      <4>3. now - items[i].at <= Window => now - times[items[i].source] <= Window
        BY <4>2, <3>2, SMTT(20)
      <4>4. item.source = s /\ item.at = now
        OBVIOUS
      <4>5. items[i].source = s \/ ~(now - items[i].at <= Window) \/ Rank[s] < Rank[items[i].source]
        BY <4>2, <4>3, <3>1
      <4> HIDE DEF item, items, times
      <4>6. QED
        BY <4>2, <4>4, <4>5, <3>2 DEF Succeeds
    <3>7. LET longer == Append(items, item)
              later == [times EXCEPT ![item.source] = item.at]
          IN  /\ \A i \in 1..Len(longer) : longer[i].at <= later[longer[i].source]
              /\ \A i, j \in 1..Len(longer) : i < j => Succeeds(longer[j], longer[i])
      <4> HIDE DEF items, times
      <4>1. item.at = now
        OBVIOUS
      <4>2. QED
        BY <4>1, <3>2, <3>4, <3>5, <3>6, AppendedBatch
    <3>8. /\ batch'[p] = Append(items, item)
          /\ won'[p] = [times EXCEPT ![item.source] = item.at]
          /\ \A q \in Publishers : q # p => batch'[q] = batch[q] /\ won'[q] = won[q]
      BY <1>0, <2>3 DEF TypeOK
    <3>9. QED
      BY <3>7, <3>8 DEF BatchInv
  <2>4. QED
    BY <1>1, <2>1, <2>2, <2>3 DEF Receive
<1>2. ASSUME NEW p \in Publishers, Post(p)
      PROVE  BatchInv'
  <2>1. batch'[p] = <<>> /\ won' = won
        /\ \A q \in Publishers : q # p => batch'[q] = batch[q]
    BY <1>0, <1>2 DEF Post, TypeOK
  <2>2. QED
    BY <2>1 DEF BatchInv
<1>3. CASE Tick \/ UNCHANGED vars
  BY <1>3 DEF Tick, vars, BatchInv
<1>4. QED
  BY <1>1, <1>2, <1>3 DEF Next

(* The gate ranks a source before another where the collector does; sources  *)
(* the collector takes for equal it may rank as it likes.                   *)
GateKeepsOrder ==
  \A s, t \in Sources : Rank[s] < Rank[t] => GateRank[s] < GateRank[t]

(* Of a batch that was selected in this way and spans no more than a window, *)
(* the gate takes the last item.                                            *)
LEMMA GateTakesLast ==
  ASSUME GateKeepsOrder, NEW items \in Seq(Selected), items # <<>>,
         \A i, j \in 1..Len(items) : i < j => Succeeds(items[j], items[i]),
         Last(items).at - Head(items).at <= Window
  PROVE  /\ GateWinner(items).source = Last(items).source
         /\ GateWinner(items).at = Last(items).at
<1> DEFINE n == Len(items)
<1>1. /\ n \in Nat \ {0} /\ Head(items) = items[1] /\ Last(items) = items[n]
      /\ \A i \in 1..n : items[i] \in Selected
      /\ Range(items) = {items[i] : i \in 1..n}
  <2> HIDE DEF Selected
  <2>1. QED
    BY DEF Last, Range
<1>2. \A x \in Selected : /\ x.source \in Sources /\ x.source \in Nat /\ x.at \in Nat
                          /\ Rank[x.source] \in Nat /\ GateRank[x.source] \in Nat
  <2>1. \A x \in Selected : x.source \in Sources /\ x.source \in Nat /\ x.at \in Nat
    BY ConstantTypes DEF Selected, Times, Sources
  <2> HIDE DEF Selected
  <2>2. \A s \in Sources : Rank[s] \in Nat /\ GateRank[s] \in Nat
    BY SelectionAssumption
  <2>3. QED
    BY <2>1, <2>2
<1> HIDE DEF Selected
<1>3. Window \in Nat /\ items[1].at \in Nat /\ items[n].at \in Nat
      /\ items[n].at - items[1].at <= Window
  BY <1>1, <1>2, ConstantTypes
<1>4. ASSUME NEW i \in 1..n
      PROVE  /\ items[i].at <= items[n].at
             /\ \/ items[i].source = items[n].source
                \/ Rank[items[n].source] < Rank[items[i].source]
  <2>1. items[i].at \in Nat
    BY <1>1, <1>2
  <2>2. CASE i = n
    BY <2>1, <2>2
  <2>3. CASE i # n
    <3>1. Succeeds(items[n], items[i])
      BY <2>3, <1>1
    <3>2. i = 1 \/ Succeeds(items[i], items[1])
      BY <1>1
    <3>3. items[1].at <= items[i].at
      BY <3>2, <2>1 DEF Succeeds
    <3>4. items[n].at - items[i].at <= Window
      BY <3>3, <2>1, <1>3
    <3>5. QED
      BY <3>1, <3>4 DEF Succeeds
  <2>4. QED
    BY <2>2, <2>3
<1>5. \A y \in Range(items) : GatePrecedes(items[n], y)
  <2>1. SUFFICES ASSUME NEW i \in 1..n PROVE GatePrecedes(items[n], items[i])
    BY <1>1
  <2>2. items[i] \in Selected /\ items[n] \in Selected
    BY <1>1
  <2>3. \/ items[i].source = items[n].source
        \/ GateRank[items[n].source] < GateRank[items[i].source]
    BY <2>2, <1>2, <1>4 DEF GateKeepsOrder
  <2>4. QED
    BY <2>2, <2>3, <1>2, <1>4 DEF GatePrecedes
<1>6. items[n] \in Range(items)
  BY <1>1
<1>7. GateWinner(items) \in Range(items) /\ GatePrecedes(GateWinner(items), items[n])
  BY <1>5, <1>6, Zenon DEF GateWinner
<1>8. PICK i \in 1..n : GateWinner(items) = items[i]
  BY <1>1, <1>7
<1>9. items[i] \in Selected /\ items[n] \in Selected
  BY <1>1
<1>10. items[i].source = items[n].source /\ items[i].at = items[n].at
  <2>1. \/ items[i].source = items[n].source
        \/ GateRank[items[n].source] < GateRank[items[i].source]
    BY <1>2, <1>4, <1>9 DEF GateKeepsOrder
  <2>2. QED
    BY <2>1, <1>2, <1>4, <1>7, <1>8, <1>9 DEF GatePrecedes
<1>11. QED
  BY <1>1, <1>8, <1>10

(* A gate that keeps the collector's order finds nothing to undo: of a      *)
(* batch that spans no more than a window it takes the item selected last,  *)
(* although it has no memory of the winners before.                         *)
THEOREM GateConfirms ==
  ASSUME GateKeepsOrder
  PROVE  Spec => GateAgrees
<1>1. Init => BatchInv
  BY DEF Init, BatchInv
<1>2. IInv /\ Typed /\ BatchInv /\ [Next]_vars => BatchInv'
  BY BatchStep
<1>3. ASSUME Typed, BatchInv, [Next]_vars
      PROVE  [\A p \in Publishers :
                /\ batch[p] # <<>> /\ batch'[p] = <<>>
                /\ Last(batch[p]).at - Head(batch[p]).at <= Window
                => row'.source = Last(batch[p]).source /\ row'.at = Last(batch[p]).at]_vars
  <2>0. TypeOK
    BY <1>3 DEF Typed
  <2>1. SUFFICES ASSUME NEW p \in Publishers, Next, batch[p] # <<>>, batch'[p] = <<>>,
                        Last(batch[p]).at - Head(batch[p]).at <= Window
                 PROVE  row'.source = Last(batch[p]).source /\ row'.at = Last(batch[p]).at
    BY <1>3
  <2>2. batch[p] \in Seq(Selected)
    BY <2>0 DEF TypeOK
  <2>3. Post(p)
    <3>1. ASSUME NEW q \in Publishers, NEW candidates, Receive(q, candidates) PROVE FALSE
      <4>1. PICK item : batch' \in {batch, [batch EXCEPT ![q] = Append(@, item)]}
        BY <3>1 DEF Receive
      <4>2. Append(batch[p], item) # <<>>
        BY <2>2
      <4>3. QED
        BY <4>1, <4>2, <2>0, <2>1 DEF TypeOK
    <3>2. ASSUME NEW q \in Publishers, Post(q) PROVE q = p
      BY <3>2, <2>0, <2>1 DEF Post, TypeOK
    <3>3. ~Tick
      BY <2>1 DEF Tick
    <3>4. QED
      BY <3>1, <3>2, <3>3, <2>1 DEF Next
  <2>4. \A i, j \in 1..Len(batch[p]) : i < j => Succeeds(batch[p][j], batch[p][i])
    BY <1>3 DEF BatchInv
  <2>5. /\ GateWinner(batch[p]).source = Last(batch[p]).source
        /\ GateWinner(batch[p]).at = Last(batch[p]).at
    BY <2>1, <2>2, <2>4, GateTakesLast
  <2>6. QED
    BY <2>3, <2>5 DEF Post
<1>4. QED
  BY <1>1, <1>2, <1>3, Inductive, TypesHold, PTL DEF Spec, GateAgrees
=============================================================================
