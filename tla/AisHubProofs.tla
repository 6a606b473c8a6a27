----------------------------- MODULE AisHubProofs -----------------------------
(***************************************************************************)
(* The properties of AisHub hold for any number of requests, vessels and    *)
(* reports, and whatever the cooldown and the life of the cache are.        *)
(***************************************************************************)
EXTENDS AisHub, TLAPS

LookupSteps == {"readCache", "readLast", "send", "answer"}
RollingSteps == {"skip", "upsert", "track", "refreshCopies", "succeed", "fail"}

(* What a request holds where it is, whatever the others do: before its     *)
(* answer nothing; results of the cache or a browser only a search and a    *)
(* submitted vessel; never more than the hub heard.                         *)
Fits(x) ==
  /\ x.pc \in LookupSteps \cup {"idle", "skip", "fail"} => x.results = Empty
  /\ x.pc \in LookupSteps \cup {"record"} => ~x.own /\ ~x.stale
  /\ x.pc = "readCache" => x.kind = "search"
  /\ x.stale => x.kind \in {"search", "submit"}
  /\ x.kind = "submit" => x.own
  /\ x.own => x.kind \in {"follow", "submit"} /\ x.asked \subseteq Rows(x.results)
  /\ x.kind = "follow" /\ ~x.own => x.asked \subseteq Rows(x.stored)
  /\ x.kind = "none" => x.pc = "idle"
  /\ x.kind = "rolling" => /\ x.pc \in {"readLast", "send", "answer", "record", "done"}
                                       \cup RollingSteps
  /\ x.pc \in RollingSteps => x.kind = "rolling"
  /\ x.pc \in {"upsert", "remember", "follow"} => x.todo \subseteq Rows(x.results)
  /\ x.at <= clock
  /\ \A m \in Mmsis : x.results[m] <= upstream[m] /\ x.stored[m] <= upstream[m]

(* Nor are there later reports in the search cache and in the catalog, now  *)
(* or before; a row that is not there never was.                            *)
Known ==
  \A m \in Mmsis : /\ catalog[m] <= held[m] /\ held[m] <= upstream[m]
                   /\ catalog[m] = Absent => held[m] = 0
                   /\ cache.results[m] <= upstream[m]

(* Beside a request that has met none, none runs.                           *)
Alone == \A q, r \in Requests : Runs(q) /\ Runs(r) /\ ~requests[r].met => q = r

Core == TypeOK /\ (\A r \in Requests : Fits(requests[r])) /\ Known /\ Alone

(* A report that is no step back for its row, with the latest it has held.  *)
Fresh(report, row, latest) == report = 0 \/ report = row \/ latest <= report

(* A request that has met none finds the catalog as it left it, and leaves  *)
(* the copies as it promises, vessel by vessel.                             *)
Solo(x, cat, top, copies) ==
  LET Agrees(m) == copies[m] \in {Absent, cat[m]} IN
  /\ ~x.stale => \A m \in Rows(x.results) : Fresh(x.results[m], cat[m], top[m])
  /\ x.kind = "follow" /\ ~x.own =>
       \A m \in x.asked : x.results[m] = Absent => Fresh(x.stored[m], cat[m], top[m])
  /\ x.pc = "remember" => \A m \in Rows(x.results) \ x.todo : cat[m] = x.results[m]
  /\ x.pc \in {"readRows", "copyRows", "follow"} =>
       \A m \in Rows(x.results) : cat[m] = x.results[m]
  /\ x.pc = "copyRows" =>
       \A m \in Rows(x.results) :
         x.rows[m] \in {Absent, cat[m]} /\ (x.rows[m] = Absent => Agrees(m))
  /\ x.pc = "copyRows" => Rows(x.rows) \subseteq Rows(x.results)
  /\ x.pc = "upsert" => \A m \in Rows(x.results) \ x.todo : cat[m] # Absent
  /\ x.pc \in {"track", "refreshCopies"} => \A m \in Rows(x.results) : cat[m] # Absent
  /\ x.pc = "refreshCopies" => \A m \in Rows(x.results) \ x.todo : Agrees(m)
  /\ x.pc \in {"follow", "setCache", "succeed", "done"} => \A m \in Rows(x.results) : Agrees(m)
Unmet ==
  \A r \in Requests : Runs(r) /\ ~requests[r].met => Solo(requests[r], catalog, held, followed)

(* Unless lookups overlapped or one was lost: one is on its way at most, as *)
(* late as the last one sent; and when none is, that one is on record.      *)
Asks(r) == At(r, "answer") \/ At(r, "record")
Apart ==
  /\ lastLookup <= clock
  /\ ~overlapped /\ ~lost =>
       /\ \A q, r \in Requests : Asks(q) /\ Asks(r) => q = r
       /\ \A r \in Requests : Asks(r) => requests[r].at >= lastLookup
       /\ (\A r \in Requests : ~Asks(r)) => lastRequestAt >= lastLookup

(* A sync that runs has yet to write its outcome.                           *)
Settled ==
  status = "running" /\ ~cutOff =>
    \E r \in Requests : requests[r].kind = "rolling" /\ requests[r].pc # "done"

IInv == Core /\ Unmet /\ Apart /\ Settled

-----------------------------------------------------------------------------
(* Tables and requests. *)

(* The types of the invariant, one fact each. *)
LEMMA Types ==
  ASSUME TypeOK
  PROVE  /\ upstream \in [Mmsis -> Reports] /\ held \in [Mmsis -> Reports]
         /\ catalog \in Table /\ followed \in Table
         /\ lastRequestAt \in Times /\ lastLookup \in Times
         /\ cache \in [results : Table, expiresAt : 0..(MaxTime + CacheTTL)]
         /\ status \in {"idle", "running", "skipped", "success", "error"}
         /\ requests \in [Requests -> RequestType]
         /\ begun \in 0..MaxRequests /\ clock \in 0..MaxTime
         /\ overlapped \in BOOLEAN /\ lost \in BOOLEAN /\ cutOff \in BOOLEAN
BY DEF TypeOK

LEMMA ZeroTime == 0 \in Times /\ NeverAsked \in Times /\ 0..MaxTime \subseteq Times
BY AisHubAssumption DEF Times, NeverAsked

LEMMA EmptyTable == Empty \in Table /\ (\A m \in Mmsis : Empty[m] = Absent) /\ Rows(Empty) = {}
BY DEF Empty, Table, Rows

LEMMA OnlyTable ==
  ASSUME NEW table \in Table, NEW ms
  PROVE  /\ Only(table, ms) \in Table
         /\ \A m \in Mmsis : Only(table, ms)[m] = IF m \in ms THEN table[m] ELSE Absent
BY DEF Only, Table

LEMMA HeardTable ==
  ASSUME TypeOK, NEW ms, NEW undated
  PROVE  /\ Heard(ms, undated) \in Table
         /\ \A m \in Mmsis : Heard(ms, undated)[m] \in {Absent, 0, upstream[m]}
<1>1. upstream \in [Mmsis -> Reports] /\ 0 \in Reports
  BY AisHubAssumption DEF TypeOK, Reports
<1>2. QED
  BY <1>1 DEF Heard, Table

(* The history of the catalog follows it. *)
LEMMA HeldFollows ==
  ASSUME TypeOK, Known, NEW table \in Table, \A m \in Mmsis : table[m] <= upstream[m]
  PROVE  /\ Held(table) \in [Mmsis -> Reports]
         /\ \A m \in Mmsis : /\ table[m] <= Held(table)[m] /\ Held(table)[m] <= upstream[m]
                             /\ table[m] = catalog[m] => Held(table)[m] = held[m]
<1>1. \A m \in Mmsis : /\ table[m] \in Reports \cup {Absent} /\ held[m] \in Reports
                       /\ catalog[m] <= held[m] /\ held[m] <= upstream[m]
  BY DEF TypeOK, Table, Known
<1>2. \A m \in Mmsis : Held(table)[m] = IF table[m] > held[m] THEN table[m] ELSE held[m]
  BY DEF Held
<1>3. \A m \in Mmsis : Held(table)[m] \in Reports
  BY <1>1, <1>2, AisHubAssumption DEF Reports, Absent
<1>4. \A m \in Mmsis : /\ table[m] <= Held(table)[m] /\ Held(table)[m] <= upstream[m]
                       /\ table[m] = catalog[m] => Held(table)[m] = held[m]
  BY <1>1, <1>2, AisHubAssumption DEF Reports, Absent
<1>5. Held(table) \in [Mmsis -> Reports]
  BY <1>3 DEF Held
<1>6. QED
  BY <1>4, <1>5

LEMMA IdleType == Idle \in RequestType
BY EmptyTable, ZeroTime DEF Idle, RequestType, Kinds, Steps

(* What a request goes to, and that the others stay. *)
LEMMA GoesTo ==
  ASSUME TypeOK, NEW r \in Requests, NEW request \in RequestType, Goes(r, request)
  PROVE  /\ requests' \in [Requests -> RequestType]
         /\ requests'[r] = request
         /\ \A q \in Requests \ {r} : requests'[q] = requests[q]
BY DEF Goes, TypeOK

LEMMA GotoType ==
  ASSUME TypeOK, NEW r \in Requests, NEW step \in Steps
  PROVE  [requests[r] EXCEPT !.pc = step] \in RequestType
BY DEF TypeOK, RequestType

LEMMA RemembersType ==
  ASSUME NEW request \in RequestType, NEW next \in Steps
  PROVE  Remembers(request, next) \in RequestType
<1>1. Rows(request.results) \in SUBSET Mmsis
  BY DEF Rows
<1>2. (IF Rows(request.results) = {} THEN next ELSE "remember") \in Steps
  BY DEF Steps
<1>3. QED
  BY <1>1, <1>2, ZeroTime DEF Remembers, RequestType

LEMMA AuthoritativeTable ==
  ASSUME NEW request \in RequestType, NEW answer \in Table
  PROVE  Authoritative(request, answer) \in Table
BY AisHubAssumption DEF Authoritative, RequestType, Table, Reports

LEMMA ToFollowType ==
  ASSUME NEW request \in RequestType, NEW answer \in Table
  PROVE  ToFollow(request, answer) \in RequestType
<1>1. [request EXCEPT !.results = Authoritative(request, answer), !.own = TRUE,
                      !.stored = Empty, !.seen = 0] \in RequestType
  BY AuthoritativeTable, EmptyTable, ZeroTime DEF RequestType
<1>2. QED
  BY <1>1, RemembersType DEF ToFollow, Steps

LEMMA AfterRememberType ==
  ASSUME NEW request \in RequestType
  PROVE  AfterRemember(request) \in RequestType
<1>1. request.results \in Table
  BY DEF RequestType
<1>2. CASE request.kind = "search"
  BY <1>2 DEF AfterRemember, RequestType, Steps
<1>3. CASE request.kind = "refresh"
  BY <1>3 DEF AfterRemember, RequestType, Steps
<1>4. CASE request.kind \notin {"search", "refresh"} /\ request.own
  BY <1>4 DEF AfterRemember, RequestType, Steps
<1>5. CASE request.kind \notin {"search", "refresh"} /\ ~request.own
  BY <1>1, <1>5, ToFollowType DEF AfterRemember
<1>6. QED
  BY <1>2, <1>3, <1>4, <1>5

-----------------------------------------------------------------------------
(* A request goes on, or begins. *)

(* A step of a running request that leaves the hub and the clock: the other *)
(* requests hold what they held, and none has met nobody.                   *)
LEMMA Put ==
  ASSUME Core, NEW r \in Requests, Runs(r), NEW x \in RequestType, Fits(x), Goes(r, x),
         x.pc = "idle" \/ x.met = requests[r].met,
         UNCHANGED <<upstream, clock>>
  PROVE  /\ requests' \in [Requests -> RequestType]
         /\ \A q \in Requests : Fits(requests[q])'
         /\ Alone'
         /\ requests'[r] = x
         /\ \A q \in Requests \ {r} : requests'[q] = requests[q]
         /\ ~x.met /\ x.pc # "idle" => \A q \in Requests \ {r} : ~Runs(q)'
<1>1. TypeOK /\ Alone /\ \A q \in Requests : Fits(requests[q])
  BY DEF Core
<1>2. /\ requests' \in [Requests -> RequestType] /\ requests'[r] = x
      /\ \A q \in Requests \ {r} : requests'[q] = requests[q]
  BY <1>1, GoesTo
<1>3. \A y : Fits(y) <=> Fits(y)'
  BY DEF Fits, Rows
<1>4. \A q \in Requests : Fits(requests[q])'
  BY <1>1, <1>2, <1>3
<1>5. Alone'
  BY <1>1, <1>2 DEF Alone, Runs
<1>6. ~x.met /\ x.pc # "idle" => \A q \in Requests \ {r} : ~Runs(q)'
  BY <1>1, <1>2 DEF Alone, Runs
<1>7. QED
  BY <1>2, <1>4, <1>5, <1>6

WorldType ==
  /\ upstream \in [Mmsis -> Reports] /\ held \in [Mmsis -> Reports]
  /\ catalog \in Table /\ followed \in Table
  /\ lastRequestAt \in Times /\ lastLookup \in Times
  /\ cache \in [results : Table, expiresAt : 0..(MaxTime + CacheTTL)]
  /\ status \in {"idle", "running", "skipped", "success", "error"}
  /\ begun \in 0..MaxRequests /\ clock \in 0..MaxTime
  /\ overlapped \in BOOLEAN /\ lost \in BOOLEAN /\ cutOff \in BOOLEAN

Inv == Core /\ Unmet

LEMMA WorldTypes == Core => WorldType /\ TypeOK /\ Known
BY DEF Core, TypeOK, WorldType

(* What a running request is known to be. *)
LEMMA RequestFacts ==
  ASSUME Inv, NEW r \in Requests
  PROVE  /\ requests[r] \in RequestType /\ Fits(requests[r])
         /\ Runs(r) /\ ~requests[r].met => Solo(requests[r], catalog, held, followed)
BY DEF Inv, Core, Unmet, TypeOK

(* A step of a running request that may write a table. *)
LEMMA Moves ==
  ASSUME Inv, NEW r \in Requests, Runs(r), NEW x \in RequestType, Fits(x), Goes(r, x),
         x.pc = "idle" \/ x.met = requests[r].met,
         UNCHANGED <<upstream, clock>>, WorldType', Known',
         ~x.met /\ x.pc # "idle" => Solo(x, catalog', held', followed')
  PROVE  Inv'
<1>1. /\ requests' \in [Requests -> RequestType]
      /\ \A q \in Requests : Fits(requests[q])'
      /\ Alone'
      /\ requests'[r] = x
      /\ ~x.met /\ x.pc # "idle" => \A q \in Requests \ {r} : ~Runs(q)'
      /\ \A q \in Requests \ {r} : requests'[q] = requests[q]
  BY Put DEF Inv
<1>2. TypeOK'
  BY <1>1 DEF TypeOK, WorldType
<1>3. ASSUME NEW q \in Requests, Runs(q)', ~requests'[q].met
      PROVE  Solo(requests[q], catalog, held, followed)'
  <2>1. CASE q = r
    BY <1>1, <1>3, <2>1 DEF Runs
  <2>2. CASE q # r
    BY <1>1, <1>3, <2>2 DEF Inv, Core, Alone, Runs
  <2>3. QED
    BY <2>1, <2>2
<1>4. QED
  BY <1>1, <1>2, <1>3 DEF Inv, Core, Unmet

(* A step of a running request that writes no table. *)
LEMMA Turns ==
  ASSUME Inv, NEW r \in Requests, Runs(r), NEW x \in RequestType, Fits(x), Goes(r, x),
         x.met = requests[r].met, Solo(requests[r], catalog, held, followed) => Solo(x, catalog, held, followed),
         UNCHANGED <<tables, world>>, WorldType', Known'
  PROVE  Inv'
<1>1. ~x.met => Solo(x, catalog', held', followed')
  BY RequestFacts DEF tables, catalogRows
<1>2. QED
  BY <1>1, Moves, RequestFacts DEF world

LEMMA SameWorld ==
  ASSUME Core, UNCHANGED <<tables, limits, sync, world, cache, begun>>
  PROVE  WorldType' /\ Known'
BY WorldTypes DEF tables, catalogRows, limits, sync, world, WorldType, Known

(* A request begins; whoever runs meets it, and it meets them. *)
LEMMA Begins ==
  ASSUME Inv, NEW r \in Requests, NEW x \in RequestType, Fits(x),
         Solo(x, catalog, held, followed), x.pc # "idle", Begin(r, x),
         UNCHANGED <<tables, upstream, clock>>, cache' = cache,
         lastRequestAt' \in Times /\ lastLookup' \in Times,
         status' \in {"idle", "running", "skipped", "success", "error"},
         overlapped' \in BOOLEAN /\ lost' \in BOOLEAN /\ cutOff' \in BOOLEAN
  PROVE  Inv'
<1>1. /\ WorldType /\ TypeOK /\ Known /\ Alone
      /\ \A q \in Requests : requests[q] \in RequestType /\ Fits(requests[q])
  BY WorldTypes, RequestFacts DEF Inv, Core
<1>2. WorldType' /\ Known'
  BY <1>1, AisHubAssumption DEF WorldType, Known, Begin, tables, catalogRows
<1>3. requests' \in [Requests -> RequestType]
  BY <1>1, ZenonT(40) DEF Begin, RequestType, Runs
<1>4. \A q \in Requests : \E b \in BOOLEAN :
        requests'[q] = IF q = r THEN [x EXCEPT !.met = b]
                       ELSE IF Runs(q) THEN [requests[q] EXCEPT !.met = b] ELSE requests[q]
  BY DEF Begin, Runs
<1>5. \A y \in RequestType, b \in BOOLEAN : Fits(y) => Fits([y EXCEPT !.met = b])'
  BY DEF Fits, Rows, RequestType
<1>6. \A y \in RequestType : Fits(y) => Fits(y)'
  BY DEF Fits, Rows
<1>7. \A q \in Requests : Fits(requests[q])'
  BY <1>1, <1>4, <1>5, <1>6
<1>8. /\ ~Runs(r) /\ Runs(r)'
      /\ \A q \in Requests : Runs(q)' /\ ~requests'[q].met =>
           q = r /\ \A p \in Requests : ~Runs(p)
  BY DEF Begin, Runs, RequestType
<1>9. \A p \in Requests \ {r} : Runs(p)' => Runs(p)
  BY <1>1 DEF Begin, Runs, RequestType
<1>10. Alone'
  BY <1>8, <1>9 DEF Alone
<1>11. requests'[r] = [x EXCEPT !.met = requests'[r].met]
  BY DEF Begin, RequestType
<1>12. \A b \in BOOLEAN : Solo([x EXCEPT !.met = b], catalog, held, followed)
  BY DEF Solo, Rows, RequestType
<1>13. Unmet'
  BY <1>3, <1>8, <1>11, <1>12 DEF Unmet, RequestType, tables, catalogRows
<1>14. QED
  BY <1>2, <1>3, <1>7, <1>10, <1>13 DEF Inv, Core, TypeOK, WorldType

-----------------------------------------------------------------------------
(* The requests that the helpers of the actions build. *)

Bounded(table) == \A m \in Mmsis : table[m] <= upstream[m]

LEMMA IdleFits == Core => Fits(Idle)
BY EmptyTable, Types, AisHubAssumption
   DEF Core, Fits, Idle, LookupSteps, RollingSteps, Reports, Absent

LEMMA RemembersHolds ==
  ASSUME Core, NEW x \in RequestType, Bounded(x.results), Bounded(x.stored),
         x.kind \in {"search", "submit", "follow", "refresh"},
         x.stale => x.kind \in {"search", "submit"},
         x.kind = "submit" => x.own,
         x.own => x.kind \in {"follow", "submit"} /\ x.asked \subseteq Rows(x.results),
         x.kind = "follow" /\ ~x.own => x.asked \subseteq Rows(x.stored)
  PROVE  /\ Fits(Remembers(x, "done"))
         /\ Remembers(x, "done").met = x.met
         /\ Remembers(x, "done").pc # "idle"
         /\ \A cat \in Table, top \in [Mmsis -> Reports], copies \in Table :
              /\ ~x.stale => \A m \in Rows(x.results) : Fresh(x.results[m], cat[m], top[m])
              /\ x.kind = "follow" /\ ~x.own =>
                   \A m \in x.asked : x.results[m] = Absent => Fresh(x.stored[m], cat[m], top[m])
              => Solo(Remembers(x, "done"), cat, top, copies)
<1>1. clock >= 0
  BY Types, AisHubAssumption DEF Core
<1>2. Rows(x.results) \in SUBSET Mmsis
  BY DEF Rows
<1> DEFINE y == Remembers(x, "done")
<1>3. /\ y.kind = x.kind /\ y.asked = x.asked /\ y.results = x.results /\ y.stored = x.stored
      /\ y.own = x.own /\ y.stale = x.stale /\ y.met = x.met /\ y.at = 0
      /\ y.todo = Rows(x.results) /\ y.pc \in {"remember", "done"}
      /\ y.pc = "done" => Rows(x.results) = {}
  BY <1>2 DEF Remembers, RequestType
<1> HIDE DEF y
<1>4. Fits(y)
  BY <1>1, <1>3 DEF Fits, LookupSteps, RollingSteps, Bounded
<1>5. ASSUME NEW cat \in Table, NEW top \in [Mmsis -> Reports], NEW copies \in Table,
             ~x.stale => \A m \in Rows(x.results) : Fresh(x.results[m], cat[m], top[m]),
             x.kind = "follow" /\ ~x.own =>
               \A m \in x.asked : x.results[m] = Absent => Fresh(x.stored[m], cat[m], top[m])
      PROVE  Solo(y, cat, top, copies)
  BY <1>3, <1>5 DEF Solo
<1>6. QED
  BY <1>3, <1>4, <1>5 DEF y

LEMMA ToFollowHolds ==
  ASSUME Core, NEW x \in RequestType, x.kind = "follow", ~x.stale, Bounded(x.stored),
         x.asked \subseteq Rows(x.stored), NEW answer \in Table, Bounded(answer)
  PROVE  /\ Fits(ToFollow(x, answer))
         /\ ToFollow(x, answer).met = x.met
         /\ ToFollow(x, answer).pc # "idle"
         /\ \A cat \in Table, top \in [Mmsis -> Reports], copies \in Table :
              (\A m \in x.asked : IF answer[m] = Absent THEN Fresh(x.stored[m], cat[m], top[m])
                                  ELSE Fresh(answer[m], cat[m], top[m]))
              => Solo(ToFollow(x, answer), cat, top, copies)
<1> DEFINE results == Authoritative(x, answer)
           y == [x EXCEPT !.results = results, !.own = TRUE, !.stored = Empty, !.seen = 0]
<1>1. results \in Table
  BY AuthoritativeTable
<1>2. y \in RequestType
  BY <1>1, EmptyTable, ZeroTime DEF RequestType
<1>3. /\ y.kind = "follow" /\ ~y.stale /\ y.own /\ y.met = x.met /\ y.asked = x.asked
      /\ y.results = results /\ y.stored = Empty
  BY <1>1 DEF RequestType
<1>4. upstream \in [Mmsis -> Reports] /\ x.stored \in Table /\ x.asked \subseteq Mmsis
  BY Types DEF Core, RequestType
<1>5. Bounded(results) /\ Bounded(Empty) /\ Rows(results) = x.asked
  BY <1>4, AisHubAssumption DEF Bounded, Authoritative, Rows, Reports, Absent, Empty, Table
<1>6. \A cat, top :
        (\A m \in x.asked : IF answer[m] = Absent THEN Fresh(x.stored[m], cat[m], top[m])
                            ELSE Fresh(answer[m], cat[m], top[m]))
        => \A m \in x.asked : Fresh(results[m], cat[m], top[m])
  BY <1>4 DEF Authoritative
<1> HIDE DEF y, results
<1>7. /\ Fits(Remembers(y, "done"))
      /\ Remembers(y, "done").met = y.met
      /\ Remembers(y, "done").pc # "idle"
      /\ \A cat \in Table, top \in [Mmsis -> Reports], copies \in Table :
           (\A m \in Rows(y.results) : Fresh(y.results[m], cat[m], top[m]))
           => Solo(Remembers(y, "done"), cat, top, copies)
  BY <1>2, <1>3, <1>5, RemembersHolds
<1>8. ToFollow(x, answer) = Remembers(y, "done")
  BY DEF ToFollow, y, results
<1>9. QED
  BY <1>3, <1>5, <1>6, <1>7, <1>8

LEMMA AfterRememberHolds ==
  ASSUME Core, NEW x \in RequestType, Fits(x), x.pc \in {"record", "copyRows"},
         x.kind # "rolling"
  PROVE  /\ Fits(AfterRemember(x))
         /\ AfterRemember(x).met = x.met
         /\ AfterRemember(x).pc # "idle"
         /\ \A cat \in Table, top \in [Mmsis -> Reports], copies \in Table :
              /\ ~x.stale => \A m \in Rows(x.results) : Fresh(x.results[m], cat[m], top[m])
              /\ x.kind = "follow" /\ ~x.own =>
                   \A m \in x.asked : x.results[m] = Absent => Fresh(x.stored[m], cat[m], top[m])
              /\ \A m \in Rows(x.results) :
                   /\ cat[m] = x.results[m]
                   /\ copies[m] \in {Absent, cat[m]}
              => Solo(AfterRemember(x), cat, top, copies)
<1> DEFINE y == AfterRemember(x)
<1>1. x.results \in Table /\ Bounded(x.results) /\ Bounded(x.stored)
  BY DEF Fits, RequestType, Bounded
<1>2. x.kind \in {"search", "submit", "follow", "refresh"} /\ (x.kind = "submit" => x.own)
  BY DEF Fits, RequestType, Kinds
<1>3. CASE x.kind = "search" \/ x.kind = "refresh" \/ x.own
  <2>1. \/ \E pc \in {"done", "setCache"} : y = [x EXCEPT !.pc = pc]
        \/ x.own /\ y = [x EXCEPT !.pc = "follow", !.todo = x.asked]
    BY <1>2, <1>3 DEF AfterRemember
  <2>2. /\ y.kind = x.kind /\ y.asked = x.asked /\ y.results = x.results /\ y.stored = x.stored
        /\ y.own = x.own /\ y.stale = x.stale /\ y.met = x.met /\ y.at = x.at
        /\ y.pc \in {"done", "setCache", "follow"}
        /\ y.pc = "follow" => x.own /\ y.todo = x.asked
    BY <2>1 DEF RequestType
  <2> HIDE DEF y
  <2>3. Fits(y)
    BY <1>2, <2>2 DEF Fits, LookupSteps, RollingSteps
  <2>4. QED
    BY <2>2, <2>3 DEF Solo, y
<1>4. CASE x.kind = "follow" /\ ~x.own
  <2>1. ~x.stale /\ y = ToFollow(x, x.results)
    BY <1>4 DEF Fits, AfterRemember
  <2>2. \A cat, top :
          /\ \A m \in Rows(x.results) : Fresh(x.results[m], cat[m], top[m])
          /\ \A m \in x.asked : x.results[m] = Absent => Fresh(x.stored[m], cat[m], top[m])
          => \A m \in x.asked : IF x.results[m] = Absent THEN Fresh(x.stored[m], cat[m], top[m])
                                ELSE Fresh(x.results[m], cat[m], top[m])
    BY DEF Rows, RequestType
  <2>4. x.asked \subseteq Rows(x.stored)
    BY <1>4 DEF Fits
  <2> HIDE DEF y
  <2>3. QED
    BY <1>1, <1>4, <2>1, <2>2, <2>4, ToFollowHolds DEF y
<1>5. QED
  BY <1>2, <1>3, <1>4

-----------------------------------------------------------------------------
(* The actions keep what is known of the requests. *)

(* What a request turns into, if only where it is, what it is to do and     *)
(* what it read of the limits may change.                                   *)
LEMMA Running ==
  ASSUME NEW r \in Requests, NEW step \in Steps \ {"idle"}, At(r, step)
  PROVE  Runs(r) /\ requests[r].pc = step
BY DEF At, Runs

LEMMA FinishHolds ==
  ASSUME Inv, NEW r \in Requests, Finish(r)
  PROVE  Inv'
<1>1. Fits(Idle) /\ Runs(r) /\ Idle.pc = "idle"
  BY IdleFits, Running DEF Inv, Finish, Steps, Idle
<1>2. QED
  BY <1>1, IdleType, SameWorld, Moves DEF Inv, Finish, world

LEMMA StopHolds ==
  ASSUME Inv, NEW r \in Requests, Stop(r)
  PROVE  Inv'
<1>1. Fits(Idle) /\ Idle.pc = "idle"
  BY IdleFits DEF Inv, Idle
<1>2. WorldType' /\ Known'
  BY WorldTypes DEF Inv, Stop, tables, catalogRows, world, WorldType, Known, At
<1>3. QED
  BY <1>1, <1>2, IdleType, Moves DEF Stop, world

LEMMA BeginSearchHolds ==
  ASSUME Inv, NEW r \in Requests, BeginSearch(r)
  PROVE  Inv'
<1> DEFINE x == [Idle EXCEPT !.kind = "search", !.pc = "readCache"]
<1>1. x \in RequestType /\ x.pc # "idle"
  BY IdleType DEF RequestType, Kinds, Steps
<1>2. Fits(Idle)
  BY IdleFits DEF Inv
<1>3. Fits(x) /\ Solo(x, catalog, held, followed)
  BY <1>2, EmptyTable DEF Fits, Solo, Idle, LookupSteps, RollingSteps
<1>4. QED
  BY <1>1, <1>3, WorldTypes, Begins
     DEF BeginSearch, Inv, WorldType, tables, catalogRows, limits, sync, world

LEMMA BeginRefreshHolds ==
  ASSUME Inv, NEW r \in Requests, BeginRefresh(r)
  PROVE  Inv'
<1> DEFINE x == [Idle EXCEPT !.kind = "refresh", !.pc = "readLast", !.asked = Rows(followed)]
<1>1. x \in RequestType /\ x.pc # "idle"
  BY IdleType DEF RequestType, Kinds, Steps, Rows
<1>2. Fits(Idle)
  BY IdleFits DEF Inv
<1>3. Fits(x) /\ Solo(x, catalog, held, followed)
  BY <1>2, EmptyTable DEF Fits, Solo, Idle, LookupSteps, RollingSteps
<1>4. QED
  BY <1>1, <1>3, WorldTypes, Begins
     DEF BeginRefresh, Inv, WorldType, tables, catalogRows, limits, sync, world

LEMMA BeginRollingHolds ==
  ASSUME Inv, NEW r \in Requests, BeginRolling(r)
  PROVE  Inv'
<1> DEFINE x == [Idle EXCEPT !.kind = "rolling", !.pc = "readLast", !.at = clock]
<1>1. clock \in Times /\ clock \in Int
  BY WorldTypes, ZeroTime, AisHubAssumption DEF Inv, WorldType
<1>2. x \in RequestType /\ x.pc # "idle"
  BY <1>1, IdleType DEF RequestType, Kinds, Steps
<1>3. Fits(Idle)
  BY IdleFits DEF Inv
<1>4. Fits(x) /\ Solo(x, catalog, held, followed)
  BY <1>1, <1>3, EmptyTable DEF Fits, Solo, Idle, LookupSteps, RollingSteps, Absent
<1>5. QED
  BY <1>2, <1>4, WorldTypes, Begins
     DEF BeginRolling, Inv, WorldType, tables, catalogRows, limits, world

(* How a follow begins. *)
LEMMA FollowingType ==
  ASSUME TypeOK, NEW ms \in SUBSET Mmsis, NEW n \in Reports
  PROVE  Following(ms, n) \in RequestType /\ Following(ms, n).pc = "readLast"
<1>1. Stored(ms, n) \in Table
  BY DEF Stored, Table, TypeOK
<1>2. QED
  BY <1>1, IdleType DEF Following, RequestType, Kinds, Steps

LEMMA FollowBegins ==
  ASSUME TypeOK, NEW r \in Requests, BeginFollow(r)
  PROVE  \E ms \in SUBSET Mmsis, n \in Reports :
           Begin(r, Following(ms, n)) /\ \A m \in ms : n <= upstream[m]
<1>1. CASE \E m \in Mmsis : \E n \in 0..upstream[m] : Begin(r, Following({m}, n))
  <2>1. PICK m \in Mmsis : \E n \in 0..upstream[m] : Begin(r, Following({m}, n))
    BY <1>1
  <2>2. PICK n \in 0..upstream[m] : Begin(r, Following({m}, n))
    BY <2>1
  <2>3. upstream[m] \in 0..MaxReports
    BY DEF TypeOK, Reports
  <2>4. n \in Reports /\ n <= upstream[m] /\ {m} \in SUBSET Mmsis
    BY <2>3, AisHubAssumption DEF Reports
  <2>5. QED
    BY <2>2, <2>4
<1>2. CASE \E ms \in SUBSET Mmsis \ {{}} : Begin(r, Following(ms, 0))
  <2>1. 0 \in Reports /\ \A m \in Mmsis : 0 <= upstream[m]
    BY AisHubAssumption DEF TypeOK, Reports
  <2>2. QED
    BY <1>2, <2>1
<1>3. QED
  BY <1>1, <1>2 DEF BeginFollow

LEMMA BeginFollowHolds ==
  ASSUME Inv, NEW r \in Requests, BeginFollow(r)
  PROVE  Inv'
<1>0. Fits(Idle) /\ Known /\ WorldType
  BY IdleFits, WorldTypes DEF Inv
<1>1. PICK ms \in SUBSET Mmsis, n \in Reports :
        Begin(r, Following(ms, n)) /\ \A m \in ms : n <= upstream[m]
  BY FollowBegins DEF Inv, Core
<1> DEFINE x == Following(ms, n)
<1>2. /\ Stored(ms, n) \in Table
      /\ \A m \in Mmsis : Stored(ms, n)[m] = IF m \notin ms THEN Absent
                                            ELSE IF catalog[m] # Absent THEN catalog[m] ELSE n
  BY <1>0 DEF Stored, Table, WorldType
<1>3. x \in RequestType /\ x.pc # "idle"
  BY FollowingType DEF Inv, Core
<1>4. \A m \in Mmsis : /\ upstream[m] \in 0..MaxReports /\ held[m] <= upstream[m]
                       /\ catalog[m] \in Int /\ held[m] \in Int /\ catalog[m] <= held[m]
  BY <1>0, AisHubAssumption DEF WorldType, Known, Reports, Table, Absent
<1>5. /\ \A m \in Mmsis : Stored(ms, n)[m] <= upstream[m]
      /\ \A m \in ms : Stored(ms, n)[m] # Absent
      /\ \A m \in ms : Fresh(Stored(ms, n)[m], catalog[m], held[m])
  <2>1. n \in Int /\ 0 <= n /\ n # Absent
    BY AisHubAssumption DEF Reports, Absent
  <2>2. \A m \in Mmsis : Stored(ms, n)[m] <= upstream[m]
    BY <1>1, <1>2, <1>4, AisHubAssumption DEF Absent
  <2>3. \A m \in ms : Stored(ms, n)[m] # Absent
    BY <1>1, <1>2, <2>1
  <2>4. \A m \in ms : Fresh(Stored(ms, n)[m], catalog[m], held[m])
    BY <1>0, <1>1, <1>2, <2>1 DEF Fresh, Known
  <2>5. QED
    BY <2>2, <2>3, <2>4
<1>6. /\ x.kind = "follow" /\ x.pc = "readLast" /\ x.results = Idle.results /\ ~x.own /\ ~x.stale
      /\ x.at = Idle.at /\ x.stored = Stored(ms, n) /\ x.asked = ms
  BY DEF Following, Idle
<1> HIDE DEF x
<1>7. Fits(x)
  <2>1. x.asked \subseteq Rows(x.stored)
    BY <1>1, <1>5, <1>6 DEF Rows
  <2>2. QED
    BY <1>0, <1>5, <1>6, <2>1, EmptyTable DEF Fits, LookupSteps, RollingSteps, Idle
<1>8. Solo(x, catalog, held, followed)
  BY <1>5, <1>6, EmptyTable DEF Solo, Idle
<1>9. Begin(r, x)
  BY <1>1 DEF x
<1>10. QED
  BY <1>3, <1>7, <1>8, <1>9, WorldTypes, Begins
     DEF BeginFollow, Inv, WorldType, tables, catalogRows, limits, sync, world

LEMMA BeginSubmitHolds ==
  ASSUME Inv, NEW r \in Requests, BeginSubmit(r)
  PROVE  Inv'
<1>1. PICK m \in Mmsis : \E n \in 1..upstream[m] :
        Begin(r, Remembers([Idle EXCEPT !.kind = "submit", !.asked = {m}, !.own = TRUE,
                              !.stale = TRUE, !.results = [Empty EXCEPT ![m] = n]], "done"))
  BY DEF BeginSubmit
<1>2. PICK n \in 1..upstream[m] :
        Begin(r, Remembers([Idle EXCEPT !.kind = "submit", !.asked = {m}, !.own = TRUE,
                              !.stale = TRUE, !.results = [Empty EXCEPT ![m] = n]], "done"))
  BY <1>1
<1> DEFINE found == [Empty EXCEPT ![m] = n]
           x == [Idle EXCEPT !.kind = "submit", !.asked = {m}, !.own = TRUE,
                             !.stale = TRUE, !.results = found]
<1>3. /\ upstream \in [Mmsis -> Reports] /\ catalog \in Table /\ followed \in Table
      /\ held \in [Mmsis -> Reports]
  BY WorldTypes DEF Inv, WorldType
<1>4. upstream[m] \in 0..MaxReports /\ n \in 1..upstream[m]
  BY <1>3 DEF Reports
<1>5. found \in Table /\ m \in Rows(found) /\ Bounded(found) /\ Bounded(Empty)
  BY <1>3, <1>4, AisHubAssumption DEF Table, Empty, Rows, Bounded, Reports, Absent
<1> HIDE DEF found
<1>6. x \in RequestType
  BY <1>5, IdleType DEF RequestType, Kinds
<1>7. /\ x.kind = "submit" /\ x.own /\ x.stale /\ x.results = found /\ x.stored = Empty
      /\ x.asked = {m}
  BY DEF Idle
<1> HIDE DEF x
<1>8. /\ Fits(Remembers(x, "done")) /\ Remembers(x, "done").pc # "idle"
      /\ Solo(Remembers(x, "done"), catalog, held, followed)
  BY <1>3, <1>5, <1>6, <1>7, RemembersHolds DEF Inv
<1>9. Remembers(x, "done") \in RequestType
  BY <1>6, RemembersType DEF Steps
<1>10. Begin(r, Remembers(x, "done"))
  BY <1>2 DEF x, found
<1>11. QED
  BY <1>8, <1>9, <1>10, WorldTypes, Begins
     DEF BeginSubmit, Inv, WorldType, tables, catalogRows, limits, sync, world

(* A step that reads, or turns to something else to do. *)
LEMMA Reads ==
  ASSUME Inv, NEW r \in Requests, Runs(r), NEW x \in RequestType, Goes(r, x),
         UNCHANGED <<tables, world>>, WorldType', Known',
         x.kind = requests[r].kind, x.results = requests[r].results,
         x.stored = requests[r].stored, x.asked = requests[r].asked, x.own = requests[r].own,
         x.stale = requests[r].stale, x.met = requests[r].met, x.at <= clock,
         \/ requests[r].pc \in {"readCache", "readLast", "send"} /\ x.pc \in LookupSteps \ {"readCache"}
         \/ requests[r].pc \in LookupSteps /\ x.pc = "done"
         \/ requests[r].pc \in LookupSteps /\ x.pc = "skip" /\ x.kind = "rolling"
         \/ requests[r].pc = "setCache" /\ x.pc = "done"
         \/ requests[r].pc \in {"skip", "succeed", "fail"} /\ x.pc = "done"
  PROVE  Inv'
<1>1. Fits(requests[r]) /\ requests[r] \in RequestType
  BY RequestFacts
<1>2. Fits(x)
  BY <1>1 DEF Fits, LookupSteps, RollingSteps
<1>3. requests[r].pc \in LookupSteps \cup {"skip", "fail"} => Rows(x.results) = {}
  BY <1>1, EmptyTable DEF Fits
<1>4. Solo(requests[r], catalog, held, followed) => Solo(x, catalog, held, followed)
  BY <1>3 DEF Solo, LookupSteps
<1>5. QED
  BY <1>2, <1>4, Turns

LEMMA SetCacheHolds ==
  ASSUME Inv, NEW r \in Requests, SetCache(r)
  PROVE  Inv'
<1> DEFINE x == [requests[r] EXCEPT !.pc = "done"]
<1>1. requests[r] \in RequestType /\ Fits(requests[r]) /\ Runs(r) /\ requests[r].pc = "setCache"
  BY RequestFacts, Running DEF SetCache, Steps
<1>2. x \in RequestType
  BY <1>1 DEF RequestType, Steps
<1>3. ExpiresAt \in 0..(MaxTime + CacheTTL)
  BY WorldTypes, AisHubAssumption DEF Inv, WorldType, ExpiresAt
<1>4. WorldType' /\ Known'
  BY <1>1, <1>3, WorldTypes
     DEF Inv, SetCache, tables, catalogRows, limits, sync, world, WorldType, Known, Fits, RequestType
<1>5. Goes(r, x)
  BY DEF SetCache, Goto
<1>6. QED
  BY <1>1, <1>2, <1>4, <1>5, Reads DEF SetCache, Fits, RequestType

LEMMA ReadLastHolds ==
  ASSUME Inv, NEW r \in Requests, ReadLast(r)
  PROVE  Inv'
<1> DEFINE x == [requests[r] EXCEPT !.pc = "send", !.seen = lastRequestAt]
<1>1. requests[r] \in RequestType /\ Fits(requests[r]) /\ Runs(r) /\ requests[r].pc = "readLast"
  BY RequestFacts, Running DEF ReadLast, Steps
<1>2. x \in RequestType
  BY <1>1, WorldTypes DEF RequestType, Steps, Inv, WorldType
<1>3. WorldType' /\ Known' /\ Goes(r, x)
  BY SameWorld DEF Inv, ReadLast
<1>4. QED
  BY <1>1, <1>2, <1>3, Reads DEF ReadLast, Fits, RequestType, LookupSteps

LEMMA RefuseHolds ==
  ASSUME Inv, NEW r \in Requests, Refuse(r)
  PROVE  Inv'
<1>1. /\ requests[r] \in RequestType /\ Fits(requests[r]) /\ Runs(r) /\ requests[r].pc = "send"
      /\ requests[r].results = Empty
  BY RequestFacts, Running DEF Refuse, Steps, Fits, LookupSteps
<1>2. WorldType' /\ Known' /\ Core
  BY SameWorld DEF Inv, Refuse
<1>3. CASE requests[r].kind = "follow"
  <2>1. Goes(r, ToFollow(requests[r], Empty))
    BY <1>3 DEF Refuse
  <2>2. ToFollow(requests[r], Empty) \in RequestType
    BY <1>1, EmptyTable, ToFollowType
  <2>3. /\ Bounded(requests[r].stored) /\ Bounded(Empty)
        /\ ~requests[r].stale /\ ~requests[r].own /\ catalog \in Table /\ followed \in Table
        /\ held \in [Mmsis -> Reports] /\ requests[r].asked \subseteq Rows(requests[r].stored)
    BY <1>1, <1>2, <1>3, WorldTypes DEF Fits, Bounded, LookupSteps, WorldType
  <2>4. Solo(requests[r], catalog, held, followed) => Solo(ToFollow(requests[r], Empty), catalog, held, followed)
    <3>1. HAVE Solo(requests[r], catalog, held, followed)
    <3>2. requests[r].asked \subseteq Mmsis
      BY <1>1 DEF RequestType
    <3>3. \A m \in requests[r].asked :
            Empty[m] = Absent /\ Fresh(requests[r].stored[m], catalog[m], held[m])
      BY <1>1, <1>3, <2>3, <3>1, <3>2, EmptyTable DEF Solo
    <3>4. QED
      BY <1>1, <1>2, <1>3, <2>3, <3>3, ToFollowHolds, EmptyTable
  <2>5. Fits(ToFollow(requests[r], Empty)) /\ ToFollow(requests[r], Empty).met = requests[r].met
    BY <1>1, <1>2, <1>3, <2>3, ToFollowHolds, EmptyTable
  <2>6. QED
    BY <1>1, <1>2, <2>1, <2>2, <2>4, <2>5, Turns DEF Refuse
<1>4. ASSUME NEW step \in {"skip", "done"}, Goto(r, step),
             step = "skip" => requests[r].kind = "rolling"
      PROVE  Inv'
  <2>1. [requests[r] EXCEPT !.pc = step] \in RequestType
    BY <1>1 DEF RequestType, Steps
  <2>2. QED
    BY <1>1, <1>2, <1>4, <2>1, Reads DEF Goto, Refuse, Fits, RequestType, LookupSteps
<1>5. QED
  BY <1>3, <1>4 DEF Refuse

LEMMA SendHolds ==
  ASSUME Inv, NEW r \in Requests, Send(r)
  PROVE  Inv'
<1> DEFINE x == [requests[r] EXCEPT !.pc = "answer", !.at = Sent(r), !.seen = 0]
<1>1. requests[r] \in RequestType /\ Fits(requests[r]) /\ Runs(r) /\ requests[r].pc = "send"
  BY RequestFacts, Running DEF Send, Steps
<1>2. clock \in 0..MaxTime /\ clock \in Times
  BY WorldTypes, ZeroTime DEF Inv, WorldType
<1>3. Sent(r) \in Times /\ Sent(r) <= clock
  BY <1>1, <1>2, AisHubAssumption DEF Sent, Fits, RequestType
<1>4. x \in RequestType
  BY <1>1, <1>3, ZeroTime DEF RequestType, Steps
<1>5. WorldType' /\ Known' /\ Goes(r, x)
  BY <1>3, WorldTypes DEF Inv, Send, tables, catalogRows, sync, world, WorldType, Known, At
<1>6. QED
  BY <1>1, <1>3, <1>4, <1>5, Reads DEF Send, Fits, RequestType, LookupSteps

LEMMA SettleHolds ==
  ASSUME Inv, NEW r \in Requests, NEW step \in {"skip", "succeed", "fail"},
         NEW outcome \in {"skipped", "success", "error"}, Settle(r, step, outcome)
  PROVE  Inv'
<1> DEFINE x == [requests[r] EXCEPT !.pc = "done"]
<1>1. requests[r] \in RequestType /\ Fits(requests[r]) /\ Runs(r) /\ requests[r].pc = step
  BY RequestFacts, Running DEF Settle, Steps
<1>2. x \in RequestType
  BY <1>1 DEF RequestType, Steps
<1>3. WorldType' /\ Known' /\ Goes(r, x)
  BY WorldTypes DEF Inv, Settle, Goto, tables, catalogRows, limits, world, WorldType, Known
<1>4. QED
  BY <1>1, <1>2, <1>3, Reads DEF Settle, Fits, RequestType

LEMMA ReadCacheHolds ==
  ASSUME Inv, NEW r \in Requests, ReadCache(r)
  PROVE  Inv'
<1>1. /\ requests[r] \in RequestType /\ Fits(requests[r]) /\ Runs(r)
      /\ requests[r].pc = "readCache" /\ requests[r].kind # "rolling"
  BY RequestFacts, Running DEF ReadCache, Steps, Fits, RollingSteps
<1>2. WorldType' /\ Known' /\ Core /\ cache.results \in Table /\ Bounded(cache.results)
      /\ catalog \in Table /\ followed \in Table /\ held \in [Mmsis -> Reports]
  BY SameWorld, WorldTypes DEF Inv, ReadCache, WorldType, Known, Bounded
<1>3. CASE cache.expiresAt <= clock
  <2>1. [requests[r] EXCEPT !.pc = "readLast"] \in RequestType
    BY <1>1 DEF RequestType, Steps
  <2>2. QED
    BY <1>1, <1>2, <1>3, <2>1, Reads DEF ReadCache, Fits, RequestType, LookupSteps
<1>4. CASE ~(cache.expiresAt <= clock)
  <2> DEFINE x == [requests[r] EXCEPT !.results = cache.results, !.stale = TRUE]
  <2>1. x \in RequestType
    BY <1>1, <1>2 DEF RequestType
  <2>2. /\ x.results = cache.results /\ x.stored = requests[r].stored /\ x.stale /\ ~x.own
        /\ x.met = requests[r].met /\ x.kind = requests[r].kind
    BY <1>1 DEF RequestType, Fits, LookupSteps
  <2>3. Goes(r, Remembers(x, "done"))
    BY <1>4 DEF ReadCache
  <2>4. requests[r].kind = "search"
    BY <1>1 DEF Fits, RequestType, Kinds
  <2> HIDE DEF x
  <2>5. Bounded(x.stored)
    BY <1>1, <2>2 DEF Fits, Bounded
  <2>6. /\ Fits(Remembers(x, "done")) /\ Remembers(x, "done").met = requests[r].met
        /\ Solo(Remembers(x, "done"), catalog, held, followed)
    BY <1>2, <2>1, <2>2, <2>4, <2>5, RemembersHolds
  <2>7. QED
    BY <1>1, <1>2, <2>1, <2>3, <2>6, RemembersType, Turns DEF ReadCache, Steps
<1>5. QED
  BY <1>3, <1>4

LEMMA CacheFailsHolds ==
  ASSUME Inv, NEW r \in Requests, CacheFails(r)
  PROVE  Inv'
<1> DEFINE x == [Idle EXCEPT !.kind = "search", !.pc = "readLast", !.met = requests[r].met]
<1>1. requests[r] \in RequestType /\ Runs(r)
  BY RequestFacts DEF CacheFails, Runs
<1>2. x \in RequestType
  BY <1>1, IdleType DEF RequestType, Kinds, Steps
<1>3. Fits(Idle) /\ WorldType' /\ Known'
  BY IdleFits, SameWorld DEF Inv, CacheFails
<1>4. Fits(x) /\ Solo(x, catalog, held, followed) /\ x.met = requests[r].met
  BY <1>3, EmptyTable DEF Fits, Solo, Idle, LookupSteps, RollingSteps
<1>5. QED
  BY <1>1, <1>2, <1>3, <1>4, Turns DEF CacheFails

LEMMA AnswerHolds ==
  ASSUME Inv, NEW r \in Requests, Answer(r)
  PROVE  Inv'
<1>1. PICK ms \in SUBSET Mmsis, undated \in SUBSET Mmsis :
        Goes(r, [requests[r] EXCEPT !.pc = "record", !.results = Heard(ms, undated),
                   !.at = IF requests[r].kind = "search" THEN clock ELSE @])
  BY DEF Answer
<1> DEFINE x == [requests[r] EXCEPT !.pc = "record", !.results = Heard(ms, undated),
                   !.at = IF requests[r].kind = "search" THEN clock ELSE @]
<1>2. /\ requests[r] \in RequestType /\ Fits(requests[r]) /\ Runs(r)
      /\ requests[r].pc = "answer" /\ requests[r].results = Empty
  BY RequestFacts, Running DEF Answer, Steps, Fits, LookupSteps
<1>3. /\ WorldType' /\ Known' /\ TypeOK /\ Known /\ clock \in Times /\ clock \in Int
      /\ upstream \in [Mmsis -> Reports]
  BY SameWorld, WorldTypes, ZeroTime DEF Inv, Answer, WorldType
<1>4. /\ Heard(ms, undated) \in Table
      /\ \A m \in Mmsis : Heard(ms, undated)[m] \in {Absent, 0, upstream[m]}
  BY <1>3, HeardTable
<1>5. x \in RequestType
  BY <1>2, <1>3, <1>4 DEF RequestType, Steps
<1>6. /\ x.pc = "record" /\ x.results = Heard(ms, undated) /\ x.kind = requests[r].kind
      /\ x.stored = requests[r].stored /\ x.own = requests[r].own /\ x.stale = requests[r].stale
      /\ x.met = requests[r].met /\ x.asked = requests[r].asked
      /\ x.at <= clock
  BY <1>2, <1>3 DEF RequestType, Fits
<1> HIDE DEF x
<1>7. \A m \in Mmsis : x.results[m] <= upstream[m]
                       /\ (m \in Rows(x.results) => Fresh(x.results[m], catalog[m], held[m]))
  BY <1>3, <1>4, <1>6, AisHubAssumption DEF Reports, Absent, Known, Rows, Fresh
<1>8. Fits(x)
  BY <1>2, <1>6, <1>7 DEF Fits, LookupSteps, RollingSteps
<1>9. Solo(requests[r], catalog, held, followed) => Solo(x, catalog, held, followed)
  <2>1. requests[r].asked \subseteq Mmsis
    BY <1>2 DEF RequestType
  <2>2. HAVE Solo(requests[r], catalog, held, followed)
  <2>3. requests[r].kind = "follow" /\ ~requests[r].own =>
          \A m \in requests[r].asked : Fresh(requests[r].stored[m], catalog[m], held[m])
    BY <1>2, <2>1, <2>2, EmptyTable DEF Solo
  <2>4. \A m \in Rows(x.results) : m \in Mmsis
    BY DEF Rows
  <2>5. QED
    BY <1>6, <1>7, <2>3, <2>4 DEF Solo
<1>10. QED
  BY <1>1, <1>2, <1>3, <1>5, <1>6, <1>8, <1>9, Turns DEF Answer, x

LEMMA RecordHolds ==
  ASSUME Inv, NEW r \in Requests, Record(r)
  PROVE  Inv'
<1> DEFINE old == requests[r]
<1>1. /\ old \in RequestType /\ Fits(old) /\ Runs(r) /\ old.pc = "record"
      /\ ~old.own /\ ~old.stale
  BY RequestFacts, Running DEF Record, Steps, Fits
<1>2. Stamp(r) \in Times
  BY <1>1 DEF Stamp, RequestType
<1>3. /\ WorldType' /\ Known' /\ Core /\ catalog \in Table /\ followed \in Table
      /\ held \in [Mmsis -> Reports] /\ UNCHANGED <<tables, world>> /\ 0 <= clock
  BY <1>2, WorldTypes, AisHubAssumption
     DEF Inv, Record, tables, catalogRows, sync, world, WorldType, Known
<1>4. CASE old.kind = "rolling"
  <2> DEFINE x == [old EXCEPT !.todo = Rows(old.results), !.at = 0, !.pc = "upsert"]
  <2>1. Rows(old.results) \subseteq Mmsis
    BY DEF Rows
  <2>2. x \in RequestType
    BY <1>1, <2>1, ZeroTime DEF RequestType, Steps
  <2>3. /\ x.kind = old.kind /\ x.results = old.results /\ x.stored = old.stored /\ ~x.own
        /\ ~x.stale /\ x.met = old.met /\ x.asked = old.asked
        /\ x.pc = "upsert" /\ x.at = 0 /\ x.todo = Rows(old.results)
    BY <1>1 DEF RequestType
  <2>4. Goes(r, x)
    BY <1>4 DEF Record
  <2> HIDE DEF x
  <2>5. Fits(x) /\ (Solo(old, catalog, held, followed) => Solo(x, catalog, held, followed))
    BY <1>1, <1>3, <1>4, <2>3 DEF Fits, Solo, LookupSteps, RollingSteps
  <2>6. QED
    BY <1>1, <1>3, <2>2, <2>3, <2>4, <2>5, Turns
<1>5. CASE old.kind # "rolling" /\ Rows(old.results) = {}
  <2>1. Goes(r, AfterRemember(old)) /\ AfterRemember(old) \in RequestType
    BY <1>1, <1>5, AfterRememberType DEF Record
  <2>2. /\ Fits(AfterRemember(old)) /\ AfterRemember(old).met = old.met
        /\ Solo(old, catalog, held, followed) => Solo(AfterRemember(old), catalog, held, followed)
    BY <1>1, <1>3, <1>5, AfterRememberHolds DEF Solo
  <2>3. QED
    BY <1>1, <1>3, <2>1, <2>2, Turns
<1>6. CASE old.kind # "rolling" /\ Rows(old.results) # {}
  <2>1. Goes(r, Remembers(old, "done")) /\ Remembers(old, "done") \in RequestType
    BY <1>1, <1>6, RemembersType DEF Record, Steps
  <2>2. /\ Bounded(old.results) /\ Bounded(old.stored)
        /\ old.kind \in {"search", "submit", "follow", "refresh"}
        /\ old.kind = "submit" => old.own
        /\ old.kind = "follow" /\ ~old.own => old.asked \subseteq Rows(old.stored)
    BY <1>1, <1>6 DEF Fits, Bounded, RequestType, Kinds
  <2>3. /\ Fits(Remembers(old, "done")) /\ Remembers(old, "done").met = old.met
        /\ Solo(old, catalog, held, followed) => Solo(Remembers(old, "done"), catalog, held, followed)
    BY <1>1, <1>3, <2>2, RemembersHolds DEF Solo
  <2>4. QED
    BY <1>1, <1>3, <2>1, <2>3, Turns
<1>7. QED
  BY <1>4, <1>5, <1>6

LEMMA RememberHolds ==
  ASSUME Inv, NEW r \in Requests, Remember(r)
  PROVE  Inv'
<1> DEFINE old == requests[r]
<1>1. PICK m \in old.todo :
        /\ catalog' = [catalog EXCEPT ![m] = old.results[m]]
        /\ held' = Held(catalog')
        /\ Goes(r, [old EXCEPT !.todo = @ \ {m},
                      !.pc = IF old.todo = {m} THEN "readRows" ELSE @])
  BY DEF Remember
<1> DEFINE x == [old EXCEPT !.todo = @ \ {m}, !.pc = IF old.todo = {m} THEN "readRows" ELSE @]
<1>2. /\ old \in RequestType /\ Fits(old) /\ Runs(r) /\ old.pc = "remember"
      /\ ~old.met => Solo(old, catalog, held, followed)
  BY RequestFacts, Running DEF Remember, Steps
<1>3. m \in Rows(old.results) /\ m \in Mmsis /\ old.results \in [Mmsis -> Reports \cup {Absent}]
  BY <1>2 DEF RequestType, Fits, Table
<1>4. x \in RequestType
  BY <1>2 DEF RequestType, Steps
<1>5. WorldType /\ TypeOK /\ Known /\ catalog \in [Mmsis -> Reports \cup {Absent}]
  BY WorldTypes DEF Inv, WorldType, Table
<1>6. /\ WorldType' /\ Known' /\ UNCHANGED <<upstream, clock, followed>>
      /\ \A k \in Mmsis : catalog'[k] = catalog[k] => held'[k] = held[k]
  <2>1. catalog' \in Table /\ \A k \in Mmsis : catalog'[k] <= upstream[k]
    <3>1. \A k \in Mmsis : /\ catalog[k] \in Int /\ held[k] \in Int /\ upstream[k] \in Int
                           /\ catalog[k] <= held[k] /\ held[k] <= upstream[k]
      BY <1>5, AisHubAssumption DEF WorldType, Known, Reports, Absent
    <3>2. old.results[m] <= upstream[m]
      BY <1>2, <1>3 DEF Fits
    <3>3. QED
      BY <1>1, <1>3, <1>5, <3>1, <3>2 DEF Table
  <2>2. /\ held' \in [Mmsis -> Reports]
        /\ \A k \in Mmsis : /\ catalog'[k] <= held'[k] /\ held'[k] <= upstream[k]
                            /\ catalog'[k] = catalog[k] => held'[k] = held[k]
    BY <1>1, <1>5, <2>1, HeldFollows
  <2>3. \A k \in Mmsis : catalog'[k] = Absent => catalog'[k] = catalog[k]
    BY <1>1, <1>3, <1>5 DEF Rows
  <2>4. Known' /\ UNCHANGED <<upstream, clock, followed, cache>>
    BY <1>5, <2>2, <2>3 DEF Remember, world, Known
  <2>5. WorldType'
    BY <1>5, <2>1, <2>2, <2>4 DEF Remember, limits, sync, world, WorldType
  <2>6. QED
    BY <2>2, <2>4, <2>5
<1>7. /\ x.kind = old.kind /\ x.results = old.results /\ x.stored = old.stored
      /\ x.own = old.own /\ x.stale = old.stale /\ x.met = old.met /\ x.asked = old.asked
      /\ x.at = old.at /\ x.todo = old.todo \ {m}
      /\ x.pc \in {"remember", "readRows"} /\ (x.pc = "readRows" => x.todo = {})
  BY <1>2 DEF RequestType
<1> HIDE DEF x
<1>8. Fits(x)
  BY <1>2, <1>7 DEF Fits, LookupSteps, RollingSteps
<1>9. /\ catalog'[m] = old.results[m] /\ catalog'[m] # Absent /\ catalog'[m] \in Int
      /\ \A k \in Mmsis \ {m} : catalog'[k] = catalog[k] /\ held'[k] = held[k]
  <2>1. catalog'[m] = old.results[m] /\ \A k \in Mmsis \ {m} : catalog'[k] = catalog[k]
    BY <1>1, <1>3, <1>5
  <2>2. old.results[m] # Absent /\ old.results[m] \in Int
    BY <1>3, AisHubAssumption DEF Rows, Reports
  <2>3. QED
    BY <1>6, <2>1, <2>2
<1>10. ASSUME Solo(old, catalog, held, followed)
       PROVE  Solo(x, catalog', held', followed')
  <2>1. \A k \in Rows(old.results) : k \in Mmsis
    BY DEF Rows
  <2>2. ~x.stale => \A k \in Rows(x.results) : Fresh(x.results[k], catalog'[k], held'[k])
    <3>1. Fresh(x.results[m], catalog'[m], held'[m])
      BY <1>7, <1>9 DEF Fresh
    <3>2. QED
      BY <1>7, <1>9, <1>10, <2>1, <3>1 DEF Solo
  <2>3. x.kind = "follow" /\ ~x.own =>
          \A k \in x.asked : x.results[k] = Absent => Fresh(x.stored[k], catalog'[k], held'[k])
    BY <1>2, <1>7, <1>9, <1>10 DEF Solo, RequestType
  <2>4. \A k \in Rows(x.results) \ x.todo : catalog'[k] = x.results[k]
    BY <1>2, <1>7, <1>9, <1>10, <2>1 DEF Solo
  <2>5. x.pc = "readRows" => \A k \in Rows(x.results) : catalog'[k] = x.results[k]
    BY <1>7, <2>4
  <2>6. QED
    BY <1>7, <2>2, <2>3, <2>4, <2>5 DEF Solo
<1>11. Goes(r, x)
  BY <1>1 DEF x
<1>12. QED
  BY <1>2, <1>4, <1>6, <1>7, <1>8, <1>10, <1>11, Moves

LEMMA ReadRowsHolds ==
  ASSUME Inv, NEW r \in Requests, ReadRows(r)
  PROVE  Inv'
<1> DEFINE old == requests[r]
           rows == Only(catalog, Rows(old.results))
           x == [old EXCEPT !.rows = rows, !.pc = "copyRows"]
<1>1. /\ old \in RequestType /\ Fits(old) /\ Runs(r) /\ old.pc = "readRows"
  BY RequestFacts, Running DEF ReadRows, Steps
<1>2. WorldType' /\ Known' /\ catalog \in Table
  BY SameWorld, WorldTypes DEF Inv, ReadRows, WorldType
<1>3. rows \in Table
      /\ \A m \in Mmsis : rows[m] = IF m \in Rows(old.results) THEN catalog[m] ELSE Absent
  BY <1>2, OnlyTable
<1> HIDE DEF rows
<1>4. x \in RequestType
  BY <1>1, <1>3 DEF RequestType, Steps
<1>5. /\ x.kind = old.kind /\ x.results = old.results /\ x.stored = old.stored
      /\ x.own = old.own /\ x.stale = old.stale /\ x.met = old.met /\ x.asked = old.asked
      /\ x.at = old.at /\ x.rows = rows /\ x.pc = "copyRows"
  BY <1>1 DEF RequestType
<1>6. Goes(r, x)
  BY DEF ReadRows, rows
<1> HIDE DEF x
<1>7. Fits(x)
  BY <1>1, <1>5 DEF Fits, LookupSteps, RollingSteps
<1>8. Solo(old, catalog, held, followed) => Solo(x, catalog, held, followed)
  <2>1. \A m \in Rows(old.results) : m \in Mmsis /\ old.results[m] # Absent
    BY DEF Rows
  <2>2. Rows(rows) \subseteq Rows(old.results)
    BY <1>3 DEF Rows
  <2>3. QED
    BY <1>1, <1>3, <1>5, <2>1, <2>2 DEF Solo
<1>9. QED
  BY <1>1, <1>2, <1>4, <1>5, <1>6, <1>7, <1>8, Turns DEF ReadRows

LEMMA CopyRowsHolds ==
  ASSUME Inv, NEW r \in Requests, CopyRows(r)
  PROVE  Inv'
<1> DEFINE old == requests[r]
<1>1. PICK m \in Rows(old.rows) :
        LET left == [old EXCEPT !.rows[m] = Absent] IN
          /\ followed' = Updated(m, old.rows[m])
          /\ Goes(r, IF left.rows = Empty THEN AfterRemember(left) ELSE left)
  BY DEF CopyRows
<1> DEFINE left == [old EXCEPT !.rows[m] = Absent]
           x == IF left.rows = Empty THEN AfterRemember(left) ELSE left
<1>2. /\ old \in RequestType /\ Fits(old) /\ Runs(r) /\ old.pc = "copyRows"
      /\ old.rows \in [Mmsis -> Reports \cup {Absent}] /\ m \in Mmsis
      /\ ~old.met => Solo(old, catalog, held, followed)
  BY RequestFacts, Running DEF CopyRows, Steps, RequestType, Table, Rows
<1>3. left \in RequestType
  BY <1>2 DEF RequestType, Table
<1>4. /\ left.kind = old.kind /\ left.results = old.results /\ left.stored = old.stored
      /\ left.own = old.own /\ left.stale = old.stale /\ left.met = old.met
      /\ left.asked = old.asked /\ left.at = old.at /\ left.pc = "copyRows"
      /\ left.rows = [old.rows EXCEPT ![m] = Absent]
  BY <1>2 DEF RequestType
<1>5. left.rows[m] = Absent /\ \A k \in Mmsis \ {m} : left.rows[k] = old.rows[k]
  BY <1>2, <1>4
<1>6. followed \in Table /\ catalog \in Table /\ Core
  BY WorldTypes DEF Inv, WorldType
<1>7. followed' = Updated(m, old.rows[m]) /\ Goes(r, x)
  BY <1>1
<1> HIDE DEF left
<1>8. followed' \in Table
      /\ followed'[m] \in {Absent, old.rows[m]}
      /\ \A k \in Mmsis \ {m} : followed'[k] = followed[k]
  BY <1>2, <1>6, <1>7 DEF Updated, Table
<1>9. WorldType' /\ Known' /\ UNCHANGED <<upstream, clock, catalog, held>>
  BY <1>8, WorldTypes DEF Inv, CopyRows, catalogRows, limits, sync, world, WorldType, Known
<1>10. Fits(left) /\ old.kind # "rolling"
  BY <1>2, <1>4 DEF Fits, LookupSteps, RollingSteps
<1>11. ASSUME Solo(old, catalog, held, followed)
       PROVE  /\ Solo(left, catalog', held', followed')
              /\ \A k \in Rows(old.results) : catalog[k] = old.results[k]
  <2>1. Rows(left.rows) \subseteq Rows(old.rows) /\ (\A k \in Rows(old.results) : k \in Mmsis)
    BY <1>5 DEF Rows
  <2>2. m \in Rows(old.results) /\ old.rows[m] = catalog[m] /\ Rows(old.rows) \subseteq Rows(old.results)
        /\ \A k \in Rows(old.results) : catalog[k] = old.results[k]
    BY <1>2, <1>11 DEF Solo, Rows
  <2>3. ASSUME NEW k \in Rows(old.results)
        PROVE  /\ left.rows[k] \in {Absent, catalog'[k]}
               /\ left.rows[k] = Absent => followed'[k] \in {Absent, catalog'[k]}
    <3>1. CASE k = m
      BY <1>5, <1>8, <1>9, <2>2, <3>1
    <3>2. CASE k # m
      BY <1>2, <1>5, <1>8, <1>9, <1>11, <2>1, <2>3, <3>2 DEF Solo
    <3>3. QED
      BY <3>1, <3>2
  <2>4. QED
    BY <1>4, <1>9, <1>11, <2>1, <2>2, <2>3 DEF Solo
<1>12. CASE left.rows # Empty
  <2>1. x = left
    BY <1>12
  <2>2. QED
    BY <1>2, <1>3, <1>4, <1>7, <1>9, <1>10, <1>11, <2>1, Moves
<1>13. CASE left.rows = Empty
  <2>1. x = AfterRemember(left)
    BY <1>13
  <2>2. x \in RequestType
    BY <1>3, <2>1, AfterRememberType
  <2>3. Fits(x) /\ x.met = old.met
    BY <1>3, <1>4, <1>6, <1>10, <2>1, AfterRememberHolds
  <2>4. ASSUME Solo(old, catalog, held, followed)
        PROVE  Solo(x, catalog', held', followed')
    <3>1. /\ Solo(left, catalog', held', followed')
          /\ \A k \in Rows(left.results) : catalog'[k] = left.results[k]
      BY <1>4, <1>9, <1>11, <2>4
    <3>2. \A k \in Rows(left.results) : followed'[k] \in {Absent, catalog'[k]}
      BY <1>4, <1>13, <3>1, EmptyTable DEF Solo, Rows
    <3>3. catalog' \in Table /\ held' \in [Mmsis -> Reports]
      BY <1>6, <1>9 DEF WorldType
    <3>4. /\ ~left.stale => \A k \in Rows(left.results) :
               Fresh(left.results[k], catalog'[k], held'[k])
          /\ left.kind = "follow" /\ ~left.own =>
               \A k \in left.asked : left.results[k] = Absent
                 => Fresh(left.stored[k], catalog'[k], held'[k])
      BY <3>1 DEF Solo
    <3>5. Solo(AfterRemember(left), catalog', held', followed')
      BY <1>3, <1>4, <1>6, <1>8, <1>10, <3>1, <3>2, <3>3, <3>4, AfterRememberHolds
    <3>6. QED
      BY <2>1, <3>5
  <2>5. QED
    BY <1>2, <1>7, <1>9, <2>2, <2>3, <2>4, Moves
<1>14. QED
  BY <1>12, <1>13

LEMMA FollowHolds ==
  ASSUME Inv, NEW r \in Requests, Follow(r)
  PROVE  Inv'
<1> DEFINE old == requests[r]
<1>1. PICK m \in old.todo :
        /\ followed' = [followed EXCEPT ![m] = old.results[m]]
        /\ Goes(r, [old EXCEPT !.todo = @ \ {m}, !.pc = IF old.todo = {m} THEN "done" ELSE @])
  BY DEF Follow
<1> DEFINE x == [old EXCEPT !.todo = @ \ {m}, !.pc = IF old.todo = {m} THEN "done" ELSE @]
<1>2. /\ old \in RequestType /\ Fits(old) /\ Runs(r) /\ old.pc = "follow"
      /\ ~old.met => Solo(old, catalog, held, followed)
  BY RequestFacts, Running DEF Follow, Steps
<1>3. m \in Rows(old.results) /\ m \in Mmsis /\ old.results \in [Mmsis -> Reports \cup {Absent}]
  BY <1>2 DEF RequestType, Fits, Table
<1>4. x \in RequestType
  BY <1>2 DEF RequestType, Steps
<1>5. WorldType' /\ Known' /\ UNCHANGED <<upstream, clock, catalog, held>>
  BY <1>1, <1>3, WorldTypes
     DEF Inv, Follow, catalogRows, limits, sync, world, WorldType, Known, Table
<1>6. /\ x.kind = old.kind /\ x.results = old.results /\ x.stored = old.stored
      /\ x.own = old.own /\ x.stale = old.stale /\ x.met = old.met /\ x.asked = old.asked
      /\ x.at = old.at /\ x.todo \subseteq old.todo /\ x.pc \in {"follow", "done"}
  BY <1>2 DEF RequestType
<1> HIDE DEF x
<1>7. Fits(x)
  BY <1>2, <1>6 DEF Fits, LookupSteps, RollingSteps
<1>8. followed'[m] = old.results[m] /\ \A k \in Mmsis \ {m} : followed'[k] = followed[k]
  BY <1>1, <1>3, WorldTypes DEF Inv, WorldType, Table
<1>9. Solo(old, catalog, held, followed) => Solo(x, catalog', held', followed')
  <2>1. \A k \in Rows(old.results) : k \in Mmsis
    BY DEF Rows
  <2>2. QED
    BY <1>2, <1>3, <1>5, <1>6, <1>8, <2>1 DEF Solo
<1>10. Goes(r, x)
  BY <1>1 DEF x
<1>11. QED
  BY <1>2, <1>4, <1>5, <1>6, <1>7, <1>9, <1>10, Moves

LEMMA ThrowHolds ==
  ASSUME Inv, NEW r \in Requests, Throw(r)
  PROVE  Inv'
<1> DEFINE old == requests[r]
           x == [old EXCEPT !.pc = "fail", !.results = Empty]
<1>1. /\ old \in RequestType /\ Fits(old) /\ Runs(r) /\ old.kind = "rolling"
  BY RequestFacts DEF Throw, Runs
<1>2. x \in RequestType
  BY <1>1, EmptyTable DEF RequestType, Steps
<1>3. WorldType' /\ Known' /\ UNCHANGED <<tables, world>>
  BY WorldTypes DEF Inv, Throw, tables, catalogRows, sync, world, WorldType, Known, At
<1>4. /\ x.kind = "rolling" /\ x.results = Empty /\ x.stored = old.stored
      /\ x.own = old.own /\ x.stale = old.stale /\ x.met = old.met
      /\ x.at = old.at /\ x.pc = "fail"
  BY <1>1 DEF RequestType
<1>5. upstream \in [Mmsis -> Reports] /\ Idle.results = Empty /\ Fits(Idle) /\ Idle.pc = "idle"
  BY WorldTypes, IdleFits DEF Inv, WorldType, Idle
<1>6. ~old.own
  BY <1>1 DEF Fits
<1>7. Fits(x)
  BY <1>1, <1>4, <1>5, <1>6, EmptyTable DEF Fits, LookupSteps, RollingSteps, Absent
<1>8. Solo(x, catalog, held, followed)
  BY <1>4, EmptyTable DEF Solo
<1>9. QED
  BY <1>1, <1>2, <1>3, <1>4, <1>7, <1>8, Turns DEF Throw

(* What a batch of the sync makes of the catalog. *)
LEMMA UpsertedTable ==
  ASSUME Core, NEW ms \in SUBSET Mmsis, NEW records \in Table,
         ms \subseteq Rows(records), Bounded(records)
  PROVE  /\ Upserted(ms, records) \in Table
         /\ \A m \in Mmsis : /\ Upserted(ms, records)[m] \in {catalog[m], records[m]}
                             /\ Upserted(ms, records)[m] = 0 \/ Upserted(ms, records)[m] >= catalog[m]
                             /\ Upserted(ms, records)[m] <= upstream[m]
                             /\ catalog[m] # Absent \/ m \in ms => Upserted(ms, records)[m] # Absent
<1>1. catalog \in Table /\ Known /\ WorldType
  BY WorldTypes DEF WorldType
<1>2. \A m \in Mmsis : /\ catalog[m] \in Int /\ records[m] \in Int /\ records[m] >= -1
                       /\ upstream[m] \in Int /\ catalog[m] <= upstream[m]
  <2>1. \A m \in Mmsis : /\ catalog[m] \in Int /\ records[m] \in Int /\ records[m] >= -1
                         /\ upstream[m] \in Int /\ held[m] \in Int
    BY <1>1, AisHubAssumption DEF Table, Reports, Absent, WorldType
  <2>2. QED
    BY <1>1, <2>1 DEF Known
<1>3. \A m \in ms : records[m] # Absent
  BY DEF Rows
<1>4. QED
  BY <1>1, <1>2, <1>3 DEF Upserted, Table, Absent, Known, Bounded

LEMMA UpsertBatchHolds ==
  ASSUME Inv, NEW r \in Requests, UpsertBatch(r)
  PROVE  Inv'
<1> DEFINE old == requests[r]
<1>1. PICK ms \in SUBSET old.todo :
        /\ ms # {} \/ old.todo = {}
        /\ catalog' = Upserted(ms, old.results)
        /\ held' = Held(catalog')
        /\ Goes(r, [old EXCEPT !.todo = @ \ ms, !.pc = IF old.todo = ms THEN "track" ELSE @])
  BY DEF UpsertBatch
<1> DEFINE x == [old EXCEPT !.todo = @ \ ms, !.pc = IF old.todo = ms THEN "track" ELSE @]
<1>2. /\ old \in RequestType /\ Fits(old) /\ Runs(r) /\ old.pc = "upsert"
      /\ ~old.met => Solo(old, catalog, held, followed)
  BY RequestFacts, Running DEF UpsertBatch, Steps
<1>3. /\ old.results \in Table /\ ms \subseteq Rows(old.results) /\ ms \subseteq Mmsis
      /\ Bounded(old.results) /\ old.kind = "rolling"
  BY <1>2 DEF RequestType, Fits, Bounded, RollingSteps
<1>4. /\ catalog' \in Table
      /\ \A m \in Mmsis : /\ catalog'[m] \in {catalog[m], old.results[m]}
                          /\ catalog'[m] <= upstream[m]
                          /\ catalog[m] # Absent \/ m \in ms => catalog'[m] # Absent
  BY <1>1, <1>3, UpsertedTable DEF Inv
<1>5. /\ WorldType' /\ Known' /\ UNCHANGED <<upstream, clock, followed>>
      /\ \A k \in Mmsis : catalog'[k] = catalog[k] => held'[k] = held[k]
  <2>1. WorldType /\ Known /\ TypeOK
    BY WorldTypes DEF Inv
  <2>2. /\ held' \in [Mmsis -> Reports]
        /\ \A k \in Mmsis : /\ catalog'[k] <= held'[k] /\ held'[k] <= upstream[k]
                            /\ catalog'[k] = catalog[k] => held'[k] = held[k]
    BY <1>1, <1>4, <2>1, HeldFollows
  <2>3. \A k \in Mmsis : catalog'[k] = Absent => catalog'[k] = catalog[k]
    BY <1>4
  <2>4. Known' /\ UNCHANGED <<upstream, clock, followed, cache>>
    BY <2>1, <2>2, <2>3 DEF UpsertBatch, world, Known
  <2>5. WorldType'
    BY <1>4, <2>1, <2>2, <2>4 DEF UpsertBatch, limits, sync, world, WorldType
  <2>6. QED
    BY <2>2, <2>4, <2>5
<1>6. x \in RequestType
  BY <1>2 DEF RequestType, Steps
<1>7. /\ x.kind = old.kind /\ x.results = old.results /\ x.stored = old.stored
      /\ x.own = old.own /\ x.stale = old.stale /\ x.met = old.met /\ x.asked = old.asked
      /\ x.at = old.at /\ x.todo = old.todo \ ms /\ x.pc \in {"upsert", "track"}
      /\ x.pc = "track" => x.todo = {}
  BY <1>2 DEF RequestType
<1> HIDE DEF x
<1>8. Fits(x)
  BY <1>2, <1>7 DEF Fits, LookupSteps, RollingSteps
<1>9. Solo(old, catalog, held, followed) => Solo(x, catalog', held', followed')
  <2>1. \A k \in Rows(old.results) : k \in Mmsis /\ old.results[k] \in Int
    BY <1>3, AisHubAssumption DEF Rows, Table, Reports, Absent
  <2>2. HAVE Solo(old, catalog, held, followed)
  <2>3. ~x.stale => \A k \in Rows(x.results) : Fresh(x.results[k], catalog'[k], held'[k])
    BY <1>4, <1>5, <1>7, <2>1, <2>2 DEF Solo, Fresh
  <2>4. QED
    BY <1>2, <1>3, <1>4, <1>7, <2>1, <2>2, <2>3 DEF Solo
<1>10. Goes(r, x)
  BY <1>1 DEF x
<1>11. QED
  BY <1>2, <1>5, <1>6, <1>7, <1>8, <1>9, <1>10, Moves

LEMMA TrackHolds ==
  ASSUME Inv, NEW r \in Requests, Track(r)
  PROVE  Inv'
<1> DEFINE old == requests[r]
           ms == Rows(old.results) \cap Rows(followed)
           x == [old EXCEPT !.todo = ms, !.pc = IF ms = {} THEN "succeed" ELSE "refreshCopies"]
<1>1. /\ old \in RequestType /\ Fits(old) /\ Runs(r) /\ old.pc = "track"
  BY RequestFacts, Running DEF Track, Steps
<1>2. WorldType' /\ Known'
  BY SameWorld DEF Inv, Track
<1>3. ms \subseteq Mmsis
  BY DEF Rows
<1>4. x \in RequestType
  BY <1>1, <1>3 DEF RequestType, Steps
<1>5. /\ x.kind = old.kind /\ x.results = old.results /\ x.stored = old.stored
      /\ x.own = old.own /\ x.stale = old.stale /\ x.met = old.met /\ x.asked = old.asked
      /\ x.at = old.at /\ x.todo = ms /\ x.pc \in {"refreshCopies", "succeed"}
      /\ x.pc = "succeed" => ms = {}
  BY <1>1 DEF RequestType
<1>6. Goes(r, x)
  BY DEF Track
<1>7. \A m \in Rows(old.results) \ ms : followed[m] = Absent
  BY DEF Rows
<1> HIDE DEF x, ms
<1>8. Fits(x)
  BY <1>1, <1>5 DEF Fits, LookupSteps, RollingSteps
<1>9. Solo(old, catalog, held, followed) => Solo(x, catalog, held, followed)
  BY <1>1, <1>5, <1>7, <1>8 DEF Solo, Fits
<1>10. QED
  BY <1>1, <1>2, <1>4, <1>5, <1>6, <1>8, <1>9, Turns DEF Track

LEMMA RefreshCopiesHolds ==
  ASSUME Inv, NEW r \in Requests, RefreshCopies(r)
  PROVE  Inv'
<1> DEFINE old == requests[r]
<1>1. PICK ms \in SUBSET old.todo \ {{}} :
        /\ followed' = [m \in Mmsis |->
             IF m \in ms /\ followed[m] # Absent /\ catalog[m] # Absent
               THEN catalog[m] ELSE followed[m]]
        /\ Goes(r, [old EXCEPT !.todo = @ \ ms, !.pc = IF old.todo = ms THEN "succeed" ELSE @])
  BY DEF RefreshCopies
<1> DEFINE x == [old EXCEPT !.todo = @ \ ms, !.pc = IF old.todo = ms THEN "succeed" ELSE @]
<1>2. /\ old \in RequestType /\ Fits(old) /\ Runs(r) /\ old.pc = "refreshCopies"
      /\ old.kind = "rolling" /\ ~old.stale
      /\ ~old.met => Solo(old, catalog, held, followed)
  BY RequestFacts, Running DEF RefreshCopies, Steps, Fits, RollingSteps
<1>3. followed \in Table /\ catalog \in Table /\ followed' \in Table
  BY <1>1, WorldTypes DEF Inv, WorldType, Table
<1>4. WorldType' /\ Known' /\ UNCHANGED <<upstream, clock, catalog, held>>
  BY <1>3, WorldTypes DEF Inv, RefreshCopies, catalogRows, limits, sync, world, WorldType, Known
<1>5. x \in RequestType
  BY <1>2 DEF RequestType, Steps
<1>6. /\ x.kind = old.kind /\ x.results = old.results /\ x.stored = old.stored
      /\ x.own = old.own /\ x.stale = old.stale /\ x.met = old.met /\ x.asked = old.asked
      /\ x.at = old.at /\ x.todo = old.todo \ ms /\ x.pc \in {"refreshCopies", "succeed"}
      /\ x.pc = "succeed" => x.todo = {}
  BY <1>2 DEF RequestType
<1> HIDE DEF x
<1>7. Fits(x)
  BY <1>2, <1>6 DEF Fits, LookupSteps, RollingSteps
<1>8. ASSUME Solo(old, catalog, held, followed)
      PROVE  Solo(x, catalog', held', followed')
  <2>1. \A m \in Rows(old.results) : m \in Mmsis /\ catalog[m] # Absent
    BY <1>2, <1>8 DEF Solo, Rows
  <2>2. \A m \in Rows(old.results) : m \in ms \/ m \notin old.todo =>
          followed'[m] \in {Absent, catalog'[m]}
    <3>1. SUFFICES ASSUME NEW m \in Rows(old.results), m \in ms \/ m \notin old.todo
                   PROVE  followed'[m] \in {Absent, catalog'[m]}
      OBVIOUS
    <3>2. CASE m \notin ms
      BY <1>1, <1>2, <1>4, <1>8, <2>1, <3>1, <3>2 DEF Solo
    <3>3. CASE m \in ms
      BY <1>1, <1>4, <2>1, <3>1, <3>3
    <3>4. QED
      BY <3>2, <3>3
  <2>3. QED
    BY <1>2, <1>4, <1>6, <1>8, <2>1, <2>2 DEF Solo
<1>9. Goes(r, x)
  BY <1>1 DEF x
<1>10. QED
  BY <1>2, <1>4, <1>5, <1>6, <1>7, <1>8, <1>9, Moves

(* Vessels are unfollowed, the hub hears of one, the clock moves: what is   *)
(* known of every request stays true.                                       *)
LEMMA Unmoved ==
  ASSUME Inv, requests' = requests, WorldType', Known',
         \A r \in Requests : Fits(requests[r]) => Fits(requests[r])',
         \A r \in Requests : Solo(requests[r], catalog, held, followed)
                               => Solo(requests[r], catalog', held', followed')
  PROVE  Inv'
BY DEF Inv, Core, Unmet, Alone, Runs, TypeOK, WorldType

LEMMA UnfollowHolds ==
  ASSUME Inv, Unfollow
  PROVE  Inv'
<1>1. PICK m \in Rows(followed) : followed' = [followed EXCEPT ![m] = Absent]
  BY DEF Unfollow
<1>2. WorldType /\ Known
  BY WorldTypes DEF Inv
<1>3. /\ followed' \in Table
      /\ \A k \in Mmsis : followed'[k] \in {Absent, followed[k]}
  BY <1>1, <1>2 DEF WorldType, Table
<1>4. WorldType' /\ Known' /\ requests' = requests /\ UNCHANGED <<upstream, clock, catalog, held>>
  BY <1>2, <1>3 DEF Unfollow, catalogRows, limits, sync, world, WorldType, Known
<1>5. \A r \in Requests : Fits(requests[r]) => Fits(requests[r])'
  BY <1>4 DEF Fits, Rows
<1>6. ASSUME NEW r \in Requests, Solo(requests[r], catalog, held, followed)
      PROVE  Solo(requests[r], catalog', held', followed')
  <2>1. \A k \in Rows(requests[r].results) : k \in Mmsis
    BY DEF Rows
  <2>2. QED
    BY <1>3, <1>4, <1>6, <2>1 DEF Solo
<1>7. QED
  BY <1>4, <1>5, <1>6, Unmoved

LEMMA ReportHolds ==
  ASSUME Inv, Report
  PROVE  Inv'
<1>1. PICK m \in Mmsis : upstream[m] < MaxReports /\ upstream' = [upstream EXCEPT ![m] = @ + 1]
  BY DEF Report
<1>2. WorldType /\ Known /\ \A r \in Requests : requests[r] \in RequestType
  BY WorldTypes, RequestFacts DEF Inv
<1>3. /\ upstream' \in [Mmsis -> Reports]
      /\ \A k \in Mmsis : upstream'[k] >= upstream[k] /\ upstream[k] \in Int /\ upstream'[k] \in Int
  BY <1>1, <1>2, AisHubAssumption DEF WorldType, Reports
<1>4. \A table \in Table, k \in Mmsis : table[k] <= upstream[k] => table[k] <= upstream'[k]
  BY <1>3, AisHubAssumption DEF Table, Reports, Absent
<1>5. WorldType' /\ Known' /\ requests' = requests /\ UNCHANGED <<clock, tables>>
  <2>1. UNCHANGED <<clock, catalog, held, followed, lastRequestAt, lastLookup, overlapped, lost,
                    status, cutOff, cache, begun, requests>>
    BY DEF Report, tables, catalogRows, limits, sync
  <2>2. \A k \in Mmsis : held[k] \in Int
    BY <1>2, AisHubAssumption DEF WorldType, Reports
  <2>3. \A k \in Mmsis : held[k] <= upstream'[k]
    BY <1>2, <1>3, <2>2 DEF Known
  <2>4. cache.results \in Table
    BY <1>2 DEF WorldType
  <2>5. \A k \in Mmsis : cache.results[k] <= upstream'[k]
    BY <1>2, <1>4, <2>4 DEF Known
  <2>6. Known'
    BY <1>2, <2>1, <2>3, <2>5 DEF Known
  <2>7. WorldType'
    BY <1>2, <1>3, <2>1 DEF WorldType
  <2>8. QED
    BY <2>1, <2>6, <2>7 DEF tables, catalogRows
<1>6. ASSUME NEW r \in Requests, Fits(requests[r])
      PROVE  Fits(requests[r])'
  <2>1. requests[r].results \in Table /\ requests[r].stored \in Table
    BY <1>2 DEF RequestType
  <2>2. QED
    BY <1>4, <1>5, <1>6, <2>1 DEF Fits, Rows
<1>7. QED
  BY <1>5, <1>6, Unmoved DEF tables, catalogRows

LEMMA TickHolds ==
  ASSUME Inv, Tick
  PROVE  Inv'
<1>1. WorldType /\ Known /\ \A r \in Requests : requests[r] \in RequestType
  BY WorldTypes, RequestFacts DEF Inv
<1>2. clock \in Int /\ clock' \in 0..MaxTime /\ clock' >= clock
  BY <1>1, AisHubAssumption DEF Tick, WorldType
<1>3. \A r \in Requests : requests[r].at \in Int
  <2>1. \A r \in Requests : requests[r].at \in Times
    BY <1>1 DEF RequestType
  <2>2. Times \subseteq Int
    BY AisHubAssumption DEF Times, NeverAsked
  <2>3. QED
    BY <2>1, <2>2
<1>4. UNCHANGED <<upstream, catalog, held, followed, lastRequestAt, lastLookup, overlapped, lost,
                  status, cutOff, cache, begun, requests>>
  BY DEF Tick, tables, catalogRows, limits, sync
<1>5. WorldType' /\ Known'
  BY <1>1, <1>2, <1>4 DEF WorldType, Known
<1>6. ASSUME NEW r \in Requests, Fits(requests[r])
      PROVE  Fits(requests[r])'
  BY <1>2, <1>3, <1>4, <1>6 DEF Fits, Rows
<1>7. QED
  BY <1>4, <1>5, <1>6, Unmoved

LEMMA InitInv == Init => Inv
<1> SUFFICES ASSUME Init PROVE Inv
  OBVIOUS
<1>1. TypeOK
  <2>1. 0 \in Reports /\ 0 \in 0..(MaxTime + CacheTTL) /\ 0 \in 0..MaxTime /\ 0 \in 0..MaxRequests
    BY AisHubAssumption DEF Reports
  <2>2. QED
    BY <2>1, IdleType, EmptyTable, ZeroTime DEF Init, TypeOK
<1>2. Known
  BY <1>1, EmptyTable DEF Init, Known, Absent
<1>3. Fits(Idle)
  BY <1>1, EmptyTable, AisHubAssumption
     DEF Init, Fits, Idle, LookupSteps, RollingSteps, Reports, Absent
<1>4. \A r \in Requests : requests[r] = Idle /\ ~Runs(r)
  BY DEF Init, Runs, Idle
<1>5. QED
  BY <1>1, <1>2, <1>3, <1>4 DEF Inv, Core, Unmet, Alone

LEMMA StepInv == Inv /\ [Next]_vars => Inv'
<1> SUFFICES ASSUME Inv, [Next]_vars PROVE Inv'
  OBVIOUS
<1>1. ASSUME NEW r \in Requests, Searches(r)
      PROVE  Inv'
  BY <1>1, BeginSearchHolds, ReadCacheHolds, CacheFailsHolds, SetCacheHolds DEF Searches
<1>2. ASSUME NEW r \in Requests, Lookups(r)
      PROVE  Inv'
  BY <1>2, BeginRefreshHolds, BeginFollowHolds, BeginSubmitHolds, ReadLastHolds, RefuseHolds,
     SendHolds, AnswerHolds, RecordHolds DEF Lookups
<1>3. ASSUME NEW r \in Requests, Remembering(r)
      PROVE  Inv'
  BY <1>3, RememberHolds, ReadRowsHolds, CopyRowsHolds, FollowHolds DEF Remembering
<1>4. ASSUME NEW r \in Requests, Rolling(r)
      PROVE  Inv'
  BY <1>4, BeginRollingHolds, SettleHolds, ThrowHolds, UpsertBatchHolds, TrackHolds,
     RefreshCopiesHolds DEF Rolling, Skip, Succeed, Fail
<1>5. CASE UNCHANGED vars
  <2>1. /\ requests' = requests /\ WorldType' /\ Known' 
        /\ UNCHANGED <<upstream, clock, catalog, held, followed>>
    BY <1>5, WorldTypes DEF Inv, vars, tables, catalogRows, limits, sync, world, WorldType, Known
  <2>2. \A r \in Requests : Fits(requests[r]) => Fits(requests[r])'
    BY <2>1 DEF Fits, Rows
  <2>3. QED
    BY <2>1, <2>2, Unmoved
<1>6. QED
  BY <1>1, <1>2, <1>3, <1>4, <1>5, FinishHolds, StopHolds, UnfollowHolds, ReportHolds, TickHolds
     DEF Next

-----------------------------------------------------------------------------
(* The lookups that are on their way, and the outcome a sync has yet to     *)
(* write: where a request comes from and goes to.                           *)

(* The requests that a step leaves where they are. *)
LEMMA Others ==
  ASSUME TypeOK, NEW r \in Requests, NEW x, Goes(r, x)
  PROVE  /\ requests'[r] = x
         /\ \A q \in Requests \ {r} : requests'[q] = requests[q]
BY DEF TypeOK, Goes

(* What a request remembers, or follows, has no lookup on its way. *)
LEMMA HelpersStay ==
  ASSUME NEW x \in RequestType
  PROVE  /\ Remembers(x, "done").pc \in {"remember", "done"}
         /\ Remembers(x, "done").kind = x.kind
         /\ \A answer \in Table : /\ ToFollow(x, answer).pc \in {"remember", "done"}
                                  /\ ToFollow(x, answer).kind = x.kind
         /\ x.pc \in Steps /\ x.kind \in Kinds
         /\ AfterRemember(x).pc \in {"remember", "done", "setCache", "follow"}
         /\ AfterRemember(x).kind = x.kind
<1>1. \A y \in RequestType : /\ Remembers(y, "done").pc \in {"remember", "done"}
                             /\ Remembers(y, "done").kind = y.kind
  BY DEF Remembers, RequestType
<1>2. ASSUME NEW answer \in Table
      PROVE  /\ ToFollow(x, answer).pc \in {"remember", "done"}
             /\ ToFollow(x, answer).kind = x.kind
  <2> DEFINE y == [x EXCEPT !.results = Authoritative(x, answer), !.own = TRUE,
                            !.stored = Empty, !.seen = 0]
  <2>1. y \in RequestType /\ y.kind = x.kind
    BY AuthoritativeTable, EmptyTable, ZeroTime DEF RequestType
  <2> HIDE DEF y
  <2>2. QED
    BY <1>1, <2>1 DEF ToFollow, y
<1>3. /\ AfterRemember(x).pc \in {"remember", "done", "setCache", "follow"}
      /\ AfterRemember(x).kind = x.kind
  <2>1. x.results \in Table
    BY DEF RequestType
  <2>2. CASE x.kind = "search" \/ x.kind = "refresh" \/ x.own
    <3>1. \E pc \in {"done", "setCache", "follow"} :
            \/ AfterRemember(x) = [x EXCEPT !.pc = pc]
            \/ AfterRemember(x) = [x EXCEPT !.pc = pc, !.todo = x.asked]
      BY <2>2 DEF AfterRemember
    <3>2. QED
      BY <3>1 DEF RequestType
  <2>3. CASE x.kind # "search" /\ x.kind # "refresh" /\ ~x.own
    BY <1>2, <2>1, <2>3 DEF AfterRemember
  <2>4. QED
    BY <2>2, <2>3
<1>4. QED
  BY <1>1, <1>2, <1>3 DEF RequestType

LEMMA TimeOrder ==
  ASSUME TypeOK
  PROVE  /\ clock \in Int /\ lastLookup \in Int /\ lastRequestAt \in Int
         /\ \A r \in Requests : requests[r].at \in Int
<1>1. Times \subseteq Int
  BY AisHubAssumption DEF Times, NeverAsked
<1>2. \A r \in Requests : requests[r].at \in Times
  BY DEF TypeOK, RequestType
<1>3. clock \in Int
  BY AisHubAssumption DEF TypeOK
<1>4. QED
  BY <1>1, <1>2, <1>3 DEF TypeOK

LEMMA ApartStays ==
  ASSUME TypeOK, Apart, UNCHANGED limits, clock' \in Int, clock' >= clock,
         \A q \in Requests : Asks(q)' <=> Asks(q),
         \A q \in Requests : Asks(q) => requests'[q].at = requests[q].at
  PROVE  Apart'
BY TimeOrder DEF Apart, limits

LEMMA SettledStays ==
  ASSUME Settled, UNCHANGED sync,
         \A q \in Requests : requests[q].kind = "rolling" /\ requests[q].pc # "done" =>
           requests'[q].kind = "rolling" /\ requests'[q].pc # "done"
  PROVE  Settled'
BY DEF Settled, sync

(* A step of a request without a lookup on its way, before and after; a     *)
(* sync goes on.                                                            *)
LEMMA Quietly ==
  ASSUME TypeOK, Apart, Settled, NEW r \in Requests, NEW x, Goes(r, x),
         requests[r].pc \notin {"answer", "record"}, x.pc \notin {"answer", "record"},
         requests[r].kind = "rolling" /\ requests[r].pc # "done" =>
           x.kind = "rolling" /\ x.pc # "done",
         UNCHANGED <<limits, sync, clock>>
  PROVE  Apart' /\ Settled'
<1>1. /\ requests'[r] = x
      /\ \A q \in Requests \ {r} : requests'[q] = requests[q]
  BY Others
<1>2. Apart'
  BY <1>1, ApartStays, TimeOrder DEF Asks, At
<1>3. Settled'
  BY <1>1, SettledStays
<1>4. QED
  BY <1>2, <1>3

LEMMA BeginsQuietly ==
  ASSUME Core, Apart, NEW r \in Requests, NEW x \in RequestType, Begin(r, x),
         x.pc \in {"readCache", "readLast", "remember", "done"},
         UNCHANGED <<limits, clock>>
  PROVE  /\ Apart' /\ (Settled /\ UNCHANGED sync => Settled')
         /\ requests'[r].kind = x.kind /\ requests'[r].pc = x.pc
<1>1. TypeOK /\ Fits(requests[r])
  BY DEF Core
<1>2. /\ requests[r].pc = "idle" /\ \A q \in Requests : requests[q] \in RequestType
      /\ requests'[r].kind = x.kind /\ requests'[r].pc = x.pc
      /\ \A q \in Requests \ {r} : /\ requests'[q].kind = requests[q].kind
                                   /\ requests'[q].pc = requests[q].pc
                                   /\ requests'[q].at = requests[q].at
  BY <1>1 DEF Begin, Runs, RequestType, TypeOK
<1>3. Apart'
  BY <1>1, <1>2, ApartStays, TimeOrder DEF Asks, At
<1>4. ASSUME Settled, UNCHANGED sync
      PROVE  Settled'
  BY <1>1, <1>2, <1>4, SettledStays DEF Fits, RollingSteps
<1>5. QED
  BY <1>2, <1>3, <1>4

(* The lookups: sent, answered, recorded, or lost. *)
LEMMA SendApart ==
  ASSUME Inv, Apart, Settled, NEW r \in Requests, Send(r)
  PROVE  Apart' /\ Settled'
<1> DEFINE x == [requests[r] EXCEPT !.pc = "answer", !.at = Sent(r), !.seen = 0]
<1>1. TypeOK /\ requests[r] \in RequestType /\ requests[r].pc = "send" /\ Fits(requests[r])
  BY RequestFacts DEF Inv, Core, Send, At
<1>2. /\ requests'[r] = x
      /\ \A q \in Requests \ {r} : requests'[q] = requests[q]
  BY <1>1, Others DEF Send
<1>3. x.pc = "answer" /\ x.kind = requests[r].kind /\ x.at = Sent(r)
  BY <1>1 DEF RequestType
<1>4. Sent(r) \in Int /\ Sent(r) <= clock /\ lastLookup' = Sent(r) /\ clock' = clock
  BY <1>1, TimeOrder DEF Sent, Fits, Send, world
<1>5. ~overlapped' => \A q \in Requests : ~Asks(q)
  BY DEF Send, Asks
<1>6. \A q \in Requests : Asks(q)' <=> q = r \/ Asks(q)
  BY <1>1, <1>2, <1>3 DEF Asks, At
<1>7. Apart'
  <2>1. ~overlapped' => \A q \in Requests : Asks(q)' <=> q = r
    BY <1>5, <1>6
  <2>2. requests'[r].at >= lastLookup' /\ lastLookup' <= clock'
    BY <1>2, <1>3, <1>4
  <2>3. QED
    BY <2>1, <2>2 DEF Apart
<1>8. Settled'
  BY <1>1, <1>2, <1>3, SettledStays DEF Send
<1>9. QED
  BY <1>7, <1>8

LEMMA AnswerApart ==
  ASSUME Inv, Apart, Settled, NEW r \in Requests, Answer(r)
  PROVE  Apart' /\ Settled'
<1>1. PICK ms \in SUBSET Mmsis, undated \in SUBSET Mmsis :
        Goes(r, [requests[r] EXCEPT !.pc = "record", !.results = Heard(ms, undated),
                   !.at = IF requests[r].kind = "search" THEN clock ELSE @])
  BY DEF Answer
<1> DEFINE x == [requests[r] EXCEPT !.pc = "record", !.results = Heard(ms, undated),
                   !.at = IF requests[r].kind = "search" THEN clock ELSE @]
<1>2. TypeOK /\ requests[r] \in RequestType /\ requests[r].pc = "answer"
  BY RequestFacts DEF Inv, Core, Answer, At
<1>3. /\ requests'[r] = x
      /\ \A q \in Requests \ {r} : requests'[q] = requests[q]
  BY <1>1, <1>2, Others
<1>4. x.pc = "record" /\ x.kind = requests[r].kind /\ x.at \in {clock, requests[r].at}
  BY <1>2 DEF RequestType
<1>5. \A q \in Requests : Asks(q)' <=> Asks(q)
  BY <1>2, <1>3, <1>4 DEF Asks, At
<1>6. UNCHANGED <<lastRequestAt, lastLookup, overlapped, lost, clock>>
  BY DEF Answer, limits, world
<1>7. Apart'
  BY <1>2, <1>3, <1>4, <1>5, <1>6, TimeOrder DEF Apart
<1>8. Settled'
  BY <1>2, <1>3, <1>4, SettledStays DEF Answer
<1>9. QED
  BY <1>7, <1>8

LEMMA RecordApart ==
  ASSUME Inv, Apart, Settled, NEW r \in Requests, Record(r)
  PROVE  Apart' /\ Settled'
<1> DEFINE old == requests[r]
<1>1. TypeOK /\ old \in RequestType /\ old.pc = "record"
  BY RequestFacts DEF Inv, Core, Record, At
<1>2. PICK x : /\ Goes(r, x) /\ x.pc \notin {"answer", "record"}
               /\ x.kind = old.kind /\ (old.kind = "rolling" => x.pc = "upsert")
  <2>1. CASE old.kind = "rolling"
    <3> DEFINE y == [old EXCEPT !.todo = Rows(old.results), !.at = 0, !.pc = "upsert"]
    <3>1. Goes(r, y) /\ y.pc = "upsert" /\ y.kind = old.kind
      BY <1>1, <2>1 DEF Record, RequestType
    <3>2. QED
      BY <3>1
  <2>2. CASE old.kind # "rolling"
    BY <1>1, <2>2, HelpersStay DEF Record
  <2>3. QED
    BY <2>1, <2>2
<1>3. /\ requests'[r] = x
      /\ \A q \in Requests \ {r} : requests'[q] = requests[q]
  BY <1>1, <1>2, Others
<1>4. Asks(r) /\ ~Asks(r)' /\ \A q \in Requests \ {r} : Asks(q)' <=> Asks(q)
  BY <1>1, <1>2, <1>3 DEF Asks, At
<1>5. /\ lastRequestAt' = old.at
      /\ UNCHANGED <<lastLookup, overlapped, lost, clock>>
  BY DEF Record, Stamp, world
<1>6. Apart'
  BY <1>1, <1>3, <1>4, <1>5, TimeOrder DEF Apart
<1>7. Settled'
  BY <1>1, <1>2, <1>3, SettledStays DEF Record
<1>8. QED
  BY <1>6, <1>7

(* A lookup that is on its way is lost. *)
LEMMA Loses ==
  ASSUME TypeOK, Apart, NEW r \in Requests, NEW x, Goes(r, x), x.pc \notin {"answer", "record"},
         lost' = (lost \/ At(r, "answer") \/ At(r, "record")),
         UNCHANGED <<lastRequestAt, lastLookup, overlapped, clock>>
  PROVE  Apart'
<1>1. /\ requests'[r] = x
      /\ \A q \in Requests \ {r} : requests'[q] = requests[q]
  BY Others
<1>2. ~lost' => \A q \in Requests : Asks(q)' <=> Asks(q)
  BY <1>1 DEF Asks, At
<1>3. QED
  BY <1>1, <1>2, TimeOrder DEF Apart, Asks, At

LEMMA ThrowApart ==
  ASSUME Inv, Apart, Settled, NEW r \in Requests, Throw(r)
  PROVE  Apart' /\ Settled'
<1> DEFINE x == [requests[r] EXCEPT !.pc = "fail", !.results = Empty]
<1>1. TypeOK /\ requests[r] \in RequestType
  BY RequestFacts DEF Inv, Core
<1>2. Goes(r, x) /\ x.pc = "fail" /\ x.kind = requests[r].kind
  BY <1>1 DEF Throw, RequestType
<1>3. Apart'
  BY <1>1, <1>2, Loses DEF Throw, world
<1>4. Settled'
  <2>1. requests'[r] = x /\ \A q \in Requests \ {r} : requests'[q] = requests[q]
    BY <1>1, <1>2, Others
  <2> HIDE DEF x
  <2>2. QED
    BY <1>2, <2>1, SettledStays DEF Throw
<1>5. QED
  BY <1>3, <1>4

LEMMA StopApart ==
  ASSUME Inv, Apart, Settled, NEW r \in Requests, Stop(r)
  PROVE  Apart' /\ Settled'
<1>1. TypeOK /\ Goes(r, Idle) /\ Idle.pc = "idle"
  BY DEF Inv, Core, Stop, Idle
<1>2. Apart'
  BY <1>1, Loses DEF Stop, world
<1>3. Settled'
  BY <1>1, Others DEF Settled, Stop
<1>4. QED
  BY <1>2, <1>3

LEMMA BeginRollingApart ==
  ASSUME Inv, Apart, NEW r \in Requests, BeginRolling(r)
  PROVE  Apart' /\ Settled'
<1> DEFINE x == [Idle EXCEPT !.kind = "rolling", !.pc = "readLast", !.at = clock]
<1>1. clock \in Times
  BY ZeroTime DEF Inv, Core, TypeOK
<1>2. x \in RequestType /\ x.pc = "readLast" /\ x.kind = "rolling"
  BY <1>1, IdleType DEF RequestType, Kinds, Steps, Idle
<1>3. Begin(r, x) /\ UNCHANGED <<limits, clock>>
  BY DEF BeginRolling, world
<1> HIDE DEF x
<1>4. Apart' /\ requests'[r].kind = "rolling" /\ requests'[r].pc = "readLast"
  BY <1>2, <1>3, BeginsQuietly DEF Inv
<1>5. QED
  BY <1>4 DEF Settled

LEMMA SettleApart ==
  ASSUME Inv, Apart, NEW r \in Requests, NEW step \in {"skip", "succeed", "fail"},
         NEW outcome \in {"skipped", "success", "error"}, Settle(r, step, outcome)
  PROVE  Apart' /\ Settled'
<1> DEFINE x == [requests[r] EXCEPT !.pc = "done"]
<1>1. TypeOK /\ requests[r] \in RequestType /\ requests[r].pc = step
  BY RequestFacts DEF Inv, Core, Settle, At
<1>2. Goes(r, x) /\ x.pc = "done" /\ x.at = requests[r].at
  BY <1>1 DEF Settle, Goto, RequestType
<1>3. requests'[r] = x /\ \A q \in Requests \ {r} : requests'[q] = requests[q]
  BY <1>1, <1>2, Others
<1> HIDE DEF x
<1>4. Apart'
  BY <1>1, <1>2, <1>3, ApartStays, TimeOrder DEF Settle, world, Asks, At
<1>5. QED
  BY <1>4 DEF Settled, Settle

(* The other steps of a request. *)
LEMMA SearchesApart ==
  ASSUME Inv, Apart, Settled, NEW r \in Requests, Searches(r)
  PROVE  Apart' /\ Settled'
<1> DEFINE old == requests[r]
<1>1. TypeOK /\ old \in RequestType /\ Fits(old)
  BY RequestFacts DEF Inv, Core
<1>2. CASE BeginSearch(r)
  <2>1. [Idle EXCEPT !.kind = "search", !.pc = "readCache"] \in RequestType
    BY IdleType DEF RequestType, Kinds, Steps
  <2>2. [Idle EXCEPT !.kind = "search", !.pc = "readCache"].pc = "readCache"
    BY DEF Idle
  <2>3. QED
    BY <1>2, <2>1, <2>2, BeginsQuietly DEF Inv, BeginSearch, world
<1>3. ASSUME ReadCache(r) \/ CacheFails(r) \/ SetCache(r)
      PROVE  \E x : /\ Goes(r, x) /\ x.pc \notin {"answer", "record"}
                    /\ old.pc \notin {"answer", "record"} /\ old.kind # "rolling"
  <2>1. CASE ReadCache(r)
    <3> DEFINE x == [old EXCEPT !.results = cache.results, !.stale = TRUE]
               y == [old EXCEPT !.pc = "readLast"]
    <3>1. cache.results \in Table
      BY <1>1 DEF TypeOK
    <3>2. x \in RequestType /\ y.pc = "readLast"
      BY <1>1, <3>1 DEF RequestType
    <3>3. Goes(r, y) \/ Goes(r, Remembers(x, "done"))
      BY <2>1 DEF ReadCache
    <3>4. Remembers(x, "done").pc \in {"remember", "done"}
      BY <3>2, HelpersStay
    <3>5. QED
      BY <1>1, <2>1, <3>2, <3>3, <3>4 DEF ReadCache, At, Fits
  <2>2. CASE CacheFails(r)
    <3> DEFINE x == [Idle EXCEPT !.kind = "search", !.pc = "readLast", !.met = requests[r].met]
    <3>1. Goes(r, x) /\ x.pc = "readLast"
      BY <2>2 DEF CacheFails, Idle
    <3>2. QED
      BY <2>2, <3>1 DEF CacheFails
  <2>3. CASE SetCache(r)
    <3>1. Goes(r, [old EXCEPT !.pc = "done"]) /\ [old EXCEPT !.pc = "done"].pc = "done"
      BY <1>1, <2>3 DEF SetCache, Goto, RequestType
    <3>2. QED
      BY <1>1, <2>3, <3>1 DEF SetCache, At, Fits, RollingSteps
  <2>4. QED
    BY <1>3, <2>1, <2>2, <2>3
<1>4. CASE ReadCache(r) \/ CacheFails(r) \/ SetCache(r)
  <2>1. UNCHANGED <<limits, sync, clock>>
    BY <1>4 DEF ReadCache, CacheFails, SetCache, world
  <2>2. QED
    BY <1>1, <1>3, <1>4, <2>1, Quietly
<1>5. QED
  BY <1>2, <1>4 DEF Searches

LEMMA BeginsApart ==
  ASSUME Inv, Apart, Settled, NEW r \in Requests,
         BeginRefresh(r) \/ BeginFollow(r) \/ BeginSubmit(r)
  PROVE  Apart' /\ Settled'
<1>1. CASE BeginRefresh(r)
  <2> DEFINE x == [Idle EXCEPT !.kind = "refresh", !.pc = "readLast", !.asked = Rows(followed)]
  <2>1. x \in RequestType /\ x.pc = "readLast"
    BY IdleType DEF RequestType, Kinds, Steps, Idle, Rows
  <2>2. QED
    BY <1>1, <2>1, BeginsQuietly DEF Inv, BeginRefresh, world
<1>2. CASE BeginFollow(r)
  <2>1. PICK ms \in SUBSET Mmsis, n \in Reports : Begin(r, Following(ms, n))
    BY <1>2, FollowBegins DEF Inv, Core
  <2>2. Following(ms, n) \in RequestType /\ Following(ms, n).pc = "readLast"
    BY FollowingType DEF Inv, Core
  <2>3. QED
    BY <1>2, <2>1, <2>2, BeginsQuietly DEF Inv, BeginFollow, world
<1>3. CASE BeginSubmit(r)
  <2>0. PICK m \in Mmsis : \E n \in 1..upstream[m] :
          Begin(r, Remembers([Idle EXCEPT !.kind = "submit", !.asked = {m}, !.own = TRUE,
                     !.stale = TRUE, !.results = [Empty EXCEPT ![m] = n]], "done"))
    BY <1>3 DEF BeginSubmit
  <2>1. PICK n \in 1..upstream[m] :
          Begin(r, Remembers([Idle EXCEPT !.kind = "submit", !.asked = {m}, !.own = TRUE,
                     !.stale = TRUE, !.results = [Empty EXCEPT ![m] = n]], "done"))
    BY <2>0
  <2> DEFINE found == [Empty EXCEPT ![m] = n]
             x == [Idle EXCEPT !.kind = "submit", !.asked = {m}, !.own = TRUE,
                               !.stale = TRUE, !.results = found]
  <2>2. found \in Table
    <3>1. upstream[m] \in 0..MaxReports
      BY WorldTypes DEF Inv, WorldType, Reports
    <3>2. QED
      BY <2>1, <3>1, AisHubAssumption DEF Table, Empty, Reports
  <2> HIDE DEF found
  <2>3. x \in RequestType /\ x.kind = "submit"
    BY <2>2, IdleType DEF RequestType, Kinds, Idle
  <2>4. Begin(r, Remembers(x, "done"))
    BY <2>1 DEF found
  <2> HIDE DEF x
  <2>5. /\ Remembers(x, "done") \in RequestType
        /\ Remembers(x, "done").pc \in {"remember", "done"}
        /\ Remembers(x, "done").kind = "submit"
    BY <2>3, RemembersType, HelpersStay DEF Steps
  <2>6. QED
    BY <1>3, <2>4, <2>5, BeginsQuietly DEF Inv, BeginSubmit, world
<1>4. QED
  BY <1>1, <1>2, <1>3

LEMMA RefuseApart ==
  ASSUME Inv, Apart, Settled, NEW r \in Requests, Refuse(r)
  PROVE  Apart' /\ Settled'
<1> DEFINE old == requests[r]
<1>1. TypeOK /\ old \in RequestType /\ old.pc = "send"
  BY RequestFacts DEF Inv, Core, Refuse, At
<1>2. UNCHANGED <<limits, sync, clock>>
  BY DEF Refuse, world
<1>3. CASE old.kind = "follow"
  <2>1. Goes(r, ToFollow(old, Empty)) /\ ToFollow(old, Empty).pc \in {"remember", "done"}
    BY <1>1, <1>3, EmptyTable, HelpersStay DEF Refuse
  <2>2. QED
    BY <1>1, <1>2, <1>3, <2>1, Quietly
<1>4. CASE old.kind # "follow"
  <2>1. PICK step \in {"skip", "done"} : Goto(r, step) /\ (old.kind = "rolling" => step = "skip")
    BY <1>4 DEF Refuse
  <2> DEFINE x == [old EXCEPT !.pc = step]
  <2>2. Goes(r, x) /\ x.pc = step /\ x.kind = old.kind
    BY <1>1, <2>1 DEF Goto, RequestType
  <2> HIDE DEF x
  <2>3. QED
    BY <1>1, <1>2, <2>1, <2>2, Quietly
<1>5. QED
  BY <1>3, <1>4

LEMMA RestApart ==
  ASSUME Inv, Apart, Settled, NEW r \in Requests,
         \/ ReadLast(r) \/ Remember(r) \/ ReadRows(r) \/ CopyRows(r) \/ Follow(r)
         \/ UpsertBatch(r) \/ Track(r) \/ RefreshCopies(r)
  PROVE  Apart' /\ Settled'
<1> DEFINE old == requests[r]
<1>1. TypeOK /\ old \in RequestType /\ Fits(old)
  BY RequestFacts DEF Inv, Core
<1>2. UNCHANGED <<limits, sync, clock>>
  BY DEF ReadLast, Remember, ReadRows, CopyRows, Follow, UpsertBatch, Track, RefreshCopies, world
<1>3. \E x : /\ Goes(r, x) /\ x.kind = old.kind /\ x.pc \notin {"answer", "record"}
             /\ old.pc \notin {"answer", "record"}
             /\ x.pc = "done" => old.kind # "rolling"
  <2>1. CASE ReadLast(r)
    <3> DEFINE x == [old EXCEPT !.pc = "send", !.seen = lastRequestAt]
    <3>1. Goes(r, x) /\ x.pc = "send" /\ x.kind = old.kind
      BY <1>1, <2>1 DEF ReadLast, RequestType
    <3>2. QED
      BY <2>1, <3>1 DEF ReadLast, At
  <2>2. CASE Remember(r)
    <3>1. PICK m \in old.todo :
            Goes(r, [old EXCEPT !.todo = @ \ {m},
                       !.pc = IF old.todo = {m} THEN "readRows" ELSE @])
      BY <2>2 DEF Remember
    <3> DEFINE x == [old EXCEPT !.todo = @ \ {m},
                       !.pc = IF old.todo = {m} THEN "readRows" ELSE @]
    <3>2. old.pc = "remember" /\ x.pc \in {"remember", "readRows"} /\ x.kind = old.kind
      BY <1>1, <2>2 DEF RequestType, Remember, At
    <3>3. QED
      BY <3>1, <3>2
  <2>3. CASE ReadRows(r)
    <3> DEFINE x == [old EXCEPT !.rows = Only(catalog, Rows(old.results)), !.pc = "copyRows"]
    <3>1. Goes(r, x) /\ x.pc = "copyRows" /\ x.kind = old.kind
      BY <1>1, <2>3 DEF ReadRows, RequestType
    <3>2. QED
      BY <2>3, <3>1 DEF ReadRows, At
  <2>4. CASE CopyRows(r)
    <3>1. PICK m \in Rows(old.rows) :
            LET left == [old EXCEPT !.rows[m] = Absent] IN
              Goes(r, IF left.rows = Empty THEN AfterRemember(left) ELSE left)
      BY <2>4 DEF CopyRows
    <3> DEFINE left == [old EXCEPT !.rows[m] = Absent]
    <3>2. /\ left \in RequestType /\ left.kind = old.kind /\ left.pc = old.pc
          /\ old.pc = "copyRows" /\ old.kind # "rolling"
      BY <1>1, <2>4 DEF RequestType, Table, CopyRows, At, Fits, RollingSteps
    <3>3. Goes(r, left) \/ Goes(r, AfterRemember(left))
      BY <3>1
    <3> HIDE DEF left
    <3>4. QED
      BY <3>2, <3>3, HelpersStay
  <2>5. CASE Follow(r)
    <3>1. PICK m \in old.todo :
            Goes(r, [old EXCEPT !.todo = @ \ {m}, !.pc = IF old.todo = {m} THEN "done" ELSE @])
      BY <2>5 DEF Follow
    <3> DEFINE x == [old EXCEPT !.todo = @ \ {m}, !.pc = IF old.todo = {m} THEN "done" ELSE @]
    <3>2. /\ old.pc = "follow" /\ x.pc \in {"follow", "done"} /\ x.kind = old.kind
          /\ old.kind # "rolling"
      BY <1>1, <2>5 DEF RequestType, Follow, At, Fits, RollingSteps
    <3>3. QED
      BY <3>1, <3>2
  <2>6. CASE UpsertBatch(r)
    <3>1. PICK ms \in SUBSET old.todo :
            Goes(r, [old EXCEPT !.todo = @ \ ms, !.pc = IF old.todo = ms THEN "track" ELSE @])
      BY <2>6 DEF UpsertBatch
    <3> DEFINE x == [old EXCEPT !.todo = @ \ ms, !.pc = IF old.todo = ms THEN "track" ELSE @]
    <3>2. old.pc = "upsert" /\ x.pc \in {"upsert", "track"} /\ x.kind = old.kind
      BY <1>1, <2>6 DEF RequestType, UpsertBatch, At
    <3>3. QED
      BY <3>1, <3>2
  <2>7. CASE Track(r)
    <3> DEFINE ms == Rows(old.results) \cap Rows(followed)
               x == [old EXCEPT !.todo = ms, !.pc = IF ms = {} THEN "succeed" ELSE "refreshCopies"]
    <3>1. Goes(r, x) /\ x.pc \in {"succeed", "refreshCopies"} /\ x.kind = old.kind
      BY <1>1, <2>7 DEF Track, RequestType
    <3>2. QED
      BY <2>7, <3>1 DEF Track, At
  <2>8. CASE RefreshCopies(r)
    <3>1. PICK ms \in SUBSET old.todo :
            Goes(r, [old EXCEPT !.todo = @ \ ms, !.pc = IF old.todo = ms THEN "succeed" ELSE @])
      BY <2>8 DEF RefreshCopies
    <3> DEFINE x == [old EXCEPT !.todo = @ \ ms, !.pc = IF old.todo = ms THEN "succeed" ELSE @]
    <3>2. old.pc = "refreshCopies" /\ x.pc \in {"refreshCopies", "succeed"} /\ x.kind = old.kind
      BY <1>1, <2>8 DEF RequestType, RefreshCopies, At
    <3>3. QED
      BY <3>1, <3>2
  <2>9. QED
    BY <2>1, <2>2, <2>3, <2>4, <2>5, <2>6, <2>7, <2>8
<1>4. QED
  BY <1>1, <1>2, <1>3, Quietly

LEMMA FinishApart ==
  ASSUME Inv, Apart, Settled, NEW r \in Requests, Finish(r)
  PROVE  Apart' /\ Settled'
<1>1. TypeOK /\ requests[r].pc = "done" /\ Goes(r, Idle) /\ Idle.pc = "idle"
  BY DEF Inv, Core, Finish, At, Idle
<1>2. QED
  BY <1>1, Quietly DEF Finish, world

LEMMA StepApart == Inv /\ Apart /\ Settled /\ [Next]_vars => Apart' /\ Settled'
<1> SUFFICES ASSUME Inv, Apart, Settled, [Next]_vars PROVE Apart' /\ Settled'
  OBVIOUS
<1>1. ASSUME NEW r \in Requests, Lookups(r)
      PROVE  Apart' /\ Settled'
  BY <1>1, BeginsApart, RestApart, RefuseApart, SendApart, AnswerApart, RecordApart DEF Lookups
<1>2. ASSUME NEW r \in Requests, Remembering(r)
      PROVE  Apart' /\ Settled'
  BY <1>2, RestApart DEF Remembering
<1>3. ASSUME NEW r \in Requests, Rolling(r)
      PROVE  Apart' /\ Settled'
  BY <1>3, BeginRollingApart, SettleApart, ThrowApart, RestApart
     DEF Rolling, Skip, Succeed, Fail
<1>4. CASE Unfollow \/ Report \/ Tick \/ UNCHANGED vars
  <2>1. /\ requests' = requests /\ UNCHANGED <<limits, sync>>
        /\ clock' \in Int /\ clock' >= clock
    BY <1>4, TimeOrder DEF Unfollow, Report, Tick, vars, world, Inv, Core
  <2>2. Apart'
    BY <2>1, ApartStays DEF Inv, Core, Asks, At
  <2>3. QED
    BY <2>1, <2>2, SettledStays
<1>5. QED
  BY <1>1, <1>2, <1>3, <1>4, SearchesApart, FinishApart, StopApart DEF Next

LEMMA InitHolds == Init => IInv
<1> SUFFICES ASSUME Init PROVE IInv
  OBVIOUS
<1>1. \A r \in Requests : requests[r].pc = "idle"
  BY DEF Init, Idle
<1>2. lastRequestAt = lastLookup /\ lastLookup \in Int /\ lastLookup <= clock
  BY AisHubAssumption DEF Init, NeverAsked
<1>3. Apart
  BY <1>1, <1>2 DEF Apart, Asks, At
<1>4. Settled
  BY DEF Init, Settled
<1>5. QED
  BY <1>3, <1>4, InitInv DEF IInv, Inv

LEMMA StepHolds == IInv /\ [Next]_vars => IInv'
BY StepInv, StepApart DEF IInv, Inv

-----------------------------------------------------------------------------
(* Which actions send a lookup, and which write a catalog row. *)

(* A step of one request leaves where the others are. *)
LEMMA OthersStay ==
  ASSUME TypeOK, NEW q \in Requests, NEW r \in Requests \ {q},
         Searches(q) \/ Lookups(q) \/ Remembering(q) \/ Rolling(q) \/ Finish(q) \/ Stop(q)
  PROVE  requests'[r].pc = requests[r].pc
<1>1. ASSUME NEW x, Goes(q, x)
      PROVE  requests'[r].pc = requests[r].pc
  BY <1>1, Others
<1>2. ASSUME NEW x, Begin(q, x)
      PROVE  requests'[r].pc = requests[r].pc
  BY <1>2 DEF Begin, TypeOK, RequestType
<1>3. CASE Searches(q)
  BY <1>1, <1>2, <1>3 DEF Searches, BeginSearch, ReadCache, CacheFails, SetCache, Goto
<1>4. CASE Lookups(q)
  <2>1. CASE BeginRefresh(q) \/ BeginFollow(q) \/ BeginSubmit(q)
    BY <1>2, <2>1 DEF BeginRefresh, BeginFollow, BeginSubmit
  <2>2. CASE ReadLast(q) \/ Refuse(q)
    BY <1>1, <2>2 DEF ReadLast, Refuse, Goto
  <2>3. CASE Send(q) \/ Answer(q) \/ Record(q)
    BY <1>1, <2>3 DEF Send, Answer, Record
  <2>4. QED
    BY <1>4, <2>1, <2>2, <2>3 DEF Lookups
<1>5. CASE Remembering(q)
  BY <1>1, <1>5 DEF Remembering, Remember, ReadRows, CopyRows, Follow
<1>6. CASE Rolling(q)
  <2>1. CASE BeginRolling(q)
    BY <1>2, <2>1 DEF BeginRolling
  <2>2. CASE Skip(q) \/ Succeed(q) \/ Fail(q)
    BY <1>1, <2>2 DEF Skip, Succeed, Fail, Settle, Goto
  <2>3. CASE Throw(q) \/ UpsertBatch(q) \/ Track(q) \/ RefreshCopies(q)
    BY <1>1, <2>3 DEF Throw, UpsertBatch, Track, RefreshCopies
  <2>4. QED
    BY <1>6, <2>1, <2>2, <2>3 DEF Rolling
<1>7. QED
  BY <1>1, <1>3, <1>4, <1>5, <1>6 DEF Finish, Stop

(* Only Send sends. *)
LEMMA OnlySend ==
  ASSUME Inv, [Next]_vars, NEW r \in Requests, Sends(r)
  PROVE  Send(r)
<1>1. /\ TypeOK /\ requests[r] \in RequestType /\ requests[r].pc = "send"
      /\ requests'[r].pc = "answer"
  BY RequestFacts DEF Inv, Core, Sends, At
<1>2. PICK q \in Requests :
        Searches(q) \/ Lookups(q) \/ Remembering(q) \/ Rolling(q) \/ Finish(q) \/ Stop(q)
  <2>1. ~(requests' = requests)
    BY <1>1
  <2>2. QED
    BY <2>1 DEF Next, vars, Unfollow, Report, Tick
<1>3. q = r
  BY <1>1, <1>2, OthersStay
<1>4. ~Searches(r)
  BY <1>1 DEF Searches, BeginSearch, ReadCache, CacheFails, SetCache, Begin, Runs, At
<1>5. ~Remembering(r) /\ ~Finish(r)
  BY <1>1 DEF Remembering, Remember, ReadRows, CopyRows, Follow, Finish, At
<1>6. ~Rolling(r)
  BY <1>1 DEF Rolling, BeginRolling, Skip, Succeed, Fail, Settle, Throw, UpsertBatch, Track,
     RefreshCopies, Begin, Runs, At
<1>7. ~Stop(r)
  BY <1>1, Others DEF Stop, Idle
<1>8. ~Refuse(r)
  <2>1. ASSUME Refuse(r)
        PROVE  requests'[r].pc # "answer"
    <3>1. CASE requests[r].kind = "follow"
      <4>1. Goes(r, ToFollow(requests[r], Empty))
        BY <2>1, <3>1 DEF Refuse
      <4>2. ToFollow(requests[r], Empty).pc \in {"remember", "done"}
        BY <1>1, EmptyTable, HelpersStay
      <4>3. QED
        BY <1>1, <4>1, <4>2, Others
    <3>2. CASE requests[r].kind # "follow"
      <4>1. PICK step \in {"skip", "done"} : Goes(r, [requests[r] EXCEPT !.pc = step])
        BY <2>1, <3>2 DEF Refuse, Goto
      <4>2. [requests[r] EXCEPT !.pc = step].pc = step
        BY <1>1 DEF RequestType
      <4>3. QED
        BY <1>1, <4>1, <4>2, Others
    <3>3. QED
      BY <3>1, <3>2
  <2>2. QED
    BY <1>1, <2>1
<1>9. ~(BeginRefresh(r) \/ BeginFollow(r) \/ BeginSubmit(r) \/ ReadLast(r) \/ Answer(r) \/ Record(r))
  BY <1>1 DEF BeginRefresh, BeginFollow, BeginSubmit, ReadLast, Answer, Record, Begin, Runs, At
<1>10. QED
  BY <1>2, <1>3, <1>4, <1>5, <1>6, <1>7, <1>8, <1>9 DEF Lookups

LEMMA CatalogWriters ==
  ASSUME [Next]_vars, catalog' # catalog
  PROVE  \E r \in Requests : Remember(r) \/ UpsertBatch(r)
<1>1. CASE Unfollow \/ Report \/ Tick \/ UNCHANGED vars
  BY <1>1 DEF Unfollow, Report, Tick, vars, tables, catalogRows
<1>2. ASSUME NEW r \in Requests, Searches(r) \/ Finish(r) \/ Stop(r)
      PROVE  FALSE
  BY <1>2 DEF Searches, BeginSearch, ReadCache, CacheFails, SetCache, Finish, Stop, tables, catalogRows
<1>3. ASSUME NEW r \in Requests, Lookups(r)
      PROVE  FALSE
  BY <1>3 DEF Lookups, BeginRefresh, BeginFollow, BeginSubmit, ReadLast, Refuse, Send, Answer,
     Record, tables, catalogRows
<1>4. ASSUME NEW r \in Requests, Remembering(r)
      PROVE  Remember(r)
  BY <1>4 DEF Remembering, ReadRows, CopyRows, Follow, tables, catalogRows
<1>5. ASSUME NEW r \in Requests, Rolling(r)
      PROVE  UpsertBatch(r)
  BY <1>5 DEF Rolling, BeginRolling, Skip, Succeed, Fail, Settle, Throw, Track, RefreshCopies,
     tables, catalogRows
<1>6. QED
  BY <1>1, <1>2, <1>3, <1>4, <1>5 DEF Next

-----------------------------------------------------------------------------
(* The theorems. *)

(* Every variable keeps its type, and every request of the server the shape *)
(* its handler gives it.                                                    *)
THEOREM TypeCorrect == Spec => []TypeOK
<1>1. IInv => TypeOK
  BY DEF IInv, Core
<1>2. QED
  BY InitHolds, StepHolds, <1>1, PTL DEF Spec

(* utils/aishub-sync.ts: every outcome of a sync is written before it ends, *)
(* so "running" is a sync that runs, or one that was cut off.               *)
THEOREM StatusTrue == Spec => []StatusSettles
<1>1. IInv => StatusSettles
  BY DEF IInv, Settled, StatusSettles
<1>2. QED
  BY InitHolds, StepHolds, <1>1, PTL DEF Spec

(* utils/aishub.ts: a request that ran alone leaves the followed copies     *)
(* equal to the catalog rows they are copies of.                            *)
THEOREM CopiesAgree == Spec => []CopyAgrees
<1>1. IInv => CopyAgrees
  <2> SUFFICES ASSUME Inv, NEW r \in Requests, At(r, "done"), ~requests[r].met,
                      NEW m \in Rows(requests[r].results) \cap Rows(followed)
               PROVE  followed[m] = catalog[m]
    BY DEF IInv, Inv, CopyAgrees
  <2>1. requests[r].pc = "done" /\ Solo(requests[r], catalog, held, followed)
    BY RequestFacts DEF At, Runs
  <2>2. followed[m] # Absent
    BY DEF Rows
  <2>3. QED
    BY <2>1, <2>2 DEF Solo
<1>2. QED
  BY InitHolds, StepHolds, <1>1, PTL DEF Spec

(* AISHUB_SEARCH_COOLDOWN_MS is kept by lookups that did not overlap and    *)
(* were all recorded.                                                       *)
THEOREM CooldownKept == Spec => LookupsApart
<1>1. IInv /\ [Next]_vars =>
        [\A r \in Requests :
           Sends(r) => overlapped' \/ lost \/ clock - lastLookup >= Cooldown]_vars
  <2> SUFFICES ASSUME IInv, [Next]_vars, NEW r \in Requests, Sends(r), ~overlapped', ~lost
               PROVE  clock - lastLookup >= Cooldown
    OBVIOUS
  <2>1. Send(r) /\ TypeOK
    BY OnlySend DEF IInv, Inv, Core
  <2>2. /\ ~overlapped /\ requests[r].seen = lastRequestAt
        /\ \A q \in Requests : ~Asks(q)
    BY <2>1 DEF Send, Asks
  <2>3. lastRequestAt >= lastLookup
    BY <2>2 DEF IInv, Apart
  <2>4. Cooldown - (clock - lastRequestAt) <= 0
    BY <2>1, <2>2 DEF Send, CooldownRemaining
  <2>5. QED
    BY <2>1, <2>3, <2>4, TimeOrder, AisHubAssumption
<1>2. QED
  BY InitHolds, StepHolds, <1>1, PTL DEF Spec, LookupsApart

(* What takes a catalog row behind a report it has held is read before      *)
(* another request ran, or before its own began: a lone lookup or sync      *)
(* never does, and no sync puts an earlier report over a later one.         *)
THEOREM CatalogForward == Spec => CatalogNeverOlder
<1>1. IInv /\ [Next]_vars =>
        [\A m \in Mmsis :
           catalog'[m] # catalog[m] /\ 0 < catalog'[m] /\ catalog'[m] < held[m] =>
             \E r \in Requests :
               /\ Writes(r, m) /\ (requests[r].met \/ requests[r].stale)
               /\ At(r, "remember") \/ (At(r, "upsert") /\ catalog[m] < catalog'[m])]_vars
  <2> SUFFICES ASSUME Inv, [Next]_vars, NEW m \in Mmsis,
                      catalog'[m] # catalog[m], 0 < catalog'[m], catalog'[m] < held[m]
               PROVE  \E r \in Requests :
                        /\ Writes(r, m) /\ (requests[r].met \/ requests[r].stale)
                        /\ At(r, "remember") \/ (At(r, "upsert") /\ catalog[m] < catalog'[m])
    BY DEF IInv, Inv
  <2>1. /\ TypeOK /\ Core /\ catalog \in [Mmsis -> Reports \cup {Absent}]
        /\ catalog[m] \in Int /\ held[m] \in Int
    BY AisHubAssumption DEF Inv, Core, TypeOK, Table, Reports, Absent
  <2>2. catalog' # catalog
    BY <2>1
  <2>3. PICK r \in Requests : Remember(r) \/ UpsertBatch(r)
    BY <2>2, CatalogWriters
  <2> DEFINE old == requests[r]
  <2>4. old \in RequestType /\ Fits(old) /\ (Runs(r) /\ ~old.met => Solo(old, catalog, held, followed))
    BY RequestFacts
  <2>5. ASSUME Runs(r), ~old.met, ~old.stale, m \in Rows(old.results), catalog'[m] = old.results[m]
        PROVE  FALSE
    <3>1. Fresh(old.results[m], catalog[m], held[m])
      BY <2>4, <2>5 DEF Solo
    <3>2. old.results[m] \in Int
      BY <2>4, AisHubAssumption DEF RequestType, Table, Reports, Absent
    <3>3. QED
      BY <2>1, <2>5, <3>1, <3>2 DEF Fresh
  <2>6. CASE UpsertBatch(r)
    <3>1. PICK ms \in SUBSET old.todo :
            /\ catalog' = Upserted(ms, old.results)
            /\ Goes(r, [old EXCEPT !.todo = @ \ ms, !.pc = IF old.todo = ms THEN "track" ELSE @])
      BY <2>6 DEF UpsertBatch
    <3> DEFINE x == [old EXCEPT !.todo = @ \ ms, !.pc = IF old.todo = ms THEN "track" ELSE @]
    <3>2. /\ old.results \in Table /\ ms \subseteq Rows(old.results) /\ ms \in SUBSET Mmsis
          /\ ms \subseteq old.todo
          /\ Bounded(old.results) /\ x.todo = old.todo \ ms /\ old.pc = "upsert" /\ Runs(r)
      BY <2>4, <2>6 DEF RequestType, Fits, Bounded, UpsertBatch, At, Runs
    <3>3. /\ catalog'[m] \in {catalog[m], old.results[m]}
          /\ catalog'[m] = 0 \/ catalog'[m] >= catalog[m]
      BY <2>1, <3>1, <3>2, UpsertedTable
    <3>4. catalog'[m] = old.results[m] /\ catalog'[m] \in Int
      BY <3>2, <3>3, AisHubAssumption DEF Table, Reports, Absent
    <3>5. m \in ms
      BY <3>1 DEF Upserted
    <3>6. requests'[r] = x
      BY <2>1, <3>1, Others
    <3>7. Writes(r, m) /\ At(r, "upsert")
      BY <3>2, <3>5, <3>6 DEF Writes, At
    <3>8. catalog[m] < catalog'[m]
      BY <2>1, <3>3, <3>4
    <3>9. old.met \/ old.stale
      BY <2>5, <3>2, <3>4, <3>5
    <3>10. QED
      BY <3>7, <3>8, <3>9
  <2>7. CASE Remember(r)
    <3>1. PICK k \in old.todo :
            /\ catalog' = [catalog EXCEPT ![k] = old.results[k]]
            /\ Goes(r, [old EXCEPT !.todo = @ \ {k},
                          !.pc = IF old.todo = {k} THEN "readRows" ELSE @])
      BY <2>7 DEF Remember
    <3> DEFINE x == [old EXCEPT !.todo = @ \ {k},
                          !.pc = IF old.todo = {k} THEN "readRows" ELSE @]
    <3>2. x.todo = old.todo \ {k} /\ old.todo \subseteq Mmsis /\ old.pc = "remember" /\ Runs(r)
      BY <2>4, <2>7 DEF RequestType, Remember, At, Runs
    <3>3. k = m
      BY <2>1, <3>1, <3>2
    <3>4. requests'[r] = x
      BY <2>1, <3>1, Others
    <3>5. Writes(r, m) /\ At(r, "remember")
      BY <3>2, <3>3, <3>4 DEF Writes, At
    <3>6. m \in Rows(old.results) /\ catalog'[m] = old.results[m]
      BY <2>1, <2>4, <3>1, <3>2, <3>3 DEF Fits
    <3>7. QED
      BY <2>5, <3>2, <3>5, <3>6
  <2>8. QED
    BY <2>3, <2>6, <2>7
<1>2. QED
  BY InitHolds, StepHolds, <1>1, PTL DEF Spec, CatalogNeverOlder
=============================================================================
