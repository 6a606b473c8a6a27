------------------------------- MODULE AisHub -------------------------------
(***************************************************************************)
(* The catalog of AIS Hub vessels and the buddy boats copied from it        *)
(* (apps/web/server): the vessel search and the lookups by MMSI             *)
(* (utils/aishub.ts), the rolling sync (utils/aishub-sync.ts), the routes   *)
(* that follow, import, refresh and unfollow (api/app/fleet-friends*,       *)
(* api/cron/fleet-friends-refresh.post.ts) and the writers of followed      *)
(* vessels (utils/myboat.ts).                                               *)
(*                                                                         *)
(* Requests, cron jobs and the scheduled sync run at the same time, in any  *)
(* number of isolates, and share the database only: each of its calls, and  *)
(* each fetch, is a step of its own.  Between two steps the hour moves, the *)
(* hub hears of vessels, and a request may end because a call throws or its *)
(* isolate dies.                                                            *)
(*                                                                         *)
(* What is known of a vessel is the number of the report it comes from, 0:  *)
(* one whose time is not known (the parsers of shared/aishub.ts give null   *)
(* for a time that is missing or malformed, an import has none), Absent: no *)
(* row.  One captain, one search query, an API key that is set.             *)
(***************************************************************************)
EXTENDS Integers

CONSTANTS
  Requests,     \* bound of the model: requests running at once
  MaxRequests,  \* bound of the model: how many requests there ever are
  Mmsis,
  MaxReports,   \* bound of the model: reports the hub hears of a vessel
  MaxTime,      \* bound of the model: the last tick of the clock
  Cooldown,     \* AISHUB_SEARCH_COOLDOWN_MS, in ticks
  CacheTTL,     \* AISHUB_SEARCH_CACHE_TTL_MS, in ticks
  Named         \* the <<mmsi, report>> the search query matches: vessels are renamed

Absent == -1
Reports == 0..MaxReports
Table == [Mmsis -> Reports \cup {Absent}]
Empty == [m \in Mmsis |-> Absent]

ASSUME AisHubAssumption ==
  /\ MaxRequests \in Nat /\ MaxReports \in Nat /\ MaxTime \in Nat
  /\ Cooldown \in Nat \ {0} /\ CacheTTL \in Nat
  /\ Named \subseteq Mmsis \X Reports

VARIABLES
  upstream,    \* the hub: the last report it heard of each vessel, 0: none
  catalog,     \* aishubVessels
  held,        \* history: the latest report each catalog row has held
  followed,    \* followedVessels: the copy in the captain's row
  lastRequestAt, \* aishubRequestState
  cache,       \* aishubSearchCache: the results and when they expire
  status,      \* aishubSyncState.lastStatus
  requests,    \* what each running request has read, and where it is
  begun,       \* requests begun so far
  clock,
  lastLookup,  \* history: when the last lookup was sent; of a sync, its start
  overlapped,  \* history: a lookup was sent while another was not recorded
  lost,        \* history: a request ended with a lookup sent and not recorded
  cutOff       \* history: a rolling sync ended without writing its outcome

catalogRows == <<catalog, held>>
tables == <<catalogRows, followed>>
limits == <<lastRequestAt, lastLookup, overlapped, lost>>
sync == <<status, cutOff>>
world == <<upstream, clock>>
vars == <<tables, limits, sync, world, cache, requests, begun>>

Kinds == {"search", "refresh", "follow", "submit", "rolling", "none"}
Steps == {"idle", "readCache", "readLast", "send", "answer", "record", "remember",
          "readRows", "copyRows", "setCache", "follow", "skip", "upsert", "track",
          "refreshCopies", "succeed", "fail", "done"}
NeverAsked == -Cooldown
Times == NeverAsked..MaxTime

RequestType ==
  [kind : Kinds, pc : Steps,
   at : Times,             \* fetchedAt or cachedAt
   seen : Times,           \* lastRequestAt as read
   asked : SUBSET Mmsis,   \* the vessels the request is about
   stored : Table,         \* what a follow has of them if the hub says nothing
   results : Table,        \* what it is to remember
   todo : SUBSET Mmsis,    \* the ones left in the loop it is in
   rows : Table,           \* the catalog rows it has yet to copy
   own : BOOLEAN,          \* a follow that is past its lookup
   stale : BOOLEAN,        \* its results come from the cache or the browser
   met : BOOLEAN]          \* history: another request ran meanwhile

Idle == [kind |-> "none", pc |-> "idle", at |-> 0, seen |-> 0, asked |-> {},
         stored |-> Empty, results |-> Empty, todo |-> {}, rows |-> Empty,
         own |-> FALSE, stale |-> FALSE, met |-> FALSE]

TypeOK ==
  /\ upstream \in [Mmsis -> Reports]
  /\ catalog \in Table /\ followed \in Table /\ held \in [Mmsis -> Reports]
  /\ lastRequestAt \in Times /\ lastLookup \in Times
  /\ cache \in [results : Table, expiresAt : 0..(MaxTime + CacheTTL)]
  /\ status \in {"idle", "running", "skipped", "success", "error"}
  /\ requests \in [Requests -> RequestType]
  /\ begun \in 0..MaxRequests /\ clock \in 0..MaxTime
  /\ overlapped \in BOOLEAN /\ lost \in BOOLEAN /\ cutOff \in BOOLEAN

Init ==
  /\ upstream = [m \in Mmsis |-> 0]
  /\ catalog = Empty /\ followed = Empty /\ held = [m \in Mmsis |-> 0]
  /\ lastRequestAt = NeverAsked /\ lastLookup = NeverAsked
  /\ cache = [results |-> Empty, expiresAt |-> 0]
  /\ status = "idle"
  /\ requests = [r \in Requests |-> Idle]
  /\ begun = 0 /\ clock = 0
  /\ overlapped = FALSE /\ lost = FALSE /\ cutOff = FALSE

-----------------------------------------------------------------------------
(* Tables and requests. *)

Rows(table) == {m \in Mmsis : table[m] # Absent}
Only(table, ms) == [m \in Mmsis |-> IF m \in ms THEN table[m] ELSE Absent]
(* what the hub answers about ms, of undated without a time that parses; it  *)
(* says nothing of a vessel never heard                                     *)
Heard(ms, undated) ==
  [m \in Mmsis |-> IF m \notin ms \/ upstream[m] = 0 THEN Absent
                   ELSE IF m \in undated THEN 0 ELSE upstream[m]]
(* the history of the catalog once it is table                              *)
Held(table) == [m \in Mmsis |-> IF table[m] > held[m] THEN table[m] ELSE held[m]]
(* the rows whose search document holds the query                           *)
Matching(table) == {m \in Mmsis : <<m, table[m]>> \in Named}

Runs(r) == requests[r].pc # "idle"
At(r, step) == requests[r].pc = step
Goes(r, request) == requests' = [requests EXCEPT ![r] = request]
Goto(r, step) == Goes(r, [requests[r] EXCEPT !.pc = step])

(* It runs, and whoever runs meets it.                                      *)
Begin(r, request) ==
  /\ ~Runs(r) /\ begun < MaxRequests
  /\ begun' = begun + 1
  /\ requests' = [q \in Requests |->
       IF q = r THEN [request EXCEPT !.met = \E p \in Requests : Runs(p)]
       ELSE IF Runs(q) THEN [requests[q] EXCEPT !.met = TRUE]
       ELSE requests[q]]

(* rememberAisHubResults begins with the rows of the answer, if any.        *)
Remembers(request, next) ==
  [request EXCEPT !.todo = Rows(request.results), !.at = 0,
                  !.pc = IF Rows(request.results) = {} THEN next ELSE "remember"]

(* What a follow has before its lookup: the row that is stored, else the    *)
(* submitted vessel, of report n.                                           *)
Stored(ms, n) == [m \in Mmsis |-> IF m \notin ms THEN Absent
                                  ELSE IF catalog[m] # Absent THEN catalog[m] ELSE n]
(* What it remembers and follows: what the lookup answered, else that.      *)
Authoritative(request, answer) ==
  [m \in Mmsis |-> IF m \notin request.asked THEN Absent
                   ELSE IF answer[m] # Absent THEN answer[m] ELSE request.stored[m]]
ToFollow(request, answer) ==
  Remembers([request EXCEPT !.results = Authoritative(request, answer), !.own = TRUE,
                            !.stored = Empty, !.seen = 0], "done")

(* Where a request goes when it has remembered its results.                 *)
AfterRemember(request) ==
  CASE request.kind = "search" ->
         [request EXCEPT !.pc = IF request.stale THEN "done" ELSE "setCache"]
    [] request.kind = "refresh" -> [request EXCEPT !.pc = "done"]
    [] request.own -> [request EXCEPT !.pc = "follow", !.todo = request.asked]
    [] OTHER -> ToFollow(request, request.results)

Finish(r) ==
  /\ At(r, "done")
  /\ Goes(r, Idle)
  /\ UNCHANGED <<tables, limits, sync, world, cache, begun>>

(* A call throws, or the isolate dies; a sync then leaves its status.       *)
Stop(r) ==
  /\ Runs(r) /\ ~At(r, "done")
  /\ Goes(r, Idle)
  /\ lost' = (lost \/ At(r, "answer") \/ At(r, "record"))
  /\ cutOff' = (cutOff \/ requests[r].kind = "rolling")
  /\ UNCHANGED <<tables, lastRequestAt, lastLookup, overlapped, status, world, cache, begun>>

-----------------------------------------------------------------------------
(* The search.  Stored vessels that match answer it, and nothing changes.   *)

BeginSearch(r) ==
  /\ Matching(catalog) = {}
  /\ Begin(r, [Idle EXCEPT !.kind = "search", !.pc = "readCache"])
  /\ UNCHANGED <<tables, limits, sync, world, cache>>

(* A cached answer is remembered once more.                                 *)
ReadCache(r) ==
  /\ At(r, "readCache")
  /\ Goes(r, IF cache.expiresAt <= clock
               THEN [requests[r] EXCEPT !.pc = "readLast"]
               ELSE Remembers([requests[r] EXCEPT !.results = cache.results, !.stale = TRUE],
                              "done"))
  /\ UNCHANGED <<tables, limits, sync, world, cache, begun>>

(* If that throws the search goes on as if nothing were cached.             *)
CacheFails(r) ==
  /\ requests[r].kind = "search" /\ requests[r].stale
  /\ requests[r].pc \in {"remember", "readRows", "copyRows"}
  /\ Goes(r, [Idle EXCEPT !.kind = "search", !.pc = "readLast", !.met = requests[r].met])
  /\ UNCHANGED <<tables, limits, sync, world, cache, begun>>

(* The wait for the hub is added to the cache's life.                       *)
ExpiresAfterCooldown == clock + CacheTTL + Cooldown
ExpiresAt == clock + CacheTTL
SetCache(r) ==
  /\ At(r, "setCache")
  /\ cache' = [results |-> requests[r].results, expiresAt |-> ExpiresAt]
  /\ Goto(r, "done")
  /\ UNCHANGED <<tables, limits, sync, world, begun>>

-----------------------------------------------------------------------------
(* Lookups: by name or MMSI, and of a set of MMSIs that were stored before. *)

(* The captain's refresh and the cron job: all vessels that are followed.   *)
BeginRefresh(r) ==
  /\ Rows(followed) # {}
  /\ Begin(r, [Idle EXCEPT !.kind = "refresh", !.pc = "readLast", !.asked = Rows(followed)])
  /\ UNCHANGED <<tables, limits, sync, world, cache>>

(* A vessel is followed, or a list imported; what is submitted lacks the    *)
(* report's time (n is 0) or a position, so the hub is asked first.         *)
Following(ms, n) == [Idle EXCEPT !.kind = "follow", !.pc = "readLast", !.asked = ms,
                                 !.stored = Stored(ms, n)]
BeginFollow(r) ==
  /\ \/ \E m \in Mmsis : \E n \in 0..upstream[m] : Begin(r, Following({m}, n))
     \/ \E ms \in SUBSET Mmsis \ {{}} : Begin(r, Following(ms, 0))
  /\ UNCHANGED <<tables, limits, sync, world, cache>>

(* A vessel is followed as the browser found it, earlier.                   *)
BeginSubmit(r) ==
  /\ \E m \in Mmsis : \E n \in 1..upstream[m] :
       Begin(r, Remembers([Idle EXCEPT !.kind = "submit", !.asked = {m}, !.own = TRUE,
                             !.stale = TRUE, !.results = [Empty EXCEPT ![m] = n]], "done"))
  /\ UNCHANGED <<tables, limits, sync, world, cache>>

ReadLast(r) ==
  /\ At(r, "readLast")
  /\ Goes(r, [requests[r] EXCEPT !.pc = "send", !.seen = lastRequestAt])
  /\ UNCHANGED <<tables, limits, sync, world, cache, begun>>

CooldownRemaining(r) == Cooldown - (clock - requests[r].seen)

(* A search is refused, a refresh done; a follow goes on with stored rows.  *)
Refuse(r) ==
  /\ At(r, "send") /\ CooldownRemaining(r) > 0
  /\ CASE requests[r].kind = "follow" -> Goes(r, ToFollow(requests[r], Empty))
       [] requests[r].kind = "rolling" -> Goto(r, "skip")
       [] OTHER -> Goto(r, "done")
  /\ UNCHANGED <<tables, limits, sync, world, cache, begun>>

(* The fetch; a lookup of MMSIs is stamped as it is sent, a sync was before. *)
Sent(r) == IF requests[r].kind = "rolling" THEN requests[r].at ELSE clock
Send(r) ==
  /\ At(r, "send") /\ CooldownRemaining(r) <= 0
  /\ Goes(r, [requests[r] EXCEPT !.pc = "answer", !.at = Sent(r), !.seen = 0])
  /\ lastLookup' = Sent(r)
  /\ overlapped' = (\/ overlapped
                    \/ requests[r].seen # lastRequestAt
                    \/ \E q \in Requests : At(q, "answer") \/ At(q, "record"))
  /\ UNCHANGED <<tables, lastRequestAt, lost, sync, world, cache, begun>>

(* A search is stamped only now.  A sync hears of some of the vessels: of   *)
(* those with a report in its lookback.                                     *)
Answer(r) ==
  /\ At(r, "answer")
  /\ \E ms, undated \in SUBSET Mmsis :
       /\ CASE requests[r].kind = "search" -> ms = Matching(upstream)
            [] requests[r].kind = "rolling" -> TRUE
            [] OTHER -> ms = requests[r].asked
       /\ Goes(r, [requests[r] EXCEPT !.pc = "record", !.results = Heard(ms, undated),
                     !.at = IF requests[r].kind = "search" THEN clock ELSE @])
  /\ UNCHANGED <<tables, limits, sync, world, cache, begun>>

(* A lookup of followed vessels is not recorded.                            *)
OthersOnly(r) == IF requests[r].kind = "refresh" THEN lastRequestAt ELSE requests[r].at
Stamp(r) == requests[r].at
Record(r) ==
  /\ At(r, "record")
  /\ lastRequestAt' = Stamp(r)
  /\ Goes(r, IF requests[r].kind = "rolling"
               THEN [requests[r] EXCEPT !.todo = Rows(requests[r].results), !.at = 0,
                                          !.pc = "upsert"]
             ELSE IF Rows(requests[r].results) = {} THEN AfterRemember(requests[r])
             ELSE Remembers(requests[r], "done"))
  /\ UNCHANGED <<tables, lastLookup, overlapped, lost, sync, world, cache, begun>>

-----------------------------------------------------------------------------
(* Remembering results: the catalog row by row, then the followed copies.   *)

Remember(r) ==
  /\ At(r, "remember")
  /\ \E m \in requests[r].todo :
       /\ catalog' = [catalog EXCEPT ![m] = requests[r].results[m]]
       /\ held' = Held(catalog')
       /\ Goes(r, [requests[r] EXCEPT !.todo = @ \ {m},
                     !.pc = IF requests[r].todo = {m} THEN "readRows" ELSE @])
  /\ UNCHANGED <<followed, limits, sync, world, cache, begun>>

ReadRows(r) ==
  /\ At(r, "readRows")
  /\ LET ms == Rows(requests[r].results) IN
       Goes(r, [requests[r] EXCEPT !.rows = Only(catalog, ms), !.pc = "copyRows"])
  /\ UNCHANGED <<tables, limits, sync, world, cache, begun>>

(* Only copies that lack a report are filled in.                            *)
FilledIn(m, row) == IF followed[m] # 0 THEN followed ELSE [followed EXCEPT ![m] = row]
(* update followedVessels where mmsi = m: no row, nothing happens.          *)
Updated(m, row) ==
  IF followed[m] = Absent THEN followed ELSE [followed EXCEPT ![m] = row]
CopyRows(r) ==
  /\ At(r, "copyRows")
  /\ \E m \in Rows(requests[r].rows) :
       LET left == [requests[r] EXCEPT !.rows[m] = Absent] IN
         /\ followed' = Updated(m, requests[r].rows[m])
         /\ Goes(r, IF left.rows = Empty THEN AfterRemember(left) ELSE left)
  /\ UNCHANGED <<catalogRows, limits, sync, world, cache, begun>>

(* upsertFollowedVesselsForUser *)
Follow(r) ==
  /\ At(r, "follow")
  /\ \E m \in requests[r].todo :
       /\ followed' = [followed EXCEPT ![m] = requests[r].results[m]]
       /\ Goes(r, [requests[r] EXCEPT !.todo = @ \ {m},
                     !.pc = IF requests[r].todo = {m} THEN "done" ELSE @])
  /\ UNCHANGED <<catalogRows, limits, sync, world, cache, begun>>

Unfollow ==
  /\ \E m \in Rows(followed) : followed' = [followed EXCEPT ![m] = Absent]
  /\ UNCHANGED <<catalogRows, limits, sync, world, cache, requests, begun>>

-----------------------------------------------------------------------------
(* The rolling sync. *)

BeginRolling(r) ==
  /\ Begin(r, [Idle EXCEPT !.kind = "rolling", !.pc = "readLast", !.at = clock])
  /\ status' = "running"
  /\ UNCHANGED <<tables, limits, cutOff, world, cache>>

(* updateSyncState, the last call of a sync                                 *)
Settle(r, step, outcome) ==
  /\ At(r, step)
  /\ status' = outcome
  /\ Goto(r, "done")
  /\ UNCHANGED <<tables, limits, cutOff, world, cache, begun>>

(* A sync that is refused returns at once.                                  *)
ReturnEarly(r) ==
  /\ At(r, "skip") /\ Goto(r, "done")
  /\ UNCHANGED <<tables, limits, sync, world, cache, begun>>
Skip(r) == Settle(r, "skip", "skipped")
Succeed(r) == Settle(r, "succeed", "success")
Fail(r) == Settle(r, "fail", "error")

(* A call inside the try throws; the catch has no records.                  *)
Throw(r) ==
  /\ requests[r].kind = "rolling"
  /\ requests[r].pc \in {"answer", "record", "upsert", "track", "refreshCopies", "succeed"}
  /\ lost' = (lost \/ At(r, "answer") \/ At(r, "record"))
  /\ Goes(r, [requests[r] EXCEPT !.pc = "fail", !.results = Empty])
  /\ UNCHANGED <<tables, lastRequestAt, lastLookup, overlapped, sync, world, cache, begun>>

(* The upsert without its WHERE.                                            *)
AllUpserted(ms, records) == [m \in Mmsis |-> IF m \in ms THEN records[m] ELSE catalog[m]]
(* A batch of the snapshot; no row is replaced by an earlier report, any by *)
(* a record without a time.                                                 *)
Upserted(ms, records) ==
  [m \in Mmsis |->
     IF m \in ms /\ (catalog[m] <= 0 \/ records[m] = 0 \/ records[m] >= catalog[m])
       THEN records[m] ELSE catalog[m]]
UpsertBatch(r) ==
  /\ At(r, "upsert")
  /\ \E ms \in SUBSET requests[r].todo :
       /\ ms # {} \/ requests[r].todo = {}
       /\ catalog' = Upserted(ms, requests[r].results)
       /\ held' = Held(catalog')
       /\ Goes(r, [requests[r] EXCEPT !.todo = @ \ ms,
                     !.pc = IF requests[r].todo = ms THEN "track" ELSE @])
  /\ UNCHANGED <<followed, limits, sync, world, cache, begun>>

(* getTrackedFollowedMmsis *)
Track(r) ==
  /\ At(r, "track")
  /\ LET ms == Rows(requests[r].results) \cap Rows(followed) IN
       Goes(r, [requests[r] EXCEPT !.todo = ms,
                  !.pc = IF ms = {} THEN "succeed" ELSE "refreshCopies"])
  /\ UNCHANGED <<tables, limits, sync, world, cache, begun>>

(* The copies are taken from the catalog in the same statement.             *)
RefreshCopies(r) ==
  /\ At(r, "refreshCopies")
  /\ \E ms \in SUBSET requests[r].todo \ {{}} :
       /\ followed' = [m \in Mmsis |->
            IF m \in ms /\ followed[m] # Absent /\ catalog[m] # Absent
              THEN catalog[m] ELSE followed[m]]
       /\ Goes(r, [requests[r] EXCEPT !.todo = @ \ ms,
                     !.pc = IF requests[r].todo = ms THEN "succeed" ELSE @])
  /\ UNCHANGED <<catalogRows, limits, sync, world, cache, begun>>

-----------------------------------------------------------------------------
(* The hub hears of a vessel; time passes. *)

Report ==
  /\ \E m \in Mmsis : /\ upstream[m] < MaxReports
                      /\ upstream' = [upstream EXCEPT ![m] = @ + 1]
  /\ UNCHANGED <<tables, limits, sync, clock, cache, requests, begun>>

Tick ==
  /\ clock < MaxTime
  /\ clock' = clock + 1
  /\ UNCHANGED <<tables, limits, sync, upstream, cache, requests, begun>>

Searches(r) == BeginSearch(r) \/ ReadCache(r) \/ CacheFails(r) \/ SetCache(r)
Lookups(r) ==
  \/ BeginRefresh(r) \/ BeginFollow(r) \/ BeginSubmit(r)
  \/ ReadLast(r) \/ Refuse(r) \/ Send(r) \/ Answer(r) \/ Record(r)
Remembering(r) == Remember(r) \/ ReadRows(r) \/ CopyRows(r) \/ Follow(r)
Rolling(r) ==
  \/ BeginRolling(r) \/ Skip(r) \/ Succeed(r) \/ Fail(r) \/ Throw(r)
  \/ UpsertBatch(r) \/ Track(r) \/ RefreshCopies(r)

Next ==
  \/ \E r \in Requests :
       Searches(r) \/ Lookups(r) \/ Remembering(r) \/ Rolling(r) \/ Finish(r) \/ Stop(r)
  \/ Unfollow \/ Report \/ Tick

Spec == Init /\ [][Next]_vars

-----------------------------------------------------------------------------
(* Properties. *)

(* AISHUB_SEARCH_COOLDOWN_MS: unless lookups overlapped, or one was sent    *)
(* and its request ended before it was recorded, a lookup is sent no sooner *)
(* than the cooldown after the one before it (a sync counts from its start, *)
(* which is the time it records).                                           *)
Sends(r) == At(r, "send") /\ requests'[r].pc = "answer"
LookupsApart ==
  [][\A r \in Requests :
       Sends(r) => overlapped' \/ lost \/ clock - lastLookup >= Cooldown]_vars

(* The sync status an administrator reads says "running" only while a sync  *)
(* runs, unless one was cut off before it wrote its outcome.                *)
StatusSettles ==
  status = "running" /\ ~cutOff => \E r \in Requests : requests[r].kind = "rolling"

(* A catalog row is given a report earlier than one it has held only when a *)
(* request that ran beside another writes what it read before, or when      *)
(* results of the search cache or of a browser are remembered: never by a   *)
(* lookup or a sync that ran alone, and by a sync only over an earlier one  *)
(* yet or where the row has lost its report's time.  (Any lookup or sync    *)
(* may lose it: a record without a time replaces every row.)                *)
Writes(r, m) == m \in requests[r].todo /\ m \notin requests'[r].todo
CatalogNeverOlder ==
  [][\A m \in Mmsis :
       catalog'[m] # catalog[m] /\ 0 < catalog'[m] /\ catalog'[m] < held[m] =>
         \E r \in Requests :
           /\ Writes(r, m) /\ (requests[r].met \/ requests[r].stale)
           /\ At(r, "remember") \/ (At(r, "upsert") /\ catalog[m] < catalog'[m])]_vars

(* A request that ran alone to its end leaves the followed copies of the    *)
(* vessels it was about equal to their catalog rows, whatever it found.     *)
CopyAgrees ==
  \A r \in Requests : At(r, "done") /\ ~requests[r].met =>
    \A m \in Rows(requests[r].results) \cap Rows(followed) : followed[m] = catalog[m]
=============================================================================
