--------------------------- MODULE IdentityRefresh ---------------------------
(***************************************************************************)
(* How the server learns what vessel an installation is: the refresh of the *)
(* edge collector (refreshObservedIdentity in apps/edge-collector/src), one *)
(* at a time, and the routes it posts to, ingest/v1/identity.post.ts and    *)
(* ingest/v1/sources.post.ts (apps/web/server/api).                         *)
(*                                                                         *)
(* A post the collector gave up on may still be on its way, or be handled.  *)
(* The delta ingest, and a second collector that publishes as a shadow,     *)
(* write the same two rows.  Each row is read, and written in a later call. *)
(*                                                                         *)
(* Of the identity and of the source inventory the self context is kept,    *)
(* and whether a shadow publisher was ever seen.                            *)
(***************************************************************************)
EXTENDS Integers

CONSTANTS
  Contexts,     \* self contexts a SignalK server announces
  Unusable,     \* a self that is no string, or a blank one
  None,
  Handlers,     \* bound of the model: requests at once at the server
  MaxFailures,  \* bound of the model: calls that fail, and restarts
  MaxOthers     \* bound of the model: delta ingests and posts of the shadow

ASSUME IdentityRefreshAssumption ==
  /\ None \notin Contexts \cup Handlers /\ Unusable \notin Contexts \cup {None}
  /\ MaxFailures \in Nat /\ MaxOthers \in Nat

VARIABLES
  self,         \* signalkSelfContext
  step,         \* where refreshObservedIdentity is; isRefreshingIdentity unless "idle"
  timer,        \* identityRefreshTimer is set
  shuttingDown, \* isShuttingDown
  awaited,      \* the post the refresh awaits the answer of
  handlers,     \* the requests at the server
  hasIdentity,  \* vesselInstallationObservedIdentities has the row
  identity,     \* and its selfContext
  inventory,    \* vesselInstallationSourceStates: the inventory's selfContext
  shadowSeen,   \* vesselInstallationSourceStates: shadowPublisherSeen
  failures, others

collector == <<self, step, timer, shuttingDown, awaited>>
rows == <<hasIdentity, identity, inventory, shadowSeen>>
counters == <<failures, others>>
vars == <<collector, handlers, rows, counters>>

SelfContexts == Contexts \cup {None}
Free == [kind |-> "none", pc |-> "free", context |-> None, shadow |-> FALSE,
         row |-> FALSE, met |-> FALSE]
RequestType ==
  [kind : {"identity", "sources", "delta", "none"},
   pc : {"free", "readState", "writeState", "readIdentity", "writeIdentity", "answered"},
   context : SelfContexts, \* as sent; then merged with the identity that was read
   shadow : BOOLEAN,      \* a shadow is or was seen: as sent; then or-ed with the row
   row : BOOLEAN,         \* the identity's row was there when it was read
   met : BOOLEAN]         \* history: between its read and its write another wrote

TypeOK ==
  /\ self \in SelfContexts
  /\ step \in {"idle", "fetchIdentity", "postIdentity", "fetchSources", "postSources"}
  /\ timer \in BOOLEAN /\ shuttingDown \in BOOLEAN
  /\ awaited \in Handlers \cup {None}
  /\ handlers \in [Handlers -> RequestType]
  /\ hasIdentity \in BOOLEAN
  /\ identity \in SelfContexts /\ inventory \in SelfContexts
  /\ shadowSeen \in BOOLEAN
  /\ failures \in 0..MaxFailures /\ others \in 0..MaxOthers

Init ==
  /\ self = None /\ step = "idle" /\ awaited = None
  /\ timer = FALSE /\ shuttingDown = FALSE
  /\ handlers = [h \in Handlers |-> Free]
  /\ hasIdentity = FALSE /\ identity = None /\ inventory = None /\ shadowSeen = FALSE
  /\ failures = 0 /\ others = 0

Failure == failures < MaxFailures /\ failures' = failures + 1

-----------------------------------------------------------------------------
(* The collector. *)

(* refreshObservedIdentity is called: one refresh at a time.                *)
Refresh ==
  IF step # "idle" \/ shuttingDown
    THEN UNCHANGED <<step, timer>>
    ELSE step' = "fetchIdentity" /\ timer' = FALSE

(* The socket to SignalK opens.                                             *)
Open ==
  /\ ~shuttingDown /\ Refresh
  /\ UNCHANGED <<self, shuttingDown, awaited, handlers, rows, counters>>

(* The guard on the type left out.                                          *)
AnySelf(c) == TRUE
IsContext(c) == c # Unusable
(* maybeUpdateSignalKSelfContext: a hello or a delta names another self.    *)
UpdateSelf(c) ==
  /\ IsContext(c) /\ c # self
  /\ self' = c
  /\ Refresh
  /\ UNCHANGED <<shuttingDown, awaited, handlers, rows, counters>>

RefreshTimer ==
  /\ timer /\ ~shuttingDown
  /\ Refresh
  /\ UNCHANGED <<self, shuttingDown, awaited, handlers, rows, counters>>

(* fetch(...): the request goes out with the self context of this moment.   *)
Post(kind, pc) ==
  \E h \in Handlers :
    /\ handlers[h] = Free
    /\ handlers' = [handlers EXCEPT ![h] =
         [Free EXCEPT !.kind = kind, !.pc = pc, !.context = self]]
    /\ awaited' = h

(* The self model has come from SignalK and is posted.                      *)
FetchIdentity ==
  /\ step = "fetchIdentity"
  /\ step' = "postIdentity"
  /\ Post("identity", "readIdentity")
  /\ UNCHANGED <<self, timer, shuttingDown, rows, counters>>

FetchSources ==
  /\ step = "fetchSources"
  /\ step' = "postSources"
  /\ Post("sources", "readState")
  /\ UNCHANGED <<self, timer, shuttingDown, rows, counters>>

(* Without the finally: a fetch that failed schedules no refresh.           *)
EndUnscheduled == step' = "idle" /\ timer' = (~shuttingDown /\ step = "postSources")
(* The finally of the refresh; scheduleIdentityRefresh.                     *)
EndRefresh == step' = "idle" /\ timer' = ~shuttingDown

(* What follows, whether the identity was posted or not; the same with the  *)
(* inventory.                                                               *)
Proceed ==
  \/ /\ step \in {"fetchIdentity", "postIdentity"}
     /\ step' = "fetchSources"
     /\ UNCHANGED timer
  \/ /\ step \in {"fetchSources", "postSources"}
     /\ EndRefresh

(* The answer of the post the refresh awaits, whatever it says.             *)
Answered ==
  /\ awaited # None /\ handlers[awaited].pc = "answered"
  /\ Proceed
  /\ handlers' = [handlers EXCEPT ![awaited] = Free]
  /\ awaited' = None
  /\ UNCHANGED <<self, shuttingDown, rows, counters>>

(* A fetch of SignalK fails or finds no identity; or a post times out or is *)
(* refused, and what was sent may still arrive.                             *)
Fails ==
  /\ step # "idle" /\ Failure
  /\ Proceed
  /\ awaited' = None
  /\ UNCHANGED <<self, shuttingDown, handlers, rows, others>>

Shutdown ==
  /\ ~shuttingDown
  /\ shuttingDown' = TRUE /\ timer' = FALSE
  /\ UNCHANGED <<self, step, awaited, handlers, rows, counters>>

(* The process exits, at once or after a shutdown, and is started again.    *)
Restart ==
  /\ Failure
  /\ self' = None /\ step' = "idle" /\ timer' = FALSE
  /\ shuttingDown' = FALSE /\ awaited' = None
  /\ UNCHANGED <<handlers, rows, others>>

-----------------------------------------------------------------------------
(* The server. *)

Goes(h, request) == handlers' = [handlers EXCEPT ![h] = request]

(* A delta ingest, of selections that saw a shadow or not, and maybe with   *)
(* an identity; or a post of the shadow collector.                          *)
Other ==
  /\ others < MaxOthers /\ others' = others + 1
  /\ \E h \in Handlers, c \in SelfContexts, shadow \in BOOLEAN :
       /\ handlers[h] = Free
       /\ \/ Goes(h, [Free EXCEPT !.kind = "delta", !.pc = "readState", !.context = c,
                                  !.shadow = shadow])
          \/ Goes(h, [Free EXCEPT !.kind = "identity", !.pc = "readIdentity", !.context = c])
          \/ Goes(h, [Free EXCEPT !.kind = "sources", !.pc = "readState", !.context = c,
                                  !.shadow = TRUE])
  /\ UNCHANGED <<collector, rows, failures>>

(* What was on record before is left out.                                   *)
JustSeen(h) == handlers[h].shadow
EverSeen(h) == handlers[h].shadow \/ shadowSeen

(* upsertInstallationSourceInventory, upsertInstallationSelectionSummary    *)
ReadState(h) ==
  /\ handlers[h].pc = "readState"
  /\ Goes(h, [handlers[h] EXCEPT !.pc = "writeState", !.shadow = EverSeen(h)])
  /\ UNCHANGED <<collector, rows, counters>>

Done == [Free EXCEPT !.pc = "answered"]
AfterState(h) ==
  IF handlers[h].kind = "delta" /\ handlers[h].context # None
    THEN [handlers[h] EXCEPT !.pc = "readIdentity", !.shadow = FALSE, !.met = FALSE]
    ELSE Done
WriteState(h) ==
  /\ handlers[h].pc = "writeState"
  /\ shadowSeen' = handlers[h].shadow
  /\ inventory' = IF handlers[h].kind = "sources" THEN handlers[h].context ELSE inventory
  /\ handlers' = [k \in Handlers |->
       IF k = h THEN AfterState(h)
       ELSE IF handlers[k].pc = "writeState" THEN [handlers[k] EXCEPT !.met = TRUE]
       ELSE handlers[k]]
  /\ UNCHANGED <<collector, hasIdentity, identity, counters>>

(* upsertInstallationObservedIdentity: null keeps the field as it was read. *)
Merged(h) == IF handlers[h].context = None THEN identity ELSE handlers[h].context
ReadIdentity(h) ==
  /\ handlers[h].pc = "readIdentity"
  /\ Goes(h, [handlers[h] EXCEPT !.pc = "writeIdentity", !.context = Merged(h),
                                  !.row = hasIdentity])
  /\ UNCHANGED <<collector, rows, counters>>

(* An insert beside a row that has come meanwhile fails, and so the request. *)
WriteIdentity(h) ==
  /\ handlers[h].pc = "writeIdentity"
  /\ IF hasIdentity /\ ~handlers[h].row
       THEN UNCHANGED <<hasIdentity, identity>>
       ELSE hasIdentity' = TRUE /\ identity' = handlers[h].context
  /\ Goes(h, Done)
  /\ UNCHANGED <<collector, inventory, shadowSeen, counters>>

(* The answer reaches nobody, or somebody else.                             *)
Forget(h) ==
  /\ handlers[h].pc = "answered" /\ h # awaited
  /\ Goes(h, Free)
  /\ UNCHANGED <<collector, rows, counters>>

(* The request is lost, or dies between its calls.                          *)
Vanish(h) ==
  /\ handlers[h] # Free /\ h # awaited /\ Failure
  /\ Goes(h, Free)
  /\ UNCHANGED <<collector, rows, others>>

-----------------------------------------------------------------------------
Refreshes == FetchIdentity \/ FetchSources \/ Answered \/ RefreshTimer
Serve(h) == ReadState(h) \/ WriteState(h) \/ ReadIdentity(h) \/ WriteIdentity(h) \/ Forget(h)

Next ==
  \/ Open \/ (\E c \in Contexts \cup {Unusable} : UpdateSelf(c))
  \/ Refreshes \/ Fails \/ Shutdown \/ Restart
  \/ Other \/ \E h \in Handlers : Serve(h) \/ Vanish(h)

(* Timers fire, fetches are answered, the server works off its requests.    *)
Fairness == WF_vars(Refreshes) /\ \A h \in Handlers : WF_vars(Serve(h))
Spec == Init /\ [][Next]_vars /\ Fairness

-----------------------------------------------------------------------------
(* Properties. *)

(* Whatever call to refreshObservedIdentity was dropped because a refresh   *)
(* ran, and whichever posts failed or came late: if the collector runs on   *)
(* with one self context, the server's identity and inventory come to name  *)
(* it and stay so, once calls stop failing and nobody else posts.           *)
FollowsSelf ==
  \A c \in Contexts :
    <>[](self = c /\ ~shuttingDown) => <>[](identity = c /\ inventory = c)

(* The reason FollowsSelf can hold: a call that was dropped, a post that    *)
(* failed or came late, never leaves a collector that knows its vessel      *)
(* without a refresh that runs or a timer that starts one, and a refresh    *)
(* never waits for a request that is gone.                                  *)
RefreshGoesOn ==
  /\ self # None /\ ~shuttingDown => timer \/ step # "idle"
  /\ step \in {"postIdentity", "postSources"} <=> awaited # None
  /\ awaited # None => handlers[awaited] # Free

(* Once a shadow publisher was seen this stays on record for the            *)
(* administrator: shadowPublisherSeen is cleared only by a handler that     *)
(* read it before another handler wrote.                                    *)
ShadowStays ==
  [][shadowSeen /\ ~shadowSeen' =>
       \E h \in Handlers : handlers[h].pc = "writeState" /\ handlers[h].met
                           /\ handlers'[h].pc # "writeState"]_vars
=============================================================================
