----------------------------- MODULE LiveChannel -----------------------------
(***************************************************************************)
(* A browser's live view of one vessel: the namespace's LiveController of  *)
(* apps/web/app/composables/useMyBoatVesselStore.ts, composed with the     *)
(* vessel's LiveBroker over web sockets that may break at any time.        *)
(*                                                                         *)
(* The three watchers run in the microtask queue, before the browser       *)
(* delivers the next event, so a change and the watchers it triggers are   *)
(* one action; decoding a text frame takes no longer either.  `active`     *)
(* says that the followed entry is the namespace's active one and has a    *)
(* live URL; while it is not, the controller serves another vessel's       *)
(* broker, or none, and never this entry.                                  *)
(*                                                                         *)
(* What the page shows merges the live snapshot with the stored one, the    *)
(* vessel's row as some HTTP answer or cached page had it.  Rows have the   *)
(* numbers of their publishes.                                              *)
(***************************************************************************)
EXTENDS LiveBroker

CONSTANTS
  MaxQueue,   \* bound of the model: messages on their way when a demand changes
  Distant     \* the pairs of snapshots more than SELF_OVERLAY_MAX_DISTANCE_NM apart

ASSUME QueueAssumption == MaxQueue \in Nat \ {0}
ASSUME DistantAssumption ==
  /\ Distant \subseteq (1..MaxPublishes) \X (1..MaxPublishes)
  /\ \A n \in 1..MaxPublishes : <<n, n>> \notin Distant

None == 0   \* no socket

VARIABLES
  active,      \* see above
  wants,       \* getNamespaceEffectiveLiveDemand
  socket,      \* controller.socket
  state,       \* its readyState: "connecting", "open", or "closing" until its close event
  leaving,     \* sockets the controller closed whose close event is still to come
  timer,       \* whether controller.reconnectTimer is set
  shown,       \* entry.live.connectionState
  view,        \* entry.liveSnapshot; 0: null
  stored       \* entry.storedSnapshot; 0: null

clientVars == <<active, wants, socket, state, leaving, timer, shown, view, stored>>
vars == <<snapshot, demands, link, down, up, breaks,
          active, wants, socket, state, leaving, timer, shown, view, stored>>

TypeOK ==
  /\ BrokerTypeOK
  /\ active \in BOOLEAN
  /\ wants \in Demands
  /\ socket \in Sockets \cup {None}
  /\ state \in {"connecting", "open", "closing"}
  /\ leaving \subseteq Sockets \ {socket}
  /\ timer \in BOOLEAN
  /\ shown \in {"idle", "connecting", "connected", "error"}
  /\ view \in 0..MaxPublishes
  /\ stored \in 0..MaxPublishes

Init ==
  /\ BrokerInit
  /\ active = FALSE
  /\ wants = "none"
  /\ socket = None
  /\ state = "closing"
  /\ leaving = {}
  /\ timer = FALSE
  /\ shown = "idle"
  /\ view = 0
  /\ stored = 0

-----------------------------------------------------------------------------
(* Pieces of the controller. *)

IsOpen == socket # None /\ state = "open"

(* close() on the controller's socket: the browser hears no more of it but  *)
(* the close event, and a request the broker has not seen is withdrawn.     *)
LeftClosing(s) == IF s = None THEN link ELSE [link EXCEPT ![s] = "closing"]
Closed(s) == IF s = None THEN link ELSE [link EXCEPT ![s] = "broken"]
Departing(s) == IF s = None THEN leaving ELSE leaving \cup {s}
Emptied(queues, s) == IF s = None THEN queues ELSE [queues EXCEPT ![s] = <<>>]

(* disconnectNamespace *)
DisconnectSilently ==
  /\ link' = Closed(socket)
  /\ down' = Emptied(down, socket)
  /\ up' = Emptied(up, socket)
  /\ leaving' = Departing(socket)
  /\ socket' = None
  /\ state' = "closing"
  /\ timer' = FALSE
  /\ UNCHANGED shown
Disconnect ==
  /\ link' = Closed(socket)
  /\ down' = Emptied(down, socket)
  /\ up' = Emptied(up, socket)
  /\ leaving' = Departing(socket)
  /\ socket' = None
  /\ state' = "closing"
  /\ timer' = FALSE
  /\ shown' = "idle"

(* A socket neither end knows of any more. *)
Unused == {s \in Sockets : /\ link[s] \in {"free", "broken"}
                           /\ s \notin DOMAIN demands \cup leaving
                           /\ s # socket}

(* connectNamespace with a demand that is not empty and no open socket: the *)
(* reconnect timer and an old socket go, a new socket is requested.         *)
OpenSocket ==
  \E s \in Unused :
    /\ \A t \in Unused : s <= t
    /\ link' = [Closed(socket) EXCEPT ![s] = "requested"]
    /\ down' = Emptied(down, socket)
    /\ up' = Emptied(up, socket)
    /\ leaving' = Departing(socket)
    /\ socket' = s
    /\ state' = "connecting"
    /\ timer' = FALSE
    /\ shown' = "connecting"

(* sendLiveDemand *)
SendNothing(demand) == up
SendDemand(demand) == [up EXCEPT ![socket] = Append(@, demand)]

(* scheduleReconnect *)
NeverReconnect(isActive, demand) == FALSE
ScheduleReconnect(isActive, demand) == isActive /\ demand # "none"

(* mergeSnapshots: field by field what the live snapshot has, what the       *)
(* stored one has where it has nothing, and the stored one alone where the   *)
(* two are too far apart.                                                    *)
Mergeable(row, live) == <<row, live>> \notin Distant
RowFirst(row, live) == IF row = 0 THEN live ELSE row
MergedSnapshot(row, live) == IF live = 0 \/ ~Mergeable(row, live) THEN row ELSE live

(* entry.mergedSnapshot, which is made anew with either of the two.          *)
Page == MergedSnapshot(stored, view)

(* The listeners' first line: controller.socket is still this socket. *)
EverySocket(s) == TRUE
Concerns(s) == s = socket

-----------------------------------------------------------------------------
(* The events. *)

(* The user opens the vessel: the activeEntryKey watcher calls              *)
(* connectNamespace.  The live URL changes with it: UrlChanges may follow.  *)
Enter ==
  /\ ~active
  /\ active' = TRUE
  /\ IF wants = "none" THEN Disconnect ELSE OpenSocket
  /\ UNCHANGED <<wants, view, stored, snapshot, demands, breaks>>

(* The user turns to another vessel, or to none. *)
Leave ==
  /\ active
  /\ active' = FALSE
  /\ Disconnect
  /\ UNCHANGED <<wants, view, stored, snapshot, demands, breaks>>

(* The entry's live URL changes: its watcher calls connectNamespace, which  *)
(* replaces the socket to the old URL, open or not.                         *)
UrlChanges ==
  /\ active
  /\ breaks < MaxBreaks
  /\ breaks' = breaks + 1
  /\ IF wants = "none" THEN Disconnect ELSE OpenSocket
  /\ UNCHANGED <<active, wants, view, stored, snapshot, demands>>

(* A consumer sets or clears its demand and the effective one changes (from  *)
(* one "self" to another, when only the level or the contacts change).  An   *)
(* open socket is kept, for an empty demand too.                            *)
ChangeDemand(demand) ==
  /\ demand # wants \/ demand = "self"
  /\ wants' = demand
  /\ \/ /\ ~active
        /\ UNCHANGED <<socket, state, leaving, timer, shown, link, down, up>>
     \/ /\ active /\ IsOpen
        /\ Len(up[socket]) + Len(down[socket]) < MaxQueue
        /\ up' = IF link[socket] = "broken" THEN up ELSE SendDemand(demand)
        /\ UNCHANGED <<socket, state, leaving, timer, shown, link, down>>
     \/ /\ active /\ ~IsOpen
        /\ IF demand = "none" THEN Disconnect ELSE OpenSocket
  /\ UNCHANGED <<active, view, stored, snapshot, demands, breaks>>

(* The socket's open event: the broker's first frames are behind it. *)
OpenEvent ==
  /\ socket # None /\ state = "connecting" /\ link[socket] = "up"
  /\ state' = "open"
  /\ shown' = "connected"
  /\ up' = SendDemand(wants)
  /\ UNCHANGED <<active, wants, socket, leaving, timer, view, stored, snapshot, demands, link,
                 down, breaks>>

(* The message event: applyLiveMessage.  A sync without a snapshot makes     *)
(* the live one null, and the page falls back to the stored one.            *)
Applied(message) == message.snapshot
MessageEvent ==
  /\ IsOpen
  /\ down[socket] # <<>>
  /\ view' = Applied(Head(down[socket]))
  /\ down' = [down EXCEPT ![socket] = Tail(@)]
  /\ UNCHANGED <<active, wants, socket, state, leaving, timer, shown, stored, snapshot, demands,
                 link, up, breaks>>

(* The browser finds its connection dead; an error event may come first.    *)
ErrorEvent ==
  /\ socket # None /\ state # "closing" /\ link[socket] = "broken"
  /\ state' = "closing"
  /\ shown' \in {shown, "error"}
  /\ UNCHANGED <<active, wants, socket, leaving, timer, view, stored, brokerVars>>

(* The close event, of a dead connection or of one the controller closed    *)
(* and may have replaced since.                                             *)
CloseEvent(s) ==
  /\ s \in leaving \/ (s = socket /\ state = "closing")
  /\ leaving' = leaving \ {s}
  /\ \/ /\ Concerns(s)
        /\ socket' = None
        /\ state' = "closing"
        /\ shown' = "error"
        /\ timer' = ScheduleReconnect(active, wants)
     \/ /\ ~Concerns(s)
        /\ UNCHANGED <<socket, state, shown, timer>>
  /\ UNCHANGED <<active, wants, view, stored, brokerVars>>

(* The reconnect timer: connectNamespace. *)
ReconnectTimerFires ==
  /\ timer
  /\ IF ~active \/ wants = "none" THEN Disconnect ELSE OpenSocket
  /\ UNCHANGED <<active, wants, view, stored, snapshot, demands, breaks>>

(* The hydrate functions, with an answer or page data that shows the row     *)
(* of publish n: any earlier one, for answers overtake each other and        *)
(* caches keep them, or the one about to be published.  A vessel without a   *)
(* snapshot leaves the stored one.                                          *)
Hydrate(n) ==
  /\ n <= snapshot + 1
  /\ stored' = n
  /\ UNCHANGED <<active, wants, socket, state, leaving, timer, shown, view, brokerVars>>

BrokerSteps ==
  /\ \/ \E s \in Sockets : Accept(s) \/ SetDemand(s) \/ Break(s) \/ ForgetSocket(s)
     \/ Publish
  /\ UNCHANGED clientVars

Next ==
  \/ Enter
  \/ Leave
  \/ UrlChanges
  \/ \E demand \in Demands : ChangeDemand(demand)
  \/ OpenEvent
  \/ MessageEvent
  \/ ErrorEvent
  \/ \E s \in Sockets : CloseEvent(s)
  \/ ReconnectTimerFires
  \/ \E n \in 1..MaxPublishes : Hydrate(n)
  \/ BrokerSteps

Spec == Init /\ [][Next]_vars

-----------------------------------------------------------------------------
(* Safety. *)

(* Nothing is on its way between the browser and the broker. *)
Quiet == IsOpen /\ link[socket] = "up" /\ down[socket] = <<>> /\ up[socket] = <<>>

(* docs/architecture.md:135 "The live broker is the browser-facing live     *)
(* source for owner and public views": whatever publishes, demand changes,  *)
(* vessel switches and reconnects overlapped, once nothing is on its way    *)
(* an entry that asks for it has the very snapshot the broker holds as its  *)
(* live one.  (The page shows it unless the stored row is too far from it.) *)
ViewIsCurrent == Quiet /\ active /\ wants = "self" => view = snapshot

(* An active entry with a demand, be it for contacts alone, is never         *)
(* abandoned: it has a socket, or the reconnect timer is set.               *)
NeverStranded == active /\ wants # "none" => socket # None \/ timer

(* The page says "connected" whenever messages can reach its view, and only *)
(* of the active entry, over a socket that was open and whose close event   *)
(* is still to come.                                                        *)
ConnectedIsTrue ==
  /\ IsOpen => shown = "connected"
  /\ shown = "connected" => active /\ socket # None /\ state # "connecting"

(* However demands, vessels and reconnects alternate, the browser never     *)
(* keeps a second connection to the broker alive.                           *)
OneConnection ==
  \A s \in Sockets : link[s] \in {"requested", "up"} => s = socket

(* The page shows the live snapshot, not the stored row. *)
ShowsLive == view # 0 /\ Mergeable(stored, view)

(* A page that shows the live snapshot shows it at least as new whenever it  *)
(* does so again, through demand changes, vessel switches, broken            *)
(* connections, new sockets and hydration with older rows.  In between it    *)
(* may fall back to the stored row, of whatever age: while the live snapshot *)
(* is null (the sync that greets a socket has none), and while the row is    *)
(* too far from it.                                                          *)
NeverStepsBack ==
  \A n \in 1..MaxPublishes : [](ShowsLive /\ Page >= n => [](ShowsLive => Page >= n))

-----------------------------------------------------------------------------
(* Liveness. *)

(* Browser and broker go on taking what has arrived; Break, the user and   *)
(* the publisher do as they please.                                        *)
Fairness ==
  /\ WF_vars(OpenEvent)
  /\ WF_vars(MessageEvent)
  /\ WF_vars(ErrorEvent)
  /\ WF_vars(ReconnectTimerFires)
  /\ \A s \in Sockets :
       /\ WF_vars(CloseEvent(s))
       /\ WF_vars(Accept(s) /\ UNCHANGED clientVars)
       /\ WF_vars(SetDemand(s) /\ UNCHANGED clientVars)
       /\ WF_vars(ForgetSocket(s) /\ UNCHANGED clientVars)

FairSpec == Spec /\ Fairness

(* An entry that stays open, and whose demand stays, has the broker's last   *)
(* snapshot in the end, after any finite number of broken connections.  (A   *)
(* demand that goes on changing replaces a socket before it opens.)          *)
DemandStays == [][\A demand \in Demands : ~ChangeDemand(demand)]_vars
ViewCatchesUp ==
  <>[](active /\ wants = "self") /\ <>DemandStays => <>[](shown = "connected" /\ view = snapshot)
=============================================================================
