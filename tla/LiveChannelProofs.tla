-------------------------- MODULE LiveChannelProofs --------------------------
(***************************************************************************)
(* The safety properties of LiveChannel hold for any number of sockets,    *)
(* publishes, breaks and messages on their way.                            *)
(***************************************************************************)
EXTENDS LiveChannel, SequenceTheorems, TLAPS

LastOf(q) == q[Len(q)]

(* What a socket carries: nothing unless it is up, and then the broker      *)
(* knows it.                                                               *)
Channels ==
  \A s \in Sockets :
    /\ link[s] # "up" => up[s] = <<>> /\ down[s] = <<>>
    /\ link[s] = "up" => s \in DOMAIN demands

(* Where the controller stands: it has a socket only for the active entry,  *)
(* waits for a close event only of a broken connection, has sent nothing    *)
(* before the open event, and got that event of an accepted request only.   *)
Controller ==
  /\ socket # None => active
  /\ socket # None /\ state = "closing" => link[socket] = "broken"
  /\ socket # None /\ state = "connecting" => up[socket] = <<>>
  /\ IsOpen => link[socket] \in {"up", "broken"}

Linked == IsOpen /\ link[socket] = "up"

(* Once all set_demands on their way have arrived, the broker knows the     *)
(* demand in force.                                                         *)
AskedFor ==
  Linked => wants = IF up[socket] = <<>> THEN demands[socket] ELSE LastOf(up[socket])

(* Once the demand has arrived, the last snapshot on its way, or the view   *)
(* if there is none, is the broker's.                                       *)
Told ==
  Linked /\ up[socket] = <<>> /\ demands[socket] = "self" =>
    snapshot = IF down[socket] = <<>> THEN view ELSE LastOf(down[socket]).snapshot

IInv ==
  /\ TypeOK
  /\ Channels
  /\ Controller
  /\ OneConnection
  /\ NeverStranded
  /\ ConnectedIsTrue
  /\ AskedFor
  /\ Told

-----------------------------------------------------------------------------
(* Queues. *)

LEMMA AppendEnds ==
  ASSUME NEW S, NEW q \in Seq(S), NEW e \in S
  PROVE  Append(q, e) \in Seq(S) /\ Append(q, e) # <<>> /\ LastOf(Append(q, e)) = e
BY AppendProperties DEF LastOf

LEMMA TailEnds ==
  ASSUME NEW S, NEW q \in Seq(S), q # <<>>
  PROVE  /\ Head(q) \in S /\ Tail(q) \in Seq(S)
         /\ Tail(q) = <<>> => LastOf(q) = Head(q)
         /\ Tail(q) # <<>> => LastOf(Tail(q)) = LastOf(q)
<1>1. Head(q) \in S /\ Tail(q) \in Seq(S) /\ Len(Tail(q)) = Len(q) - 1 /\ Len(q) \in Nat \ {0}
  BY HeadTailProperties, EmptySeq
<1>2. \A i \in 1..Len(Tail(q)) : Tail(q)[i] = q[i + 1]
  BY HeadTailProperties
<1>3. CASE Tail(q) = <<>>
  <2>1. Len(q) = 1
    BY <1>1, <1>3
  <2>2. QED
    BY <1>1, <1>3, <2>1 DEF LastOf
<1>4. CASE Tail(q) # <<>>
  <2>1. Len(Tail(q)) \in 1..Len(Tail(q))
    BY <1>1, <1>4, EmptySeq
  <2>2. QED
    BY <1>1, <1>2, <1>4, <2>1 DEF LastOf
<1>5. QED
  BY <1>3, <1>4

-----------------------------------------------------------------------------
(* The controller's steps. *)

LEMMA SocketsNotNone == None \notin Sockets
BY BoundsAssumption DEF None, Sockets

LinkStates == {"free", "requested", "up", "broken"}

LEMMA ClosedLinks ==
  ASSUME link \in [Sockets -> LinkStates], NEW s \in Sockets \cup {None}
  PROVE  /\ Closed(s) \in [Sockets -> LinkStates]
         /\ \A t \in Sockets : Closed(s)[t] = IF t = s THEN "broken" ELSE link[t]
BY SocketsNotNone DEF Closed, LinkStates

LEMMA EmptiedQueues ==
  ASSUME NEW S, NEW queues \in [Sockets -> Seq(S)], NEW s \in Sockets \cup {None}
  PROVE  /\ Emptied(queues, s) \in [Sockets -> Seq(S)]
         /\ \A t \in Sockets : Emptied(queues, s)[t] = IF t = s THEN <<>> ELSE queues[t]
<1>1. <<>> \in Seq(S)
  BY EmptySeq
<1>2. QED
  BY <1>1, SocketsNotNone DEF Emptied

(* The types of the invariant, one fact each. *)
LEMMA Types ==
  ASSUME TypeOK
  PROVE  /\ snapshot \in 0..MaxPublishes /\ breaks \in 0..MaxBreaks /\ view \in 0..MaxPublishes
         /\ stored \in 0..MaxPublishes
         /\ DOMAIN demands \subseteq Sockets /\ \A s \in DOMAIN demands : demands[s] \in Demands
         /\ link \in [Sockets -> LinkStates]
         /\ down \in [Sockets -> Seq(Messages)] /\ up \in [Sockets -> Seq(Demands)]
         /\ active \in BOOLEAN /\ wants \in Demands /\ timer \in BOOLEAN
         /\ socket \in Sockets \cup {None} /\ leaving \subseteq Sockets \ {socket}
         /\ state \in {"connecting", "open", "closing"}
         /\ shown \in {"idle", "connecting", "connected", "error"}
BY DEF TypeOK, BrokerTypeOK, LinkStates

(* What close() on the controller's socket leaves on its way. *)
LEMMA ControllersQueues ==
  ASSUME TypeOK
  PROVE  /\ Emptied(down, socket) \in [Sockets -> Seq(Messages)]
         /\ \A t \in Sockets : Emptied(down, socket)[t] = IF t = socket THEN <<>> ELSE down[t]
         /\ Emptied(up, socket) \in [Sockets -> Seq(Demands)]
         /\ \A t \in Sockets : Emptied(up, socket)[t] = IF t = socket THEN <<>> ELSE up[t]
<1>1. down \in [Sockets -> Seq(Messages)] /\ socket \in Sockets \cup {None}
  BY Types
<1>2. up \in [Sockets -> Seq(Demands)]
  BY Types
<1>3. /\ Emptied(down, socket) \in [Sockets -> Seq(Messages)]
      /\ \A t \in Sockets : Emptied(down, socket)[t] = IF t = socket THEN <<>> ELSE down[t]
  BY <1>1, EmptiedQueues
<1>4. /\ Emptied(up, socket) \in [Sockets -> Seq(Demands)]
      /\ \A t \in Sockets : Emptied(up, socket)[t] = IF t = socket THEN <<>> ELSE up[t]
  BY <1>1, <1>2, EmptiedQueues
<1>5. QED
  BY <1>3, <1>4

LEMMA InitHolds == Init => IInv
<1> SUFFICES ASSUME Init PROVE IInv
  OBVIOUS
<1>1. BrokerTypeOK
  BY BoundsAssumption DEF Init, BrokerInit, BrokerTypeOK, Demands
<1>2. TypeOK
  <2>1. /\ active \in BOOLEAN /\ timer \in BOOLEAN /\ wants \in Demands
        /\ socket = None /\ leaving = {} /\ state = "closing" /\ shown = "idle" /\ view = 0
        /\ stored = 0
    BY DEF Init, Demands
  <2>2. 0 \in 0..MaxPublishes
    BY BoundsAssumption
  <2>3. leaving \subseteq Sockets \ {socket}
    BY <2>1
  <2>4. QED
    BY <1>1, <2>1, <2>2, <2>3 DEF TypeOK
<1>3. Channels
  BY DEF Init, BrokerInit, Channels
<1>4. OneConnection
  BY DEF Init, BrokerInit, OneConnection
<1>5. QED
  BY <1>2, <1>3, <1>4
     DEF Init, IInv, Controller, NeverStranded, ConnectedIsTrue, AskedFor, Told, Linked, IsOpen

(* disconnectNamespace, where nothing is to be shown. *)
LEMMA DisconnectHolds ==
  ASSUME IInv, Disconnect, UNCHANGED <<view, stored, snapshot, demands>>,
         active' \in BOOLEAN, wants' \in Demands, breaks' \in 0..MaxBreaks,
         ~active' \/ wants' = "none"
  PROVE  IInv'
<1>1. TypeOK /\ Channels /\ Controller /\ OneConnection
  BY DEF IInv
<1>2. /\ link' = Closed(socket) /\ down' = Emptied(down, socket) /\ up' = Emptied(up, socket)
      /\ leaving' = Departing(socket) /\ socket' = None /\ state' = "closing"
      /\ timer' = FALSE /\ shown' = "idle"
  BY DEF Disconnect
<1>3. /\ link' \in [Sockets -> LinkStates]
      /\ \A t \in Sockets : link'[t] = IF t = socket THEN "broken" ELSE link[t]
  BY <1>1, <1>2, Types, ClosedLinks
<1>4. /\ down' \in [Sockets -> Seq(Messages)]
      /\ \A t \in Sockets : down'[t] = IF t = socket THEN <<>> ELSE down[t]
  BY <1>1, <1>2, ControllersQueues
<1>5. /\ up' \in [Sockets -> Seq(Demands)]
      /\ \A t \in Sockets : up'[t] = IF t = socket THEN <<>> ELSE up[t]
  BY <1>1, <1>2, ControllersQueues
<1>6. leaving' \subseteq Sockets \ {socket'}
  BY <1>1, <1>2, SocketsNotNone, Types DEF Departing
<1>7. TypeOK'
  BY <1>1, <1>2, <1>3, <1>4, <1>5, <1>6, Types DEF TypeOK, BrokerTypeOK, LinkStates
<1>8. Channels'
  BY <1>1, <1>3, <1>4, <1>5 DEF Channels
<1>9. OneConnection'
  BY <1>1, <1>2, <1>3 DEF OneConnection
<1>10. Controller' /\ NeverStranded' /\ ConnectedIsTrue' /\ AskedFor' /\ Told'
  BY <1>2 DEF Controller, NeverStranded, ConnectedIsTrue, AskedFor, Told, Linked, IsOpen
<1>11. QED
  BY <1>7, <1>8, <1>9, <1>10 DEF IInv

(* connectNamespace with a new socket. *)
LEMMA OpenSocketHolds ==
  ASSUME IInv, OpenSocket, UNCHANGED <<view, stored, snapshot, demands>>,
         active' = TRUE, wants' \in Demands, breaks' \in 0..MaxBreaks
  PROVE  IInv'
<1>1. TypeOK /\ Channels /\ Controller /\ OneConnection
  BY DEF IInv
<1>2. PICK s \in Unused :
        /\ link' = [Closed(socket) EXCEPT ![s] = "requested"]
        /\ down' = Emptied(down, socket) /\ up' = Emptied(up, socket)
        /\ leaving' = Departing(socket) /\ socket' = s /\ state' = "connecting"
        /\ timer' = FALSE /\ shown' = "connecting"
  BY DEF OpenSocket
<1>3. /\ s \in Sockets /\ s # None /\ s # socket /\ s \notin leaving
      /\ link[s] \in {"free", "broken"}
  BY <1>2, SocketsNotNone DEF Unused
<1>4. /\ link' \in [Sockets -> LinkStates]
      /\ \A t \in Sockets : link'[t] = IF t = s THEN "requested"
                                       ELSE IF t = socket THEN "broken" ELSE link[t]
  <2>1. /\ Closed(socket) \in [Sockets -> LinkStates]
        /\ \A t \in Sockets : Closed(socket)[t] = IF t = socket THEN "broken" ELSE link[t]
    BY <1>1, Types, ClosedLinks
  <2>2. "requested" \in LinkStates
    BY DEF LinkStates
  <2>3. QED
    BY <1>2, <2>1, <2>2
<1>5. /\ down' \in [Sockets -> Seq(Messages)]
      /\ \A t \in Sockets : down'[t] = IF t = socket THEN <<>> ELSE down[t]
  BY <1>1, <1>2, ControllersQueues
<1>6. /\ up' \in [Sockets -> Seq(Demands)]
      /\ \A t \in Sockets : up'[t] = IF t = socket THEN <<>> ELSE up[t]
  BY <1>1, <1>2, ControllersQueues
<1>7. leaving' \subseteq Sockets \ {socket'}
  BY <1>1, <1>2, <1>3, Types DEF Departing
<1>8. TypeOK'
  BY <1>1, <1>2, <1>3, <1>4, <1>5, <1>6, <1>7, Types DEF TypeOK, BrokerTypeOK, LinkStates
<1>9. Channels'
  BY <1>1, <1>3, <1>4, <1>5, <1>6 DEF Channels
<1>10. OneConnection'
  BY <1>1, <1>2, <1>4 DEF OneConnection
<1>11. up'[s] = <<>>
  BY <1>1, <1>3, <1>6 DEF Channels
<1>12. Controller' /\ NeverStranded' /\ ConnectedIsTrue' /\ AskedFor' /\ Told'
  BY <1>2, <1>3, <1>11 DEF Controller, NeverStranded, ConnectedIsTrue, AskedFor, Told, Linked, IsOpen
<1>13. QED
  BY <1>8, <1>9, <1>10, <1>12 DEF IInv

(* Enter, Leave, UrlChanges and the reconnect timer end in one of these.    *)
LEMMA ConnectHolds ==
  ASSUME IInv, UNCHANGED <<wants, view, stored, snapshot, demands>>,
         active' \in BOOLEAN, breaks' \in 0..MaxBreaks,
         \/ Disconnect /\ (~active' \/ wants = "none")
         \/ OpenSocket /\ active'
  PROVE  IInv'
<1>1. wants' \in Demands /\ wants' = wants
  BY Types DEF IInv
<1>2. CASE Disconnect /\ (~active' \/ wants = "none")
  BY <1>1, <1>2, DisconnectHolds
<1>3. CASE OpenSocket /\ active'
  BY <1>1, <1>3, OpenSocketHolds
<1>4. QED
  BY <1>2, <1>3

LEMMA UserHolds ==
  ASSUME IInv, Enter \/ Leave \/ UrlChanges \/ ReconnectTimerFires
  PROVE  IInv'
<1>1. active \in BOOLEAN /\ breaks \in 0..MaxBreaks
  BY Types DEF IInv
<1>2. CASE Enter
  BY <1>1, <1>2, ConnectHolds DEF Enter
<1>3. CASE Leave
  BY <1>1, <1>3, ConnectHolds DEF Leave
<1>4. CASE UrlChanges
  <2>1. breaks' \in 0..MaxBreaks
    BY <1>1, <1>4, BoundsAssumption DEF UrlChanges
  <2>2. QED
    BY <1>1, <1>4, <2>1, ConnectHolds DEF UrlChanges
<1>5. CASE ReconnectTimerFires
  BY <1>1, <1>5, ConnectHolds DEF ReconnectTimerFires
<1>6. QED
  BY <1>2, <1>3, <1>4, <1>5

(* A consumer's demand changes. *)
LEMMA ChangeDemandHolds ==
  ASSUME IInv, NEW d \in Demands, ChangeDemand(d)
  PROVE  IInv'
<1>1. /\ TypeOK /\ Channels /\ Controller /\ OneConnection /\ ConnectedIsTrue
      /\ wants' = d /\ UNCHANGED <<active, view, stored, snapshot, demands, breaks>>
  BY DEF IInv, ChangeDemand
<1>2. CASE ~active /\ UNCHANGED <<socket, state, leaving, timer, shown, link, down, up>>
  <2>1. TypeOK' /\ Channels' /\ Controller' /\ OneConnection' /\ ConnectedIsTrue'
    BY <1>1, <1>2
       DEF TypeOK, BrokerTypeOK, Channels, Controller, OneConnection, ConnectedIsTrue, IsOpen
  <2>2. ~Linked' /\ ~active'
    BY <1>1, <1>2 DEF Controller, Linked, IsOpen
  <2>3. QED
    BY <2>1, <2>2 DEF IInv, NeverStranded, AskedFor, Told
<1>3. CASE /\ active /\ IsOpen
           /\ up' = IF link[socket] = "broken" THEN up ELSE SendDemand(d)
           /\ UNCHANGED <<socket, state, leaving, timer, shown, link, down>>
  <2>1. /\ socket \in Sockets /\ up \in [Sockets -> Seq(Demands)] /\ state = "open"
        /\ link[socket] \in {"up", "broken"}
    BY <1>1, <1>3, Types DEF IsOpen, Controller
  <2>2. /\ Append(up[socket], d) \in Seq(Demands) /\ Append(up[socket], d) # <<>>
        /\ LastOf(Append(up[socket], d)) = d
    BY <2>1, AppendEnds
  <2>3. /\ up' \in [Sockets -> Seq(Demands)]
        /\ \A t \in Sockets : up'[t] = IF t = socket /\ link[t] = "up" THEN Append(up[t], d)
                                                                     ELSE up[t]
    BY <1>3, <2>1, <2>2 DEF SendDemand
  <2>4. TypeOK'
    BY <1>1, <1>3, <2>3 DEF TypeOK, BrokerTypeOK
  <2>5. Channels'
    BY <1>1, <1>3, <2>3 DEF Channels
  <2>6. Controller' /\ OneConnection' /\ ConnectedIsTrue' /\ NeverStranded'
    BY <1>1, <1>3, <2>1
       DEF Controller, OneConnection, ConnectedIsTrue, NeverStranded, IsOpen
  <2>7. AskedFor' /\ Told'
    BY <1>1, <1>3, <2>1, <2>2, <2>3 DEF AskedFor, Told, Linked, IsOpen
  <2>8. QED
    BY <2>4, <2>5, <2>6, <2>7 DEF IInv
<1>4. CASE active /\ ~IsOpen /\ (IF d = "none" THEN Disconnect ELSE OpenSocket)
  <2>1. active' = TRUE /\ wants' \in Demands /\ breaks' \in 0..MaxBreaks
    BY <1>1, <1>4, Types
  <2>2. CASE d = "none"
    BY <1>1, <1>4, <2>1, <2>2, DisconnectHolds
  <2>3. CASE d # "none"
    BY <1>1, <1>4, <2>1, <2>3, OpenSocketHolds
  <2>4. QED
    BY <2>2, <2>3
<1>5. QED
  BY <1>2, <1>3, <1>4 DEF ChangeDemand

-----------------------------------------------------------------------------
(* The socket's events. *)

LEMMA OpenEventHolds ==
  ASSUME IInv, OpenEvent
  PROVE  IInv'
<1>1. /\ TypeOK /\ Channels /\ Controller /\ OneConnection
      /\ socket # None /\ state = "connecting" /\ link[socket] = "up"
      /\ state' = "open" /\ shown' = "connected" /\ up' = SendDemand(wants)
      /\ UNCHANGED <<active, wants, socket, leaving, timer, view, stored, snapshot, demands, link,
                     down, breaks>>
  BY DEF IInv, OpenEvent
<1>2. /\ socket \in Sockets /\ up \in [Sockets -> Seq(Demands)] /\ wants \in Demands
      /\ active /\ up[socket] = <<>>
  BY <1>1, Types DEF Controller
<1>3. /\ Append(up[socket], wants) \in Seq(Demands) /\ Append(up[socket], wants) # <<>>
      /\ LastOf(Append(up[socket], wants)) = wants
  BY <1>2, AppendEnds
<1>4. /\ up' \in [Sockets -> Seq(Demands)]
      /\ \A t \in Sockets : up'[t] = IF t = socket THEN Append(up[t], wants) ELSE up[t]
  BY <1>1, <1>2, <1>3 DEF SendDemand
<1>5. TypeOK'
  BY <1>1, <1>4 DEF TypeOK, BrokerTypeOK
<1>6. Channels'
  BY <1>1, <1>4 DEF Channels
<1>7. Controller' /\ OneConnection' /\ ConnectedIsTrue' /\ NeverStranded'
  BY <1>1, <1>2 DEF Controller, OneConnection, ConnectedIsTrue, NeverStranded, IsOpen
<1>8. AskedFor' /\ Told'
  BY <1>1, <1>2, <1>3, <1>4 DEF AskedFor, Told
<1>9. QED
  BY <1>5, <1>6, <1>7, <1>8 DEF IInv

LEMMA MessageEventHolds ==
  ASSUME IInv, MessageEvent
  PROVE  IInv'
<1>1. /\ IInv /\ TypeOK /\ IsOpen /\ down[socket] # <<>>
      /\ view' = Head(down[socket]).snapshot
      /\ down' = [down EXCEPT ![socket] = Tail(@)]
      /\ UNCHANGED <<active, wants, socket, state, leaving, timer, shown, stored, snapshot, demands,
                     link, up, breaks>>
  BY DEF IInv, MessageEvent, Applied
<1>2. socket \in Sockets /\ down \in [Sockets -> Seq(Messages)]
  BY <1>1, Types DEF IsOpen
<1>3. /\ Head(down[socket]) \in Messages /\ Tail(down[socket]) \in Seq(Messages)
      /\ Tail(down[socket]) = <<>> => LastOf(down[socket]) = Head(down[socket])
      /\ Tail(down[socket]) # <<>> => LastOf(Tail(down[socket])) = LastOf(down[socket])
  BY <1>1, <1>2, TailEnds
<1>4. /\ down' \in [Sockets -> Seq(Messages)]
      /\ \A t \in Sockets : down'[t] = IF t = socket THEN Tail(down[t]) ELSE down[t]
  BY <1>1, <1>2, <1>3
<1>5. view' \in 0..MaxPublishes
  BY <1>1, <1>3 DEF Messages
<1>6. TypeOK'
  BY <1>1, <1>4, <1>5 DEF TypeOK, BrokerTypeOK
<1>7. Channels'
  BY <1>1, <1>2, <1>4 DEF IInv, Channels
<1>8. /\ Controller' /\ OneConnection' /\ ConnectedIsTrue' /\ NeverStranded' /\ AskedFor'
  BY <1>1 DEF IInv, Controller, OneConnection, ConnectedIsTrue, NeverStranded, AskedFor,
              Linked, IsOpen
<1>9. Told'
  BY <1>1, <1>2, <1>3, <1>4 DEF IInv, Told, Linked, IsOpen
<1>10. QED
  BY <1>6, <1>7, <1>8, <1>9 DEF IInv

LEMMA ErrorEventHolds ==
  ASSUME IInv, ErrorEvent
  PROVE  IInv'
<1>1. /\ IInv /\ TypeOK /\ socket # None /\ link[socket] = "broken"
      /\ state' = "closing" /\ shown' \in {shown, "error"}
      /\ UNCHANGED <<active, wants, socket, leaving, timer, view, stored, snapshot, demands, link,
                     down, up, breaks>>
  BY DEF IInv, ErrorEvent, brokerVars
<1>2. TypeOK'
  BY <1>1 DEF TypeOK, BrokerTypeOK
<1>3. Channels' /\ Controller' /\ OneConnection' /\ ConnectedIsTrue' /\ NeverStranded'
  BY <1>1 DEF IInv, Channels, Controller, OneConnection, ConnectedIsTrue, NeverStranded, IsOpen
<1>4. ~Linked'
  BY <1>1 DEF Linked
<1>5. QED
  BY <1>2, <1>3, <1>4 DEF IInv, AskedFor, Told

LEMMA CloseEventHolds ==
  ASSUME IInv, NEW s \in Sockets, CloseEvent(s)
  PROVE  IInv'
<1>1. /\ IInv /\ TypeOK /\ leaving' = leaving \ {s}
      /\ s \in leaving \/ (s = socket /\ state = "closing")
      /\ UNCHANGED <<active, wants, view, stored, snapshot, demands, link, down, up, breaks>>
  BY DEF IInv, CloseEvent, brokerVars
<1>2. CASE /\ s = socket /\ socket' = None /\ state' = "closing" /\ shown' = "error"
           /\ timer' = (active /\ wants # "none")
  <2>1. link[socket] = "broken" /\ socket \in Sockets
    BY <1>1, <1>2, SocketsNotNone, Types DEF IInv, Controller, TypeOK
  <2>2. TypeOK'
    BY <1>1, <1>2, SocketsNotNone DEF TypeOK, BrokerTypeOK
  <2>3. Channels' /\ Controller' /\ OneConnection' /\ ConnectedIsTrue' /\ NeverStranded'
    BY <1>1, <1>2, <2>1
       DEF IInv, Channels, Controller, OneConnection, ConnectedIsTrue, NeverStranded, IsOpen
  <2>4. ~Linked'
    BY <1>2 DEF Linked, IsOpen
  <2>5. QED
    BY <2>2, <2>3, <2>4 DEF IInv, AskedFor, Told
<1>3. CASE UNCHANGED <<socket, state, shown, timer>>
  <2>1. TypeOK'
    BY <1>1, <1>3 DEF TypeOK, BrokerTypeOK
  <2>2. QED
    BY <1>1, <1>3, <2>1 DEF IInv, Channels, Controller, OneConnection, ConnectedIsTrue,
       NeverStranded, AskedFor, Told, Linked, IsOpen
<1>4. QED
  BY <1>2, <1>3 DEF CloseEvent, Concerns, ScheduleReconnect

(* An answer hydrates the entry: the live channel does not notice.          *)
LEMMA HydrateHolds ==
  ASSUME IInv, NEW n \in 1..MaxPublishes, Hydrate(n)
  PROVE  IInv'
<1>1. /\ IInv /\ TypeOK /\ stored' = n
      /\ UNCHANGED <<active, wants, socket, state, leaving, timer, shown, view, snapshot,
                     demands, link, down, up, breaks>>
  BY DEF IInv, Hydrate, brokerVars
<1>2. stored' \in 0..MaxPublishes
  BY <1>1, BoundsAssumption
<1>3. TypeOK'
  BY <1>1, <1>2 DEF TypeOK, BrokerTypeOK
<1>4. QED
  BY <1>1, <1>3 DEF IInv, Channels, Controller, OneConnection, ConnectedIsTrue, NeverStranded,
     AskedFor, Told, Linked, IsOpen

-----------------------------------------------------------------------------
(* The broker's steps. *)

LEMMA MessagesAre ==
  ASSUME TypeOK, NEW d
  PROVE  /\ SyncMessage(d) \in Messages
         /\ d = "self" => SyncMessage(d).snapshot = snapshot
<1>1. snapshot \in 0..MaxPublishes /\ 0 \in 0..MaxPublishes
  BY Types, BoundsAssumption
<1>2. QED
  BY <1>1 DEF SyncMessage, Messages

(* What a send does to the queues. *)
LEMMA SentQueues ==
  ASSUME TypeOK, NEW S, NEW m \in Messages
  PROVE  /\ SentTo(S, m) \in [Sockets -> Seq(Messages)]
         /\ \A t \in Sockets :
              /\ t \in S /\ link[t] = "up" =>
                   SentTo(S, m)[t] # <<>> /\ LastOf(SentTo(S, m)[t]) = m
              /\ ~(t \in S /\ link[t] = "up") => SentTo(S, m)[t] = down[t]
<1>1. down \in [Sockets -> Seq(Messages)]
  BY Types
<1>2. \A t \in Sockets : /\ Append(down[t], m) \in Seq(Messages) /\ Append(down[t], m) # <<>>
                         /\ LastOf(Append(down[t], m)) = m
  BY <1>1, AppendEnds
<1>3. QED
  BY <1>1, <1>2 DEF SentTo

LEMMA AcceptHolds ==
  ASSUME IInv, NEW s \in Sockets, Accept(s), UNCHANGED clientVars
  PROVE  IInv'
<1>1. /\ IInv /\ TypeOK /\ link[s] = "requested" /\ link' = [link EXCEPT ![s] = "up"]
      /\ demands' = [t \in DOMAIN demands \cup {s} |-> IF t = s THEN "none" ELSE demands[t]]
      /\ down' = [down EXCEPT ![s] = Append(@, SyncMessage("none"))]
      /\ UNCHANGED <<snapshot, up, breaks, active, wants, socket, state, leaving, timer, shown,
                     view, stored>>
  BY DEF IInv, Accept, clientVars
<1>2. /\ DOMAIN demands \subseteq Sockets /\ \A t \in DOMAIN demands : demands[t] \in Demands
      /\ link \in [Sockets -> LinkStates] /\ down \in [Sockets -> Seq(Messages)]
  BY <1>1, Types
<1>3. Append(down[s], SyncMessage("none")) \in Seq(Messages)
  BY <1>1, <1>2, MessagesAre, AppendEnds
<1>4. /\ down' \in [Sockets -> Seq(Messages)]
      /\ \A t \in Sockets : t # s => down'[t] = down[t]
  BY <1>1, <1>2, <1>3
<1>5. /\ link' \in [Sockets -> LinkStates]
      /\ \A t \in Sockets : link'[t] = IF t = s THEN "up" ELSE link[t]
  BY <1>1, <1>2 DEF LinkStates
<1>6. /\ DOMAIN demands' = DOMAIN demands \cup {s}
      /\ \A t \in DOMAIN demands' : demands'[t] = IF t = s THEN "none" ELSE demands[t]
  BY <1>1
<1>7. TypeOK'
  BY <1>1, <1>2, <1>4, <1>5, <1>6 DEF TypeOK, BrokerTypeOK, LinkStates, Demands
<1>8. Channels'
  BY <1>1, <1>4, <1>5, <1>6 DEF IInv, Channels
<1>9. IsOpen => socket # s /\ socket \in Sockets
  BY <1>1, Types DEF IInv, Controller, IsOpen
<1>10. Controller' /\ OneConnection' /\ ConnectedIsTrue' /\ NeverStranded'
  BY <1>1, <1>5, <1>9, Types
     DEF IInv, Controller, OneConnection, ConnectedIsTrue, NeverStranded, IsOpen
<1>11. AskedFor' /\ Told'
  <2>1. SUFFICES ASSUME Linked' PROVE AskedFor' /\ Told'
    BY DEF AskedFor, Told
  <2>2. Linked /\ socket \in Sockets /\ socket # s /\ socket \in DOMAIN demands
    BY <1>1, <1>5, <1>9, <2>1 DEF Linked, IsOpen, IInv, Channels
  <2>3. /\ demands'[socket] = demands[socket] /\ down'[socket] = down[socket]
        /\ up' = up /\ socket' = socket /\ wants' = wants /\ view' = view /\ snapshot' = snapshot
    BY <1>1, <1>4, <1>6, <2>2
  <2>4. QED
    BY <1>1, <2>2, <2>3 DEF IInv, AskedFor, Told
<1>12. QED
  BY <1>7, <1>8, <1>10, <1>11 DEF IInv

LEMMA SetDemandHolds ==
  ASSUME IInv, NEW s \in Sockets, SetDemand(s), UNCHANGED clientVars
  PROVE  IInv'
<1> DEFINE d == Head(up[s])
<1>1. /\ IInv /\ TypeOK /\ s \in DOMAIN demands /\ up[s] # <<>>
      /\ demands' = [demands EXCEPT ![s] = d]
      /\ down' = SentTo({s}, SyncMessage(d))
      /\ up' = [up EXCEPT ![s] = Tail(@)]
      /\ UNCHANGED <<snapshot, link, breaks, active, wants, socket, state, leaving, timer, shown,
                     view, stored>>
  BY DEF IInv, SetDemand, WithDemand, WithSync, clientVars
<1>2. /\ DOMAIN demands \subseteq Sockets /\ \A t \in DOMAIN demands : demands[t] \in Demands
      /\ up \in [Sockets -> Seq(Demands)]
  BY <1>1, Types
<1>3. /\ d \in Demands /\ Tail(up[s]) \in Seq(Demands)
      /\ Tail(up[s]) = <<>> => LastOf(up[s]) = d
      /\ Tail(up[s]) # <<>> => LastOf(Tail(up[s])) = LastOf(up[s])
  BY <1>1, <1>2, TailEnds
<1>4. link[s] = "up"
  BY <1>1 DEF IInv, Channels
<1>5. SyncMessage(d) \in Messages /\ (d = "self" => SyncMessage(d).snapshot = snapshot)
  BY <1>1, MessagesAre
<1>6. /\ down' \in [Sockets -> Seq(Messages)]
      /\ \A t \in Sockets : IF t = s THEN down'[t] # <<>> /\ LastOf(down'[t]) = SyncMessage(d)
                                     ELSE down'[t] = down[t]
  BY <1>1, <1>4, <1>5, SentQueues
<1>7. /\ up' \in [Sockets -> Seq(Demands)]
      /\ \A t \in Sockets : up'[t] = IF t = s THEN Tail(up[t]) ELSE up[t]
  BY <1>1, <1>2, <1>3
<1>8. /\ DOMAIN demands' = DOMAIN demands
      /\ \A t \in DOMAIN demands : demands'[t] = IF t = s THEN d ELSE demands[t]
  BY <1>1
<1>9. TypeOK'
  BY <1>1, <1>2, <1>3, <1>6, <1>7, <1>8 DEF TypeOK, BrokerTypeOK
<1>10. Channels'
  BY <1>1, <1>4, <1>6, <1>7, <1>8 DEF IInv, Channels
<1>11. Controller' /\ OneConnection' /\ ConnectedIsTrue' /\ NeverStranded'
  <2>1. socket # None /\ state = "connecting" => up'[socket] = <<>>
    BY <1>1, <1>7, Types DEF IInv, Controller
  <2>2. QED
    BY <1>1, <2>1
       DEF IInv, Controller, OneConnection, ConnectedIsTrue, NeverStranded, IsOpen
<1>12. AskedFor' /\ Told'
  <2>1. SUFFICES ASSUME Linked' PROVE AskedFor' /\ Told'
    BY DEF AskedFor, Told
  <2>2. Linked /\ socket \in Sockets /\ socket \in DOMAIN demands
    BY <1>1, <2>1, Types DEF Linked, IsOpen, IInv, Channels
  <2>3. CASE socket = s
    <3>1. AskedFor'
      BY <1>1, <1>3, <1>7, <1>8, <2>2, <2>3 DEF IInv, AskedFor
    <3>2. Told'
      BY <1>1, <1>5, <1>6, <1>8, <2>2, <2>3 DEF Told
    <3>3. QED
      BY <3>1, <3>2
  <2>4. CASE socket # s
    <3>1. /\ demands'[socket] = demands[socket] /\ down'[socket] = down[socket]
          /\ up'[socket] = up[socket]
      BY <1>6, <1>7, <1>8, <2>2, <2>4
    <3>2. QED
      BY <1>1, <2>2, <3>1 DEF IInv, AskedFor, Told
  <2>5. QED
    BY <2>3, <2>4
<1>13. QED
  BY <1>9, <1>10, <1>11, <1>12 DEF IInv

LEMMA PublishHolds ==
  ASSUME IInv, Publish, UNCHANGED clientVars
  PROVE  IInv'
<1> DEFINE m == [type |-> "snapshot", snapshot |-> snapshot']
<1>1. /\ IInv /\ TypeOK /\ snapshot < MaxPublishes /\ snapshot' = snapshot + 1
      /\ down' = SentTo(Wanting, m)
      /\ UNCHANGED <<demands, link, up, breaks, active, wants, socket, state, leaving, timer,
                     shown, view, stored>>
  BY DEF IInv, Publish, clientVars
<1>2. snapshot' \in 0..MaxPublishes
  BY <1>1, Types, BoundsAssumption
<1>3. m \in Messages /\ m.snapshot = snapshot'
  BY <1>2 DEF Messages
<1>4. /\ down' \in [Sockets -> Seq(Messages)]
      /\ \A t \in Sockets :
           /\ t \in Wanting /\ link[t] = "up" => down'[t] # <<>> /\ LastOf(down'[t]) = m
           /\ link[t] # "up" => down'[t] = down[t]
  BY <1>1, <1>3, SentQueues
<1>5. TypeOK'
  BY <1>1, <1>2, <1>4 DEF TypeOK, BrokerTypeOK
<1>6. Channels'
  BY <1>1, <1>4 DEF IInv, Channels
<1>7. Controller' /\ OneConnection' /\ ConnectedIsTrue' /\ NeverStranded' /\ AskedFor'
  BY <1>1 DEF IInv, Controller, OneConnection, ConnectedIsTrue, NeverStranded, AskedFor, Linked,
              IsOpen
<1>8. Told'
  <2>1. SUFFICES ASSUME Linked', demands[socket] = "self" PROVE Told'
    BY <1>1 DEF Told
  <2>2. socket \in Sockets /\ link[socket] = "up" /\ socket \in Wanting
    BY <1>1, <2>1, Types DEF Linked, IsOpen, IInv, Channels, Wanting
  <2>3. QED
    BY <1>1, <1>3, <1>4, <2>2 DEF Told
<1>9. QED
  BY <1>5, <1>6, <1>7, <1>8 DEF IInv

LEMMA BreakHolds ==
  ASSUME IInv, NEW s \in Sockets, Break(s), UNCHANGED clientVars
  PROVE  IInv'
<1>1. /\ IInv /\ TypeOK /\ breaks < MaxBreaks /\ breaks' = breaks + 1
      /\ link' = [link EXCEPT ![s] = "broken"]
      /\ down' = [down EXCEPT ![s] = <<>>] /\ up' = [up EXCEPT ![s] = <<>>]
      /\ UNCHANGED <<snapshot, demands, active, wants, socket, state, leaving, timer, shown,
                     view, stored>>
  BY DEF IInv, Break, clientVars
<1>2. /\ link \in [Sockets -> LinkStates] /\ down \in [Sockets -> Seq(Messages)]
      /\ up \in [Sockets -> Seq(Demands)] /\ breaks \in 0..MaxBreaks
      /\ socket \in Sockets \cup {None}
  BY <1>1, Types
<1>3. /\ link' \in [Sockets -> LinkStates]
      /\ \A t \in Sockets : link'[t] = IF t = s THEN "broken" ELSE link[t]
  BY <1>1, <1>2 DEF LinkStates
<1>4. <<>> \in Seq(Messages) /\ <<>> \in Seq(Demands)
  BY EmptySeq
<1>5. /\ down' \in [Sockets -> Seq(Messages)]
      /\ \A t \in Sockets : down'[t] = IF t = s THEN <<>> ELSE down[t]
  BY <1>1, <1>2, <1>4
<1>6. /\ up' \in [Sockets -> Seq(Demands)]
      /\ \A t \in Sockets : up'[t] = IF t = s THEN <<>> ELSE up[t]
  BY <1>1, <1>2, <1>4
<1>7. breaks' \in 0..MaxBreaks
  BY <1>1, <1>2, BoundsAssumption
<1>8. TypeOK'
  BY <1>1, <1>3, <1>5, <1>6, <1>7 DEF TypeOK, BrokerTypeOK, LinkStates
<1>9. Channels'
  BY <1>1, <1>3, <1>5, <1>6 DEF IInv, Channels
<1>10. OneConnection' /\ ConnectedIsTrue' /\ NeverStranded'
  BY <1>1, <1>3 DEF IInv, OneConnection, ConnectedIsTrue, NeverStranded, IsOpen
<1>11. Controller'
  BY <1>1, <1>2, <1>3, <1>6 DEF IInv, Controller, IsOpen
<1>12. AskedFor' /\ Told'
  <2>1. SUFFICES ASSUME Linked' PROVE AskedFor' /\ Told'
    BY DEF AskedFor, Told
  <2>2. Linked /\ socket \in Sockets /\ socket # s
    BY <1>1, <1>2, <1>3, <2>1 DEF Linked, IsOpen
  <2>3. down'[socket] = down[socket] /\ up'[socket] = up[socket]
    BY <1>5, <1>6, <2>2
  <2>4. QED
    BY <1>1, <2>2, <2>3 DEF IInv, AskedFor, Told
<1>13. QED
  BY <1>8, <1>9, <1>10, <1>11, <1>12 DEF IInv

LEMMA ForgetSocketHolds ==
  ASSUME IInv, NEW s \in Sockets, ForgetSocket(s), UNCHANGED clientVars
  PROVE  IInv'
<1>1. /\ IInv /\ TypeOK /\ link[s] = "broken"
      /\ demands' = [t \in DOMAIN demands \ {s} |-> demands[t]]
      /\ UNCHANGED <<snapshot, link, down, up, breaks, active, wants, socket, state, leaving,
                     timer, shown, view, stored>>
  BY DEF IInv, ForgetSocket, clientVars
<1>2. /\ DOMAIN demands' = DOMAIN demands \ {s}
      /\ \A t \in DOMAIN demands' : demands'[t] = demands[t]
  BY <1>1
<1>3. TypeOK'
  BY <1>1, <1>2 DEF TypeOK, BrokerTypeOK
<1>4. Channels'
  BY <1>1, <1>2 DEF IInv, Channels
<1>5. Controller' /\ OneConnection' /\ ConnectedIsTrue' /\ NeverStranded'
  BY <1>1 DEF IInv, Controller, OneConnection, ConnectedIsTrue, NeverStranded, IsOpen
<1>6. AskedFor' /\ Told'
  <2>1. SUFFICES ASSUME Linked' PROVE AskedFor' /\ Told'
    BY DEF AskedFor, Told
  <2>2. Linked /\ socket \in DOMAIN demands'
    BY <1>1, <1>4, <2>1, Types DEF Linked, IsOpen, Channels
  <2>3. demands'[socket] = demands[socket]
    BY <1>2, <2>2
  <2>4. QED
    BY <1>1, <2>2, <2>3 DEF IInv, AskedFor, Told
<1>7. QED
  BY <1>3, <1>4, <1>5, <1>6 DEF IInv

-----------------------------------------------------------------------------
(* Every step of the composition preserves the invariant. *)
LEMMA StepHolds == IInv /\ [Next]_vars => IInv'
<1> SUFFICES ASSUME IInv, [Next]_vars PROVE IInv'
  OBVIOUS
<1>1. CASE Enter \/ Leave \/ UrlChanges \/ ReconnectTimerFires
  BY <1>1, UserHolds
<1>2. CASE \E d \in Demands : ChangeDemand(d)
  BY <1>2, ChangeDemandHolds
<1>3. CASE OpenEvent
  BY <1>3, OpenEventHolds
<1>4. CASE MessageEvent
  BY <1>4, MessageEventHolds
<1>5. CASE ErrorEvent
  BY <1>5, ErrorEventHolds
<1>6. CASE \E s \in Sockets : CloseEvent(s)
  BY <1>6, CloseEventHolds
<1>7. CASE BrokerSteps
  BY <1>7, AcceptHolds, SetDemandHolds, BreakHolds, ForgetSocketHolds, PublishHolds
     DEF BrokerSteps
<1>8. CASE \E n \in 1..MaxPublishes : Hydrate(n)
  BY <1>8, HydrateHolds
<1>9. CASE UNCHANGED vars
  BY <1>9 DEF vars, IInv, TypeOK, BrokerTypeOK, Channels, Controller, OneConnection,
     NeverStranded, ConnectedIsTrue, AskedFor, Told, Linked, IsOpen
<1>10. QED
  BY <1>1, <1>2, <1>3, <1>4, <1>5, <1>6, <1>7, <1>8, <1>9 DEF Next

-----------------------------------------------------------------------------
(* The theorems. *)

(* The queues hold messages of the protocol only and every variable its     *)
(* type, whatever the numbers of sockets, publishes and breaks are.         *)
THEOREM TypeCorrect == Spec => []TypeOK
<1>1. IInv => TypeOK
  BY DEF IInv
<1>2. QED
  BY InitHolds, StepHolds, <1>1, PTL DEF Spec

(* useMyBoatVesselStore.ts with VesselLiveBroker.ts: once nothing is on its *)
(* way between them, the live snapshot of an active entry that asks for it  *)
(* is the one the broker holds.                                             *)
THEOREM ViewCurrent == Spec => []ViewIsCurrent
<1>1. IInv => ViewIsCurrent
  BY Types DEF IInv, ViewIsCurrent, Quiet, AskedFor, Told, Linked, Demands
<1>2. QED
  BY InitHolds, StepHolds, <1>1, PTL DEF Spec

(* connectNamespace and scheduleReconnect never leave a demanding, active   *)
(* entry without a socket or a timer.                                       *)
THEOREM NotStranded == Spec => []NeverStranded
<1>1. IInv => NeverStranded
  BY DEF IInv
<1>2. QED
  BY InitHolds, StepHolds, <1>1, PTL DEF Spec

(* The entry's connection state is "connected" only over a live socket.     *)
THEOREM ConnectedTruthful == Spec => []ConnectedIsTrue
<1>1. IInv => ConnectedIsTrue
  BY DEF IInv
<1>2. QED
  BY InitHolds, StepHolds, <1>1, PTL DEF Spec

(* connectNamespace, disconnectNamespace and the close events of replaced   *)
(* sockets never leave a second live connection.                            *)
THEOREM SingleConnection == Spec => []OneConnection
<1>1. IInv => OneConnection
  BY DEF IInv
<1>2. QED
  BY InitHolds, StepHolds, <1>1, PTL DEF Spec

-----------------------------------------------------------------------------
(* What an entry had live stays behind it.  Every snapshot on its way was     *)
(* taken from a broker that was at least as far as the view, and the frames  *)
(* of a socket are in the order of their snapshots.                          *)

AtLeast(x, n) == x = 0 \/ n <= x

(* The broker, the view and all that is on its way are past snapshot n. *)
Past(n) ==
  /\ n <= snapshot
  /\ AtLeast(view, n)
  /\ \A s \in Sockets : \A i \in 1..Len(down[s]) : AtLeast(down[s][i].snapshot, n)

Rising(q) == \A i, j \in 1..Len(q) : i < j => AtLeast(q[j].snapshot, q[i].snapshot)

Ordered ==
  /\ Past(view)
  /\ \A s \in Sockets : /\ Rising(down[s])
                        /\ \A i \in 1..Len(down[s]) : down[s][i].snapshot <= snapshot

(* The messages of a queue from which one was taken, or to which one came.  *)
LEMMA TailMessages ==
  ASSUME NEW q \in Seq(Messages), q # <<>>
  PROVE  /\ Len(q) \in Nat \ {0} /\ Head(q) = q[1]
         /\ Len(Tail(q)) = Len(q) - 1
         /\ \A i \in 1..Len(Tail(q)) : Tail(q)[i] = q[i + 1] /\ i + 1 \in 1..Len(q)
<1>1. /\ Len(q) \in Nat \ {0} /\ Head(q) = q[1] /\ Len(Tail(q)) = Len(q) - 1
  BY HeadTailProperties, EmptySeq
<1>2. \A i \in 1..Len(Tail(q)) : Tail(q)[i] = q[i + 1]
  BY HeadTailProperties
<1>3. QED
  BY <1>1, <1>2

LEMMA AppendedMessages ==
  ASSUME NEW q \in Seq(Messages), NEW m \in Messages
  PROVE  /\ Len(q) \in Nat
         /\ Len(Append(q, m)) = Len(q) + 1
         /\ \A i \in 1..Len(q) : Append(q, m)[i] = q[i]
         /\ Append(q, m)[Len(q) + 1] = m
BY AppendProperties, LenProperties

(* What any step does to a queue. *)
Taken(s) == down[s] # <<>> /\ down'[s] = Tail(down[s])
Sent(s) ==
  \E m \in Messages : m.snapshot \in {0, snapshot'} /\ down'[s] = Append(down[s], m)

LEMMA SentIs ==
  ASSUME TypeOK, NEW S, NEW m \in Messages, m.snapshot \in {0, snapshot'},
         down' = SentTo(S, m), NEW s \in Sockets
  PROVE  down'[s] = down[s] \/ Sent(s)
BY DEF SentTo, Sent

LEMMA QueueSteps ==
  ASSUME IInv, [Next]_vars
  PROVE  /\ snapshot \in Nat /\ snapshot' \in Nat /\ snapshot <= snapshot'
         /\ \A s \in Sockets : \/ down'[s] = down[s] \/ down'[s] = <<>>
                               \/ Taken(s) \/ Sent(s)
<1>1. TypeOK /\ snapshot \in 0..MaxPublishes /\ snapshot \in Nat
  BY Types, BoundsAssumption DEF IInv
<1>2. down \in [Sockets -> Seq(Messages)] /\ socket \in Sockets \cup {None}
  BY <1>1, Types
<1>3. CASE Enter \/ Leave \/ UrlChanges \/ ReconnectTimerFires \/ \E d \in Demands : ChangeDemand(d)
  <2>1. snapshot' = snapshot /\ (down' = down \/ down' = Emptied(down, socket))
    BY <1>3 DEF Enter, Leave, UrlChanges, ReconnectTimerFires, ChangeDemand, Disconnect, OpenSocket
  <2>2. \A s \in Sockets : down'[s] = down[s] \/ down'[s] = <<>>
    BY <1>1, <2>1, ControllersQueues
  <2>3. QED
    BY <1>1, <2>1, <2>2
<1>4. CASE \/ OpenEvent \/ ErrorEvent \/ \E s \in Sockets : CloseEvent(s)
           \/ UNCHANGED vars \/ \E n \in 1..MaxPublishes : Hydrate(n)
  BY <1>1, <1>4 DEF OpenEvent, ErrorEvent, CloseEvent, Hydrate, brokerVars, vars
<1>5. CASE MessageEvent
  <2>1. /\ socket \in Sockets /\ down[socket] # <<>> /\ snapshot' = snapshot
        /\ down' = [down EXCEPT ![socket] = Tail(@)]
    BY <1>2, <1>5 DEF MessageEvent, IsOpen
  <2>2. Taken(socket) /\ \A s \in Sockets : s # socket => down'[s] = down[s]
    BY <1>2, <2>1 DEF Taken
  <2>3. QED
    BY <1>1, <2>1, <2>2
<1>6. CASE BrokerSteps
  <2>1. CASE Publish
    <3> DEFINE m == [type |-> "snapshot", snapshot |-> snapshot']
    <3>1. snapshot < MaxPublishes /\ snapshot' = snapshot + 1 /\ down' = SentTo(Wanting, m)
      BY <2>1 DEF Publish
    <3>2. snapshot' \in 0..MaxPublishes /\ snapshot' \in Nat /\ snapshot <= snapshot'
      BY <1>1, <3>1, BoundsAssumption
    <3>3. m \in Messages /\ m.snapshot \in {0, snapshot'}
      BY <3>2 DEF Messages
    <3> HIDE DEF m
    <3>4. QED
      BY <1>1, <3>1, <3>2, <3>3, SentIs
  <2>2. ASSUME NEW s \in Sockets, Accept(s)
        PROVE  snapshot' = snapshot /\ \A t \in Sockets : down'[t] = down[t] \/ Sent(t)
    <3>1. /\ snapshot' = snapshot
          /\ down' = [down EXCEPT ![s] = Append(@, SyncMessage("none"))]
      BY <2>2 DEF Accept
    <3>2. SyncMessage("none") \in Messages /\ SyncMessage("none").snapshot = 0
      BY <1>1, MessagesAre DEF SyncMessage
    <3>3. QED
      BY <1>2, <3>1, <3>2 DEF Sent
  <2>3. ASSUME NEW s \in Sockets, SetDemand(s)
        PROVE  snapshot' = snapshot /\ \A t \in Sockets : down'[t] = down[t] \/ Sent(t)
    <3> DEFINE m == SyncMessage(Head(up[s]))
    <3>1. snapshot' = snapshot /\ down' = SentTo({s}, m)
      BY <2>3 DEF SetDemand, WithSync
    <3>2. m \in Messages /\ m.snapshot \in {0, snapshot'}
      BY <1>1, <3>1, MessagesAre DEF SyncMessage
    <3> HIDE DEF m
    <3>3. QED
      BY <1>1, <3>1, <3>2, SentIs
  <2>4. ASSUME NEW s \in Sockets, Break(s) \/ ForgetSocket(s)
        PROVE  snapshot' = snapshot /\ \A t \in Sockets : down'[t] = down[t] \/ down'[t] = <<>>
    BY <1>2, <2>4 DEF Break, ForgetSocket
  <2>5. QED
    BY <1>1, <1>6, <2>1, <2>2, <2>3, <2>4 DEF BrokerSteps
<1>7. QED
  BY <1>3, <1>4, <1>5, <1>6 DEF Next

(* The view changes only to the first message of the controller's socket,   *)
(* and no other socket carries any.                                         *)
LEMMA ViewSteps ==
  ASSUME IInv, [Next]_vars
  PROVE  \/ view' = view
         \/ /\ socket \in Sockets /\ Taken(socket)
            /\ view' = Head(down[socket]).snapshot
            /\ snapshot' = snapshot
            /\ \A s \in Sockets : s # socket => down'[s] = <<>>
<1>1. CASE MessageEvent
  <2>1. /\ socket \in Sockets /\ down[socket] # <<>> /\ snapshot' = snapshot
        /\ down' = [down EXCEPT ![socket] = Tail(@)]
        /\ view' = Head(down[socket]).snapshot
    BY <1>1, Types DEF MessageEvent, IsOpen, Applied, IInv
  <2>2. down \in [Sockets -> Seq(Messages)]
    BY Types DEF IInv
  <2>3. \A s \in Sockets : s # socket => down[s] = <<>>
    BY DEF IInv, Channels, OneConnection
  <2>4. QED
    BY <2>1, <2>2, <2>3 DEF Taken
<1>2. CASE ~MessageEvent
  BY <1>2 DEF Next, vars, clientVars, Enter, Leave, UrlChanges, ChangeDemand, OpenEvent,
     ErrorEvent, CloseEvent, ReconnectTimerFires, Hydrate, BrokerSteps
<1>3. QED
  BY <1>1, <1>2

(* What is past snapshot n stays past it. *)
LEMMA PastStep ==
  ASSUME IInv, [Next]_vars, NEW n \in Nat, Past(n)
  PROVE  Past(n)'
<1>1. /\ snapshot \in Nat /\ snapshot' \in Nat /\ snapshot <= snapshot'
      /\ \A s \in Sockets : \/ down'[s] = down[s] \/ down'[s] = <<>>
                            \/ Taken(s) \/ Sent(s)
  BY QueueSteps
<1>2. down \in [Sockets -> Seq(Messages)]
  BY Types DEF IInv
<1>3. n <= snapshot'
  BY <1>1 DEF Past
<1>4. AtLeast(view', n)
  <2>1. CASE view' = view
    BY <2>1 DEF Past
  <2>2. CASE view' # view
    <3>1. socket \in Sockets /\ down[socket] # <<>> /\ view' = Head(down[socket]).snapshot
      BY <2>2, ViewSteps DEF Taken
    <3>2. view' = down[socket][1].snapshot /\ 1 \in 1..Len(down[socket])
      BY <1>2, <3>1, TailMessages
    <3>3. QED
      BY <3>1, <3>2 DEF Past
  <2>3. QED
    BY <2>1, <2>2
<1>5. ASSUME NEW s \in Sockets, NEW i \in 1..Len(down'[s])
      PROVE  AtLeast(down'[s][i].snapshot, n)
  <2>1. down[s] \in Seq(Messages)
    BY <1>2
  <2>2. \A k \in 1..Len(down[s]) : AtLeast(down[s][k].snapshot, n)
    BY DEF Past
  <2>3. CASE down'[s] = down[s]
    BY <1>5, <2>2, <2>3
  <2>4. CASE down'[s] = <<>>
    BY <1>5, <2>4
  <2>5. CASE Taken(s)
    BY <1>5, <2>1, <2>2, <2>5, TailMessages DEF Taken
  <2>6. CASE Sent(s)
    <3>1. PICK m \in Messages : m.snapshot \in {0, snapshot'} /\ down'[s] = Append(down[s], m)
      BY <2>6 DEF Sent
    <3>2. /\ Len(down[s]) \in Nat /\ Len(down'[s]) = Len(down[s]) + 1
          /\ \A k \in 1..Len(down[s]) : down'[s][k] = down[s][k]
          /\ down'[s][Len(down[s]) + 1] = m
      BY <2>1, <3>1, AppendedMessages
    <3>3. i \in 1..Len(down[s]) \/ i = Len(down[s]) + 1
      BY <1>5, <3>2
    <3>4. AtLeast(m.snapshot, n)
      BY <1>3, <3>1 DEF AtLeast
    <3>5. QED
      BY <2>2, <3>2, <3>3, <3>4
  <2>7. QED
    BY <1>1, <2>3, <2>4, <2>5, <2>6
<1>6. QED
  BY <1>3, <1>4, <1>5 DEF Past

LEMMA OrderedInit == Init => Ordered
BY DEF Init, BrokerInit, Ordered, Past, AtLeast, Rising

(* Snapshots are numbers, in the messages too. *)
LEMMA SnapshotNumbers ==
  ASSUME IInv
  PROVE  /\ view \in Nat /\ snapshot \in Nat
         /\ \A m \in Messages : m.snapshot \in Nat
         /\ down \in [Sockets -> Seq(Messages)]
<1>1. TypeOK
  BY DEF IInv
<1>2. view \in 0..MaxPublishes /\ snapshot \in 0..MaxPublishes
      /\ down \in [Sockets -> Seq(Messages)]
  BY <1>1, Types
<1>3. \A m \in Messages : m.snapshot \in Nat
  BY BoundsAssumption DEF Messages
<1>4. QED
  BY <1>2, <1>3, BoundsAssumption

LEMMA OrderedStep ==
  ASSUME IInv, Ordered, [Next]_vars
  PROVE  Ordered'
<1>1. /\ snapshot \in Nat /\ snapshot' \in Nat /\ snapshot <= snapshot'
      /\ \A s \in Sockets : \/ down'[s] = down[s] \/ down'[s] = <<>>
                            \/ Taken(s) \/ Sent(s)
  BY QueueSteps
<1>2. /\ down \in [Sockets -> Seq(Messages)] /\ view \in Nat
      /\ \A m \in Messages : m.snapshot \in Nat
  BY SnapshotNumbers
<1>3. ASSUME NEW s \in Sockets
      PROVE  /\ Rising(down'[s])
             /\ \A i \in 1..Len(down'[s]) : down'[s][i].snapshot <= snapshot'
  <2>1. down[s] \in Seq(Messages) /\ \A k \in 1..Len(down[s]) : down[s][k].snapshot \in Nat
    BY <1>2
  <2>2. /\ Rising(down[s])
        /\ \A k \in 1..Len(down[s]) : down[s][k].snapshot <= snapshot
    BY DEF Ordered
  <2>3. \A k \in 1..Len(down[s]) : down[s][k].snapshot <= snapshot'
    BY <1>1, <2>1, <2>2
  <2>4. CASE down'[s] = down[s]
    BY <2>2, <2>3, <2>4
  <2>5. CASE down'[s] = <<>>
    BY <2>5 DEF Rising
  <2>6. CASE Taken(s)
    <3>1. /\ Len(down[s]) \in Nat /\ Len(down'[s]) = Len(down[s]) - 1
          /\ \A k \in 1..Len(down'[s]) :
               down'[s][k] = down[s][k + 1] /\ k + 1 \in 1..Len(down[s])
      BY <2>1, <2>6, TailMessages DEF Taken
    <3>2. ASSUME NEW i \in 1..Len(down'[s]), NEW j \in 1..Len(down'[s]), i < j
          PROVE  AtLeast(down'[s][j].snapshot, down'[s][i].snapshot)
      <4>1. /\ down'[s][i] = down[s][i + 1] /\ i + 1 \in 1..Len(down[s])
            /\ down'[s][j] = down[s][j + 1] /\ j + 1 \in 1..Len(down[s])
        BY <3>1, <3>2, Zenon
      <4>2. i + 1 < j + 1
        BY <3>1, <3>2
      <4>3. AtLeast(down[s][j + 1].snapshot, down[s][i + 1].snapshot)
        BY <2>2, <4>1, <4>2, Zenon DEF Rising
      <4>4. QED
        BY <4>1, <4>3, Zenon
    <3>3. Rising(down'[s])
      BY <3>2, Zenon DEF Rising
    <3>4. QED
      BY <2>3, <3>1, <3>3
  <2>7. CASE Sent(s)
    <3>1. PICK m \in Messages : m.snapshot \in {0, snapshot'} /\ down'[s] = Append(down[s], m)
      BY <2>7 DEF Sent
    <3>2. /\ Len(down[s]) \in Nat /\ Len(down'[s]) = Len(down[s]) + 1
          /\ \A k \in 1..Len(down[s]) : down'[s][k] = down[s][k]
          /\ down'[s][Len(down[s]) + 1] = m
      BY <2>1, <3>1, AppendedMessages
    <3>3. \A i \in 1..Len(down'[s]) : i \in 1..Len(down[s]) \/ i = Len(down[s]) + 1
      BY <3>2
    <3>4. \A i \in 1..Len(down'[s]) : down'[s][i].snapshot <= snapshot'
      BY <1>1, <2>3, <3>1, <3>2, <3>3
    <3>5. Rising(down'[s])
      <4>1. SUFFICES ASSUME NEW i \in 1..Len(down'[s]), NEW j \in 1..Len(down'[s]), i < j
                     PROVE  AtLeast(down'[s][j].snapshot, down'[s][i].snapshot)
        BY DEF Rising
      <4>2. i \in 1..Len(down[s])
        BY <3>2, <4>1
      <4>3. CASE j \in 1..Len(down[s])
        BY <2>2, <3>2, <4>1, <4>2, <4>3 DEF Rising
      <4>4. CASE j = Len(down[s]) + 1
        BY <2>3, <3>1, <3>2, <4>2, <4>4 DEF AtLeast
      <4>5. QED
        BY <3>3, <4>3, <4>4
    <3>6. QED
      BY <3>4, <3>5
  <2>8. QED
    BY <1>1, <2>4, <2>5, <2>6, <2>7
<1>4. Past(view)'
  <2>1. CASE view' = view
    <3>1. PICK n \in Nat : n = view
      BY <1>2
    <3>2. Past(n)
      BY <3>1 DEF Ordered
    <3>3. Past(n)'
      BY <3>2, PastStep
    <3>4. QED
      BY <2>1, <3>1, <3>3 DEF Past
  <2>2. CASE view' # view
    <3>1. /\ socket \in Sockets /\ Taken(socket) /\ down[socket] # <<>>
          /\ view' = Head(down[socket]).snapshot /\ snapshot' = snapshot
          /\ \A s \in Sockets : s # socket => down'[s] = <<>>
      BY <2>2, ViewSteps DEF Taken
    <3>2. /\ Len(down[socket]) \in Nat \ {0} /\ view' = down[socket][1].snapshot
          /\ \A i \in 1..Len(down'[socket]) :
               down'[socket][i] = down[socket][i + 1] /\ i + 1 \in 1..Len(down[socket])
      BY <1>2, <3>1, TailMessages DEF Taken
    <3>3. view' <= snapshot' /\ 1 \in 1..Len(down[socket])
      BY <3>1, <3>2 DEF Ordered
    <3>4. \A i \in 1..Len(down'[socket]) : AtLeast(down'[socket][i].snapshot, view')
      <4>1. TAKE i \in 1..Len(down'[socket])
      <4>2. 1 < i + 1 /\ i + 1 \in 1..Len(down[socket])
        BY <3>2, <4>1
      <4>3. Rising(down[socket])
        BY <3>1 DEF Ordered
      <4>4. QED
        BY <3>2, <3>3, <4>1, <4>2, <4>3 DEF Rising
    <3>5. \A s \in Sockets : \A i \in 1..Len(down'[s]) : AtLeast(down'[s][i].snapshot, view')
      <4>1. \A s \in Sockets : s # socket => Len(down'[s]) = 0
        BY <3>1
      <4>2. QED
        BY <3>4, <4>1
    <3>6. AtLeast(view', view')
      BY <1>2, <3>1, <3>2 DEF AtLeast
    <3>7. QED
      BY <3>3, <3>5, <3>6 DEF Past
  <2>3. QED
    BY <2>1, <2>2
<1>5. QED
  BY <1>3, <1>4 DEF Ordered

(* applyLiveMessage and mergeSnapshots: the live snapshot a page shows is     *)
(* never older than one it showed before, whatever breaks, reconnects and    *)
(* hydrates it.                                                             *)
THEOREM ViewStepsForward == Spec => NeverStepsBack
<1>1. Spec => [](IInv /\ Ordered)
  BY InitHolds, StepHolds, OrderedInit, OrderedStep, PTL DEF Spec
<1>2. ShowsLive => Page = view /\ view # 0
  BY DEF ShowsLive, Page, MergedSnapshot
<1>3. ASSUME NEW CONSTANT n \in 1..MaxPublishes
      PROVE  Spec => [](ShowsLive /\ Page >= n => [](ShowsLive => Page >= n))
  <2>1. IInv /\ Ordered /\ ShowsLive /\ Page >= n => Past(n)
    <3>1. SUFFICES ASSUME IInv, Ordered, view >= n PROVE Past(n)
      BY <1>2
    <3>2. /\ n \in Nat /\ view \in Nat /\ snapshot \in Nat
          /\ \A s \in Sockets : \A i \in 1..Len(down[s]) : down[s][i].snapshot \in Nat
      <4>1. n \in Nat
        BY <1>3, BoundsAssumption
      <4>2. /\ view \in Nat /\ snapshot \in Nat /\ down \in [Sockets -> Seq(Messages)]
            /\ \A m \in Messages : m.snapshot \in Nat
        BY <3>1, SnapshotNumbers
      <4>3. \A s \in Sockets : \A i \in 1..Len(down[s]) : down[s][i] \in Messages
        BY <4>2
      <4>4. QED
        BY <4>1, <4>2, <4>3
    <3>3. QED
      BY <3>1, <3>2 DEF Ordered, Past, AtLeast
  <2>2. IInv /\ Past(n) /\ [Next]_vars => Past(n)'
    BY <1>3, BoundsAssumption, PastStep
  <2>3. Past(n) => (ShowsLive => Page >= n)
    BY <1>2 DEF Past, AtLeast
  <2>4. QED
    BY <1>1, <2>1, <2>2, <2>3, PTL DEF Spec
<1>4. QED
  BY <1>3 DEF NeverStepsBack
=============================================================================
