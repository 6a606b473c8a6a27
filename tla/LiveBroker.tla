----------------------------- MODULE LiveBroker -----------------------------
(***************************************************************************)
(* The Durable Object of one vessel, apps/web/worker/VesselLiveBroker.ts,  *)
(* and the web sockets that browsers hold to it.  It keeps the snapshot    *)
(* last published for the vessel, sends it to the sockets that want it, and *)
(* answers every set_demand with a sync of what it holds.                  *)
(*                                                                         *)
(* A handler is one action: while the put of persistState is in progress   *)
(* the runtime's input gate delivers no event to the object, and its output *)
(* gate holds back the frames that follow until the put is durable.  The   *)
(* stored state is therefore the state in memory whenever the object is    *)
(* evicted, and the constructor restores it.  Snapshots are numbered in the *)
(* order in which they are published.  AIS contacts and the status message *)
(* are left out: the snapshot never depends on them.                       *)
(***************************************************************************)
EXTENDS Integers, Sequences

CONSTANTS
  MaxSockets,     \* bound of the model: web sockets that some end still knows of
  MaxPublishes,   \* bound of the model: how often the vessel's snapshot is published
  MaxBreaks       \* bound of the model: how often a connection breaks, or its URL changes

ASSUME BoundsAssumption ==
  MaxSockets \in Nat \ {0} /\ MaxPublishes \in Nat /\ MaxBreaks \in Nat

(* A socket that both ends forgot is used again. *)
Sockets == 1..MaxSockets

VARIABLES
  snapshot,   \* stateRecord.snapshot; 0: null
  demands,    \* getWebSockets(), each with the demand of its attachment
  link,       \* the network's view of a socket: "free", "requested", "up", "broken"
  down,       \* messages on their way to the browser, in order
  up,         \* messages on their way to the broker, in order
  breaks      \* how many connections broke, and URLs changed, so far

brokerVars == <<snapshot, demands, link, down, up, breaks>>

(* What a browser may ask for: "none" is the empty demand, "ais" one for    *)
(* contacts alone (its selfLevel is "none"), and "self" any demand whose     *)
(* selfLevel is not "none", with contacts or without.                       *)
Demands == {"none", "ais", "self"}

Messages == [type : {"sync", "snapshot"}, snapshot : 0..MaxPublishes]

BrokerTypeOK ==
  /\ snapshot \in 0..MaxPublishes
  /\ DOMAIN demands \subseteq Sockets
  /\ \A s \in DOMAIN demands : demands[s] \in Demands
  /\ link \in [Sockets -> {"free", "requested", "up", "broken"}]
  /\ down \in [Sockets -> Seq(Messages)]
  /\ up \in [Sockets -> Seq(Demands)]
  /\ breaks \in 0..MaxBreaks

(* createEmptyState: nothing was published for the vessel yet. *)
BrokerInit ==
  /\ snapshot = 0
  /\ demands = [s \in {} |-> "none"]
  /\ link = [s \in Sockets |-> "free"]
  /\ down = [s \in Sockets |-> <<>>]
  /\ up = [s \in Sockets |-> <<>>]
  /\ breaks = 0

(* buildSyncMessage *)
SyncMessage(demand) ==
  [type |-> "sync", snapshot |-> IF demand = "self" THEN snapshot ELSE 0]

(* sendSocketMessage to each socket of S: what is sent after the connection *)
(* broke is lost.                                                          *)
SentTo(S, message) ==
  [s \in Sockets |-> IF s \in S /\ link[s] = "up" THEN Append(down[s], message)
                                                  ELSE down[s]]

(* fetch of an upgrade request: the socket starts with DEFAULT_LIVE_DEMAND. *)
Accept(s) ==
  /\ link[s] = "requested"
  /\ link' = [link EXCEPT ![s] = "up"]
  /\ demands' = [t \in DOMAIN demands \cup {s} |-> IF t = s THEN "none" ELSE demands[t]]
  /\ down' = [down EXCEPT ![s] = Append(@, SyncMessage("none"))]
  /\ UNCHANGED <<snapshot, up, breaks>>

(* webSocketMessage: a set_demand. *)
WithDemand(s, demand) == [demands EXCEPT ![s] = demand]
NoSync(s, demand) == down
WithSync(s, demand) == SentTo({s}, SyncMessage(demand))
SetDemand(s) ==
  /\ s \in DOMAIN demands
  /\ up[s] # <<>>
  /\ demands' = WithDemand(s, Head(up[s]))
  /\ down' = WithSync(s, Head(up[s]))
  /\ up' = [up EXCEPT ![s] = Tail(@)]
  /\ UNCHANGED <<snapshot, link, breaks>>

(* handlePublish of a payload with a snapshot. *)
Wanting == {s \in DOMAIN demands : demands[s] = "self"}
Publish ==
  /\ snapshot < MaxPublishes
  /\ snapshot' = snapshot + 1
  /\ down' = SentTo(Wanting, [type |-> "snapshot", snapshot |-> snapshot'])
  /\ UNCHANGED <<demands, link, up, breaks>>

(* The connection ends under the browser and the broker: what is on its way *)
(* is lost.                                                                 *)
Break(s) ==
  /\ link[s] \in {"requested", "up"}
  /\ breaks < MaxBreaks
  /\ breaks' = breaks + 1
  /\ link' = [link EXCEPT ![s] = "broken"]
  /\ down' = [down EXCEPT ![s] = <<>>]
  /\ up' = [up EXCEPT ![s] = <<>>]
  /\ UNCHANGED <<snapshot, demands>>

(* webSocketClose and webSocketError: the broker learns of it, now or later, *)
(* and the socket leaves getWebSockets().                                   *)
ForgetSocket(s) ==
  /\ link[s] = "broken"
  /\ s \in DOMAIN demands
  /\ demands' = [t \in DOMAIN demands \ {s} |-> demands[t]]
  /\ UNCHANGED <<snapshot, link, down, up, breaks>>
=============================================================================
