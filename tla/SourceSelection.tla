--------------------------- MODULE SourceSelection ---------------------------
(***************************************************************************)
(* Which source speaks for one SignalK path.  Several sources on board may *)
(* deliver the same path; each collector keeps the winner of its last      *)
(* selection (selectCanonicalTelemetry of packages/telemetry-source-policy, *)
(* called by enqueueSelectedTelemetry of apps/edge-collector) and forwards *)
(* winners only; the ingest handler selects again, batch by batch, without *)
(* any memory (delta.post.ts).  A primary and a shadow collector may post   *)
(* for the same installation.                                              *)
(*                                                                         *)
(* One path (one group key) is modelled: groups do not interact.  Items    *)
(* dropped as debug-only are left out, and so is the transport: see        *)
(* CollectorBuffer and DeltaIngest.                                        *)
(***************************************************************************)
EXTENDS Integers, SequencesExt

CONSTANTS
  Publishers,  \* the collectors that post for the installation
  Role,        \* their publisherRole: "primary" or "shadow"
  NumSources,  \* how many sources deliver the path, numbered as localeCompare orders them
  Rank,        \* getSourceRank of each, without the role, as a collector computes it
  GateRank,    \* the same as the ingest handler computes it, which is not told `self`
  Window,      \* getPathFreshnessWindowMs of the path
  MaxTime,     \* bound of the model: when the last thing happens
  MaxBatch     \* bound of the model: items for the path in one post

Sources == 1..NumSources

ASSUME SelectionAssumption ==
  /\ NumSources \in Nat \ {0}
  /\ Role \in [Publishers -> {"primary", "shadow"}]
  /\ Rank \in [Sources -> Nat] /\ GateRank \in [Sources -> Nat]
  /\ Window \in Nat /\ MaxBatch \in Nat \ {0}
  /\ MaxTime \in Nat /\ MaxTime > Window

(* The clock starts here, so that 0 is longer ago than any window. *)
Start == Window + 1
Times == Start..MaxTime
Never == 0

VARIABLES
  now,     \* Date.now() of the collectors, which share a clock that never steps back
  sticky,  \* stickyWinners: each collector's last winner; at = Never: none
  batch,   \* the selected items each collector has not posted yet
  row,     \* what the vessel's snapshot shows for the path, and by whom
  won,     \* history: when each source last won at each collector
  heard    \* history: when each collector last received the path

vars == <<now, sticky, batch, row, won, heard>>

Selected == [source : Sources, at : Times]

TypeOK ==
  /\ now \in Nat /\ now >= Start
  /\ sticky \in [Publishers -> [source : Sources, at : Times \cup {Never}]]
  /\ batch \in [Publishers -> Seq(Selected)]
  /\ row \in [role : {"primary", "shadow"}, source : Sources, at : Times \cup {Never}]
  /\ won \in [Publishers -> [Sources -> Times \cup {Never}]]
  /\ heard \in [Publishers -> Times \cup {Never}]

Init ==
  /\ now = Start
  /\ sticky = [p \in Publishers |-> [source |-> 1, at |-> Never]]
  /\ batch = [p \in Publishers |-> <<>>]
  /\ row = [role |-> "primary", source |-> 1, at |-> Never]
  /\ won = [p \in Publishers |-> [s \in Sources |-> Never]]
  /\ heard = [p \in Publishers |-> Never]

-----------------------------------------------------------------------------
(* selectCanonicalTelemetry in a collector: all candidates have its role    *)
(* and the receivedAt of the delta.                                        *)

IsFresh(p) == now - sticky[p].at <= Window
IsSticky(p, s) == IsFresh(p) /\ s = sticky[p].source

(* compareRankedCandidates *)
Precedes(p, s, t) ==
  \/ Rank[s] < Rank[t]
  \/ Rank[s] = Rank[t] /\ (IsSticky(p, s) \/ (~IsSticky(p, t) /\ s <= t))

NoneOfEquals(p, candidates) ==
  IF \E s \in candidates : \A t \in candidates \ {s} : Rank[s] < Rank[t]
    THEN CHOOSE s \in candidates : \A t \in candidates : Precedes(p, s, t)
    ELSE 0
Best(p, candidates) == CHOOSE s \in candidates : \A t \in candidates : Precedes(p, s, t)

(* shouldRetainSticky *)
RetainsOnlyBetter(p, s) == IsFresh(p) /\ Rank[sticky[p].source] < Rank[s]
RetainsForever(p, s) ==
  sticky[p].at # Never /\ s # sticky[p].source /\ Rank[sticky[p].source] <= Rank[s]
Retains(p, s) ==
  /\ IsFresh(p)
  /\ \/ Rank[sticky[p].source] < Rank[s]
     \/ Rank[sticky[p].source] = Rank[s] /\ sticky[p].source # s

(* enqueueSelectedTelemetry and updateStickyWinnerCache for a delta that    *)
(* carries the path from these sources.                                    *)
Receive(p, candidates) ==
  /\ LET s == Best(p, candidates)
     IN \/ /\ Retains(p, s)
           /\ UNCHANGED <<sticky, batch, won>>
        \/ /\ ~Retains(p, s)
           /\ Len(batch[p]) < MaxBatch
           /\ sticky' = [sticky EXCEPT ![p] = [source |-> s, at |-> now]]
           /\ batch' = [batch EXCEPT ![p] = Append(@, [source |-> s, at |-> now])]
           /\ won' = [won EXCEPT ![p][s] = now]
  /\ heard' = [heard EXCEPT ![p] = now]
  /\ UNCHANGED <<now, row>>

-----------------------------------------------------------------------------
(* The safety gate of the ingest handler: compareRankedCandidates without   *)
(* a sticky winner.  All items of a post have the role of its publisher.    *)
FirstOfRank(x, y) ==
  \/ GateRank[x.source] < GateRank[y.source]
  \/ GateRank[x.source] = GateRank[y.source] /\ x.at <= y.at
GatePrecedes(x, y) ==
  \/ GateRank[x.source] < GateRank[y.source]
  \/ GateRank[x.source] = GateRank[y.source] /\ x.at > y.at
  \/ GateRank[x.source] = GateRank[y.source] /\ x.at = y.at /\ x.source <= y.source

GateWinner(items) ==
  CHOOSE x \in Range(items) : \A y \in Range(items) : GatePrecedes(x, y)

(* A post and the row it updates. *)
Post(p) ==
  /\ batch[p] # <<>>
  /\ batch' = [batch EXCEPT ![p] = <<>>]
  /\ LET winner == GateWinner(batch[p])
     IN row' = [role |-> Role[p], source |-> winner.source, at |-> winner.at]
  /\ UNCHANGED <<now, sticky, won, heard>>

Tick ==
  /\ now < MaxTime
  /\ now' = now + 1
  /\ UNCHANGED <<sticky, batch, row, won, heard>>

Next ==
  \/ \E p \in Publishers : \/ \E candidates \in (SUBSET Sources) \ {{}} : Receive(p, candidates)
                           \/ Post(p)
  \/ Tick

Spec == Init /\ [][Next]_vars

-----------------------------------------------------------------------------
(* Properties. *)

(* The selected source does not flap: a source takes a path over only from  *)
(* worse sources and from those that did not win for a whole window, however *)
(* the deltas of all sources interleave.                                   *)
NoFlapping ==
  [][\A p \in Publishers, s, t \in Sources :
       /\ s # t
       /\ won'[p][s] # won[p][s]
       /\ now - won[p][t] <= Window
       => Rank[s] < Rank[t]]_vars

(* Nor does suppression silence a path: while any source delivers it, a     *)
(* value is forwarded at least once per window.                            *)
NeverSilent ==
  \A p \in Publishers :
    heard[p] # Never => \E s \in Sources : heard[p] - won[p][s] <= Window

(* docs/architecture.md:167 "MyBoat re-runs canonical source selection as a *)
(* safety gate": a gate that re-runs the selection finds nothing to undo.   *)
(* Of a batch that spans no more than a window the row takes the value the  *)
(* collector selected last.                                                *)
GateAgrees ==
  [][\A p \in Publishers :
       /\ batch[p] # <<>> /\ batch'[p] = <<>>
       /\ Last(batch[p]).at - Head(batch[p]).at <= Window
       => row'.source = Last(batch[p]).source /\ row'.at = Last(batch[p]).at]_vars

(* apps/edge-collector/README.md:86 "A `shadow` publisher never overrides a *)
(* fresh primary winner".                                                  *)
ShadowNeverOverrides ==
  [][row.role = "primary" /\ row'.role = "shadow" => now - row.at > Window]_vars
=============================================================================
