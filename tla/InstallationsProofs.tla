-------------------------- MODULE InstallationsProofs --------------------------
(***************************************************************************)
(* The properties of Installations hold for any number of requests,         *)
(* vessels, installations and fields.                                       *)
(***************************************************************************)
EXTENDS Installations, WellFoundedInduction, TLAPS

SyncSteps == {"findPrimary", "readObserved", "readPublished", "publish", "unpublish"}

(* What a request has read and keeps to be true: rows are never deleted,    *)
(* and an installation stays with its vessel.                               *)
Shape(x) ==
  /\ x.kind = "none" => x.pc = "idle"
  /\ x.kind = "onboarding" =>
       /\ x.pc \in {"findVessel", "writeProfile", "writeVessel", "findInstallation",
                    "writeInstallation", "done"}
       /\ x.vessel # None => x.vessel \in ExistingVessels
       /\ x.pc \in {"findInstallation", "writeInstallation"} => x.vessel # None
       /\ x.pc = "writeInstallation" /\ x.found # None => x.found \in InstallationsOf(x.vessel)
  /\ x.kind = "primary" => x.pc \in {"demote", "promote", "done"} \cup SyncSteps
  /\ x.kind = "archive" =>
       x.pc \in {"archive", "findFallback", "promoteFallback", "done"} \cup SyncSteps
  /\ x.kind = "ingest" => x.pc \in {"readIdentity", "writeIdentity", "heartbeat", "done"}
                                     \cup SyncSteps
  /\ x.kind \in {"primary", "archive", "ingest"} =>
       x.vessel \in Vessels /\ x.inst \in InstallationsOf(x.vessel)
  /\ x.pc \in {"promoteFallback", "readObserved", "readPublished", "publish"} =>
       x.found \in InstallationsOf(x.vessel)
  /\ x.pc = "promoteFallback" => x.found # x.inst
  /\ x.at <= clock

(* Who runs beside whom: the histories miss nobody.                         *)
Histories ==
  \A q, r \in Requests :
    \/ q = r
    \/ ~Runs(q) \/ ~Runs(r)
    \/ /\ requests[r].met
       /\ requests[q].kind \in Managers /\ requests[r].kind \in Managers =>
            requests[r].metManager
       /\ requests[q].kind = "onboarding" /\ requests[r].kind = "onboarding" => doubled
       /\ /\ requests[q].kind = "ingest" /\ requests[r].kind = "ingest"
          /\ requests[q].inst = requests[r].inst
          => requests[r].inst \in crowded

(* Installations are rows of a vessel; nothing was observed by a later post.*)
Rooted ==
  /\ \A i \in Existing : vesselOf[i] \in ExistingVessels
  /\ \A i \in Ids, f \in Fields : observed[i][f] <= clock

(* The clock never shows 0 again; nothing that was read is of a later post. *)
Recent(identity) == \A f \in Fields : identity[f] <= clock
Dated ==
  \A r \in Requests : (Runs(r) => requests[r].at > 0) /\ Recent(requests[r].seen)

Core == TypeOK /\ (\A r \in Requests : Shape(requests[r])) /\ Histories /\ Rooted /\ Dated

(* A request that changes the flags, without another beside it.             *)
Managing(x) ==
  /\ x.kind = "primary" => x.inst \notin archived
  /\ x.pc = "promote" => InstallationsOf(x.vessel) \cap primary = {}
  /\ x.kind = "primary" /\ x.pc \in SyncSteps \cup {"done"} =>
       InstallationsOf(x.vessel) \cap primary = {x.inst}
  /\ x.kind = "archive" /\ x.pc # "archive" => x.inst \in archived \ primary
  /\ x.pc = "promoteFallback" => x.found \notin archived
  /\ /\ x.kind = "archive" /\ x.pc \in SyncSteps \cup {"done"}
     /\ x.had /\ Unarchived(x.vessel) # {}
     => Primaries(x.vessel) # {}

(* A request that synchronises, alone.                                      *)
Syncing(x) ==
  /\ x.pc \in {"readObserved", "readPublished", "publish"} => x.found \in Primaries(x.vessel)
  /\ x.pc \in {"readPublished", "publish"} => x.seen = observed[x.found] /\ x.seen # Unknown
  /\ x.pc = "publish" => (x.row <=> published[x.vessel] # Unpublished)
  /\ x.pc = "unpublish" =>
       Primaries(x.vessel) = {} \/ \E p \in Primaries(x.vessel) : observed[p] = Unknown
  /\ \/ x.kind \in {"primary", "archive"} /\ x.pc = "done"
     \/ (x.kind = "ingest" /\ x.had /\ x.pc \in {"heartbeat", "done"})
     => Agrees(x.vessel)

(* The only onboarding: what it missed is missing.                          *)
Filing(x) ==
  /\ x.pc \in {"writeProfile", "writeVessel"} /\ x.vessel = None => ExistingVessels = {}
  /\ x.pc = "writeInstallation" /\ x.found = None => Existing \subseteq archived

(* The only ingest of an installation.                                      *)
Ingesting(x) ==
  /\ x.pc \in {"readIdentity", "writeIdentity"} => \A f \in Fields : observed[x.inst][f] <= x.at
  /\ x.pc = "writeIdentity" => x.seen = observed[x.inst]

Own(x) ==
  /\ x.kind \in Managers /\ ~x.metManager => Managing(x)
  /\ x.pc # "idle" /\ ~x.met => Syncing(x)
  /\ x.kind = "onboarding" /\ ~doubled => Filing(x)
  /\ x.kind = "ingest" /\ x.inst \notin crowded => Ingesting(x)

(* One vessel, and one installation that is not archived.                   *)
OneVessel == \A v, w \in ExistingVessels : v = w
Single == ~doubled => OneVessel /\ \A i, j \in Existing \ archived : i = j

(* An onboarding that inserted the profile, and is to insert the vessel.    *)
Fresh(r) == requests[r].pc = "writeVessel" /\ requests[r].vessel = None
First ==
  ~resumed =>
    /\ OneVessel
    /\ ~profile => ExistingVessels = {}
    /\ \A r \in Requests : Fresh(r) => profile /\ ExistingVessels = {}
    /\ \A q, r \in Requests : Fresh(q) /\ Fresh(r) => q = r
    /\ \A r \in Requests :
         requests[r].pc = "writeProfile" /\ requests[r].vessel = None => ~requests[r].had

Inv == Core /\ (\A r \in Requests : Own(requests[r]))
IInv == Inv /\ Single /\ First

-----------------------------------------------------------------------------
(* Tables. *)

WorldType ==
  /\ profile \in BOOLEAN /\ createdAt \in [Vessels -> Times]
  /\ vesselOf \in [Ids -> Vessels \cup {None}]
  /\ primary \subseteq Ids /\ archived \subseteq Ids /\ updatedAt \in [Ids -> Times]
  /\ observed \in [Ids -> Identities]
  /\ published \in [Vessels -> [source : Ids \cup {None}, identity : Identities]]
  /\ clock \in Times
  /\ doubled \in BOOLEAN /\ resumed \in BOOLEAN /\ crowded \subseteq Ids

LEMMA Types == Core => WorldType /\ TypeOK /\ Histories /\ Rooted
BY DEF Core, TypeOK, WorldType

LEMMA UnknownType == Unknown \in Identities /\ 0 \in Times /\ 1 \in Times
BY InstallationsAssumption DEF Unknown, Identities, Times

LEMMA IdleType == Idle \in RequestType
BY UnknownType DEF Idle, RequestType, Kinds, Managers, Steps

(* Of some rows one is the last. *)
LEMMA Latest ==
  ASSUME NEW S, NEW f \in [S -> Times], NEW T, T \subseteq S, T # {}
  PROVE  \E t \in T : \A u \in T : f[u] <= f[t]
<1> DEFINE Less == {pair \in Nat \X Nat : pair[1] < pair[2]}
           Gaps == {gap \in 0..MaxRequests : \E t \in T : MaxRequests - gap = f[t]}
<1>1. IsWellFoundedOn(Less, Nat)
  BY NatLessThanWellFounded, Zenon DEF OpToRel
<1>2. \A y, x \in Nat : y < x => <<y, x>> \in Less
  OBVIOUS
<1> HIDE DEF Less
<1>3. \A t \in T : f[t] \in Times
  OBVIOUS
<1>4. MaxRequests \in Nat /\ Times = 0..MaxRequests
  BY InstallationsAssumption DEF Times
<1>5. \A t \in T : MaxRequests - f[t] \in Gaps
  <2>1. SUFFICES ASSUME NEW t \in T PROVE MaxRequests - f[t] \in Gaps
    OBVIOUS
  <2>2. MaxRequests - f[t] \in 0..MaxRequests /\ MaxRequests - (MaxRequests - f[t]) = f[t]
    BY <1>3, <1>4
  <2>3. QED
    BY <2>2
<1>6. Gaps \subseteq Nat /\ Gaps # {}
  <2>1. Gaps \subseteq Nat
    BY <1>4
  <2>2. PICK t \in T : MaxRequests - f[t] \in Gaps
    BY <1>5
  <2>3. QED
    BY <2>1, <2>2, Zenon
<1>7. PICK least \in Gaps : \A y \in Gaps : <<y, least>> \notin Less
  <2> HIDE DEF Gaps
  <2>1. QED
    BY <1>1, <1>6, WFMin, Zenon
<1>8. \A y \in Gaps : least <= y
  <2>1. \A y \in Gaps : y \in Nat /\ least \in Nat /\ ~(y < least)
    BY <1>2, <1>6, <1>7, Zenon
  <2>2. QED
    BY <2>1
<1>9. PICK t \in T : MaxRequests - least = f[t]
  OBVIOUS
<1>10. \A u \in T : f[u] <= f[t]
  <2>1. SUFFICES ASSUME NEW u \in T PROVE f[u] <= f[t]
    OBVIOUS
  <2>2. least <= MaxRequests - f[u] /\ least \in Nat
    BY <1>5, <1>6, <1>8
  <2>3. QED
    BY <1>3, <1>4, <1>9, <2>2
<1>11. QED
  BY <1>10

LEMMA NewestExists ==
  ASSUME TypeOK, Newest = {}
  PROVE  ExistingVessels = {}
BY Latest DEF TypeOK, Newest, ExistingVessels

LEMMA FallbackExists ==
  ASSUME TypeOK, NEW r \in Requests, Fallbacks(r) = {}
  PROVE  Unarchived(requests[r].vessel) \subseteq {requests[r].inst}
<1> DEFINE others == Unarchived(requests[r].vessel) \ {requests[r].inst}
<1>1. others \subseteq Ids /\ updatedAt \in [Ids -> Times]
  BY DEF TypeOK, Unarchived, InstallationsOf
<1>2. ASSUME others # {}
      PROVE  FALSE
  BY <1>1, <1>2, Latest DEF Fallbacks
<1>3. QED
  BY <1>2

-----------------------------------------------------------------------------
(* What a step of one request leaves to the others. *)

Grown ==
  /\ ExistingVessels \subseteq ExistingVessels'
  /\ \A i \in Existing : vesselOf'[i] = vesselOf[i]

LEMMA ShapeKept ==
  ASSUME NEW x \in RequestType, Shape(x), Grown, clock' >= clock, clock \in Int, clock' \in Int
  PROVE  Shape(x)'
<1>1. x.at \in Int
  BY InstallationsAssumption DEF RequestType, Times
<1>2. \A i \in Ids : x.vessel \in Vessels /\ i \in InstallationsOf(x.vessel) =>
        i \in InstallationsOf(x.vessel)'
  BY InstallationsAssumption DEF Grown, InstallationsOf, Existing
<1>3. \A i : i \in InstallationsOf(x.vessel) => i \in Ids
  BY DEF InstallationsOf
<1>4. x.vessel \in Vessels \/ x.vessel = None
  BY DEF RequestType
<1>5. x.at <= clock'
  BY <1>1 DEF Shape
<1>6. x.pc \in {"promoteFallback", "readObserved", "readPublished", "publish"} =>
        x.kind \in {"primary", "archive", "ingest"}
  BY DEF Shape, RequestType, Kinds, Managers
<1>7. x.vessel \in ExistingVessels => x.vessel \in ExistingVessels'
  BY DEF Grown
<1>8. x.kind = "onboarding" /\ x.pc = "writeInstallation" /\ x.found # None =>
        x.vessel \in Vessels /\ x.found \in InstallationsOf(x.vessel)'
  BY <1>2, <1>3, <1>4 DEF Shape
<1>9. x.kind \in {"primary", "archive", "ingest"} => x.inst \in InstallationsOf(x.vessel)'
  BY <1>2, <1>3 DEF Shape
<1>10. x.pc \in {"promoteFallback", "readObserved", "readPublished", "publish"} =>
         x.found \in InstallationsOf(x.vessel)'
  BY <1>2, <1>3, <1>6 DEF Shape
<1>11. QED
  BY <1>5, <1>7, <1>8, <1>9, <1>10 DEF Shape

(* A step of one request, as all the others see it: whatever it changes of  *)
(* what another relies on, the histories know of the two.                   *)
LEMMA Others ==
  ASSUME Inv, NEW q \in Requests, NEW r \in Requests, q # r, Runs(r),
         requests'[q] = requests[q],
         clock' = clock, doubled' = doubled, crowded' = crowded, Grown,
         \/ UNCHANGED <<vesselOf, primary, archived>>
         \/ requests[r].kind \in Managers,
         \/ createdAt' = createdAt /\ vesselOf' = vesselOf /\ archived \subseteq archived'
         \/ requests[r].kind = "onboarding",
         \A i \in Ids : observed'[i] = observed[i]
                        \/ (requests[r].kind = "ingest" /\ requests[r].inst = i)
  PROVE  Shape(requests[q])' /\ Own(requests[q])'
<1>1. PICK x : x = requests[q]
  OBVIOUS
<1>2. x \in RequestType /\ Shape(x) /\ Own(x) /\ clock \in Int
  BY <1>1, InstallationsAssumption DEF Inv, Core, TypeOK, Times
<1>3. Shape(x)'
  BY <1>2, ShapeKept
<1>4. x.pc # "idle" =>
        /\ x.met
        /\ x.kind \in Managers /\ requests[r].kind \in Managers => x.metManager
        /\ x.kind = "onboarding" /\ requests[r].kind = "onboarding" => doubled
        /\ /\ x.kind = "ingest" /\ requests[r].kind = "ingest" /\ requests[r].inst = x.inst
           => x.inst \in crowded
  BY <1>1 DEF Inv, Core, Histories, Runs
<1>5. x.pc = "idle" => x.kind = "none"
  BY <1>2 DEF Shape, RequestType, Kinds, Managers, SyncSteps
<1>6. x.kind \in Managers /\ ~x.metManager => Managing(x)'
  <2>1. SUFFICES ASSUME x.kind \in Managers, ~x.metManager PROVE Managing(x)'
    OBVIOUS
  <2>2. UNCHANGED <<vesselOf, primary, archived>> /\ Managing(x)
    BY <1>2, <1>4, <1>5, <2>1 DEF Own, Managers
  <2>3. QED
    BY <2>2 DEF Managing, InstallationsOf, Unarchived, Primaries
<1>7. x.kind = "onboarding" /\ ~doubled' => Filing(x)'
  <2>1. SUFFICES ASSUME x.kind = "onboarding", ~doubled PROVE Filing(x)'
    OBVIOUS
  <2>2. createdAt' = createdAt /\ vesselOf' = vesselOf /\ archived \subseteq archived' /\ Filing(x)
    BY <1>2, <1>4, <1>5, <2>1 DEF Own
  <2>3. QED
    BY <2>2 DEF Filing, ExistingVessels, Existing
<1>8. x.kind = "ingest" /\ x.inst \notin crowded' => Ingesting(x)'
  <2>1. SUFFICES ASSUME x.kind = "ingest", x.inst \notin crowded PROVE Ingesting(x)'
    OBVIOUS
  <2>2. x.inst \in Ids /\ Ingesting(x)
    BY <1>2, <2>1 DEF Own, Shape, InstallationsOf
  <2>3. observed'[x.inst] = observed[x.inst]
    BY <1>4, <1>5, <2>1, <2>2
  <2>4. QED
    BY <2>2, <2>3 DEF Ingesting
<1>9. Own(x)'
  BY <1>4, <1>6, <1>7, <1>8 DEF Own
<1>10. QED
  BY <1>1, <1>3, <1>9

LEMMA Moves ==
  ASSUME Inv, NEW r \in Requests, Runs(r),
         requests' \in [Requests -> RequestType],
         \A q \in Requests : q # r => requests'[q] = requests[q],
         \/ requests'[r] = Idle
         \/ /\ requests'[r].kind = requests[r].kind
            /\ requests'[r].inst = requests[r].inst
            /\ requests'[r].at = requests[r].at
            /\ requests'[r].seen = requests[r].seen \/ Recent(requests'[r].seen)
            /\ requests'[r].met = requests[r].met
            /\ requests'[r].metManager = requests[r].metManager,
         WorldType', Rooted', Grown, Shape(requests[r])', Own(requests[r])',
         clock' = clock, doubled' = doubled, crowded' = crowded,
         \/ UNCHANGED <<vesselOf, primary, archived>>
         \/ requests[r].kind \in Managers,
         \/ createdAt' = createdAt /\ vesselOf' = vesselOf /\ archived \subseteq archived'
         \/ requests[r].kind = "onboarding",
         \A i \in Ids : observed'[i] = observed[i]
                        \/ (requests[r].kind = "ingest" /\ requests[r].inst = i)
  PROVE  Inv'
<1>1. TypeOK'
  BY DEF TypeOK, WorldType
<1>2. \A q \in Requests : Shape(requests[q])' /\ Own(requests[q])'
  <2>1. SUFFICES ASSUME NEW q \in Requests PROVE Shape(requests[q])' /\ Own(requests[q])'
    OBVIOUS
  <2>2. CASE q = r
    BY <2>2
  <2>3. CASE q # r
    BY <2>3, Others
  <2>4. QED
    BY <2>2, <2>3
<1>3. Histories'
  <2>1. SUFFICES ASSUME NEW p \in Requests, NEW q \in Requests, p # q,
                        requests'[p].pc # "idle", requests'[q].pc # "idle"
                 PROVE  /\ requests'[q].met
                        /\ requests'[p].kind \in Managers /\ requests'[q].kind \in Managers =>
                             requests'[q].metManager
                        /\ requests'[p].kind = "onboarding" /\ requests'[q].kind = "onboarding"
                             => doubled
                        /\ /\ requests'[p].kind = "ingest" /\ requests'[q].kind = "ingest"
                           /\ requests'[p].inst = requests'[q].inst
                           => requests'[q].inst \in crowded
    BY Zenon DEF Histories, Runs
  <2>2. \A s \in {p, q} : /\ requests[s].pc # "idle"
                          /\ requests'[s].kind = requests[s].kind
                          /\ requests'[s].inst = requests[s].inst
                          /\ requests'[s].met = requests[s].met
                          /\ requests'[s].metManager = requests[s].metManager
    BY <2>1 DEF Runs, Idle
  <2>3. QED
    BY <2>1, <2>2 DEF Inv, Core, Histories, Runs
<1>4. Dated'
  <2>1. clock \in Int /\ 0 <= clock
    BY InstallationsAssumption DEF Inv, Core, TypeOK, Times
  <2>2. Recent(Unknown)
    BY <2>1 DEF Recent, Unknown
  <2>3. /\ requests'[r].pc # "idle" => requests'[r].at > 0
        /\ Recent(requests'[r].seen)
    BY <2>2 DEF Inv, Core, Dated, Runs, Idle
  <2>4. \A q \in Requests : /\ requests'[q].pc # "idle" => requests'[q].at > 0
                            /\ Recent(requests'[q].seen)
    BY <2>3 DEF Inv, Core, Dated, Runs
  <2>5. QED
    BY <2>4 DEF Dated, Runs, Recent
<1>5. QED
  BY <1>1, <1>2, <1>3, <1>4 DEF Inv, Core

(* A request begins: it and all that run meet each other.                   *)
LEMMA Begins ==
  ASSUME Inv, NEW r \in Requests, NEW x \in RequestType, Begin(r, x),
         UNCHANGED <<captain, installations, identities, resumed>>,
         Shape(x), x.seen = Unknown,
         \/ x.kind = "onboarding" /\ x.pc = "findVessel"
         \/ x.kind = "primary" /\ x.pc = "demote" /\ x.inst \notin archived
         \/ x.kind = "archive" /\ x.pc = "archive"
         \/ x.kind = "ingest" /\ x.pc = "readIdentity",
         doubled' \in BOOLEAN, doubled => doubled',
         (x.kind = "onboarding" /\ \E q \in Requests : requests[q].kind = "onboarding") => doubled',
         crowded' \subseteq Ids, crowded \subseteq crowded',
         (/\ x.kind = "ingest"
          /\ \E q \in Requests : requests[q].kind = "ingest" /\ requests[q].inst = x.inst)
         => x.inst \in crowded'
  PROVE  Inv'
<1> DEFINE new == [x EXCEPT !.at = clock + 1,
                            !.met = \E p \in Requests : Runs(p),
                            !.metManager = \E p \in Requests : requests[p].kind \in Managers]
           meets(q) == [requests[q] EXCEPT !.met = TRUE,
                                           !.metManager = @ \/ x.kind \in Managers]
<1>1. clock \in Times /\ clock' = clock + 1 /\ clock' \in Times /\ clock \in Int /\ clock' \in Int
  <2>1. clock \in Times /\ clock < MaxRequests /\ clock' = clock + 1
    BY DEF Inv, Core, TypeOK, Begin
  <2>2. QED
    BY <2>1, InstallationsAssumption DEF Times
<1>2. /\ ~Runs(r)
      /\ requests'[r] = new
      /\ \A q \in Requests : q # r /\ Runs(q) => requests'[q] = meets(q)
      /\ \A q \in Requests : q # r /\ ~Runs(q) => requests'[q] = requests[q]
      /\ requests' = [q \in Requests |-> requests'[q]]
  <2>1. ~Runs(r) /\ requests' = [q \in Requests |-> IF q = r THEN new
                                  ELSE IF Runs(q) THEN meets(q) ELSE requests[q]]
    BY Zenon DEF Begin
  <2> HIDE DEF new, meets
  <2>2. QED
    BY <2>1
<1>3. \A q \in Requests : requests[q] \in RequestType /\ Shape(requests[q]) /\ Own(requests[q])
  BY DEF Inv, Core, TypeOK
<1>4. new \in RequestType /\ new.kind = x.kind /\ new.pc = x.pc /\ new.inst = x.inst
      /\ new.at = clock + 1 /\ new.seen = x.seen /\ new.vessel = x.vessel
      /\ new.found = x.found /\ new.had = x.had
      /\ (new.met <=> \E p \in Requests : Runs(p))
      /\ (new.metManager <=> \E p \in Requests : requests[p].kind \in Managers)
  <2>1. PICK met : met = \E p \in Requests : Runs(p)
    OBVIOUS
  <2>2. PICK metManager : metManager = \E p \in Requests : requests[p].kind \in Managers
    OBVIOUS
  <2>3. new = [x EXCEPT !.at = clock', !.met = met, !.metManager = metManager]
    BY <1>1, <2>1, <2>2
  <2>4. met \in BOOLEAN /\ metManager \in BOOLEAN
    BY <2>1, <2>2
  <2>5. QED
    BY <1>1, <2>1, <2>2, <2>3, <2>4, ZenonT(40) DEF RequestType
<1>5. PICK z : z = new
  OBVIOUS
<1>6. /\ z \in RequestType /\ requests'[r] = z /\ z.kind = x.kind /\ z.pc = x.pc /\ z.inst = x.inst
      /\ z.vessel = x.vessel /\ z.at = clock + 1 /\ z.at = clock' /\ z.seen = Unknown
      /\ z.met <=> \E p \in Requests : Runs(p)
      /\ z.metManager <=> \E p \in Requests : requests[p].kind \in Managers
  BY <1>1, <1>2, <1>4, <1>5
<1> HIDE DEF new, meets
<1>7. Grown /\ Rooted'
  <2>1. Rooted /\ observed \in [Ids -> [Fields -> Times]]
    BY DEF Inv, Core, TypeOK, Identities
  <2>2. \A i \in Ids, f \in Fields : observed[i][f] <= clock /\ observed[i][f] \in Int
    BY <2>1, InstallationsAssumption DEF Rooted, Times
  <2>3. \A i \in Ids, f \in Fields : observed'[i][f] <= clock'
    BY <1>1, <2>2 DEF identities
  <2>4. QED
    BY <2>1, <2>3 DEF Rooted, Grown, captain, installations, ExistingVessels, Existing
<1>8. Shape(z)'
  <2>1. PICK y : y = x
    OBVIOUS
  <2>2. Shape(y)'
    BY <1>1, <1>7, <2>1, ShapeKept
  <2>3. z.pc \notin {"promoteFallback", "readObserved", "readPublished", "publish",
                    "findInstallation", "writeInstallation", "idle"}
    BY <1>6
  <2>4. z.kind = "onboarding" => z.pc = "findVessel"
    BY <1>6
  <2>5. z.at <= clock'
    BY <1>1, <1>6
  <2>6. QED
    BY <1>6, <2>1, <2>2, <2>3, <2>4, <2>5 DEF Shape
<1>9. Own(z)'
  <2>1. z.pc \notin SyncSteps \cup {"done", "heartbeat", "promote", "promoteFallback",
                                     "writeProfile", "writeVessel", "writeInstallation"}
    BY <1>6 DEF SyncSteps
  <2>2. Managing(z)'
    BY <1>6, <2>1 DEF Managing, SyncSteps, installations
  <2>3. Syncing(z)'
    BY <2>1 DEF Syncing, SyncSteps
  <2>4. Filing(z)'
    BY <2>1 DEF Filing
  <2>5. z.kind = "ingest" => Ingesting(z)'
    <3>1. SUFFICES ASSUME z.kind = "ingest", NEW f \in Fields PROVE observed'[z.inst][f] <= z.at
      BY <1>6, <2>1 DEF Ingesting
    <3>2. z.inst \in Ids
      BY <1>8, <3>1 DEF Shape, InstallationsOf
    <3>3. QED
      BY <1>6, <1>7, <3>2 DEF Rooted
  <2>6. QED
    BY <2>2, <2>3, <2>4, <2>5 DEF Own
<1>10. ASSUME NEW q \in Requests, q # r, Runs(q), NEW y, y = meets(q)
       PROVE  /\ y \in RequestType /\ requests'[q] = y
              /\ y.met /\ y.kind = requests[q].kind /\ y.inst = requests[q].inst
              /\ y.pc = requests[q].pc
              /\ y.metManager <=> (requests[q].metManager \/ x.kind \in Managers)
              /\ Shape(y) /\ Shape(y)' /\ Own(y)'
  <2>1. PICK o : o = requests[q]
    OBVIOUS
  <2>2. o \in RequestType /\ Shape(o) /\ Own(o)
    BY <1>3, <2>1
  <2>3. y = [o EXCEPT !.met = TRUE, !.metManager = @ \/ x.kind \in Managers]
    BY <1>10, <2>1 DEF meets
  <2>4. /\ y.kind = o.kind /\ y.pc = o.pc /\ y.at = o.at /\ y.vessel = o.vessel
        /\ y.inst = o.inst /\ y.found = o.found /\ y.seen = o.seen /\ y.had = o.had
        /\ y.row = o.row /\ y.met /\ (y.metManager <=> (o.metManager \/ x.kind \in Managers))
        /\ y \in RequestType
    BY <2>2, <2>3, Zenon DEF RequestType
  <2>5. Shape(y)
    BY <2>2, <2>4 DEF Shape
  <2>6. Shape(y)'
    BY <1>1, <1>7, <2>4, <2>5, ShapeKept
  <2>7. y.kind \in Managers /\ ~y.metManager => Managing(y)'
    <3>1. SUFFICES ASSUME o.kind \in Managers, ~o.metManager PROVE Managing(y)'
      BY <2>4
    <3>2. Managing(o)
      BY <2>2, <3>1 DEF Own
    <3>3. Managing(y)
      BY <2>4, <3>2 DEF Managing
    <3>4. QED
      BY <3>3 DEF Managing, installations, InstallationsOf, Unarchived, Primaries
  <2>8. y.kind = "onboarding" /\ ~doubled' => Filing(y)'
    <3>1. SUFFICES ASSUME o.kind = "onboarding", ~doubled PROVE Filing(y)'
      BY <2>4
    <3>2. Filing(o)
      BY <2>2, <3>1 DEF Own
    <3>3. QED
      BY <2>4, <3>2 DEF Filing, installations, captain, ExistingVessels, Existing
  <2>9. y.kind = "ingest" /\ y.inst \notin crowded' => Ingesting(y)'
    <3>1. SUFFICES ASSUME o.kind = "ingest", o.inst \notin crowded PROVE Ingesting(y)'
      BY <2>4
    <3>2. Ingesting(o)
      BY <2>2, <3>1 DEF Own
    <3>3. QED
      BY <2>4, <3>2 DEF Ingesting, identities
  <2>10. Own(y)'
    BY <2>4, <2>7, <2>8, <2>9 DEF Own
  <2>11. requests'[q] = y
    BY <1>2, <1>10
  <2>12. QED
    BY <2>1, <2>4, <2>5, <2>6, <2>10, <2>11
<1>11. ASSUME NEW q \in Requests, q # r, ~Runs(q)
       PROVE  requests'[q] \in RequestType /\ Shape(requests[q])' /\ Own(requests[q])'
              /\ requests'[q] = requests[q]
  <2>1. PICK o : o = requests[q]
    OBVIOUS
  <2>2. o \in RequestType /\ Shape(o) /\ Own(o) /\ requests'[q] = o /\ o.pc = "idle"
    BY <1>2, <1>3, <1>11, <2>1 DEF Runs
  <2>3. Shape(o)' /\ o.kind = "none"
    BY <1>1, <1>7, <2>2, ShapeKept DEF Shape, RequestType, Kinds, Managers, SyncSteps
  <2>4. Own(o)'
    BY <2>2, <2>3 DEF Own, Managers
  <2>5. QED
    BY <2>1, <2>2, <2>3, <2>4
<1>12. TypeOK'
  <2>1. requests' \in [Requests -> RequestType]
    <3>1. \A q \in Requests : requests'[q] \in RequestType
      <4>1. SUFFICES ASSUME NEW q \in Requests PROVE requests'[q] \in RequestType
        OBVIOUS
      <4>2. QED
        BY <1>6, <1>10, <1>11
    <3>2. requests' = [q \in Requests |-> requests'[q]]
      BY <1>2, Zenon
    <3>3. QED
      BY <3>1, <3>2
  <2>2. QED
    BY <1>1, <2>1 DEF Inv, Core, TypeOK, captain, installations, identities
<1>13. \A q \in Requests : Shape(requests[q])' /\ Own(requests[q])'
  <2>1. SUFFICES ASSUME NEW q \in Requests PROVE Shape(requests[q])' /\ Own(requests[q])'
    OBVIOUS
  <2>2. CASE q = r
    BY <1>6, <1>8, <1>9, <2>2
  <2>3. CASE q # r /\ Runs(q)
    BY <1>10, <2>3
  <2>4. CASE q # r /\ ~Runs(q)
    BY <1>11, <2>4
  <2>5. QED
    BY <2>2, <2>3, <2>4
<1>14. Histories'
  <2>1. SUFFICES ASSUME NEW p \in Requests, NEW q \in Requests, p # q,
                        requests'[p].pc # "idle", requests'[q].pc # "idle"
                 PROVE  /\ requests'[q].met
                        /\ requests'[p].kind \in Managers /\ requests'[q].kind \in Managers =>
                             requests'[q].metManager
                        /\ requests'[p].kind = "onboarding" /\ requests'[q].kind = "onboarding"
                             => doubled'
                        /\ /\ requests'[p].kind = "ingest" /\ requests'[q].kind = "ingest"
                           /\ requests'[p].inst = requests'[q].inst
                           => requests'[q].inst \in crowded'
    BY Zenon DEF Histories, Runs
  <2>2. \A s \in {p, q} : s # r =>
          /\ Runs(s) /\ requests[s].pc # "idle"
          /\ requests'[s].kind = requests[s].kind
          /\ requests'[s].inst = requests[s].inst
          /\ requests'[s].met
          /\ requests'[s].metManager <=> (requests[s].metManager \/ x.kind \in Managers)
    <3>1. SUFFICES ASSUME NEW s \in Requests, s # r, requests'[s].pc # "idle"
                   PROVE  /\ Runs(s)
                          /\ requests'[s].kind = requests[s].kind
                          /\ requests'[s].inst = requests[s].inst
                          /\ requests'[s].met
                          /\ requests'[s].metManager <=>
                               (requests[s].metManager \/ x.kind \in Managers)
      BY <2>1 DEF Runs
    <3>2. Runs(s)
      BY <1>11, <3>1 DEF Runs
    <3>3. PICK y : y = meets(s)
      OBVIOUS
    <3>4. QED
      BY <1>10, <3>1, <3>2, <3>3
  <2>3. CASE q = r
    <3>1. p # r /\ Runs(p) /\ requests'[p].kind = requests[p].kind
          /\ requests'[p].inst = requests[p].inst
      BY <2>1, <2>2, <2>3
    <3>2. z.met /\ (requests[p].kind \in Managers => z.metManager)
      BY <1>6, <3>1
    <3>3. requests[p].kind = "onboarding" /\ x.kind = "onboarding" => doubled'
      OBVIOUS
    <3>4. (/\ requests[p].kind = "ingest" /\ x.kind = "ingest"
           /\ requests[p].inst = x.inst) => x.inst \in crowded'
      OBVIOUS
    <3>5. QED
      BY <1>6, <2>3, <3>1, <3>2, <3>3, <3>4
  <2>4. CASE p = r
    BY <1>6, <2>1, <2>2, <2>4
  <2>5. CASE p # r /\ q # r
    BY <2>1, <2>2, <2>5 DEF Inv, Core, Histories, Runs
  <2>6. QED
    BY <2>3, <2>4, <2>5
<1>15. Dated'
  <2>1. SUFFICES ASSUME NEW q \in Requests
                 PROVE  /\ requests'[q].pc # "idle" => requests'[q].at > 0
                        /\ \A f \in Fields : requests'[q].seen[f] <= clock'
    BY DEF Dated, Runs, Recent
  <2>2. CASE q = r
    <3>1. \A f \in Fields : z.seen[f] <= clock'
      BY <1>1, <1>6, InstallationsAssumption DEF Times, Unknown
    <3>2. QED
      BY <1>1, <1>6, <2>2, <3>1, InstallationsAssumption DEF Times
  <2>3. CASE q # r
    <3>1. requests'[q].seen = requests[q].seen /\ requests'[q].at = requests[q].at
          /\ (requests'[q].pc # "idle" => Runs(q))
      <4>1. PICK y : y = meets(q)
        OBVIOUS
      <4>2. y.seen = requests[q].seen /\ y.at = requests[q].at
        BY <1>3, <4>1 DEF meets, RequestType
      <4>3. QED
        BY <1>10, <1>11, <2>3, <4>1, <4>2 DEF Runs
    <3>2. \A f \in Fields : requests[q].seen[f] \in Int /\ requests[q].seen[f] <= clock
      BY <1>3, InstallationsAssumption DEF RequestType, Identities, Times, Inv, Core, Dated, Recent
    <3>3. \A f \in Fields : requests[q].seen[f] <= clock'
      BY <1>1, <3>2
    <3>4. QED
      BY <3>1, <3>3 DEF Inv, Core, Dated
  <2>4. QED
    BY <2>2, <2>3
<1>16. QED
  BY <1>7, <1>12, <1>13, <1>14, <1>15 DEF Inv, Core

-----------------------------------------------------------------------------
(* The two forms of a step: of its request only, and of a table too.        *)

LEMMA Request ==
  ASSUME Inv, NEW r \in Requests
  PROVE  /\ requests[r] \in RequestType /\ Shape(requests[r]) /\ Own(requests[r])
         /\ WorldType /\ Rooted
         /\ requests \in [Requests -> RequestType]
BY DEF Inv, Core, TypeOK, WorldType

(* A step that leaves the profile and the vessels alone, and at which no    *)
(* request comes closer to writing them.                                    *)
Elsewhere ==
  \A q \in Requests : requests'[q].pc \in {"writeProfile", "writeVessel"} =>
    /\ requests'[q].pc = requests[q].pc /\ requests'[q].vessel = requests[q].vessel
    /\ requests'[q].had = requests[q].had

LEMMA BeginsElsewhere ==
  ASSUME Inv, NEW r \in Requests, NEW x \in RequestType, Begin(r, x),
         x.pc \notin {"writeProfile", "writeVessel"}
  PROVE  Elsewhere
<1> DEFINE new == [x EXCEPT !.at = clock + 1,
                            !.met = \E p \in Requests : Runs(p),
                            !.metManager = \E p \in Requests : requests[p].kind \in Managers]
           meets(q) == [requests[q] EXCEPT !.met = TRUE,
                                           !.metManager = @ \/ x.kind \in Managers]
<1>1. requests' = [q \in Requests |-> IF q = r THEN new
                                      ELSE IF Runs(q) THEN meets(q) ELSE requests[q]]
  BY Zenon DEF Begin
<1>2. new.pc = x.pc
  BY DEF RequestType
<1>3. \A q \in Requests : meets(q).pc = requests[q].pc /\ meets(q).vessel = requests[q].vessel
                          /\ meets(q).had = requests[q].had
  BY Request DEF RequestType
<1> HIDE DEF new, meets
<1>4. QED
  BY <1>1, <1>2, <1>3 DEF Elsewhere

LEMMA Step ==
  ASSUME Inv, NEW r \in Requests, Runs(r), NEW y \in RequestType,
         requests' = [requests EXCEPT ![r] = y],
         \/ y = Idle
         \/ /\ y.kind = requests[r].kind /\ y.inst = requests[r].inst /\ y.at = requests[r].at
            /\ (y.seen = requests[r].seen \/ Recent(y.seen))
            /\ y.met = requests[r].met /\ y.metManager = requests[r].metManager,
         WorldType', Rooted', Grown, Shape(y)', Own(y)',
         clock' = clock, doubled' = doubled, crowded' = crowded,
         \/ UNCHANGED <<vesselOf, primary, archived>>
         \/ requests[r].kind \in Managers,
         \/ createdAt' = createdAt /\ vesselOf' = vesselOf /\ archived \subseteq archived'
         \/ requests[r].kind = "onboarding",
         \A i \in Ids : observed'[i] = observed[i]
                        \/ (requests[r].kind = "ingest" /\ requests[r].inst = i)
  PROVE  Inv'
<1>1. requests \in [Requests -> RequestType]
  BY Request
<1>2. /\ requests' \in [Requests -> RequestType]
      /\ requests'[r] = y
      /\ \A q \in Requests : q # r => requests'[q] = requests[q]
  BY <1>1
<1>3. Shape(requests[r])' /\ Own(requests[r])'
  BY <1>2
<1>4. QED
  BY <1>2, <1>3, Moves

LEMMA IdleSafe == Inv => Shape(Idle) /\ Own(Idle)
<1>1. Inv => clock \in Int /\ 0 <= clock
  BY InstallationsAssumption DEF Inv, Core, TypeOK, Times
<1>2. QED
  BY <1>1 DEF Idle, Shape, Own, Managers

LEMMA Quiet ==
  ASSUME Inv, NEW r \in Requests, Runs(r), NEW y \in RequestType,
         requests' = [requests EXCEPT ![r] = y],
         \/ y = Idle
         \/ /\ y.kind = requests[r].kind /\ y.inst = requests[r].inst /\ y.at = requests[r].at
            /\ (y.seen = requests[r].seen \/ Recent(y.seen))
            /\ y.met = requests[r].met /\ y.metManager = requests[r].metManager
            /\ Shape(y) /\ Own(y),
         UNCHANGED <<createdAt, vesselOf, primary, archived, identities, clock, doubled, crowded>>,
         profile' \in BOOLEAN, resumed' \in BOOLEAN, updatedAt' \in [Ids -> Times]
  PROVE  Inv'
<1>1. WorldType' /\ Rooted'
  BY Request DEF WorldType, Rooted, Existing, ExistingVessels, identities
<1>2. Grown
  BY DEF Grown, ExistingVessels
<1>3. Shape(y) /\ Own(y)
  BY IdleSafe
<1>4. Shape(y)'
  BY <1>3 DEF Shape, ExistingVessels, InstallationsOf
<1>5. Own(y)'
  BY <1>3 DEF Own, Managing, Syncing, Filing, Ingesting, Agrees, ExistingVessels, Existing,
              InstallationsOf, Primaries, Unarchived, identities
<1>6. QED
  BY <1>1, <1>2, <1>4, <1>5, Step DEF identities

LEMMA Ends ==
  ASSUME Inv, NEW r \in Requests, Runs(r), EndRequest(r),
         UNCHANGED <<createdAt, vesselOf, primary, archived, identities, clock, doubled, crowded>>,
         profile' \in BOOLEAN, resumed' \in BOOLEAN, updatedAt' \in [Ids -> Times]
  PROVE  Inv'
BY IdleType, Quiet DEF EndRequest

(* The fields of a record after a step that sets a few of them. *)
LEMMA PcSet ==
  ASSUME Inv, NEW r \in Requests, NEW step \in Steps, NEW y,
         y = [requests[r] EXCEPT !.pc = step]
  PROVE  /\ y \in RequestType
         /\ y.pc = step
         /\ y.kind = requests[r].kind /\ y.inst = requests[r].inst
         /\ y.met = requests[r].met /\ y.metManager = requests[r].metManager
         /\ y.at = requests[r].at /\ y.vessel = requests[r].vessel
         /\ y.found = requests[r].found /\ y.had = requests[r].had
         /\ y.row = requests[r].row /\ y.seen = requests[r].seen
         /\ y.patch = requests[r].patch
BY Request DEF RequestType

LEMMA FinishKeeps ==
  ASSUME Inv, NEW r \in Requests, Finish(r) \/ Fail(r)
  PROVE  Inv'
<1>1. Runs(r) /\ EndRequest(r)
  BY DEF Finish, Fail, Runs
<1>2. UNCHANGED <<createdAt, vesselOf, primary, archived, identities, clock, doubled, crowded>>
      /\ profile' \in BOOLEAN /\ resumed' \in BOOLEAN /\ updatedAt' \in [Ids -> Times]
  BY Request DEF Finish, Fail, captain, installations, history, WorldType
<1>3. QED
  BY <1>1, <1>2, Ends

-----------------------------------------------------------------------------
(* Onboarding. *)

LEMMA BeginOnboardingKeeps ==
  ASSUME Inv, NEW r \in Requests, BeginOnboarding(r)
  PROVE  Inv' /\ Elsewhere
<1> DEFINE x == [Idle EXCEPT !.kind = "onboarding", !.pc = "findVessel", !.had = profile]
<1>1. PICK z : z = x
  OBVIOUS
<1>2. profile \in BOOLEAN /\ doubled \in BOOLEAN /\ crowded \subseteq Ids /\ clock \in Int /\ 0 <= clock
  BY Request, InstallationsAssumption DEF WorldType, Times
<1>3. z \in RequestType /\ z.kind = "onboarding" /\ z.pc = "findVessel" /\ z.vessel = None
      /\ z.found = None /\ z.at = 0 /\ z.seen = Unknown
  BY <1>1, <1>2, UnknownType DEF Idle, RequestType, Kinds, Managers, Steps
<1>4. Begin(r, z)
  BY <1>1, Zenon DEF BeginOnboarding
<1>5. Shape(z)
  BY <1>2, <1>3 DEF Shape
<1>6. /\ UNCHANGED <<captain, installations, identities, resumed>>
      /\ crowded' = crowded
      /\ doubled' = (doubled \/ \E q \in Requests : requests[q].kind = "onboarding")
  BY DEF BeginOnboarding
<1>7. QED
  <2> HIDE DEF x
  <2>1. doubled' \in BOOLEAN
    BY <1>2, <1>6
  <2>2. QED
    BY <1>2, <1>3, <1>4, <1>5, <1>6, <2>1, Begins, BeginsElsewhere

LEMMA Onboards ==
  ASSUME Inv, NEW r \in Requests,
         requests[r].pc \in {"findVessel", "writeProfile", "writeVessel", "findInstallation",
                             "writeInstallation"}
  PROVE  Runs(r) /\ requests[r].kind = "onboarding" /\ requests[r].kind \in Managers
BY Request DEF Shape, RequestType, Kinds, Managers, SyncSteps, Runs

(* What Own asks of a request that files a form. *)
LEMMA OwnFiling ==
  ASSUME NEW y, y.kind = "onboarding",
         y.pc \in {"findVessel", "writeProfile", "writeVessel", "findInstallation",
                   "writeInstallation", "done"}
  PROVE  (~doubled => Filing(y)) <=> Own(y)
BY DEF Own, Managing, Syncing, SyncSteps

LEMMA FindVesselKeeps ==
  ASSUME Inv, NEW r \in Requests, FindVessel(r)
  PROVE  Inv'
<1>1. Runs(r) /\ requests[r].kind = "onboarding" /\ requests[r].pc = "findVessel"
  BY Onboards DEF FindVessel
<1>2. PICK v \in IF Newest = {} THEN {None} ELSE Newest :
        /\ requests' = [requests EXCEPT ![r].pc = "writeProfile", ![r].vessel = v]
        /\ resumed' = (resumed \/ (v = None /\ requests[r].had))
  BY DEF FindVessel
<1>3. /\ v = None \/ v \in ExistingVessels
      /\ v = None => ExistingVessels = {}
  BY NewestExists, InstallationsAssumption, <1>2 DEF Inv, Core, Newest, ExistingVessels
<1>4. PICK y : y = [requests[r] EXCEPT !.pc = "writeProfile", !.vessel = v]
  OBVIOUS
<1>5. /\ y \in RequestType /\ y.pc = "writeProfile" /\ y.vessel = v
      /\ y.kind = "onboarding" /\ y.kind = requests[r].kind /\ y.inst = requests[r].inst
      /\ y.met = requests[r].met /\ y.metManager = requests[r].metManager
      /\ y.at = requests[r].at /\ y.seen = requests[r].seen
  <2>1. v \in Vessels \cup {None}
    BY <1>3 DEF ExistingVessels
  <2>2. PICK w \in Vessels \cup {None} : w = v
    BY <2>1
  <2>3. PICK x \in RequestType : x = requests[r]
    BY Request
  <2>4. y = [x EXCEPT !.pc = "writeProfile", !.vessel = w] /\ x.kind = "onboarding"
    BY <1>1, <1>4, <2>2, <2>3
  <2>5. y \in RequestType
    BY <2>4 DEF RequestType, Steps
  <2>6. QED
    BY <1>1, <2>2, <2>3, <2>4, <2>5 DEF RequestType
<1>6. Shape(y)
  BY <1>3, <1>5, Request DEF Shape
<1>7. Own(y)
  BY <1>3, <1>5, OwnFiling DEF Filing
<1>8. requests' = [requests EXCEPT ![r] = y]
  BY <1>2, <1>4, Request
<1>9. UNCHANGED <<createdAt, vesselOf, primary, archived, identities, clock, doubled, crowded>>
      /\ profile' \in BOOLEAN /\ resumed' \in BOOLEAN /\ updatedAt' \in [Ids -> Times]
  BY <1>2, Request, <1>5 DEF FindVessel, captain, installations, WorldType, RequestType
<1>10. QED
  BY <1>1, <1>5, <1>6, <1>7, <1>8, <1>9, Quiet

LEMMA WriteProfileKeeps ==
  ASSUME Inv, NEW r \in Requests, WriteProfile(r)
  PROVE  Inv'
<1>1. Runs(r) /\ requests[r].kind = "onboarding" /\ requests[r].pc = "writeProfile"
  BY Onboards DEF WriteProfile
<1>2. UNCHANGED <<createdAt, vesselOf, primary, archived, identities, clock, doubled, crowded>>
      /\ profile' \in BOOLEAN /\ resumed' \in BOOLEAN /\ updatedAt' \in [Ids -> Times]
  BY Request DEF WriteProfile, installations, history, WorldType
<1>3. CASE EndRequest(r)
  BY <1>1, <1>2, <1>3, Ends
<1>4. CASE Goto(r, "writeVessel")
  <2>1. PICK y : y = [requests[r] EXCEPT !.pc = "writeVessel"]
    OBVIOUS
  <2>2. "writeVessel" \in Steps
    BY DEF Steps
  <2>3. /\ y \in RequestType /\ y.pc = "writeVessel" /\ y.kind = requests[r].kind
        /\ y.inst = requests[r].inst /\ y.met = requests[r].met
        /\ y.metManager = requests[r].metManager
        /\ y.at = requests[r].at /\ y.seen = requests[r].seen /\ y.vessel = requests[r].vessel
    BY <2>1, <2>2, PcSet
  <2>4. Shape(y) /\ Shape(requests[r]) /\ Own(requests[r])
    BY <1>1, <2>3, Request DEF Shape
  <2>5. ~doubled => Filing(requests[r])
    BY <1>1, <2>4 DEF Own
  <2>6. ~doubled => Filing(y)
    BY <1>1, <2>3, <2>5 DEF Filing
  <2>7. Own(y)
    BY <1>1, <2>3, <2>6, OwnFiling
  <2>8. requests' = [requests EXCEPT ![r] = y]
    BY <1>4, <2>1, Request DEF Goto
  <2>9. QED
    BY <1>1, <1>2, <2>3, <2>4, <2>7, <2>8, Quiet
<1>5. QED
  BY <1>3, <1>4 DEF WriteProfile

LEMMA WriteVesselKeeps ==
  ASSUME Inv, NEW r \in Requests, WriteVessel(r)
  PROVE  Inv'
<1>1. Runs(r) /\ requests[r].kind = "onboarding" /\ requests[r].pc = "writeVessel"
      /\ requests[r].kind \in Managers
  BY Onboards DEF WriteVessel
<1>2. /\ UNCHANGED <<profile, vesselOf, primary, archived, updatedAt, observed, published>>
      /\ UNCHANGED <<identities, clock, doubled, crowded, resumed>>
  BY DEF WriteVessel, installations, identities, history
<1>3. PICK v \in Vessels :
        /\ createdAt' \in [Vessels -> Times] /\ createdAt'[v] > 0
        /\ \A w \in Vessels : createdAt[w] > 0 => createdAt'[w] > 0
        /\ requests' = [requests EXCEPT ![r].pc = "findInstallation", ![r].vessel = v]
  <2>1. createdAt \in [Vessels -> Times] /\ requests \in [Requests -> RequestType]
        /\ Shape(requests[r])
    BY Request DEF WorldType
  <2>2. CASE requests[r].vessel # None
    <3>1. requests[r].vessel \in ExistingVessels
      BY <1>1, <2>1, <2>2 DEF Shape
    <3>2. Goto(r, "findInstallation") /\ createdAt' = createdAt
      BY <2>2 DEF WriteVessel
    <3>3. requests' = [requests EXCEPT ![r].pc = "findInstallation",
                                       ![r].vessel = requests[r].vessel]
      BY <2>1, <3>2 DEF Goto, RequestType
    <3>4. QED
      BY <2>1, <3>1, <3>2, <3>3 DEF ExistingVessels
  <2>3. CASE requests[r].vessel = None
    <3>1. PICK v \in Vessels \ ExistingVessels :
             /\ createdAt' = [createdAt EXCEPT ![v] = requests[r].at]
             /\ requests' = [requests EXCEPT ![r].pc = "findInstallation", ![r].vessel = v]
      BY <2>3 DEF WriteVessel
    <3>2. requests[r].at \in Times /\ requests[r].at > 0
      BY <1>1, Request DEF RequestType, Inv, Core, Dated
    <3>3. QED
      BY <2>1, <3>1, <3>2
  <2>4. QED
    BY <2>2, <2>3
<1>4. PICK y : y = [requests[r] EXCEPT !.pc = "findInstallation", !.vessel = v]
  OBVIOUS
<1>5. /\ y \in RequestType /\ y.pc = "findInstallation" /\ y.vessel = v
      /\ y.kind = "onboarding" /\ y.kind = requests[r].kind /\ y.inst = requests[r].inst
      /\ y.met = requests[r].met /\ y.metManager = requests[r].metManager
      /\ y.at = requests[r].at /\ y.seen = requests[r].seen
  BY <1>1, <1>4, Request, ZenonT(40) DEF RequestType, Steps
<1>6. Grown
  BY <1>2, <1>3 DEF Grown, ExistingVessels
<1>7. WorldType' /\ Rooted'
  <2>1. WorldType'
    BY <1>2, <1>3, Request DEF WorldType
  <2>2. Rooted'
    BY <1>2, <1>6, Request DEF Rooted, Grown, Existing
  <2>3. QED
    BY <2>1, <2>2
<1>8. Shape(y)'
  <2>1. v \in ExistingVessels' /\ v # None
    BY <1>3, InstallationsAssumption DEF ExistingVessels
  <2>2. y.at <= clock'
    BY <1>2, <1>5, Request DEF Shape
  <2>3. QED
    BY <1>5, <2>1, <2>2 DEF Shape
<1>9. Own(y)'
  BY <1>5 DEF Own, Managing, Syncing, SyncSteps, Filing
<1>10. requests' = [requests EXCEPT ![r] = y]
  BY <1>3, <1>4, Request
<1>11. QED
  BY <1>1, <1>2, <1>5, <1>6, <1>7, <1>8, <1>9, <1>10, Step

LEMMA FindInstallationKeeps ==
  ASSUME Inv, Single, NEW r \in Requests, FindInstallation(r)
  PROVE  Inv'
<1>1. Runs(r) /\ requests[r].kind = "onboarding" /\ requests[r].pc = "findInstallation"
  BY Onboards DEF FindInstallation
<1> DEFINE found == Unarchived(requests[r].vessel)
<1>2. PICK i \in IF found = {} THEN {None} ELSE found :
        requests' = [requests EXCEPT ![r].pc = "writeInstallation", ![r].found = i]
  BY DEF FindInstallation
<1>3. requests[r].vessel \in ExistingVessels
  BY <1>1, Request DEF Shape
<1>4. /\ i = None \/ i \in InstallationsOf(requests[r].vessel)
      /\ i = None => found = {}
  BY <1>2, InstallationsAssumption DEF Unarchived, InstallationsOf
<1>5. PICK w \in Ids \cup {None} : w = i
  BY <1>4 DEF InstallationsOf
<1>6. PICK x \in RequestType : x = requests[r]
  BY Request
<1>7. PICK y : y = [x EXCEPT !.pc = "writeInstallation", !.found = w]
  OBVIOUS
<1>8. y \in RequestType
  BY <1>7 DEF RequestType, Steps
<1>9. /\ y.pc = "writeInstallation" /\ y.found = i /\ y.vessel = requests[r].vessel
      /\ y.kind = "onboarding" /\ y.kind = requests[r].kind /\ y.inst = requests[r].inst
      /\ y.met = requests[r].met /\ y.metManager = requests[r].metManager
      /\ y.at = requests[r].at /\ y.seen = requests[r].seen
  BY <1>1, <1>5, <1>6, <1>7 DEF RequestType
<1>10. Shape(y)
  <2>1. y.vessel # None /\ (y.found # None => y.found \in InstallationsOf(y.vessel))
    BY <1>3, <1>4, <1>9, InstallationsAssumption DEF ExistingVessels
  <2>2. QED
    BY <1>3, <1>9, <2>1, Request DEF Shape
<1>11. ~doubled => Filing(y)
  <2>1. SUFFICES ASSUME ~doubled, i = None PROVE Existing \subseteq archived
    BY <1>9 DEF Filing
  <2>2. OneVessel /\ Rooted /\ found = {}
    BY <1>4, <2>1, Request DEF Single
  <2>3. \A j \in Existing : j \in InstallationsOf(requests[r].vessel)
    BY <1>3, <2>2 DEF OneVessel, Rooted, Existing, InstallationsOf
  <2>4. QED
    BY <2>2, <2>3 DEF Unarchived
<1>12. Own(y)
  BY <1>9, <1>11, OwnFiling
<1>13. requests' = [requests EXCEPT ![r] = y]
  BY <1>2, <1>5, <1>6, <1>7, Request
<1>14. UNCHANGED <<createdAt, vesselOf, primary, archived, identities, clock, doubled, crowded>>
       /\ profile' \in BOOLEAN /\ resumed' \in BOOLEAN /\ updatedAt' \in [Ids -> Times]
  BY Request DEF FindInstallation, captain, installations, history, WorldType
<1>15. QED
  BY <1>1, <1>8, <1>9, <1>10, <1>12, <1>13, <1>14, Quiet

(* The step of a request that goes on, and knows no more than before. *)
LEMMA GoneOn ==
  ASSUME Inv, NEW r \in Requests, NEW step \in Steps, Goto(r, step)
  PROVE  \E y \in RequestType :
           /\ requests' = [requests EXCEPT ![r] = y]
           /\ y.pc = step
           /\ y.kind = requests[r].kind /\ y.inst = requests[r].inst
           /\ y.met = requests[r].met /\ y.metManager = requests[r].metManager
           /\ y.at = requests[r].at /\ y.vessel = requests[r].vessel
           /\ y.found = requests[r].found /\ y.had = requests[r].had
           /\ y.row = requests[r].row /\ y.seen = requests[r].seen
<1>1. PICK y : y = [requests[r] EXCEPT !.pc = step]
  OBVIOUS
<1>2. requests' = [requests EXCEPT ![r] = y]
  BY <1>1, Request DEF Goto
<1>3. /\ y \in RequestType
      /\ y.pc = step
      /\ y.kind = requests[r].kind /\ y.inst = requests[r].inst
      /\ y.met = requests[r].met /\ y.metManager = requests[r].metManager
      /\ y.at = requests[r].at /\ y.vessel = requests[r].vessel
      /\ y.found = requests[r].found /\ y.had = requests[r].had
      /\ y.row = requests[r].row /\ y.seen = requests[r].seen
  BY <1>1, PcSet
<1>4. QED
  BY <1>2, <1>3, Zenon

LEMMA WriteInstallationKeeps ==
  ASSUME Inv, NEW r \in Requests, WriteInstallation(r)
  PROVE  Inv'
<1>1. Runs(r) /\ requests[r].kind = "onboarding" /\ requests[r].pc = "writeInstallation"
      /\ requests[r].kind \in Managers
  BY Onboards DEF WriteInstallation
<1>2. requests[r].vessel \in ExistingVessels /\ requests[r].vessel \in Vessels
      /\ (requests[r].found # None => requests[r].found \in InstallationsOf(requests[r].vessel))
  BY <1>1, Request DEF Shape, ExistingVessels
<1>3. PICK i \in Ids :
        /\ i \in Existing => vesselOf[i] = requests[r].vessel
        /\ vesselOf' = [vesselOf EXCEPT ![i] = requests[r].vessel]
        /\ primary' = primary \cup {i}
        /\ updatedAt' = [updatedAt EXCEPT ![i] = requests[r].at]
  <2>1. PICK i \in IF requests[r].found = None THEN Ids \ Existing ELSE {requests[r].found} :
          /\ vesselOf' = [vesselOf EXCEPT ![i] = requests[r].vessel]
          /\ primary' = primary \cup {i}
          /\ updatedAt' = [updatedAt EXCEPT ![i] = requests[r].at]
    BY DEF WriteInstallation
  <2>2. i \in Ids /\ (i \in Existing => vesselOf[i] = requests[r].vessel)
    BY <1>2, <2>1 DEF InstallationsOf
  <2>3. QED
    BY <2>1, <2>2
<1>4. UNCHANGED <<profile, createdAt, archived, identities, observed, published, clock>>
      /\ UNCHANGED <<doubled, resumed, crowded>>
  BY DEF WriteInstallation, captain, identities, history
<1>5. WorldType' /\ Rooted' /\ Grown
  <2>1. WorldType /\ Rooted /\ requests[r].at \in Times
    BY Request DEF RequestType
  <2>2. WorldType'
    BY <1>2, <1>3, <1>4, <2>1 DEF WorldType
  <2>3. vesselOf \in [Ids -> Vessels \cup {None}]
    BY <2>1 DEF WorldType
  <2>4. Grown
    BY <1>3, <1>4, <2>3 DEF Grown, Existing, ExistingVessels
  <2>5. Rooted'
    BY <1>2, <1>3, <1>4, <2>1, <2>3 DEF Rooted, Existing, ExistingVessels
  <2>6. QED
    BY <2>2, <2>4, <2>5
<1>6. Goto(r, "done") /\ "done" \in Steps
  BY DEF WriteInstallation, Steps
<1>7. PICK y \in RequestType :
        /\ requests' = [requests EXCEPT ![r] = y]
        /\ y.pc = "done" /\ y.kind = requests[r].kind /\ y.inst = requests[r].inst
        /\ y.met = requests[r].met /\ y.metManager = requests[r].metManager
        /\ y.at = requests[r].at /\ y.seen = requests[r].seen /\ y.vessel = requests[r].vessel
  BY <1>6, GoneOn
<1>8. Shape(y)'
  <2>1. y.at <= clock'
    BY <1>4, <1>7, Request DEF Shape
  <2>2. y.vessel \in ExistingVessels'
    BY <1>2, <1>5, <1>7 DEF Grown
  <2>3. y.kind = "onboarding" /\ y.pc = "done"
    BY <1>1, <1>7
  <2>4. QED
    BY <2>1, <2>2, <2>3 DEF Shape
<1>9. Own(y)'
  BY <1>1, <1>7 DEF Own, Managing, Syncing, SyncSteps, Filing
<1>10. QED
  BY <1>1, <1>4, <1>5, <1>7, <1>8, <1>9, Step

-----------------------------------------------------------------------------
(* The flags. *)

LEMMA Manages ==
  ASSUME Inv, NEW r \in Requests
  PROVE  /\ requests[r].pc \in {"demote", "promote"} => requests[r].kind = "primary"
         /\ requests[r].pc \in {"archive", "findFallback", "promoteFallback"} =>
              requests[r].kind = "archive"
         /\ requests[r].kind \in {"primary", "archive"} =>
              /\ Runs(r) /\ requests[r].kind \in Managers
              /\ requests[r].inst \in Ids
              /\ requests[r].inst \in InstallationsOf(requests[r].vessel)
              /\ ~requests[r].metManager => Managing(requests[r])
<1>1. requests[r] \in RequestType /\ Shape(requests[r]) /\ Own(requests[r])
  BY Request
<1>2. requests[r].pc \in {"demote", "promote", "archive", "findFallback", "promoteFallback"} =>
        requests[r].kind \in {"primary", "archive"}
  BY <1>1 DEF Shape, RequestType, Kinds, Managers, SyncSteps
<1>3. requests[r].kind = "primary" =>
        requests[r].pc \notin {"archive", "findFallback", "promoteFallback", "idle"}
  BY <1>1 DEF Shape, SyncSteps
<1>4. requests[r].kind = "archive" => requests[r].pc \notin {"demote", "promote", "idle"}
  BY <1>1 DEF Shape, SyncSteps
<1>5. requests[r].kind \in {"primary", "archive"} =>
        /\ requests[r].kind \in Managers
        /\ requests[r].inst \in Ids /\ requests[r].inst \in InstallationsOf(requests[r].vessel)
        /\ ~requests[r].metManager => Managing(requests[r])
  BY <1>1 DEF Shape, Own, Managers, InstallationsOf
<1>6. QED
  BY <1>2, <1>3, <1>4, <1>5 DEF Runs

LEMMA Flags ==
  ASSUME Inv, NEW r \in Requests, requests[r].kind \in {"primary", "archive"},
         NEW y \in RequestType, requests' = [requests EXCEPT ![r] = y],
         y.kind = requests[r].kind, y.inst = requests[r].inst, y.met = requests[r].met,
         y.metManager = requests[r].metManager, y.at = requests[r].at, y.seen = requests[r].seen,
         y.vessel = requests[r].vessel,
         \/ y.kind = "primary" /\ y.pc \in {"promote", "findPrimary"}
         \/ y.kind = "archive" /\ y.pc \in {"findPrimary", "findFallback"},
         UNCHANGED <<captain, vesselOf, identities, clock, history>>,
         primary' \subseteq Ids, archived \subseteq archived', archived' \subseteq Ids,
         updatedAt' \in [Ids -> Times],
         ~requests[r].metManager => Managing(y)'
  PROVE  Inv'
<1>1. /\ UNCHANGED <<profile, createdAt, observed, published>>
      /\ UNCHANGED <<doubled, resumed, crowded>>
  BY DEF captain, identities, history
<1>2. WorldType' /\ Rooted' /\ Grown
  BY <1>1, Request DEF WorldType, Rooted, Grown, Existing, ExistingVessels
<1>3. Shape(requests[r]) /\ Runs(r) /\ requests[r].kind \in Managers
  BY Request, Manages
<1>4. Shape(y)
  BY <1>3 DEF Shape, SyncSteps
<1>5. Shape(y)'
  BY <1>1, <1>2, <1>3, <1>4, Request, InstallationsAssumption, ShapeKept DEF WorldType, Times
<1>6. Own(y)'
  BY DEF Own, Syncing
<1>7. QED
  BY <1>1, <1>2, <1>3, <1>5, <1>6, Step

LEMMA BeginPrimaryKeeps ==
  ASSUME Inv, NEW r \in Requests, BeginPrimary(r)
  PROVE  Inv' /\ Elsewhere
<1>1. PICK i \in Existing \ archived :
        Begin(r, [Idle EXCEPT !.kind = "primary", !.pc = "demote",
                              !.inst = i, !.vessel = vesselOf[i]])
  BY DEF BeginPrimary
<1>2. PICK z : z = [Idle EXCEPT !.kind = "primary", !.pc = "demote",
                                !.inst = i, !.vessel = vesselOf[i]]
  OBVIOUS
<1>3. /\ i \in Ids /\ vesselOf[i] \in Vessels /\ i \in InstallationsOf(vesselOf[i])
      /\ doubled \in BOOLEAN /\ crowded \subseteq Ids /\ clock \in Int /\ 0 <= clock
  BY Request, InstallationsAssumption DEF WorldType, Times, Existing, InstallationsOf
<1>4. z \in RequestType /\ z.kind = "primary" /\ z.pc = "demote" /\ z.vessel = vesselOf[i]
      /\ z.inst = i /\ z.at = 0 /\ z.seen = Unknown
  BY <1>2, <1>3, UnknownType DEF Idle, RequestType, Kinds, Managers, Steps
<1>5. Shape(z)
  BY <1>3, <1>4 DEF Shape
<1>6. Begin(r, z)
  BY <1>1, <1>2, Zenon
<1>7. UNCHANGED <<captain, installations, identities, resumed>>
      /\ crowded' = crowded /\ doubled' = doubled
  BY DEF BeginPrimary, history
<1>8. QED
  BY <1>1, <1>3, <1>4, <1>5, <1>6, <1>7, Begins, BeginsElsewhere

LEMMA BeginArchiveKeeps ==
  ASSUME Inv, NEW r \in Requests, BeginArchive(r)
  PROVE  Inv' /\ Elsewhere
<1>1. PICK i \in Existing \ archived :
        Begin(r, [Idle EXCEPT !.kind = "archive", !.pc = "archive",
                              !.inst = i, !.vessel = vesselOf[i], !.had = i \in primary])
  BY DEF BeginArchive
<1>2. PICK z : z = [Idle EXCEPT !.kind = "archive", !.pc = "archive",
                                !.inst = i, !.vessel = vesselOf[i], !.had = i \in primary]
  OBVIOUS
<1>3. /\ i \in Ids /\ vesselOf[i] \in Vessels /\ i \in InstallationsOf(vesselOf[i])
      /\ doubled \in BOOLEAN /\ crowded \subseteq Ids /\ clock \in Int /\ 0 <= clock
  BY Request, InstallationsAssumption DEF WorldType, Times, Existing, InstallationsOf
<1>4. z \in RequestType /\ z.kind = "archive" /\ z.pc = "archive" /\ z.vessel = vesselOf[i]
      /\ z.inst = i /\ z.at = 0 /\ z.seen = Unknown
  <2>1. PICK had : had = (i \in primary)
    OBVIOUS
  <2> had \in BOOLEAN
    BY <2>1
  <2>2. z = [Idle EXCEPT !.kind = "archive", !.pc = "archive",
                         !.inst = i, !.vessel = vesselOf[i], !.had = had]
    BY <1>2, <2>1
  <2>3. QED
    BY <1>3, <2>2, UnknownType DEF Idle, RequestType, Kinds, Managers, Steps
<1>5. Shape(z)
  BY <1>3, <1>4 DEF Shape
<1>6. Begin(r, z)
  BY <1>1, <1>2, Zenon
<1>7. UNCHANGED <<captain, installations, identities, resumed>>
      /\ crowded' = crowded /\ doubled' = doubled
  BY DEF BeginArchive, history
<1>8. QED
  BY <1>3, <1>4, <1>5, <1>6, <1>7, Begins, BeginsElsewhere

LEMMA DemoteKeeps ==
  ASSUME Inv, NEW r \in Requests, Demote(r)
  PROVE  Inv'
<1>1. requests[r].pc = "demote" /\ requests[r].kind = "primary" /\ requests[r].at \in Times
      /\ (~requests[r].metManager => Managing(requests[r]))
  BY Manages, Request DEF Demote, RequestType
<1>2. Goto(r, "promote") /\ "promote" \in Steps
  BY DEF Demote, Steps
<1>3. PICK y \in RequestType :
        /\ requests' = [requests EXCEPT ![r] = y]
        /\ y.pc = "promote" /\ y.kind = requests[r].kind /\ y.inst = requests[r].inst
        /\ y.met = requests[r].met /\ y.metManager = requests[r].metManager
        /\ y.at = requests[r].at /\ y.seen = requests[r].seen /\ y.vessel = requests[r].vessel
  BY <1>2, GoneOn
<1>4. /\ UNCHANGED <<captain, vesselOf, identities, clock, history>> /\ archived' = archived
      /\ primary' = primary \ InstallationsOf(requests[r].vessel)
      /\ updatedAt' \in [Ids -> Times]
      /\ primary' \subseteq Ids /\ archived' \subseteq Ids
  BY <1>1, Request DEF Demote, Demoted, WorldType
<1>5. ~requests[r].metManager => Managing(y)'
  <2>1. ~requests[r].metManager => y.inst \notin archived
    BY <1>1, <1>3 DEF Managing
  <2>2. InstallationsOf(y.vessel)' \cap primary' = {}
    BY <1>3, <1>4 DEF InstallationsOf
  <2>3. QED
    BY <1>1, <1>3, <1>4, <2>1, <2>2 DEF Managing, SyncSteps
<1>6. QED
  BY <1>1, <1>3, <1>4, <1>5, Flags

LEMMA PromoteKeeps ==
  ASSUME Inv, NEW r \in Requests, Promote(r)
  PROVE  Inv'
<1>1. requests[r].pc = "promote" /\ requests[r].kind = "primary" /\ requests[r].at \in Times
      /\ requests[r].inst \in Ids /\ requests[r].inst \in InstallationsOf(requests[r].vessel)
      /\ (~requests[r].metManager => Managing(requests[r]))
  BY Manages, Request DEF Promote, RequestType
<1>2. Goto(r, "findPrimary") /\ "findPrimary" \in Steps
  BY DEF Promote, Steps
<1>3. PICK y \in RequestType :
        /\ requests' = [requests EXCEPT ![r] = y]
        /\ y.pc = "findPrimary" /\ y.kind = requests[r].kind /\ y.inst = requests[r].inst
        /\ y.met = requests[r].met /\ y.metManager = requests[r].metManager
        /\ y.at = requests[r].at /\ y.seen = requests[r].seen /\ y.vessel = requests[r].vessel
  BY <1>2, GoneOn
<1>4. /\ UNCHANGED <<captain, vesselOf, identities, clock, history>> /\ archived' = archived
      /\ primary' = primary \cup {requests[r].inst}
      /\ updatedAt' \in [Ids -> Times]
      /\ primary' \subseteq Ids /\ archived' \subseteq Ids
  BY <1>1, Request DEF Promote, WorldType
<1>5. ~requests[r].metManager => Managing(y)'
  <2>1. SUFFICES ASSUME ~requests[r].metManager PROVE Managing(y)'
    OBVIOUS
  <2>2. y.inst \notin archived /\ InstallationsOf(y.vessel) \cap primary = {}
    BY <1>1, <1>3, <2>1 DEF Managing
  <2>3. InstallationsOf(y.vessel)' \cap primary' = {y.inst}
    BY <1>1, <1>3, <1>4, <2>2 DEF InstallationsOf
  <2>4. QED
    BY <1>1, <1>3, <1>4, <2>2, <2>3 DEF Managing
<1>6. QED
  BY <1>1, <1>3, <1>4, <1>5, Flags

LEMMA ArchiveKeeps ==
  ASSUME Inv, NEW r \in Requests, Archive(r)
  PROVE  Inv'
<1>1. requests[r].pc = "archive" /\ requests[r].kind = "archive" /\ requests[r].at \in Times
      /\ requests[r].inst \in Ids
  BY Manages, Request DEF Archive, RequestType
<1>2. PICK step \in {"findFallback", "findPrimary"} :
        Goto(r, step) /\ (requests[r].had => step = "findFallback")
  BY DEF Archive, WasPrimary
<1>3. step \in Steps
  BY DEF Steps
<1>4. PICK y \in RequestType :
        /\ requests' = [requests EXCEPT ![r] = y]
        /\ y.pc = step /\ y.kind = requests[r].kind /\ y.inst = requests[r].inst
        /\ y.met = requests[r].met /\ y.metManager = requests[r].metManager
        /\ y.at = requests[r].at /\ y.seen = requests[r].seen
        /\ y.vessel = requests[r].vessel /\ y.had = requests[r].had
  BY <1>2, <1>3, GoneOn
<1>5. /\ UNCHANGED <<captain, vesselOf, identities, clock, history>>
      /\ archived' = archived \cup {requests[r].inst}
      /\ primary' = primary \ {requests[r].inst}
      /\ updatedAt' \in [Ids -> Times]
      /\ primary' \subseteq Ids /\ archived' \subseteq Ids
  BY <1>1, Request DEF Archive, WorldType
<1>6. Managing(y)'
  <2>1. y.inst \in archived' \ primary'
    BY <1>1, <1>4, <1>5
  <2>2. y.kind = "archive" /\ y.pc \notin {"promote", "promoteFallback"}
        /\ ~(y.had /\ y.pc \in SyncSteps \cup {"done"})
    BY <1>1, <1>2, <1>4 DEF SyncSteps
  <2>3. QED
    BY <2>1, <2>2 DEF Managing
<1>7. QED
  BY <1>1, <1>2, <1>4, <1>5, <1>6, Flags

LEMMA FindFallbackKeeps ==
  ASSUME Inv, NEW r \in Requests, FindFallback(r)
  PROVE  Inv'
<1>1. requests[r].pc = "findFallback" /\ requests[r].kind = "archive" /\ Runs(r)
      /\ requests[r].inst \in Ids /\ requests[r].inst \in InstallationsOf(requests[r].vessel)
      /\ Shape(requests[r]) /\ (~requests[r].metManager => Managing(requests[r]))
  BY Manages, Request DEF FindFallback
<1>2. UNCHANGED <<createdAt, vesselOf, primary, archived, identities, clock, doubled, crowded>>
      /\ profile' \in BOOLEAN /\ resumed' \in BOOLEAN /\ updatedAt' \in [Ids -> Times]
  BY Request DEF FindFallback, captain, installations, history, WorldType
<1>3. ~requests[r].metManager => requests[r].inst \in archived \ primary
  BY <1>1 DEF Managing
<1>4. CASE Fallbacks(r) = {} /\ Goto(r, "findPrimary")
  <2>1. "findPrimary" \in Steps
    BY DEF Steps
  <2>2. PICK y \in RequestType :
          /\ requests' = [requests EXCEPT ![r] = y]
          /\ y.pc = "findPrimary" /\ y.kind = requests[r].kind /\ y.inst = requests[r].inst
          /\ y.met = requests[r].met /\ y.metManager = requests[r].metManager
          /\ y.at = requests[r].at /\ y.seen = requests[r].seen /\ y.vessel = requests[r].vessel
    BY <1>4, <2>1, GoneOn
  <2>3. Shape(y)
    BY <1>1, <2>2 DEF Shape, SyncSteps
  <2>4. ~y.metManager => Managing(y)
    <3>1. SUFFICES ASSUME ~requests[r].metManager PROVE Managing(y)
      BY <2>2
    <3>2. requests[r].inst \in archived \ primary
      BY <1>3, <3>1
    <3>3. Unarchived(requests[r].vessel) \subseteq {requests[r].inst}
      BY <1>4, FallbackExists DEF Inv, Core
    <3>4. Unarchived(y.vessel) = {}
      BY <2>2, <3>2, <3>3 DEF Unarchived
    <3>5. QED
      BY <1>1, <2>2, <3>2, <3>4 DEF Managing
  <2>5. Own(y)
    BY <1>1, <2>2, <2>4 DEF Own, Syncing
  <2>6. QED
    BY <1>1, <1>2, <2>2, <2>3, <2>5, Quiet
<1>5. ASSUME NEW i \in Fallbacks(r),
             requests' = [requests EXCEPT ![r].pc = "promoteFallback", ![r].found = i]
      PROVE  Inv'
  <2>1. i \in Ids /\ i \in InstallationsOf(requests[r].vessel) /\ i \notin archived
        /\ i # requests[r].inst
    BY DEF Fallbacks, Unarchived, InstallationsOf
  <2>2. PICK x \in RequestType : x = requests[r]
    BY Request
  <2>3. PICK y : y = [x EXCEPT !.pc = "promoteFallback", !.found = i]
    OBVIOUS
  <2>4. y \in RequestType
    BY <2>1, <2>3 DEF RequestType, Steps
  <2>5. /\ y.pc = "promoteFallback" /\ y.found = i /\ y.vessel = requests[r].vessel
        /\ y.kind = requests[r].kind /\ y.inst = requests[r].inst
        /\ y.met = requests[r].met /\ y.metManager = requests[r].metManager
        /\ y.at = requests[r].at /\ y.seen = requests[r].seen
    BY <2>2, <2>3 DEF RequestType
  <2>6. Shape(y)
    BY <1>1, <2>1, <2>5 DEF Shape
  <2>7. ~y.metManager => Managing(y)
    BY <1>1, <1>3, <2>1, <2>5 DEF Managing, SyncSteps
  <2>8. Own(y)
    BY <1>1, <2>5, <2>7 DEF Own, Syncing
  <2>9. requests' = [requests EXCEPT ![r] = y]
    BY <1>5, <2>2, <2>3, Request
  <2>10. QED
    BY <1>1, <1>2, <2>4, <2>5, <2>6, <2>8, <2>9, Quiet
<1>6. QED
  BY <1>4, <1>5 DEF FindFallback

LEMMA PromoteFallbackKeeps ==
  ASSUME Inv, NEW r \in Requests, PromoteFallback(r)
  PROVE  Inv'
<1>1. requests[r].pc = "promoteFallback" /\ requests[r].kind = "archive"
      /\ requests[r].at \in Times
      /\ (~requests[r].metManager => Managing(requests[r]))
  BY Manages, Request DEF PromoteFallback, RequestType
<1>2. /\ requests[r].found \in InstallationsOf(requests[r].vessel)
      /\ requests[r].found # requests[r].inst /\ requests[r].found \in Ids
  BY <1>1, Request DEF Shape, InstallationsOf
<1>3. Goto(r, "findPrimary") /\ "findPrimary" \in Steps
  BY DEF PromoteFallback, Steps
<1>4. PICK y \in RequestType :
        /\ requests' = [requests EXCEPT ![r] = y]
        /\ y.pc = "findPrimary" /\ y.kind = requests[r].kind /\ y.inst = requests[r].inst
        /\ y.met = requests[r].met /\ y.metManager = requests[r].metManager
        /\ y.at = requests[r].at /\ y.seen = requests[r].seen /\ y.vessel = requests[r].vessel
  BY <1>3, GoneOn
<1>5. /\ UNCHANGED <<captain, vesselOf, identities, clock, history>> /\ archived' = archived
      /\ primary' = primary \cup {requests[r].found}
      /\ updatedAt' \in [Ids -> Times]
      /\ primary' \subseteq Ids /\ archived' \subseteq Ids
  BY <1>1, <1>2, Request DEF PromoteFallback, WorldType
<1>6. ~requests[r].metManager => Managing(y)'
  <2>1. SUFFICES ASSUME ~requests[r].metManager PROVE Managing(y)'
    OBVIOUS
  <2>2. requests[r].inst \in archived \ primary /\ requests[r].found \notin archived
    BY <1>1, <2>1 DEF Managing
  <2>3. y.inst \in archived' \ primary'
    BY <1>2, <1>4, <1>5, <2>2
  <2>4. requests[r].found \in Primaries(y.vessel)'
    BY <1>2, <1>4, <1>5, <2>2 DEF Primaries, InstallationsOf
  <2>5. QED
    BY <1>1, <1>4, <2>3, <2>4 DEF Managing
<1>7. QED
  BY <1>1, <1>4, <1>5, <1>6, Flags

-----------------------------------------------------------------------------
(* Ingests. *)

LEMMA Ingests ==
  ASSUME Inv, NEW r \in Requests
  PROVE  /\ requests[r].pc \in {"readIdentity", "writeIdentity", "heartbeat"} =>
              requests[r].kind = "ingest"
         /\ requests[r].kind = "ingest" =>
              /\ Runs(r) /\ requests[r].kind \notin Managers
              /\ requests[r].inst \in Ids
              /\ requests[r].inst \notin crowded => Ingesting(requests[r])
<1>1. requests[r] \in RequestType /\ Shape(requests[r]) /\ Own(requests[r])
  BY Request
<1>2. requests[r].pc \in {"readIdentity", "writeIdentity", "heartbeat"} =>
        requests[r].kind = "ingest"
  BY <1>1 DEF Shape, RequestType, Kinds, Managers, SyncSteps
<1>3. requests[r].kind = "ingest" => requests[r].pc # "idle"
  BY <1>1 DEF Shape, SyncSteps
<1>4. requests[r].kind = "ingest" =>
        /\ requests[r].kind \notin Managers /\ requests[r].inst \in Ids
        /\ requests[r].inst \notin crowded => Ingesting(requests[r])
  BY <1>1 DEF Shape, Own, Managers, InstallationsOf
<1>5. QED
  BY <1>2, <1>3, <1>4 DEF Runs

LEMMA BeginIngestKeeps ==
  ASSUME Inv, NEW r \in Requests, BeginIngest(r)
  PROVE  Inv' /\ Elsewhere
<1> DEFINE X(i, patch) == [Idle EXCEPT !.kind = "ingest", !.pc = "readIdentity", !.inst = i,
                             !.vessel = vesselOf[i], !.patch = patch, !.had = i \in primary]
<1>1. PICK i \in Existing, patch \in SUBSET Fields \ {{}} :
        /\ Begin(r, X(i, patch))
        /\ crowded' = crowded \cup
             {j \in {i} : \E q \in Requests : requests[q].kind = "ingest" /\ requests[q].inst = i}
  BY DEF BeginIngest
<1>2. PICK z : z = X(i, patch)
  OBVIOUS
<1>3. /\ i \in Ids /\ vesselOf[i] \in Vessels /\ i \in InstallationsOf(vesselOf[i])
      /\ doubled \in BOOLEAN /\ crowded \subseteq Ids /\ clock \in Int /\ 0 <= clock
  BY Request, InstallationsAssumption DEF WorldType, Times, Existing, InstallationsOf
<1>4. z \in RequestType /\ z.kind = "ingest" /\ z.pc = "readIdentity" /\ z.vessel = vesselOf[i]
      /\ z.inst = i /\ z.at = 0 /\ z.seen = Unknown
  <2>1. PICK had : had = (i \in primary)
    OBVIOUS
  <2>2. had \in BOOLEAN
    BY <2>1
  <2>3. z = [Idle EXCEPT !.kind = "ingest", !.pc = "readIdentity", !.inst = i,
                         !.vessel = vesselOf[i], !.patch = patch, !.had = had]
    BY <1>2, <2>1
  <2> HIDE DEF X
  <2>4. QED
    BY <1>1, <1>3, <2>2, <2>3, UnknownType DEF Idle, RequestType, Kinds, Managers, Steps
<1>5. Shape(z)
  BY <1>3, <1>4 DEF Shape
<1>6. Begin(r, z)
  BY <1>1, <1>2, Zenon
<1> HIDE DEF X
<1>7. UNCHANGED <<captain, installations, identities, resumed>> /\ doubled' = doubled
  BY DEF BeginIngest
<1>8. crowded' \subseteq Ids /\ crowded \subseteq crowded'
      /\ ((\E q \in Requests : requests[q].kind = "ingest" /\ requests[q].inst = i)
          => i \in crowded')
  BY <1>1, <1>3
<1>9. QED
  BY <1>3, <1>4, <1>5, <1>6, <1>7, <1>8, Begins, BeginsElsewhere

LEMMA ReadIdentityKeeps ==
  ASSUME Inv, NEW r \in Requests, ReadIdentity(r)
  PROVE  Inv'
<1>1. requests[r].pc = "readIdentity" /\ requests[r].kind = "ingest" /\ Runs(r)
      /\ requests[r].inst \in Ids /\ Shape(requests[r])
      /\ (requests[r].inst \notin crowded => Ingesting(requests[r]))
  BY Ingests, Request DEF ReadIdentity
<1>2. PICK x \in RequestType : x = requests[r]
  BY Request
<1>3. PICK row : row = (observed[x.inst] # Unknown)
  OBVIOUS
<1>4. PICK seen : seen = observed[x.inst]
  OBVIOUS
<1>5. row \in BOOLEAN /\ seen \in Identities
  BY <1>1, <1>2, <1>3, <1>4, Request DEF WorldType
<1>6. PICK y : y = [x EXCEPT !.pc = "writeIdentity", !.seen = seen, !.row = row]
  OBVIOUS
<1>7. y \in RequestType
  BY <1>5, <1>6 DEF RequestType, Steps
<1>8. /\ y.pc = "writeIdentity" /\ y.seen = observed[y.inst] /\ y.vessel = requests[r].vessel
      /\ y.kind = requests[r].kind /\ y.inst = requests[r].inst
      /\ y.met = requests[r].met /\ y.metManager = requests[r].metManager
      /\ y.at = requests[r].at /\ y.kind = "ingest"
  BY <1>1, <1>2, <1>4, <1>6 DEF RequestType
<1>9. Recent(y.seen)
  BY <1>1, <1>8, Request DEF Rooted, Recent
<1>10. Shape(y)
  BY <1>1, <1>8 DEF Shape
<1>11. Own(y)
  <2>1. y.inst \notin crowded => Ingesting(y)
    BY <1>1, <1>8 DEF Ingesting
  <2>2. QED
    BY <1>8, <2>1 DEF Own, Managers, Syncing
<1>12. requests' = [requests EXCEPT ![r] = y]
  BY <1>2, <1>3, <1>4, <1>6, Request DEF ReadIdentity
<1>13. UNCHANGED <<createdAt, vesselOf, primary, archived, identities, clock, doubled, crowded>>
       /\ profile' \in BOOLEAN /\ resumed' \in BOOLEAN /\ updatedAt' \in [Ids -> Times]
  BY Request DEF ReadIdentity, captain, installations, history, WorldType
<1>14. QED
  BY <1>1, <1>7, <1>8, <1>9, <1>10, <1>11, <1>12, <1>13, Quiet

LEMMA WriteIdentityKeeps ==
  ASSUME Inv, NEW r \in Requests, WriteIdentity(r)
  PROVE  Inv'
<1> DEFINE i == requests[r].inst
<1>1. requests[r].pc = "writeIdentity" /\ requests[r].kind = "ingest" /\ Runs(r)
      /\ i \in Ids /\ Shape(requests[r]) /\ requests[r].kind \notin Managers
  BY Ingests, Request DEF WriteIdentity
<1>2. UNCHANGED <<profile, createdAt, vesselOf, primary, archived, updatedAt, published, clock>>
      /\ UNCHANGED <<installations, doubled, resumed, crowded>>
  BY DEF WriteIdentity, captain, installations, history
<1>3. CASE EndRequest(r) /\ observed' = observed
  BY <1>1, <1>2, <1>3, Request, Ends DEF WorldType, identities
<1>4. CASE /\ observed' = [observed EXCEPT ![i] = Merged(r)]
           /\ requests' = [requests EXCEPT
                ![r].pc = IF requests[r].had THEN "findPrimary" ELSE "heartbeat",
                ![r].patch = {}, ![r].seen = Unknown, ![r].row = FALSE]
  <2>1. PICK x \in RequestType : x = requests[r]
    BY Request
  <2>2. PICK step \in {"findPrimary", "heartbeat"} :
          /\ step = IF x.had THEN "findPrimary" ELSE "heartbeat"
          /\ x.had => step = "findPrimary"
    OBVIOUS
  <2>3. PICK y : y = [x EXCEPT !.pc = step, !.patch = {}, !.seen = Unknown, !.row = FALSE]
    OBVIOUS
  <2>4. y \in RequestType
    BY <2>3, UnknownType DEF RequestType, Steps
  <2>5. /\ y.pc = step /\ y.seen = Unknown /\ y.vessel = requests[r].vessel
        /\ y.kind = requests[r].kind /\ y.inst = requests[r].inst
        /\ y.met = requests[r].met /\ y.metManager = requests[r].metManager
        /\ y.at = requests[r].at /\ y.kind = "ingest" /\ y.had = x.had
    BY <1>1, <2>1, <2>3 DEF RequestType
  <2>6. /\ x.at \in Times /\ x.seen \in Identities /\ clock \in Int /\ 0 <= clock /\ x.at <= clock
        /\ \A f \in Fields : x.seen[f] <= clock
    BY <1>1, <2>1, Request, InstallationsAssumption
       DEF RequestType, WorldType, Times, Inv, Core, Dated, Recent, Shape
  <2>7. Merged(r) \in Identities /\ \A f \in Fields : Merged(r)[f] <= clock
    BY <2>1, <2>6 DEF Merged, Identities
  <2>8. Recent(y.seen)
    BY <2>5, <2>6 DEF Recent, Unknown
  <2>9. observed \in [Ids -> Identities] /\ Rooted /\ WorldType
    BY Request DEF WorldType
  <2>10. observed' \in [Ids -> Identities]
    BY <1>1, <1>4, <2>7, <2>9
  <2>11. \A j \in Ids, f \in Fields : observed'[j][f] <= clock
    BY <1>1, <1>4, <2>7, <2>9 DEF Rooted
  <2>12. WorldType'
    BY <1>2, <2>9, <2>10 DEF WorldType
  <2>13. Rooted' /\ Grown
    BY <1>2, <2>9, <2>11 DEF Rooted, Grown, Existing, ExistingVessels
  <2>14. Shape(y)
    BY <1>1, <2>2, <2>5 DEF Shape, SyncSteps
  <2>15. Shape(y)'
    BY <1>2, <2>4, <2>6, <2>13, <2>14, ShapeKept
  <2>16. Own(y)'
    BY <2>2, <2>5 DEF Own, Managers, Syncing, Ingesting
  <2>17. requests' = [requests EXCEPT ![r] = y]
    BY <1>4, <2>1, <2>2, <2>3, Request
  <2>18. \A j \in Ids : observed'[j] = observed[j]
                        \/ (requests[r].kind = "ingest" /\ requests[r].inst = j)
    BY <1>1, <1>4, <2>9
  <2>19. QED
    BY <1>1, <1>2, <2>4, <2>5, <2>8, <2>12, <2>13, <2>15, <2>16, <2>17, <2>18, Step
<1>5. QED
  BY <1>3, <1>4, Zenon DEF WriteIdentity

LEMMA HeartbeatKeeps ==
  ASSUME Inv, NEW r \in Requests, Heartbeat(r)
  PROVE  Inv'
<1>1. requests[r].pc = "heartbeat" /\ requests[r].kind = "ingest" /\ Runs(r)
      /\ requests[r].inst \in Ids /\ Shape(requests[r]) /\ Own(requests[r])
  BY Ingests, Request DEF Heartbeat
<1>2. Goto(r, "done") /\ "done" \in Steps
  BY DEF Heartbeat, Steps
<1>3. PICK y \in RequestType :
        /\ requests' = [requests EXCEPT ![r] = y]
        /\ y.pc = "done" /\ y.kind = requests[r].kind /\ y.inst = requests[r].inst
        /\ y.met = requests[r].met /\ y.metManager = requests[r].metManager
        /\ y.at = requests[r].at /\ y.seen = requests[r].seen /\ y.vessel = requests[r].vessel
        /\ y.had = requests[r].had
  BY <1>2, GoneOn
<1>4. Shape(y)
  BY <1>1, <1>3 DEF Shape
<1>5. Own(y)
  BY <1>1, <1>3 DEF Own, Managers, Syncing, Ingesting
<1>6. UNCHANGED <<createdAt, vesselOf, primary, archived, identities, clock, doubled, crowded>>
      /\ profile' \in BOOLEAN /\ resumed' \in BOOLEAN /\ updatedAt' \in [Ids -> Times]
  BY <1>1, Request DEF Heartbeat, Now, captain, history, WorldType
<1>7. QED
  BY <1>1, <1>3, <1>4, <1>5, <1>6, Quiet

-----------------------------------------------------------------------------
(* The synchronisation. *)

LEMMA Syncs ==
  ASSUME Inv, NEW r \in Requests, requests[r].pc \in SyncSteps
  PROVE  /\ Runs(r) /\ requests[r].kind \in {"primary", "archive", "ingest"}
         /\ requests[r].vessel \in Vessels
         /\ ~requests[r].met => Syncing(requests[r])
BY Request DEF SyncSteps, Shape, Own, RequestType, Kinds, Managers, Runs

(* What a synchronising request goes on to know: that of its own flags is   *)
(* not in question.                                                         *)
LEMMA SyncGoesOn ==
  ASSUME Inv, NEW r \in Requests, requests[r].pc \in SyncSteps,
         NEW y, y.kind = requests[r].kind, y.inst = requests[r].inst,
         y.metManager = requests[r].metManager, y.vessel = requests[r].vessel,
         y.had = requests[r].had, y.at = requests[r].at,
         y.pc \in SyncSteps \/ y.pc = AfterSync(r),
         y.pc \in {"readObserved", "readPublished", "publish"} =>
           y.found \in InstallationsOf(y.vessel)
  PROVE  /\ Shape(y)
         /\ y.kind \in Managers /\ ~y.metManager => Managing(y)
         /\ ~(y.kind = "onboarding")
         /\ y.kind = "ingest" => Ingesting(y)
<1>1. Shape(requests[r]) /\ Own(requests[r])
      /\ requests[r].kind \in {"primary", "archive", "ingest"}
  BY Request, Syncs
<1>2. y.pc \in SyncSteps \/ (y.kind = "ingest" /\ y.pc = "heartbeat")
                         \/ (y.kind # "ingest" /\ y.pc = "done")
  BY DEF AfterSync
<1>3. Shape(y)
  BY <1>1, <1>2 DEF Shape, SyncSteps
<1>4. y.kind \in Managers /\ ~y.metManager => Managing(y)
  <2>1. SUFFICES ASSUME y.kind \in Managers, ~y.metManager PROVE Managing(y)
    OBVIOUS
  <2>2. Managing(requests[r]) /\ y.kind \in {"primary", "archive"}
        /\ y.pc \in SyncSteps \cup {"done"}
    BY <1>1, <1>2, <2>1 DEF Own, Managers
  <2>3. QED
    BY <2>2 DEF Managing, SyncSteps
<1>5. QED
  BY <1>1, <1>2, <1>3, <1>4 DEF Ingesting, SyncSteps

LEMMA FindPrimaryKeeps ==
  ASSUME Inv, NEW r \in Requests, FindPrimary(r)
  PROVE  Inv'
<1>1. requests[r].pc = "findPrimary" /\ requests[r].pc \in SyncSteps /\ Runs(r)
  BY Syncs DEF FindPrimary, SyncSteps
<1>2. UNCHANGED <<createdAt, vesselOf, primary, archived, identities, clock, doubled, crowded>>
      /\ profile' \in BOOLEAN /\ resumed' \in BOOLEAN /\ updatedAt' \in [Ids -> Times]
  BY Request DEF FindPrimary, captain, installations, history, WorldType
<1>3. CASE Primaries(requests[r].vessel) = {} /\ Goto(r, "unpublish")
  <2>1. "unpublish" \in Steps
    BY DEF Steps
  <2>2. PICK y \in RequestType :
          /\ requests' = [requests EXCEPT ![r] = y]
          /\ y.pc = "unpublish" /\ y.kind = requests[r].kind /\ y.inst = requests[r].inst
          /\ y.met = requests[r].met /\ y.metManager = requests[r].metManager
          /\ y.at = requests[r].at /\ y.seen = requests[r].seen
          /\ y.vessel = requests[r].vessel /\ y.had = requests[r].had
    BY <1>3, <2>1, GoneOn
  <2>3. /\ Shape(y) /\ ~(y.kind = "onboarding") /\ (y.kind = "ingest" => Ingesting(y))
        /\ (y.kind \in Managers /\ ~y.metManager => Managing(y))
    BY <1>1, <2>2, SyncGoesOn DEF SyncSteps
  <2>4. Syncing(y)
    BY <1>3, <2>2 DEF Syncing
  <2>5. Own(y)
    BY <2>3, <2>4 DEF Own
  <2>6. QED
    BY <1>1, <1>2, <2>2, <2>3, <2>5, Quiet
<1>4. ASSUME NEW p \in Primaries(requests[r].vessel),
             requests' = [requests EXCEPT ![r].pc = "readObserved", ![r].found = p]
      PROVE  Inv'
  <2>1. p \in Ids /\ p \in InstallationsOf(requests[r].vessel)
    BY DEF Primaries, InstallationsOf
  <2>2. PICK x \in RequestType : x = requests[r]
    BY Request
  <2>3. PICK y : y = [x EXCEPT !.pc = "readObserved", !.found = p]
    OBVIOUS
  <2>4. y \in RequestType
    BY <2>1, <2>3 DEF RequestType, Steps
  <2>5. /\ y.pc = "readObserved" /\ y.found = p
        /\ y.kind = requests[r].kind /\ y.inst = requests[r].inst
        /\ y.met = requests[r].met /\ y.metManager = requests[r].metManager
        /\ y.at = requests[r].at /\ y.seen = requests[r].seen
        /\ y.vessel = requests[r].vessel /\ y.had = requests[r].had
    BY <2>2, <2>3 DEF RequestType
  <2>6. /\ Shape(y) /\ ~(y.kind = "onboarding") /\ (y.kind = "ingest" => Ingesting(y))
        /\ (y.kind \in Managers /\ ~y.metManager => Managing(y))
    BY <1>1, <2>1, <2>5, SyncGoesOn DEF SyncSteps
  <2>7. Syncing(y)
    BY <2>5 DEF Syncing
  <2>8. Own(y)
    BY <2>6, <2>7 DEF Own
  <2>9. requests' = [requests EXCEPT ![r] = y]
    BY <1>4, <2>2, <2>3, Request
  <2>10. QED
    BY <1>1, <1>2, <2>4, <2>5, <2>6, <2>8, <2>9, Quiet
<1>5. QED
  BY <1>3, <1>4 DEF FindPrimary

LEMMA ReadObservedKeeps ==
  ASSUME Inv, NEW r \in Requests, ReadObserved(r)
  PROVE  Inv'
<1>1. requests[r].pc = "readObserved" /\ requests[r].pc \in SyncSteps /\ Runs(r)
      /\ (~requests[r].met => Syncing(requests[r]))
  BY Syncs DEF ReadObserved, SyncSteps
<1>2. UNCHANGED <<createdAt, vesselOf, primary, archived, identities, clock, doubled, crowded>>
      /\ profile' \in BOOLEAN /\ resumed' \in BOOLEAN /\ updatedAt' \in [Ids -> Times]
  BY Request DEF ReadObserved, captain, installations, history, WorldType
<1>3. requests[r].found \in InstallationsOf(requests[r].vessel) /\ requests[r].found \in Ids
  BY <1>1, Request DEF Shape, InstallationsOf
<1>4. PICK x \in RequestType : x = requests[r]
  BY Request
<1>5. PICK seen \in Identities : seen = observed[x.found]
  BY <1>3, <1>4, Request DEF WorldType
<1>6. PICK step \in {"unpublish", "readPublished"} :
        step = IF seen = Unknown THEN "unpublish" ELSE "readPublished"
  OBVIOUS
<1>7. PICK y : y = [x EXCEPT !.pc = step, !.seen = seen]
  OBVIOUS
<1>8. y \in RequestType
  BY <1>7 DEF RequestType, Steps
<1>9. /\ y.pc = step /\ y.seen = seen /\ y.found = requests[r].found
      /\ y.kind = requests[r].kind /\ y.inst = requests[r].inst
      /\ y.met = requests[r].met /\ y.metManager = requests[r].metManager
      /\ y.at = requests[r].at
      /\ y.vessel = requests[r].vessel /\ y.had = requests[r].had
  BY <1>4, <1>7 DEF RequestType
<1>10. Recent(y.seen)
  BY <1>3, <1>4, <1>5, <1>9, Request DEF Rooted, Recent
<1>11. /\ Shape(y) /\ ~(y.kind = "onboarding") /\ (y.kind = "ingest" => Ingesting(y))
       /\ (y.kind \in Managers /\ ~y.metManager => Managing(y))
  BY <1>1, <1>3, <1>9, SyncGoesOn DEF SyncSteps
<1>12. ~y.met => Syncing(y)
  <2>1. SUFFICES ASSUME ~requests[r].met PROVE Syncing(y)
    BY <1>9
  <2>2. requests[r].found \in Primaries(requests[r].vessel)
    BY <1>1, <2>1 DEF Syncing
  <2>3. y.found \in Primaries(y.vessel) /\ y.seen = observed[y.found]
    BY <1>4, <1>5, <1>9, <2>2
  <2>4. step = "unpublish" => y.seen = Unknown
    BY <1>6, <1>9
  <2>5. step = "readPublished" => y.seen # Unknown
    BY <1>6, <1>9
  <2>6. QED
    BY <1>9, <2>3, <2>4, <2>5 DEF Syncing
<1>13. Own(y)
  BY <1>11, <1>12 DEF Own
<1>14. requests' = [requests EXCEPT ![r] = y]
  BY <1>4, <1>5, <1>6, <1>7, Request DEF ReadObserved, IsUnknown
<1>15. QED
  BY <1>1, <1>2, <1>8, <1>9, <1>10, <1>11, <1>13, <1>14, Quiet

LEMMA ReadPublishedKeeps ==
  ASSUME Inv, NEW r \in Requests, ReadPublished(r)
  PROVE  Inv'
<1>1. requests[r].pc = "readPublished" /\ requests[r].pc \in SyncSteps /\ Runs(r)
      /\ (~requests[r].met => Syncing(requests[r]))
  BY Syncs DEF ReadPublished, SyncSteps
<1>2. UNCHANGED <<createdAt, vesselOf, primary, archived, identities, clock, doubled, crowded>>
      /\ profile' \in BOOLEAN /\ resumed' \in BOOLEAN /\ updatedAt' \in [Ids -> Times]
  BY Request DEF ReadPublished, captain, installations, history, WorldType
<1>3. requests[r].found \in InstallationsOf(requests[r].vessel)
  BY <1>1, Request DEF Shape
<1>4. PICK x \in RequestType : x = requests[r]
  BY Request
<1>5. PICK row : row = (published[x.vessel] # Unpublished)
  OBVIOUS
<1>6. PICK y : y = [x EXCEPT !.pc = "publish", !.row = row]
  OBVIOUS
<1>7. row \in BOOLEAN
  BY <1>5
<1>8. y \in RequestType
  BY <1>6, <1>7 DEF RequestType, Steps
<1>9. /\ y.pc = "publish" /\ y.seen = requests[r].seen /\ y.found = requests[r].found
      /\ y.kind = requests[r].kind /\ y.inst = requests[r].inst
      /\ y.met = requests[r].met /\ y.metManager = requests[r].metManager
      /\ y.at = requests[r].at /\ y.row = row
      /\ y.vessel = requests[r].vessel /\ y.had = requests[r].had
  BY <1>4, <1>6 DEF RequestType
<1>10. /\ Shape(y) /\ ~(y.kind = "onboarding") /\ (y.kind = "ingest" => Ingesting(y))
       /\ (y.kind \in Managers /\ ~y.metManager => Managing(y))
  BY <1>1, <1>3, <1>9, SyncGoesOn DEF SyncSteps
<1>11. ~y.met => Syncing(y)
  BY <1>1, <1>4, <1>5, <1>9 DEF Syncing
<1>12. Own(y)
  BY <1>10, <1>11 DEF Own
<1>13. requests' = [requests EXCEPT ![r] = y]
  BY <1>4, <1>5, <1>6, Request DEF ReadPublished
<1>14. QED
  BY <1>1, <1>2, <1>8, <1>9, <1>10, <1>12, <1>13, Quiet

(* A request that synchronised alone is done: it left what it is to leave.  *)
LEMMA Synchronised ==
  ASSUME Inv, NEW r \in Requests, requests[r].pc \in SyncSteps,
         NEW y \in RequestType, requests' = [requests EXCEPT ![r] = y],
         y.kind = requests[r].kind, y.inst = requests[r].inst, y.met = requests[r].met,
         y.metManager = requests[r].metManager, y.vessel = requests[r].vessel,
         y.had = requests[r].had, y.at = requests[r].at, y.seen = requests[r].seen,
         y.pc = AfterSync(r),
         UNCHANGED <<captain, installations, observed, clock, history>>,
         published' \in [Vessels -> [source : Ids \cup {None}, identity : Identities]],
         ~requests[r].met => Agrees(y.vessel)'
  PROVE  Inv'
<1>1. /\ UNCHANGED <<profile, createdAt, vesselOf, primary, archived, updatedAt>>
      /\ UNCHANGED <<doubled, resumed, crowded>>
  BY DEF captain, installations, history
<1>2. y.pc \in {"heartbeat", "done"}
  BY DEF AfterSync
<1>3. /\ Shape(y) /\ ~(y.kind = "onboarding") /\ (y.kind = "ingest" => Ingesting(y))
      /\ (y.kind \in Managers /\ ~y.metManager => Managing(y))
  BY <1>2, SyncGoesOn
<1>4. WorldType' /\ Rooted' /\ Grown
  BY <1>1, Request DEF WorldType, Rooted, Grown, Existing, ExistingVessels
<1>5. Shape(y)'
  BY <1>1, <1>3 DEF Shape, ExistingVessels, InstallationsOf
<1>6. Own(y)'
  <2>1. ~y.met => Syncing(y)'
    BY <1>2 DEF Syncing
  <2>2. y.kind = "ingest" => Ingesting(y)'
    BY <1>3 DEF Ingesting
  <2>3. y.kind \in Managers /\ ~y.metManager => Managing(y)'
    BY <1>1, <1>3 DEF Managing, InstallationsOf, Primaries, Unarchived
  <2>4. QED
    BY <1>3, <2>1, <2>2, <2>3 DEF Own
<1>7. QED
  BY <1>1, <1>4, <1>5, <1>6, Syncs, Step

LEMMA PublishKeeps ==
  ASSUME Inv, NEW r \in Requests, Publish(r)
  PROVE  Inv'
<1>1. requests[r].pc = "publish" /\ requests[r].pc \in SyncSteps /\ Runs(r)
      /\ (~requests[r].met => Syncing(requests[r]))
  BY Syncs DEF Publish, SyncSteps
<1> DEFINE v == requests[r].vessel
           exists == published[v] # Unpublished
           rec == [source |-> requests[r].found, identity |-> requests[r].seen]
<1>2. UNCHANGED <<captain, installations, observed, clock, history>>
  BY DEF Publish
<1>3. requests[r].found \in Ids /\ v \in Vessels
  BY <1>1, Request, Syncs DEF Shape, InstallationsOf
<1>4. published \in [Vessels -> [source : Ids \cup {None}, identity : Identities]] /\ WorldType
      /\ requests[r].seen \in Identities /\ requests[r].row \in BOOLEAN
  BY Request DEF WorldType, RequestType
<1>5. rec \in [source : Ids \cup {None}, identity : Identities]
  BY <1>3, <1>4
<1>6. ~requests[r].met =>
        /\ requests[r].found \in Primaries(v)
        /\ requests[r].seen = observed[requests[r].found] /\ requests[r].seen # Unknown
        /\ requests[r].row <=> exists
  BY <1>1 DEF Syncing
<1>7. CASE exists /\ ~requests[r].row
  <2>1. EndRequest(r) /\ published' = published
    BY <1>4, <1>7 DEF Publish
  <2>2. QED
    BY <1>1, <1>2, <1>4, <2>1, Ends DEF captain, installations, history, identities, WorldType
<1>8. CASE ~(exists /\ ~requests[r].row)
  <2>1. /\ requests' = [requests EXCEPT ![r].pc = AfterSync(r), ![r].row = FALSE]
        /\ \/ published' = [published EXCEPT ![v] = rec]
           \/ published' = published /\ exists # requests[r].row
    BY <1>8 DEF Publish
  <2>2. PICK x \in RequestType : x = requests[r]
    BY Request
  <2>3. PICK step \in {"heartbeat", "done"} : step = AfterSync(r)
    BY DEF AfterSync
  <2>4. PICK y : y = [x EXCEPT !.pc = step, !.row = FALSE]
    OBVIOUS
  <2>5. y \in RequestType
    BY <2>4 DEF RequestType, Steps
  <2>6. /\ y.pc = AfterSync(r) /\ y.seen = requests[r].seen
        /\ y.kind = requests[r].kind /\ y.inst = requests[r].inst
        /\ y.met = requests[r].met /\ y.metManager = requests[r].metManager
        /\ y.at = requests[r].at /\ y.vessel = requests[r].vessel /\ y.had = requests[r].had
    BY <2>2, <2>3, <2>4 DEF RequestType
  <2>7. requests' = [requests EXCEPT ![r] = y]
    BY <2>1, <2>2, <2>3, <2>4, Request
  <2> HIDE DEF rec
  <2>8. published' \in [Vessels -> [source : Ids \cup {None}, identity : Identities]]
    BY <1>3, <1>4, <1>5, <2>1
  <2>9. ~requests[r].met => Agrees(y.vessel)'
    <3>1. SUFFICES ASSUME ~requests[r].met PROVE Agrees(y.vessel)'
      OBVIOUS
    <3>2. published'[y.vessel] = rec
      BY <1>3, <1>4, <1>6, <2>1, <2>6, <3>1
    <3>3. PICK p : p = requests[r].found
      OBVIOUS
    <3>4. p \in Primaries(y.vessel)' /\ observed'[p] # Unknown
          /\ published'[y.vessel] = [source |-> p, identity |-> observed'[p]]
      BY <1>2, <1>6, <2>6, <3>1, <3>2, <3>3 DEF rec, Primaries, InstallationsOf, installations
    <3>5. QED
      BY <3>4 DEF Agrees
  <2>10. QED
    BY <1>1, <1>2, <2>5, <2>6, <2>7, <2>8, <2>9, Synchronised
<1>9. QED
  BY <1>7, <1>8

LEMMA UnpublishKeeps ==
  ASSUME Inv, NEW r \in Requests, Unpublish(r)
  PROVE  Inv'
<1>1. requests[r].pc = "unpublish" /\ requests[r].pc \in SyncSteps
      /\ (~requests[r].met => Syncing(requests[r]))
      /\ requests[r].vessel \in Vessels
  BY Syncs DEF Unpublish, SyncSteps
<1>2. UNCHANGED <<captain, installations, observed, clock, history>>
      /\ published' = [published EXCEPT ![requests[r].vessel] = Unpublished]
  BY DEF Unpublish
<1>3. Goto(r, AfterSync(r)) /\ AfterSync(r) \in Steps
  BY DEF Unpublish, AfterSync, Steps
<1>4. PICK step \in Steps : step = AfterSync(r)
  BY <1>3
<1>5. PICK y \in RequestType :
        /\ requests' = [requests EXCEPT ![r] = y]
        /\ y.pc = step /\ y.kind = requests[r].kind /\ y.inst = requests[r].inst
        /\ y.met = requests[r].met /\ y.metManager = requests[r].metManager
        /\ y.at = requests[r].at /\ y.seen = requests[r].seen
        /\ y.vessel = requests[r].vessel /\ y.had = requests[r].had
  BY <1>3, <1>4, GoneOn
<1>6. published \in [Vessels -> [source : Ids \cup {None}, identity : Identities]]
      /\ Unpublished \in [source : Ids \cup {None}, identity : Identities]
  BY Request, UnknownType DEF WorldType, Unpublished
<1>7. published' \in [Vessels -> [source : Ids \cup {None}, identity : Identities]]
      /\ published'[y.vessel] = Unpublished
  BY <1>1, <1>2, <1>5, <1>6
<1>8. ~requests[r].met => Agrees(y.vessel)'
  <2>1. SUFFICES ASSUME ~requests[r].met PROVE Agrees(y.vessel)'
    OBVIOUS
  <2>2. Primaries(y.vessel) = {} \/ \E p \in Primaries(y.vessel) : observed[p] = Unknown
    BY <1>1, <1>5, <2>1 DEF Syncing
  <2>3. Primaries(y.vessel)' = Primaries(y.vessel) /\ observed' = observed
    BY <1>2 DEF Primaries, InstallationsOf, installations
  <2>4. QED
    BY <1>7, <2>2, <2>3 DEF Agrees
<1>9. QED
  BY <1>1, <1>2, <1>4, <1>5, <1>7, <1>8, Synchronised

-----------------------------------------------------------------------------
(* One vessel, one installation. *)

LEMMA SingleFrame ==
  ASSUME Single, createdAt' = createdAt, vesselOf' = vesselOf, archived \subseteq archived',
         doubled => doubled'
  PROVE  Single'
BY DEF Single, OneVessel, ExistingVessels, Existing

LEMMA FirstFrame ==
  ASSUME First, UNCHANGED captain, resumed' = resumed, Elsewhere
  PROVE  First'
<1>1. SUFFICES ASSUME ~resumed PROVE First'
  BY DEF First
<1>2. OneVessel' /\ (~profile' => ExistingVessels' = {})
  BY <1>1 DEF First, OneVessel, ExistingVessels, captain
<1>3. \A q \in Requests : Fresh(q)' => Fresh(q)
  BY DEF Elsewhere, Fresh
<1>4. \A q \in Requests : Fresh(q)' => profile' /\ ExistingVessels' = {}
  BY <1>1, <1>3 DEF First, ExistingVessels, captain
<1>5. \A q, r \in Requests : Fresh(q)' /\ Fresh(r)' => q = r
  BY <1>1, <1>3 DEF First
<1>6. \A q \in Requests :
        requests'[q].pc = "writeProfile" /\ requests'[q].vessel = None => ~requests'[q].had
  BY <1>1 DEF First, Elsewhere
<1>7. QED
  BY <1>2, <1>4, <1>5, <1>6 DEF First

LEMMA EndsElsewhere ==
  ASSUME Inv, NEW r \in Requests, EndRequest(r)
  PROVE  Elsewhere
BY Request DEF EndRequest, Elsewhere, Idle

LEMMA SetElsewhere ==
  ASSUME Inv, NEW r \in Requests, NEW y, y.pc \notin {"writeProfile", "writeVessel"},
         requests' = [requests EXCEPT ![r] = y]
  PROVE  Elsewhere
BY Request DEF Elsewhere

LEMMA GoesElsewhere ==
  ASSUME Inv, NEW r \in Requests, NEW step \in Steps \ {"writeProfile", "writeVessel"},
         Goto(r, step)
  PROVE  Elsewhere
<1>1. PICK y \in RequestType : requests' = [requests EXCEPT ![r] = y] /\ y.pc = step
  BY GoneOn
<1>2. QED
  BY <1>1, SetElsewhere

LEMMA OthersElsewhere ==
  ASSUME Inv, NEW r \in Requests,
         \/ FindInstallation(r) \/ WriteInstallation(r)
         \/ Demote(r) \/ Promote(r) \/ Archive(r) \/ FindFallback(r) \/ PromoteFallback(r)
         \/ ReadIdentity(r) \/ WriteIdentity(r) \/ Heartbeat(r)
         \/ Sync(r) \/ Finish(r) \/ Fail(r)
  PROVE  Elsewhere
<1>1. PICK x \in RequestType : x = requests[r]
  BY Request
<1>2. \A step \in Steps \ {"writeProfile", "writeVessel"} : Goto(r, step) => Elsewhere
  BY GoesElsewhere
<1>3. EndRequest(r) => Elsewhere
  BY EndsElsewhere
<1>4. ASSUME NEW step \in Steps, NEW found, step \notin {"writeProfile", "writeVessel"},
             requests' = [requests EXCEPT ![r].pc = step, ![r].found = found]
      PROVE  Elsewhere
  <2>1. PICK y : y = [x EXCEPT !.pc = step, !.found = found]
    OBVIOUS
  <2>2. y.pc = step /\ requests' = [requests EXCEPT ![r] = y]
    BY <1>1, <1>4, <2>1, Request DEF RequestType
  <2>3. QED
    BY <1>4, <2>2, SetElsewhere
<1>5. ASSUME NEW step \in Steps, NEW seen, step \notin {"writeProfile", "writeVessel"},
             requests' = [requests EXCEPT ![r].pc = step, ![r].seen = seen]
      PROVE  Elsewhere
  <2>1. PICK y : y = [x EXCEPT !.pc = step, !.seen = seen]
    OBVIOUS
  <2>2. y.pc = step /\ requests' = [requests EXCEPT ![r] = y]
    BY <1>1, <1>5, <2>1, Request DEF RequestType
  <2>3. QED
    BY <1>5, <2>2, SetElsewhere
<1>6. ASSUME NEW step \in Steps, NEW row, step \notin {"writeProfile", "writeVessel"},
             requests' = [requests EXCEPT ![r].pc = step, ![r].row = row]
      PROVE  Elsewhere
  <2>1. PICK y : y = [x EXCEPT !.pc = step, !.row = row]
    OBVIOUS
  <2>2. y.pc = step /\ requests' = [requests EXCEPT ![r] = y]
    BY <1>1, <1>6, <2>1, Request DEF RequestType
  <2>3. QED
    BY <1>6, <2>2, SetElsewhere
<1>7. \A step \in {"done", "promote", "findPrimary", "findFallback", "unpublish", "heartbeat",
                   "writeInstallation", "promoteFallback", "readObserved", "publish",
                   "readPublished", "writeIdentity"} :
        step \in Steps /\ step \notin {"writeProfile", "writeVessel"}
  BY DEF Steps
<1>8. CASE FindInstallation(r)
  BY <1>4, <1>7, <1>8 DEF FindInstallation
<1>9. CASE WriteInstallation(r)
  BY <1>2, <1>7, <1>9 DEF WriteInstallation
<1>10. CASE Demote(r) \/ Promote(r) \/ PromoteFallback(r) \/ Heartbeat(r)
  BY <1>2, <1>7, <1>10 DEF Demote, Promote, PromoteFallback, Heartbeat
<1>11. CASE Archive(r)
  BY <1>2, <1>7, <1>11 DEF Archive
<1>12. CASE FindFallback(r)
  BY <1>2, <1>4, <1>7, <1>12 DEF FindFallback
<1>13. CASE ReadIdentity(r)
  <2>1. PICK y : y = [x EXCEPT !.pc = "writeIdentity", !.seen = observed[x.inst],
                               !.row = observed[x.inst] # Unknown]
    OBVIOUS
  <2>2. y.pc = "writeIdentity" /\ requests' = [requests EXCEPT ![r] = y]
    BY <1>1, <1>13, <2>1, Request DEF RequestType, ReadIdentity
  <2>3. QED
    BY <2>2, SetElsewhere
<1>14. CASE WriteIdentity(r)
  <2>1. PICK y : y = [x EXCEPT !.pc = IF x.had THEN "findPrimary" ELSE "heartbeat",
                               !.patch = {}, !.seen = Unknown, !.row = FALSE]
    OBVIOUS
  <2>2. y.pc \in {"findPrimary", "heartbeat"}
    BY <2>1 DEF RequestType
  <2>3. EndRequest(r) \/ requests' = [requests EXCEPT ![r] = y]
    BY <1>1, <1>14, <2>1, Request DEF WriteIdentity
  <2>4. QED
    BY <1>3, <2>2, <2>3, SetElsewhere
<1>15. CASE FindPrimary(r)
  BY <1>2, <1>4, <1>7, <1>15 DEF FindPrimary
<1>16. CASE ReadObserved(r)
  <2>1. PICK step \in {"unpublish", "readPublished"} :
          requests' = [requests EXCEPT ![r].pc = step, ![r].seen = observed[requests[r].found]]
    BY <1>16 DEF ReadObserved
  <2>2. PICK seen : seen = observed[requests[r].found]
    OBVIOUS
  <2>3. QED
    BY <1>5, <1>7, <2>1, <2>2
<1>17. CASE ReadPublished(r)
  <2>1. PICK row : row = (published[requests[r].vessel] # Unpublished)
    OBVIOUS
  <2>2. requests' = [requests EXCEPT ![r].pc = "publish", ![r].row = row]
    BY <1>17, <2>1 DEF ReadPublished
  <2>3. QED
    BY <1>6, <1>7, <2>2
<1>18. CASE Publish(r)
  <2>1. PICK step \in {"heartbeat", "done"} : step = AfterSync(r)
    BY DEF AfterSync
  <2>2. EndRequest(r) \/ requests' = [requests EXCEPT ![r].pc = step, ![r].row = FALSE]
    BY <1>18, <2>1 DEF Publish
  <2>3. QED
    BY <1>3, <1>6, <1>7, <2>2
<1>19. CASE Unpublish(r)
  <2>1. PICK step \in {"heartbeat", "done"} : step = AfterSync(r)
    BY DEF AfterSync
  <2>2. QED
    BY <1>2, <1>7, <1>19, <2>1 DEF Unpublish
<1>20. CASE Finish(r) \/ Fail(r)
  BY <1>3, <1>20 DEF Finish, Fail
<1>21. QED
  BY <1>8, <1>9, <1>10, <1>11, <1>12, <1>13, <1>14, <1>15, <1>16, <1>17, <1>18, <1>19, <1>20
     DEF Sync

LEMMA FindVesselFirst ==
  ASSUME Inv, First, NEW r \in Requests, FindVessel(r)
  PROVE  First'
<1>1. PICK v \in IF Newest = {} THEN {None} ELSE Newest :
        /\ requests' = [requests EXCEPT ![r].pc = "writeProfile", ![r].vessel = v]
        /\ resumed' = (resumed \/ (v = None /\ requests[r].had))
  BY DEF FindVessel
<1>2. profile' = profile /\ createdAt' = createdAt
  BY DEF FindVessel, captain
<1>3. SUFFICES ASSUME ~resumed, ~(v = None /\ requests[r].had) PROVE First'
  BY <1>1 DEF First
<1>4. PICK x \in RequestType : x = requests[r]
  BY Request
<1>5. PICK y : y = [x EXCEPT !.pc = "writeProfile", !.vessel = v]
  OBVIOUS
<1>6. y.pc = "writeProfile" /\ y.vessel = v /\ y.had = requests[r].had
  BY <1>4, <1>5 DEF RequestType
<1>7. requests' = [requests EXCEPT ![r] = y] /\ requests \in [Requests -> RequestType]
  BY <1>1, <1>4, <1>5, Request
<1>8. requests'[r] = y /\ \A q \in Requests : q # r => requests'[q] = requests[q]
  BY <1>7
<1>9. OneVessel' /\ (~profile' => ExistingVessels' = {})
  BY <1>2, <1>3 DEF First, OneVessel, ExistingVessels
<1>10. \A q \in Requests : Fresh(q)' => Fresh(q)
  BY <1>6, <1>8 DEF Fresh
<1>11. \A q \in Requests : Fresh(q)' => profile' /\ ExistingVessels' = {}
  BY <1>2, <1>3, <1>10 DEF First, ExistingVessels
<1>12. \A p, q \in Requests : Fresh(p)' /\ Fresh(q)' => p = q
  BY <1>3, <1>10 DEF First
<1>13. \A q \in Requests :
         requests'[q].pc = "writeProfile" /\ requests'[q].vessel = None => ~requests'[q].had
  BY <1>3, <1>6, <1>8 DEF First
<1>14. QED
  BY <1>9, <1>11, <1>12, <1>13 DEF First

LEMMA WriteProfileFirst ==
  ASSUME Inv, First, NEW r \in Requests, WriteProfile(r)
  PROVE  First'
<1>1. requests[r].pc = "writeProfile" /\ createdAt' = createdAt /\ resumed' = resumed
  BY DEF WriteProfile, history
<1>2. CASE ProfileTaken(r)
  BY <1>1, <1>2, EndsElsewhere, FirstFrame DEF WriteProfile, captain
<1>3. CASE ~ProfileTaken(r)
  <2>1. Goto(r, "writeVessel") /\ profile' = TRUE /\ "writeVessel" \in Steps
    BY <1>3 DEF WriteProfile, Steps
  <2>2. SUFFICES ASSUME ~resumed PROVE First'
    BY <1>1 DEF First
  <2>3. PICK y \in RequestType :
          /\ requests' = [requests EXCEPT ![r] = y]
          /\ y.pc = "writeVessel" /\ y.vessel = requests[r].vessel
    BY <2>1, GoneOn
  <2>4. requests'[r] = y /\ \A q \in Requests : q # r => requests'[q] = requests[q]
    BY <2>3, Request
  <2>5. OneVessel' /\ ExistingVessels' = ExistingVessels
    BY <1>1, <2>2 DEF First, OneVessel, ExistingVessels
  <2>6. CASE requests[r].vessel = None
    <3>1. ~requests[r].had
      BY <1>1, <2>2, <2>6 DEF First
    <3>2. ~profile
      BY <1>3, <3>1 DEF ProfileTaken
    <3>3. ExistingVessels = {} /\ \A q \in Requests : ~Fresh(q)
      BY <2>2, <3>2 DEF First
    <3>4. \A q \in Requests : Fresh(q)' => q = r
      BY <2>4, <3>3 DEF Fresh
    <3>5. \A q \in Requests :
            requests'[q].pc = "writeProfile" /\ requests'[q].vessel = None => ~requests'[q].had
      BY <2>2, <2>3, <2>4 DEF First
    <3>6. QED
      BY <2>1, <2>5, <3>3, <3>4, <3>5 DEF First
  <2>7. CASE requests[r].vessel # None
    <3>1. \A q \in Requests : Fresh(q)' => Fresh(q)
      BY <2>3, <2>4, <2>7 DEF Fresh
    <3>2. \A q \in Requests : Fresh(q)' => ExistingVessels = {}
      BY <2>2, <3>1 DEF First
    <3>3. \A p, q \in Requests : Fresh(p)' /\ Fresh(q)' => p = q
      BY <2>2, <3>1 DEF First
    <3>4. \A q \in Requests :
            requests'[q].pc = "writeProfile" /\ requests'[q].vessel = None => ~requests'[q].had
      BY <2>2, <2>3, <2>4 DEF First
    <3>5. QED
      BY <2>1, <2>5, <3>2, <3>3, <3>4 DEF First
  <2>8. QED
    BY <2>6, <2>7
<1>4. QED
  BY <1>2, <1>3

LEMMA WriteVesselFirst ==
  ASSUME Inv, First, Single, NEW r \in Requests, WriteVessel(r)
  PROVE  First' /\ Single'
<1>1. /\ requests[r].pc = "writeVessel" /\ requests[r].kind = "onboarding"
      /\ profile' = profile /\ resumed' = resumed /\ doubled' = doubled
      /\ vesselOf' = vesselOf /\ archived' = archived
  BY Onboards DEF WriteVessel, installations, history
<1>2. CASE requests[r].vessel # None
  <2>1. Goto(r, "findInstallation") /\ createdAt' = createdAt /\ "findInstallation" \in Steps
    BY <1>2 DEF WriteVessel, Steps
  <2>2. Elsewhere
    BY <2>1, GoesElsewhere
  <2>3. QED
    BY <1>1, <2>1, <2>2, FirstFrame, SingleFrame DEF captain
<1>3. CASE requests[r].vessel = None
  <2>1. PICK v \in Vessels \ ExistingVessels :
          /\ createdAt' = [createdAt EXCEPT ![v] = requests[r].at]
          /\ requests' = [requests EXCEPT ![r].pc = "findInstallation", ![r].vessel = v]
    BY <1>3 DEF WriteVessel
  <2>2. createdAt \in [Vessels -> Times]
    BY Request DEF WorldType
  <2>3. ExistingVessels = {} => OneVessel'
    BY <2>1, <2>2 DEF OneVessel, ExistingVessels
  <2>4. Single'
    <3>1. SUFFICES ASSUME ~doubled PROVE Single'
      BY <1>1 DEF Single
    <3>2. Filing(requests[r])
      BY <1>1, <3>1, Request DEF Own
    <3>3. ExistingVessels = {}
      BY <1>1, <1>3, <3>2 DEF Filing
    <3>4. QED
      BY <1>1, <2>3, <3>1, <3>3 DEF Single, Existing
  <2>5. First'
    <3>1. SUFFICES ASSUME ~resumed PROVE First'
      BY <1>1 DEF First
    <3>2. Fresh(r) /\ profile /\ ExistingVessels = {} /\ \A q \in Requests : Fresh(q) => q = r
      BY <1>1, <1>3, <3>1 DEF First, Fresh
    <3>3. PICK y : y = [requests[r] EXCEPT !.pc = "findInstallation", !.vessel = v]
      OBVIOUS
    <3>4. y.pc = "findInstallation"
      BY <3>3, Request DEF RequestType
    <3>5. requests' = [requests EXCEPT ![r] = y]
      BY <2>1, <3>3, Request
    <3>6. requests'[r] = y /\ \A q \in Requests : q # r => requests'[q] = requests[q]
      BY <3>5, Request
    <3>7. \A q \in Requests : ~Fresh(q)'
      BY <3>2, <3>4, <3>6 DEF Fresh
    <3>8. \A q \in Requests :
            requests'[q].pc = "writeProfile" /\ requests'[q].vessel = None => ~requests'[q].had
      BY <3>1, <3>4, <3>6 DEF First
    <3>9. QED
      BY <1>1, <2>3, <3>2, <3>7, <3>8 DEF First
  <2>6. QED
    BY <2>4, <2>5
<1>4. QED
  BY <1>2, <1>3

LEMMA WriteInstallationSingle ==
  ASSUME Inv, Single, NEW r \in Requests, WriteInstallation(r)
  PROVE  Single'
<1>1. requests[r].pc = "writeInstallation" /\ requests[r].kind = "onboarding"
      /\ createdAt' = createdAt /\ archived' = archived /\ doubled' = doubled
  BY Onboards DEF WriteInstallation, captain, history
<1>2. SUFFICES ASSUME ~doubled PROVE Single'
  BY <1>1 DEF Single
<1>3. Filing(requests[r]) /\ Shape(requests[r])
  BY <1>1, <1>2, Request DEF Own
<1>4. vesselOf \in [Ids -> Vessels \cup {None}]
  BY Request DEF WorldType
<1>5. PICK i \in IF requests[r].found = None THEN Ids \ Existing ELSE {requests[r].found} :
        vesselOf' = [vesselOf EXCEPT ![i] = requests[r].vessel]
  BY DEF WriteInstallation
<1>6. OneVessel'
  BY <1>1, <1>2 DEF Single, OneVessel, ExistingVessels
<1>7. \A j, k \in (Existing \ archived)' : j = k
  <2>1. CASE requests[r].found = None
    <3>1. Existing \subseteq archived
      BY <1>1, <1>3, <2>1 DEF Filing
    <3>2. (Existing \ archived)' \subseteq {i}
      BY <1>1, <1>4, <1>5, <3>1 DEF Existing
    <3>3. QED
      BY <3>2
  <2>2. CASE requests[r].found # None
    <3>1. i \in InstallationsOf(requests[r].vessel) /\ i = requests[r].found
          /\ requests[r].vessel # None
      BY <1>1, <1>3, <1>5, <2>2, InstallationsAssumption DEF Shape, ExistingVessels
    <3>2. vesselOf' = vesselOf
      BY <1>4, <1>5, <3>1 DEF InstallationsOf
    <3>3. QED
      BY <1>1, <1>2, <3>2 DEF Single, Existing
  <2>3. QED
    BY <2>1, <2>2
<1>8. QED
  BY <1>1, <1>6, <1>7 DEF Single

-----------------------------------------------------------------------------
(* The invariant. *)

LEMMA InitHolds == Init => IInv
<1>1. SUFFICES ASSUME Init PROVE IInv
  OBVIOUS
<1>2. /\ profile \in BOOLEAN /\ createdAt \in [Vessels -> Times]
      /\ vesselOf \in [Ids -> Vessels \cup {None}] /\ primary \subseteq Ids
      /\ clock \in {0, 1}
      /\ profile => clock = 1
      /\ \A i \in Existing : vesselOf[i] \in ExistingVessels
      /\ OneVessel
      /\ \A i, j \in Existing : i = j
      /\ ~profile => ExistingVessels = {}
  <2>1. CASE /\ profile = FALSE
             /\ createdAt = [v \in Vessels |-> 0]
             /\ vesselOf = [i \in Ids |-> None]
             /\ primary = {}
    <3>1. ExistingVessels = {} /\ Existing = {}
      BY <2>1 DEF ExistingVessels, Existing
    <3>2. clock = 0
      BY <1>1, <2>1 DEF Init
    <3>3. QED
      BY <2>1, <3>1, <3>2, UnknownType DEF OneVessel
  <2>2. CASE /\ profile = TRUE
             /\ \E v \in Vessels, i \in Ids :
                  /\ createdAt = [w \in Vessels |-> IF w = v THEN 1 ELSE 0]
                  /\ vesselOf = [j \in Ids |-> IF j = i THEN v ELSE None]
                  /\ primary \in SUBSET {i}
    <3>1. PICK v \in Vessels, i \in Ids :
            /\ createdAt = [w \in Vessels |-> IF w = v THEN 1 ELSE 0]
            /\ vesselOf = [j \in Ids |-> IF j = i THEN v ELSE None]
            /\ primary \in SUBSET {i}
      BY <2>2
    <3>2. ExistingVessels = {v} /\ Existing = {i} /\ vesselOf[i] = v
      BY <3>1, InstallationsAssumption DEF ExistingVessels, Existing
    <3>3. clock = 1
      BY <1>1, <2>2 DEF Init
    <3>4. primary \subseteq Ids
      BY <3>1
    <3>5. createdAt \in [Vessels -> Times] /\ vesselOf \in [Ids -> Vessels \cup {None}]
      BY <3>1, UnknownType
    <3>6. QED
      BY <2>2, <3>2, <3>3, <3>4, <3>5 DEF OneVessel
  <2>3. QED
    BY <1>1, <2>1, <2>2 DEF Init
<1>3. clock \in Times /\ clock \in Int /\ 0 <= clock
  BY <1>2, UnknownType
<1>4. \A r \in Requests : requests[r] = Idle
  BY <1>1 DEF Init
<1>5. TypeOK
  <2>1. updatedAt \in [Ids -> Times] /\ observed \in [Ids -> Identities]
        /\ archived \subseteq Ids /\ crowded \subseteq Ids
        /\ doubled \in BOOLEAN /\ resumed \in BOOLEAN
        /\ requests \in [Requests -> RequestType]
    BY <1>1, UnknownType, IdleType DEF Init
  <2>2. published \in [Vessels -> [source : Ids \cup {None}, identity : Identities]]
    BY <1>1, UnknownType DEF Init, Unpublished
  <2>3. QED
    BY <1>2, <1>3, <2>1, <2>2 DEF TypeOK
<1>6. \A r \in Requests : Shape(requests[r]) /\ Own(requests[r])
  <2>1. Shape(Idle) /\ Own(Idle)
    BY <1>3 DEF Idle, Shape, Own, Managers
  <2>2. QED
    BY <1>4, <2>1
<1>7. Histories
  <2>1. Idle.pc = "idle"
    BY DEF Idle
  <2>2. \A r \in Requests : ~Runs(r)
    BY <1>4, <2>1 DEF Runs
  <2>3. QED
    BY <2>2, Zenon DEF Histories
<1>8. Rooted /\ Dated
  <2>1. \A f \in Fields : Unknown[f] <= clock
    BY <1>3 DEF Unknown
  <2>2. \A i \in Ids : observed[i] = Unknown
    BY <1>1 DEF Init
  <2>3. QED
    BY <1>2, <1>4, <2>1, <2>2 DEF Rooted, Dated, Recent, Runs, Idle
<1>9. Single
  BY <1>2 DEF Single
<1>10. First
  BY <1>2, <1>4 DEF First, Fresh, Idle
<1>11. QED
  BY <1>5, <1>6, <1>7, <1>8, <1>9, <1>10 DEF IInv, Inv, Core

LEMMA InvHolds ==
  ASSUME IInv, NEW r \in Requests,
         Onboarding(r) \/ Management(r) \/ Ingest(r) \/ Sync(r) \/ Finish(r) \/ Fail(r)
  PROVE  Inv'
<1>1. Inv /\ Single
  BY DEF IInv
<1>2. CASE Onboarding(r)
  BY <1>1, <1>2, BeginOnboardingKeeps, FindVesselKeeps, WriteProfileKeeps, WriteVesselKeeps,
     FindInstallationKeeps, WriteInstallationKeeps DEF Onboarding
<1>3. CASE Management(r)
  BY <1>1, <1>3, BeginPrimaryKeeps, DemoteKeeps, PromoteKeeps, BeginArchiveKeeps, ArchiveKeeps,
     FindFallbackKeeps, PromoteFallbackKeeps DEF Management
<1>4. CASE Ingest(r)
  BY <1>1, <1>4, BeginIngestKeeps, ReadIdentityKeeps, WriteIdentityKeeps, HeartbeatKeeps
     DEF Ingest
<1>5. CASE Sync(r)
  BY <1>1, <1>5, FindPrimaryKeeps, ReadObservedKeeps, ReadPublishedKeeps, PublishKeeps,
     UnpublishKeeps DEF Sync
<1>6. CASE Finish(r) \/ Fail(r)
  BY <1>1, <1>6, FinishKeeps
<1>7. QED
  BY <1>2, <1>3, <1>4, <1>5, <1>6

(* The steps but those that write a profile, a vessel or an installation.   *)
LEMMA TablesKept ==
  ASSUME IInv, NEW r \in Requests,
         \/ BeginOnboarding(r) \/ FindInstallation(r)
         \/ Management(r) \/ Ingest(r) \/ Sync(r) \/ Finish(r) \/ Fail(r)
  PROVE  Single' /\ First'
<1>1. Inv /\ Single /\ First
  BY DEF IInv
<1>2. Elsewhere
  BY <1>1, BeginOnboardingKeeps, BeginPrimaryKeeps, BeginArchiveKeeps, BeginIngestKeeps,
     OthersElsewhere DEF Management, Ingest
<1>3. /\ UNCHANGED captain /\ resumed' = resumed
      /\ vesselOf' = vesselOf /\ archived \subseteq archived' /\ (doubled => doubled')
  <2>1. CASE BeginOnboarding(r)
    <3>1. doubled' = (doubled \/ \E q \in Requests : requests[q].kind = "onboarding")
      BY <2>1, Zenon DEF BeginOnboarding
    <3>2. doubled => doubled'
      BY <3>1, Zenon
    <3>3. QED
      BY <2>1, <3>2 DEF BeginOnboarding, installations, captain
  <2>2. CASE FindInstallation(r) \/ BeginPrimary(r) \/ BeginArchive(r)
    <3>1. UNCHANGED <<captain, installations>>
      BY <2>2, Zenon DEF FindInstallation, BeginPrimary, BeginArchive
    <3>2. UNCHANGED history
      BY <2>2, Zenon DEF FindInstallation, BeginPrimary, BeginArchive
    <3>3. QED
      BY <3>1, <3>2 DEF installations, history, captain
  <2>3. CASE Demote(r) \/ Promote(r) \/ PromoteFallback(r) \/ FindFallback(r)
    BY <2>3 DEF Demote, Promote, PromoteFallback, FindFallback, installations, history, captain
  <2>4. CASE Archive(r)
    BY <2>4 DEF Archive, history, captain
  <2>5. CASE BeginIngest(r)
    BY <2>5 DEF BeginIngest, installations, captain
  <2>6. CASE ReadIdentity(r) \/ WriteIdentity(r) \/ Heartbeat(r)
    BY <2>6 DEF ReadIdentity, WriteIdentity, Heartbeat, installations, history, captain
  <2>7. CASE Sync(r)
    BY <2>7 DEF Sync, FindPrimary, ReadObserved, ReadPublished, Publish, Unpublish,
                installations, history, captain
  <2>8. CASE Finish(r) \/ Fail(r)
    BY <2>8 DEF Finish, Fail, installations, history, captain
  <2>9. QED
    BY <2>1, <2>2, <2>3, <2>4, <2>5, <2>6, <2>7, <2>8 DEF Management, Ingest
<1>4. QED
  BY <1>1, <1>2, <1>3, SingleFrame, FirstFrame DEF captain

LEMMA StepHolds == IInv /\ [Next]_vars => IInv'
<1>1. SUFFICES ASSUME IInv, [Next]_vars PROVE IInv'
  OBVIOUS
<1>2. Inv /\ Single /\ First
  BY <1>1 DEF IInv
<1>3. CASE UNCHANGED vars
  <2>1. /\ UNCHANGED <<profile, createdAt, vesselOf, primary, archived, updatedAt, observed>>
        /\ UNCHANGED <<published, requests, clock, doubled, resumed, crowded>>
    BY <1>3 DEF vars, captain, installations, identities, history
  <2>2. TypeOK' /\ Histories' /\ Rooted' /\ Dated'
    BY <1>2, <2>1 DEF Inv, Core, TypeOK, Histories, Rooted, Dated, Recent, Runs,
         ExistingVessels, Existing
  <2>3. \A r \in Requests : Shape(requests[r])'
    BY <1>2, <2>1 DEF Inv, Core, Shape, ExistingVessels, InstallationsOf
  <2>4. \A r \in Requests : Own(requests[r])'
    BY <1>2, <2>1 DEF Inv, Own, Managing, Syncing, Filing, Ingesting, Agrees,
         ExistingVessels, Existing, InstallationsOf, Primaries, Unarchived
  <2>5. Single' /\ First'
    BY <1>2, <2>1 DEF Single, OneVessel, First, Fresh, ExistingVessels, Existing
  <2>6. QED
    BY <2>2, <2>3, <2>4, <2>5 DEF IInv, Inv, Core
<1>4. ASSUME NEW r \in Requests,
             Onboarding(r) \/ Management(r) \/ Ingest(r) \/ Sync(r) \/ Finish(r) \/ Fail(r)
      PROVE  IInv'
  <2>1. Inv'
    BY <1>1, <1>4, InvHolds
  <2>2. CASE FindVessel(r)
    <3>1. First'
      BY <1>2, <2>2, FindVesselFirst
    <3>2. Single'
      BY <1>2, <2>2, SingleFrame DEF FindVessel, captain, installations
    <3>3. QED
      BY <2>1, <3>1, <3>2 DEF IInv
  <2>3. CASE WriteProfile(r)
    <3>1. First'
      BY <1>2, <2>3, WriteProfileFirst
    <3>2. Single'
      BY <1>2, <2>3, SingleFrame DEF WriteProfile, installations, history
    <3>3. QED
      BY <2>1, <3>1, <3>2 DEF IInv
  <2>4. CASE WriteVessel(r)
    BY <1>2, <2>1, <2>4, WriteVesselFirst DEF IInv
  <2>5. CASE WriteInstallation(r)
    <3>1. Single'
      BY <1>2, <2>5, WriteInstallationSingle
    <3>2. Elsewhere
      BY <1>2, <2>5, OthersElsewhere
    <3>3. First'
      BY <1>2, <2>5, <3>2, FirstFrame DEF WriteInstallation, history
    <3>4. QED
      BY <2>1, <3>1, <3>3 DEF IInv
  <2>6. CASE \/ BeginOnboarding(r) \/ FindInstallation(r)
             \/ Management(r) \/ Ingest(r) \/ Sync(r) \/ Finish(r) \/ Fail(r)
    BY <1>1, <2>1, <2>6, TablesKept DEF IInv
  <2>7. QED
    BY <1>4, <2>2, <2>3, <2>4, <2>5, <2>6 DEF Onboarding
<1>5. QED
  BY <1>1, <1>3, <1>4 DEF Next

LEMMA Invariant == Spec => []IInv
<1>1. QED
  BY InitHolds, StepHolds, PTL DEF Spec

-----------------------------------------------------------------------------
(* The theorems. *)

(* Whatever requests run, overlap and fail, the tables and what a request   *)
(* holds of them stay what the schema says.                                 *)
THEOREM TypeCorrect == Spec => []TypeOK
<1>1. IInv => TypeOK
  BY DEF IInv, Inv, Core
<1>2. QED
  BY <1>1, Invariant, PTL

(* onboarding.post.ts: looking before inserting keeps a captain to one      *)
(* vessel and one installation in use, unless two onboardings overlap.      *)
THEOREM OneOfEachHolds == Spec => []OneOfEach
<1>1. IInv => OneOfEach
  BY DEF IInv, Single, OneVessel, OneOfEach
<1>2. QED
  BY <1>1, Invariant, PTL

(* onboarding.post.ts: the key of the profile lets one of several first     *)
(* forms through; a second vessel takes a form that found a profile whose   *)
(* vessel was missing.                                                      *)
THEOREM FirstFormHolds == Spec => []FirstFormWins
<1>1. IInv => FirstFormWins
  BY DEF IInv, First, OneVessel, FirstFormWins
<1>2. QED
  BY <1>1, Invariant, PTL

(* primary.post.ts: a request no other manager ran beside leaves the chosen *)
(* installation as the only primary one of its vessel.                      *)
THEOREM PrimaryHolds == Spec => []PrimaryTakesEffect
<1>1. IInv => PrimaryTakesEffect
  <2>1. SUFFICES ASSUME IInv, NEW r \in Requests, Done(r, "primary"), ~requests[r].metManager
                 PROVE  /\ InstallationsOf(requests[r].vessel) \cap primary = {requests[r].inst}
                        /\ requests[r].inst \notin archived
    BY DEF PrimaryTakesEffect
  <2>2. Managing(requests[r])
    BY <2>1, Manages DEF IInv, Done
  <2>3. QED
    BY <2>1, <2>2 DEF Managing, Done
<1>2. QED
  BY <1>1, Invariant, PTL

(* archive.post.ts: an archived installation is not primary, and if it was, *)
(* another that is left has become it.                                      *)
THEOREM ArchiveHolds == Spec => []ArchiveHandsOver
<1>1. IInv => ArchiveHandsOver
  <2>1. SUFFICES ASSUME IInv, NEW r \in Requests, Done(r, "archive"), ~requests[r].metManager
                 PROVE  /\ requests[r].inst \in archived \ primary
                        /\ requests[r].had /\ Unarchived(requests[r].vessel) # {} =>
                             Primaries(requests[r].vessel) # {}
    BY DEF ArchiveHandsOver
  <2>2. Managing(requests[r])
    BY <2>1, Manages DEF IInv, Done
  <2>3. QED
    BY <2>1, <2>2 DEF Managing, Done
<1>2. QED
  BY <1>1, Invariant, PTL

(* syncVesselObservedIdentityFromPrimaryInstallation: whatever came before, *)
(* a request that ends in it and ran alone leaves the vessel the identity   *)
(* of a primary installation, or none.                                      *)
THEOREM SyncHolds == Spec => []SyncAgrees
<1>1. IInv => SyncAgrees
  <2>1. SUFFICES ASSUME IInv, NEW r \in Requests, ~requests[r].met,
                        \/ Done(r, "primary") \/ Done(r, "archive")
                        \/ (Done(r, "ingest") /\ requests[r].had)
                 PROVE  Agrees(requests[r].vessel)
    BY DEF SyncAgrees
  <2>2. Syncing(requests[r])
    BY <2>1, Request DEF IInv, Done, Own
  <2>3. QED
    BY <2>1, <2>2 DEF Syncing, Done
<1>2. QED
  BY <1>1, Invariant, PTL

(* upsertInstallationObservedIdentity: its read-merge-write ages no field   *)
(* of an installation two ingests never ran at once for.                    *)
THEOREM IdentityHolds == Spec => IdentityNeverOlder
<1>1. IInv /\ [Next]_vars => [\A i \in Ids : i \notin crowded' =>
                                \A f \in Fields : observed'[i][f] >= observed[i][f]]_vars
  <2>1. SUFFICES ASSUME IInv, Next, NEW i \in Ids, i \notin crowded', NEW f \in Fields
                 PROVE  observed'[i][f] >= observed[i][f]
    OBVIOUS
  <2>2. observed \in [Ids -> Identities] /\ observed[i][f] \in Int /\ Inv
    BY <2>1, Request, InstallationsAssumption DEF IInv, Inv, Core, TypeOK, Identities, Times
  <2>3. CASE observed' = observed
    BY <2>2, <2>3
  <2>4. CASE observed' # observed
    <3>1. PICK r \in Requests : WriteIdentity(r)
      BY <2>1, <2>4, ZenonT(40) DEF Next, Onboarding, Management, Ingest, Sync, BeginOnboarding, FindVessel,
           WriteProfile, WriteVessel, FindInstallation, WriteInstallation, BeginPrimary, Demote,
           Promote, BeginArchive, Archive, FindFallback, PromoteFallback, BeginIngest,
           ReadIdentity, Heartbeat, FindPrimary, ReadObserved, ReadPublished, Publish,
           Unpublish, Finish, Fail, identities
    <3>2. requests[r].pc = "writeIdentity" /\ requests[r].kind = "ingest" /\ crowded' = crowded
          /\ (requests[r].inst \notin crowded => Ingesting(requests[r]))
          /\ requests[r] \in RequestType
      BY <2>2, <3>1, Ingests, Request DEF WriteIdentity, history
    <3>3. observed' = [observed EXCEPT ![requests[r].inst] = Merged(r)]
      BY <2>4, <3>1, Zenon DEF WriteIdentity
    <3>4. CASE i # requests[r].inst
      BY <2>2, <3>3, <3>4
    <3>5. CASE i = requests[r].inst
      <4>1. requests[r].seen = observed[i] /\ observed[i][f] <= requests[r].at
            /\ requests[r].at \in Int
        BY <2>1, <3>2, <3>5, InstallationsAssumption DEF Ingesting, RequestType, Times
      <4>2. observed'[i] = Merged(r)
        BY <2>2, <3>3, <3>5
      <4>3. Merged(r)[f] = requests[r].at \/ Merged(r)[f] = observed[i][f]
        BY <4>1 DEF Merged
      <4>4. QED
        BY <2>2, <4>1, <4>2, <4>3
    <3>6. QED
      BY <3>4, <3>5
  <2>5. QED
    BY <2>3, <2>4
<1>2. QED
  BY <1>1, Invariant, PTL DEF Spec, IdentityNeverOlder
================================================================================
