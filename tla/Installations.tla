---------------------------- MODULE Installations ----------------------------
(***************************************************************************)
(* The installations of one captain's vessels, and the identity observed   *)
(* through them: POST onboarding, installations/[id]/primary and           *)
(* installations/[id]/archive (apps/web/server/api/app), and the ingest of  *)
(* an observed identity (ingest/v1/identity.post.ts and the same calls of  *)
(* delta.post.ts), with syncVesselObservedIdentityFromPrimaryInstallation  *)
(* (utils/vesselIdentity.ts) that three of them end in.                    *)
(*                                                                         *)
(* Every database call is a step: the handlers use no transaction, and     *)
(* requests of a captain (two tabs, a repeated submit) and of the collector *)
(* run at the same time.  A request may also end after any step, when a    *)
(* call of it throws or the worker dies.                                   *)
(*                                                                         *)
(* An identity is a set of fields; a field holds the number of the post it *)
(* came from, 0: null.  Names and slugs are left out: what the unique slug *)
(* rejects is one of the calls that may throw.                             *)
(***************************************************************************)
EXTENDS Integers

CONSTANTS
  Requests,      \* bound of the model: requests running at once
  MaxRequests,   \* bound of the model: how many requests there ever are
  Vessels, Ids,  \* ids the database may hand out to vessels and installations
  Fields,        \* the fields of an observed identity
  None

ASSUME InstallationsAssumption ==
  /\ MaxRequests \in Nat \ {0}   \* the seed is older than every request
  /\ None \notin Vessels /\ None \notin Ids

VARIABLES
  profile,     \* publicProfiles has a row of the captain
  createdAt,   \* vessels: when each row was created, 0: there is none
  vesselOf,    \* vesselInstallations: the vessel of each row, None: no row
  primary,     \* the installations whose isPrimary is set
  archived,    \* the installations whose archivedAt is set
  updatedAt,   \* their updatedAt
  observed,    \* vesselInstallationObservedIdentities, all null: no row
  published,   \* vesselObservedIdentities: source installation and identity
  requests,    \* what each running request has read, and where it is
  clock,       \* requests started so far, the time of day
  doubled,     \* history: two onboardings ran at the same time
  resumed,     \* history: an onboarding found a profile without a vessel
  crowded      \* history: installations of which two ingests ran at once

installations == <<vesselOf, primary, archived, updatedAt>>
captain == <<profile, createdAt>>
identities == <<observed, published>>
history == <<doubled, resumed, crowded>>
vars == <<captain, installations, identities, requests, clock, history>>

Managers == {"onboarding", "primary", "archive"}
Kinds == Managers \cup {"ingest", "none"}
Steps == {"idle", "findVessel", "writeProfile", "writeVessel", "findInstallation",
          "writeInstallation", "demote", "promote", "archive", "findFallback",
          "promoteFallback", "readIdentity", "writeIdentity", "findPrimary",
          "readObserved", "readPublished", "publish", "unpublish", "heartbeat",
          "done"}
Times == 0..MaxRequests
Identities == [Fields -> Times]
Unknown == [f \in Fields |-> 0]
Unpublished == [source |-> None, identity |-> Unknown]

RequestType ==
  [kind : Kinds, pc : Steps, at : Times, vessel : Vessels \cup {None},
   inst : Ids \cup {None},   \* the installation the request is about
   found : Ids \cup {None},  \* the one its last query answered with
   patch : SUBSET Fields, seen : Identities,
   had : BOOLEAN,         \* a profile, the primary flag: as read at the start
   row : BOOLEAN,         \* an identity row: as read before writing it
   met : BOOLEAN,         \* history: another request ran meanwhile
   metManager : BOOLEAN]  \* history: one of Managers ran meanwhile

Idle == [kind |-> "none", pc |-> "idle", at |-> 0, vessel |-> None, inst |-> None,
         found |-> None, patch |-> {}, seen |-> Unknown, had |-> FALSE, row |-> FALSE,
         met |-> FALSE, metManager |-> FALSE]

TypeOK ==
  /\ profile \in BOOLEAN
  /\ createdAt \in [Vessels -> Times]
  /\ vesselOf \in [Ids -> Vessels \cup {None}]
  /\ primary \subseteq Ids /\ archived \subseteq Ids
  /\ updatedAt \in [Ids -> Times]
  /\ observed \in [Ids -> Identities]
  /\ published \in [Vessels -> [source : Ids \cup {None}, identity : Identities]]
  /\ requests \in [Requests -> RequestType]
  /\ clock \in Times
  /\ doubled \in BOOLEAN /\ resumed \in BOOLEAN /\ crowded \subseteq Ids

(* A new captain; or one of the seed, with a vessel and an installation.    *)
Init ==
  /\ \/ /\ profile = FALSE
        /\ createdAt = [v \in Vessels |-> 0]
        /\ vesselOf = [i \in Ids |-> None]
        /\ primary = {}
     \/ /\ profile = TRUE
        /\ \E v \in Vessels, i \in Ids :
             /\ createdAt = [w \in Vessels |-> IF w = v THEN 1 ELSE 0]
             /\ vesselOf = [j \in Ids |-> IF j = i THEN v ELSE None]
             /\ primary \in SUBSET {i}
  /\ archived = {} /\ updatedAt = [i \in Ids |-> 0]
  /\ observed = [i \in Ids |-> Unknown]
  /\ published = [v \in Vessels |-> Unpublished]
  /\ requests = [r \in Requests |-> Idle]
  /\ clock = IF profile THEN 1 ELSE 0
  /\ doubled = FALSE /\ resumed = FALSE /\ crowded = {}

-----------------------------------------------------------------------------
(* The tables. *)

ExistingVessels == {v \in Vessels : createdAt[v] > 0}
Existing == {i \in Ids : vesselOf[i] # None}
InstallationsOf(v) == {i \in Ids : vesselOf[i] = v}
(* where isNull(archivedAt) *)
Primaries(v) == (InstallationsOf(v) \cap primary) \ archived
Unarchived(v) == InstallationsOf(v) \ archived
(* orderBy(desc(isPrimary), desc(createdAt)); every vessel is marked primary *)
Newest == {v \in ExistingVessels : \A w \in ExistingVessels : createdAt[w] <= createdAt[v]}

-----------------------------------------------------------------------------
(* Requests. *)

Runs(r) == requests[r].pc # "idle"

(* The request's first query answered: it runs, and whoever runs meets it.  *)
Begin(r, request) ==
  /\ ~Runs(r) /\ clock < MaxRequests
  /\ clock' = clock + 1
  /\ requests' = [q \in Requests |->
       IF q = r
         THEN [request EXCEPT
                !.at = clock + 1,
                !.met = \E p \in Requests : Runs(p),
                !.metManager = \E p \in Requests : requests[p].kind \in Managers]
       ELSE IF Runs(q)
         THEN [requests[q] EXCEPT
                !.met = TRUE,
                !.metManager = @ \/ request.kind \in Managers]
         ELSE requests[q]]

Goto(r, step) == requests' = [requests EXCEPT ![r].pc = step]
EndRequest(r) == requests' = [requests EXCEPT ![r] = Idle]

Finish(r) ==
  /\ requests[r].pc = "done"
  /\ EndRequest(r)
  /\ UNCHANGED <<captain, installations, identities, clock, history>>

(* A call throws or the worker dies: what the request did so far stays.     *)
Fail(r) ==
  /\ Runs(r) /\ requests[r].pc # "done"
  /\ EndRequest(r)
  /\ UNCHANGED <<captain, installations, identities, clock, history>>

-----------------------------------------------------------------------------
(* POST onboarding; the settings page saves the profile with it too. *)

(* getCaptainProfileByUserId; a name someone else has ends the request.     *)
BeginOnboarding(r) ==
  /\ Begin(r, [Idle EXCEPT !.kind = "onboarding", !.pc = "findVessel", !.had = profile])
  /\ doubled' = (doubled \/ \E q \in Requests : requests[q].kind = "onboarding")
  /\ UNCHANGED <<captain, installations, identities, resumed, crowded>>

(* select existingVessel; resolveUniqueVesselSlug *)
FindVessel(r) ==
  /\ requests[r].pc = "findVessel"
  /\ \E v \in IF Newest = {} THEN {None} ELSE Newest :
       /\ requests' = [requests EXCEPT ![r].pc = "writeProfile", ![r].vessel = v]
       /\ resumed' = (resumed \/ (v = None /\ requests[r].had))
  /\ UNCHANGED <<captain, installations, identities, clock, doubled, crowded>>

(* The insert of a profile fails on its primary key, the update does not.   *)
NeverTaken(r) == FALSE
ProfileTaken(r) == ~requests[r].had /\ profile
WriteProfile(r) ==
  /\ requests[r].pc = "writeProfile"
  /\ IF ProfileTaken(r)
       THEN EndRequest(r) /\ UNCHANGED profile
       ELSE Goto(r, "writeVessel") /\ profile' = TRUE
  /\ UNCHANGED <<createdAt, installations, identities, clock, history>>

WriteVessel(r) ==
  /\ requests[r].pc = "writeVessel"
  /\ \/ /\ requests[r].vessel # None
        /\ Goto(r, "findInstallation")
        /\ UNCHANGED createdAt
     \/ /\ requests[r].vessel = None
        /\ \E v \in Vessels \ ExistingVessels :
             /\ createdAt' = [createdAt EXCEPT ![v] = requests[r].at]
             /\ requests' = [requests EXCEPT ![r].pc = "findInstallation",
                                             ![r].vessel = v]
  /\ UNCHANGED <<profile, installations, identities, clock, history>>

(* select existingInstallation: any that is not archived                    *)
FindInstallation(r) ==
  /\ requests[r].pc = "findInstallation"
  /\ LET found == Unarchived(requests[r].vessel) IN
     \E i \in IF found = {} THEN {None} ELSE found :
       requests' = [requests EXCEPT ![r].pc = "writeInstallation", ![r].found = i]
  /\ UNCHANGED <<captain, installations, identities, clock, history>>

WriteInstallation(r) ==
  /\ requests[r].pc = "writeInstallation"
  /\ \E i \in IF requests[r].found = None THEN Ids \ Existing ELSE {requests[r].found} :
       /\ vesselOf' = [vesselOf EXCEPT ![i] = requests[r].vessel]
       /\ primary' = primary \cup {i}
       /\ updatedAt' = [updatedAt EXCEPT ![i] = requests[r].at]
  /\ Goto(r, "done")
  /\ UNCHANGED <<captain, archived, identities, clock, history>>

-----------------------------------------------------------------------------
(* POST installations/[id]/primary and .../archive *)

BeginPrimary(r) ==
  /\ \E i \in Existing \ archived :
       Begin(r, [Idle EXCEPT !.kind = "primary", !.pc = "demote",
                             !.inst = i, !.vessel = vesselOf[i]])
  /\ UNCHANGED <<captain, installations, identities, history>>

OnlyItself(r) == {requests[r].inst}
Demoted(r) == InstallationsOf(requests[r].vessel)
Demote(r) ==
  /\ requests[r].pc = "demote"
  /\ primary' = primary \ Demoted(r)
  /\ updatedAt' = [i \in Ids |-> IF i \in Demoted(r) THEN requests[r].at ELSE updatedAt[i]]
  /\ Goto(r, "promote")
  /\ UNCHANGED <<captain, vesselOf, archived, identities, clock, history>>

Promote(r) ==
  /\ requests[r].pc = "promote"
  /\ primary' = primary \cup {requests[r].inst}
  /\ updatedAt' = [updatedAt EXCEPT ![requests[r].inst] = requests[r].at]
  /\ Goto(r, "findPrimary")
  /\ UNCHANGED <<captain, vesselOf, archived, identities, clock, history>>

BeginArchive(r) ==
  /\ \E i \in Existing \ archived :
       Begin(r, [Idle EXCEPT !.kind = "archive", !.pc = "archive",
                             !.inst = i, !.vessel = vesselOf[i], !.had = i \in primary])
  /\ UNCHANGED <<captain, installations, identities, history>>

NeverPrimary(r) == FALSE
WasPrimary(r) == requests[r].had
Archive(r) ==
  /\ requests[r].pc = "archive"
  /\ archived' = archived \cup {requests[r].inst}
  /\ primary' = primary \ {requests[r].inst}
  /\ updatedAt' = [updatedAt EXCEPT ![requests[r].inst] = requests[r].at]
  /\ Goto(r, IF WasPrimary(r) THEN "findFallback" ELSE "findPrimary")
  /\ UNCHANGED <<captain, vesselOf, identities, clock, history>>

(* select fallbackInstallation: the one updated last                        *)
Fallbacks(r) ==
  LET others == Unarchived(requests[r].vessel) \ {requests[r].inst} IN
  {i \in others : \A j \in others : updatedAt[j] <= updatedAt[i]}
FindFallback(r) ==
  /\ requests[r].pc = "findFallback"
  /\ \/ /\ Fallbacks(r) = {}
        /\ Goto(r, "findPrimary")
     \/ \E i \in Fallbacks(r) :
          requests' = [requests EXCEPT ![r].pc = "promoteFallback", ![r].found = i]
  /\ UNCHANGED <<captain, installations, identities, clock, history>>

PromoteFallback(r) ==
  /\ requests[r].pc = "promoteFallback"
  /\ primary' = primary \cup {requests[r].found}
  /\ updatedAt' = [updatedAt EXCEPT ![requests[r].found] = requests[r].at]
  /\ Goto(r, "findPrimary")
  /\ UNCHANGED <<captain, vesselOf, archived, identities, clock, history>>

-----------------------------------------------------------------------------
(* The ingest of an identity.  A key goes on working when its installation  *)
(* is archived.                                                             *)

(* requireIngestInstallationBinding *)
BeginIngest(r) ==
  /\ \E i \in Existing, patch \in SUBSET Fields \ {{}} :
       /\ Begin(r, [Idle EXCEPT !.kind = "ingest", !.pc = "readIdentity", !.inst = i,
                                !.vessel = vesselOf[i], !.patch = patch,
                                !.had = i \in primary])
       /\ crowded' = crowded \cup
            {j \in {i} : \E q \in Requests : requests[q].kind = "ingest" /\ requests[q].inst = i}
  /\ UNCHANGED <<captain, installations, identities, doubled, resumed>>

(* upsertInstallationObservedIdentity *)
ReadIdentity(r) ==
  /\ requests[r].pc = "readIdentity"
  /\ requests' = [requests EXCEPT ![r].pc = "writeIdentity",
                                  ![r].seen = observed[requests[r].inst],
                                  ![r].row = observed[requests[r].inst] # Unknown]
  /\ UNCHANGED <<captain, installations, identities, clock, history>>

(* buildMergedIdentityValues *)
PatchOnly(r) == [f \in Fields |-> IF f \in requests[r].patch THEN requests[r].at ELSE 0]
Merged(r) == [f \in Fields |-> IF f \in requests[r].patch THEN requests[r].at
                                                          ELSE requests[r].seen[f]]

(* The insert fails when another request has inserted the row meanwhile.    *)
WriteIdentity(r) ==
  /\ requests[r].pc = "writeIdentity"
  /\ LET i == requests[r].inst IN
     IF ~requests[r].row /\ observed[i] # Unknown
       THEN EndRequest(r) /\ UNCHANGED observed
       ELSE /\ observed' = [observed EXCEPT ![i] = Merged(r)]
            /\ requests' = [requests EXCEPT
                 ![r].pc = IF requests[r].had THEN "findPrimary" ELSE "heartbeat",
                 ![r].patch = {}, ![r].seen = Unknown, ![r].row = FALSE]
  /\ UNCHANGED <<captain, installations, published, clock, history>>

TooLate(r) == clock + 1
Now(r) == clock
Heartbeat(r) ==
  /\ requests[r].pc = "heartbeat"
  /\ updatedAt' = [updatedAt EXCEPT ![requests[r].inst] = Now(r)]
  /\ Goto(r, "done")
  /\ UNCHANGED <<captain, vesselOf, primary, archived, identities, clock, history>>

-----------------------------------------------------------------------------
(* syncVesselObservedIdentityFromPrimaryInstallation *)

AfterSync(r) == IF requests[r].kind = "ingest" THEN "heartbeat" ELSE "done"

FindPrimary(r) ==
  /\ requests[r].pc = "findPrimary"
  /\ LET found == Primaries(requests[r].vessel) IN
     \/ /\ found = {}
        /\ Goto(r, "unpublish")
     \/ \E p \in found : requests' = [requests EXCEPT ![r].pc = "readObserved",
                                                      ![r].found = p]
  /\ UNCHANGED <<captain, installations, identities, clock, history>>

(* A primary installation nothing was observed through publishes nothing.   *)
AlwaysKnown(identity) == FALSE
IsUnknown(identity) == identity = Unknown
ReadObserved(r) ==
  /\ requests[r].pc = "readObserved"
  /\ LET identity == observed[requests[r].found] IN
     requests' = [requests EXCEPT
       ![r].pc = IF IsUnknown(identity) THEN "unpublish" ELSE "readPublished",
       ![r].seen = identity]
  /\ UNCHANGED <<captain, installations, identities, clock, history>>

ReadPublished(r) ==
  /\ requests[r].pc = "readPublished"
  /\ requests' = [requests EXCEPT
       ![r].pc = "publish",
       ![r].row = published[requests[r].vessel] # Unpublished]
  /\ UNCHANGED <<captain, installations, identities, clock, history>>

(* An update of a row that is gone changes nothing, an insert beside one    *)
(* that has come fails.                                                     *)
Publish(r) ==
  /\ requests[r].pc = "publish"
  /\ LET v == requests[r].vessel
         exists == published[v] # Unpublished IN
     /\ IF exists = requests[r].row
          THEN published' = [published EXCEPT
                 ![v] = [source |-> requests[r].found, identity |-> requests[r].seen]]
          ELSE UNCHANGED published
     /\ IF exists /\ ~requests[r].row
          THEN EndRequest(r)
          ELSE requests' = [requests EXCEPT ![r].pc = AfterSync(r), ![r].row = FALSE]
  /\ UNCHANGED <<captain, installations, observed, clock, history>>

(* The row is deleted.                                                      *)
Unpublish(r) ==
  /\ requests[r].pc = "unpublish"
  /\ published' = [published EXCEPT ![requests[r].vessel] = Unpublished]
  /\ Goto(r, AfterSync(r))
  /\ UNCHANGED <<captain, installations, observed, clock, history>>

-----------------------------------------------------------------------------
Onboarding(r) ==
  \/ BeginOnboarding(r) \/ FindVessel(r) \/ WriteProfile(r) \/ WriteVessel(r)
  \/ FindInstallation(r) \/ WriteInstallation(r)

Management(r) ==
  \/ BeginPrimary(r) \/ Demote(r) \/ Promote(r)
  \/ BeginArchive(r) \/ Archive(r) \/ FindFallback(r) \/ PromoteFallback(r)

Ingest(r) == BeginIngest(r) \/ ReadIdentity(r) \/ WriteIdentity(r) \/ Heartbeat(r)

Sync(r) ==
  FindPrimary(r) \/ ReadObserved(r) \/ ReadPublished(r) \/ Publish(r) \/ Unpublish(r)

Next ==
  \E r \in Requests :
    Onboarding(r) \/ Management(r) \/ Ingest(r) \/ Sync(r) \/ Finish(r) \/ Fail(r)

Spec == Init /\ [][Next]_vars

-----------------------------------------------------------------------------
(* Properties. *)

Done(r, kind) == requests[r].kind = kind /\ requests[r].pc = "done"

(* Nothing in the tables keeps a captain to one vessel or a vessel to one   *)
(* installation: onboarding looks and then inserts.  As long as no two      *)
(* onboardings ran at once it comes to no second one, whatever archiving,   *)
(* promoting and ingesting went on beside it and whatever failed halfway.   *)
OneOfEach ==
  ~doubled =>
    /\ \A v, w \in ExistingVessels : v = w
    /\ \A i, j \in Existing \ archived : i = j

(* A captain who submits the first form twice: the key of the profile lets  *)
(* one of them through, so that a second vessel takes an onboarding that    *)
(* found a profile whose vessel was still, or for ever, missing.            *)
FirstFormWins == ~resumed => \A v, w \in ExistingVessels : v = w

(* primary.post.ts: whatever a vessel's flags had come to, a request that   *)
(* ran beside ingests only leaves the chosen installation as the only       *)
(* primary one of its vessel.                                               *)
PrimaryTakesEffect ==
  \A r \in Requests :
    Done(r, "primary") /\ ~requests[r].metManager =>
      /\ InstallationsOf(requests[r].vessel) \cap primary = {requests[r].inst}
      /\ requests[r].inst \notin archived

(* archive.post.ts: archiving the primary installation hands its role over  *)
(* if there is one left to take it, and it never keeps it itself.           *)
ArchiveHandsOver ==
  \A r \in Requests :
    Done(r, "archive") /\ ~requests[r].metManager =>
      /\ requests[r].inst \in archived \ primary
      /\ requests[r].had /\ Unarchived(requests[r].vessel) # {} =>
           Primaries(requests[r].vessel) # {}

Agrees(v) ==
  IF Primaries(v) = {}
    THEN published[v] = Unpublished
    ELSE \E p \in Primaries(v) :
           published[v] = IF observed[p] = Unknown
                            THEN Unpublished
                            ELSE [source |-> p, identity |-> observed[p]]

(* Each of the requests that synchronise repairs the vessel's identity,     *)
(* whatever earlier failures and overlaps left there, if it ran alone: it   *)
(* is that of a primary installation, or none.                              *)
SyncAgrees ==
  \A r \in Requests :
    /\ Done(r, "primary") \/ Done(r, "archive") \/ (Done(r, "ingest") /\ requests[r].had)
    /\ ~requests[r].met
    => Agrees(requests[r].vessel)

(* The read-merge-write of an identity loses and ages no field unless two   *)
(* ingests of that installation ran at once.                                *)
IdentityNeverOlder ==
  [][\A i \in Ids : i \notin crowded' =>
       \A f \in Fields : observed'[i][f] >= observed[i][f]]_vars

=============================================================================
