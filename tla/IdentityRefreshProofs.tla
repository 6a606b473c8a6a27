------------------------- MODULE IdentityRefreshProofs -------------------------
(***************************************************************************)
(* The safety properties of IdentityRefresh hold for any number of self     *)
(* contexts, requests at the server, failures and other posts.              *)
(***************************************************************************)
EXTENDS IdentityRefresh, TLAPS

(* A handler that is to write, and beside which none wrote, has not lost    *)
(* what is on record.                                                       *)
SeenKept ==
  \A h \in Handlers :
    handlers[h].pc = "writeState" /\ ~handlers[h].met /\ shadowSeen => handlers[h].shadow

IInv == TypeOK /\ SeenKept

CollectorType ==
  /\ self \in SelfContexts
  /\ step \in {"idle", "fetchIdentity", "postIdentity", "fetchSources", "postSources"}
  /\ timer \in BOOLEAN /\ shuttingDown \in BOOLEAN
  /\ awaited \in Handlers \cup {None}
RowsType ==
  /\ hasIdentity \in BOOLEAN /\ identity \in SelfContexts /\ inventory \in SelfContexts
  /\ shadowSeen \in BOOLEAN
CountersType == failures \in 0..MaxFailures /\ others \in 0..MaxOthers

LEMMA Types ==
  TypeOK <=> CollectorType /\ RowsType /\ CountersType /\ handlers \in [Handlers -> RequestType]
BY DEF TypeOK, CollectorType, RowsType, CountersType

LEMMA Keeps ==
  ASSUME IInv, CollectorType' \/ UNCHANGED collector, RowsType' \/ UNCHANGED rows,
         CountersType' \/ UNCHANGED counters, handlers' \in [Handlers -> RequestType], SeenKept'
  PROVE  IInv'
<1>1. CollectorType'
  BY Types DEF IInv, collector, CollectorType
<1>2. RowsType'
  BY Types DEF IInv, rows, RowsType
<1>3. CountersType'
  BY Types DEF IInv, counters, CountersType
<1>4. QED
  BY <1>1, <1>2, <1>3 DEF IInv, TypeOK, CollectorType, RowsType, CountersType

LEMMA FreeType ==
  /\ Free \in RequestType /\ Free.pc = "free"
  /\ Done \in RequestType /\ Done.pc = "answered"
BY DEF Free, Done, RequestType, SelfContexts

(* One request is changed, to one that is not to write the sources' row.    *)
LEMMA Handles ==
  ASSUME IInv, NEW h \in Handlers, NEW x \in RequestType, Goes(h, x), x.pc # "writeState",
         shadowSeen' = shadowSeen
  PROVE  handlers' \in [Handlers -> RequestType] /\ SeenKept'
BY DEF IInv, TypeOK, Goes, SeenKept

LEMMA Unhandled ==
  ASSUME IInv, handlers' = handlers, shadowSeen' = shadowSeen
  PROVE  handlers' \in [Handlers -> RequestType] /\ SeenKept'
BY DEF IInv, TypeOK, SeenKept

-----------------------------------------------------------------------------
(* The collector. *)

LEMMA Refreshing ==
  ASSUME CollectorType, Refresh
  PROVE  /\ step' \in {"idle", "fetchIdentity", "postIdentity", "fetchSources", "postSources"}
         /\ timer' \in BOOLEAN
BY DEF CollectorType, Refresh

LEMMA Proceeding ==
  ASSUME CollectorType, Proceed
  PROVE  /\ step' \in {"idle", "fetchIdentity", "postIdentity", "fetchSources", "postSources"}
         /\ timer' \in BOOLEAN
BY DEF CollectorType, Proceed, EndRefresh

LEMMA Posting ==
  ASSUME IInv, NEW kind \in {"identity", "sources"}, NEW pc \in {"readState", "readIdentity"},
         Post(kind, pc), shadowSeen' = shadowSeen
  PROVE  handlers' \in [Handlers -> RequestType] /\ SeenKept' /\ awaited' \in Handlers
<1>1. PICK h \in Handlers :
        /\ handlers' = [handlers EXCEPT ![h] =
             [Free EXCEPT !.kind = kind, !.pc = pc, !.context = self]]
        /\ awaited' = h
  BY DEF Post
<1> DEFINE x == [Free EXCEPT !.kind = kind, !.pc = pc, !.context = self]
<1>2. x \in RequestType /\ x.pc # "writeState"
  BY FreeType DEF RequestType, IInv, TypeOK
<1>3. Goes(h, x)
  BY <1>1 DEF Goes
<1>4. QED
  BY <1>1, <1>2, <1>3, Handles

(* The steps of the collector, together.                                    *)
CollectorSteps ==
  \/ Open \/ (\E c \in Contexts \cup {Unusable} : UpdateSelf(c))
  \/ Refreshes \/ Fails \/ Shutdown \/ Restart

LEMMA CollectorHolds ==
  ASSUME IInv, CollectorSteps
  PROVE  IInv'
<1>1. /\ CollectorType /\ RowsType /\ CountersType /\ None \in SelfContexts
      /\ handlers \in [Handlers -> RequestType]
  BY Types DEF IInv, SelfContexts
<1>2. CASE Open \/ RefreshTimer
  <2>1. CollectorType' /\ handlers' = handlers /\ UNCHANGED <<rows, counters>>
    BY <1>1, <1>2, Refreshing DEF Open, RefreshTimer, CollectorType
  <2>2. QED
    BY <1>1, <2>1, Unhandled, Keeps DEF rows
<1>3. ASSUME NEW c \in Contexts \cup {Unusable}, UpdateSelf(c)
      PROVE  IInv'
  <2>1. c \in SelfContexts
    BY <1>3 DEF UpdateSelf, IsContext, SelfContexts
  <2>2. CollectorType' /\ handlers' = handlers /\ UNCHANGED <<rows, counters>>
    BY <1>1, <1>3, <2>1, Refreshing DEF UpdateSelf, CollectorType
  <2>3. QED
    BY <1>1, <2>2, Unhandled, Keeps DEF rows
<1>4. CASE FetchIdentity \/ FetchSources
  <2>1. handlers' \in [Handlers -> RequestType] /\ SeenKept' /\ awaited' \in Handlers
    BY <1>4, Posting DEF FetchIdentity, FetchSources, rows
  <2>2. CollectorType' /\ UNCHANGED <<rows, counters>>
    BY <1>1, <1>4, <2>1 DEF FetchIdentity, FetchSources, CollectorType
  <2>3. QED
    BY <1>1, <2>1, <2>2, Keeps
<1>5. CASE Answered
  <2>1. handlers' \in [Handlers -> RequestType] /\ SeenKept'
    BY <1>1, <1>5, FreeType, Handles DEF Answered, Goes, CollectorType, rows
  <2>2. CollectorType' /\ UNCHANGED <<rows, counters>>
    BY <1>1, <1>5, Proceeding DEF Answered, CollectorType
  <2>3. QED
    BY <1>1, <2>1, <2>2, Keeps
<1>6. CASE Fails \/ Restart
  <2>1. CollectorType'
    BY <1>1, <1>6, Proceeding DEF Fails, Restart, CollectorType
  <2>2. CountersType'
    BY <1>1, <1>6, IdentityRefreshAssumption DEF Fails, Restart, Failure, CountersType
  <2>3. handlers' = handlers /\ UNCHANGED rows
    BY <1>6 DEF Fails, Restart
  <2>4. QED
    BY <1>1, <2>1, <2>2, <2>3, Unhandled, Keeps DEF rows
<1>7. CASE Shutdown
  <2>1. CollectorType' /\ handlers' = handlers /\ UNCHANGED <<rows, counters>>
    BY <1>1, <1>7 DEF Shutdown, CollectorType
  <2>2. QED
    BY <1>1, <2>1, Unhandled, Keeps DEF rows
<1>8. QED
  BY <1>2, <1>3, <1>4, <1>5, <1>6, <1>7 DEF CollectorSteps, Refreshes

-----------------------------------------------------------------------------
(* The server. *)

LEMMA OtherHolds ==
  ASSUME IInv, Other
  PROVE  IInv'
<1>1. PICK h \in Handlers, c \in SelfContexts, shadow \in BOOLEAN :
        \/ Goes(h, [Free EXCEPT !.kind = "delta", !.pc = "readState", !.context = c,
                                !.shadow = shadow])
        \/ Goes(h, [Free EXCEPT !.kind = "identity", !.pc = "readIdentity", !.context = c])
        \/ Goes(h, [Free EXCEPT !.kind = "sources", !.pc = "readState", !.context = c,
                                !.shadow = TRUE])
  BY DEF Other
<1>2. PICK x \in RequestType : Goes(h, x) /\ x.pc # "writeState"
  <2>1. /\ [Free EXCEPT !.kind = "delta", !.pc = "readState", !.context = c, !.shadow = shadow]
             \in RequestType
        /\ [Free EXCEPT !.kind = "delta", !.pc = "readState", !.context = c,
                        !.shadow = shadow].pc = "readState"
    BY FreeType DEF RequestType
  <2>2. /\ [Free EXCEPT !.kind = "identity", !.pc = "readIdentity", !.context = c]
             \in RequestType
        /\ [Free EXCEPT !.kind = "identity", !.pc = "readIdentity", !.context = c].pc
             = "readIdentity"
    BY FreeType DEF RequestType
  <2>3. /\ [Free EXCEPT !.kind = "sources", !.pc = "readState", !.context = c, !.shadow = TRUE]
             \in RequestType
        /\ [Free EXCEPT !.kind = "sources", !.pc = "readState", !.context = c,
                        !.shadow = TRUE].pc = "readState"
    BY FreeType DEF RequestType
  <2>4. QED
    BY <1>1, <2>1, <2>2, <2>3
<1>3. UNCHANGED <<collector, rows>>
  BY DEF Other
<1>4. handlers' \in [Handlers -> RequestType] /\ SeenKept'
  BY <1>2, <1>3, Handles DEF rows
<1>5. CountersType'
  BY Types, IdentityRefreshAssumption DEF IInv, Other, CountersType
<1>6. QED
  BY <1>3, <1>4, <1>5, Keeps

LEMMA ReadStateHolds ==
  ASSUME IInv, NEW h \in Handlers, ReadState(h)
  PROVE  IInv'
<1> DEFINE x == [handlers[h] EXCEPT !.pc = "writeState", !.shadow = EverSeen(h)]
<1>1. handlers \in [Handlers -> RequestType] /\ shadowSeen \in BOOLEAN /\ SeenKept
  BY DEF IInv, TypeOK
<1>2. x \in RequestType /\ (shadowSeen => x.shadow)
  BY <1>1 DEF RequestType, EverSeen
<1>3. UNCHANGED <<collector, rows, counters>> /\ handlers' = [handlers EXCEPT ![h] = x]
  BY DEF ReadState, Goes
<1> HIDE DEF x
<1>4. handlers' \in [Handlers -> RequestType] /\ SeenKept'
  BY <1>1, <1>2, <1>3 DEF SeenKept, rows
<1>5. QED
  BY <1>3, <1>4, Keeps

LEMMA WriteStateHolds ==
  ASSUME IInv, NEW h \in Handlers, WriteState(h)
  PROVE  IInv'
<1>1. handlers \in [Handlers -> RequestType] /\ RowsType
  BY Types DEF IInv
<1>2. AfterState(h) \in RequestType /\ AfterState(h).pc # "writeState"
  BY <1>1, FreeType DEF AfterState, RequestType
<1>3. \A k \in Handlers \ {h} :
        handlers'[k] = IF handlers[k].pc = "writeState" THEN [handlers[k] EXCEPT !.met = TRUE]
                       ELSE handlers[k]
  BY DEF WriteState
<1>4. handlers'[h] = AfterState(h)
  BY DEF WriteState
<1>5. handlers' \in [Handlers -> RequestType]
  BY <1>1, <1>2, ZenonT(40) DEF WriteState, RequestType
<1>6. SeenKept'
  <2>1. ASSUME NEW k \in Handlers \ {h}, handlers'[k].pc = "writeState"
        PROVE  handlers'[k].met = TRUE
    BY <1>1, <1>3, <2>1 DEF RequestType
  <2>2. QED
    BY <1>2, <1>4, <2>1 DEF SeenKept
<1>7. RowsType'
  BY <1>1 DEF WriteState, RowsType, RequestType
<1>8. UNCHANGED <<collector, counters>>
  BY DEF WriteState
<1>9. QED
  BY <1>5, <1>6, <1>7, <1>8, Keeps

LEMMA ReadIdentityHolds ==
  ASSUME IInv, NEW h \in Handlers, ReadIdentity(h)
  PROVE  IInv'
<1> DEFINE x == [handlers[h] EXCEPT !.pc = "writeIdentity", !.context = Merged(h),
                                    !.row = hasIdentity]
<1>1. handlers \in [Handlers -> RequestType] /\ RowsType
  BY Types DEF IInv
<1>2. x \in RequestType /\ x.pc = "writeIdentity"
  BY <1>1 DEF RequestType, RowsType, Merged
<1>3. UNCHANGED <<collector, rows, counters>> /\ Goes(h, x)
  BY DEF ReadIdentity
<1>4. handlers' \in [Handlers -> RequestType] /\ SeenKept'
  BY <1>2, <1>3, Handles DEF rows
<1>5. QED
  BY <1>3, <1>4, Keeps

LEMMA WriteIdentityHolds ==
  ASSUME IInv, NEW h \in Handlers, WriteIdentity(h)
  PROVE  IInv'
<1>1. handlers \in [Handlers -> RequestType] /\ RowsType
  BY Types DEF IInv
<1>2. handlers' \in [Handlers -> RequestType] /\ SeenKept'
  BY FreeType, Handles DEF WriteIdentity
<1>3. RowsType'
  BY <1>1 DEF WriteIdentity, RowsType, RequestType
<1>4. UNCHANGED <<collector, counters>>
  BY DEF WriteIdentity
<1>5. QED
  BY <1>2, <1>3, <1>4, Keeps

LEMMA ForgetHolds ==
  ASSUME IInv, NEW h \in Handlers, Forget(h) \/ Vanish(h)
  PROVE  IInv'
<1>1. handlers' \in [Handlers -> RequestType] /\ SeenKept'
  BY FreeType, Handles DEF Forget, Vanish, rows
<1>2. CountersType'
  BY Types, IdentityRefreshAssumption
     DEF IInv, Forget, Vanish, counters, Failure, CountersType
<1>3. UNCHANGED <<collector, rows>>
  BY DEF Forget, Vanish
<1>4. QED
  BY <1>1, <1>2, <1>3, Keeps

-----------------------------------------------------------------------------
LEMMA InitHolds == Init => IInv
<1> SUFFICES ASSUME Init PROVE IInv
  OBVIOUS
<1>1. TypeOK
  <2>1. 0 \in 0..MaxFailures /\ 0 \in 0..MaxOthers
    BY IdentityRefreshAssumption
  <2>2. QED
    BY <2>1, FreeType DEF Init, TypeOK, SelfContexts
<1>2. SeenKept
  BY DEF Init, SeenKept
<1>3. QED
  BY <1>1, <1>2 DEF IInv

LEMMA StepHolds == IInv /\ [Next]_vars => IInv'
<1> SUFFICES ASSUME IInv, [Next]_vars PROVE IInv'
  OBVIOUS
<1>1. CASE CollectorSteps
  BY <1>1, CollectorHolds
<1>2. CASE Other
  BY <1>2, OtherHolds
<1>3. ASSUME NEW h \in Handlers, Serve(h) \/ Vanish(h)
      PROVE  IInv'
  BY <1>3, ReadStateHolds, WriteStateHolds, ReadIdentityHolds, WriteIdentityHolds, ForgetHolds
     DEF Serve
<1>4. CASE UNCHANGED vars
  BY <1>4, Unhandled, Keeps DEF vars, rows
<1>5. QED
  BY <1>1, <1>2, <1>3, <1>4 DEF Next, CollectorSteps

-----------------------------------------------------------------------------
(* The theorems. *)

(* Every variable of the collector, of the requests and of the rows keeps   *)
(* its type: no unusable self context gets into a row.                      *)
THEOREM TypeCorrect == Spec => []TypeOK
<1>1. IInv => TypeOK
  BY DEF IInv
<1>2. QED
  BY InitHolds, StepHolds, <1>1, PTL DEF Spec

(* telemetrySources.ts: that a shadow publisher was seen is struck off the  *)
(* record only by a handler that read it before another one wrote.          *)
THEOREM ShadowRecorded == Spec => ShadowStays
<1>1. IInv /\ [Next]_vars =>
        [shadowSeen /\ ~shadowSeen' =>
           \E h \in Handlers : handlers[h].pc = "writeState" /\ handlers[h].met
                               /\ handlers'[h].pc # "writeState"]_vars
  <2> SUFFICES ASSUME IInv, [Next]_vars, shadowSeen, ~shadowSeen'
               PROVE  \E h \in Handlers : /\ handlers[h].pc = "writeState" /\ handlers[h].met
                                          /\ handlers'[h].pc # "writeState"
    OBVIOUS
  <2>1. PICK h \in Handlers : WriteState(h)
    <3>1. ASSUME CollectorSteps \/ Other \/ UNCHANGED vars
          PROVE  FALSE
      BY <3>1 DEF CollectorSteps, Open, UpdateSelf, Refreshes, FetchIdentity, FetchSources,
         Answered, RefreshTimer, Fails, Shutdown, Restart, Other, vars, rows
    <3>2. ASSUME NEW h \in Handlers,
                 ReadState(h) \/ ReadIdentity(h) \/ WriteIdentity(h) \/ Forget(h) \/ Vanish(h)
          PROVE  FALSE
      BY <3>2 DEF ReadState, ReadIdentity, WriteIdentity, Forget, Vanish, rows
    <3>3. QED
      BY <3>1, <3>2 DEF Next, CollectorSteps, Serve
  <2>2. handlers \in [Handlers -> RequestType] /\ SeenKept
    BY DEF IInv, TypeOK
  <2>3. handlers[h].pc = "writeState" /\ ~handlers[h].shadow
    BY <2>1 DEF WriteState
  <2>4. handlers[h].met
    BY <2>2, <2>3 DEF SeenKept
  <2>5. handlers'[h].pc # "writeState"
    BY <2>1, <2>2, FreeType DEF WriteState, AfterState, RequestType
  <2>6. QED
    BY <2>3, <2>4, <2>5
<1>2. QED
  BY InitHolds, StepHolds, <1>1, PTL DEF Spec, ShadowStays

-----------------------------------------------------------------------------
(* The refresh goes on.  The invariant is inductive with the types: who      *)
(* leaves "idle" or a post sets what it says, and the server's steps never   *)
(* free the request that is awaited.                                         *)

LEMMA GoesOnInit == Init => RefreshGoesOn
BY DEF Init, RefreshGoesOn

(* The collector's steps but its posts leave the requests alone, or free    *)
(* the one it has the answer of.                                            *)
LEMMA GoesOnCollector ==
  ASSUME IInv, RefreshGoesOn, CollectorSteps
  PROVE  RefreshGoesOn'
<1>1. /\ step \in {"idle", "fetchIdentity", "postIdentity", "fetchSources", "postSources"}
      /\ None \notin Handlers
  BY IdentityRefreshAssumption DEF IInv, TypeOK
<1>2. CASE Open \/ RefreshTimer \/ \E c \in Contexts \cup {Unusable} : UpdateSelf(c)
  <2>1. /\ Refresh /\ shuttingDown' = shuttingDown
        /\ awaited' = awaited /\ handlers' = handlers
    BY <1>2 DEF Open, RefreshTimer, UpdateSelf
  <2>2. CASE step # "idle" \/ shuttingDown
    BY <1>1, <2>1, <2>2 DEF Refresh, RefreshGoesOn
  <2>3. CASE step = "idle" /\ ~shuttingDown
    BY <2>1, <2>3 DEF Refresh, RefreshGoesOn
  <2>4. QED
    BY <2>2, <2>3
<1>3. CASE FetchIdentity \/ FetchSources
  <2>1. PICK h \in Handlers, kind \in {"identity", "sources"}, pc \in {"readState", "readIdentity"} :
          /\ awaited' = h
          /\ handlers' = [handlers EXCEPT ![h] =
               [Free EXCEPT !.kind = kind, !.pc = pc, !.context = self]]
          /\ step' \in {"postIdentity", "postSources"}
    BY <1>3 DEF FetchIdentity, FetchSources, Post
  <2>2. handlers'[h].pc = pc
    BY <2>1 DEF IInv, TypeOK, Free
  <2>3. awaited' # None /\ handlers'[awaited'] # Free
    BY <1>1, <2>1, <2>2, FreeType
  <2>4. QED
    BY <2>1, <2>3 DEF RefreshGoesOn
<1>4. CASE Answered \/ Fails
  <2>1. /\ Proceed /\ awaited' = None /\ shuttingDown' = shuttingDown
    BY <1>4 DEF Answered, Fails
  <2>2. step' = "fetchSources" \/ (step' = "idle" /\ timer' = ~shuttingDown)
    BY <2>1 DEF Proceed, EndRefresh
  <2>3. QED
    BY <2>1, <2>2 DEF RefreshGoesOn
<1>5. CASE Shutdown
  BY <1>5 DEF Shutdown, RefreshGoesOn
<1>6. CASE Restart
  BY <1>6 DEF Restart, RefreshGoesOn
<1>7. QED
  BY <1>2, <1>3, <1>4, <1>5, <1>6 DEF CollectorSteps, Refreshes

(* The server's steps.                                                      *)
LEMMA GoesOnServer ==
  ASSUME IInv, RefreshGoesOn, Other \/ \E h \in Handlers : Serve(h) \/ Vanish(h)
  PROVE  RefreshGoesOn'
<1>1. UNCHANGED collector /\ handlers \in [Handlers -> RequestType] /\ awaited \in Handlers \cup {None}
  BY DEF Other, Serve, ReadState, WriteState, ReadIdentity, WriteIdentity, Forget, Vanish,
     IInv, TypeOK
<1>2. awaited # None => handlers'[awaited] # Free
  <2>1. SUFFICES ASSUME awaited # None, awaited \in Handlers, handlers[awaited] # Free
                 PROVE  handlers'[awaited] # Free
    BY <1>1 DEF RefreshGoesOn
  <2>2. ASSUME NEW h \in Handlers, NEW x, Goes(h, x), h = awaited => x # Free
        PROVE  handlers'[awaited] # Free
    BY <1>1, <2>1, <2>2 DEF Goes
  <2>3. CASE Other
    BY <1>1, <2>1, <2>2, <2>3 DEF Other
  <2>4. ASSUME NEW h \in Handlers, ReadState(h) \/ ReadIdentity(h) \/ WriteIdentity(h)
        PROVE  handlers'[awaited] # Free
    <3>1. /\ [handlers[h] EXCEPT !.pc = "writeState", !.shadow = EverSeen(h)].pc = "writeState"
          /\ [handlers[h] EXCEPT !.pc = "writeIdentity", !.context = Merged(h),
                                 !.row = hasIdentity].pc = "writeIdentity"
          /\ Done.pc = "answered" /\ Free.pc = "free"
      BY <1>1, FreeType DEF RequestType
    <3>2. PICK x : Goes(h, x) /\ x.pc \in {"writeState", "writeIdentity", "answered"}
      BY <2>4, <3>1 DEF ReadState, ReadIdentity, WriteIdentity
    <3>3. QED
      BY <2>2, <3>1, <3>2
  <2>5. ASSUME NEW h \in Handlers, Forget(h) \/ Vanish(h)
        PROVE  handlers'[awaited] # Free
    BY <2>2, <2>5 DEF Forget, Vanish
  <2>6. ASSUME NEW h \in Handlers, WriteState(h)
        PROVE  handlers'[awaited] # Free
    <3>1. CASE awaited = h
      <4>1. handlers'[h] = AfterState(h) /\ AfterState(h).pc # "free"
        BY <1>1, <2>6, FreeType DEF WriteState, AfterState, RequestType
      <4>2. QED
        BY <3>1, <4>1, FreeType
    <3>2. CASE awaited # h
      <4>1. handlers'[awaited] = IF handlers[awaited].pc = "writeState"
                                   THEN [handlers[awaited] EXCEPT !.met = TRUE]
                                   ELSE handlers[awaited]
        BY <2>1, <2>6, <3>2 DEF WriteState
      <4>2. CASE handlers[awaited].pc = "writeState"
        BY <1>1, <2>1, <4>1, <4>2, FreeType DEF RequestType
      <4>3. QED
        BY <2>1, <4>1, <4>2
    <3>3. QED
      BY <3>1, <3>2
  <2>7. QED
    BY <2>3, <2>4, <2>5, <2>6 DEF Serve
<1>3. QED
  BY <1>1, <1>2 DEF RefreshGoesOn, collector

(* A collector that knows its vessel always has a refresh that runs or the  *)
(* timer of one, and what a refresh awaits is at the server.                *)
THEOREM RefreshLives == Spec => []RefreshGoesOn
<1>1. IInv /\ RefreshGoesOn /\ [Next]_vars => RefreshGoesOn'
  <2>1. SUFFICES ASSUME IInv, RefreshGoesOn, [Next]_vars PROVE RefreshGoesOn'
    OBVIOUS
  <2>2. CASE UNCHANGED vars
    BY <2>1, <2>2 DEF vars, collector, RefreshGoesOn
  <2>3. QED
    BY <2>1, <2>2, GoesOnCollector, GoesOnServer DEF Next, CollectorSteps
<1>2. QED
  BY InitHolds, StepHolds, GoesOnInit, <1>1, PTL DEF Spec
=============================================================================
