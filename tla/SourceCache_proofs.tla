-------------------------- MODULE SourceCache_proofs ---------------------------
(***************************************************************************)
(* Proofs about SourceCache, for any requests, administrators, days and    *)
(* number of changes: the lock of a key, the source a report finds, and    *)
(* who moves the day of a source that is being read.                       *)
(***************************************************************************)
EXTENDS SourceCache, TLAPS

USE SourceAssumption

-----------------------------------------------------------------------------
(* Types *)

\* A source that nothing refers to is as if it had not been built.
LEMMA CollectTyped ==
  ASSUME NEW sources \in [SourceId -> Source], Collect(sources)
  PROVE  source' \in [SourceId -> Source]
<1>1. Unbuilt \in Source
  BY DEF Unbuilt, Source, Version
<1> QED BY <1>1 DEF Collect

\* A request without locals is well typed.
LEMMA NotRunningTyped ==
  ASSUME NEW place \in {"idle", "served", "failed"}
  PROVE  NotRunning(place) \in Request
  BY DEF NotRunning, Request, NewTenant, Row, Version, Modes

\* A process that has just started.
LEMMA TypeInit == Init => TypeOK
<1> SUFFICES ASSUME Init PROVE TypeOK
  OBVIOUS
<1>1. tenant \in Row /\ env \in Version
  BY DEF Init, NewTenant, Row, Version, Modes
<1>2. source \in [SourceId -> Source]
  BY DEF Init, Unbuilt, Source, Version
<1>3. request \in [Requests -> Request] /\ \A r \in Requests : request[r].at = "idle"
  BY NotRunningTyped DEF Init, NotRunning
<1>4. admin \in [Admins -> AdminRequest]
  BY DEF Init, NoChange, AdminRequest, Modes
<1> QED BY <1>1, <1>2, <1>3, <1>4 DEF Init, TypeOK

\* What a request is by its fields.
LEMMA RequestFields ==
  ASSUME TypeOK, NEW r \in Requests
  PROVE  /\ request[r].at \in {"idle", "row", "look", "build", "take", "wait", "read", "trend",
                               "project", "served", "failed"}
         /\ request[r].row \in Row /\ request[r].day \in Days /\ request[r].trend \in BOOLEAN
         /\ request[r].holds \in SourceId \cup {NoSource}
         /\ DOMAIN request[r] = {"at", "row", "day", "trend", "holds"}
         /\ Key(r) \in Modes
  BY DEF TypeOK, Request, Row, Key

\* A request that moves to a well-typed place leaves the types as they are.
LEMMA OneRequestTyped ==
  ASSUME TypeOK, NEW r \in Requests, NEW q \in Request, request' = [request EXCEPT ![r] = q],
         q.at \in {"wait", "read", "trend", "project"} => q.holds # NoSource,
         UNCHANGED <<tenant, env, cache, source, lock, admin>>
  PROVE  TypeOK'
  BY DEF TypeOK

\* Every step of a request keeps the types.
LEMMA RequestTypes == ASSUME TypeOK, NEW r \in Requests, Load(r) \/ RequestStep(r) PROVE TypeOK'
<1>0. request[r] \in Request /\ Key(r) \in Modes
  BY RequestFields DEF TypeOK
<1>1. CASE Load(r)
  <2>1. PICK d \in Days :
          request' = [request EXCEPT ![r].at = "row", ![r].row = tenant, ![r].day = d]
    BY <1>1 DEF Load
  <2>2. PICK q : q = [request[r] EXCEPT !.at = "row", !.row = tenant, !.day = d]
    OBVIOUS
  <2>3. q \in Request /\ q.at = "row"
    BY <1>0, <2>2 DEF Request, TypeOK
  <2>4. request' = [request EXCEPT ![r] = q]
    BY <1>0, <2>1, <2>2 DEF TypeOK, Request
  <2> QED BY <1>1, <2>3, <2>4, OneRequestTyped DEF Load
<1>2. CASE Configure(r)
  <2>1. request[r].row.version["api"] \in Version
    BY DEF TypeOK, Request, Row, Modes
  <2> QED BY <1>2, <2>1 DEF Configure, TypeOK, Request, Goto
<1>3. CASE Look(r)
  BY <1>3 DEF Look, TypeOK, Request, Goto
<1>4. CASE Build(r)
  <2>1. Built(r) \in Source
    <3>1. request[r].row.version[Key(r)] \in Version /\ env \in Version /\ NoDay \in Days
      BY <1>0 DEF TypeOK, Request, Row, Key
    <3> QED BY <3>1 DEF Built, Source
  <2>2. <<r, request[r].trend>> \in SourceId
    BY RequestFields DEF SourceId
  <2>3. source' \in [SourceId -> Source]
    <3>1. [source EXCEPT ![<<r, request[r].trend>>] = Built(r)] \in [SourceId -> Source]
      BY <2>1, <2>2 DEF TypeOK
    <3> QED BY <1>4, <3>1, CollectTyped DEF Build
  <2> QED BY <1>4, <2>2, <2>3 DEF Build, TypeOK, Request, Goto
<1>5. CASE BuildFails(r)
  BY <1>5, NotRunningTyped DEF BuildFails, TypeOK, End, NotRunning
<1>6. CASE Take(r)
  <2>1. cache[Key(r)] \in SourceId
    BY <1>0, <1>6 DEF Take, Missing, TypeOK
  <2>2. PICK place \in {"trend", "wait"} :
          request' = [request EXCEPT ![r].at = place, ![r].holds = cache[Key(r)]]
    BY <1>6 DEF Take
  <2>3. PICK q : q = [request[r] EXCEPT !.at = place, !.holds = cache[Key(r)]]
    OBVIOUS
  <2>4. q \in Request /\ q.holds # NoSource
    <3>1. q \in Request /\ q.holds = cache[Key(r)]
      BY <1>0, <2>1, <2>3 DEF Request
    <3> QED BY <1>6, <3>1 DEF Take, Missing
  <2>5. request' = [request EXCEPT ![r] = q]
    BY <1>0, <2>2, <2>3 DEF TypeOK, Request
  <2> QED BY <1>6, <2>4, <2>5, OneRequestTyped DEF Take
<1>7. CASE TakeFails(r)
  BY <1>7, NotRunningTyped DEF TakeFails, TypeOK, End, NotRunning
<1>8. ASSUME Acquire(r) \/ TrendSetsDay(r) PROVE TypeOK'
  <2>1. request[r].holds \in SourceId /\ request[r].day \in Days
    BY <1>8, RequestFields DEF Acquire, TrendSetsDay, TypeOK
  <2>2. source' \in [SourceId -> Source]
    BY <1>8, <2>1 DEF Acquire, TrendSetsDay, SetDay, TypeOK, Source
  <2> QED BY <1>8, <2>1, <2>2 DEF Acquire, TrendSetsDay, Goto, TypeOK, Request
<1>9. ASSUME ChecksDone(r) \/ ChecksFail(r) \/ Project(r) PROVE TypeOK'
  <2>1. source' \in [SourceId -> Source]
    BY <1>9, CollectTyped DEF ChecksDone, ChecksFail, Project, TypeOK
  <2>2. lock' \in [Modes -> Requests \cup {Nobody}]
    BY <1>9 DEF ChecksDone, ChecksFail, Project, TypeOK, Release
  <2>3. PICK q \in Request :
          q.at \in {"served", "failed", "row"} /\ request' = [request EXCEPT ![r] = q]
    <3>1. ASSUME NEW place \in {"served", "failed"}, End(r, place)
          PROVE  \E q \in Request : q.at \in {"served", "failed", "row"}
                                  /\ request' = [request EXCEPT ![r] = q]
      <4>1. NotRunning(place).at = place
        BY DEF NotRunning
      <4> QED BY <3>1, <4>1, NotRunningTyped DEF End
    <3>2. ASSUME request' = [request EXCEPT ![r].at = "row", ![r].trend = TRUE, ![r].holds = NoSource]
          PROVE  \E q \in Request : q.at \in {"served", "failed", "row"}
                                  /\ request' = [request EXCEPT ![r] = q]
      <4>1. PICK q : q = [request[r] EXCEPT !.at = "row", !.trend = TRUE, !.holds = NoSource]
        OBVIOUS
      <4>2. q \in Request /\ q.at = "row"
        BY <1>0, <4>1 DEF Request
      <4>3. request' = [request EXCEPT ![r] = q]
        BY <1>0, <3>2, <4>1 DEF TypeOK, Request
      <4> QED BY <4>2, <4>3
    <3> QED BY <1>9, <3>1, <3>2 DEF ChecksDone, ChecksFail, Project
  <2>4. UNCHANGED <<tenant, env, cache, admin>>
    BY <1>9 DEF ChecksDone, ChecksFail, Project
  <2> QED BY <2>1, <2>2, <2>3, <2>4 DEF TypeOK
<1> QED BY <1>1, <1>2, <1>3, <1>4, <1>5, <1>6, <1>7, <1>8, <1>9 DEF RequestStep

\* Every step of an administrator keeps the types.
LEMMA AdminTypes == ASSUME TypeOK, NEW a \in Admins, AdminStep(a) PROVE TypeOK'
<1>0. admin[a] \in AdminRequest /\ tenant \in Row
  BY DEF TypeOK
<1>1. ASSUME NEW row \in Row, Commit(a, row) PROVE TypeOK'
  BY <1>1 DEF Commit, TypeOK, AdminRequest
<1>2. CASE UpdateMode(a)
  BY <1>0, <1>1, <1>2 DEF UpdateMode, Row
<1>3. ASSUME NEW m \in Modes, ChangeSettings(a, m) PROVE TypeOK'
  <2>1. tenant.version[m] + 1 \in Version
    BY <1>0, <1>3 DEF ChangeSettings, Row, Version
  <2>2. [tenant EXCEPT !.version[m] = @ + 1] \in Row
    BY <1>0, <2>1 DEF Row
  <2> QED BY <1>1, <1>3, <2>2 DEF ChangeSettings
<1>4. CASE Refresh(a)
  BY <1>0, <1>4 DEF Refresh, TypeOK, AdminRequest, KeyToDrop, Row
<1>5. CASE Invalidate(a)
  <2>1. source' \in [SourceId -> Source]
    BY <1>5, CollectTyped DEF Invalidate, TypeOK
  <2> QED BY <1>5, <2>1 DEF Invalidate, TypeOK, AdminRequest, NoChange, Modes
<1> QED BY <1>2, <1>3, <1>4, <1>5 DEF AdminStep

\* Every step keeps the types.
LEMMA TypeStep == ASSUME TypeOK, [Next]_vars PROVE TypeOK'
<1>1. CASE UNCHANGED vars
  BY <1>1 DEF vars, TypeOK
<1> QED BY <1>1, RequestTypes, AdminTypes DEF Next

\* Every variable keeps its type, and a request past get_source has a source.
THEOREM TypeCorrect == Spec => []TypeOK
  BY TypeInit, TypeStep, PTL DEF Spec

-----------------------------------------------------------------------------
(* The strengthening.  A request passes through its stages, the lock of a key *)
(* has the one holder that reads, and what a source is cached under does not  *)
(* change from when it is built to when it is freed.                          *)

\* A request refers to a source from the moment it takes it until its checks or
\* its projection end, and only an analysis comes to the trend.
Stages ==
    \A r \in Requests :
        LET q == request[r] IN
        /\ q.holds # NoSource <=> q.at \in {"wait", "read", "trend", "project"}
        /\ q.trend => r \in Analyses /\ q.at \in {"row", "look", "build", "take", "trend", "project"}
        /\ q.at \in {"trend", "project"} => q.trend

\* The lock of a key is held by the one view that reads under it.
Locked ==
    /\ LockHeldOnlyWhileReading
    /\ \A r \in Requests : request[r].at = "read" => lock[Key(r)] = r

\* Whether request r may still build a source for its checks (b is FALSE) or for
\* its trend.
MayBuild(r, b) ==
    LET q == request[r] IN
    \/ q.at = "idle"
    \/ q.at \in {"row", "look", "build"} /\ b = q.trend
    \/ q.at \notin {"served", "failed"} /\ ~q.trend /\ b

Referred(s) == (\E m \in Modes : cache[m] = s) \/ (\E r \in Requests : request[r].holds = s)

\* Nothing refers to a source before it is built.
NotYetBuilt == \A r \in Requests, b \in BOOLEAN : MayBuild(r, b) => ~Referred(<<r, b>>)

\* A source belongs to one key: the one it is cached under is the one of every
\* request that has taken it.
OneKey ==
    \E k \in [SourceId -> Modes] :
        /\ \A m \in Modes : cache[m] # NoSource => k[cache[m]] = m
        /\ \A r \in Requests : request[r].holds # NoSource => k[request[r].holds] = Key(r)

SInv == TypeOK /\ Stages /\ Locked /\ NotYetBuilt /\ OneKey

-----------------------------------------------------------------------------
(* What a step of a request does to the request, the cache and the locks *)

SameRequest(r) == request'[r].row = request[r].row /\ request'[r].trend = request[r].trend

Proceeds(r) ==
    /\ \/ request[r].at = "row" /\ request'[r].at \in {"row", "look"}
       \/ request[r].at = "look" /\ request'[r].at \in {"build", "take"}
       \/ request[r].at = "trend" /\ request'[r].at = "project"
    /\ SameRequest(r) /\ request'[r].holds = request[r].holds
    /\ UNCHANGED <<cache, lock>>

Loads(r) ==
    /\ request[r].at = "idle" /\ request'[r].at = "row"
    /\ request'[r].trend = request[r].trend /\ request'[r].holds = request[r].holds
    /\ UNCHANGED <<cache, lock>>

Builds(r) ==
    /\ request[r].at = "build" /\ request'[r].at = "take"
    /\ SameRequest(r) /\ request'[r].holds = request[r].holds
    /\ cache' = [cache EXCEPT ![Key(r)] = <<r, request[r].trend>>]
    /\ UNCHANGED lock

Takes(r) ==
    /\ request[r].at = "take"
    /\ request'[r].at = IF request[r].trend THEN "trend" ELSE "wait"
    /\ SameRequest(r) /\ request'[r].holds = cache[Key(r)] /\ cache[Key(r)] # NoSource
    /\ UNCHANGED <<cache, lock>>

Locks(r) ==
    /\ request[r].at = "wait" /\ request'[r].at = "read"
    /\ SameRequest(r) /\ request'[r].holds = request[r].holds
    /\ lock[Key(r)] = Nobody /\ lock' = [lock EXCEPT ![Key(r)] = r]
    /\ UNCHANGED cache

Turns(r) ==
    /\ request[r].at = "read" /\ request'[r].at = "row" /\ r \in Analyses
    /\ request'[r].row = request[r].row /\ request'[r].trend /\ request'[r].holds = NoSource
    /\ lock' = [lock EXCEPT ![Key(r)] = Nobody]
    /\ UNCHANGED cache

Ends(r) ==
    /\ request[r].at \in {"build", "take", "read", "project"}
    /\ request'[r].at \in {"served", "failed"}
    /\ ~request'[r].trend /\ request'[r].holds = NoSource
    /\ lock' = IF request[r].at = "read" THEN [lock EXCEPT ![Key(r)] = Nobody] ELSE lock
    /\ UNCHANGED cache

Passes(r) ==
    Proceeds(r) \/ Loads(r) \/ Builds(r) \/ Takes(r) \/ Locks(r) \/ Turns(r) \/ Ends(r)

\* The other requests, the tenant and its administrators are not concerned.
LEMMA RequestAlone ==
  ASSUME TypeOK, NEW r \in Requests, Load(r) \/ RequestStep(r)
  PROVE  /\ \A p \in Requests \ {r} : request'[p] = request[p]
         /\ UNCHANGED <<tenant, admin>>
<1>0. request \in [Requests -> Request]
  BY DEF TypeOK
<1>1. CASE Load(r)
  BY <1>0, <1>1 DEF Load
<1>2. CASE RequestStep(r)
  BY <1>0, <1>2 DEF RequestStep, Configure, Look, Build, BuildFails, Take, TakeFails, Acquire,
     ChecksDone, ChecksFail, TrendSetsDay, Project, Goto, End
<1> QED BY <1>1, <1>2

\* Every step of a request is one of these.
LEMMA RequestPasses == ASSUME TypeOK, NEW r \in Requests, Load(r) \/ RequestStep(r) PROVE Passes(r)
<1>0. /\ request \in [Requests -> Request] /\ request[r] \in Request
      /\ DOMAIN request[r] = {"at", "row", "day", "trend", "holds"}
  BY DEF TypeOK, Request
<1>1. CASE Load(r)
  <2>1. PICK d \in Days :
          request' = [request EXCEPT ![r].at = "row", ![r].row = tenant, ![r].day = d]
    BY <1>1 DEF Load
  <2>2. Loads(r)
    BY <1>0, <1>1, <2>1 DEF Load, Loads
  <2> QED BY <2>2 DEF Passes
<1>2. CASE Configure(r) \/ Look(r) \/ TrendSetsDay(r)
  <2>1. Proceeds(r)
    BY <1>0, <1>2 DEF Configure, Look, TrendSetsDay, Goto, Proceeds, SameRequest
  <2> QED BY <2>1 DEF Passes
<1>3. CASE Build(r)
  <2>1. Builds(r)
    BY <1>0, <1>3 DEF Build, Goto, Builds, SameRequest
  <2> QED BY <2>1 DEF Passes
<1>4. CASE Take(r)
  <2>1. Takes(r)
    BY <1>0, <1>4 DEF Take, Missing, Takes, SameRequest
  <2> QED BY <2>1 DEF Passes
<1>5. CASE Acquire(r)
  <2>1. Locks(r)
    BY <1>0, <1>5 DEF Acquire, Available, Goto, Locks, SameRequest
  <2> QED BY <2>1 DEF Passes
<1>6. CASE ChecksDone(r) /\ r \in Analyses
  <2>1. Turns(r)
    BY <1>0, <1>6 DEF ChecksDone, Release, Turns
  <2> QED BY <2>1 DEF Passes
<1>7. CASE BuildFails(r) \/ TakeFails(r) \/ Project(r) \/ ChecksFail(r) \/ (ChecksDone(r) /\ r \notin Analyses)
  <2>1. Ends(r)
    BY <1>0, <1>7 DEF BuildFails, TakeFails, Project, ChecksFail, ChecksDone, Release, End, NotRunning, Ends
  <2> QED BY <2>1 DEF Passes
<1> QED BY <1>1, <1>2, <1>3, <1>4, <1>5, <1>6, <1>7 DEF RequestStep

\* An administrator moves no request and no lock, and can only empty the cache.
LEMMA AdminAlone ==
  ASSUME TypeOK, NEW a \in Admins, AdminStep(a)
  PROVE  /\ UNCHANGED <<request, lock>>
         /\ cache' \in [Modes -> SourceId \cup {NoSource}]
         /\ \A m \in Modes : cache'[m] \in {cache[m], NoSource}
  BY DEF AdminStep, UpdateMode, ChangeSettings, Commit, Refresh, Invalidate, TypeOK

-----------------------------------------------------------------------------
(* Stages and locks *)

\* A request keeps to its stages.
LEMMA StagesStep ==
  ASSUME TypeOK, Stages, NEW r \in Requests, Passes(r),
         \A p \in Requests \ {r} : request'[p] = request[p]
  PROVE  Stages'
  BY DEF Stages, Passes, Proceeds, Loads, Builds, Takes, Locks, Turns, Ends, SameRequest

\* A request leaves "read" exactly when it releases the lock it took to get there.
LEMMA LockedStep ==
  ASSUME TypeOK, Locked, NEW r \in Requests, Passes(r),
         \A p \in Requests \ {r} : request'[p] = request[p]
  PROVE  Locked'
<1>0. /\ \A p \in Requests : Key(p) \in Modes
      /\ \A p \in Requests \ {r} : Key(p)' = Key(p)
      /\ lock \in [Modes -> Requests \cup {Nobody}] /\ Nobody \notin Requests
  BY RequestFields DEF TypeOK, Key
<1>1. CASE Proceeds(r) \/ Loads(r) \/ Builds(r) \/ Takes(r)
  BY <1>0, <1>1 DEF Proceeds, Loads, Builds, Takes, SameRequest, Locked, LockHeldOnlyWhileReading, Key
<1>2. CASE Locks(r)
  <2>1. Key(r)' = Key(r)
    BY <1>2 DEF Locks, SameRequest, Key
  <2> QED BY <1>0, <1>2, <2>1 DEF Locks, Locked, LockHeldOnlyWhileReading
<1>3. ASSUME request[r].at = "read", request'[r].at # "read", lock' = [lock EXCEPT ![Key(r)] = Nobody]
      PROVE  Locked'
  BY <1>0, <1>3 DEF Locked, LockHeldOnlyWhileReading
<1>4. ASSUME request[r].at # "read", request'[r].at # "read", lock' = lock
      PROVE  Locked'
  BY <1>0, <1>4 DEF Locked, LockHeldOnlyWhileReading
<1> QED BY <1>1, <1>2, <1>3, <1>4 DEF Passes, Turns, Ends

-----------------------------------------------------------------------------
(* Names of sources *)

\* No source that a request builds is the absent one.
LEMMA SourceNames ==
  /\ NoSource \notin SourceId
  /\ \A r \in Requests, b \in BOOLEAN : <<r, b>> \in SourceId /\ <<r, b>> # NoSource
<1>1. Nobody \notin Requests
  OBVIOUS
<1>2. \A r \in Requests, b \in BOOLEAN : <<r, b>> \in SourceId
  BY DEF SourceId
<1>3. NoSource \notin SourceId
  BY <1>1, Zenon DEF SourceId, NoSource
<1> QED BY <1>2, <1>3

\* What a request may build once it has taken a step it could build before, and
\* it has not just built it.
LEMMA MayBuildStep ==
  ASSUME TypeOK, Stages, NEW r \in Requests, Passes(r), NEW b \in BOOLEAN, MayBuild(r, b)'
  PROVE  MayBuild(r, b) /\ (Builds(r) => b # request[r].trend)
<1>1. request[r].trend \in BOOLEAN
  BY RequestFields
<1> QED BY <1>1 DEF Stages, MayBuild, Passes, Proceeds, Loads, Builds, Takes, Locks, Turns, Ends,
         SameRequest

\* A source comes to be referred to by being built, and by nothing else.
LEMMA ReferredStep ==
  ASSUME TypeOK, NEW r \in Requests, Passes(r), NEW s \in SourceId, Referred(s)',
         \A p \in Requests \ {r} : request'[p] = request[p]
  PROVE  Referred(s) \/ (Builds(r) /\ s = <<r, request[r].trend>>)
<1>0. s # NoSource /\ cache \in [Modes -> SourceId \cup {NoSource}] /\ Key(r) \in Modes
  BY RequestFields, SourceNames DEF TypeOK
<1>1. CASE \E m \in Modes : cache'[m] = s
  BY <1>0, <1>1 DEF Referred, Passes, Proceeds, Loads, Builds, Takes, Locks, Turns, Ends
<1>2. CASE \E p \in Requests : request'[p].holds = s
  <2>1. PICK p \in Requests : request'[p].holds = s
    BY <1>2
  <2>2. CASE p # r
    BY <2>1, <2>2 DEF Referred
  <2>3. CASE p = r
    BY <1>0, <2>1, <2>3 DEF Referred, Passes, Proceeds, Loads, Builds, Takes, Locks, Turns, Ends
  <2> QED BY <2>2, <2>3
<1> QED BY <1>1, <1>2 DEF Referred

\* A name is used once: what may still be built has not been referred to.
LEMMA NotYetBuiltStep ==
  ASSUME TypeOK, Stages, NotYetBuilt, NEW r \in Requests, Passes(r),
         \A p \in Requests \ {r} : request'[p] = request[p]
  PROVE  NotYetBuilt'
<1> SUFFICES ASSUME NEW p \in Requests, NEW b \in BOOLEAN, MayBuild(p, b)', Referred(<<p, b>>)'
             PROVE  FALSE
  BY DEF NotYetBuilt
<1>1. <<p, b>> \in SourceId
  BY DEF SourceId
<1>2. MayBuild(p, b)
  <2>1. CASE p = r
    BY <2>1, MayBuildStep
  <2>2. CASE p # r
    BY <2>2 DEF MayBuild
  <2> QED BY <2>1, <2>2
<1>3. ~Referred(<<p, b>>)
  BY <1>2 DEF NotYetBuilt
<1>4. Builds(r) /\ p = r /\ b = request[r].trend
  BY <1>1, <1>3, ReferredStep
<1> QED BY <1>4, MayBuildStep

\* A source is built under the key of its builder, and taken from it by requests of
\* that key.
LEMMA OneKeyStep ==
  ASSUME TypeOK, Stages, NotYetBuilt, OneKey, NEW r \in Requests, Passes(r),
         \A p \in Requests \ {r} : request'[p] = request[p]
  PROVE  OneKey'
<1>0. /\ Key(r) \in Modes /\ request[r].trend \in BOOLEAN
      /\ cache \in [Modes -> SourceId \cup {NoSource}]
      /\ \A p \in Requests : request[p].holds \in SourceId \cup {NoSource}
      /\ \A p \in Requests \ {r} : Key(p)' = Key(p)
  BY RequestFields DEF TypeOK, Key
<1>1. PICK k \in [SourceId -> Modes] :
        /\ \A m \in Modes : cache[m] # NoSource => k[cache[m]] = m
        /\ \A p \in Requests : request[p].holds # NoSource => k[request[p].holds] = Key(p)
  BY DEF OneKey
<1>2. CASE Builds(r)
  <2>1. PICK s : s = <<r, request[r].trend>>
    OBVIOUS
  <2>2. s \in SourceId /\ ~Referred(s)
    BY <1>0, <1>2, <2>1 DEF SourceId, NotYetBuilt, MayBuild, Builds
  <2>3. PICK l : l = [k EXCEPT ![s] = Key(r)]
    OBVIOUS
  <2>4. l \in [SourceId -> Modes]
    BY <1>0, <2>3
  <2>5. \A m \in Modes : cache'[m] # NoSource => l[cache'[m]] = m
    BY <1>0, <1>1, <1>2, <2>1, <2>2, <2>3 DEF Builds, Referred
  <2>6. \A p \in Requests : request'[p].holds = request[p].holds /\ Key(p)' = Key(p)
    BY <1>0, <1>2 DEF Builds, SameRequest, Key
  <2>7. \A p \in Requests : request'[p].holds # NoSource => l[request'[p].holds] = Key(p)'
    BY <1>0, <1>1, <2>2, <2>3, <2>6 DEF Referred
  <2> QED BY <2>4, <2>5, <2>7 DEF OneKey
<1>3. CASE ~Builds(r)
  <2>1. UNCHANGED cache
    BY <1>3 DEF Passes, Proceeds, Loads, Takes, Locks, Turns, Ends
  <2>2. request'[r].holds # NoSource => k[request'[r].holds] = Key(r)'
    BY <1>0, <1>1, <1>3
       DEF Stages, Passes, Proceeds, Loads, Takes, Locks, Turns, Ends, SameRequest, Key
  <2> QED BY <1>0, <1>1, <2>1, <2>2 DEF OneKey
<1> QED BY <1>2, <1>3

-----------------------------------------------------------------------------
(* The invariant *)

\* Nothing is cached and nothing runs.
LEMMA SInvInit == Init => SInv
<1> SUFFICES ASSUME Init PROVE SInv
  OBVIOUS
<1>1. \A r \in Requests : request[r].at = "idle" /\ ~request[r].trend /\ request[r].holds = NoSource
  BY DEF Init, NotRunning
<1>2. /\ \A m \in Modes : cache[m] = NoSource /\ lock[m] = Nobody
      /\ Nobody \notin Requests
  BY DEF Init
<1>3. Stages /\ Locked
  BY <1>1, <1>2 DEF Stages, Locked, LockHeldOnlyWhileReading
<1>4. NotYetBuilt
  BY <1>1, <1>2, SourceNames DEF NotYetBuilt, Referred
<1>5. OneKey
  <2>1. [s \in SourceId |-> "api"] \in [SourceId -> Modes]
    BY DEF Modes
  <2> QED BY <1>1, <1>2, <2>1 DEF OneKey
<1> QED BY <1>3, <1>4, <1>5, TypeInit DEF SInv

\* Every step keeps the strengthening.
LEMMA SInvStep == ASSUME SInv, [Next]_vars PROVE SInv'
<1>0. TypeOK /\ Stages /\ Locked /\ NotYetBuilt /\ OneKey /\ TypeOK'
  BY TypeStep DEF SInv
<1>1. ASSUME NEW r \in Requests, Load(r) \/ RequestStep(r) PROVE SInv'
  <2>1. Passes(r) /\ \A p \in Requests \ {r} : request'[p] = request[p]
    BY <1>0, <1>1, RequestPasses, RequestAlone
  <2> QED BY <1>0, <2>1, StagesStep, LockedStep, NotYetBuiltStep, OneKeyStep DEF SInv
<1>2. ASSUME NEW a \in Admins, AdminStep(a) PROVE SInv'
  <2>1. /\ UNCHANGED <<request, lock>> /\ Nobody \notin Requests
        /\ \A m \in Modes : cache'[m] \in {cache[m], NoSource}
    BY <1>0, <1>2, AdminAlone
  <2>2. Stages' /\ Locked'
    BY <1>0, <2>1 DEF Stages, Locked, LockHeldOnlyWhileReading, Key
  <2>3. NotYetBuilt'
    <3>1. \A r \in Requests, b \in BOOLEAN : MayBuild(r, b)' => MayBuild(r, b)
      BY <2>1 DEF MayBuild
    <3>2. \A s \in SourceId : Referred(s)' => Referred(s)
      BY <2>1, SourceNames DEF Referred
    <3> QED BY <1>0, <3>1, <3>2, SourceNames DEF NotYetBuilt
  <2>4. OneKey'
    BY <1>0, <2>1 DEF OneKey, Key
  <2> QED BY <1>0, <2>2, <2>3, <2>4 DEF SInv
<1>3. CASE UNCHANGED vars
  BY <1>0, <1>3 DEF vars, SInv, Stages, Locked, LockHeldOnlyWhileReading, NotYetBuilt, MayBuild,
     Referred, OneKey, Key
<1> QED BY <1>1, <1>2, <1>3 DEF Next

\* The strengthening holds of every reachable state.
THEOREM CacheInvariant == Spec => []SInv
  BY SInvInit, SInvStep, PTL DEF Spec

\* However checks and trends end, no failure leaves a lock held behind.
THEOREM LocksReleased == Spec => []LockHeldOnlyWhileReading
<1>1. SInv => LockHeldOnlyWhileReading
  BY DEF SInv, Locked
<1> QED BY <1>1, CacheInvariant, PTL

-----------------------------------------------------------------------------
(* The source a report finds *)

Contents(x) == [version |-> x.version, credentials |-> x.credentials, late |-> x.late]

\* Freeing what nothing refers to leaves alone what something refers to.
LEMMA CollectKeeps ==
  ASSUME NEW sources, Collect(sources), NEW s \in SourceId, Referred(s)'
  PROVE  source'[s] = sources[s]
  BY DEF Collect, Referred

\* A step of a request changes what a referred source was built from only by
\* building it.
LEMMA ContentsStay ==
  ASSUME TypeOK, NEW r \in Requests, Load(r) \/ RequestStep(r), NEW s \in SourceId, Referred(s)',
         ~(request[r].at = "build" /\ s = <<r, request[r].trend>>)
  PROVE  Contents(source'[s]) = Contents(source[s])
<1>0. source \in [SourceId -> Source] /\ source[s] \in Source
  BY DEF TypeOK
<1>1. CASE Load(r) \/ Configure(r) \/ Look(r) \/ BuildFails(r) \/ Take(r) \/ TakeFails(r)
  BY <1>1 DEF Load, Configure, Look, BuildFails, Take, TakeFails
<1>2. CASE Build(r)
  <2>1. <<r, request[r].trend>> # s /\ Collect([source EXCEPT ![<<r, request[r].trend>>] = Built(r)])
    BY <1>2 DEF Build
  <2> QED BY <1>0, <2>1, CollectKeeps
<1>3. CASE Acquire(r) \/ TrendSetsDay(r)
  <2>1. source' = [source EXCEPT ![request[r].holds].asOf = request[r].day]
    BY <1>3 DEF Acquire, TrendSetsDay, SetDay
  <2> QED BY <1>0, <2>1 DEF Contents, Source
<1>4. CASE ChecksDone(r) \/ ChecksFail(r) \/ Project(r)
  BY <1>4, CollectKeeps DEF ChecksDone, ChecksFail, Project
<1> QED BY <1>1, <1>2, <1>3, <1>4 DEF RequestStep

\* Whoever builds a source records whether it is already old.
LEMMA BuildRecords ==
  ASSUME TypeOK, NEW r \in Requests, Build(r)
  PROVE  LET s == <<r, request[r].trend>> IN
         \/ source'[s].late
         \/ {source'[s].version, source'[s].credentials} = {tenant.version[Key(r)]}
<1>1. PICK s : s = <<r, request[r].trend>>
  OBVIOUS
<1>2. s \in SourceId /\ Key(r) \in Modes
  BY <1>1, RequestFields, SourceNames
<1>3. Referred(s)'
  BY <1>1, <1>2 DEF Build, Referred, TypeOK
<1>4. source'[s] = Built(r)
  <2>1. Collect([source EXCEPT ![s] = Built(r)])
    BY <1>1 DEF Build
  <2>2. source'[s] = [source EXCEPT ![s] = Built(r)][s]
    BY <1>2, <1>3, <2>1, CollectKeeps
  <2> QED BY <1>2, <2>2 DEF TypeOK
<1>5. Built(r).late <=> {Built(r).version, Built(r).credentials} # {tenant.version[Key(r)]}
  BY DEF Built
<1> QED BY <1>1, <1>4, <1>5

\* An old source may be found only until the change that made it old is
\* invalidated, or if it was old when it was built.
PendingDrop(m) ==
    \E a \in Admins : admin[a].at = "committed" \/ (admin[a].at = "popping" /\ admin[a].key = m)

IsCurrent(s, m) == source[s].late \/ {source[s].version, source[s].credentials} = {tenant.version[m]}

Fresh == cache[tenant.mode] # NoSource => IsCurrent(cache[tenant.mode], tenant.mode) \/ PendingDrop(tenant.mode)

\* A request leaves what is cached for the current mode as it is, or builds it anew.
LEMMA FreshRequest ==
  ASSUME SInv, Fresh, NEW r \in Requests, Load(r) \/ RequestStep(r)
  PROVE  Fresh'
<1>0. /\ TypeOK /\ NotYetBuilt /\ UNCHANGED <<tenant, admin>> /\ Passes(r)
      /\ cache \in [Modes -> SourceId \cup {NoSource}] /\ cache' \in [Modes -> SourceId \cup {NoSource}]
      /\ Key(r) \in Modes
  BY RequestAlone, RequestPasses, RequestFields, TypeStep DEF SInv, TypeOK, Next
<1>1. PICK m : m = tenant.mode
  OBVIOUS
<1>2. m \in Modes /\ m = tenant'.mode
  BY <1>0, <1>1 DEF TypeOK, Row
<1>3. PICK s : s = cache'[m]
  OBVIOUS
<1>4. SUFFICES ASSUME s # NoSource PROVE IsCurrent(s, m)' \/ PendingDrop(m)'
  BY <1>2, <1>3 DEF Fresh
<1>5. s \in SourceId /\ Referred(s)'
  BY <1>0, <1>2, <1>3, <1>4 DEF Referred
<1>6. CASE Build(r) /\ Key(r) = m
  <2>1. s = <<r, request[r].trend>>
    BY <1>0, <1>2, <1>3, <1>6 DEF Build
  <2>2. source'[s].late \/ {source'[s].version, source'[s].credentials} = {tenant.version[m]}
    BY <1>0, <1>6, <2>1, BuildRecords
  <2> QED BY <1>0, <2>2 DEF IsCurrent
<1>7. CASE ~(Build(r) /\ Key(r) = m)
  <2>1. cache[m] = s
    BY <1>0, <1>2, <1>3, <1>7 DEF RequestStep, Load, Configure, Look, Build, BuildFails, Take,
       TakeFails, Acquire, ChecksDone, ChecksFail, TrendSetsDay, Project
  <2>2. ~(request[r].at = "build" /\ s = <<r, request[r].trend>>)
    <3>1. request[r].trend \in BOOLEAN
      BY <1>0, RequestFields
    <3> QED BY <1>0, <1>2, <2>1, <3>1 DEF NotYetBuilt, MayBuild, Referred
  <2>3. Contents(source'[s]) = Contents(source[s])
    BY <1>0, <1>5, <2>2, ContentsStay
  <2>4. IsCurrent(s, m) \/ PendingDrop(m)
    BY <1>1, <1>4, <2>1 DEF Fresh
  <2>5. /\ source'[s].late = source[s].late
        /\ source'[s].version = source[s].version /\ source'[s].credentials = source[s].credentials
    BY <2>3 DEF Contents
  <2> QED BY <1>0, <2>4, <2>5 DEF IsCurrent, PendingDrop
<1> QED BY <1>6, <1>7

\* A change makes the cached source old and announces its invalidation; an
\* invalidation withdrawn from the other key leaves the announcement standing.
LEMMA FreshAdmin ==
  ASSUME SInv, Fresh, NEW a \in Admins, AdminStep(a)
  PROVE  Fresh'
<1>0. TypeOK /\ tenant.mode \in Modes /\ admin \in [Admins -> AdminRequest]
  BY DEF SInv, TypeOK, Row
<1>1. CASE admin'[a].at = "committed"
  BY <1>1 DEF Fresh, PendingDrop
<1>2. CASE Refresh(a)
  <2>1. admin'[a].at = "popping" /\ admin'[a].key = tenant.mode /\ UNCHANGED tenant
    BY <1>0, <1>2 DEF Refresh, KeyToDrop
  <2> QED BY <2>1 DEF Fresh, PendingDrop
<1>3. CASE Invalidate(a)
  <2>1. PICK m : m = tenant.mode
    OBVIOUS
  <2>2. m \in Modes /\ tenant'.mode = m /\ UNCHANGED tenant
    BY <1>0, <1>3, <2>1 DEF Invalidate
  <2>3. CASE admin[a].key = m
    <3>1. cache'[m] = NoSource
      BY <1>0, <1>3, <2>2, <2>3 DEF Invalidate, TypeOK
    <3> QED BY <2>2, <3>1 DEF Fresh
  <2>4. CASE admin[a].key # m
    <3>1. cache'[m] = cache[m] /\ admin[a].at = "popping"
      BY <1>0, <1>3, <2>2, <2>4 DEF Invalidate, TypeOK
    <3>2. PICK s : s = cache[m]
      OBVIOUS
    <3>3. SUFFICES ASSUME s # NoSource PROVE IsCurrent(s, m)' \/ PendingDrop(m)'
      BY <2>2, <3>1, <3>2 DEF Fresh
    <3>4. source'[s] = source[s]
      <4>1. s \in SourceId /\ Referred(s)'
        BY <1>0, <2>2, <3>1, <3>2, <3>3 DEF TypeOK, Referred
      <4> QED BY <1>3, <4>1, CollectKeeps DEF Invalidate
    <3>5. PendingDrop(m) => PendingDrop(m)'
      <4>1. \A b \in Admins \ {a} : admin'[b] = admin[b]
        BY <1>0, <1>3 DEF Invalidate
      <4> QED BY <2>4, <3>1, <4>1 DEF PendingDrop
    <3>6. IsCurrent(s, m) \/ PendingDrop(m)
      BY <2>1, <3>2, <3>3 DEF Fresh
    <3> QED BY <2>2, <3>4, <3>5, <3>6 DEF IsCurrent
  <2> QED BY <2>3, <2>4
<1>4. (\E row : Commit(a, row)) => admin'[a].at = "committed"
  BY <1>0 DEF Commit, AdminRequest
<1> QED BY <1>1, <1>2, <1>3, <1>4 DEF AdminStep, UpdateMode, ChangeSettings

\* Once every change is invalidated, the source the next report finds is the one
\* the current settings describe, unless it was out of date when it was built.
THEOREM CachedCurrent == Spec => []CachedSourceIsCurrent
<1>1. Init => Fresh
  BY DEF Init, Fresh, NewTenant, Modes
<1>2. SInv /\ Fresh /\ [Next]_vars => Fresh'
  <2>1. SInv /\ Fresh /\ UNCHANGED vars => Fresh'
    BY DEF vars, Fresh, IsCurrent, PendingDrop
  <2> QED BY <2>1, FreshRequest, FreshAdmin DEF Next
<1>3. SInv /\ Fresh => CachedSourceIsCurrent
  <2>1. ASSUME ~Changing, NEW m PROVE ~PendingDrop(m)
    BY <2>1 DEF Changing, PendingDrop
  <2> QED BY <2>1 DEF Fresh, IsCurrent, CachedSourceIsCurrent
<1> QED BY <1>1, <1>2, <1>3, CacheInvariant, PTL DEF Spec

-----------------------------------------------------------------------------
(* The day of a source that is being read *)

\* A view that reads keeps its place; only a trend, which does not ask for the
\* lock, can set the day of the source it reads.
LEMMA DayStays ==
  ASSUME SInv, NEW q \in Requests, Load(q) \/ RequestStep(q), NEW r \in Requests,
         request[r].at = "read", request'[r].at = "read"
  PROVE  \/ source'[request[r].holds].asOf = source[request[r].holds].asOf
         \/ \E a \in Analyses : request[a].at = "trend" /\ request'[a].at = "project"
<1>0. /\ TypeOK /\ Stages /\ Locked /\ NotYetBuilt /\ Passes(q) /\ Key(q) \in Modes /\ Key(r) \in Modes
      /\ source \in [SourceId -> Source] /\ lock[Key(r)] = r
  BY RequestPasses, RequestFields DEF SInv, TypeOK, Locked
<1>1. q # r /\ request'[r] = request[r]
  <2>1. CASE q = r
    BY <1>0, <2>1 DEF Passes, Proceeds, Loads, Builds, Takes, Locks, Turns, Ends
  <2> QED BY <1>0, <2>1, RequestAlone
<1>2. PICK s : s = request[r].holds
  OBVIOUS
<1>3. s \in SourceId /\ Referred(s) /\ Referred(s)'
  BY <1>0, <1>1, <1>2, RequestFields DEF Referred, Stages
<1>4. CASE Load(q) \/ Configure(q) \/ Look(q) \/ BuildFails(q) \/ Take(q) \/ TakeFails(q)
  BY <1>2, <1>4 DEF Load, Configure, Look, BuildFails, Take, TakeFails
<1>5. CASE Build(q)
  <2>1. PICK n : n = <<q, request[q].trend>>
    OBVIOUS
  <2>2. n # s
    BY <1>0, <1>3, <1>5, <2>1, RequestFields DEF Build, NotYetBuilt, MayBuild
  <2>3. source'[s] = [source EXCEPT ![n] = Built(q)][s]
    BY <1>3, <1>5, <2>1, CollectKeeps DEF Build
  <2> QED BY <1>0, <1>2, <1>3, <2>2, <2>3
<1>6. CASE Acquire(q)
  <2>1. request[q].holds # s
    <3>1. PICK k \in [SourceId -> Modes] :
            \A p \in Requests : request[p].holds # NoSource => k[request[p].holds] = Key(p)
      BY DEF SInv, OneKey
    <3>2. lock[Key(q)] = Nobody /\ Nobody \notin Requests /\ s # NoSource
      BY <1>3, <1>6, SourceNames DEF Acquire, Available
    <3> QED BY <1>0, <1>2, <3>1, <3>2
  <2> QED BY <1>0, <1>2, <1>3, <1>6, <2>1 DEF Acquire, SetDay
<1>7. CASE TrendSetsDay(q)
  <2>1. q \in Analyses /\ request[q].at = "trend" /\ request'[q].at = "project"
    BY <1>0, <1>7 DEF TrendSetsDay, Goto, Stages, TypeOK, Request
  <2> QED BY <2>1
<1>8. CASE ChecksDone(q) \/ ChecksFail(q) \/ Project(q)
  BY <1>2, <1>3, <1>8, CollectKeeps DEF ChecksDone, ChecksFail, Project
<1> QED BY <1>4, <1>5, <1>6, <1>7, <1>8 DEF RequestStep

\* The lock of a key protects every source ever cached under it: while a view
\* reads, nothing but an analysis's trend moves the day of its source.
THEOREM DayMovedByTrends == Spec => OnlyTrendsMoveTheDay
<1> DEFINE A == \A r \in Requests : request[r].at = "read" /\ request'[r].at = "read" =>
                  \/ source'[request[r].holds].asOf = source[request[r].holds].asOf
                  \/ \E a \in Analyses : request[a].at = "trend" /\ request'[a].at = "project"
<1>1. SInv /\ [Next]_vars => [A]_vars
  <2>1. SUFFICES ASSUME SInv, [Next]_vars PROVE A \/ UNCHANGED vars
    OBVIOUS
  <2>2. ASSUME NEW a \in Admins, AdminStep(a) PROVE A
    <3>1. SUFFICES ASSUME NEW r \in Requests, request[r].at = "read"
                   PROVE  source'[request[r].holds] = source[request[r].holds]
      OBVIOUS
    <3>2. request[r].holds \in SourceId /\ UNCHANGED request
      BY <2>1, <2>2, <3>1, AdminAlone, RequestFields DEF SInv, Stages
    <3>3. Referred(request[r].holds)'
      BY <3>2 DEF Referred
    <3> QED BY <2>2, <3>2, <3>3, CollectKeeps
            DEF AdminStep, UpdateMode, ChangeSettings, Commit, Refresh, Invalidate
  <2>3. ASSUME NEW q \in Requests, Load(q) \/ RequestStep(q) PROVE A
    BY <2>1, <2>3, DayStays
  <2> QED BY <2>1, <2>2, <2>3 DEF Next
<1> QED BY <1>1, CacheInvariant, PTL DEF Spec, OnlyTrendsMoveTheDay
=============================================================================
