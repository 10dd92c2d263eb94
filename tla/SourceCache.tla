----------------------------- MODULE SourceCache -----------------------------
(***************************************************************************)
(* One cluster's data sources: engine/bridge.py keeps one per mode, builds *)
(* it from the tenant row a request has loaded, and shares it between the  *)
(* reports of every user; administrators change the row and invalidate.    *)
(*                                                                         *)
(* Requests run in threads of their own.  A view (build_report or          *)
(* build_single_check) looks in the cache, builds a source if there is     *)
(* none, takes it from the cache, and reads it under the lock of its key   *)
(* with as_of set to its day.  An analysis is a view followed by the disk  *)
(* trend, which takes the source again, with the same row, and sets as_of  *)
(* without the lock.                                                       *)
(*                                                                         *)
(* What a source is built from is abstracted to a version per mode: the    *)
(* upload folder for json, the Cloudera Manager connection for api.  The   *)
(* connection's credentials travel through environment variables.          *)
(***************************************************************************)
EXTENDS Integers

CONSTANTS
    Views,     \* requests for a report or a single check
    Analyses,  \* analysis threads whose check is about disks, or an incident
    Days,      \* the values of as_of, no day among them
    NoDay,     \* as_of = None
    Admins,    \* requests that change the tenant
    Nobody,    \* no holder, no source, no request
    MaxVersion \* bound: how often the settings of a mode change

Requests == Views \cup Analyses
Modes == {"json", "api"}
Version == 0..MaxVersion

ASSUME SourceAssumption ==
    /\ Views \cap Analyses = {}
    /\ NoDay \in Days
    /\ Nobody \notin Requests \cup Admins
    /\ MaxVersion \in Nat

\* A source is named by the request that built it and whether for its trend.
SourceId == Requests \X BOOLEAN
NoSource == <<Nobody, FALSE>>

VARIABLES
    tenant,   \* the committed row
    env,      \* version of the credentials in CM_USER_<id> and CM_PW_<id>
    cache,    \* cache[m]: what _source_cache holds under "slug:m"
    source,   \* source[s]: the sources the cache or a request refers to
    lock,     \* lock[m]: who holds _locks["slug:m"]
    request,  \* request[r]: a report or analysis in progress
    admin     \* admin[a]: a change in progress

vars == <<tenant, env, cache, source, lock, request, admin>>

Row == [mode: Modes, version: [Modes -> Version]]
Source == [version: Version, credentials: Version, asOf: Days, late: BOOLEAN]
Unbuilt == [version |-> 0, credentials |-> 0, asOf |-> NoDay, late |-> FALSE]

Request == [at: {"idle", "row", "look", "build", "take", "wait", "read", "trend", "project",
                 "served", "failed"},
            row: Row, day: Days, trend: BOOLEAN, holds: SourceId \cup {NoSource}]

\* A new tenant: its settings have not changed yet.  A request that is not in
\* progress has no locals.
NewTenant == [mode |-> "json", version |-> [m \in Modes |-> 0]]
NotRunning(place) ==
    [at |-> place, row |-> NewTenant, day |-> NoDay, trend |-> FALSE, holds |-> NoSource]

AdminRequest == [at: {"idle", "committed", "popping"}, key: Modes]
NoChange == [at |-> "idle", key |-> "json"]

-----------------------------------------------------------------------------
Init ==
    /\ tenant = NewTenant
    /\ env = 0
    /\ cache = [m \in Modes |-> NoSource]
    /\ source = [s \in SourceId |-> Unbuilt]
    /\ lock = [m \in Modes |-> Nobody]
    /\ request = [r \in Requests |-> NotRunning("idle")]
    /\ admin = [a \in Admins |-> NoChange]

Key(r) == request[r].row.mode

Goto(r, place) == request' = [request EXCEPT ![r].at = place]
End(r, place) == request' = [request EXCEPT ![r] = NotRunning(place)]

\* A source that neither the cache nor a request refers to is freed.
Collect(sources) ==
    source' = [s \in SourceId |->
        IF (\E m \in Modes : cache'[m] = s) \/ (\E r \in Requests : request'[r].holds = s)
        THEN sources[s] ELSE Unbuilt]

-----------------------------------------------------------------------------
(* get_source *)

\* get_tenant_or_404, or _run's db.get, loads the row the request works with.
Load(r) ==
    /\ request[r].at = "idle"
    /\ \E d \in Days : request' = [request EXCEPT ![r].at = "row", ![r].row = tenant, ![r].day = d]
    /\ UNCHANGED <<tenant, env, cache, source, lock, admin>>

\* tenant_to_config decrypts the row's credentials into the environment; it is
\* called for the request's own use and again by get_source.
Configure(r) ==
    /\ request[r].at = "row"
    /\ env' = IF Key(r) = "api" THEN request[r].row.version["api"] ELSE env
    /\ \E place \in {"row", "look"} : Goto(r, place)
    /\ UNCHANGED <<tenant, cache, source, lock, admin>>

NeverMissing(r) == FALSE
Missing(r) == cache[Key(r)] = NoSource

Look(r) ==
    /\ request[r].at = "look"
    /\ Goto(r, IF Missing(r) THEN "build" ELSE "take")
    /\ UNCHANGED <<tenant, env, cache, source, lock, admin>>

\* The source as choose_data_source builds it: host and folder are the row's,
\* the credentials the environment's.  late is history: whether any of them was
\* out of date by then.
Built(r) ==
    LET m == Key(r)
        version == request[r].row.version[m]
        credentials == IF m = "api" THEN env ELSE version
    IN  [version |-> version, credentials |-> credentials, asOf |-> NoDay,
         late |-> {version, credentials} # {tenant.version[m]}]

Build(r) ==
    LET s == <<r, request[r].trend>> IN
    /\ request[r].at = "build"
    /\ cache' = [cache EXCEPT ![Key(r)] = s]
    /\ Goto(r, "take")
    /\ Collect([source EXCEPT ![s] = Built(r)])
    /\ UNCHANGED <<tenant, env, lock, admin>>

\* DataSourceError: the export folder is missing, or the API does not answer.
BuildFails(r) ==
    /\ request[r].at = "build"
    /\ End(r, "failed")
    /\ UNCHANGED <<tenant, env, cache, source, lock, admin>>

Take(r) ==
    /\ request[r].at = "take"
    /\ ~Missing(r)
    /\ request' = [request EXCEPT ![r].at = IF request[r].trend THEN "trend" ELSE "wait",
                                  ![r].holds = cache[Key(r)]]
    /\ UNCHANGED <<tenant, env, cache, source, lock, admin>>

\* invalidate came between the look and the return: KeyError.
TakeFails(r) ==
    /\ request[r].at = "take"
    /\ Missing(r)
    /\ End(r, "failed")
    /\ UNCHANGED <<tenant, env, cache, source, lock, admin>>

-----------------------------------------------------------------------------
(* The checks, under the lock *)

AvailableToAll(m) == TRUE
Available(m) == lock[m] = Nobody

\* The checks read the source while the request is at "read": each trims what it
\* reads to as_of, as it is by then.
SetDay(r) == source' = [source EXCEPT ![request[r].holds].asOf = request[r].day]

Acquire(r) ==
    /\ request[r].at = "wait"
    /\ Available(Key(r))
    /\ lock' = [lock EXCEPT ![Key(r)] = r]
    /\ SetDay(r)
    /\ Goto(r, "read")
    /\ UNCHANGED <<tenant, env, cache, admin>>

KeepHeld(r) == UNCHANGED lock
Release(r) == lock' = [lock EXCEPT ![Key(r)] = Nobody]

\* The lock is released however the checks end.
ChecksDone(r) ==
    /\ request[r].at = "read"
    /\ Release(r)
    /\ IF r \in Analyses
       THEN request' = [request EXCEPT ![r].at = "row", ![r].trend = TRUE, ![r].holds = NoSource]
       ELSE End(r, "served")
    /\ UNCHANGED <<tenant, env, cache, admin>>
    /\ Collect(source)

\* A read fails, or an analysis finds nothing that breaches.
ChecksFail(r) ==
    /\ request[r].at = "read"
    /\ Release(r)
    /\ End(r, "failed")
    /\ UNCHANGED <<tenant, env, cache, admin>>
    /\ Collect(source)

-----------------------------------------------------------------------------
(* _disk_trend_text, without the lock *)

TrendSetsDay(r) ==
    /\ request[r].at = "trend"
    /\ SetDay(r)
    /\ Goto(r, "project")
    /\ UNCHANGED <<tenant, env, cache, lock, admin>>

Project(r) ==
    /\ request[r].at = "project"
    /\ End(r, "served")
    /\ UNCHANGED <<tenant, env, cache, lock, admin>>
    /\ Collect(source)

-----------------------------------------------------------------------------
(* Administrators *)

Commit(a, row) ==
    /\ admin[a].at = "idle"
    /\ tenant' = row
    /\ admin' = [admin EXCEPT ![a].at = "committed"]
    /\ UNCHANGED <<env, cache, source, lock, request>>

\* PATCH with another mode, PUT connection, and the first upload, which points
\* the tenant at its upload folder; in whichever mode the tenant is.
UpdateMode(a) == \E m \in Modes \ {tenant.mode} : Commit(a, [tenant EXCEPT !.mode = m])

ChangeSettings(a, m) ==
    /\ tenant.version[m] < MaxVersion
    /\ Commit(a, [tenant EXCEPT !.version[m] = @ + 1])

\* The key db.refresh makes invalidate drop: of the mode the tenant has by now.
OtherKey == IF tenant.mode = "json" THEN "api" ELSE "json"
KeyToDrop == tenant.mode
Refresh(a) ==
    /\ admin[a].at = "committed"
    /\ admin' = [admin EXCEPT ![a] = [at |-> "popping", key |-> KeyToDrop]]
    /\ UNCHANGED <<tenant, env, cache, source, lock, request>>

Invalidate(a) ==
    /\ admin[a].at = "popping"
    /\ cache' = [cache EXCEPT ![admin[a].key] = NoSource]
    /\ admin' = [admin EXCEPT ![a] = NoChange]
    /\ UNCHANGED <<tenant, env, lock, request>>
    /\ Collect(source)

-----------------------------------------------------------------------------
RequestStep(r) ==
    \/ Configure(r) \/ Look(r) \/ Build(r) \/ BuildFails(r) \/ Take(r) \/ TakeFails(r)
    \/ Acquire(r) \/ ChecksDone(r) \/ ChecksFail(r)
    \/ TrendSetsDay(r) \/ Project(r)

AdminStep(a) ==
    \/ UpdateMode(a)
    \/ \E m \in Modes : ChangeSettings(a, m)
    \/ Refresh(a)
    \/ Invalidate(a)

Next ==
    \/ \E r \in Requests : Load(r) \/ RequestStep(r)
    \/ \E a \in Admins : AdminStep(a)

Spec == Init /\ [][Next]_vars

-----------------------------------------------------------------------------
(* Properties *)

\* Every variable keeps its type, and a request past get_source has a source.
TypeOK ==
    /\ tenant \in Row
    /\ env \in Version
    /\ cache \in [Modes -> SourceId \cup {NoSource}]
    /\ source \in [SourceId -> Source]
    /\ lock \in [Modes -> Requests \cup {Nobody}]
    /\ request \in [Requests -> Request]
    /\ \A r \in Requests : request[r].at \in {"wait", "read", "trend", "project"}
                              => request[r].holds # NoSource
    /\ admin \in [Admins -> AdminRequest]

Changing == \E a \in Admins : admin[a].at # "idle"

\* Once every change is invalidated, the source the next report finds is the
\* one the current settings describe, host and credentials, unless whoever built
\* it was already out of date: flipping the mode back and forth and changing the
\* settings of the mode that is off never uncovers an old source.
CachedSourceIsCurrent ==
    LET s == cache[tenant.mode] IN
    ~Changing /\ s # NoSource =>
        \/ source[s].late
        \/ {source[s].version, source[s].credentials} = {tenant.version[tenant.mode]}

\* The lock of a key protects every source ever cached under it: while a view
\* reads, nothing but an analysis's trend moves the day of its source.
OnlyTrendsMoveTheDay ==
    [][\A r \in Requests : request[r].at = "read" /\ request'[r].at = "read" =>
          \/ source'[request[r].holds].asOf = source[request[r].holds].asOf
          \/ \E a \in Analyses : request[a].at = "trend" /\ request'[a].at = "project"]_vars

\* However checks and trends end, no failure leaves a lock held behind: the next
\* report of the cluster does not wait for ever.
LockHeldOnlyWhileReading ==
    \A m \in Modes : lock[m] # Nobody => request[lock[m]].at = "read" /\ Key(lock[m]) = m
=============================================================================
