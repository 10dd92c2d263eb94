-------------------------------- MODULE Access --------------------------------
(* What a user may do, and who changes it: plans and their assignment, the        *)
(* overrides of a user, links to clusters, keys and refresh rates, the priority   *)
(* list, the thresholds of a cluster, and the deletion of a user.  One cluster    *)
(* stands for all, and of the user's rows one in each table.                      *)
EXTENDS Credentials

CONSTANTS
    AccessBodies,  \* what set_access may be asked: [models, kpis, limit, given, priority]
    PlanBodies,    \* what a plan may be: [models, limit, active]
    Fields,        \* thresholds
    FieldTask,     \* THRESHOLD_FIELD_TASK: field -> task
    DefaultLevel,  \* a threshold nobody has edited
    Levels         \* what an edit may set it to

VARIABLES
    thresholds  \* Tenant.thresholds

accessVars == <<users, rows, plans, thresholds>>

Tables == {"user_tenants", "user_settings", "api_usage", "user_kpi_refresh_rates"}
Plan == [models : SUBSET Models, limit : Limits, active : BOOLEAN]

\* What the schemas of the two bodies let through (schemas/llm.py).
ASSUME AccessAssumption ==
    /\ PlanBodies \subseteq Plan
    /\ AccessBodies \subseteq [models : SUBSET Models, kpis : SUBSET Kpis, limit : Limits \cup {Null},
                                given : BOOLEAN, priority : SUBSET Models]

-----------------------------------------------------------------------------
(* llm/access.py and kpi_access.py: what is in force for a row *)

EffectiveAllowedModels(row) ==
    Registry \cap (IF row.models # {} THEN row.models
                   ELSE IF row.plan # Null THEN plans[row.plan].models ELSE {})

\* 0 is unlimited, also for a user without a plan.
EffectiveLimit(row) ==
    IF row.limit # Null THEN row.limit
    ELSE IF row.plan # Null THEN plans[row.plan].limit ELSE 0

VisibleKpis(u) == IF u \in Admins \/ users[u].kpis = {} THEN Kpis ELSE users[u].kpis

VisibleThresholdFields(u) == {f \in Fields : FieldTask[f] \in VisibleKpis(u)}

Has(table, u) == \E r \in rows : r[1] = table /\ r[2] = u

\* get_tenant_or_404.
SeesTenant(u) == u \in Admins \/ Has("user_tenants", u)

-----------------------------------------------------------------------------
(* Plans: plans_admin.py *)

PlanEdit(op, p, assigned) ==
    [op |-> op, step |-> "commit", plan |-> p, loaded |-> plans[p], assigned |-> assigned]

CreatePlan(t, p) ==
    /\ plans[p] = NoRow
    /\ \E body \in PlanBodies : Accept(t, PlanEdit("create_plan", p, body))
    /\ UNCHANGED <<accessVars, deliveryVars>>

\* The name is unique.
CommitCreatePlan(t) ==
    LET q == thread[t] IN
    /\ At(t, "create_plan", "commit")
    /\ plans' = IF plans[q.plan] = NoRow THEN [plans EXCEPT ![q.plan] = q.assigned] ELSE plans
    /\ Finish(t)
    /\ UNCHANGED <<users, rows, thresholds, deliveryVars>>

UpdatePlan(t, p) ==
    /\ p \in Available
    /\ \E body \in PlanBodies : Accept(t, PlanEdit("update_plan", p, body))
    /\ UNCHANGED <<accessVars, deliveryVars>>

CommitUpdatePlan(t) ==
    LET q == thread[t] IN
    /\ At(t, "update_plan", "commit")
    /\ plans' = [plans EXCEPT ![q.plan] = Written(@, q.loaded, q.assigned)]
    /\ Finish(t)
    /\ UNCHANGED <<users, rows, thresholds, deliveryVars>>

On(p) == {u \in Users : Exists(u) /\ users[u].plan = p}

DeletePlan(t, p) ==
    /\ p \in Available
    /\ On(p) = {}
    /\ Accept(t, [op |-> "delete_plan", step |-> "flush", plan |-> p, members |-> {}])
    /\ UNCHANGED <<accessVars, deliveryVars>>

\* The flush loads Plan.users, by now perhaps not empty: the relationship has no
\* cascade, so their plan_id is to become NULL.
FlushDeletePlan(t) ==
    /\ At(t, "delete_plan", "flush")
    /\ thread' = [thread EXCEPT ![t].step = "commit", ![t].members = On(thread[t].plan)]
    /\ UNCHANGED <<served, restarts, accessVars, deliveryVars>>

\* Whoever was assigned the plan after the flush makes the foreign key fail it.
CommitDeletePlan(t) ==
    LET q == thread[t]
        gone == On(q.plan) \subseteq q.members
    IN  /\ At(t, "delete_plan", "commit")
        /\ users' = IF gone THEN [u \in Users |-> IF u \in q.members /\ Exists(u)
                                                  THEN [users[u] EXCEPT !.plan = Null] ELSE users[u]]
                            ELSE users
        /\ plans' = IF gone THEN [plans EXCEPT ![q.plan] = Deleted] ELSE plans
        /\ Finish(t)
        /\ UNCHANGED <<rows, thresholds, deliveryVars>>

AssignPlan(t, u, p) ==
    /\ Exists(u)
    /\ p \in Available
    /\ Accept(t, UserEdit("assign_plan", u, [users[u] EXCEPT !.plan = p]))
    /\ UNCHANGED <<accessVars, deliveryVars>>

CommitAssignPlan(t) ==
    LET q == thread[t] IN
    /\ At(t, "assign_plan", "commit")
    /\ IF q.assigned.plan \in Available THEN CommitUser(t) ELSE UNCHANGED users
    /\ Finish(t)
    /\ UNCHANGED <<rows, plans, thresholds, deliveryVars>>

-----------------------------------------------------------------------------
(* Overrides and priorities *)

\* The priority list, when given, is cut to what the new overrides allow.
AccessRow(row, body) ==
    LET assigned == [row EXCEPT !.models = CleanModels(body.models),
                                !.kpis = body.kpis, !.limit = body.limit]
    IN  IF ~body.given THEN assigned
        ELSE [assigned EXCEPT !.priority = body.priority \cap EffectiveAllowedModels(assigned)]

SetAccess(t, u) ==
    /\ Exists(u)
    /\ \E body \in AccessBodies :
          Accept(t, UserEdit("set_access", u, AccessRow(users[u], body)))
    /\ UNCHANGED <<accessVars, deliveryVars>>

CommitAccess(t) ==
    /\ At(t, "set_access", "commit")
    /\ CommitUser(t)
    /\ Finish(t)
    /\ UNCHANGED <<rows, plans, thresholds, deliveryVars>>

SetPriority(t, u) ==
    /\ CanAct(u)
    /\ \E chosen \in SUBSET EffectiveAllowedModels(users[u]) :
          /\ Cardinality(chosen) <= 3
          /\ Accept(t, UserEdit("set_priority", u, [users[u] EXCEPT !.priority = chosen]))
    /\ UNCHANGED <<accessVars, deliveryVars>>

CommitPriority(t) ==
    /\ At(t, "set_priority", "commit")
    /\ CommitUser(t)
    /\ Finish(t)
    /\ UNCHANGED <<rows, plans, thresholds, deliveryVars>>

-----------------------------------------------------------------------------
(* Rows that refer to a user *)

RowEdit(op, table, u) ==
    [op |-> op, step |-> "commit", user |-> u, table |-> table, loaded |-> Has(table, u),
     id |-> IF table = "api_usage" THEN Request(served) ELSE 0]

\* Who may write a row of the table: link_user and set_user_clusters by an
\* administrator; set_key and set_ollama_url; test_model for an allowed model and
\* within the limit, which records its call; set_kpi_refresh_rate for a visible check.
OverLimit(u) ==
    /\ EffectiveLimit(users[u]) # 0
    /\ Cardinality({r \in rows : r[1] = "api_usage" /\ r[2] = u}) >= EffectiveLimit(users[u])

MayWrite(table, u) ==
    CASE table = "user_tenants" -> Exists(u)
      [] table = "user_settings" -> CanAct(u)
      [] table = "api_usage" -> CanAct(u) /\ EffectiveAllowedModels(users[u]) # {}
                                       /\ ~OverLimit(u)
      [] table = "user_kpi_refresh_rates" -> CanAct(u) /\ VisibleKpis(u) # {}

WriteRow(t, table, u) ==
    /\ MayWrite(table, u)
    /\ Accept(t, RowEdit("write_row", table, u))
    /\ UNCHANGED <<accessVars, deliveryVars>>

\* A row found by the request is updated, in vain if it is gone; one not found is
\* inserted: the user's foreign key and, but for api_usage, a unique key may fail it.
CommitRow(t) ==
    LET q == thread[t] IN
    /\ At(t, "write_row", "commit")
    /\ rows' = IF Exists(q.user) /\ (~q.loaded \/ q.table = "api_usage")
               THEN rows \cup {<<q.table, q.user, q.id>>} ELSE rows
    /\ Finish(t)
    /\ UNCHANGED <<users, plans, thresholds, deliveryVars>>

\* unlink_user and set_user_clusters, delete_key, reset_kpi_refresh_rate; usage is
\* never deleted with its user still there.
DeleteRow(t, table, u) ==
    /\ table # "api_usage"
    /\ IF table = "user_tenants" THEN Exists(u) ELSE CanAct(u)
    /\ Has(table, u)
    /\ Accept(t, RowEdit("delete_row", table, u))
    /\ UNCHANGED <<accessVars, deliveryVars>>

CommitDeleteRow(t) ==
    /\ At(t, "delete_row", "commit")
    /\ rows' = rows \ {<<thread[t].table, thread[t].user, 0>>}
    /\ Finish(t)
    /\ UNCHANGED <<users, plans, thresholds, deliveryVars>>

\* Plausible bug: a table with a key to users is not on the list.
ClearedButRates == Tables \ {"user_kpi_refresh_rates"}

Cleared == Tables

DeleteUser(t, u) ==
    /\ Exists(u)
    /\ u \notin Admins
    /\ Accept(t, [op |-> "delete_user", step |-> "clear", user |-> u, seen |-> {}, cleared |-> {}])
    /\ UNCHANGED <<accessVars, deliveryVars>>

RefersTo(u) == {r \in rows : r[2] = u}

\* The DELETE statements, in a transaction that is still open; seen is history.
ClearRows(t) ==
    LET own == RefersTo(thread[t].user) IN
    /\ At(t, "delete_user", "clear")
    /\ thread' = [thread EXCEPT ![t].step = "commit", ![t].seen = own,
                                ![t].cleared = {r \in own : r[1] \in Cleared}]
    /\ UNCHANGED <<served, restarts, accessVars, deliveryVars>>

\* A row that was not cleared makes the foreign key fail the deletion.
CommitDelete(t) ==
    LET q == thread[t]
        gone == RefersTo(q.user) \subseteq q.cleared
    IN  /\ At(t, "delete_user", "commit")
        /\ users' = IF gone THEN [users EXCEPT ![q.user] = Deleted] ELSE users
        /\ rows' = IF gone THEN rows \ q.cleared ELSE rows
        /\ Finish(t)
        /\ UNCHANGED <<plans, thresholds, deliveryVars>>

-----------------------------------------------------------------------------
(* Thresholds: monitoring.py *)

\* Plausible bugs: the body replaces the limits, with or without the defaults of
\* what it leaves out.
Unvalidated(loaded, changes) == changes
Replaced(loaded, changes) == [f \in Fields |-> IF f \in DOMAIN changes THEN changes[f] ELSE DefaultLevel]

Merged(loaded, changes) == [f \in Fields |-> IF f \in DOMAIN changes THEN changes[f] ELSE loaded[f]]

UpdateThresholds(t, u) ==
    /\ CanAct(u)
    /\ SeesTenant(u)
    /\ \E F \in (SUBSET VisibleThresholdFields(u)) \ {{}} : \E changes \in [F -> Levels] :
          Accept(t, [op |-> "update_thresholds", step |-> "commit", fields |-> F,
                     loaded |-> thresholds, assigned |-> Merged(thresholds, changes)])
    /\ UNCHANGED <<accessVars, deliveryVars>>

\* One JSON column, written as a whole if it differs from what was loaded.
CommitThresholds(t) ==
    LET q == thread[t] IN
    /\ At(t, "update_thresholds", "commit")
    /\ thresholds' = IF q.assigned # q.loaded THEN q.assigned ELSE thresholds
    /\ Finish(t)
    /\ UNCHANGED <<users, rows, plans, deliveryVars>>

\* user_admin.py: a table missing from the list "surfaces as a 500 on delete".  A
\* deletion succeeds whatever rows of the user it finds, unless one is inserted
\* while it runs.
DeletionSucceeds ==
    [][\A t \in Threads : At(t, "delete_user", "commit") /\ thread'[t] = Idle
            /\ restarts' = restarts /\ RefersTo(thread[t].user) \subseteq thread[t].seen
        => ~Stored(users'[thread[t].user])]_<<accessVars, serverVars>>

\* A limit moves only by an edit that names it, whose user may see it, or by one
\* that overlaps another: the merge keeps what it loaded, and is not a lock.
LimitsMoveByName ==
    [][\A f \in Fields : thresholds'[f] # thresholds[f] =>
        \E t \in Threads : /\ At(t, "update_thresholds", "commit")
                           /\ thread'[t] = Idle
                           /\ (f \in thread[t].fields \/ thread[t].loaded # thresholds)]_<<accessVars, serverVars>>

-----------------------------------------------------------------------------
AccessNext ==
    \/ \E t \in Threads, p \in Plans : CreatePlan(t, p) \/ UpdatePlan(t, p) \/ DeletePlan(t, p)
    \/ \E t \in Threads, u \in Users :
          \/ \E p \in Plans : AssignPlan(t, u, p)
          \/ \E table \in Tables : WriteRow(t, table, u) \/ DeleteRow(t, table, u)
          \/ SetAccess(t, u) \/ SetPriority(t, u) \/ DeleteUser(t, u) \/ UpdateThresholds(t, u)
    \/ \E t \in Threads :
          \/ CommitCreatePlan(t) \/ CommitUpdatePlan(t) \/ FlushDeletePlan(t)
          \/ CommitDeletePlan(t) \/ CommitAssignPlan(t) \/ CommitAccess(t) \/ CommitPriority(t)
          \/ CommitRow(t) \/ CommitDeleteRow(t) \/ ClearRows(t) \/ CommitDelete(t)
          \/ CommitThresholds(t)
=============================================================================
