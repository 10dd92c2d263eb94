---------------------------- MODULE Administration ----------------------------
(* The handlers of Credentials, Access and TenantFiles on one server: any of      *)
(* them may overlap any other, on the same rows.                                  *)
EXTENDS Access, TenantFiles

vars == <<users, rows, plans, thresholds, screen, inbox, files, disk, thread, served, restarts>>

\* Administrators, some users or none, who have used everything and chosen their
\* passwords, and an active plan all are on, or none.
Init ==
    /\ thread = [t \in Threads |-> Idle]
    /\ served = 0
    /\ restarts = 0
    /\ \E active \in BOOLEAN, plan \in Plans \cup {Null}, body \in {b \in PlanBodies : b.active},
          known \in SUBSET (Users \ Admins) :
          /\ plans = [p \in Plans |-> IF p = plan THEN body ELSE NoRow]
          /\ users = [u \in Users |->
                IF u \in Admins \cup known
                THEN [password |-> <<"register", 0>>, mustChange |-> FALSE,
                      active |-> u \in Admins \/ active, plan |-> plan, models |-> {},
                      priority |-> {}, kpis |-> {}, limit |-> Null]
                ELSE NoRow]
          /\ inbox = {<<u, <<"register", 0>>>> : u \in Admins \cup known}
          /\ rows = Tables \X known \X {0}
    /\ thresholds = [f \in Fields |-> DefaultLevel]
    /\ screen = {}
    /\ files = {}
    /\ disk = {}

Next ==
    \/ CredentialsNext /\ UNCHANGED <<thresholds, fileVars>>
    \/ AccessNext /\ UNCHANGED fileVars
    \/ FilesNext /\ UNCHANGED <<accessVars, deliveryVars>>
    \/ Crash /\ UNCHANGED <<accessVars, deliveryVars, fileVars>>

Spec == Init /\ [][Next]_vars

-----------------------------------------------------------------------------
(* Properties *)

\* Rows keep their types, and every foreign key finds its row.
TypeOK ==
    /\ users \in [Users -> User \cup {NoRow, Deleted}]
    /\ plans \in [Plans -> Plan \cup {NoRow, Deleted}]
    /\ \A u \in Users : Exists(u) => users[u].plan \in Available \cup {Null}
    /\ rows \subseteq Tables \X Users \X (0..MaxRequests)
    /\ \A r \in rows : Exists(r[2])
    /\ thresholds \in [Fields -> Levels \cup {DefaultLevel}]
    /\ screen \cup inbox \subseteq Users \X Password
    /\ files \subseteq [id : 1..MaxRequests, path : Paths]
    /\ disk \subseteq Paths
    /\ served \in 0..MaxRequests
    /\ restarts \in 0..MaxRestarts
    /\ \A t \in Threads : thread[t] = Idle \/ thread[t].step \in
          {"commit", "mail", "answer", "flush", "clear", "store", "unlink"}

\* The columns each handler assigns.
Assigns(op) ==
    CASE op \in {"change_password", "reset_password", "forgot_password"} -> {"password", "mustChange"}
      [] op = "set_access" -> {"models", "kpis", "limit", "priority"}
      [] op = "set_priority" -> {"priority"}
      [] op \in {"assign_plan", "delete_plan"} -> {"plan"}
      [] OTHER -> {}

\* Requests on one row overlap, each with a copy of all of it.  None undoes what
\* another did to columns it does not assign itself: a late change of access never
\* brings back a password that was reset, nor a late reset a limit.
ColumnsKeepTheirOwners ==
    [][\A u \in Users : Exists(u) /\ Stored(users'[u]) =>
        \A c \in DOMAIN users[u] : users'[u][c] # users[u][c] =>
            \E t \in Threads : thread'[t] # thread[t] /\ thread[t] # Idle
                               /\ c \in Assigns(thread[t].op)]_vars
=============================================================================
