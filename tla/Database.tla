------------------------------- MODULE Database -------------------------------
(* The requests that administrators and users make of the database, as the       *)
(* server runs them: each in a thread and a session of its own, which loads the   *)
(* rows it needs, works on its copies and commits.  Nothing locks a row between   *)
(* the two.  The modules that extend this one are the handlers by subject;        *)
(* Administration composes them.  The database is PostgreSQL, whose unique and    *)
(* foreign keys fail the commit that would break them.                            *)
EXTENDS Integers, FiniteSets

CONSTANTS
    Users,        \* ids of table users
    Admins,       \* those whose role is "admin"
    Models,       \* model ids that are or were in llm/registry.py
    Registry,     \* those that still are
    Plans,        \* ids, and names, of table plans
    Kpis,         \* tasks of checks
    Limits,       \* daily call limits that are ever set
    Threads,      \* requests the server runs at once
    MaxRequests,  \* bound on the requests ever served
    MaxRestarts   \* bound on the crashes of the server

ASSUME DatabaseAssumption ==
    /\ Admins \subseteq Users
    /\ Registry \subseteq Models
    /\ Plans \subseteq Nat
    /\ Limits \subseteq Nat
    /\ MaxRequests \in Nat
    /\ MaxRestarts \in Nat

VARIABLES
    users,     \* table users
    thread,    \* thread[t]: the request the thread serves, or Idle
    served,    \* the requests accepted so far
    restarts   \* the crashes so far

serverVars == <<thread, served, restarts>>

\* NULL, and what an idle thread, a row that is not there yet and one that is gone
\* are: an id is never used twice, and who signs up again has another.
Null == -1
NoRow == [op |-> "no row"]
Deleted == [op |-> "deleted"]
Idle == [op |-> "idle"]

\* A password is known by the request that made it.
Makers == {"register", "change_password", "create_user", "reset_password", "forgot_password"}
Password == Makers \X (0..MaxRequests)

\* Of the four limits the daily calls stand for all, which are read, stored and
\* overridden alike; the order of model_priority is left out.
User == [password : Password, mustChange : BOOLEAN, active : BOOLEAN,
         plan : Plans \cup {Null}, models : SUBSET Models, priority : SUBSET Models,
         kpis : SUBSET Kpis, limit : Limits \cup {Null}]

Stored(row) == row \notin {NoRow, Deleted}
Exists(u) == Stored(users[u])

\* get_current_user lets the holder of a token act; an administrator always can
\* (SomeAdminCanAct in AccountLifecycle), and needs no mention in the guards.
CanAct(u) == Exists(u) /\ users[u].active

\* Plausible bugs, which PROJECT.json substitutes for the definition that follows.
WholeRow(row, loaded, assigned) == IF Stored(row) THEN assigned ELSE row

\* The row an UPDATE leaves: SQLAlchemy writes the columns assigned another value
\* than was loaded.  A row that is gone matches nothing and the session rolls back.
Written(row, loaded, assigned) ==
    IF ~Stored(row) THEN row
    ELSE [c \in DOMAIN row |-> IF assigned[c] # loaded[c] THEN assigned[c] ELSE row[c]]

-----------------------------------------------------------------------------
(* The life of a request, in the threads *)

Accept(t, request) ==
    /\ thread[t] = Idle
    /\ served < MaxRequests
    /\ served' = served + 1
    /\ thread' = [thread EXCEPT ![t] = request]
    /\ UNCHANGED restarts

\* The thread serves a request op that has got as far as step.
At(t, op, step) == thread[t].op = op /\ thread[t].step = step

GoOn(t, step) ==
    /\ thread' = [thread EXCEPT ![t].step = step]
    /\ UNCHANGED <<served, restarts>>

Finish(t) ==
    /\ thread' = [thread EXCEPT ![t] = Idle]
    /\ UNCHANGED <<served, restarts>>

\* The process dies: every request ends where it stands.
Crash ==
    /\ restarts < MaxRestarts
    /\ restarts' = restarts + 1
    /\ thread' = [t \in Threads |-> Idle]
    /\ UNCHANGED served

\* A request that edits the row of user u.
UserEdit(op, u, assigned) ==
    [op |-> op, step |-> "commit", user |-> u, loaded |-> users[u], assigned |-> assigned]

CommitUser(t) ==
    LET q == thread[t] IN
    users' = [users EXCEPT ![q.user] = Written(@, q.loaded, q.assigned)]
=============================================================================
