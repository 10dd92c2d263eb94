---------------------------- MODULE AccountRequests ----------------------------
(***************************************************************************)
(* The account handlers as the server runs them.  FastAPI runs each        *)
(* request in a worker thread with a database session of its own: the      *)
(* handler loads the rows it needs, checks and assigns attributes of its   *)
(* copy, and commits.  Nothing locks the row in between, and SQLAlchemy's  *)
(* UPDATE writes only the columns whose value differs from the loaded one. *)
(*                                                                         *)
(* A request is two steps, Begin (load, check, assign) and Commit; one     *)
(* that fails its check answers 4xx, writes nothing and is left out.       *)
(***************************************************************************)
EXTENDS AccountLifecycle

CONSTANTS
    Slots,  \* worker threads busy with account requests
    Idle    \* what a thread without a request holds

VARIABLES
    request  \* request[s]: what the thread s is about to commit

reqVars == <<account, now, request>>

Ops == {"set_active", "request", "cancel", "accept", "reject", "recover",
        "approve", "reject_recovery", "delete"}

\* loaded is the row as the session read it at time at, assigned what the
\* handler made of its copy.
Request == [op: Ops, actor: Users, user: Users, loaded: Row, assigned: Row, at: Nat]

ASSUME IdleAssumption == Idle \notin Request

-----------------------------------------------------------------------------
ReqInit ==
    /\ account = [u \in Users |-> FreshRow]
    /\ now = 0
    /\ request = [s \in Slots |-> Idle]

Begin(s, op, a, u, row) ==
    /\ request[s] = Idle
    /\ request' = [request EXCEPT ![s] =
          [op |-> op, actor |-> a, user |-> u,
           loaded |-> account[u], assigned |-> row, at |-> now]]
    /\ UNCHANGED <<account, now>>

BeginSetActive(s, a, u, b) ==
    /\ AdminActs(a)
    /\ CanSetActive(a, u, b, account[u])
    /\ Begin(s, "set_active", a, u, SetActive(account[u], b))

BeginRequest(s, u) ==
    /\ CanAct(u)
    /\ CanRequest(u)
    /\ Begin(s, "request", u, u, Requested(account[u]))

BeginCancel(s, u) ==
    /\ CanAct(u)
    /\ Begin(s, "cancel", u, u, Cancelled(account[u]))

BeginAccept(s, a, u) ==
    /\ AdminActs(a)
    /\ CanAccept(account[u], now)
    /\ Begin(s, "accept", a, u, Accepted(account[u], now))

BeginReject(s, a, u) ==
    /\ AdminActs(a)
    /\ CanReject(account[u], now)
    /\ Begin(s, "reject", a, u, Cancelled(account[u]))

BeginRecover(s, u) ==
    /\ CanRecover(account[u], now)
    /\ Begin(s, "recover", u, u, Recovering(account[u], now))

BeginApprove(s, a, u) ==
    /\ AdminActs(a)
    /\ CanApprove(account[u], now)
    /\ Begin(s, "approve", a, u, Approved(account[u]))

BeginRejectRecovery(s, a, u) ==
    /\ AdminActs(a)
    /\ CanRejectRecovery(account[u], now)
    /\ Begin(s, "reject_recovery", a, u, RecoveryRejected(account[u]))

BeginDelete(s, a, u) ==
    /\ AdminActs(a)
    /\ CanDelete(u, account[u])
    /\ Begin(s, "delete", a, u, PurgedRow)

-----------------------------------------------------------------------------
(* Commit *)

\* Plausible bugs, as in AccountLifecycle.
WriteWholeRow(row, q) == IF row.stage = "live" THEN q.assigned ELSE row

\* The columns the UPDATE names: those assigned another value than was loaded,
\* and a repeated deletion request, whose timestamp is always a new one.
Dirty(q) ==
    {c \in DOMAIN q.loaded : q.assigned[c] # q.loaded[c]}
        \cup (IF q.op = "request" THEN {"requested"} ELSE {})

\* An UPDATE or DELETE of a row that is gone matches nothing: SQLAlchemy raises
\* and the session rolls back.
Written(row, q) ==
    IF row.stage # "live" THEN row
    ELSE [c \in DOMAIN row |-> IF c \in Dirty(q) THEN q.assigned[c] ELSE row[c]]

Commit(s) ==
    LET q == request[s] IN
    /\ q # Idle
    /\ account' = [account EXCEPT ![q.user] = Written(@, q)]
    /\ request' = [request EXCEPT ![s] = Idle]
    /\ UNCHANGED now

ReqTick == Tick /\ UNCHANGED request

ReqNext ==
    \/ \E s \in Slots, u \in Users :
          BeginRequest(s, u) \/ BeginCancel(s, u) \/ BeginRecover(s, u)
    \/ \E s \in Slots, a \in Admins, u \in Users :
          \/ \E b \in BOOLEAN : BeginSetActive(s, a, u, b)
          \/ BeginAccept(s, a, u)
          \/ BeginReject(s, a, u)
          \/ BeginApprove(s, a, u)
          \/ BeginRejectRecovery(s, a, u)
          \/ BeginDelete(s, a, u)
    \/ \E s \in Slots : Commit(s)
    \/ ReqTick

ReqSpec == ReqInit /\ [][ReqNext]_reqVars

-----------------------------------------------------------------------------
(* Properties *)

\* Rows keep their types and every thread is idle or holds a well-formed request.
ReqTypeOK ==
    /\ TypeOK
    /\ request \in [Slots -> Request \cup {Idle}]

\* The thread that is committing a request for u, if one is.
Committing(s, u) ==
    request[s] # Idle /\ request'[s] = Idle /\ request[s].user = u

\* Overlaps delay a review, they never invent one: a live account's deleted_at
\* is set only to the time of an acceptance that had found the request standing
\* and no deletion, and cleared only by an approval that had found the account
\* inside its window.  Another review may have come in between (an acceptance
\* can commit after the user's cancellation, an approval after the window).
WindowMovesByReview ==
    [][\A u \in Users :
        account[u].stage = "live" /\ account'[u].stage = "live"
          /\ account'[u].deletedAt # account[u].deletedAt =>
        \E s \in Slots : Committing(s, u) /\
            LET q == request[s] IN
            \/ /\ account'[u].deletedAt = q.at
               /\ q.loaded.requested /\ q.loaded.deletedAt = NoTime
            \/ /\ account'[u].deletedAt = NoTime
               /\ q.loaded.deletedAt # NoTime
               /\ q.at - q.loaded.deletedAt < RecoveryWindow]_reqVars

\* A soft-deleted or dormant account with which one can sign in.
Awake(u) == CanAct(u) /\ account[u].deletedAt # NoTime

\* Only set_user_active wakes a deleted account: by a commit of its own, or by
\* one that came between the load and the commit of an acceptance which had
\* found the account disabled, and whose UPDATE therefore omits is_active.
DeletedWakesOnlyByName ==
    [][\A u \in Users : ~Awake(u) /\ Awake(u)' =>
        \E s \in Slots : Committing(s, u) /\
            \/ request[s].op = "set_active"
            \/ request[s].op = "accept" /\ ~request[s].loaded.active]_reqVars

\* A user's own request that overlaps a review cannot undo it: only an
\* administrator's commit re-enables an account or lifts its soft delete.
OnlyAdminsRestore ==
    [][\A u \in Users :
        \/ ~account[u].active /\ account'[u].active
        \/ account[u].deletedAt # NoTime /\ account'[u].deletedAt = NoTime
             /\ account'[u].stage = "live"
        => \E s \in Slots : Committing(s, u) /\ request[s].actor \in Admins]_reqVars

\* Two threads cannot combine to take an administrator into the deletion life
\* cycle, and a purge never hits one.
NoAdminEverDeleted ==
    \A a \in Admins : account[a].stage = "live" /\ account[a].deletedAt = NoTime
=============================================================================
