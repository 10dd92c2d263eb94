--------------------------- MODULE AccountLifecycle ---------------------------
(***************************************************************************)
(* The life of an account row of table users: creation, disabling, the     *)
(* user's own deletion request, its review, the soft delete with its       *)
(* recovery window, the recovery request, its review, and the purge.       *)
(*                                                                         *)
(* Every HTTP handler is one action: this is what the endpoints promise    *)
(* when requests on an account do not overlap.  AccountRequests splits     *)
(* the same handlers where the database session does.                      *)
(*                                                                         *)
(* Roles are fixed at creation (no handler assigns User.role), so the set  *)
(* of administrators is a constant.  A row keeps the columns the life      *)
(* cycle reads; of deletion_requested_at only whether it is null is ever   *)
(* read.  Time is counted in ticks of any length.                          *)
(***************************************************************************)
EXTENDS Integers

CONSTANTS
    Users,           \* ids of table users, administrators included
    Admins,          \* those whose role is "admin"
    Seeded,          \* the administrator seed.py creates
    RecoveryWindow,  \* RECOVERY_WINDOW, in ticks
    MaxTime          \* bound: the clock stops here

ASSUME AccountAssumption ==
    /\ Admins \subseteq Users
    /\ Seeded \in Admins
    /\ RecoveryWindow \in Nat \ {0}
    /\ MaxTime \in Nat

VARIABLES
    account,  \* account[u]: the row of user u
    now       \* the clock handlers read with utcnow()

vars == <<account, now>>

-----------------------------------------------------------------------------
(* Rows *)

NoTime == -1                       \* NULL in a timestamp column
Time == Nat \cup {NoTime}

Row == [stage: {"new", "live", "purged"}, active: BOOLEAN,
        requested: BOOLEAN, deletedAt: Time, recovery: Time]

FreshRow == [stage |-> "live", active |-> TRUE, requested |-> FALSE,
             deletedAt |-> NoTime, recovery |-> NoTime]
NoRow(s) == [stage |-> s, active |-> FALSE, requested |-> FALSE,
             deletedAt |-> NoTime, recovery |-> NoTime]
NewRow == NoRow("new")
PurgedRow == NoRow("purged")

Status(row, t) ==
    IF row.deletedAt = NoTime
    THEN IF row.requested THEN "deletion_requested" ELSE "active"
    ELSE IF t - row.deletedAt >= RecoveryWindow THEN "dormant"
    ELSE IF row.recovery # NoTime THEN "recovery_requested"
    ELSE "deleted_recoverable"

\* get_current_user lets the holder of an access token act.
CanAct(u) == account[u].stage = "live" /\ account[u].active
AdminActs(a) == a \in Admins /\ CanAct(a)

\* Plausible bugs in the handlers below: PROJECT.json substitutes each for the
\* definition it resembles, and TLC must then see a property fail.
AcceptWithoutStatus(row, t) == row.stage = "live" /\ row.requested
RecoverWithoutWindow(row, t) ==
    row.stage = "live" /\ row.deletedAt # NoTime /\ row.recovery = NoTime
ApproveWithoutWindow(row, t) == row.stage = "live" /\ row.deletedAt # NoTime
SetActiveOnAnyone(a, u, b, row) == row.stage = "live"
RequestByAnyone(u) == TRUE
AcceptedBackdated(row, t) == [row EXCEPT !.active = FALSE, !.deletedAt = t - 2 * RecoveryWindow]

\* The guards of the handlers, on the row each has loaded.
CanAccept(row, t) == row.stage = "live" /\ Status(row, t) = "deletion_requested"
CanReject(row, t) == row.stage = "live" /\ Status(row, t) = "deletion_requested"
CanRecover(row, t) == row.stage = "live" /\ Status(row, t) = "deleted_recoverable"
CanApprove(row, t) ==
    row.stage = "live" /\ Status(row, t) \in {"deleted_recoverable", "recovery_requested"}
CanRejectRecovery(row, t) == row.stage = "live" /\ Status(row, t) = "recovery_requested"
CanSetActive(a, u, b, row) == row.stage = "live" /\ ~(u = a /\ ~b)
CanRequest(u) == u \notin Admins
CanDelete(u, row) == row.stage = "live" /\ u \notin Admins

\* What each assigns to the row.
Requested(row) == [row EXCEPT !.requested = TRUE]
Cancelled(row) == [row EXCEPT !.requested = FALSE]
Accepted(row, t) == [row EXCEPT !.active = FALSE, !.deletedAt = t]
Recovering(row, t) == [row EXCEPT !.recovery = t]
Approved(row) == [row EXCEPT !.active = TRUE, !.requested = FALSE,
                             !.deletedAt = NoTime, !.recovery = NoTime]
RecoveryRejected(row) == [row EXCEPT !.recovery = NoTime]
SetActive(row, b) == [row EXCEPT !.active = b]

-----------------------------------------------------------------------------
Init ==
    /\ account = [u \in Users |-> IF u = Seeded THEN FreshRow ELSE NewRow]
    /\ now = 0

Write(u, row) ==
    /\ account' = [account EXCEPT ![u] = row]
    /\ UNCHANGED now

\* POST /auth/register always makes a plain user.
Register(u) ==
    /\ account[u].stage = "new"
    /\ u \notin Admins
    /\ Write(u, FreshRow)

CreateUser(a, u) ==
    /\ AdminActs(a)
    /\ account[u].stage = "new"
    /\ Write(u, FreshRow)

SetUserActive(a, u, b) ==
    /\ AdminActs(a)
    /\ CanSetActive(a, u, b, account[u])
    /\ Write(u, SetActive(account[u], b))

RequestDeletion(u) ==
    /\ CanAct(u)
    /\ CanRequest(u)
    /\ Write(u, Requested(account[u]))

CancelDeletionRequest(u) ==
    /\ CanAct(u)
    /\ Write(u, Cancelled(account[u]))

AcceptDeletion(a, u) ==
    /\ AdminActs(a)
    /\ CanAccept(account[u], now)
    /\ Write(u, Accepted(account[u], now))

RejectDeletion(a, u) ==
    /\ AdminActs(a)
    /\ CanReject(account[u], now)
    /\ Write(u, Cancelled(account[u]))

\* Public: the password proves who asks, the account need not be active.
RecoverAccount(u) ==
    /\ CanRecover(account[u], now)
    /\ Write(u, Recovering(account[u], now))

ApproveRecovery(a, u) ==
    /\ AdminActs(a)
    /\ CanApprove(account[u], now)
    /\ Write(u, Approved(account[u]))

RejectRecovery(a, u) ==
    /\ AdminActs(a)
    /\ CanRejectRecovery(account[u], now)
    /\ Write(u, RecoveryRejected(account[u]))

DeleteUser(a, u) ==
    /\ AdminActs(a)
    /\ CanDelete(u, account[u])
    /\ Write(u, PurgedRow)

Tick ==
    /\ now < MaxTime
    /\ now' = now + 1
    /\ UNCHANGED account

UserStep(u) ==
    \/ Register(u)
    \/ RequestDeletion(u)
    \/ CancelDeletionRequest(u)
    \/ RecoverAccount(u)

AdminStep(a, u) ==
    \/ CreateUser(a, u)
    \/ \E b \in BOOLEAN : SetUserActive(a, u, b)
    \/ AcceptDeletion(a, u)
    \/ RejectDeletion(a, u)
    \/ ApproveRecovery(a, u)
    \/ RejectRecovery(a, u)
    \/ DeleteUser(a, u)

Next ==
    \/ \E u \in Users : UserStep(u)
    \/ \E a \in Admins, u \in Users : AdminStep(a, u)
    \/ Tick

Spec == Init /\ [][Next]_vars

-----------------------------------------------------------------------------
(* Properties *)

\* Rows keep their types and the clock its range.
TypeOK ==
    /\ account \in [Users -> Row]
    /\ now \in 0..MaxTime

\* However accounts are disabled, deleted and purged, some administrator can
\* still sign in: nobody can lock everyone out of the admin panel.
SomeAdminCanAct == \E a \in Admins : CanAct(a)

\* An administrator's account never enters the deletion life cycle, although
\* only the request handler looks at the role and the review handlers do not.
NoAdminUnderReview ==
    \A a \in Admins : account[a].stage # "purged" /\ Status(account[a], now) = "active"

\* A recovery request is on record only for a soft-deleted account, and was
\* made inside that account's recovery window.
RecoveryInsideWindow ==
    \A u \in Users : account[u].recovery # NoTime =>
        /\ account[u].deletedAt # NoTime
        /\ account[u].recovery >= account[u].deletedAt
        /\ account[u].recovery - account[u].deletedAt < RecoveryWindow

Dormant(u) == account[u].stage = "live" /\ Status(account[u], now) = "dormant"

\* The window is never extended: a live account's deleted_at moves only from
\* null to the present, or back to null before the window has run out.
WindowNeverMoves ==
    [][\A u \in Users :
        LET was == account[u].deletedAt IN
        account[u].stage = "live" /\ account'[u].stage = "live"
          /\ account'[u].deletedAt # was =>
            \/ was = NoTime /\ account'[u].deletedAt = now
            \/ was # NoTime /\ account'[u].deletedAt = NoTime /\ now - was < RecoveryWindow]_vars

\* A dormant account stays dormant until an administrator purges it, and while
\* it does nobody can sign in with it again unless an administrator enables it
\* by name: no review, and nothing its owner sends, ends the dormancy.
DormantWakesOnlyByName ==
    [][\A u \in Users : Dormant(u) =>
        \/ account'[u].stage = "purged"
        \/ /\ Dormant(u)'
           /\ account'[u].active => \/ account[u].active
                                   \/ \E a \in Admins : SetUserActive(a, u, TRUE)]_vars

=============================================================================
