--------------------------- MODULE Accounts_proofs ---------------------------
(***************************************************************************)
(* Proofs about accounts, for any set of users, any window and any bound   *)
(* on the clock.  Part I is about AccountLifecycle, where handlers are     *)
(* atomic; part II about AccountRequests, for any number of threads, where *)
(* a copy of a row is checked and assigned in one step and committed in    *)
(* another.  Both reason row by row: part I says what every handler keeps  *)
(* true of the row it writes, part II what a thread that is about to       *)
(* commit still knows of the row it loaded; the row in the table may be    *)
(* another by then, and what is proved holds all the same.                 *)
(***************************************************************************)
EXTENDS AccountRequests, TLAPS

USE AccountAssumption, IdleAssumption DEF NoTime, Time

-----------------------------------------------------------------------------
(* Part I: atomic handlers *)

\* What holds of user u's row at time t.
IRow(u, row, t) ==
    /\ row \in Row
    /\ row.deletedAt <= t
    /\ row.recovery # NoTime =>
          /\ row.deletedAt # NoTime
          /\ row.recovery >= row.deletedAt
          /\ row.recovery - row.deletedAt < RecoveryWindow
    /\ u \in Admins => row.stage # "purged" /\ ~row.requested /\ row.deletedAt = NoTime

IInv ==
    /\ account \in [Users -> Row]
    /\ now \in 0..MaxTime
    /\ \A u \in Users : IRow(u, account[u], now)
    /\ SomeAdminCanAct

-----------------------------------------------------------------------------
(* Rows *)

\* The rows that creation and purge write satisfy the row invariant.
LEMMA ConstantRows ==
    ASSUME NEW u \in Users, NEW t \in Nat
    PROVE  /\ IRow(u, FreshRow, t)
           /\ IRow(u, NewRow, t)
           /\ u \notin Admins => IRow(u, PurgedRow, t)
  BY DEF IRow, Row, FreshRow, NewRow, PurgedRow, NoRow

\* So does every row a guarded handler writes.
LEMMA HandlerRows ==
    ASSUME NEW u \in Users, NEW row, NEW t \in Nat, IRow(u, row, t)
    PROVE  /\ \A b \in BOOLEAN : IRow(u, SetActive(row, b), t)
           /\ CanRequest(u) => IRow(u, Requested(row), t)
           /\ IRow(u, Cancelled(row), t)
           /\ CanAccept(row, t) => IRow(u, Accepted(row, t), t)
           /\ CanRecover(row, t) => IRow(u, Recovering(row, t), t)
           /\ IRow(u, Approved(row), t)
           /\ IRow(u, RecoveryRejected(row), t)
  <1> USE DEF IRow, Row
  <1>1. \A b \in BOOLEAN : IRow(u, SetActive(row, b), t)
    BY DEF SetActive
  <1>2. CanRequest(u) => IRow(u, Requested(row), t)
    BY DEF CanRequest, Requested
  <1>3. IRow(u, Cancelled(row), t)
    BY DEF Cancelled
  <1>4. ASSUME CanAccept(row, t)
        PROVE  IRow(u, Accepted(row, t), t)
    <2>1. row.requested /\ row.deletedAt = NoTime
      BY <1>4 DEF CanAccept, Status
    <2>2. u \notin Admins /\ row.recovery = NoTime
      BY <2>1
    <2>3. /\ Accepted(row, t) \in Row
          /\ Accepted(row, t).deletedAt = t
          /\ Accepted(row, t).recovery = row.recovery
      BY DEF Accepted
    <2>4. QED
      BY <2>2, <2>3
  <1>5. CanRecover(row, t) => IRow(u, Recovering(row, t), t)
    BY DEF CanRecover, Recovering, Status
  <1>6. IRow(u, Approved(row), t)
    <2>1. /\ Approved(row) \in Row
          /\ Approved(row).stage = row.stage
          /\ Approved(row).deletedAt = NoTime
          /\ Approved(row).recovery = NoTime
      BY DEF Approved
    <2>2. ~Approved(row).requested
      BY DEF Approved
    <2>3. QED
      BY <2>1, <2>2
  <1>7. IRow(u, RecoveryRejected(row), t)
    BY DEF RecoveryRejected
  <1>8. QED
    BY <1>1, <1>2, <1>3, <1>4, <1>5, <1>6, <1>7

\* Writing a good row keeps every row good.
LEMMA WriteKeepsRows ==
    ASSUME IInv, NEW u \in Users, NEW row, IRow(u, row, now), Write(u, row)
    PROVE  /\ account' \in [Users -> Row]
           /\ now' \in 0..MaxTime
           /\ \A v \in Users : IRow(v, account'[v], now')
  BY DEF IInv, IRow, Write

-----------------------------------------------------------------------------
(* The inductive invariant *)

LEMMA InitIInv == Init => IInv
  <1> SUFFICES ASSUME Init PROVE IInv
    OBVIOUS
  <1>1. \A u \in Users : IRow(u, account[u], now)
    BY ConstantRows DEF Init
  <1>2. account \in [Users -> Row] /\ now \in 0..MaxTime
    BY <1>1 DEF Init, IRow
  <1>3. SomeAdminCanAct
    <2>1. account[Seeded] = FreshRow
      BY DEF Init
    <2>2. FreshRow.stage = "live" /\ FreshRow.active
      BY DEF FreshRow
    <2>3. QED
      BY <2>1, <2>2 DEF SomeAdminCanAct, CanAct
  <1>4. QED
    BY <1>1, <1>2, <1>3 DEF IInv

\* What the user does leaves administrators able to act: it never clears active.
LEMMA UserStepIInv ==
    ASSUME IInv, NEW u \in Users, UserStep(u)
    PROVE  IInv'
  <1> DEFINE Kept(row) == /\ Write(u, row)
                          /\ IRow(u, row, now)
                          /\ CanAct(u) => row.stage = "live" /\ row.active
  <1>0. now \in Nat /\ account[u] \in Row /\ IRow(u, account[u], now)
    BY DEF IInv
  <1>1. \E row : Kept(row)
    <2>1. CASE Register(u)
      BY <2>1, <1>0, ConstantRows DEF Register, CanAct, FreshRow
    <2>2. CASE RequestDeletion(u)
      BY <2>2, <1>0, HandlerRows DEF RequestDeletion, Requested, CanAct, Row
    <2>3. CASE CancelDeletionRequest(u)
      <3>1. /\ Cancelled(account[u]).stage = account[u].stage
            /\ Cancelled(account[u]).active = account[u].active
        BY <1>0 DEF Cancelled, Row
      <3>2. Kept(Cancelled(account[u]))
        BY <2>3, <3>1, <1>0, HandlerRows DEF CancelDeletionRequest, CanAct
      <3>3. QED
        BY <3>2
    <2>4. CASE RecoverAccount(u)
      <3>1. /\ Recovering(account[u], now).stage = account[u].stage
            /\ Recovering(account[u], now).active = account[u].active
        BY <1>0 DEF Recovering, Row
      <3>2. Kept(Recovering(account[u], now))
        BY <2>4, <3>1, <1>0, HandlerRows DEF RecoverAccount, CanAct
      <3>3. QED
        BY <3>2
    <2>5. QED
      BY <2>1, <2>2, <2>3, <2>4, UserStep(u) DEF UserStep
  <1>2. PICK row : Kept(row)
    BY <1>1
  <1>3. SomeAdminCanAct'
    BY <1>2 DEF IInv, SomeAdminCanAct, CanAct, Write
  <1>4. QED
    BY <1>2, <1>3, WriteKeepsRows DEF IInv

\* What an administrator does leaves that administrator able to act.
LEMMA AdminStepIInv ==
    ASSUME IInv, NEW a \in Admins, NEW u \in Users, AdminStep(a, u)
    PROVE  IInv'
  <1> DEFINE Kept(row) == /\ CanAct(a)
                          /\ Write(u, row)
                          /\ IRow(u, row, now)
                          /\ u = a => row.stage = "live" /\ row.active
  <1>0. now \in Nat /\ account[u] \in Row /\ IRow(u, account[u], now)
    BY DEF IInv
  <1>1. \E row : Kept(row)
    <2>1. CASE CreateUser(a, u)
      BY <2>1, <1>0, ConstantRows DEF CreateUser, AdminActs, CanAct, FreshRow
    <2>2. ASSUME NEW b \in BOOLEAN, SetUserActive(a, u, b)
          PROVE  \E row : Kept(row)
      <3>1. /\ SetActive(account[u], b).stage = account[u].stage
            /\ SetActive(account[u], b).active = b
        BY <1>0 DEF SetActive, Row
      <3>2. Kept(SetActive(account[u], b))
        BY <2>2, <3>1, <1>0, HandlerRows DEF SetUserActive, CanSetActive, AdminActs
      <3>3. QED
        BY <3>2
    <2>3. CASE AcceptDeletion(a, u)
      <3>1. u # a
        BY <2>3, <1>0 DEF AcceptDeletion, CanAccept, Status, IRow
      <3>2. QED
        BY <3>1, <2>3, <1>0, HandlerRows DEF AcceptDeletion, AdminActs
    <2>4. CASE RejectDeletion(a, u)
      <3>1. /\ Cancelled(account[u]).stage = account[u].stage
            /\ Cancelled(account[u]).active = account[u].active
        BY <1>0 DEF Cancelled, Row
      <3>2. Kept(Cancelled(account[u]))
        BY <2>4, <3>1, <1>0, HandlerRows DEF RejectDeletion, AdminActs, CanAct
      <3>3. QED
        BY <3>2
    <2>5. CASE ApproveRecovery(a, u)
      <3>1. /\ Approved(account[u]).stage = account[u].stage
            /\ Approved(account[u]).active
        BY <1>0 DEF Approved, Row
      <3>2. Kept(Approved(account[u]))
        BY <2>5, <3>1, <1>0, HandlerRows DEF ApproveRecovery, AdminActs, CanAct
      <3>3. QED
        BY <3>2
    <2>6. CASE RejectRecovery(a, u)
      BY <2>6, <1>0, HandlerRows DEF RejectRecovery, RecoveryRejected, AdminActs, CanAct, Row
    <2>7. CASE DeleteUser(a, u)
      BY <2>7, <1>0, ConstantRows DEF DeleteUser, CanDelete, AdminActs
    <2>8. QED
      BY <2>1, <2>2, <2>3, <2>4, <2>5, <2>6, <2>7, AdminStep(a, u) DEF AdminStep
  <1>2. PICK row : Kept(row)
    BY <1>1
  <1>3. SomeAdminCanAct'
    BY <1>2 DEF IInv, SomeAdminCanAct, CanAct, Write
  <1>4. QED
    BY <1>2, <1>3, WriteKeepsRows DEF IInv

LEMMA TickIInv ==
    ASSUME IInv, Tick
    PROVE  IInv'
  BY DEF IInv, IRow, Row, Tick, SomeAdminCanAct, CanAct

LEMMA StepIInv == IInv /\ [Next]_vars => IInv'
  <1> SUFFICES ASSUME IInv, [Next]_vars
               PROVE  IInv'
    OBVIOUS
  <1>1. CASE Next
    BY <1>1, UserStepIInv, AdminStepIInv, TickIInv DEF Next
  <1>2. CASE UNCHANGED vars
    BY <1>2 DEF vars, IInv, SomeAdminCanAct, CanAct
  <1>3. QED
    BY <1>1, <1>2

LEMMA SpecIInv == Spec => []IInv
  BY InitIInv, StepIInv, PTL DEF Spec

-----------------------------------------------------------------------------
(* The theorems *)

\* Every reachable row and clock is well typed.
THEOREM TypeCorrect == Spec => []TypeOK
  <1>1. IInv => TypeOK
    BY DEF IInv, TypeOK
  <1>2. QED
    BY <1>1, SpecIInv, PTL

\* Nobody can lock every administrator out, when handlers do not overlap.
THEOREM AdminPanelReachable == Spec => []SomeAdminCanAct
  <1>1. IInv => SomeAdminCanAct
    BY DEF IInv
  <1>2. QED
    BY <1>1, SpecIInv, PTL

\* Administrators never enter the deletion life cycle and are never purged.
THEOREM AdminsExempt == Spec => []NoAdminUnderReview
  <1>1. IInv => NoAdminUnderReview
    BY DEF IInv, IRow, NoAdminUnderReview, Status
  <1>2. QED
    BY <1>1, SpecIInv, PTL

\* Recovery requests exist only for deleted accounts, from inside the window.
THEOREM RecoveryTimely == Spec => []RecoveryInsideWindow
  <1>1. IInv => RecoveryInsideWindow
    BY DEF IInv, IRow, RecoveryInsideWindow
  <1>2. QED
    BY <1>1, SpecIInv, PTL
-----------------------------------------------------------------------------
(* The recovery window *)

\* How one step may change one row: a row keeps its deleted_at, or sets it to
\* the present, or clears it inside the window; and it stays live or is purged.
RowStep(row, new, t) ==
    row.stage = "live" =>
        /\ new.stage \in {"live", "purged"}
        /\ new.stage = "live" /\ new.deletedAt # row.deletedAt =>
              \/ row.deletedAt = NoTime /\ new.deletedAt = t
              \/ /\ row.deletedAt # NoTime
                 /\ new.deletedAt = NoTime
                 /\ t - row.deletedAt < RecoveryWindow

\* Every handler's write is such a change, and it leaves the other rows alone.
LEMMA HandlerRowStep ==
    ASSUME IInv, Next, NEW u \in Users
    PROVE  RowStep(account[u], account'[u], now) /\ now' \in {now, now + 1}
  <1> DEFINE Writes(v, row) == Write(v, row) /\ RowStep(account[v], row, now)
  <1>0. \A v \in Users : account[v] \in Row
    BY DEF IInv
  <1>1. ASSUME NEW v \in Users, UserStep(v)
        PROVE  \E row : Writes(v, row)
    <2>1. CASE Register(v)
      BY <2>1 DEF Register, RowStep
    <2>2. CASE RequestDeletion(v)
      BY <2>2, <1>0 DEF RequestDeletion, Requested, RowStep, Row
    <2>3. CASE CancelDeletionRequest(v)
      BY <2>3, <1>0 DEF CancelDeletionRequest, Cancelled, RowStep, Row
    <2>4. CASE RecoverAccount(v)
      BY <2>4, <1>0 DEF RecoverAccount, Recovering, RowStep, Row
    <2>5. QED
      BY <1>1, <2>1, <2>2, <2>3, <2>4 DEF UserStep
  <1>2. ASSUME NEW a \in Admins, NEW v \in Users, AdminStep(a, v)
        PROVE  \E row : Writes(v, row)
    <2>1. CASE CreateUser(a, v)
      BY <2>1 DEF CreateUser, RowStep
    <2>2. ASSUME NEW b \in BOOLEAN, SetUserActive(a, v, b)
          PROVE  \E row : Writes(v, row)
      BY <2>2, <1>0 DEF SetUserActive, SetActive, RowStep, Row
    <2>3. CASE AcceptDeletion(a, v)
      <3>1. account[v].deletedAt = NoTime
        BY <2>3 DEF AcceptDeletion, CanAccept, Status
      <3>2. /\ Accepted(account[v], now).stage = account[v].stage
            /\ Accepted(account[v], now).deletedAt = now
        BY <1>0 DEF Accepted, Row
      <3>3. Writes(v, Accepted(account[v], now))
        BY <2>3, <3>1, <3>2 DEF AcceptDeletion, RowStep
      <3>4. QED
        BY <3>3
    <2>4. CASE RejectDeletion(a, v)
      BY <2>4, <1>0 DEF RejectDeletion, Cancelled, RowStep, Row
    <2>5. CASE ApproveRecovery(a, v)
      <3>1. /\ account[v].deletedAt # NoTime
            /\ ~(now - account[v].deletedAt >= RecoveryWindow)
        BY <2>5 DEF ApproveRecovery, CanApprove, Status
      <3>2. now - account[v].deletedAt < RecoveryWindow
        BY <3>1, <1>0 DEF IInv, Row
      <3>3. /\ Approved(account[v]).stage = account[v].stage
            /\ Approved(account[v]).deletedAt = NoTime
        BY <1>0 DEF Approved, Row
      <3>4. Writes(v, Approved(account[v]))
        BY <2>5, <3>1, <3>2, <3>3 DEF ApproveRecovery, RowStep
      <3>5. QED
        BY <3>4
    <2>6. CASE RejectRecovery(a, v)
      BY <2>6, <1>0 DEF RejectRecovery, RecoveryRejected, RowStep, Row
    <2>7. CASE DeleteUser(a, v)
      BY <2>7 DEF DeleteUser, PurgedRow, NoRow, RowStep
    <2>8. QED
      BY <1>2, <2>1, <2>2, <2>3, <2>4, <2>5, <2>6, <2>7 DEF AdminStep
  <1>3. ASSUME NEW v \in Users, NEW row, Writes(v, row)
        PROVE  RowStep(account[u], account'[u], now) /\ now' = now
    BY <1>3 DEF Write, IInv, RowStep
  <1>4. CASE Tick
    BY <1>4 DEF Tick, RowStep, IInv
  <1>5. QED
    BY <1>1, <1>2, <1>3, <1>4, Next DEF Next

\* The recovery window of a soft-deleted account is never extended.
THEOREM WindowFixed == Spec => WindowNeverMoves
  <1>1. IInv /\ [Next]_vars => [\A u \in Users :
          LET was == account[u].deletedAt IN
          account[u].stage = "live" /\ account'[u].stage = "live"
            /\ account'[u].deletedAt # was =>
              \/ was = NoTime /\ account'[u].deletedAt = now
              \/ was # NoTime /\ account'[u].deletedAt = NoTime /\ now - was < RecoveryWindow]_vars
    BY HandlerRowStep DEF RowStep
  <1>2. QED
    BY <1>1, SpecIInv, PTL DEF Spec, WindowNeverMoves

\* Only set_user_active enables a dormant row: the reviews that would enable one
\* ask for another status, and the other handlers keep is_active.
LEMMA DormantRowEnabled ==
    ASSUME IInv, Next, NEW u \in Users, Dormant(u), ~account[u].active, account'[u].active
    PROVE  \E a \in Admins : SetUserActive(a, u, TRUE)
  <1>0. /\ account \in [Users -> Row]
        /\ account[u] \in Row /\ account[u].stage = "live"
        /\ Status(account[u], now) = "dormant"
    BY DEF Dormant, IInv
  <1>1. ASSUME NEW v \in Users, NEW row, Write(v, row)
        PROVE  v = u /\ row.active
    BY <1>0, <1>1 DEF Write
  <1>2. ASSUME NEW v \in Users, UserStep(v) PROVE FALSE
    <2>1. /\ Requested(account[u]).active = account[u].active
          /\ Cancelled(account[u]).active = account[u].active
      BY <1>0 DEF Requested, Cancelled, Row
    <2>2. ~Register(v)
      BY <1>0, <1>1 DEF Register
    <2>3. ~RequestDeletion(v) /\ ~CancelDeletionRequest(v)
      BY <1>1, <2>1 DEF RequestDeletion, CancelDeletionRequest
    <2>4. ~RecoverAccount(v)
      BY <1>0, <1>1 DEF RecoverAccount, CanRecover
    <2>5. QED
      BY <1>2, <2>2, <2>3, <2>4 DEF UserStep
  <1>3. ASSUME NEW a \in Admins, NEW v \in Users, AdminStep(a, v)
        PROVE  SetUserActive(a, u, TRUE)
    <2>1. ~CreateUser(a, v)
      BY <1>0, <1>1 DEF CreateUser
    <2>2. ~AcceptDeletion(a, v) /\ ~RejectDeletion(a, v)
      BY <1>0, <1>1 DEF AcceptDeletion, RejectDeletion, CanAccept, CanReject
    <2>3. ~ApproveRecovery(a, v) /\ ~RejectRecovery(a, v)
      BY <1>0, <1>1 DEF ApproveRecovery, RejectRecovery, CanApprove, CanRejectRecovery
    <2>4. ~DeleteUser(a, v)
      BY <1>1 DEF DeleteUser, PurgedRow, NoRow
    <2>5. ASSUME NEW b \in BOOLEAN, SetUserActive(a, v, b) PROVE v = u /\ b = TRUE
      <3>1. v = u /\ SetActive(account[v], b).active
        BY <1>1, <2>5 DEF SetUserActive
      <3>2. SetActive(account[u], b).active = b
        BY <1>0 DEF SetActive, Row
      <3>3. QED
        BY <3>1, <3>2
    <2>6. QED
      BY <1>3, <2>1, <2>2, <2>3, <2>4, <2>5 DEF AdminStep
  <1>4. ~Tick
    BY DEF Tick
  <1>5. QED
    BY <1>2, <1>3, <1>4 DEF Next

\* A dormant account stays dormant until an administrator purges it, and only an
\* administrator who enables it by name lets anyone sign in with it again.
THEOREM DormancyLasts == Spec => DormantWakesOnlyByName
  <1> DEFINE Woken(u) == account'[u].active =>
                             account[u].active \/ \E a \in Admins : SetUserActive(a, u, TRUE)
  <1>1. ASSUME IInv, Next, NEW u \in Users, Dormant(u)
        PROVE  account'[u].stage = "purged" \/ (Dormant(u)' /\ Woken(u))
    <2>1. /\ account[u] \in Row
          /\ account[u].stage = "live"
          /\ account[u].deletedAt # NoTime
          /\ now - account[u].deletedAt >= RecoveryWindow
          /\ now \in Nat
      BY <1>1 DEF Dormant, Status, IInv
    <2>2. CASE account'[u].stage = "live"
      <3>1. account'[u].deletedAt = account[u].deletedAt
        BY <1>1, <2>1, <2>2, HandlerRowStep DEF RowStep, Row
      <3>2. now' - account'[u].deletedAt >= RecoveryWindow
        BY <1>1, <2>1, <3>1, HandlerRowStep DEF Row
      <3>3. Dormant(u)'
        BY <2>1, <2>2, <3>1, <3>2 DEF Dormant, Status
      <3>4. Woken(u)
        BY <1>1, DormantRowEnabled
      <3>5. QED
        BY <3>3, <3>4
    <2>3. QED
      BY <1>1, <2>1, <2>2, HandlerRowStep DEF RowStep
  <1>2. IInv /\ [Next]_vars =>
          [\A u \in Users : Dormant(u) =>
              \/ account'[u].stage = "purged"
              \/ /\ Dormant(u)'
                 /\ account'[u].active => \/ account[u].active
                                         \/ \E a \in Admins : SetUserActive(a, u, TRUE)]_vars
    BY <1>1
  <1>3. QED
    BY <1>2, SpecIInv, PTL DEF Spec, DormantWakesOnlyByName
-----------------------------------------------------------------------------
(* Part II: load and commit.  Rows *)

Columns == {"stage", "active", "requested", "deletedAt", "recovery"}

\* The columns of a row, each by its type.
LEMMA RowColumns ==
  ASSUME NEW row \in Row
  PROVE  /\ DOMAIN row = Columns
         /\ row.stage \in {"new", "live", "purged"} /\ row.active \in BOOLEAN
         /\ row.requested \in BOOLEAN /\ row.deletedAt \in Time /\ row.recovery \in Time
  BY DEF Columns, Row

\* What a commit writes is a row, each column the assigned or the present one.
LEMMA WrittenRow ==
  ASSUME NEW row \in Row, NEW q \in Request
  PROVE  /\ Written(row, q) \in Row
         /\ row.stage # "live" => Written(row, q) = row
         /\ \A c \in Columns : \/ Written(row, q)[c] = row[c]
                               \/ /\ Written(row, q)[c] = q.assigned[c]
                                  /\ row.stage = "live" /\ c \in Dirty(q)
<1>0. q.assigned \in Row /\ q.loaded \in Row
  BY DEF Request
<1>1. CASE row.stage # "live"
  BY <1>1 DEF Written
<1>2. CASE row.stage = "live"
  <2> DEFINE f(c) == IF c \in Dirty(q) THEN q.assigned[c] ELSE row[c]
  <2>1. Written(row, q) = [c \in Columns |-> f(c)]
    BY <1>2, RowColumns DEF Written
  <2>2. /\ f("stage") \in {"new", "live", "purged"} /\ f("active") \in BOOLEAN
        /\ f("requested") \in BOOLEAN /\ f("deletedAt") \in Time /\ f("recovery") \in Time
    BY <1>0, RowColumns
  <2>3. \A c \in Columns : Written(row, q)[c] = f(c)
    BY <2>1
  <2>4. Written(row, q) \in Row
    <3> HIDE DEF f
    <3> QED BY <2>1, <2>2 DEF Columns, Row
  <2> QED BY <1>2, <2>3, <2>4
<1> QED BY <1>1, <1>2

-----------------------------------------------------------------------------
(* What a handler has checked and assigned *)

\* The request's administrator passed the check on the row as it was loaded.
Reviewed(q) ==
    /\ q.actor \in Admins
    /\ \/ q.op = "set_active" /\ \E b \in BOOLEAN :
              CanSetActive(q.actor, q.user, b, q.loaded) /\ q.assigned = SetActive(q.loaded, b)
       \/ q.op = "accept" /\ CanAccept(q.loaded, q.at) /\ q.assigned = Accepted(q.loaded, q.at)
       \/ q.op = "reject" /\ CanReject(q.loaded, q.at) /\ q.assigned = Cancelled(q.loaded)
       \/ q.op = "approve" /\ CanApprove(q.loaded, q.at) /\ q.assigned = Approved(q.loaded)
       \/ /\ q.op = "reject_recovery" /\ CanRejectRecovery(q.loaded, q.at)
          /\ q.assigned = RecoveryRejected(q.loaded)
       \/ q.op = "delete" /\ CanDelete(q.user, q.loaded) /\ q.assigned = PurgedRow

\* The user's own request did.
Asked(q) ==
    /\ q.actor = q.user
    /\ \/ q.op = "request" /\ CanRequest(q.user) /\ q.assigned = Requested(q.loaded)
       \/ q.op = "cancel" /\ q.assigned = Cancelled(q.loaded)
       \/ q.op = "recover" /\ CanRecover(q.loaded, q.at) /\ q.assigned = Recovering(q.loaded, q.at)

Checked(q) == Reviewed(q) \/ Asked(q)

\* An administrator's row as it always is: never requested, deleted or purged.
Exempt(row) == row.stage = "live" /\ ~row.requested /\ row.deletedAt = NoTime

\* A thread holds a request that was checked, and an administrator's row is
\* exempt in the table and in every copy that was loaded of it.
RInv ==
    /\ ReqTypeOK
    /\ \A s \in Slots : request[s] # Idle => Checked(request[s])
    /\ \A a \in Admins : Exempt(account[a])
    /\ \A s \in Slots : request[s] # Idle /\ request[s].user \in Admins => Exempt(request[s].loaded)

\* What the handlers assign are rows.
LEMMA AssignedRows ==
  ASSUME NEW row \in Row, NEW t \in Nat
  PROVE  /\ \A b \in BOOLEAN : SetActive(row, b) \in Row
         /\ Requested(row) \in Row /\ Cancelled(row) \in Row
         /\ Accepted(row, t) \in Row /\ Recovering(row, t) \in Row
         /\ Approved(row) \in Row /\ RecoveryRejected(row) \in Row /\ PurgedRow \in Row
  BY DEF Row, SetActive, Requested, Cancelled, Accepted, Recovering, Approved, RecoveryRejected,
     PurgedRow, NoRow

\* A checked handler leaves an exempt row exempt: a review needs a request or a
\* deletion on record, and the user's own request asks for the role.
LEMMA ExemptStays ==
  ASSUME NEW q \in Request, Checked(q), q.user \in Admins, Exempt(q.loaded)
  PROVE  Exempt(q.assigned)
<1>0. q.loaded \in Row
  BY DEF Request
<1>1. ASSUME NEW b \in BOOLEAN PROVE Exempt(SetActive(q.loaded, b))
  BY <1>0 DEF Exempt, SetActive, Row
<1>2. Exempt(Cancelled(q.loaded)) /\ Exempt(Approved(q.loaded)) /\ Exempt(RecoveryRejected(q.loaded))
  BY <1>0 DEF Exempt, Cancelled, Approved, RecoveryRejected, Row
<1>3. ~CanAccept(q.loaded, q.at) /\ ~CanRecover(q.loaded, q.at)
  BY DEF Exempt, CanAccept, CanRecover, Status
<1>4. ~CanRequest(q.user) /\ ~CanDelete(q.user, q.loaded)
  BY DEF CanRequest, CanDelete
<1> QED BY <1>1, <1>2, <1>3, <1>4 DEF Checked, Reviewed, Asked

\* Every row is new and every thread idle.
LEMMA InitRInv == ReqInit => RInv
<1> SUFFICES ASSUME ReqInit PROVE RInv
  OBVIOUS
<1>1. FreshRow \in Row /\ Exempt(FreshRow)
  BY DEF FreshRow, Row, Exempt
<1>2. ReqTypeOK
  BY <1>1 DEF ReqInit, ReqTypeOK, TypeOK
<1> QED BY <1>1, <1>2 DEF ReqInit, RInv

\* Beginning a checked request on the row in the table keeps the invariant.
LEMMA BeginRInv ==
  ASSUME RInv, NEW s \in Slots, NEW op \in Ops, NEW a \in Users, NEW u \in Users, NEW row \in Row,
         Begin(s, op, a, u, row),
         Checked([op |-> op, actor |-> a, user |-> u, loaded |-> account[u],
                  assigned |-> row, at |-> now])
  PROVE  RInv'
<1>1. PICK q : q = [op |-> op, actor |-> a, user |-> u, loaded |-> account[u],
                    assigned |-> row, at |-> now]
  OBVIOUS
<1>2. q \in Request /\ Checked(q) /\ (u \in Admins => Exempt(q.loaded)) /\ q.user = u
  BY <1>1 DEF RInv, ReqTypeOK, TypeOK, Request
<1>3. request' = [request EXCEPT ![s] = q] /\ UNCHANGED <<account, now>>
  BY <1>1 DEF Begin
<1>4. ReqTypeOK'
  BY <1>2, <1>3 DEF RInv, ReqTypeOK, TypeOK
<1>5. \A p \in Slots : request'[p] # Idle => Checked(request'[p])
  BY <1>2, <1>3 DEF RInv, ReqTypeOK
<1>6. \A p \in Slots : request'[p] # Idle /\ request'[p].user \in Admins => Exempt(request'[p].loaded)
  BY <1>2, <1>3 DEF RInv, ReqTypeOK
<1> QED BY <1>3, <1>4, <1>5, <1>6 DEF RInv

\* A commit writes a row, and an administrator's row stays exempt: both what is
\* written and what is left are.
LEMMA CommitRInv == ASSUME RInv, NEW s \in Slots, Commit(s) PROVE RInv'
<1>1. PICK q : q = request[s]
  OBVIOUS
<1>2. q \in Request /\ Checked(q) /\ q.user \in Users /\ account[q.user] \in Row /\ q.assigned \in Row
  BY <1>1 DEF Commit, RInv, ReqTypeOK, TypeOK, Request
<1>3. PICK row : row = Written(account[q.user], q)
  OBVIOUS
<1>4. /\ account' = [account EXCEPT ![q.user] = row]
      /\ request' = [request EXCEPT ![s] = Idle] /\ UNCHANGED now
  BY <1>1, <1>3 DEF Commit
<1>5. row \in Row
  BY <1>2, <1>3, WrittenRow
<1>6. q.user \in Admins => Exempt(row)
  <2>1. SUFFICES ASSUME q.user \in Admins PROVE Exempt(row)
    OBVIOUS
  <2>2. Exempt(account[q.user]) /\ Exempt(q.assigned)
    BY <1>1, <1>2, <2>1, ExemptStays DEF RInv, Commit
  <2>3. \A c \in Columns : row[c] = account[q.user][c] \/ row[c] = q.assigned[c]
    BY <1>2, <1>3, WrittenRow
  <2> QED BY <1>2, <1>5, <2>2, <2>3 DEF Exempt, Columns
<1>7. ReqTypeOK'
  BY <1>4, <1>5 DEF RInv, ReqTypeOK, TypeOK
<1>8. \A a \in Admins : Exempt(account'[a])
  BY <1>4, <1>6, <1>7 DEF RInv, ReqTypeOK, TypeOK
<1>9. \A p \in Slots : request'[p] # Idle => p # s /\ request'[p] = request[p]
  BY <1>4 DEF RInv, ReqTypeOK
<1> QED BY <1>7, <1>8, <1>9 DEF RInv

\* Every handler begins with its check.
LEMMA UserBegins ==
  ASSUME RInv, NEW s \in Slots, NEW u \in Users,
         BeginRequest(s, u) \/ BeginCancel(s, u) \/ BeginRecover(s, u)
  PROVE  RInv'
<1>0. account[u] \in Row /\ now \in Nat
  BY DEF RInv, ReqTypeOK, TypeOK
<1>1. CASE BeginRequest(s, u)
  BY <1>0, <1>1, BeginRInv, AssignedRows DEF BeginRequest, Checked, Asked, Ops
<1>2. CASE BeginCancel(s, u)
  BY <1>0, <1>2, BeginRInv, AssignedRows DEF BeginCancel, Checked, Asked, Ops
<1>3. CASE BeginRecover(s, u)
  BY <1>0, <1>3, BeginRInv, AssignedRows DEF BeginRecover, Checked, Asked, Ops
<1> QED BY <1>1, <1>2, <1>3

\* So does every review.
LEMMA AdminBegins ==
  ASSUME RInv, NEW s \in Slots, NEW a \in Admins, NEW u \in Users,
         \/ \E b \in BOOLEAN : BeginSetActive(s, a, u, b)
         \/ BeginAccept(s, a, u) \/ BeginReject(s, a, u) \/ BeginApprove(s, a, u)
         \/ BeginRejectRecovery(s, a, u) \/ BeginDelete(s, a, u)
  PROVE  RInv'
<1>0. account[u] \in Row /\ now \in Nat /\ a \in Users
  BY DEF RInv, ReqTypeOK, TypeOK
<1>1. ASSUME NEW b \in BOOLEAN, BeginSetActive(s, a, u, b) PROVE RInv'
  BY <1>0, <1>1, BeginRInv, AssignedRows DEF BeginSetActive, Checked, Reviewed, Ops
<1>2. CASE BeginAccept(s, a, u)
  BY <1>0, <1>2, BeginRInv, AssignedRows DEF BeginAccept, Checked, Reviewed, Ops
<1>3. CASE BeginReject(s, a, u)
  BY <1>0, <1>3, BeginRInv, AssignedRows DEF BeginReject, Checked, Reviewed, Ops
<1>4. CASE BeginApprove(s, a, u)
  BY <1>0, <1>4, BeginRInv, AssignedRows DEF BeginApprove, Checked, Reviewed, Ops
<1>5. CASE BeginRejectRecovery(s, a, u)
  BY <1>0, <1>5, BeginRInv, AssignedRows DEF BeginRejectRecovery, Checked, Reviewed, Ops
<1>6. CASE BeginDelete(s, a, u)
  BY <1>0, <1>6, BeginRInv, AssignedRows DEF BeginDelete, Checked, Reviewed, Ops
<1> QED BY <1>1, <1>2, <1>3, <1>4, <1>5, <1>6

\* Every step keeps the invariant.
LEMMA StepRInv == RInv /\ [ReqNext]_reqVars => RInv'
<1> SUFFICES ASSUME RInv, [ReqNext]_reqVars PROVE RInv'
  OBVIOUS
<1>1. CASE ReqTick
  BY <1>1 DEF ReqTick, Tick, RInv, ReqTypeOK, TypeOK
<1>2. CASE UNCHANGED reqVars
  BY <1>2 DEF reqVars, RInv, ReqTypeOK, TypeOK
<1> QED BY <1>1, <1>2, UserBegins, AdminBegins, CommitRInv DEF ReqNext

\* The invariant holds of every reachable state.
LEMMA RInvHolds == ReqSpec => []RInv
  BY InitRInv, StepRInv, PTL DEF ReqSpec

-----------------------------------------------------------------------------
(* The theorems *)

\* Rows keep their types and every thread is idle or holds a well-formed request.
THEOREM RequestsTypeCorrect == ReqSpec => []ReqTypeOK
<1>1. RInv => ReqTypeOK
  BY DEF RInv
<1> QED BY <1>1, RInvHolds, PTL

\* No interleaving of handlers takes an administrator into the deletion life
\* cycle or purges one, although the review handlers do not look at the role.
THEOREM AdminsNeverDeleted == ReqSpec => []NoAdminEverDeleted
<1>1. RInv => NoAdminEverDeleted
  BY DEF RInv, Exempt, NoAdminEverDeleted
<1> QED BY <1>1, RInvHolds, PTL

\* What a step does to a row, a commit of a request for it did.
LEMMA RowsChangeByCommit ==
  ASSUME RInv, [ReqNext]_reqVars, NEW u \in Users, account'[u] # account[u]
  PROVE  \E s \in Slots : /\ Committing(s, u) /\ request[s] \in Request /\ Checked(request[s])
                          /\ account'[u] = Written(account[u], request[s])
<1>1. PICK s \in Slots : Commit(s)
  <2>1. ~UNCHANGED account
    OBVIOUS
  <2> QED BY <2>1 DEF reqVars, ReqNext, ReqTick, Tick, Begin, BeginRequest, BeginCancel, BeginRecover,
            BeginSetActive, BeginAccept, BeginReject, BeginApprove, BeginRejectRecovery, BeginDelete
<1>2. request[s] # Idle /\ request[s] \in Request /\ Checked(request[s])
  BY <1>1 DEF Commit, RInv, ReqTypeOK
<1>3. request'[s] = Idle
  BY <1>1 DEF Commit, RInv, ReqTypeOK
<1>4. account' = [account EXCEPT ![request[s].user] = Written(account[request[s].user], request[s])]
  BY <1>1 DEF Commit
<1>5. Committing(s, u)
  BY <1>2, <1>3, <1>4 DEF Committing, RInv, ReqTypeOK, TypeOK
<1> QED BY <1>2, <1>4, <1>5 DEF Committing, RInv, ReqTypeOK, TypeOK

\* What a user assigns to a row neither enables it nor lifts its soft delete.
LEMMA UsersRestoreNothing ==
  ASSUME NEW q \in Request, Asked(q)
  PROVE  q.assigned.active = q.loaded.active /\ q.assigned.deletedAt = q.loaded.deletedAt
  BY DEF Request, Row, Asked, Requested, Cancelled, Recovering

\* A user's own request that overlaps a review cannot undo it.
THEOREM AdminsRestore == ReqSpec => OnlyAdminsRestore
<1> DEFINE Restored(u) == \/ ~account[u].active /\ account'[u].active
                          \/ account[u].deletedAt # NoTime /\ account'[u].deletedAt = NoTime
                               /\ account'[u].stage = "live"
           ByAdmin(u) == \E s \in Slots : Committing(s, u) /\ request[s].actor \in Admins
<1>1. ASSUME RInv, [ReqNext]_reqVars, NEW u \in Users, Restored(u) PROVE ByAdmin(u)
  <2>1. PICK s \in Slots : /\ Committing(s, u) /\ request[s] \in Request /\ Checked(request[s])
                           /\ account'[u] = Written(account[u], request[s])
    BY <1>1, RowsChangeByCommit
  <2>2. account[u] \in Row
    BY <1>1 DEF RInv, ReqTypeOK, TypeOK
  <2>3. \/ "active" \in Dirty(request[s])
        \/ "deletedAt" \in Dirty(request[s])
    BY <1>1, <2>1, <2>2, WrittenRow DEF Columns
  <2>4. \/ request[s].assigned.active # request[s].loaded.active
        \/ request[s].assigned.deletedAt # request[s].loaded.deletedAt
    BY <2>3 DEF Dirty
  <2>5. Reviewed(request[s])
    BY <2>1, <2>4, UsersRestoreNothing DEF Checked
  <2> QED BY <2>1, <2>5 DEF Reviewed
<1>2. RInv /\ [ReqNext]_reqVars => [\A u \in Users : Restored(u) => ByAdmin(u)]_reqVars
  BY <1>1
<1> QED BY <1>2, RInvHolds, PTL DEF ReqSpec, OnlyAdminsRestore

-----------------------------------------------------------------------------
(* What overlapping reviews may do *)

\* deleted_at differs from what was loaded only in an acceptance that found the
\* request standing, and in an approval that found the window open.
LEMMA AssignedDeletion ==
  ASSUME NEW q \in Request, Checked(q), q.assigned.stage = "live",
         q.assigned.deletedAt # q.loaded.deletedAt
  PROVE  \/ /\ q.assigned.deletedAt = q.at
            /\ q.loaded.requested /\ q.loaded.deletedAt = NoTime
         \/ /\ q.assigned.deletedAt = NoTime /\ q.loaded.deletedAt # NoTime
            /\ q.at - q.loaded.deletedAt < RecoveryWindow
<1>0. q.loaded \in Row /\ q.at \in Nat
  BY DEF Request
<1>1. ~Asked(q)
  BY UsersRestoreNothing
<1>2. /\ \A b \in BOOLEAN : SetActive(q.loaded, b).deletedAt = q.loaded.deletedAt
      /\ Cancelled(q.loaded).deletedAt = q.loaded.deletedAt
      /\ RecoveryRejected(q.loaded).deletedAt = q.loaded.deletedAt
      /\ PurgedRow.stage = "purged"
      /\ Accepted(q.loaded, q.at).deletedAt = q.at
      /\ Approved(q.loaded).deletedAt = NoTime
  BY <1>0 DEF SetActive, Cancelled, RecoveryRejected, PurgedRow, NoRow, Accepted, Approved, Row
<1>3. CASE CanAccept(q.loaded, q.at) /\ q.assigned = Accepted(q.loaded, q.at)
  <2>1. q.loaded.requested /\ q.loaded.deletedAt = NoTime
    BY <1>3 DEF CanAccept, Status
  <2> QED BY <1>2, <1>3, <2>1
<1>4. CASE CanApprove(q.loaded, q.at) /\ q.assigned = Approved(q.loaded)
  <2>1. q.loaded.deletedAt # NoTime /\ ~(q.at - q.loaded.deletedAt >= RecoveryWindow)
    BY <1>4 DEF CanApprove, Status
  <2>2. q.loaded.deletedAt \in Time
    BY <1>0 DEF Row
  <2>3. q.at - q.loaded.deletedAt < RecoveryWindow
    BY <1>0, <2>1, <2>2
  <2> QED BY <1>2, <1>4, <2>1, <2>3
<1> QED BY <1>1, <1>2, <1>3, <1>4 DEF Checked, Reviewed

\* However reviews overlap, a deletion is set or lifted only as one of them had
\* decided on the row it loaded.
THEOREM WindowReviewed == ReqSpec => WindowMovesByReview
<1> DEFINE Moves(u) == /\ account[u].stage = "live" /\ account'[u].stage = "live"
                       /\ account'[u].deletedAt # account[u].deletedAt
           Decided(s, u) ==
             LET q == request[s] IN
             \/ /\ account'[u].deletedAt = q.at
                /\ q.loaded.requested /\ q.loaded.deletedAt = NoTime
             \/ /\ account'[u].deletedAt = NoTime
                /\ q.loaded.deletedAt # NoTime
                /\ q.at - q.loaded.deletedAt < RecoveryWindow
<1>1. ASSUME RInv, [ReqNext]_reqVars, NEW u \in Users, Moves(u)
      PROVE  \E s \in Slots : Committing(s, u) /\ Decided(s, u)
  <2>1. PICK s \in Slots : /\ Committing(s, u) /\ request[s] \in Request /\ Checked(request[s])
                           /\ account'[u] = Written(account[u], request[s])
    BY <1>1, RowsChangeByCommit
  <2>2. PICK q : q = request[s]
    OBVIOUS
  <2>3. account[u] \in Row
    BY <1>1 DEF RInv, ReqTypeOK, TypeOK
  <2>4. account'[u].deletedAt = q.assigned.deletedAt /\ "deletedAt" \in Dirty(q)
    BY <1>1, <2>1, <2>2, <2>3, WrittenRow DEF Columns
  <2>5. q.assigned.deletedAt # q.loaded.deletedAt
    BY <2>4 DEF Dirty
  <2>6. q.assigned.stage = "live"
    <3>1. q.loaded.stage = "live"
      BY <2>1, <2>2, <2>5, UsersRestoreNothing
         DEF Checked, Reviewed, CanSetActive, CanAccept, CanReject, CanApprove, CanRejectRecovery, CanDelete
    <3>2. CASE q.assigned.stage = q.loaded.stage
      BY <3>1, <3>2
    <3>3. CASE q.assigned.stage # q.loaded.stage
      <4>1. "stage" \in Dirty(q)
        BY <2>1, <2>2, <3>3, RowColumns DEF Dirty, Request, Columns
      <4>2. account'[u].stage = q.assigned.stage
        BY <1>1, <2>1, <2>2, <2>3, <4>1, RowColumns DEF Written, Columns
      <4> QED BY <1>1, <4>2
    <3> QED BY <3>2, <3>3
  <2>7. Decided(s, u)
    BY <2>1, <2>2, <2>4, <2>5, <2>6, AssignedDeletion
  <2> QED BY <2>1, <2>7
<1>2. RInv /\ [ReqNext]_reqVars =>
        [\A u \in Users :
            account[u].stage = "live" /\ account'[u].stage = "live"
              /\ account'[u].deletedAt # account[u].deletedAt =>
            \E s \in Slots : Committing(s, u) /\
                LET q == request[s] IN
                \/ /\ account'[u].deletedAt = q.at
                   /\ q.loaded.requested /\ q.loaded.deletedAt = NoTime
                \/ /\ account'[u].deletedAt = NoTime
                   /\ q.loaded.deletedAt # NoTime
                   /\ q.at - q.loaded.deletedAt < RecoveryWindow]_reqVars
  BY <1>1
<1> QED BY <1>2, RInvHolds, PTL DEF ReqSpec, WindowMovesByReview

\* A commit that wakes a deleted account is one of set_user_active, or of an
\* acceptance that had found the account disabled: any other that writes
\* is_active or deleted_at leaves the account disabled or not deleted.
LEMMA WakingCommit ==
  ASSUME NEW row \in Row, NEW q \in Request, Checked(q),
         ~(row.stage = "live" /\ row.active /\ row.deletedAt # NoTime),
         Written(row, q).stage = "live", Written(row, q).active, Written(row, q).deletedAt # NoTime
  PROVE  q.op = "set_active" \/ (q.op = "accept" /\ ~q.loaded.active)
<1>0. q.loaded \in Row /\ q.assigned \in Row
  BY DEF Request
<1>1. row.stage = "live"
  BY WrittenRow
<1>2. \A c \in Columns : Written(row, q)[c] = IF c \in Dirty(q) THEN q.assigned[c] ELSE row[c]
  BY <1>1, RowColumns DEF Written
<1>3. "active" \in Dirty(q) \/ "deletedAt" \in Dirty(q)
  BY <1>1, <1>2 DEF Columns
<1>4. q.assigned.active # q.loaded.active \/ q.assigned.deletedAt # q.loaded.deletedAt
  BY <1>3 DEF Dirty
<1>5. Reviewed(q)
  BY <1>4, UsersRestoreNothing DEF Checked
<1>6. /\ Cancelled(q.loaded).active = q.loaded.active
      /\ Cancelled(q.loaded).deletedAt = q.loaded.deletedAt
      /\ RecoveryRejected(q.loaded).active = q.loaded.active
      /\ RecoveryRejected(q.loaded).deletedAt = q.loaded.deletedAt
      /\ Approved(q.loaded).deletedAt = NoTime
      /\ Accepted(q.loaded, q.at).active = FALSE
      /\ PurgedRow.stage = "purged"
  BY <1>0 DEF Cancelled, RecoveryRejected, Approved, Accepted, PurgedRow, NoRow, Row
<1>7. ~(q.op = "approve" /\ CanApprove(q.loaded, q.at) /\ q.assigned = Approved(q.loaded))
  <2>1. SUFFICES ASSUME CanApprove(q.loaded, q.at), q.assigned = Approved(q.loaded) PROVE FALSE
    OBVIOUS
  <2>2. q.loaded.deletedAt # NoTime
    BY <2>1 DEF CanApprove, Status
  <2>3. "deletedAt" \in Dirty(q)
    BY <1>0, <1>6, <2>1, <2>2, RowColumns DEF Dirty, Columns
  <2> QED BY <1>2, <1>6, <2>1, <2>3 DEF Columns
<1>8. ~(q.op = "delete" /\ CanDelete(q.user, q.loaded) /\ q.assigned = PurgedRow)
  <2>1. SUFFICES ASSUME CanDelete(q.user, q.loaded), q.assigned = PurgedRow PROVE FALSE
    OBVIOUS
  <2>2. "stage" \in Dirty(q)
    BY <1>0, <1>6, <2>1, RowColumns DEF Dirty, CanDelete, Columns
  <2> QED BY <1>2, <1>6, <2>1, <2>2 DEF Columns
<1>9. q.op = "accept" /\ q.assigned = Accepted(q.loaded, q.at) => ~q.loaded.active
  <2>1. SUFFICES ASSUME q.assigned = Accepted(q.loaded, q.at), q.loaded.active PROVE FALSE
    OBVIOUS
  <2>2. q.assigned.active = FALSE
    BY <1>6, <2>1
  <2>3. "active" \in Dirty(q)
    BY <1>0, <2>1, <2>2, RowColumns DEF Dirty, Columns
  <2> QED BY <1>2, <2>2, <2>3 DEF Columns
<1> QED BY <1>4, <1>5, <1>6, <1>7, <1>8, <1>9 DEF Reviewed

\* No overlap lets anyone sign in with a deleted account that set_user_active
\* has not enabled.
THEOREM DeletedSleeps == ReqSpec => DeletedWakesOnlyByName
<1> DEFINE ByName(u) == \E s \in Slots : Committing(s, u) /\
              \/ request[s].op = "set_active"
              \/ request[s].op = "accept" /\ ~request[s].loaded.active
<1>1. ASSUME RInv, [ReqNext]_reqVars, NEW u \in Users, ~Awake(u), Awake(u)' PROVE ByName(u)
  <2>1. /\ ~(account[u].stage = "live" /\ account[u].active /\ account[u].deletedAt # NoTime)
        /\ account'[u].stage = "live" /\ account'[u].active /\ account'[u].deletedAt # NoTime
    BY <1>1 DEF Awake, CanAct
  <2>2. PICK s \in Slots : /\ Committing(s, u) /\ request[s] \in Request /\ Checked(request[s])
                           /\ account'[u] = Written(account[u], request[s])
    BY <1>1, <2>1, RowsChangeByCommit
  <2>3. account[u] \in Row
    BY <1>1 DEF RInv, ReqTypeOK, TypeOK
  <2> QED BY <2>1, <2>2, <2>3, WakingCommit
<1>2. RInv /\ [ReqNext]_reqVars => [\A u \in Users : ~Awake(u) /\ Awake(u)' => ByName(u)]_reqVars
  BY <1>1
<1> QED BY <1>2, RInvHolds, PTL DEF ReqSpec, DeletedWakesOnlyByName
=============================================================================
