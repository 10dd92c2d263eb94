--------------------------- MODULE Credentials_proofs ---------------------------
(* Proofs about Administration, for any users, plans, threads and bounds: that    *)
(* somebody always has the live password, and what overlapping edits of a user's  *)
(* row cannot do to one another.                                                  *)
EXTENDS Administration, TLAPS

Columns == {"password", "mustChange", "active", "plan", "models", "priority", "kpis", "limit"}
Edits == {"change_password", "forgot_password", "reset_password", "set_access", "set_priority",
          "assign_plan"}
Answered == {"create_user", "reset_password"}

\* An edit differs from what it loaded in its own columns only.
SoundEdit(q) == q.op \in Edits =>
    /\ DOMAIN q.loaded = Columns /\ DOMAIN q.assigned = Columns
    /\ \A c \in Columns \ Assigns(q.op) : q.assigned[c] = q.loaded[c]

SoundInsert(q) == q.op \in {"register", "create_user"} => DOMAIN q.assigned = Columns

\* Only the two that still have to answer do, with a password of their own.
SoundAnswer(q) ==
    /\ q.op \in Answered => q.assigned.password[1] = q.op
    /\ q.step = "answer" => q.op \in Answered

\* forgot_password commits what it has mailed.
SoundMail(q) == q.op = "forgot_password" /\ q.step = "commit" => <<q.user, q.assigned.password>> \in inbox

Sound(q) ==
    \/ q = Idle
    \/ /\ {"op", "step"} \subseteq DOMAIN q /\ q.op # "idle"
       /\ SoundEdit(q) /\ SoundInsert(q) /\ SoundAnswer(q) /\ SoundMail(q)

UsersTyped ==
    /\ DOMAIN users = Users
    /\ \A u \in Users : Exists(u) => DOMAIN users[u] = Columns

PInv ==
    /\ restarts \in Nat
    /\ DOMAIN thread = Threads
    /\ \A t \in Threads : Sound(thread[t])
    /\ UsersTyped
    /\ SomebodyHasThePassword

\* The rows are complete, and their users have chosen the passwords.
LEMMA InitSound == Init => PInv
<1> SUFFICES ASSUME Init PROVE PInv
  OBVIOUS
<1> PICK active \in BOOLEAN, plan \in Plans \cup {Null}, body \in {b \in PlanBodies : b.active},
         known \in SUBSET (Users \ Admins) :
      /\ plans = [p \in Plans |-> IF p = plan THEN body ELSE NoRow]
      /\ users = [u \in Users |->
                IF u \in Admins \cup known
                THEN [password |-> <<"register", 0>>, mustChange |-> FALSE,
                      active |-> u \in Admins \/ active, plan |-> plan, models |-> {},
                      priority |-> {}, kpis |-> {}, limit |-> Null]
                ELSE NoRow]
      /\ inbox = {<<u, <<"register", 0>>>> : u \in Admins \cup known}
      /\ rows = Tables \X known \X {0}
  BY Zenon DEF Init
<1>1. UsersTyped
  BY DEF UsersTyped, Exists, Stored, NoRow, Columns
<1>2. SomebodyHasThePassword
  BY DEF SomebodyHasThePassword, Exists, Stored, NoRow, HasGot
<1>3. restarts \in Nat /\ DOMAIN thread = Threads /\ \A t \in Threads : thread[t] = Idle
  BY DEF Init
<1> QED BY <1>1, <1>2, <1>3 DEF PInv, Sound

\* A thread goes on to q.  Of every row it says what becomes of its password: it has
\* been given away, q is to give it, or it is the one it was and t had not to give it.
Kept(t, u) ==
    \/ HasGot(u, users[u].password)'
    \/ Answering(t, u)'
    \/ Exists(u) /\ users'[u].password = users[u].password /\ ~Answering(t, u)

\* A step of one thread preserves the invariant when every password is kept.
LEMMA ThreadStep ==
  ASSUME PInv, NEW t \in Threads, NEW q, Sound(q)', thread' = [thread EXCEPT ![t] = q],
         restarts' = restarts, inbox \subseteq inbox', screen \subseteq screen',
         UsersTyped', \A u \in Users : Exists(u)' => Kept(t, u)
  PROVE  PInv'
<1>1. \A s \in Threads \ {t} : thread'[s] = thread[s]
  BY DEF PInv
<1>2. \A s \in Threads : Sound(thread[s])'
  BY <1>1 DEF PInv, Sound, SoundEdit, SoundInsert, SoundAnswer, SoundMail
<1>3. SomebodyHasThePassword'
  <2> SUFFICES ASSUME NEW u \in Users, Exists(u)'
      PROVE (\/ HasGot(u, users[u].password)
             \/ \E s \in Threads : Answering(s, u)
             \/ restarts > 0 /\ users[u].password[1] \in {"create_user", "reset_password"})'
    BY DEF SomebodyHasThePassword
  <2>1. CASE Exists(u) /\ users'[u].password = users[u].password /\ ~Answering(t, u)
    <3>1. CASE HasGot(u, users[u].password)
      BY <2>1, <3>1 DEF HasGot
    <3>2. ASSUME NEW s \in Threads, Answering(s, u) PROVE Answering(s, u)'
      BY <2>1, <3>2, <1>1 DEF Answering
    <3> QED BY <2>1, <3>1, <3>2 DEF PInv, SomebodyHasThePassword
  <2> QED BY <2>1 DEF Kept
<1>4. restarts' \in Nat /\ DOMAIN thread' = Threads
  BY DEF PInv
<1> QED BY <1>2, <1>3, <1>4 DEF PInv

\* The same when nobody's row changes and t had nothing to give.
LEMMA QuietStep ==
  ASSUME PInv, NEW t \in Threads, NEW q, Sound(q)', thread' = [thread EXCEPT ![t] = q],
         thread[t] = Idle \/ thread[t].step # "answer",
         UNCHANGED <<users, restarts>>, inbox \subseteq inbox', screen \subseteq screen'
  PROVE  PInv'
<1>1. UsersTyped'
  BY DEF PInv, UsersTyped, Exists
<1>2. \A u \in Users : Exists(u)' => Kept(t, u)
  BY DEF Kept, Exists, Answering
<1> QED BY <1>1, <1>2, ThreadStep

\* A request that is sound is accepted soundly.
LEMMA Accepted ==
  ASSUME PInv, NEW t \in Threads, NEW q, Sound(q), Accept(t, q), UNCHANGED <<users, screen, inbox>>
  PROVE  PInv'
<1>1. Sound(q)'
  BY DEF Sound, SoundEdit, SoundInsert, SoundAnswer, SoundMail
<1> QED BY <1>1, QuietStep DEF Accept

\* A request that had nothing to answer ends, and no row has changed.
LEMMA Finished ==
  ASSUME PInv, NEW t \in Threads, Finish(t), thread[t].step # "answer",
         UNCHANGED users, inbox \subseteq inbox', screen \subseteq screen'
  PROVE  PInv'
<1>1. Sound(Idle)'
  BY DEF Sound
<1> QED BY <1>1, QuietStep DEF Finish

-----------------------------------------------------------------------------
(* What a commit does to the row of a user *)

\* The commit of an edit, of its own columns of its own user.
LEMMA CommittedEdit ==
  ASSUME PInv, NEW t \in Threads, thread[t].op \in Edits, CommitUser(t)
  PROVE  /\ UsersTyped'
         /\ \A u \in Users : Exists(u)' <=> Exists(u)
         /\ \A u \in Users, c \in Columns : Exists(u) /\ users'[u][c] # users[u][c] =>
               c \in Assigns(thread[t].op) /\ u = thread[t].user /\ users'[u][c] = thread[t].assigned[c]
<1> DEFINE q == thread[t]
<1>1. DOMAIN q.loaded = Columns /\ DOMAIN q.assigned = Columns
      /\ \A c \in Columns \ Assigns(q.op) : q.assigned[c] = q.loaded[c]
  BY DEF PInv, Sound, SoundEdit, Edits, Idle
<1>2. users' = [users EXCEPT ![q.user] = Written(@, q.loaded, q.assigned)]
  BY DEF CommitUser
<1>3. DOMAIN users' = Users /\ \A u \in Users : u # q.user => users'[u] = users[u]
  BY <1>2 DEF PInv, UsersTyped
<1>4. ASSUME NEW u \in Users, u = q.user, Exists(u)
      PROVE  /\ DOMAIN users'[u] = Columns
             /\ \A c \in Columns : users'[u][c] =
                   IF q.assigned[c] # q.loaded[c] THEN q.assigned[c] ELSE users[u][c]
  BY <1>2, <1>4 DEF Written, Exists, PInv, UsersTyped
<1>5. ASSUME NEW u \in Users, u = q.user, ~Exists(u) PROVE users'[u] = users[u]
  BY <1>2, <1>5 DEF Written, Exists, PInv, UsersTyped
<1>6. "password" \notin DOMAIN NoRow /\ "password" \notin DOMAIN Deleted
  BY DEF NoRow, Deleted
<1>7. \A u \in Users : Exists(u)' <=> Exists(u)
  BY <1>3, <1>4, <1>5, <1>6 DEF Exists, Stored, Columns
<1>8. UsersTyped'
  BY <1>3, <1>4, <1>5, <1>7 DEF UsersTyped, PInv, Exists
<1>9. ASSUME NEW u \in Users, NEW c \in Columns, Exists(u), users'[u][c] # users[u][c]
      PROVE c \in Assigns(q.op) /\ u = q.user /\ users'[u][c] = q.assigned[c]
  BY <1>9, <1>1, <1>3, <1>4
<1> QED BY <1>7, <1>8, <1>9

\* An edit commits and ends: a new password has been given away by then.
LEMMA CommitsPlainEdit ==
  ASSUME PInv, NEW t \in Threads, thread[t].op \in Edits, thread[t].step = "commit", CommitUser(t), Finish(t),
         inbox \subseteq inbox', screen \subseteq screen',
         "password" \in Assigns(thread[t].op) =>
            (Exists(thread[t].user) => <<thread[t].user, thread[t].assigned.password>> \in inbox')
  PROVE  PInv'
<1>1. ASSUME NEW u \in Users, Exists(u)' PROVE Kept(t, u)
  <2>1. Exists(u) /\ "password" \in Columns
    BY <1>1, CommittedEdit DEF Columns
  <2>2. CASE users'[u].password = users[u].password
    BY <2>1, <2>2 DEF Kept, Answering
  <2>3. CASE users'[u].password # users[u].password
    BY <2>1, <2>3, CommittedEdit DEF Kept, HasGot
  <2> QED BY <2>2, <2>3
<1>2. UsersTyped' /\ Sound(Idle)' /\ restarts' = restarts /\ thread' = [thread EXCEPT ![t] = Idle]
  BY CommittedEdit DEF Sound, Finish
<1> QED BY <1>1, <1>2, ThreadStep

-----------------------------------------------------------------------------
(* The requests *)

\* A request that edits a row which is there is sound when it assigns its columns only.
LEMMA EditSound ==
  ASSUME PInv, NEW u \in Users, Exists(u), NEW q, {"op", "step"} \subseteq DOMAIN q, q.op \in Edits,
         q.step = IF q.op = "forgot_password" THEN "mail" ELSE "commit", q.loaded = users[u],
         DOMAIN q.assigned = Columns, \A c \in Columns \ Assigns(q.op) : q.assigned[c] = users[u][c],
         q.op = "reset_password" => q.assigned.password[1] = q.op
  PROVE  Sound(q)
<1>1. DOMAIN users[u] = Columns
  BY DEF PInv, UsersTyped
<1>2. SoundEdit(q) /\ SoundMail(q)
  BY <1>1 DEF SoundEdit, SoundMail
<1>3. SoundInsert(q) /\ SoundAnswer(q)
  BY DEF SoundInsert, SoundAnswer, Edits, Answered
<1> QED BY <1>2, <1>3 DEF Sound, Edits

\* Such an edit is accepted soundly.
LEMMA EditAccepted ==
  ASSUME PInv, NEW t \in Threads, NEW u \in Users, Exists(u), NEW op \in Edits \ {"forgot_password"}, NEW row,
         DOMAIN row = Columns, \A c \in Columns \ Assigns(op) : row[c] = users[u][c],
         op = "reset_password" => row.password[1] = op,
         Accept(t, UserEdit(op, u, row)), UNCHANGED <<users, screen, inbox>>
  PROVE  PInv'
<1> DEFINE q == UserEdit(op, u, row)
<1>1. {"op", "step"} \subseteq DOMAIN q /\ q.op = op /\ q.step = "commit" /\ q.loaded = users[u] /\ q.assigned = row
  BY DEF UserEdit
<1>2. Accept(t, q)
  OBVIOUS
<1> HIDE DEF q
<1>3. Sound(q)
  BY <1>1, EditSound
<1> QED BY <1>2, <1>3, Accepted

\* A request that neither edits nor inserts a user.
LEMMA PlainSound ==
  ASSUME NEW q, {"op", "step"} \subseteq DOMAIN q, q.step # "answer",
         q.op \notin Edits \cup Answered \cup {"register", "idle"}
  PROVE  Sound(q)
  BY DEF Sound, SoundEdit, SoundInsert, SoundAnswer, SoundMail, Edits, Answered

\* Such a request is accepted soundly.
LEMMA PlainAccepted ==
  ASSUME PInv, NEW t \in Threads, NEW q, {"op", "step"} \subseteq DOMAIN q, q.step # "answer",
         q.op \notin Edits \cup Answered \cup {"register", "idle"},
         Accept(t, q), UNCHANGED <<users, screen, inbox>>
  PROVE  PInv'
  BY PlainSound, Accepted

\* A registration or an invitation carries a complete row and a password of its own.
LEMMA InsertAccepted ==
  ASSUME PInv, NEW t \in Threads, NEW u \in Users, NEW op \in {"register", "create_user"}, NEW must, NEW rights,
         Accept(t, UserEdit(op, u, NewUser(Fresh(op), must, rights))), UNCHANGED <<users, screen, inbox>>
  PROVE  PInv'
<1> DEFINE q == UserEdit(op, u, NewUser(Fresh(op), must, rights))
<1>1. {"op", "step"} \subseteq DOMAIN q /\ q.op = op /\ q.step = "commit"
      /\ q.assigned = NewUser(Fresh(op), must, rights)
  BY DEF UserEdit
<1>2. DOMAIN NewUser(Fresh(op), must, rights) = Columns
  BY DEF NewUser, Columns
<1>3. NewUser(Fresh(op), must, rights).password[1] = op
  BY DEF NewUser, Fresh
<1>4. Accept(t, q)
  OBVIOUS
<1> HIDE DEF q
<1>5. Sound(q)
  BY <1>1, <1>2, <1>3 DEF Sound, SoundEdit, SoundInsert, SoundAnswer, SoundMail, Edits, Answered
<1> QED BY <1>4, <1>5, Accepted

\* The requests of Credentials, as they are accepted.
LEMMA RequestStep ==
  ASSUME PInv, NEW t \in Threads, NEW u \in Users,
         \/ Register(t, u) \/ ChangePassword(t, u) \/ ForgotPassword(t, u)
         \/ CreateUser(t, u) \/ ResetPassword(t, u) \/ SendCredentials(t, u)
  PROVE  PInv'
<1>0. Exists(u) => DOMAIN users[u] = Columns
  BY DEF PInv, UsersTyped
<1>1. CASE Register(t, u)
  BY <1>1, InsertAccepted DEF Register, accountVars, deliveryVars
<1>2. CASE CreateUser(t, u)
  BY <1>2, InsertAccepted DEF CreateUser, accountVars, deliveryVars
<1>3. CASE ChangePassword(t, u)
  <2> DEFINE row == [users[u] EXCEPT !.password = Fresh("change_password"), !.mustChange = FALSE]
  <2>1. Exists(u) /\ Accept(t, UserEdit("change_password", u, row)) /\ UNCHANGED <<users, screen, inbox>>
    BY <1>3 DEF ChangePassword, CanAct, accountVars, deliveryVars
  <2>2. DOMAIN row = Columns /\ \A c \in Columns \ Assigns("change_password") : row[c] = users[u][c]
    BY <1>0, <2>1 DEF Columns, Assigns
  <2> HIDE DEF row
  <2> QED BY <2>1, <2>2, EditAccepted DEF Edits
<1>4. CASE ResetPassword(t, u)
  <2> DEFINE row == [users[u] EXCEPT !.password = Fresh("reset_password"), !.mustChange = TRUE]
  <2>1. Exists(u) /\ Accept(t, UserEdit("reset_password", u, row)) /\ UNCHANGED <<users, screen, inbox>>
    BY <1>4 DEF ResetPassword, accountVars, deliveryVars
  <2>2. DOMAIN row = Columns /\ \A c \in Columns \ Assigns("reset_password") : row[c] = users[u][c]
    BY <1>0, <2>1 DEF Columns, Assigns
  <2>3. row.password[1] = "reset_password"
    BY <1>0, <2>1 DEF Columns, Fresh
  <2> HIDE DEF row
  <2> QED BY <2>1, <2>2, <2>3, EditAccepted DEF Edits
<1>5. CASE ForgotPassword(t, u)
  <2> DEFINE row == [users[u] EXCEPT !.password = Fresh("forgot_password"), !.mustChange = TRUE]
             q == [UserEdit("forgot_password", u, row) EXCEPT !.step = "mail"]
  <2>1. Exists(u) /\ Accept(t, q) /\ UNCHANGED <<users, screen, inbox>>
    BY <1>5 DEF ForgotPassword, CanAct, accountVars, deliveryVars
  <2>2. DOMAIN row = Columns /\ \A c \in Columns \ Assigns("forgot_password") : row[c] = users[u][c]
    BY <1>0, <2>1 DEF Columns, Assigns
  <2> HIDE DEF row
  <2>3. q = [op |-> "forgot_password", step |-> "mail", user |-> u, loaded |-> users[u], assigned |-> row]
    BY DEF UserEdit
  <2>4. {"op", "step"} \subseteq DOMAIN q /\ q.op = "forgot_password" /\ q.step = "mail"
        /\ q.loaded = users[u] /\ q.assigned = row
    BY <2>3
  <2> HIDE DEF q
  <2>5. Sound(q)
    BY <2>1, <2>2, <2>4, EditSound DEF Edits
  <2> QED BY <2>1, <2>5, Accepted
<1>6. CASE SendCredentials(t, u)
  BY <1>6, PlainAccepted DEF SendCredentials, accountVars, deliveryVars, Edits, Answered
<1> QED BY <1>1, <1>2, <1>3, <1>4, <1>5, <1>6

-----------------------------------------------------------------------------
(* The commits, the mails and the answers of Credentials *)

\* A user is created with a password that is handed out with the row, or is to be.
LEMMA InsertStep ==
  ASSUME PInv, NEW t \in Threads, CommitRegister(t) \/ CommitCreate(t)
  PROVE  PInv'
<1> DEFINE q == thread[t]
<1>1. q # Idle /\ q.op \in {"register", "create_user"} /\ q.step = "commit" /\ restarts' = restarts
  BY DEF CommitRegister, CommitCreate, At, Idle, Finish, GoOn
<1>2. {"op", "step"} \subseteq DOMAIN q /\ SoundInsert(q) /\ SoundAnswer(q)
  BY <1>1 DEF PInv, Sound
<1>3. DOMAIN q.assigned = Columns
  BY <1>1, <1>2 DEF SoundInsert
<1>4. CASE ~Inserts(q)
  BY <1>4, <1>1, Finished DEF CommitRegister, CommitCreate, deliveryVars
<1>5. CASE Inserts(q)
  <2>1. users' = [users EXCEPT ![q.user] = q.assigned]
    BY <1>5 DEF CommitRegister, CommitCreate
  <2>2. DOMAIN users' = Users /\ \A u \in Users : users'[u] = IF u = q.user THEN q.assigned ELSE users[u]
    BY <2>1 DEF PInv, UsersTyped
  <2>3. UsersTyped'
    BY <2>2, <1>3 DEF PInv, UsersTyped, Exists
  <2>4. ASSUME NEW u \in Users, u # q.user, Exists(u)' PROVE Kept(t, u)
    BY <2>2, <2>4, <1>1 DEF Kept, Exists, Answering
  <2>5. CASE CommitRegister(t)
    <3>1. <<q.user, q.assigned.password>> \in inbox' /\ inbox \subseteq inbox' /\ screen' = screen
      BY <1>5, <2>5 DEF CommitRegister
    <3>2. ASSUME NEW u \in Users, u = q.user PROVE Kept(t, u)
      BY <3>1, <3>2, <2>2 DEF Kept, HasGot
    <3>3. Sound(Idle)' /\ thread' = [thread EXCEPT ![t] = Idle]
      BY <2>5 DEF Sound, CommitRegister, Finish
    <3> QED BY <1>1, <2>3, <2>4, <3>1, <3>2, <3>3, ThreadStep
  <2>6. CASE CommitCreate(t)
    <3> PICK r : r = [q EXCEPT !.step = "answer"]
      OBVIOUS
    <3>1. thread' = [thread EXCEPT ![t] = r] /\ inbox' = inbox /\ screen' = screen
      BY <1>5, <2>6 DEF CommitCreate, GoOn, deliveryVars
    <3>2. r.op = "create_user" /\ r.step = "answer" /\ r.user = q.user /\ r.assigned = q.assigned
          /\ DOMAIN r = DOMAIN q
      BY <1>2, <2>6 DEF CommitCreate, At
    <3>3. thread'[t] = r /\ r # Idle
      BY <3>1, <3>2 DEF PInv, Idle
    <3>4. ASSUME NEW u \in Users, u = q.user PROVE Kept(t, u)
      BY <3>2, <3>3, <3>4, <2>2 DEF Kept, Answering
    <3>5. Sound(r)'
      BY <1>1, <1>2, <1>3, <3>2, <2>6
      DEF Sound, SoundEdit, SoundInsert, SoundAnswer, SoundMail, Edits, Answered, CommitCreate, At
    <3> QED BY <1>1, <2>3, <2>4, <3>1, <3>4, <3>5, ThreadStep
  <2> QED BY <2>5, <2>6
<1> QED BY <1>4, <1>5

\* A reset by an administrator, which is still to be answered.
LEMMA ResetStep == ASSUME PInv, NEW t \in Threads, CommitReset(t) PROVE PInv'
<1> DEFINE q == thread[t]
<1> PICK r : r = [q EXCEPT !.step = "answer"]
  OBVIOUS
<1>1. q # Idle /\ q.op = "reset_password" /\ q.step = "commit" /\ restarts' = restarts
      /\ inbox' = inbox /\ screen' = screen /\ CommitUser(t) /\ q.op \in Edits
  BY DEF CommitReset, At, Idle, Finish, GoOn, deliveryVars, Edits
<1>2. {"op", "step"} \subseteq DOMAIN q /\ SoundEdit(q) /\ SoundAnswer(q)
  BY <1>1 DEF PInv, Sound
<1>3. UsersTyped' /\ \A u \in Users : Exists(u)' <=> Exists(u)
  BY <1>1, CommittedEdit
<1>4. ASSUME NEW u \in Users, Exists(u)', users'[u].password = users[u].password PROVE Kept(t, u)
  BY <1>1, <1>3, <1>4 DEF Kept, Answering
<1>5. ASSUME NEW u \in Users, Exists(u)', users'[u].password # users[u].password
      PROVE u = q.user /\ users'[u].password = q.assigned.password
  BY <1>1, <1>3, <1>5, CommittedEdit DEF Columns
<1>6. CASE Exists(q.user)
  <2>1. thread' = [thread EXCEPT ![t] = r]
    BY <1>6 DEF CommitReset, GoOn
  <2>2. r.op = "reset_password" /\ r.step = "answer" /\ r.user = q.user /\ r.assigned = q.assigned
        /\ r.loaded = q.loaded /\ DOMAIN r = DOMAIN q
    BY <1>1, <1>2
  <2>3. thread'[t] = r /\ r # Idle
    BY <2>1, <2>2 DEF PInv, Idle
  <2>4. ASSUME NEW u \in Users, Exists(u)', users'[u].password # users[u].password PROVE Kept(t, u)
    BY <2>2, <2>3, <2>4, <1>5 DEF Kept, Answering
  <2>5. Sound(r)'
    BY <1>1, <1>2, <2>2 DEF Sound, SoundEdit, SoundInsert, SoundAnswer, SoundMail, Edits, Answered
  <2> QED BY <1>1, <1>3, <1>4, <2>1, <2>4, <2>5, ThreadStep
<1>7. CASE ~Exists(q.user)
  <2>1. thread' = [thread EXCEPT ![t] = Idle] /\ Sound(Idle)'
    BY <1>7 DEF CommitReset, Finish, Sound
  <2>2. \A u \in Users : Exists(u)' => Kept(t, u)
    BY <1>3, <1>4, <1>5, <1>7
  <2> QED BY <1>1, <1>3, <2>1, <2>2, ThreadStep
<1> QED BY <1>6, <1>7

\* The answer hands out what it had to give.
LEMMA AnswerStep == ASSUME PInv, NEW t \in Threads, AnswerWithPassword(t) PROVE PInv'
<1>1. <<thread[t].user, thread[t].assigned.password>> \in screen' /\ screen \subseteq screen'
      /\ inbox \subseteq inbox' /\ UNCHANGED <<users, restarts>>
      /\ thread' = [thread EXCEPT ![t] = Idle] /\ Sound(Idle)'
  BY DEF AnswerWithPassword, Mailed, accountVars, Finish, Sound
<1>2. ASSUME NEW u \in Users, Exists(u)' PROVE Kept(t, u)
  BY <1>1, <1>2 DEF Kept, Answering, HasGot, Exists
<1>3. UsersTyped'
  BY <1>1 DEF PInv, UsersTyped, Exists
<1> QED BY <1>1, <1>2, <1>3, ThreadStep

\* A mail: of a forgotten password, which is then committed, or of credentials.
LEMMA MailStep ==
  ASSUME PInv, NEW t \in Threads, MailForgotten(t) \/ MailCredentials(t)
  PROVE  PInv'
<1> DEFINE q == thread[t]
<1> PICK r : r = [q EXCEPT !.step = "commit"]
  OBVIOUS
<1>1. q # Idle /\ q.step = "mail" /\ UNCHANGED <<users, restarts>> /\ screen' = screen /\ inbox \subseteq inbox'
  BY DEF MailForgotten, MailCredentials, Mailed, AfterMail, At, accountVars, Idle, Finish, GoOn
<1>2. CASE Finish(t)
  BY <1>1, <1>2, Finished
<1>3. CASE ~Finish(t)
  <2>1. q.op = "forgot_password" /\ thread' = [thread EXCEPT ![t] = r]
        /\ <<q.user, q.assigned.password>> \in inbox'
    BY <1>3 DEF MailForgotten, MailCredentials, AfterMail, Mailed, At, GoOn
  <2>2. {"op", "step"} \subseteq DOMAIN q /\ SoundEdit(q)
    BY <1>1 DEF PInv, Sound
  <2>3. r.op = q.op /\ r.step = "commit" /\ r.user = q.user /\ r.assigned = q.assigned
        /\ r.loaded = q.loaded /\ DOMAIN r = DOMAIN q
    BY <2>1, <2>2
  <2>4. Sound(r)'
    BY <2>1, <2>2, <2>3 DEF Sound, SoundEdit, SoundInsert, SoundAnswer, SoundMail, Edits, Answered
  <2> QED BY <1>1, <2>1, <2>4, QuietStep
<1> QED BY <1>2, <1>3

\* Every step of Credentials preserves the invariant.
LEMMA CredentialsSound == ASSUME PInv, CredentialsNext PROVE PInv'
<1>1. ASSUME NEW t \in Threads, CommitChange(t) PROVE PInv'
  BY <1>1, CommitsPlainEdit DEF CommitChange, At, Edits, Finish
<1>2. ASSUME NEW t \in Threads, CommitForgotten(t) PROVE PInv'
  <2>1. SoundMail(thread[t])
    BY <1>2 DEF PInv, Sound, CommitForgotten, At, Idle
  <2> QED BY <1>2, <2>1, CommitsPlainEdit DEF CommitForgotten, At, Edits, SoundMail, deliveryVars
<1> QED BY <1>1, <1>2, RequestStep, InsertStep, ResetStep, AnswerStep, MailStep DEF CredentialsNext

-----------------------------------------------------------------------------
(* The handlers of Access *)

\* The requests of administrators and users, as they are accepted.
LEMMA AccessRequests ==
  ASSUME PInv, UNCHANGED deliveryVars, NEW t \in Threads,
         \/ \E p \in Plans : CreatePlan(t, p) \/ UpdatePlan(t, p) \/ DeletePlan(t, p)
         \/ \E u \in Users :
               \/ \E p \in Plans : AssignPlan(t, u, p)
               \/ \E table \in Tables : WriteRow(t, table, u) \/ DeleteRow(t, table, u)
               \/ SetAccess(t, u) \/ SetPriority(t, u) \/ DeleteUser(t, u) \/ UpdateThresholds(t, u)
  PROVE  PInv'
<1> USE DEF accessVars, deliveryVars
<1>1. ASSUME NEW p \in Plans, CreatePlan(t, p) \/ UpdatePlan(t, p) PROVE PInv'
  BY <1>1, PlainAccepted DEF CreatePlan, UpdatePlan, PlanEdit, Edits, Answered
<1>2. ASSUME NEW p \in Plans, DeletePlan(t, p) PROVE PInv'
  BY <1>2, PlainAccepted DEF DeletePlan, Edits, Answered
<1>3. ASSUME NEW u \in Users, NEW table \in Tables, WriteRow(t, table, u) \/ DeleteRow(t, table, u) PROVE PInv'
  BY <1>3, PlainAccepted DEF WriteRow, DeleteRow, RowEdit, Edits, Answered
<1>4. ASSUME NEW u \in Users, DeleteUser(t, u) PROVE PInv'
  BY <1>4, PlainAccepted DEF DeleteUser, Edits, Answered
<1>5. ASSUME NEW u \in Users, UpdateThresholds(t, u) PROVE PInv'
  BY <1>5, PlainAccepted DEF UpdateThresholds, Edits, Answered
<1>6. ASSUME NEW u \in Users, NEW p \in Plans, AssignPlan(t, u, p) PROVE PInv'
  <2>1. Exists(u) /\ DOMAIN users[u] = Columns
    BY <1>6 DEF AssignPlan, PInv, UsersTyped
  <2> QED BY <1>6, <2>1, EditAccepted DEF AssignPlan, Edits, Columns, Assigns
<1>7. ASSUME NEW u \in Users, SetPriority(t, u) PROVE PInv'
  <2>1. Exists(u) /\ DOMAIN users[u] = Columns
    BY <1>7 DEF SetPriority, CanAct, PInv, UsersTyped
  <2>2. PICK chosen : Accept(t, UserEdit("set_priority", u, [users[u] EXCEPT !.priority = chosen]))
    BY <1>7 DEF SetPriority
  <2> QED BY <1>7, <2>1, <2>2, EditAccepted DEF SetPriority, Edits, Columns, Assigns
<1>8. ASSUME NEW u \in Users, SetAccess(t, u) PROVE PInv'
  <2>1. Exists(u) /\ DOMAIN users[u] = Columns /\ UNCHANGED <<users, screen, inbox>>
    BY <1>8 DEF SetAccess, PInv, UsersTyped
  <2>2. PICK body : Accept(t, UserEdit("set_access", u, AccessRow(users[u], body)))
    BY <1>8 DEF SetAccess
  <2>3. DOMAIN AccessRow(users[u], body) = Columns
        /\ \A c \in Columns \ Assigns("set_access") : AccessRow(users[u], body)[c] = users[u][c]
    BY <2>1 DEF AccessRow, Columns, Assigns
  <2> QED BY <2>1, <2>2, <2>3, EditAccepted DEF Edits
<1> QED BY <1>1, <1>2, <1>3, <1>4, <1>5, <1>6, <1>7, <1>8

\* The commits that leave every row of users alone, and the steps before two of them.
LEMMA AccessCommits ==
  ASSUME PInv, UNCHANGED deliveryVars, NEW t \in Threads,
         \/ CommitCreatePlan(t) \/ CommitUpdatePlan(t) \/ FlushDeletePlan(t)
         \/ CommitRow(t) \/ CommitDeleteRow(t) \/ ClearRows(t) \/ CommitThresholds(t)
  PROVE  PInv'
<1> USE DEF deliveryVars
<1>1. ASSUME CommitCreatePlan(t) \/ CommitUpdatePlan(t) \/ CommitRow(t) \/ CommitDeleteRow(t) \/ CommitThresholds(t)
      PROVE PInv'
  BY <1>1, Finished DEF CommitCreatePlan, CommitUpdatePlan, CommitRow, CommitDeleteRow, CommitThresholds, At
<1>2. CASE FlushDeletePlan(t)
  <2> PICK r : r = [thread[t] EXCEPT !.step = "commit", !.members = On(thread[t].plan)]
    OBVIOUS
  <2>1. {"op", "step"} \subseteq DOMAIN thread[t] /\ thread[t].op = "delete_plan" /\ thread[t].step = "flush"
    BY <1>2 DEF PInv, Sound, FlushDeletePlan, At, Idle
  <2>2. r.op = "delete_plan" /\ r.step = "commit" /\ {"op", "step"} \subseteq DOMAIN r
    BY <2>1
  <2>3. Sound(r)'
    BY <2>2 DEF Sound, SoundEdit, SoundInsert, SoundAnswer, SoundMail, Edits, Answered
  <2>4. thread' = [thread EXCEPT ![t] = r] /\ UNCHANGED <<users, restarts>>
    BY <1>2 DEF FlushDeletePlan, accessVars
  <2> QED BY <2>1, <2>3, <2>4, QuietStep
<1>3. CASE ClearRows(t)
  <2> PICK r : r = [thread[t] EXCEPT !.step = "commit", !.seen = RefersTo(thread[t].user),
                          !.cleared = {s \in RefersTo(thread[t].user) : s[1] \in Cleared}]
    OBVIOUS
  <2>1. {"op", "step"} \subseteq DOMAIN thread[t] /\ thread[t].op = "delete_user" /\ thread[t].step = "clear"
    BY <1>3 DEF PInv, Sound, ClearRows, At, Idle
  <2>2. r.op = "delete_user" /\ r.step = "commit" /\ {"op", "step"} \subseteq DOMAIN r
    BY <2>1
  <2>3. Sound(r)'
    BY <2>2 DEF Sound, SoundEdit, SoundInsert, SoundAnswer, SoundMail, Edits, Answered
  <2>4. thread' = [thread EXCEPT ![t] = r] /\ UNCHANGED <<users, restarts>>
    BY <1>3 DEF ClearRows, accessVars
  <2> QED BY <2>1, <2>3, <2>4, QuietStep
<1> QED BY <1>1, <1>2, <1>3

\* The commits that write other columns than the password, or delete a user.
LEMMA AccessEdits ==
  ASSUME PInv, UNCHANGED deliveryVars, NEW t \in Threads,
         CommitAssignPlan(t) \/ CommitAccess(t) \/ CommitPriority(t) \/ CommitDeletePlan(t) \/ CommitDelete(t)
  PROVE  PInv'
<1> USE DEF deliveryVars
<1>1. CASE CommitAccess(t) \/ CommitPriority(t)
  BY <1>1, CommitsPlainEdit DEF CommitAccess, CommitPriority, At, Edits, Assigns
<1>2. CASE CommitAssignPlan(t)
  <2>1. CASE thread[t].assigned.plan \in Available
    BY <1>2, <2>1, CommitsPlainEdit DEF CommitAssignPlan, At, Edits, Assigns
  <2>2. CASE thread[t].assigned.plan \notin Available
    BY <1>2, <2>2, Finished DEF CommitAssignPlan, At
  <2> QED BY <2>1, <2>2
<1>3. CASE CommitDeletePlan(t)
  <2> DEFINE gone == On(thread[t].plan) \subseteq thread[t].members
  <2>1. thread[t].step = "commit" /\ Finish(t)
    BY <1>3 DEF CommitDeletePlan, At
  <2>2. CASE ~gone
    BY <1>3, <2>1, <2>2, Finished DEF CommitDeletePlan
  <2>3. CASE gone
    <3>1. DOMAIN users' = Users
      BY <1>3, <2>3 DEF CommitDeletePlan
    <3>2. ASSUME NEW u \in Users, Exists(u)
          PROVE  Exists(u)' /\ DOMAIN users'[u] = Columns /\ users'[u].password = users[u].password
      <4>1. users'[u] = users[u] \/ users'[u] = [users[u] EXCEPT !.plan = Null]
        BY <1>3, <2>3 DEF CommitDeletePlan
      <4>2. DOMAIN users[u] = Columns
        BY <3>2 DEF PInv, UsersTyped
      <4>3. "op" \notin Columns
        BY DEF Columns
      <4>4. DOMAIN users'[u] = Columns /\ users'[u].password = users[u].password
        BY <4>1, <4>2 DEF Columns
      <4> QED BY <4>3, <4>4 DEF Exists, Stored, NoRow, Deleted
    <3>3. ASSUME NEW u \in Users, ~Exists(u) PROVE users'[u] = users[u]
      BY <1>3, <2>3, <3>3 DEF CommitDeletePlan
    <3>4. \A u \in Users : Exists(u)' <=> Exists(u)
      BY <3>2, <3>3 DEF Exists
    <3>5. UsersTyped'
      BY <3>1, <3>2, <3>4 DEF UsersTyped
    <3>6. \A u \in Users : Exists(u)' => Kept(t, u)
      BY <2>1, <3>2, <3>4 DEF Kept, Answering
    <3>7. thread' = [thread EXCEPT ![t] = Idle] /\ restarts' = restarts /\ Sound(Idle)'
      BY <2>1 DEF Finish, Sound
    <3> QED BY <3>5, <3>6, <3>7, ThreadStep
  <2> QED BY <2>2, <2>3
<1>4. CASE CommitDelete(t)
  <2>1. thread[t].step = "commit" /\ thread' = [thread EXCEPT ![t] = Idle] /\ restarts' = restarts /\ Sound(Idle)'
    BY <1>4 DEF CommitDelete, At, Finish, Sound
  <2>2. DOMAIN users' = Users /\ \A u \in Users : users'[u] = users[u] \/ ~Stored(users'[u])
    BY <1>4 DEF CommitDelete, PInv, UsersTyped, Stored
  <2>3. \A u \in Users : Exists(u)' => Exists(u) /\ users'[u] = users[u]
    BY <2>2 DEF Exists
  <2>4. UsersTyped' /\ \A u \in Users : Exists(u)' => Kept(t, u)
    BY <2>1, <2>2, <2>3 DEF UsersTyped, PInv, Kept, Answering
  <2> QED BY <2>1, <2>4, ThreadStep
<1> QED BY <1>1, <1>2, <1>3, <1>4

\* Every step of Access preserves the invariant.
LEMMA AccessSound == ASSUME PInv, AccessNext PROVE PInv'
<1>1. UNCHANGED deliveryVars
  BY DEF AccessNext, CreatePlan, UpdatePlan, DeletePlan, AssignPlan, WriteRow, DeleteRow, SetAccess,
         SetPriority, DeleteUser, UpdateThresholds, CommitCreatePlan, CommitUpdatePlan, FlushDeletePlan,
         CommitDeletePlan, CommitAssignPlan, CommitAccess, CommitPriority, CommitRow, CommitDeleteRow,
         ClearRows, CommitDelete, CommitThresholds
<1> QED BY <1>1, AccessRequests, AccessCommits, AccessEdits DEF AccessNext

-----------------------------------------------------------------------------
(* Files, a crash, and the theorem *)

\* Every step of TenantFiles preserves the invariant.
LEMMA FilesSound == ASSUME PInv, FilesNext, UNCHANGED <<accessVars, deliveryVars>> PROVE PInv'
<1> USE DEF accessVars, deliveryVars
<1>1. ASSUME NEW t \in Threads, NEW type \in FileTypes, NEW name \in HostNames, UploadFile(t, type, name)
      PROVE PInv'
  BY <1>1, PlainAccepted DEF UploadFile, Edits, Answered
<1>2. ASSUME NEW t \in Threads, DeleteFile(t) PROVE PInv'
  BY <1>2, PlainAccepted DEF DeleteFile, Edits, Answered
<1>3. ASSUME NEW t \in Threads, CommitUpload(t) \/ CommitDeleteFile(t) PROVE PInv'
  BY <1>3, Finished DEF CommitUpload, CommitDeleteFile, At
<1>4. ASSUME NEW t \in Threads, Store(t) \/ Unlink(t) PROVE PInv'
  <2> PICK r : r = [thread[t] EXCEPT !.step = "commit"]
    OBVIOUS
  <2>1. {"op", "step"} \subseteq DOMAIN thread[t] /\ thread[t].op \in {"upload_file", "delete_file"}
        /\ thread[t].step # "answer"
    BY <1>4 DEF PInv, Sound, Store, Unlink, At, Idle
  <2>2. r.op = thread[t].op /\ r.step = "commit" /\ {"op", "step"} \subseteq DOMAIN r
    BY <2>1
  <2>3. Sound(r)'
    BY <2>1, <2>2 DEF Sound, SoundEdit, SoundInsert, SoundAnswer, SoundMail, Edits, Answered
  <2>4. thread' = [thread EXCEPT ![t] = r] /\ UNCHANGED restarts
    BY <1>4 DEF Store, Unlink, GoOn
  <2> QED BY <2>1, <2>3, <2>4, QuietStep
<1> QED BY <1>1, <1>2, <1>3, <1>4 DEF FilesNext

\* A crash loses the answers, of an invitation or a reset.
LEMMA CrashSound == ASSUME PInv, Crash, UNCHANGED <<accessVars, deliveryVars>> PROVE PInv'
<1>1. UNCHANGED <<users, screen, inbox>> /\ restarts' \in Nat /\ restarts' > 0
      /\ thread' = [t \in Threads |-> Idle]
  BY DEF Crash, PInv, accessVars, deliveryVars
<1>2. UsersTyped' /\ \A t \in Threads : Sound(thread[t])'
  BY <1>1 DEF PInv, UsersTyped, Exists, Sound
<1>3. ASSUME NEW u \in Users, NEW t \in Threads, Exists(u), Answering(t, u)
      PROVE users[u].password[1] \in Answered
  BY <1>3 DEF PInv, Sound, SoundAnswer, Answering
<1>4. SomebodyHasThePassword'
  BY <1>1, <1>3 DEF PInv, SomebodyHasThePassword, HasGot, Exists, Answered
<1> QED BY <1>1, <1>2, <1>4 DEF PInv

\* A stuttering step preserves the invariant.
LEMMA StutterSound == ASSUME PInv, UNCHANGED vars PROVE PInv'
<1>1. UNCHANGED <<users, screen, inbox, thread, restarts>>
  BY DEF vars
<1>2. UsersTyped' /\ \A t \in Threads : Sound(thread[t])'
  BY <1>1 DEF PInv, UsersTyped, Exists, Sound, SoundEdit, SoundInsert, SoundAnswer, SoundMail
<1>3. SomebodyHasThePassword'
  BY <1>1 DEF PInv, SomebodyHasThePassword, HasGot, Exists, Answering
<1> QED BY <1>1, <1>2, <1>3 DEF PInv

\* The invariant is inductive.
LEMMA PasswordStep == PInv /\ [Next]_vars => PInv'
  BY CredentialsSound, AccessSound, FilesSound, CrashSound, StutterSound DEF Next

\* Whatever requests overlap, fail to mail or are cut off, the live password of every
\* user is one that he or an administrator has got, or that the request which set it
\* is about to hand over; only the server's death loses it, of an invitation or of a
\* reset (auth.py, user_admin.py).
THEOREM NobodyIsLockedOut == Spec => []SomebodyHasThePassword
<1>1. PInv => SomebodyHasThePassword
  BY DEF PInv
<1> QED BY <1>1, InitSound, PasswordStep, PTL DEF Spec

-----------------------------------------------------------------------------
(* Columns *)

\* Every column of a row that a step changes is assigned by a request that moved.
OwnersMoved ==
    \A u \in Users : Exists(u) /\ Stored(users'[u]) =>
        \A c \in DOMAIN users[u] : users'[u][c] # users[u][c] =>
            \E t \in Threads : thread'[t] # thread[t] /\ thread[t] # Idle /\ c \in Assigns(thread[t].op)

\* The commit of an edit changes the columns the edit assigns.
LEMMA EditMoves ==
  ASSUME PInv, NEW t \in Threads, thread[t].op \in Edits, CommitUser(t), thread'[t] # thread[t]
  PROVE  OwnersMoved
<1>1. thread[t] # Idle
  BY DEF Idle, Edits
<1>2. \A u \in Users : Exists(u) => DOMAIN users[u] = Columns
  BY DEF PInv, UsersTyped
<1> QED BY <1>1, <1>2, CommittedEdit DEF OwnersMoved

\* Every step of Credentials changes columns of its request only.
LEMMA CredentialsMove == ASSUME PInv, CredentialsNext PROVE OwnersMoved
<1> USE DEF accountVars, deliveryVars
<1>1. ASSUME NEW t \in Threads, CommitChange(t) \/ CommitForgotten(t) PROVE OwnersMoved
  <2>1. thread[t].op \in Edits /\ CommitUser(t) /\ thread'[t] # thread[t]
    BY <1>1 DEF CommitChange, CommitForgotten, At, Edits, Finish, Idle, PInv
  <2> QED BY <2>1, EditMoves
<1>2. ASSUME NEW t \in Threads, CommitReset(t) PROVE OwnersMoved
  <2>1. "step" \in DOMAIN thread[t] /\ thread[t].op = "reset_password" /\ thread[t].step = "commit"
    BY <1>2 DEF CommitReset, At, PInv, Sound, Idle
  <2>2. thread'[t] = Idle \/ thread'[t] = [thread[t] EXCEPT !.step = "answer"]
    BY <1>2 DEF CommitReset, Finish, GoOn, PInv
  <2>3. thread'[t] # thread[t] /\ CommitUser(t) /\ thread[t].op \in Edits
    BY <1>2, <2>1, <2>2 DEF CommitReset, Idle, Edits
  <2> QED BY <2>3, EditMoves
<1>3. ASSUME NEW t \in Threads, CommitRegister(t) \/ CommitCreate(t) PROVE OwnersMoved
  <2>1. users' = users \/ (users[thread[t].user] = NoRow
                           /\ users' = [users EXCEPT ![thread[t].user] = thread[t].assigned])
    BY <1>3 DEF CommitRegister, CommitCreate, Inserts
  <2>2. \A u \in Users : Exists(u) => users'[u] = users[u]
    BY <2>1 DEF PInv, UsersTyped, Exists, Stored
  <2> QED BY <2>2 DEF OwnersMoved
<1>4. CASE users' = users
  BY <1>4 DEF OwnersMoved
<1>5. users' = users \/ \E t \in Threads : CommitChange(t) \/ CommitForgotten(t) \/ CommitReset(t)
                                           \/ CommitRegister(t) \/ CommitCreate(t)
  BY DEF CredentialsNext, Register, ChangePassword, ForgotPassword, CreateUser, ResetPassword, SendCredentials,
         MailForgotten, AnswerWithPassword, MailCredentials
<1> QED BY <1>1, <1>2, <1>3, <1>4, <1>5

\* Every step of Access changes columns of its request only; deleting a plan, the plan.
LEMMA AccessMove == ASSUME PInv, AccessNext PROVE OwnersMoved
<1> USE DEF accessVars
<1>1. ASSUME NEW t \in Threads, CommitAccess(t) \/ CommitPriority(t) \/ CommitAssignPlan(t) PROVE OwnersMoved
  <2>1. thread[t].op \in Edits /\ thread'[t] # thread[t] /\ (CommitUser(t) \/ users' = users)
    BY <1>1 DEF CommitAccess, CommitPriority, CommitAssignPlan, At, Edits, Finish, Idle, PInv
  <2>2. CASE users' = users
    BY <2>2 DEF OwnersMoved
  <2> QED BY <2>1, <2>2, EditMoves
<1>2. ASSUME NEW t \in Threads, CommitDeletePlan(t) PROVE OwnersMoved
  <2>1. thread[t].op = "delete_plan" /\ thread[t] # Idle /\ thread'[t] # thread[t]
    BY <1>2 DEF CommitDeletePlan, At, Finish, Idle, PInv
  <2>2. "plan" \in Assigns(thread[t].op)
    BY <2>1 DEF Assigns
  <2>3. \A u \in Users : users'[u] = users[u] \/ users'[u] = [users[u] EXCEPT !.plan = Null]
    BY <1>2 DEF CommitDeletePlan
  <2>4. \A u \in Users : \A c \in DOMAIN users[u] : users'[u][c] # users[u][c] => c = "plan"
    BY <2>3
  <2> QED BY <2>1, <2>2, <2>4 DEF OwnersMoved
<1>3. ASSUME NEW t \in Threads, CommitDelete(t) PROVE OwnersMoved
  <2>1. \A u \in Users : users'[u] = users[u] \/ ~Stored(users'[u])
    BY <1>3 DEF CommitDelete, PInv, UsersTyped, Stored
  <2> QED BY <2>1 DEF OwnersMoved
<1>4. CASE users' = users
  BY <1>4 DEF OwnersMoved
<1>5. users' = users \/ \E t \in Threads : CommitAccess(t) \/ CommitPriority(t) \/ CommitAssignPlan(t)
                                           \/ CommitDeletePlan(t) \/ CommitDelete(t)
  BY DEF AccessNext, CreatePlan, UpdatePlan, DeletePlan, AssignPlan, WriteRow, DeleteRow, SetAccess,
         SetPriority, DeleteUser, UpdateThresholds, CommitCreatePlan, CommitUpdatePlan, FlushDeletePlan,
         CommitRow, CommitDeleteRow, ClearRows, CommitThresholds
<1> QED BY <1>1, <1>2, <1>3, <1>4, <1>5

\* A step that changes no row changes no column.
LEMMA QuietMove == users' = users => OwnersMoved
  BY DEF OwnersMoved

\* Whatever requests overlap on a user's row, each with a copy of all of it, none
\* changes a column that it does not assign (the UPDATEs of SQLAlchemy).
THEOREM EditsKeepToTheirColumns == Spec => ColumnsKeepTheirOwners
<1>1. PInv /\ [Next]_vars => [OwnersMoved]_vars
  BY CredentialsMove, AccessMove, QuietMove DEF Next, accessVars
<1>2. [OwnersMoved]_vars => [\A u \in Users : Exists(u) /\ Stored(users'[u]) =>
        \A c \in DOMAIN users[u] : users'[u][c] # users[u][c] =>
            \E t \in Threads : thread'[t] # thread[t] /\ thread[t] # Idle
                               /\ c \in Assigns(thread[t].op)]_vars
  BY DEF OwnersMoved
<1> QED BY <1>1, <1>2, InitSound, PasswordStep, PTL DEF Spec, ColumnsKeepTheirOwners
=============================================================================
