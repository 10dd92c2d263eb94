------------------------------ MODULE Credentials ------------------------------
(* Passwords: registration, invitation, change, reset by an administrator and     *)
(* by mail, and the mails that carry temporary ones.  A user signs in with a      *)
(* password that is in the row and that he has got hold of.                       *)
EXTENDS Database

CONSTANTS
    SmtpConfigured,  \* smtp_configured()
    InviteRights     \* what create_user may be asked to grant: [plan, models, kpis, limit]

ASSUME CredentialsAssumption ==
    InviteRights \subseteq [plan : Plans \cup {Null}, models : SUBSET Models, kpis : SUBSET Kpis,
                            limit : Limits \cup {Null}]

VARIABLES
    rows,     \* <<table, user, id>>: rows that refer to a user
    plans,    \* table plans
    screen,   \* <<user, password>> shown to an administrator
    inbox     \* <<user, password>> the user has chosen, been mailed or been handed

accountVars == <<users, rows, plans>>
deliveryVars == <<screen, inbox>>

Available == {p \in Plans : Stored(plans[p])}

Request(n) == n + 1
Fresh(op) == <<op, Request(served)>>
HasGot(u, password) == <<u, password>> \in inbox \cup screen

\* _send: the mail goes out, or SMTP is not configured or fails.
Mailed(u, password, sent) ==
    /\ sent => SmtpConfigured
    /\ inbox' = IF sent THEN inbox \cup {<<u, password>>} ELSE inbox

\* _clean_models drops the ids no longer in the registry.
CleanModels(ids) == ids \cap Registry

-----------------------------------------------------------------------------
(* auth.py *)

\* The first active plan is the default.
DefaultPlan ==
    LET active == {p \in Available : plans[p].active}
    IN  IF active = {} THEN Null ELSE CHOOSE p \in active : \A r \in active : p <= r

NewUser(password, mustChange, rights) ==
    [password |-> password, mustChange |-> mustChange, active |-> TRUE,
     plan |-> rights.plan, models |-> CleanModels(rights.models), priority |-> {},
     kpis |-> rights.kpis, limit |-> rights.limit]

Register(t, u) ==
    /\ users[u] = NoRow
    /\ u \notin Admins
    /\ Accept(t, UserEdit("register", u,
          NewUser(Fresh("register"), FALSE,
                  [plan |-> DefaultPlan, models |-> {}, kpis |-> {}, limit |-> Null])))
    /\ UNCHANGED <<accountVars, deliveryVars>>

\* The INSERT fails on the unique e-mail, or on a plan that is gone.
Inserts(q) ==
    /\ users[q.user] = NoRow
    /\ q.assigned.plan \in Available \cup {Null}

CommitRegister(t) ==
    LET q == thread[t] IN
    /\ At(t, "register", "commit")
    /\ users' = IF Inserts(q) THEN [users EXCEPT ![q.user] = q.assigned] ELSE users
    /\ inbox' = IF Inserts(q) THEN inbox \cup {<<q.user, q.assigned.password>>} ELSE inbox
    /\ Finish(t)
    /\ UNCHANGED <<rows, plans, screen>>

\* Whoever holds a token and gives the current password.
ChangePassword(t, u) ==
    /\ CanAct(u)
    /\ HasGot(u, users[u].password)
    /\ Accept(t, UserEdit("change_password", u,
          [users[u] EXCEPT !.password = Fresh("change_password"), !.mustChange = FALSE]))
    /\ UNCHANGED <<accountVars, deliveryVars>>

CommitChange(t) ==
    LET q == thread[t] IN
    /\ At(t, "change_password", "commit")
    /\ CommitUser(t)
    /\ inbox' = IF Exists(q.user) THEN inbox \cup {<<q.user, q.assigned.password>>} ELSE inbox
    /\ Finish(t)
    /\ UNCHANGED <<rows, plans, screen>>

\* Plausible bug: the password is stored although it was not sent.
StoreUnsent(t, sent) == GoOn(t, "commit")

AfterMail(t, sent) == IF sent THEN GoOn(t, "commit") ELSE Finish(t)

\* Public.  The mail comes first, and only if it went out is the hash stored.
ForgotPassword(t, u) ==
    /\ CanAct(u)
    /\ SmtpConfigured
    /\ Accept(t, [UserEdit("forgot_password", u,
          [users[u] EXCEPT !.password = Fresh("forgot_password"), !.mustChange = TRUE])
             EXCEPT !.step = "mail"])
    /\ UNCHANGED <<accountVars, deliveryVars>>

MailForgotten(t) ==
    LET q == thread[t] IN
    /\ At(t, "forgot_password", "mail")
    /\ \E sent \in BOOLEAN : Mailed(q.user, q.assigned.password, sent) /\ AfterMail(t, sent)
    /\ UNCHANGED <<accountVars, screen>>

CommitForgotten(t) ==
    /\ At(t, "forgot_password", "commit")
    /\ CommitUser(t)
    /\ Finish(t)
    /\ UNCHANGED <<rows, plans, deliveryVars>>

-----------------------------------------------------------------------------
(* user_admin.py *)

CreateUser(t, u) ==
    /\ users[u] = NoRow
    /\ \E rights \in InviteRights :
          /\ rights.plan \in Available \cup {Null}
          /\ Accept(t, UserEdit("create_user", u, NewUser(Fresh("create_user"), TRUE, rights)))
    /\ UNCHANGED <<accountVars, deliveryVars>>

\* The user and the links to clusters, in one transaction.
CommitCreate(t) ==
    LET q == thread[t] IN
    /\ At(t, "create_user", "commit")
    /\ IF Inserts(q)
       THEN /\ users' = [users EXCEPT ![q.user] = q.assigned]
            /\ \E linked \in BOOLEAN :
                  rows' = IF linked THEN rows \cup {<<"user_tenants", q.user, 0>>} ELSE rows
            /\ GoOn(t, "answer")
       ELSE Finish(t) /\ UNCHANGED <<users, rows>>
    /\ UNCHANGED <<plans, deliveryVars>>

\* Administrators are refused; the user need not be active.
ResetPassword(t, u) ==
    /\ Exists(u)
    /\ u \notin Admins
    /\ Accept(t, UserEdit("reset_password", u,
          [users[u] EXCEPT !.password = Fresh("reset_password"), !.mustChange = TRUE]))
    /\ UNCHANGED <<accountVars, deliveryVars>>

CommitReset(t) ==
    /\ At(t, "reset_password", "commit")
    /\ CommitUser(t)
    /\ IF Exists(thread[t].user) THEN GoOn(t, "answer") ELSE Finish(t)
    /\ UNCHANGED <<rows, plans, deliveryVars>>

\* Mail if possible, and the answer puts the password on the administrator's screen.
AnswerWithPassword(t) ==
    LET q == thread[t] IN
    /\ At(t, "create_user", "answer") \/ At(t, "reset_password", "answer")
    /\ \E sent \in BOOLEAN : Mailed(q.user, q.assigned.password, sent)
    /\ screen' = screen \cup {<<q.user, q.assigned.password>>}
    /\ Finish(t)
    /\ UNCHANGED accountVars

\* The administrator sends what a screen shows, if it is still the live password.
SendCredentials(t, u) ==
    /\ Exists(u)
    /\ <<u, users[u].password>> \in screen
    /\ SmtpConfigured
    /\ Accept(t, [op |-> "send_credentials", step |-> "mail", user |-> u,
                  password |-> users[u].password])
    /\ UNCHANGED <<accountVars, deliveryVars>>

MailCredentials(t) ==
    /\ At(t, "send_credentials", "mail")
    /\ \E sent \in BOOLEAN : Mailed(thread[t].user, thread[t].password, sent)
    /\ Finish(t)
    /\ UNCHANGED <<accountVars, screen>>

-----------------------------------------------------------------------------
CredentialsNext ==
    \/ \E t \in Threads, u \in Users :
          \/ Register(t, u) \/ ChangePassword(t, u) \/ ForgotPassword(t, u)
          \/ CreateUser(t, u) \/ ResetPassword(t, u) \/ SendCredentials(t, u)
    \/ \E t \in Threads :
          \/ CommitRegister(t) \/ CommitChange(t) \/ MailForgotten(t) \/ CommitForgotten(t)
          \/ CommitCreate(t) \/ CommitReset(t) \/ AnswerWithPassword(t) \/ MailCredentials(t)

\* The request that set the live password of u is still to answer.
Answering(t, u) ==
    /\ thread[t] # Idle
    /\ thread[t].step = "answer"
    /\ thread[t].user = u
    /\ thread[t].assigned.password = users[u].password

\* auth.py: never leave a user with their old password revoked and no new one
\* delivered.  Whatever requests overlap, fail to mail or are cut off, the live
\* password is one the user or an administrator has got; only the answer to an
\* invitation or a reset may be lost, with the server.
SomebodyHasThePassword ==
    \A u \in Users : Exists(u) =>
        \/ HasGot(u, users[u].password)
        \/ \E t \in Threads : Answering(t, u)
        \/ restarts > 0 /\ users[u].password[1] \in {"create_user", "reset_password"}
=============================================================================
