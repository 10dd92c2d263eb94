------------------------- MODULE Administration_proofs -------------------------
(* Proofs about Administration, for any users, plans, files, threads and bounds:  *)
(* tables and requests keep their types and foreign keys their rows; deletions    *)
(* succeed; limits move by name; and no file on disk is without a record.         *)
EXTENDS Administration, TLAPS, WellFoundedInduction

Rows == Tables \X Users \X (0..MaxRequests)
Thresholds == [Fields -> Levels \cup {DefaultLevel}]

\* What a thread may be serving, by handler.  An edit other than an assignment keeps
\* the plan it loaded; a merge keeps the fields it does not name; a deletion that is
\* about to commit has cleared all it saw.
Edits == {"change_password", "forgot_password", "reset_password", "set_access", "set_priority", "assign_plan"}
UserEdits == {q \in [op : Edits, step : {"mail", "commit", "answer"}, user : Users, loaded : User, assigned : User] :
                 q.op # "assign_plan" => q.assigned.plan = q.loaded.plan}
Insertions == [op : {"register", "create_user"}, step : {"commit", "answer"}, user : Users,
               loaded : {NoRow}, assigned : User]
Mailings == [op : {"send_credentials"}, step : {"mail"}, user : Users, password : Password]
PlanEdits == [op : {"create_plan", "update_plan"}, step : {"commit"}, plan : Plans,
              loaded : Plan \cup {NoRow}, assigned : Plan]
PlanDeletions == [op : {"delete_plan"}, step : {"flush", "commit"}, plan : Plans, members : SUBSET Users]
RowEdits == [op : {"write_row", "delete_row"}, step : {"commit"}, user : Users, table : Tables,
             loaded : BOOLEAN, id : 0..MaxRequests]
UserDeletions == {q \in [op : {"delete_user"}, step : {"clear", "commit"}, user : Users,
                         seen : SUBSET Rows, cleared : SUBSET Rows] :
                     q.step = "commit" => q.cleared = q.seen}
LimitEdits == {q \in [op : {"update_thresholds"}, step : {"commit"}, fields : SUBSET Fields,
                      loaded : Thresholds, assigned : Thresholds] :
                  \A f \in Fields \ q.fields : q.assigned[f] = q.loaded[f]}
FileChanges == [op : {"upload_file", "delete_file"}, step : {"store", "unlink", "commit"}, path : Paths,
                 id : 1..MaxRequests]

Requests == UserEdits \cup Insertions \cup Mailings \cup PlanEdits \cup PlanDeletions \cup RowEdits
            \cup UserDeletions \cup LimitEdits \cup FileChanges

Serving == thread \in [Threads -> Requests \cup {Idle}]

TInv == TypeOK /\ Serving

\* The name of a handler tells what kind of request it serves.
LEMMA RequestKinds ==
  ASSUME NEW q \in Requests \cup {Idle}
  PROVE  /\ q.op \in Edits => q \in UserEdits
         /\ q.op \in {"register", "create_user"} => q \in Insertions
         /\ q.op = "send_credentials" => q \in Mailings
         /\ q.op \in {"create_plan", "update_plan"} => q \in PlanEdits
         /\ q.op = "delete_plan" => q \in PlanDeletions
         /\ q.op \in {"write_row", "delete_row"} => q \in RowEdits
         /\ q.op = "delete_user" => q \in UserDeletions
         /\ q.op = "update_thresholds" => q \in LimitEdits
         /\ q.op \in {"upload_file", "delete_file"} => q \in FileChanges
<1>1. q \in UserEdits => q.op \in Edits
  BY DEF UserEdits
<1>2. q \in Insertions => q.op \in {"register", "create_user"}
  BY DEF Insertions
<1>3. q \in Mailings => q.op = "send_credentials"
  BY DEF Mailings
<1>4. q \in PlanEdits => q.op \in {"create_plan", "update_plan"}
  BY DEF PlanEdits
<1>5. q \in PlanDeletions => q.op = "delete_plan"
  BY DEF PlanDeletions
<1>6. q \in RowEdits => q.op \in {"write_row", "delete_row"}
  BY DEF RowEdits
<1>7. q \in UserDeletions => q.op = "delete_user"
  BY DEF UserDeletions
<1>8. q \in LimitEdits => q.op = "update_thresholds"
  BY DEF LimitEdits
<1>9. q \in FileChanges => q.op \in {"upload_file", "delete_file"}
  BY DEF FileChanges
<1> QED BY <1>1, <1>2, <1>3, <1>4, <1>5, <1>6, <1>7, <1>8, <1>9 DEF Requests, Edits, Idle

\* A row is none of the two marks for a row that is not there.
LEMMA RowsAreStored == \A row \in User \cup Plan : Stored(row)
<1>1. \A row \in User : "password" \in DOMAIN row
  BY DEF User
<1>2. \A row \in Plan : "models" \in DOMAIN row
  BY DEF Plan
<1>3. DOMAIN NoRow = {"op"} /\ DOMAIN Deleted = {"op"}
  BY DEF NoRow, Deleted
<1> QED BY <1>1, <1>2, <1>3 DEF Stored

\* What is loaded has its type.
LEMMA Loaded ==
  ASSUME TypeOK
  PROVE  /\ \A u \in Users : Exists(u) <=> users[u] \in User
         /\ \A p \in Plans : p \in Available <=> plans[p] \in Plan
  BY RowsAreStored DEF TypeOK, Exists, Available, Stored

\* A set of numbers that is not empty has a least element.
LEMMA LeastElement ==
  ASSUME NEW S, S \subseteq Nat, S # {}
  PROVE  \E p \in S : \A r \in S : p <= r
<1>1. IsWellFoundedOn(OpToRel(<, Nat), Nat)
  BY NatLessThanWellFounded
<1>2. PICK x \in S : \A y \in S : ~ (<<y, x>> \in OpToRel(<, Nat))
  BY <1>1, WFMin
<1>3. ASSUME NEW y \in S PROVE x <= y
  <2>1. ~ (y < x)
    BY <1>2, Zenon DEF OpToRel
  <2> QED BY <2>1
<1> QED BY <1>3

\* The default plan of a registration, if there is any, is on record.
LEMMA DefaultPlanTyped == DefaultPlan \in Available \cup {Null}
<1> DEFINE active == {p \in Available : plans[p].active}
<1>1. active \subseteq Nat
  BY DatabaseAssumption DEF Available
<1>2. CASE active = {}
  BY <1>2 DEF DefaultPlan
<1>3. CASE active # {}
  <2>1. \E p \in active : \A r \in active : p <= r
    BY <1>1, <1>3, LeastElement
  <2> HIDE DEF active
  <2>2. (CHOOSE p \in active : \A r \in active : p <= r) \in active
    BY <2>1
  <2> QED BY <2>2, <1>3 DEF DefaultPlan, active
<1> QED BY <1>2, <1>3

-----------------------------------------------------------------------------
(* Steps of threads *)

AccountsOK ==
    /\ users \in [Users -> User \cup {NoRow, Deleted}]
    /\ plans \in [Plans -> Plan \cup {NoRow, Deleted}]
    /\ \A u \in Users : Exists(u) => users[u].plan \in Available \cup {Null}
    /\ rows \subseteq Tables \X Users \X (0..MaxRequests)
    /\ \A r \in rows : Exists(r[2])
DeliveredOK == screen \cup inbox \subseteq Users \X Password
FilesOK == files \subseteq [id : 1..MaxRequests, path : Paths] /\ disk \subseteq Paths

\* A step that gives a thread a typed request, or none, is typed when its tables are.
LEMMA ThreadStepTypes ==
  ASSUME TInv, NEW t \in Threads, NEW q \in Requests \cup {Idle}, thread' = [thread EXCEPT ![t] = q],
         served' = served \/ (served < MaxRequests /\ served' = served + 1), restarts' = restarts,
         AccountsOK', thresholds' \in Thresholds, DeliveredOK', FilesOK'
  PROVE  TInv'
<1>1. Serving'
  BY DEF TInv, Serving
<1>2. served' \in 0..MaxRequests /\ restarts' \in 0..MaxRestarts
  BY DatabaseAssumption DEF TInv, TypeOK
<1>3. \A r \in Requests : r.step \in {"commit", "mail", "answer", "flush", "clear", "store", "unlink"}
  BY DEF Requests, UserEdits, Insertions, Mailings, PlanEdits, PlanDeletions, RowEdits, UserDeletions, LimitEdits,
         FileChanges
<1>4. \A s \in Threads : thread'[s] = Idle \/ thread'[s].step \in
          {"commit", "mail", "answer", "flush", "clear", "store", "unlink"}
  BY <1>1, <1>3 DEF Serving
<1> QED BY <1>1, <1>2, <1>4 DEF TInv, TypeOK, AccountsOK, DeliveredOK, FilesOK, Thresholds

\* Tables that do not change keep their types.
LEMMA SameTables ==
  ASSUME TInv
  PROVE  /\ UNCHANGED <<users, plans, rows>> => AccountsOK'
         /\ thresholds' = thresholds => thresholds' \in Thresholds
         /\ UNCHANGED <<screen, inbox>> => DeliveredOK'
         /\ UNCHANGED <<files, disk>> => FilesOK'
  BY DEF TInv, TypeOK, AccountsOK, DeliveredOK, FilesOK, Thresholds, Exists, Available

\* A typed request is accepted.
LEMMA AcceptTypes ==
  ASSUME TInv, NEW t \in Threads, NEW q \in Requests, Accept(t, q), UNCHANGED <<accessVars, deliveryVars, fileVars>>
  PROVE  TInv'
<1>1. AccountsOK' /\ thresholds' \in Thresholds /\ DeliveredOK' /\ FilesOK'
  BY SameTables DEF accessVars, deliveryVars, fileVars
<1> QED BY <1>1, ThreadStepTypes DEF Accept

\* The number of a request that is accepted is in range.
LEMMA NumberInRange ==
  ASSUME TInv, NEW t \in Threads, NEW q, Accept(t, q)
  PROVE  served + 1 \in 1..MaxRequests /\ \A op \in Makers : Fresh(op) \in Password
  BY DatabaseAssumption DEF TInv, TypeOK, Accept, Request, Fresh, Password

-----------------------------------------------------------------------------
(* What is accepted *)

\* An edit that starts from the row of a user.
LEMMA EditTyped ==
  ASSUME TypeOK, NEW u \in Users, Exists(u), NEW op \in Edits, NEW step \in {"mail", "commit"}, NEW row \in User,
         op # "assign_plan" => row.plan = users[u].plan
  PROVE  [op |-> op, step |-> step, user |-> u, loaded |-> users[u], assigned |-> row] \in Requests
  BY Loaded DEF Requests, UserEdits

\* The requests of Credentials.
LEMMA CredentialRequests ==
  ASSUME TInv, NEW t \in Threads, NEW u \in Users, UNCHANGED <<thresholds, fileVars>>,
         \/ Register(t, u) \/ ChangePassword(t, u) \/ ForgotPassword(t, u)
         \/ CreateUser(t, u) \/ ResetPassword(t, u) \/ SendCredentials(t, u)
  PROVE  TInv'
<1> USE DEF accountVars, accessVars
<1>0. TypeOK /\ (Exists(u) => users[u] \in User)
  BY Loaded DEF TInv
<1>1. ASSUME NEW op \in {"register", "create_user"}, NEW must \in BOOLEAN,
             NEW rights \in [plan : Plans \cup {Null}, models : SUBSET Models, kpis : SUBSET Kpis,
                             limit : Limits \cup {Null}],
             users[u] = NoRow, Accept(t, UserEdit(op, u, NewUser(Fresh(op), must, rights))),
             UNCHANGED <<accountVars, deliveryVars>>
      PROVE  TInv'
  <2>1. Fresh(op) \in Password
    BY <1>1, NumberInRange DEF Makers
  <2>2. NewUser(Fresh(op), must, rights) \in User
    BY <2>1 DEF NewUser, User, CleanModels
  <2>3. UserEdit(op, u, NewUser(Fresh(op), must, rights)) \in Requests
    BY <1>1, <2>2 DEF UserEdit, Requests, Insertions
  <2> QED BY <1>1, <2>3, AcceptTypes
<1>2. CASE Register(t, u)
  <2> DEFINE rights == [plan |-> DefaultPlan, models |-> {}, kpis |-> {}, limit |-> Null]
  <2>1. rights \in [plan : Plans \cup {Null}, models : SUBSET Models, kpis : SUBSET Kpis, limit : Limits \cup {Null}]
    BY DefaultPlanTyped DEF Available
  <2>2. users[u] = NoRow /\ Accept(t, UserEdit("register", u, NewUser(Fresh("register"), FALSE, rights)))
        /\ UNCHANGED <<accountVars, deliveryVars>>
    BY <1>2 DEF Register
  <2> HIDE DEF rights
  <2> QED BY <1>1, <2>1, <2>2
<1>3. CASE CreateUser(t, u)
  <2>1. PICK rights \in InviteRights : Accept(t, UserEdit("create_user", u, NewUser(Fresh("create_user"), TRUE, rights)))
    BY <1>3 DEF CreateUser
  <2> QED BY <1>1, <1>3, <2>1, CredentialsAssumption DEF CreateUser
<1>4. ASSUME NEW op \in {"change_password", "reset_password", "forgot_password"}, NEW step \in {"mail", "commit"},
             NEW must \in BOOLEAN, Exists(u),
             Accept(t, [op |-> op, step |-> step, user |-> u, loaded |-> users[u],
                        assigned |-> [users[u] EXCEPT !.password = Fresh(op), !.mustChange = must]]),
             UNCHANGED <<accountVars, deliveryVars>>
      PROVE  TInv'
  <2> DEFINE row == [users[u] EXCEPT !.password = Fresh(op), !.mustChange = must]
  <2>1. Fresh(op) \in Password
    BY <1>4, NumberInRange DEF Makers
  <2>2. row \in User /\ row.plan = users[u].plan
    BY <1>0, <1>4, <2>1 DEF User
  <2> HIDE DEF row
  <2>3. [op |-> op, step |-> step, user |-> u, loaded |-> users[u], assigned |-> row] \in Requests
    BY <1>0, <1>4, <2>2, EditTyped DEF Edits
  <2> QED BY <1>4, <2>3, AcceptTypes DEF row
<1>5. CASE ChangePassword(t, u)
  BY <1>4, <1>5 DEF ChangePassword, CanAct, UserEdit
<1>6. CASE ResetPassword(t, u)
  BY <1>4, <1>6 DEF ResetPassword, UserEdit
<1>7. CASE ForgotPassword(t, u)
  <2>1. Accept(t, [op |-> "forgot_password", step |-> "mail", user |-> u, loaded |-> users[u],
                   assigned |-> [users[u] EXCEPT !.password = Fresh("forgot_password"), !.mustChange = TRUE]])
    BY <1>7 DEF ForgotPassword, UserEdit
  <2> QED BY <1>4, <1>7, <2>1 DEF ForgotPassword, CanAct
<1>8. CASE SendCredentials(t, u)
  <2>1. users[u].password \in Password
    BY <1>0, <1>8 DEF SendCredentials, User
  <2>2. [op |-> "send_credentials", step |-> "mail", user |-> u, password |-> users[u].password] \in Requests
    BY <2>1 DEF Requests, Mailings
  <2> QED BY <1>8, <2>2, AcceptTypes DEF SendCredentials
<1> QED BY <1>2, <1>3, <1>5, <1>6, <1>7, <1>8

\* The requests of Access.
LEMMA AccessRequests ==
  ASSUME TInv, NEW t \in Threads, UNCHANGED fileVars,
         \/ \E p \in Plans : CreatePlan(t, p) \/ UpdatePlan(t, p) \/ DeletePlan(t, p)
         \/ \E u \in Users :
               \/ \E p \in Plans : AssignPlan(t, u, p)
               \/ \E table \in Tables : WriteRow(t, table, u) \/ DeleteRow(t, table, u)
               \/ SetAccess(t, u) \/ SetPriority(t, u) \/ DeleteUser(t, u) \/ UpdateThresholds(t, u)
  PROVE  TInv'
<1>0. /\ TypeOK
      /\ \A u \in Users : Exists(u) => users[u] \in User
      /\ \A p \in Plans : p \in Available => plans[p] \in Plan
  BY Loaded DEF TInv
<1>1. ASSUME NEW p \in Plans, CreatePlan(t, p) \/ UpdatePlan(t, p) PROVE TInv'
  <2>1. PICK op \in {"create_plan", "update_plan"}, body \in PlanBodies : Accept(t, PlanEdit(op, p, body))
    BY <1>1 DEF CreatePlan, UpdatePlan
  <2>2. plans[p] \in Plan \cup {NoRow}
    BY <1>0, <1>1 DEF CreatePlan, UpdatePlan
  <2>3. PlanEdit(op, p, body) \in Requests
    BY <2>2, AccessAssumption DEF PlanEdit, Requests, PlanEdits
  <2> QED BY <1>1, <2>1, <2>3, AcceptTypes DEF CreatePlan, UpdatePlan
<1>2. ASSUME NEW p \in Plans, DeletePlan(t, p) PROVE TInv'
  <2>1. [op |-> "delete_plan", step |-> "flush", plan |-> p, members |-> {}] \in Requests
    BY DEF Requests, PlanDeletions
  <2> QED BY <1>2, <2>1, AcceptTypes DEF DeletePlan
<1>3. ASSUME NEW u \in Users, NEW table \in Tables, WriteRow(t, table, u) \/ DeleteRow(t, table, u) PROVE TInv'
  <2>1. PICK op \in {"write_row", "delete_row"} : Accept(t, RowEdit(op, table, u))
    BY <1>3 DEF WriteRow, DeleteRow
  <2>2. served + 1 \in 1..MaxRequests /\ MaxRequests \in Nat
    BY <2>1, NumberInRange, DatabaseAssumption
  <2>3. RowEdit(op, table, u) \in RowEdits
    BY <2>2 DEF RowEdit, Request, RowEdits, Has
  <2> QED BY <1>3, <2>1, <2>3, AcceptTypes DEF WriteRow, DeleteRow, Requests
<1>4. ASSUME NEW u \in Users, DeleteUser(t, u) PROVE TInv'
  <2>1. [op |-> "delete_user", step |-> "clear", user |-> u, seen |-> {}, cleared |-> {}] \in Requests
    BY DEF Requests, UserDeletions
  <2> QED BY <1>4, <2>1, AcceptTypes DEF DeleteUser
<1>5. ASSUME NEW u \in Users, UpdateThresholds(t, u) PROVE TInv'
  <2>1. PICK F \in (SUBSET VisibleThresholdFields(u)) \ {{}} : \E changes \in [F -> Levels] :
            Accept(t, [op |-> "update_thresholds", step |-> "commit", fields |-> F,
                       loaded |-> thresholds, assigned |-> Merged(thresholds, changes)])
    BY <1>5 DEF UpdateThresholds
  <2>2. PICK changes \in [F -> Levels] :
            Accept(t, [op |-> "update_thresholds", step |-> "commit", fields |-> F,
                       loaded |-> thresholds, assigned |-> Merged(thresholds, changes)])
    BY <2>1
  <2>3. F \subseteq Fields /\ thresholds \in Thresholds
    BY <1>0 DEF VisibleThresholdFields, TypeOK, Thresholds
  <2>4. Merged(thresholds, changes) \in Thresholds
        /\ \A f \in Fields \ F : Merged(thresholds, changes)[f] = thresholds[f]
    BY <2>3 DEF Merged, Thresholds
  <2>5. [op |-> "update_thresholds", step |-> "commit", fields |-> F, loaded |-> thresholds,
         assigned |-> Merged(thresholds, changes)] \in LimitEdits
    BY <2>3, <2>4 DEF LimitEdits
  <2> QED BY <1>5, <2>2, <2>5, AcceptTypes DEF UpdateThresholds, Requests
<1>6. ASSUME NEW u \in Users, NEW p \in Plans, AssignPlan(t, u, p) PROVE TInv'
  <2>1. Exists(u) /\ [users[u] EXCEPT !.plan = p] \in User
    BY <1>0, <1>6 DEF AssignPlan, User
  <2>2. UserEdit("assign_plan", u, [users[u] EXCEPT !.plan = p]) \in Requests
    BY <1>0, <2>1, EditTyped DEF UserEdit, Edits
  <2> QED BY <1>6, <2>2, AcceptTypes DEF AssignPlan
<1>7. \A row \in User : EffectiveAllowedModels(row) \subseteq Models
  BY DatabaseAssumption DEF EffectiveAllowedModels
<1>8. ASSUME NEW u \in Users, SetPriority(t, u) PROVE TInv'
  <2>1. Exists(u) /\ users[u] \in User
    BY <1>0, <1>8 DEF SetPriority, CanAct
  <2>2. PICK chosen \in SUBSET EffectiveAllowedModels(users[u]) :
            Accept(t, UserEdit("set_priority", u, [users[u] EXCEPT !.priority = chosen]))
    BY <1>8 DEF SetPriority
  <2>3. [users[u] EXCEPT !.priority = chosen] \in User /\ [users[u] EXCEPT !.priority = chosen].plan = users[u].plan
    BY <1>7, <2>1 DEF User
  <2>4. UserEdit("set_priority", u, [users[u] EXCEPT !.priority = chosen]) \in Requests
    BY <1>0, <2>1, <2>3, EditTyped DEF UserEdit, Edits
  <2> QED BY <1>8, <2>2, <2>4, AcceptTypes DEF SetPriority
<1>9. ASSUME NEW u \in Users, SetAccess(t, u) PROVE TInv'
  <2>1. Exists(u) /\ users[u] \in User
    BY <1>0, <1>9 DEF SetAccess
  <2>2. PICK body \in AccessBodies : Accept(t, UserEdit("set_access", u, AccessRow(users[u], body)))
    BY <1>9 DEF SetAccess
  <2>3. body \in [models : SUBSET Models, kpis : SUBSET Kpis, limit : Limits \cup {Null},
                  given : BOOLEAN, priority : SUBSET Models]
    BY AccessAssumption
  <2>4. AccessRow(users[u], body) \in User /\ AccessRow(users[u], body).plan = users[u].plan
    BY <1>7, <2>1, <2>3 DEF AccessRow, CleanModels, User
  <2>5. UserEdit("set_access", u, AccessRow(users[u], body)) \in Requests
    BY <1>0, <2>1, <2>4, EditTyped DEF UserEdit, Edits
  <2> QED BY <1>9, <2>2, <2>5, AcceptTypes DEF SetAccess
<1> QED BY <1>1, <1>2, <1>3, <1>4, <1>5, <1>6, <1>8, <1>9

-----------------------------------------------------------------------------
(* What is committed *)

\* What a commit must leave of the accounts: rows that are typed, and the two kinds of
\* foreign key.  Users who are there stay, and no plan they are on goes.
LEMMA AccountsKept ==
  ASSUME TInv, users' \in [Users -> User \cup {NoRow, Deleted}], plans' \in [Plans -> Plan \cup {NoRow, Deleted}],
         \A u \in Users : Exists(u) => Exists(u)',
         \A u \in Users : Exists(u)' => users'[u].plan \in Available' \cup {Null},
         rows' \subseteq rows \cup Rows, \A r \in rows' \ rows : Exists(r[2])'
  PROVE  AccountsOK'
<1>1. \A r \in Rows : r[2] \in Users
  BY DEF Rows
<1>2. rows \subseteq Rows /\ \A r \in rows : Exists(r[2])
  BY DEF TInv, TypeOK, Rows
<1> QED BY <1>1, <1>2 DEF AccountsOK, Rows

\* An edit that keeps the plan it loaded, or assigns one that is there.
LEMMA CommittedEdit ==
  ASSUME TInv, NEW t \in Threads, thread[t].op \in Edits, CommitUser(t), UNCHANGED <<plans, rows>>,
         thread[t].op = "assign_plan" => thread[t].assigned.plan \in Available
  PROVE  AccountsOK'
<1> DEFINE q == thread[t]
<1>0. q \in UserEdits
  BY RequestKinds DEF TInv, Serving
<1> HIDE DEF q
<1>1. q.user \in Users /\ q.loaded \in User /\ q.assigned \in User
      /\ (q.assigned.plan = q.loaded.plan \/ q.assigned.plan \in Available)
  BY <1>0 DEF UserEdits, Edits, q
<1>2. users' = [users EXCEPT ![q.user] = Written(@, q.loaded, q.assigned)]
  BY DEF CommitUser, q
<1>3. users \in [Users -> User \cup {NoRow, Deleted}] /\ TypeOK
  BY DEF TInv, TypeOK
<1>4. ASSUME NEW row \in User
      PROVE  /\ Written(row, q.loaded, q.assigned) \in User
             /\ Written(row, q.loaded, q.assigned).plan \in {row.plan} \cup Available
  <2>1. Stored(row)
    BY RowsAreStored
  <2>2. Written(row, q.loaded, q.assigned) = [c \in DOMAIN row |-> IF q.assigned[c] # q.loaded[c] THEN q.assigned[c] ELSE row[c]]
    BY <2>1 DEF Written
  <2> QED BY <2>2, <1>1 DEF User
<1>5. \A row \in {NoRow, Deleted} : Written(row, q.loaded, q.assigned) = row
  BY DEF Written, Stored
<1>6. users' \in [Users -> User \cup {NoRow, Deleted}]
  BY <1>1, <1>2, <1>3, <1>4, <1>5
<1>7. \A u \in Users : Exists(u) <=> Exists(u)'
  BY <1>2, <1>3, <1>4, <1>5, RowsAreStored DEF Exists, Stored
<1>8. ASSUME NEW u \in Users, Exists(u)' PROVE users'[u].plan \in Available' \cup {Null}
  <2>1. Exists(u) /\ users[u] \in User /\ users[u].plan \in Available \cup {Null} /\ Available' = Available
    BY <1>3, <1>7, <1>8, Loaded DEF TypeOK, Available
  <2> QED BY <1>2, <1>3, <1>4, <2>1
<1>9. plans' \in [Plans -> Plan \cup {NoRow, Deleted}]
  BY DEF TInv, TypeOK
<1> QED BY <1>6, <1>7, <1>8, <1>9, AccountsKept

\* A request that goes on to its commit or its answer stays typed.
LEMMA AnswerTyped ==
  ASSUME NEW q
  PROVE  /\ q \in UserEdits \cup Insertions => [q EXCEPT !.step = "answer"] \in Requests
         /\ q \in UserEdits \cup FileChanges => [q EXCEPT !.step = "commit"] \in Requests
<1>1. q \in UserEdits => [q EXCEPT !.step = "answer"] \in UserEdits /\ [q EXCEPT !.step = "commit"] \in UserEdits
  BY DEF UserEdits
<1>2. q \in Insertions => [q EXCEPT !.step = "answer"] \in Insertions /\ [q EXCEPT !.step = "commit"] \in Insertions
  BY DEF Insertions
<1>3. q \in FileChanges => [q EXCEPT !.step = "commit"] \in FileChanges
  BY DEF FileChanges
<1> QED BY <1>1, <1>2, <1>3 DEF Requests

\* A user is inserted with a plan that is there.
LEMMA Inserted ==
  ASSUME TInv, NEW q \in Insertions, Inserts(q), users' = [users EXCEPT ![q.user] = q.assigned], plans' = plans,
         rows' = rows \/ rows' = rows \cup {<<"user_tenants", q.user, 0>>}
  PROVE  AccountsOK'
<1>1. q.user \in Users /\ q.assigned \in User /\ users[q.user] = NoRow
      /\ q.assigned.plan \in Available \cup {Null}
  BY DEF Insertions, Inserts
<1>2. TypeOK /\ users \in [Users -> User \cup {NoRow, Deleted}]
  BY DEF TInv, TypeOK
<1>3. users' \in [Users -> User \cup {NoRow, Deleted}]
  BY <1>1, <1>2
<1>4. ~Exists(q.user) /\ Exists(q.user)' /\ \A u \in Users \ {q.user} : users'[u] = users[u]
  BY <1>1, <1>2, RowsAreStored DEF Exists, Stored
<1>5. \A u \in Users : Exists(u)' => users'[u].plan \in Available' \cup {Null}
  BY <1>1, <1>2, <1>4 DEF TypeOK, Exists, Available
<1>6. rows' \subseteq rows \cup Rows /\ \A r \in rows' \ rows : Exists(r[2])'
  BY <1>1, <1>4, DatabaseAssumption DEF Rows, Tables
<1>7. plans' \in [Plans -> Plan \cup {NoRow, Deleted}]
  BY <1>2 DEF TypeOK
<1> QED BY <1>3, <1>4, <1>5, <1>6, <1>7, AccountsKept DEF Exists

\* The commits of Credentials, its mails and its answers.
LEMMA CredentialCommits ==
  ASSUME TInv, NEW t \in Threads, UNCHANGED <<thresholds, fileVars>>,
         \/ CommitRegister(t) \/ CommitChange(t) \/ MailForgotten(t) \/ CommitForgotten(t)
         \/ CommitCreate(t) \/ CommitReset(t) \/ AnswerWithPassword(t) \/ MailCredentials(t)
  PROVE  TInv'
<1> USE DEF accountVars, deliveryVars
<1> DEFINE q == thread[t]
<1>0. /\ FilesOK' /\ thresholds' \in Thresholds /\ TypeOK /\ q \in Requests \cup {Idle}
      /\ screen \cup inbox \subseteq Users \X Password
  BY SameTables DEF fileVars, TInv, TypeOK, Serving
<1>1. q \in UserEdits \cup Insertions => q.user \in Users /\ q.assigned.password \in Password
  BY DEF UserEdits, Insertions, User
<1>2. CASE CommitRegister(t)
  <2>1. q \in Insertions
    BY <1>0, <1>2, RequestKinds DEF CommitRegister, At
  <2>2. AccountsOK'
    BY <1>2, <2>1, Inserted, SameTables DEF CommitRegister
  <2>3. DeliveredOK'
    BY <1>0, <1>1, <1>2, <2>1 DEF CommitRegister, DeliveredOK
  <2> QED BY <1>0, <1>2, <2>2, <2>3, ThreadStepTypes DEF CommitRegister, Finish
<1>3. CASE CommitChange(t)
  <2>1. q \in UserEdits /\ q.op = "change_password"
    BY <1>0, <1>3, RequestKinds DEF CommitChange, At, Edits
  <2>2. AccountsOK'
    BY <1>3, <2>1, CommittedEdit DEF CommitChange, Edits
  <2>3. DeliveredOK'
    BY <1>0, <1>1, <1>3, <2>1 DEF CommitChange, DeliveredOK
  <2> QED BY <1>0, <1>3, <2>2, <2>3, ThreadStepTypes DEF CommitChange, Finish
<1>4. CASE CommitForgotten(t)
  <2>1. AccountsOK'
    BY <1>4, CommittedEdit DEF CommitForgotten, At, Edits
  <2> QED BY <1>0, <1>4, <2>1, SameTables, ThreadStepTypes DEF CommitForgotten, Finish
<1>5. CASE CommitReset(t)
  <2>1. q \in UserEdits /\ q.op = "reset_password"
    BY <1>0, <1>5, RequestKinds DEF CommitReset, At, Edits
  <2>2. AccountsOK' /\ DeliveredOK'
    BY <1>5, <2>1, CommittedEdit, SameTables DEF CommitReset, Edits
  <2>3. PICK r \in Requests \cup {Idle} : thread' = [thread EXCEPT ![t] = r] /\ UNCHANGED <<served, restarts>>
    BY <1>5, <2>1, AnswerTyped DEF CommitReset, Finish, GoOn
  <2> QED BY <1>0, <2>2, <2>3, ThreadStepTypes
<1>6. CASE CommitCreate(t)
  <2>1. q \in Insertions
    BY <1>0, <1>6, RequestKinds DEF CommitCreate, At
  <2>2. AccountsOK' /\ DeliveredOK'
    BY <1>6, <2>1, Inserted, SameTables DEF CommitCreate
  <2>3. [q EXCEPT !.step = "answer"] \in Requests
    BY <2>1, AnswerTyped
  <2>4. PICK r \in Requests \cup {Idle} : thread' = [thread EXCEPT ![t] = r] /\ UNCHANGED <<served, restarts>>
    BY <1>6, <2>3 DEF CommitCreate, Finish, GoOn
  <2> QED BY <1>0, <2>2, <2>4, ThreadStepTypes
<1>7. CASE AnswerWithPassword(t)
  <2>1. q \in UserEdits \cup Insertions
    BY <1>0, <1>7, RequestKinds DEF AnswerWithPassword, At, Edits
  <2>2. DeliveredOK'
    BY <1>0, <1>1, <1>7, <2>1 DEF AnswerWithPassword, Mailed, DeliveredOK
  <2> QED BY <1>0, <1>7, <2>2, SameTables, ThreadStepTypes DEF AnswerWithPassword, Finish
<1>8. CASE MailCredentials(t)
  <2>1. q.user \in Users /\ q.password \in Password
    BY <1>0, <1>8, RequestKinds DEF MailCredentials, At, Mailings
  <2>2. DeliveredOK'
    BY <1>0, <1>8, <2>1 DEF MailCredentials, Mailed, DeliveredOK
  <2> QED BY <1>0, <1>8, <2>2, SameTables, ThreadStepTypes DEF MailCredentials, Finish
<1>9. CASE MailForgotten(t)
  <2>1. q \in UserEdits
    BY <1>0, <1>9, RequestKinds DEF MailForgotten, At, Edits
  <2>2. DeliveredOK'
    BY <1>0, <1>1, <1>9, <2>1 DEF MailForgotten, Mailed, DeliveredOK
  <2>3. PICK r \in Requests \cup {Idle} : thread' = [thread EXCEPT ![t] = r] /\ UNCHANGED <<served, restarts>>
    BY <1>9, <2>1, AnswerTyped DEF MailForgotten, AfterMail, Finish, GoOn
  <2> QED BY <1>0, <1>9, <2>2, <2>3, SameTables, ThreadStepTypes DEF MailForgotten
<1> QED BY <1>2, <1>3, <1>4, <1>5, <1>6, <1>7, <1>8, <1>9

\* The commits of Access that write users: edits, and the deletions of a plan or a user.
LEMMA AccessUserCommits ==
  ASSUME TInv, NEW t \in Threads,
         CommitAssignPlan(t) \/ CommitAccess(t) \/ CommitPriority(t) \/ CommitDeletePlan(t) \/ CommitDelete(t)
  PROVE  AccountsOK'
<1> DEFINE q == thread[t]
<1>0. TypeOK /\ q \in Requests \cup {Idle} /\ users \in [Users -> User \cup {NoRow, Deleted}]
      /\ plans \in [Plans -> Plan \cup {NoRow, Deleted}]
  BY DEF TInv, TypeOK, Serving
<1>1. CASE CommitAssignPlan(t)
  <2>1. CASE q.assigned.plan \in Available
    BY <1>1, <2>1, CommittedEdit DEF CommitAssignPlan, At, Edits
  <2>2. CASE q.assigned.plan \notin Available
    BY <1>1, <2>2, SameTables DEF CommitAssignPlan
  <2> QED BY <2>1, <2>2
<1>2. CASE CommitAccess(t) \/ CommitPriority(t)
  BY <1>2, CommittedEdit DEF CommitAccess, CommitPriority, At, Edits
<1>3. CASE CommitDeletePlan(t)
  <2>1. q.plan \in Plans /\ q.members \subseteq Users
    BY <1>0, <1>3, RequestKinds DEF CommitDeletePlan, At, PlanDeletions
  <2>2. CASE ~ (On(q.plan) \subseteq q.members)
    BY <1>3, <2>2, SameTables DEF CommitDeletePlan
  <2>3. CASE On(q.plan) \subseteq q.members
    <3>1. users' = [u \in Users |-> IF u \in q.members /\ Exists(u) THEN [users[u] EXCEPT !.plan = Null] ELSE users[u]]
          /\ plans' = [plans EXCEPT ![q.plan] = Deleted] /\ rows' = rows
      BY <1>3, <2>3 DEF CommitDeletePlan
    <3>2. ASSUME NEW u \in Users, Exists(u)
          PROVE  users'[u] \in User /\ users'[u].plan \in {Null, users[u].plan}
                 /\ (users'[u].plan = q.plan => users'[u].plan = Null)
      <4>1. users[u] \in User
        BY <1>0, <3>2, Loaded
      <4>2. [users[u] EXCEPT !.plan = Null] \in User /\ [users[u] EXCEPT !.plan = Null].plan = Null
        BY <4>1 DEF User
      <4>3. users[u].plan = q.plan => u \in q.members
        BY <2>3, <3>2 DEF On
      <4>4. users'[u] = IF u \in q.members THEN [users[u] EXCEPT !.plan = Null] ELSE users[u]
        BY <3>1, <3>2
      <4> QED BY <4>1, <4>2, <4>3, <4>4
    <3>3. ASSUME NEW u \in Users, ~Exists(u) PROVE users'[u] = users[u]
      BY <3>1, <3>3
    <3>4. users' \in [Users -> User \cup {NoRow, Deleted}]
      BY <1>0, <3>1, <3>2, <3>3
    <3>5. \A u \in Users : Exists(u) <=> Exists(u)'
      BY <3>2, <3>3, RowsAreStored DEF Exists
    <3>6. Available \ {q.plan} \subseteq Available'
      BY <1>0, <2>1, <3>1 DEF Available
    <3>7. \A u \in Users : Exists(u)' => users'[u].plan \in Available' \cup {Null}
      BY <1>0, <3>2, <3>5, <3>6 DEF TypeOK
    <3>8. plans' \in [Plans -> Plan \cup {NoRow, Deleted}]
      BY <1>0, <3>1
    <3> QED BY <3>1, <3>4, <3>5, <3>7, <3>8, AccountsKept
  <2> QED BY <2>2, <2>3
<1>4. CASE CommitDelete(t)
  <2>1. q.user \in Users /\ q.cleared \subseteq Rows
    BY <1>0, <1>4, RequestKinds DEF CommitDelete, At, UserDeletions
  <2>2. CASE ~ (RefersTo(q.user) \subseteq q.cleared)
    BY <1>4, <2>2, SameTables DEF CommitDelete
  <2>3. CASE RefersTo(q.user) \subseteq q.cleared
    <3>1. users' = [users EXCEPT ![q.user] = Deleted] /\ plans' = plans /\ rows' = rows \ q.cleared
      BY <1>4, <2>3 DEF CommitDelete
    <3>2. users' \in [Users -> User \cup {NoRow, Deleted}] /\ plans' \in [Plans -> Plan \cup {NoRow, Deleted}]
      BY <1>0, <3>1
    <3>3. \A u \in Users \ {q.user} : users'[u] = users[u]
      BY <1>0, <3>1
    <3>4. ~Stored(users'[q.user])
      BY <1>0, <2>1, <3>1 DEF Stored
    <3>5. ASSUME NEW u \in Users, Exists(u)' PROVE u # q.user /\ users'[u] = users[u] /\ Exists(u)
      BY <3>3, <3>4, <3>5 DEF Exists
    <3>6. \A u \in Users : Exists(u)' => users'[u].plan \in Available' \cup {Null}
      BY <1>0, <3>1, <3>5 DEF TypeOK, Available
    <3>7. \A r \in rows' : r \in rows /\ r[2] # q.user /\ r[2] \in Users
      BY <1>0, <2>3, <3>1 DEF RefersTo, TypeOK
    <3>8. \A r \in rows' : Exists(r[2])'
      BY <1>0, <3>3, <3>7 DEF TypeOK, Exists
    <3>9. rows' \subseteq Tables \X Users \X (0..MaxRequests)
      BY <1>0, <3>1 DEF TypeOK
    <3> QED BY <3>2, <3>6, <3>8, <3>9 DEF AccountsOK
  <2> QED BY <2>2, <2>3
<1> QED BY <1>1, <1>2, <1>3, <1>4

\* The commits of Access that write plans and rows only.
LEMMA AccessTableCommits ==
  ASSUME TInv, NEW t \in Threads,
         CommitCreatePlan(t) \/ CommitUpdatePlan(t) \/ CommitRow(t) \/ CommitDeleteRow(t)
  PROVE  AccountsOK'
<1> DEFINE q == thread[t]
<1>0. TypeOK /\ q \in Requests \cup {Idle} /\ users' = users
      /\ users' \in [Users -> User \cup {NoRow, Deleted}] /\ plans \in [Plans -> Plan \cup {NoRow, Deleted}]
  BY DEF TInv, TypeOK, Serving, CommitCreatePlan, CommitUpdatePlan, CommitRow, CommitDeleteRow
<1>1. \A u \in Users : Exists(u)' <=> Exists(u)
  BY <1>0 DEF Exists
<1>2. CASE CommitCreatePlan(t) \/ CommitUpdatePlan(t)
  <2>1. q.plan \in Plans /\ q.loaded \in Plan \cup {NoRow} /\ q.assigned \in Plan
    BY <1>0, <1>2, RequestKinds DEF CommitCreatePlan, CommitUpdatePlan, At, PlanEdits
  <2>2. PICK row : /\ plans' = plans \/ plans' = [plans EXCEPT ![q.plan] = row]
                   /\ row \in Plan \cup {NoRow, Deleted} /\ (q.plan \in Available => row \in Plan)
    <3>1. CASE CommitCreatePlan(t)
      BY <2>1, <3>1 DEF CommitCreatePlan
    <3>2. CASE CommitUpdatePlan(t)
      <4> DEFINE row == Written(plans[q.plan], q.loaded, q.assigned)
      <4>1. plans' = [plans EXCEPT ![q.plan] = row]
        BY <3>2 DEF CommitUpdatePlan
      <4>2. plans[q.plan] \in Plan \cup {NoRow, Deleted}
        BY <1>0, <2>1
      <4>3. CASE plans[q.plan] \in Plan
        <5>1. Stored(plans[q.plan])
          BY <4>3, RowsAreStored
        <5>2. row = [c \in DOMAIN plans[q.plan] |-> IF q.assigned[c] # q.loaded[c] THEN q.assigned[c] ELSE plans[q.plan][c]]
          BY <5>1 DEF Written
        <5>3. row \in Plan
          BY <2>1, <4>3, <5>2 DEF Plan
        <5> QED BY <4>1, <5>3
      <4>4. CASE plans[q.plan] \in {NoRow, Deleted}
        <5>1. row = plans[q.plan] /\ q.plan \notin Available
          BY <4>4 DEF Written, Stored, Available
        <5> QED BY <4>1, <4>4, <5>1
      <4> QED BY <4>2, <4>3, <4>4
    <3> QED BY <1>2, <3>1, <3>2
  <2>3. plans' \in [Plans -> Plan \cup {NoRow, Deleted}]
    BY <1>0, <2>2
  <2>4. \A p \in Available : p \in Available'
    BY <1>0, <2>1, <2>2, RowsAreStored DEF Available
  <2>5. \A u \in Users : Exists(u)' => users'[u].plan \in Available' \cup {Null}
    BY <1>0, <1>1, <2>4 DEF TypeOK
  <2>6. rows' = rows
    BY <1>2 DEF CommitCreatePlan, CommitUpdatePlan
  <2> QED BY <1>0, <1>1, <2>3, <2>5, <2>6, AccountsKept
<1>3. ASSUME plans' = plans, rows' \subseteq rows \cup Rows, \A r \in rows' \ rows : Exists(r[2]) /\ r[2] \in Users
      PROVE  AccountsOK'
  <2>1. \A u \in Users : Exists(u)' => users'[u].plan \in Available' \cup {Null}
    BY <1>0, <1>1, <1>3 DEF TypeOK, Available
  <2> QED BY <1>0, <1>1, <1>3, <2>1, AccountsKept
<1>4. CASE CommitRow(t)
  <2>1. q \in RowEdits /\ plans' = plans
    BY <1>0, <1>4, RequestKinds DEF CommitRow, At
  <2>2. rows' = rows \/ (rows' = rows \cup {<<q.table, q.user, q.id>>} /\ Exists(q.user))
    BY <1>4 DEF CommitRow
  <2> QED BY <1>3, <2>1, <2>2 DEF RowEdits, Rows
<1>5. CASE CommitDeleteRow(t)
  BY <1>3, <1>5 DEF CommitDeleteRow
<1> QED BY <1>2, <1>4, <1>5

\* The commits of Access, and the statements before two of them.
LEMMA AccessCommits ==
  ASSUME TInv, NEW t \in Threads, UNCHANGED fileVars,
         \/ CommitCreatePlan(t) \/ CommitUpdatePlan(t) \/ FlushDeletePlan(t)
         \/ CommitDeletePlan(t) \/ CommitAssignPlan(t) \/ CommitAccess(t) \/ CommitPriority(t)
         \/ CommitRow(t) \/ CommitDeleteRow(t) \/ ClearRows(t) \/ CommitDelete(t)
         \/ CommitThresholds(t)
  PROVE  TInv'
<1> DEFINE q == thread[t]
<1>0. TypeOK /\ FilesOK' /\ q \in Requests \cup {Idle}
  BY SameTables DEF TInv, Serving, fileVars
<1>1. ASSUME CommitCreatePlan(t) \/ CommitUpdatePlan(t) \/ CommitRow(t) \/ CommitDeleteRow(t) \/ CommitDeletePlan(t)
             \/ CommitAssignPlan(t) \/ CommitAccess(t) \/ CommitPriority(t) \/ CommitDelete(t)
      PROVE  TInv'
  <2>1. AccountsOK'
    BY <1>1, AccessUserCommits, AccessTableCommits
  <2>2. Finish(t) /\ UNCHANGED <<thresholds, deliveryVars>>
    BY <1>1 DEF CommitCreatePlan, CommitUpdatePlan, CommitRow, CommitDeleteRow, CommitDeletePlan, CommitAssignPlan,
                CommitAccess, CommitPriority, CommitDelete
  <2>3. thresholds' \in Thresholds /\ DeliveredOK'
    BY <2>2, SameTables DEF deliveryVars
  <2> QED BY <1>0, <2>1, <2>2, <2>3, ThreadStepTypes DEF Finish
<1>2. CASE CommitThresholds(t)
  <2>1. q.assigned \in Thresholds
    BY <1>0, <1>2, RequestKinds DEF CommitThresholds, At, LimitEdits
  <2>2. thresholds' \in Thresholds
    BY <1>0, <1>2, <2>1 DEF CommitThresholds, TypeOK, Thresholds
  <2>3. AccountsOK' /\ DeliveredOK'
    BY <1>2, SameTables DEF CommitThresholds, deliveryVars
  <2> QED BY <1>0, <1>2, <2>2, <2>3, ThreadStepTypes DEF CommitThresholds, Finish
<1>3. ASSUME NEW r \in Requests, thread' = [thread EXCEPT ![t] = r], UNCHANGED <<served, restarts, accessVars, deliveryVars>>
      PROVE  TInv'
  <2>1. AccountsOK' /\ DeliveredOK' /\ thresholds' \in Thresholds
    BY <1>3, SameTables DEF accessVars, deliveryVars
  <2> QED BY <1>0, <1>3, <2>1, ThreadStepTypes
<1>4. CASE FlushDeletePlan(t)
  <2>1. q \in PlanDeletions
    BY <1>0, <1>4, RequestKinds DEF FlushDeletePlan, At
  <2>2. [q EXCEPT !.step = "commit", !.members = On(q.plan)] \in PlanDeletions
    BY <2>1 DEF PlanDeletions, On
  <2> QED BY <1>3, <1>4, <2>2 DEF FlushDeletePlan, Requests
<1>5. CASE ClearRows(t)
  <2>1. q \in UserDeletions
    BY <1>0, <1>5, RequestKinds DEF ClearRows, At
  <2> DEFINE own == RefersTo(q.user)
  <2>2. own \subseteq Rows /\ {r \in own : r[1] \in Cleared} = own
    BY <1>0 DEF RefersTo, TypeOK, Rows, Cleared
  <2>3. [q EXCEPT !.step = "commit", !.seen = own, !.cleared = {r \in own : r[1] \in Cleared}] \in UserDeletions
    BY <2>1, <2>2 DEF UserDeletions
  <2> QED BY <1>3, <1>5, <2>3 DEF ClearRows, Requests
<1> QED BY <1>1, <1>2, <1>4, <1>5

-----------------------------------------------------------------------------
(* Files and crashes *)

\* The steps of TenantFiles.
LEMMA FileSteps == ASSUME TInv, FilesNext, UNCHANGED <<accessVars, deliveryVars>> PROVE TInv'
<1>0. /\ TypeOK /\ AccountsOK' /\ DeliveredOK' /\ thresholds' \in Thresholds
      /\ files \subseteq [id : 1..MaxRequests, path : Paths] /\ disk \subseteq Paths
      /\ \A t \in Threads : thread[t] \in Requests \cup {Idle}
  BY SameTables DEF TInv, TypeOK, Serving, accessVars, deliveryVars
<1>1. ASSUME NEW t \in Threads, NEW type \in FileTypes, NEW name \in HostNames, UploadFile(t, type, name) PROVE TInv'
  <2>1. served + 1 \in 1..MaxRequests
    BY <1>1, NumberInRange DEF UploadFile
  <2>2. [op |-> "upload_file", step |-> "store", path |-> Destination(type, name), id |-> served + 1] \in Requests
    BY <2>1 DEF Requests, FileChanges, Paths
  <2> QED BY <1>1, <2>2, AcceptTypes DEF UploadFile
<1>2. ASSUME NEW t \in Threads, DeleteFile(t) PROVE TInv'
  <2>1. PICK f \in files : Accept(t, [op |-> "delete_file", step |-> "unlink", path |-> f.path, id |-> f.id])
    BY <1>2 DEF DeleteFile
  <2>2. [op |-> "delete_file", step |-> "unlink", path |-> f.path, id |-> f.id] \in Requests
    BY <1>0 DEF Requests, FileChanges
  <2> QED BY <1>2, <2>1, <2>2, AcceptTypes DEF DeleteFile
<1>3. ASSUME NEW t \in Threads, Store(t) \/ Unlink(t) PROVE TInv'
  <2>1. thread[t] \in FileChanges
    BY <1>0, <1>3, RequestKinds DEF Store, Unlink, At
  <2>2. [thread[t] EXCEPT !.step = "commit"] \in Requests
    BY <2>1, AnswerTyped
  <2>3. FilesOK'
    BY <1>0, <1>3, <2>1 DEF Store, Unlink, FilesOK, FileChanges
  <2> QED BY <1>0, <1>3, <2>2, <2>3, ThreadStepTypes DEF Store, Unlink, GoOn
<1>4. ASSUME NEW t \in Threads, CommitUpload(t) \/ CommitDeleteFile(t) PROVE TInv'
  <2>1. thread[t] \in FileChanges
    BY <1>0, <1>4, RequestKinds DEF CommitUpload, CommitDeleteFile, At
  <2>2. FilesOK'
    BY <1>0, <1>4, <2>1 DEF CommitUpload, CommitDeleteFile, FilesOK, FileChanges
  <2> QED BY <1>0, <1>4, <2>2, ThreadStepTypes DEF CommitUpload, CommitDeleteFile, Finish
<1> QED BY <1>1, <1>2, <1>3, <1>4 DEF FilesNext

\* A crash forgets the requests and keeps the tables.
LEMMA CrashTypes == ASSUME TInv, Crash, UNCHANGED <<accessVars, deliveryVars, fileVars>> PROVE TInv'
<1>1. AccountsOK' /\ DeliveredOK' /\ thresholds' \in Thresholds /\ FilesOK'
  BY SameTables DEF accessVars, deliveryVars, fileVars
<1>2. Serving' /\ served' \in 0..MaxRequests /\ restarts' \in 0..MaxRestarts /\ \A t \in Threads : thread'[t] = Idle
  BY DatabaseAssumption DEF Crash, TInv, TypeOK, Serving
<1> QED BY <1>1, <1>2 DEF TInv, TypeOK, AccountsOK, DeliveredOK, FilesOK, Thresholds

\* A stuttering step preserves the types.
LEMMA StutterTypes == ASSUME TInv, UNCHANGED vars PROVE TInv'
  BY DEF TInv, TypeOK, Serving, vars, Exists, Available

\* The rows a server starts with.
LEMMA InitTypes == Init => TInv
<1> SUFFICES ASSUME Init PROVE TInv
  OBVIOUS
<1> PICK active \in BOOLEAN, plan \in Plans \cup {Null}, body \in {b \in PlanBodies : b.active},
         known \in SUBSET (Users \ Admins) :
      /\ plans = [p \in Plans |-> IF p = plan THEN body ELSE NoRow]
      /\ users = [u \in Users |->
                IF u \in Admins \cup known
                THEN [password |-> <<"register", 0>>, mustChange |-> FALSE,
                      active |-> u \in Admins \/ active, plan |-> plan, models |-> {},
                      priority |-> {}, kpis |-> {}, limit |-> Null]
                ELSE NoRow]
      /\ inbox = {<<u, <<"register", 0>>>> : u \in Admins \cup known}
      /\ rows = Tables \X known \X {0}
  BY Zenon DEF Init
<1> DEFINE first == <<"register", 0>>
<1>1. first \in Password /\ Admins \cup known \subseteq Users
  BY DatabaseAssumption DEF Password, Makers
<1>2. \A u \in Admins \cup known : users[u] \in User /\ users[u].plan = plan
  BY <1>1 DEF User
<1>3. users \in [Users -> User \cup {NoRow, Deleted}]
  BY <1>2
<1>4. \A u \in Users : Exists(u) <=> u \in Admins \cup known
  BY <1>1, <1>2, RowsAreStored DEF Exists, Stored
<1>5. plans \in [Plans -> Plan \cup {NoRow, Deleted}] /\ plan \in Available \cup {Null}
  BY AccessAssumption, RowsAreStored DEF Available
<1>6. rows \subseteq Tables \X Users \X (0..MaxRequests) /\ \A r \in rows : r[2] \in known
  BY <1>1, DatabaseAssumption
<1>7. inbox \subseteq Users \X Password
  BY <1>1
<1>8. /\ thread = [t \in Threads |-> Idle] /\ served = 0 /\ restarts = 0 /\ screen = {} /\ files = {} /\ disk = {}
      /\ thresholds \in [Fields -> Levels \cup {DefaultLevel}]
  BY DEF Init
<1>9. Serving /\ served \in 0..MaxRequests /\ restarts \in 0..MaxRestarts
  BY <1>8, DatabaseAssumption DEF Serving
<1>10. TypeOK
  <2>1. \A u \in Users : Exists(u) => users[u].plan \in Available \cup {Null}
    BY <1>2, <1>4, <1>5
  <2>2. \A r \in rows : Exists(r[2])
    BY <1>1, <1>4, <1>6
  <2> QED BY <1>3, <1>5, <1>6, <1>7, <1>8, <1>9, <2>1, <2>2 DEF TypeOK
<1> QED BY <1>9, <1>10 DEF TInv

\* The invariant is inductive.
LEMMA TypeStep == TInv /\ [Next]_vars => TInv'
<1> SUFFICES ASSUME TInv, [Next]_vars PROVE TInv'
  OBVIOUS
<1>1. CASE CredentialsNext /\ UNCHANGED <<thresholds, fileVars>>
  BY <1>1, CredentialRequests, CredentialCommits DEF CredentialsNext
<1>2. CASE AccessNext /\ UNCHANGED fileVars
  BY <1>2, AccessRequests, AccessCommits DEF AccessNext
<1> QED BY <1>1, <1>2, FileSteps, CrashTypes, StutterTypes DEF Next

\* Every reachable state is typed, its threads included.
LEMMA TypesHold == Spec => []TInv
  BY InitTypes, TypeStep, PTL DEF Spec

\* Every table keeps its types, whatever handlers overlap, and every foreign key of
\* users and of the rows that refer to them finds its row (db/models.py).
THEOREM TypeCorrect == Spec => []TypeOK
<1>1. TInv => TypeOK
  BY DEF TInv
<1> QED BY <1>1, TypesHold, PTL

-----------------------------------------------------------------------------
(* Deletions and thresholds *)

\* A thread that ends the deletion of a user, while the server stays up, has
\* committed it: what other threads do leaves it alone.
LEMMA DeletionEnds ==
  ASSUME TInv, Next, NEW t \in Threads, At(t, "delete_user", "commit"), thread'[t] = Idle, restarts' = restarts
  PROVE  CommitDelete(t)
<1>0. thread[t] # Idle /\ DOMAIN thread = Threads /\ restarts \in Nat
  BY DatabaseAssumption DEF At, Idle, TInv, TypeOK, Serving
<1>1. ASSUME NEW s \in Threads, NEW q, Accept(s, q) PROVE FALSE
  BY <1>0, <1>1 DEF Accept
<1>2. ASSUME NEW s \in Threads, Finish(s) PROVE s = t
  BY <1>0, <1>2 DEF Finish
<1>3. ASSUME NEW s \in Threads, NEW step, GoOn(s, step) PROVE s = t
  BY <1>0, <1>3 DEF GoOn
<1>4. ASSUME CredentialsNext PROVE FALSE
  <2>1. ASSUME NEW s \in Threads, NEW u \in Users,
               \/ Register(s, u) \/ ChangePassword(s, u) \/ ForgotPassword(s, u)
               \/ CreateUser(s, u) \/ ResetPassword(s, u) \/ SendCredentials(s, u)
        PROVE  FALSE
    BY <1>1, <2>1 DEF Register, ChangePassword, ForgotPassword, CreateUser, ResetPassword, SendCredentials
  <2>2. ASSUME NEW s \in Threads,
               \/ CommitRegister(s) \/ CommitChange(s) \/ MailForgotten(s) \/ CommitForgotten(s)
               \/ CommitCreate(s) \/ CommitReset(s) \/ AnswerWithPassword(s) \/ MailCredentials(s)
        PROVE  FALSE
    <3>1. s = t
      BY <1>2, <1>3, <2>2 DEF CommitRegister, CommitChange, MailForgotten, AfterMail, CommitForgotten, CommitCreate,
                              CommitReset, AnswerWithPassword, MailCredentials
    <3> QED BY <2>2, <3>1 DEF CommitRegister, CommitChange, MailForgotten, CommitForgotten, CommitCreate,
                              CommitReset, AnswerWithPassword, MailCredentials, At
  <2> QED BY <1>4, <2>1, <2>2 DEF CredentialsNext
<1>5. ASSUME FilesNext PROVE FALSE
  <2>1. ASSUME NEW s \in Threads, Store(s) \/ CommitUpload(s) \/ DeleteFile(s) \/ Unlink(s) \/ CommitDeleteFile(s)
        PROVE  FALSE
    BY <1>1, <1>2, <1>3, <2>1 DEF Store, CommitUpload, DeleteFile, Unlink, CommitDeleteFile, At
  <2> QED BY <1>1, <1>5, <2>1 DEF FilesNext, UploadFile
<1>6. ASSUME AccessNext PROVE CommitDelete(t)
  <2>1. ASSUME NEW s \in Threads, NEW p \in Plans, CreatePlan(s, p) \/ UpdatePlan(s, p) \/ DeletePlan(s, p) PROVE FALSE
    BY <1>1, <2>1 DEF CreatePlan, UpdatePlan, DeletePlan
  <2>2. ASSUME NEW s \in Threads, NEW u \in Users,
               \/ \E p \in Plans : AssignPlan(s, u, p)
               \/ \E table \in Tables : WriteRow(s, table, u) \/ DeleteRow(s, table, u)
               \/ SetAccess(s, u) \/ SetPriority(s, u) \/ DeleteUser(s, u) \/ UpdateThresholds(s, u)
        PROVE  FALSE
    BY <1>1, <2>2 DEF AssignPlan, WriteRow, DeleteRow, SetAccess, SetPriority, DeleteUser, UpdateThresholds
  <2>3. ASSUME NEW s \in Threads,
               \/ CommitCreatePlan(s) \/ CommitUpdatePlan(s) \/ CommitDeletePlan(s) \/ CommitAssignPlan(s)
               \/ CommitAccess(s) \/ CommitPriority(s) \/ CommitRow(s) \/ CommitDeleteRow(s) \/ CommitThresholds(s)
        PROVE  FALSE
    <3>1. s = t
      BY <1>2, <2>3 DEF CommitCreatePlan, CommitUpdatePlan, CommitDeletePlan, CommitAssignPlan, CommitAccess,
                        CommitPriority, CommitRow, CommitDeleteRow, CommitThresholds
    <3> QED BY <2>3, <3>1 DEF CommitCreatePlan, CommitUpdatePlan, CommitDeletePlan, CommitAssignPlan, CommitAccess,
                        CommitPriority, CommitRow, CommitDeleteRow, CommitThresholds, At
  <2>4. ASSUME NEW s \in Threads, FlushDeletePlan(s) \/ ClearRows(s) PROVE FALSE
    BY <1>0, <2>4 DEF FlushDeletePlan, ClearRows, At
  <2>5. ASSUME NEW s \in Threads, CommitDelete(s) PROVE s = t
    BY <1>2, <2>5 DEF CommitDelete
  <2> QED BY <1>6, <2>1, <2>2, <2>3, <2>4, <2>5 DEF AccessNext
<1>7. ~Crash
  BY <1>0 DEF Crash
<1> QED BY <1>4, <1>5, <1>6, <1>7 DEF Next

\* A deletion succeeds whatever rows of the user it finds, unless one is inserted
\* while it runs: its list of tables leaves out none with a key to users
\* (user_admin.py, delete_user).
THEOREM DeletionsSucceed == Spec => DeletionSucceeds
<1>1. ASSUME TInv, [Next]_vars
      PROVE  [\A t \in Threads : At(t, "delete_user", "commit") /\ thread'[t] = Idle
                /\ restarts' = restarts /\ RefersTo(thread[t].user) \subseteq thread[t].seen
              => ~Stored(users'[thread[t].user])]_<<accessVars, serverVars>>
  <2>1. ASSUME Next, NEW t \in Threads, At(t, "delete_user", "commit"), thread'[t] = Idle, restarts' = restarts,
               RefersTo(thread[t].user) \subseteq thread[t].seen
        PROVE  ~Stored(users'[thread[t].user])
    <3>1. CommitDelete(t)
      BY <1>1, <2>1, DeletionEnds
    <3>2. thread[t] \in UserDeletions
      BY <1>1, <2>1, RequestKinds DEF TInv, Serving, At
    <3>3. thread[t].user \in Users /\ thread[t].cleared = thread[t].seen
      BY <2>1, <3>2 DEF UserDeletions, At
    <3>4. users' = [users EXCEPT ![thread[t].user] = Deleted]
      BY <2>1, <3>1, <3>3 DEF CommitDelete
    <3> QED BY <1>1, <3>3, <3>4 DEF TInv, TypeOK, Stored
  <2>2. CASE Next
    BY <2>1, <2>2
  <2>3. CASE UNCHANGED vars
    BY <2>3 DEF vars, accessVars, serverVars
  <2> QED BY <1>1, <2>2, <2>3
<1> QED BY <1>1, TypesHold, PTL DEF Spec, DeletionSucceeds

\* A limit of a cluster moves only by an edit that names it, or by one that overlaps
\* another (monitoring.py, update_thresholds).
THEOREM LimitsMovedByName == Spec => LimitsMoveByName
<1>1. ASSUME TInv, [Next]_vars
      PROVE  [\A f \in Fields : thresholds'[f] # thresholds[f] =>
                \E t \in Threads : /\ At(t, "update_thresholds", "commit")
                                   /\ thread'[t] = Idle
                                   /\ (f \in thread[t].fields \/ thread[t].loaded # thresholds)]_<<accessVars, serverVars>>
  <2>1. ASSUME NEW f \in Fields, thresholds'[f] # thresholds[f]
        PROVE  \E t \in Threads : /\ At(t, "update_thresholds", "commit")
                                  /\ thread'[t] = Idle
                                  /\ (f \in thread[t].fields \/ thread[t].loaded # thresholds)
    <3>1. PICK t \in Threads : CommitThresholds(t)
      BY <1>1, <2>1 DEF Next, vars, accessVars, AccessNext, CreatePlan, UpdatePlan, DeletePlan, AssignPlan, WriteRow,
         DeleteRow, SetAccess, SetPriority, DeleteUser, UpdateThresholds, CommitCreatePlan, CommitUpdatePlan,
         FlushDeletePlan, CommitDeletePlan, CommitAssignPlan, CommitAccess, CommitPriority, CommitRow,
         CommitDeleteRow, ClearRows, CommitDelete
    <3>2. At(t, "update_thresholds", "commit") /\ thread' = [thread EXCEPT ![t] = Idle]
          /\ thresholds' = thread[t].assigned
      BY <2>1, <3>1 DEF CommitThresholds, Finish
    <3>3. thread[t] \in LimitEdits
      BY <1>1, <3>2, RequestKinds DEF TInv, Serving, At
    <3>4. thread'[t] = Idle
      BY <1>1, <3>2 DEF TInv, Serving
    <3>5. f \notin thread[t].fields => thread[t].assigned[f] = thread[t].loaded[f]
      BY <3>3 DEF LimitEdits
    <3> QED BY <2>1, <3>2, <3>4, <3>5
  <2> QED BY <2>1
<1> QED BY <1>1, TypesHold, PTL DEF Spec, LimitsMoveByName

-----------------------------------------------------------------------------
(* Files: an invariant of its own, for which no other type is needed *)

FileOps == {"upload_file", "delete_file"}
Upload == [op : {"upload_file"}, step : {"store", "commit"}, path : Paths, id : Nat]
Deletion == [op : {"delete_file"}, step : {"unlink", "commit"}, path : Paths, id : Nat]

\* A request that is not about files, whatever else it holds.
Other(q) == "op" \in DOMAIN q /\ q.op \notin FileOps

Typed ==
    /\ served \in Nat /\ restarts \in Nat
    /\ DOMAIN thread = Threads
    /\ \A t \in Threads : thread[t] \in Upload \cup Deletion \/ Other(thread[t])
    /\ files \subseteq [id : Nat, path : Paths]

Uploading(t) == thread[t].op = "upload_file"
Dropping(t) == At(t, "delete_file", "commit")

\* A record is known by its id.  An upload's will be new: no record, and no
\* deletion, has its id.
IdsAreFresh ==
    /\ \A f \in files : f.id <= served
    /\ \A f, g \in files : f.id = g.id => f.path = g.path
    /\ \A t \in Threads : thread[t].op \in FileOps => thread[t].id <= served
    /\ \A t \in Threads : Uploading(t) =>
          /\ \A f \in files : f.id # thread[t].id
          /\ \A s \in Threads \ {t} : thread[s].op \in FileOps => thread[s].id # thread[t].id

\* A deletion unlinks the file of the record it is going to drop.
UnlinksItsRecord == \A t \in Threads, f \in files :
    thread[t].op = "delete_file" /\ thread[t].id = f.id => thread[t].path = f.path

\* A file on disk has a record that no deletion is about to drop.
Recorded(path) == \E f \in files : /\ f.path = path
                                   /\ \A t \in Threads : Dropping(t) => thread[t].id # f.id
AboutToRecord(path) == \E t \in Threads : At(t, "upload_file", "commit") /\ thread[t].path = path

FilesRecorded == \A path \in disk : Recorded(path) \/ AboutToRecord(path) \/ restarts > 0

FInv == Typed /\ IdsAreFresh /\ UnlinksItsRecord /\ FilesRecorded

\* Nothing is on disk, and nobody asks for it, at first.
LEMMA InitFiles == Init => FInv
  BY DatabaseAssumption DEF Init, FInv, Typed, IdsAreFresh, FilesRecorded, UnlinksItsRecord, Other, FileOps, Idle, Uploading

\* A step of a thread whose request is, and stays, not about files.
LEMMA OtherStep ==
  ASSUME FInv, NEW t \in Threads, NEW q, Other(thread[t]), Other(q),
         thread' = [thread EXCEPT ![t] = q],
         served' \in {served, served + 1}, restarts' = restarts, UNCHANGED fileVars
  PROVE  FInv'
<1>1. \A s \in Threads : thread'[s].op \in FileOps => thread'[s] = thread[s] /\ thread[s].op \in FileOps
  BY DEF FInv, Typed, Other
<1>2. \A s \in Threads : thread[s].op \in FileOps => thread'[s] = thread[s]
  BY DEF FInv, Typed, Other
<1>3. Typed'
  BY DEF FInv, Typed, fileVars, Upload, Deletion, Other
<1>4. IdsAreFresh'
  <2>1. served' \in Nat /\ served <= served'
    BY DEF FInv, Typed
  <2>2. \A f \in files : f.id \in Nat
    BY DEF FInv, Typed
  <2>3. \A s \in Threads : thread[s].op \in FileOps => thread[s].id \in Nat
    BY DEF FInv, Typed, Upload, Deletion, Other
  <2> QED BY <1>1, <1>2, <2>1, <2>2, <2>3 DEF FInv, Typed, IdsAreFresh, fileVars, Uploading, FileOps
<1>5. FilesRecorded'
  BY <1>1, <1>2 DEF FInv, FilesRecorded, Recorded, AboutToRecord, Dropping, At, fileVars, FileOps
<1>6. UnlinksItsRecord'
  BY <1>1, <1>2 DEF FInv, UnlinksItsRecord, fileVars, FileOps
<1> QED BY <1>3, <1>4, <1>5, <1>6 DEF FInv

-----------------------------------------------------------------------------
(* The steps of TenantFiles and a crash *)

\* A new request on files, with the next id.
LEMMA FileAccepted ==
  ASSUME FInv, NEW t \in Threads, thread[t] = Idle, NEW q \in Upload \cup Deletion,
         q.step # "commit", thread' = [thread EXCEPT ![t] = q], served' = served + 1,
         q.op = "upload_file" => q.id = served + 1,
         q.op = "delete_file" => \E f \in files : q.id = f.id /\ q.path = f.path,
         UNCHANGED <<restarts, files, disk>>
  PROVE  FInv'
<1>1. thread[t].op \notin FileOps
  BY DEF Idle, FileOps
<1>2. Typed'
  BY DEF FInv, Typed
<1>3. q.id \in Nat /\ served \in Nat /\ q.id <= served + 1
  BY DEF FInv, Typed, IdsAreFresh, Upload, Deletion
<1>4. IdsAreFresh'
  <2>1. \A f \in files : f.id \in Nat
    BY DEF FInv, Typed
  <2>2. \A s \in Threads : thread[s].op \in FileOps => thread[s].id \in Nat
    BY DEF FInv, Typed, Upload, Deletion, Other
  <2> QED BY <1>1, <1>3, <2>1, <2>2 DEF FInv, Typed, IdsAreFresh, Uploading, FileOps, Upload, Deletion
<1>5. FilesRecorded'
  BY <1>1 DEF FInv, Typed, FilesRecorded, Recorded, AboutToRecord, Dropping, At, FileOps
<1>6. UnlinksItsRecord'
  BY <1>1 DEF FInv, Typed, UnlinksItsRecord, IdsAreFresh, FileOps, Upload, Deletion
<1> QED BY <1>2, <1>4, <1>5, <1>6 DEF FInv

\* Every step of TenantFiles preserves the invariant.
LEMMA FilesStep == ASSUME FInv, FilesNext PROVE FInv'
<1> USE DEF FInv
<1>1. ASSUME NEW t \in Threads, NEW type \in FileTypes, NEW name \in HostNames, UploadFile(t, type, name)
      PROVE FInv'
  <2> DEFINE q == [op |-> "upload_file", step |-> "store", path |-> Destination(type, name), id |-> served + 1]
  <2>1. q \in Upload /\ q.step # "commit" /\ q.op = "upload_file" /\ q.id = served + 1
    BY DEF Upload, Paths, Typed
  <2>2. thread[t] = Idle /\ served' = served + 1 /\ thread' = [thread EXCEPT ![t] = q]
    BY <1>1 DEF UploadFile, Accept
  <2>3. UNCHANGED <<restarts, files, disk>>
    BY <1>1 DEF UploadFile, Accept, fileVars
  <2> HIDE DEF q
  <2> QED BY <2>1, <2>2, <2>3, FileAccepted
<1>2. ASSUME NEW t \in Threads, Store(t) PROVE FInv'
  <2>1. thread[t] \in Upload
    BY <1>2 DEF Store, At, Typed, Deletion, Other, FileOps
  <2>2. thread' = [thread EXCEPT ![t] = [thread[t] EXCEPT !.step = "commit"]]
    BY <1>2 DEF Store, GoOn
  <2>3. UNCHANGED <<served, restarts, files>> /\ disk' = disk \cup {thread[t].path}
    BY <1>2 DEF Store, GoOn
  <2>4. thread'[t] \in Upload /\ thread'[t].step = "commit" /\ thread'[t].op = "upload_file"
        /\ thread'[t].id = thread[t].id /\ thread'[t].path = thread[t].path
    BY <2>1, <2>2 DEF Typed, Upload
  <2>5. \A s \in Threads \ {t} : thread'[s] = thread[s]
    BY <2>2 DEF Typed
  <2>6. thread[t].op = "upload_file" /\ thread[t].step = "store"
    BY <1>2 DEF Store, At
  <2>7. Typed'
    BY <2>2, <2>3, <2>4, <2>5 DEF Typed, Other
  <2>8. IdsAreFresh'
    BY <2>3, <2>4, <2>5, <2>6 DEF IdsAreFresh, Uploading, FileOps
  <2>9. FilesRecorded'
    BY <2>3, <2>4, <2>5, <2>6 DEF FilesRecorded, Recorded, AboutToRecord, Dropping, At
  <2>10. UnlinksItsRecord'
    BY <2>3, <2>4, <2>5 DEF UnlinksItsRecord
  <2> QED BY <2>7, <2>8, <2>9, <2>10
<1>3. ASSUME NEW t \in Threads, CommitUpload(t) PROVE FInv'
  <2> DEFINE f == [id |-> thread[t].id, path |-> thread[t].path]
  <2>1. thread[t] \in Upload /\ thread[t].op = "upload_file" /\ thread[t].step = "commit"
    BY <1>3 DEF CommitUpload, At, Typed, Deletion, Other, FileOps
  <2>2. thread' = [thread EXCEPT ![t] = Idle] /\ files' = files \cup {f}
        /\ UNCHANGED <<served, restarts, disk>>
    BY <1>3 DEF CommitUpload, Finish
  <2>3. thread'[t] = Idle /\ \A s \in Threads \ {t} : thread'[s] = thread[s]
    BY <2>2 DEF Typed
  <2>4. f \in [id : Nat, path : Paths] /\ f.id = thread[t].id /\ f.path = thread[t].path
    BY <2>1 DEF Upload
  <2> HIDE DEF f
  <2>5. Typed'
    BY <2>2, <2>3, <2>4 DEF Typed, Other, Idle, FileOps
  <2>6. IdsAreFresh'
    <3>1. \A g \in files' : g.id <= served'
      BY <2>1, <2>2, <2>4 DEF IdsAreFresh, FileOps
    <3>2. \A s \in Threads : thread'[s].op \in FileOps => s # t
      BY <2>3 DEF Idle, FileOps
    <3> QED BY <2>1, <2>2, <2>3, <2>4, <3>1, <3>2 DEF IdsAreFresh, Uploading, FileOps
  <2>7. \A s \in Threads \ {t} : thread[s].op \in FileOps => thread[s].id # f.id
    BY <2>1, <2>4 DEF IdsAreFresh, Uploading
  <2>8. ASSUME NEW path \in disk PROVE (Recorded(path) \/ AboutToRecord(path) \/ restarts > 0)'
    <3>1. CASE path = f.path
      <4>1. \A s \in Threads : Dropping(s)' => thread'[s].id # f.id
        BY <2>3, <2>7 DEF Dropping, At, FileOps, Idle
      <4> QED BY <2>2, <4>1, <3>1 DEF Recorded
    <3>2. CASE Recorded(path)
      BY <3>2, <2>2, <2>3 DEF Recorded, Dropping, At, Idle
    <3>3. CASE AboutToRecord(path) /\ path # f.path
      BY <3>3, <2>3, <2>4 DEF AboutToRecord, At
    <3>4. CASE restarts > 0
      BY <3>4, <2>2
    <3> QED BY <3>1, <3>2, <3>3, <3>4 DEF FilesRecorded
  <2>9. FilesRecorded'
    BY <2>2, <2>8 DEF FilesRecorded
  <2>10. UnlinksItsRecord'
    BY <2>1, <2>2, <2>3, <2>4, <2>7 DEF UnlinksItsRecord, Idle, FileOps
  <2> QED BY <2>5, <2>6, <2>9, <2>10
<1>4. ASSUME NEW t \in Threads, DeleteFile(t) PROVE FInv'
  BY <1>4, FileAccepted DEF DeleteFile, Accept, Deletion, Typed, fileVars
<1>5. ASSUME NEW t \in Threads, Unlink(t) PROVE FInv'
  <2>1. thread[t] \in Deletion /\ thread[t].op = "delete_file" /\ thread[t].step = "unlink"
    BY <1>5 DEF Unlink, At, Typed, Upload, Other, FileOps
  <2>2. thread' = [thread EXCEPT ![t] = [thread[t] EXCEPT !.step = "commit"]]
        /\ disk' = disk \ {thread[t].path} /\ UNCHANGED <<served, restarts, files>>
    BY <1>5 DEF Unlink, GoOn
  <2>3. thread'[t] \in Deletion /\ thread'[t].step = "commit" /\ thread'[t].op = "delete_file"
        /\ thread'[t].id = thread[t].id /\ thread'[t].path = thread[t].path
    BY <2>1, <2>2 DEF Typed, Deletion
  <2>4. \A s \in Threads \ {t} : thread'[s] = thread[s]
    BY <2>2 DEF Typed
  <2>5. Typed'
    BY <2>2, <2>3, <2>4 DEF Typed, Other
  <2>6. IdsAreFresh'
    BY <2>1, <2>2, <2>3, <2>4 DEF IdsAreFresh, Uploading, FileOps
  <2>7. UnlinksItsRecord'
    BY <2>1, <2>2, <2>3, <2>4 DEF UnlinksItsRecord
  <2>8. FilesRecorded'
    BY <2>1, <2>2, <2>3, <2>4 DEF FilesRecorded, Recorded, AboutToRecord, Dropping, At, UnlinksItsRecord
  <2> QED BY <2>5, <2>6, <2>7, <2>8
<1>6. ASSUME NEW t \in Threads, CommitDeleteFile(t) PROVE FInv'
  BY <1>6 DEF CommitDeleteFile, RecordsDropped, Finish, At, Typed, IdsAreFresh, UnlinksItsRecord,
              FilesRecorded, Recorded, AboutToRecord, Dropping, Uploading, Upload, Deletion, Other, FileOps, Idle
<1> QED BY <1>1, <1>2, <1>3, <1>4, <1>5, <1>6 DEF FilesNext

\* A crash ends the requests, and excuses the files they have left.
LEMMA CrashStep == ASSUME FInv, Crash, UNCHANGED fileVars PROVE FInv'
  BY DEF FInv, Crash, Typed, IdsAreFresh, UnlinksItsRecord, FilesRecorded, Idle, Other, FileOps, Uploading, fileVars

-----------------------------------------------------------------------------
(* The other handlers: none touches a file or a request about files *)

\* Accepting a request that is not about files preserves the invariant.
LEMMA AcceptsOther ==
  ASSUME FInv, NEW t \in Threads, NEW q, Other(q), Accept(t, q), UNCHANGED fileVars
  PROVE  FInv'
<1>1. Other(thread[t])
  BY DEF Accept, Idle, Other, FileOps
<1> QED BY <1>1, OtherStep DEF Accept

\* A thread whose request has another name is not about files.
LEMMA OtherThread ==
  ASSUME FInv, NEW t \in Threads, thread[t].op \notin FileOps
  PROVE  Other(thread[t])
  BY DEF FInv, Typed, Upload, Deletion, Other, FileOps

\* Such a thread goes on to its next step.
LEMMA OtherGoesOn ==
  ASSUME FInv, NEW t \in Threads, thread[t].op \notin FileOps, NEW step, GoOn(t, step), UNCHANGED fileVars
  PROVE  FInv'
<1> DEFINE q == [thread[t] EXCEPT !.step = step]
<1>1. Other(thread[t])
  BY OtherThread
<1>2. Other(q)
  BY <1>1 DEF Other
<1>3. thread' = [thread EXCEPT ![t] = q] /\ UNCHANGED <<served, restarts>>
  BY DEF GoOn
<1> HIDE DEF q
<1> QED BY <1>1, <1>2, <1>3, OtherStep

\* Such a thread ends its request.
LEMMA OtherFinishes ==
  ASSUME FInv, NEW t \in Threads, thread[t].op \notin FileOps, Finish(t), UNCHANGED fileVars
  PROVE  FInv'
<1>1. Other(thread[t]) /\ Other(Idle)
  BY OtherThread DEF Other, Idle, FileOps
<1> QED BY <1>1, OtherStep DEF Finish

\* Every step of Credentials preserves the invariant.
LEMMA CredentialsStep == ASSUME FInv, CredentialsNext, UNCHANGED fileVars PROVE FInv'
<1>1. ASSUME NEW t \in Threads, NEW u \in Users, Register(t, u) PROVE FInv'
  BY <1>1, AcceptsOther DEF Register, UserEdit, Other, FileOps
<1>2. ASSUME NEW t \in Threads, NEW u \in Users, ChangePassword(t, u) PROVE FInv'
  BY <1>2, AcceptsOther DEF ChangePassword, UserEdit, Other, FileOps
<1>3. ASSUME NEW t \in Threads, NEW u \in Users, ForgotPassword(t, u) PROVE FInv'
  BY <1>3, AcceptsOther DEF ForgotPassword, UserEdit, Other, FileOps
<1>4. ASSUME NEW t \in Threads, NEW u \in Users, CreateUser(t, u) PROVE FInv'
  BY <1>4, AcceptsOther DEF CreateUser, UserEdit, Other, FileOps
<1>5. ASSUME NEW t \in Threads, NEW u \in Users, ResetPassword(t, u) PROVE FInv'
  BY <1>5, AcceptsOther DEF ResetPassword, UserEdit, Other, FileOps
<1>6. ASSUME NEW t \in Threads, NEW u \in Users, SendCredentials(t, u) PROVE FInv'
  BY <1>6, AcceptsOther DEF SendCredentials, Other, FileOps
<1>7. ASSUME NEW t \in Threads, CommitRegister(t) PROVE FInv'
  BY <1>7, OtherFinishes DEF CommitRegister, At, FileOps
<1>8. ASSUME NEW t \in Threads, CommitChange(t) PROVE FInv'
  BY <1>8, OtherFinishes DEF CommitChange, At, FileOps
<1>9. ASSUME NEW t \in Threads, CommitForgotten(t) PROVE FInv'
  BY <1>9, OtherFinishes DEF CommitForgotten, At, FileOps
<1>10. ASSUME NEW t \in Threads, AnswerWithPassword(t) PROVE FInv'
  BY <1>10, OtherFinishes DEF AnswerWithPassword, At, FileOps
<1>11. ASSUME NEW t \in Threads, MailCredentials(t) PROVE FInv'
  BY <1>11, OtherFinishes DEF MailCredentials, At, FileOps
<1>12. ASSUME NEW t \in Threads, MailForgotten(t) PROVE FInv'
  BY <1>12, OtherFinishes, OtherGoesOn DEF MailForgotten, AfterMail, At, FileOps
<1>13. ASSUME NEW t \in Threads, CommitCreate(t) PROVE FInv'
  BY <1>13, OtherFinishes, OtherGoesOn DEF CommitCreate, At, FileOps
<1>14. ASSUME NEW t \in Threads, CommitReset(t) PROVE FInv'
  BY <1>14, OtherFinishes, OtherGoesOn DEF CommitReset, At, FileOps
<1> QED BY <1>1, <1>2, <1>3, <1>4, <1>5, <1>6, <1>7, <1>8, <1>9, <1>10, <1>11, <1>12, <1>13, <1>14
        DEF CredentialsNext

\* Every step of Access preserves the invariant.
LEMMA AccessStep == ASSUME FInv, AccessNext, UNCHANGED fileVars PROVE FInv'
<1>1. ASSUME NEW t \in Threads, NEW p \in Plans, CreatePlan(t, p) PROVE FInv'
  BY <1>1, AcceptsOther DEF CreatePlan, PlanEdit, Other, FileOps
<1>2. ASSUME NEW t \in Threads, NEW p \in Plans, UpdatePlan(t, p) PROVE FInv'
  BY <1>2, AcceptsOther DEF UpdatePlan, PlanEdit, Other, FileOps
<1>3. ASSUME NEW t \in Threads, NEW p \in Plans, DeletePlan(t, p) PROVE FInv'
  BY <1>3, AcceptsOther DEF DeletePlan, Other, FileOps
<1>4. ASSUME NEW t \in Threads, NEW u \in Users, NEW p \in Plans, AssignPlan(t, u, p) PROVE FInv'
  BY <1>4, AcceptsOther DEF AssignPlan, UserEdit, Other, FileOps
<1>5. ASSUME NEW t \in Threads, NEW u \in Users, NEW table \in Tables, WriteRow(t, table, u) PROVE FInv'
  BY <1>5, AcceptsOther DEF WriteRow, RowEdit, Other, FileOps
<1>6. ASSUME NEW t \in Threads, NEW u \in Users, NEW table \in Tables, DeleteRow(t, table, u) PROVE FInv'
  BY <1>6, AcceptsOther DEF DeleteRow, RowEdit, Other, FileOps
<1>7. ASSUME NEW t \in Threads, NEW u \in Users, SetAccess(t, u) PROVE FInv'
  BY <1>7, AcceptsOther DEF SetAccess, UserEdit, Other, FileOps
<1>8. ASSUME NEW t \in Threads, NEW u \in Users, SetPriority(t, u) PROVE FInv'
  BY <1>8, AcceptsOther DEF SetPriority, UserEdit, Other, FileOps
<1>9. ASSUME NEW t \in Threads, NEW u \in Users, DeleteUser(t, u) PROVE FInv'
  BY <1>9, AcceptsOther DEF DeleteUser, Other, FileOps
<1>10. ASSUME NEW t \in Threads, NEW u \in Users, UpdateThresholds(t, u) PROVE FInv'
  BY <1>10, AcceptsOther DEF UpdateThresholds, Other, FileOps
<1>11. ASSUME NEW t \in Threads, CommitCreatePlan(t) PROVE FInv'
  BY <1>11, OtherFinishes DEF CommitCreatePlan, At, FileOps
<1>12. ASSUME NEW t \in Threads, CommitUpdatePlan(t) PROVE FInv'
  BY <1>12, OtherFinishes DEF CommitUpdatePlan, At, FileOps
<1>13. ASSUME NEW t \in Threads, CommitDeletePlan(t) PROVE FInv'
  BY <1>13, OtherFinishes DEF CommitDeletePlan, At, FileOps
<1>14. ASSUME NEW t \in Threads, CommitAssignPlan(t) PROVE FInv'
  BY <1>14, OtherFinishes DEF CommitAssignPlan, At, FileOps
<1>15. ASSUME NEW t \in Threads, CommitAccess(t) PROVE FInv'
  BY <1>15, OtherFinishes DEF CommitAccess, At, FileOps
<1>16. ASSUME NEW t \in Threads, CommitPriority(t) PROVE FInv'
  BY <1>16, OtherFinishes DEF CommitPriority, At, FileOps
<1>17. ASSUME NEW t \in Threads, CommitRow(t) PROVE FInv'
  BY <1>17, OtherFinishes DEF CommitRow, At, FileOps
<1>18. ASSUME NEW t \in Threads, CommitDeleteRow(t) PROVE FInv'
  BY <1>18, OtherFinishes DEF CommitDeleteRow, At, FileOps
<1>19. ASSUME NEW t \in Threads, CommitDelete(t) PROVE FInv'
  BY <1>19, OtherFinishes DEF CommitDelete, At, FileOps
<1>20. ASSUME NEW t \in Threads, CommitThresholds(t) PROVE FInv'
  BY <1>20, OtherFinishes DEF CommitThresholds, At, FileOps
<1>21. ASSUME NEW t \in Threads, FlushDeletePlan(t) PROVE FInv'
  <2> DEFINE q == [thread[t] EXCEPT !.step = "commit", !.members = On(thread[t].plan)]
  <2>1. Other(thread[t]) /\ Other(q)
    BY <1>21, OtherThread DEF FlushDeletePlan, At, Other, FileOps
  <2>2. thread' = [thread EXCEPT ![t] = q] /\ UNCHANGED <<served, restarts>>
    BY <1>21 DEF FlushDeletePlan
  <2> HIDE DEF q
  <2> QED BY <2>1, <2>2, OtherStep
<1>22. ASSUME NEW t \in Threads, ClearRows(t) PROVE FInv'
  <2> DEFINE own == RefersTo(thread[t].user)
             q == [thread[t] EXCEPT !.step = "commit", !.seen = own,
                                    !.cleared = {r \in own : r[1] \in Cleared}]
  <2>1. Other(thread[t]) /\ Other(q)
    BY <1>22, OtherThread DEF ClearRows, At, Other, FileOps
  <2>2. thread' = [thread EXCEPT ![t] = q] /\ UNCHANGED <<served, restarts>>
    BY <1>22 DEF ClearRows
  <2> HIDE DEF q
  <2> QED BY <2>1, <2>2, OtherStep
<1> QED BY <1>1, <1>2, <1>3, <1>4, <1>5, <1>6, <1>7, <1>8, <1>9, <1>10, <1>11,
           <1>12, <1>13, <1>14, <1>15, <1>16, <1>17, <1>18, <1>19, <1>20, <1>21, <1>22
        DEF AccessNext

\* A stuttering step preserves the invariant.
LEMMA IdleStep == ASSUME FInv, UNCHANGED vars PROVE FInv'
  BY DEF FInv, vars, Typed, IdsAreFresh, UnlinksItsRecord, FilesRecorded, Recorded, AboutToRecord, Dropping,
         Uploading, At

\* Whatever uploads and deletions of one path overlap, and whatever other requests
\* run: a file the checks read has a record by which an administrator can delete
\* it, unless the server died in the middle (routes/tenant_admin.py).
THEOREM FilesStayVisible == Spec => []NoHiddenFile
<1>1. Init => FInv
  BY InitFiles
<1>2. FInv /\ [Next]_vars => FInv'
  BY FilesStep, CrashStep, CredentialsStep, AccessStep, IdleStep DEF Next
<1>3. FInv => NoHiddenFile
  BY DEF FInv, FilesRecorded, Recorded, AboutToRecord, NoHiddenFile
<1> QED BY <1>1, <1>2, <1>3, PTL DEF Spec
=============================================================================
