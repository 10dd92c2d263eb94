--------------------------- MODULE Sessions_proofs ---------------------------
(***************************************************************************)
(* Proofs about Sessions, for any set of tabs and calls, any number of     *)
(* pairs and faults: whatever requests are being served together, a        *)
(* sign-in has at most one refresh token that works, and none once it has  *)
(* ended.                                                                  *)
(***************************************************************************)
EXTENDS Sessions, TLAPS

\* A pair descends from a sign-in no younger than itself, so the next pair can begin
\* a sign-in of its own.
Descent == \A n \in 1..issued : login[n] \in 1..n

\* Nobody holds a token that was not issued, and a look-up that passed was about one.
KnownTokens ==
    /\ store \in 0..issued
    /\ \A p \in posts : p.token \in 0..issued /\ (p.at = "checked" => p.token # None)
    /\ \A t \in Tabs : refreshing[t].pair \in 0..issued

SInv ==
    /\ issued \in Tokens
    /\ login \in [Pairs -> Tokens]
    /\ revoked \subseteq 1..issued
    /\ posts \subseteq Post
    /\ refreshing \in [Tabs -> Awaited]
    /\ Descent
    /\ KnownTokens
    /\ OneLiveTokenPerLogin

USE SessionsAssumption DEF None, Tokens, Pairs

-----------------------------------------------------------------------------
(* What the server's tables go through *)

\* A successor replaces the token it was made from, provided that token was live.
LEMMA Rotation ==
    ASSUME SInv, NEW k \in 1..issued, k \notin revoked,
           Mint(login[k]), revoked' = revoked \union {k}
    PROVE  /\ issued' \in Tokens /\ login' \in [Pairs -> Tokens]
           /\ revoked' \subseteq 1..issued'
           /\ Descent' /\ OneLiveTokenPerLogin'
           /\ \A l \in 1..issued : Live(l) = {} => Live(l)' = {}
  <1> USE DEF SInv
  <1>1. /\ issued \in Nat /\ issued' = issued + 1 /\ issued + 1 \in Pairs
        /\ login[k] \in 1..k
    BY DEF Mint, Descent
  <1>2. login'[issued + 1] = login[k] /\ \A n \in 1..issued : login'[n] = login[n]
    BY <1>1 DEF Mint
  <1>3. issued' \in Tokens /\ login' \in [Pairs -> Tokens] /\ revoked' \subseteq 1..issued'
    BY <1>1 DEF Mint
  <1>4. Descent'
    <2> SUFFICES ASSUME NEW n \in 1..(issued + 1)
                 PROVE  login'[n] \in 1..n
      BY <1>1 DEF Descent
    <2>1. CASE n \in 1..issued
      <3>1. login'[n] = login[n] /\ login[n] \in 1..n
        BY <2>1, <1>2 DEF Descent
      <3>2. QED
        BY <3>1
    <2>2. CASE n = issued + 1
      <3>1. login'[n] = login[k]
        BY <2>2, <1>2
      <3>2. QED
        BY <3>1, <2>2, <1>1
    <2>3. QED
      BY <2>1, <2>2, <1>1
  <1>5. OneLiveTokenPerLogin'
    <2> SUFFICES ASSUME NEW m \in 1..(issued + 1), NEW n \in 1..(issued + 1),
                        login'[m] = login'[n], m \notin revoked', n \notin revoked'
                 PROVE  m = n
      BY <1>1 DEF OneLiveTokenPerLogin
    <2>1. CASE m \in 1..issued /\ n \in 1..issued
      BY <2>1, <1>2 DEF OneLiveTokenPerLogin
    \* A live pair of the same sign-in beside the new one would be the revoked k.
    <2>2. CASE m = issued + 1 /\ n \in 1..issued
      <3>1. login[n] = login[k] /\ n # k /\ n \notin revoked
        BY <2>2, <1>2
      <3>2. QED
        BY <3>1, <2>2 DEF OneLiveTokenPerLogin
    <2>3. CASE n = issued + 1 /\ m \in 1..issued
      <3>1. login[m] = login[k] /\ m # k /\ m \notin revoked
        BY <2>3, <1>2
      <3>2. QED
        BY <3>1, <2>3 DEF OneLiveTokenPerLogin
    <2>4. QED
      BY <2>1, <2>2, <2>3, <1>1
  <1>6. ASSUME NEW l \in 1..issued, Live(l) = {}
        PROVE  Live(l)' = {}
    <2>1. l # login[k]
      BY <1>6 DEF Live
    <2>2. ASSUME NEW n \in 1..(issued + 1), login'[n] = l
         PROVE  n \in 1..issued /\ n \in revoked
      <3>1. n # issued + 1
        BY <2>2, <2>1, <1>2
      <3>2. n \in 1..issued
        BY <3>1, <1>1
      <3>3. login[n] = l
        BY <3>2, <1>2, <2>2
      <3>4. QED
        BY <3>2, <3>3, <1>6 DEF Live
    <2>3. QED
      BY <2>2, <1>1 DEF Live
  <1>7. QED
    BY <1>3, <1>4, <1>5, <1>6

\* A sign-in begins with a pair of its own.
LEMMA SignIn ==
    ASSUME SInv, Mint(issued + 1), revoked' = revoked
    PROVE  /\ issued' \in Tokens /\ login' \in [Pairs -> Tokens]
           /\ revoked' \subseteq 1..issued'
           /\ Descent' /\ OneLiveTokenPerLogin'
           /\ \A l \in 1..issued : Live(l) = {} => Live(l)' = {}
  <1> USE DEF SInv
  <1>1. issued \in Nat /\ issued' = issued + 1 /\ issued + 1 \in Pairs
    BY DEF Mint
  <1>2. login'[issued + 1] = issued + 1 /\ \A n \in 1..issued : login'[n] = login[n]
    BY <1>1 DEF Mint
  <1>3. issued' \in Tokens /\ login' \in [Pairs -> Tokens] /\ revoked' \subseteq 1..issued'
    BY <1>1 DEF Mint
  <1>4. Descent'
    <2> SUFFICES ASSUME NEW n \in 1..(issued + 1)
                 PROVE  login'[n] \in 1..n
      BY <1>1 DEF Descent
    <2>1. CASE n \in 1..issued
      <3>1. login'[n] = login[n] /\ login[n] \in 1..n
        BY <2>1, <1>2 DEF Descent
      <3>2. QED
        BY <3>1
    <2>2. CASE n = issued + 1
      <3>1. login'[n] = issued + 1
        BY <2>2, <1>2
      <3>2. QED
        BY <3>1, <2>2, <1>1
    <2>3. QED
      BY <2>1, <2>2, <1>1
  <1>5. \A n \in 1..issued : login'[n] # issued + 1
    BY <1>1, <1>2 DEF Descent
  <1>6. OneLiveTokenPerLogin'
    <2> SUFFICES ASSUME NEW m \in 1..(issued + 1), NEW n \in 1..(issued + 1),
                        login'[m] = login'[n], m \notin revoked', n \notin revoked'
                 PROVE  m = n
      BY <1>1 DEF OneLiveTokenPerLogin
    <2>1. CASE m \in 1..issued /\ n \in 1..issued
      BY <2>1, <1>2 DEF OneLiveTokenPerLogin
    <2>2. CASE m = issued + 1 \/ n = issued + 1
      BY <2>2, <1>1, <1>2, <1>5
    <2>3. QED
      BY <2>1, <2>2, <1>1
  <1>7. ASSUME NEW l \in 1..issued, Live(l) = {}
        PROVE  Live(l)' = {}
    <2>1. ASSUME NEW n \in 1..(issued + 1), login'[n] = l
         PROVE  n \in 1..issued /\ n \in revoked
      <3>1. n # issued + 1
        <4>1. login'[issued + 1] # l
          BY <1>1, <1>2
        <4>2. QED
          BY <4>1, <2>1
      <3>2. n \in 1..issued
        BY <3>1, <1>1
      <3>3. login[n] = l
        BY <3>2, <1>2, <2>1
      <3>4. QED
        BY <3>2, <3>3, <1>7 DEF Live
    <2>2. QED
      BY <2>1, <1>1 DEF Live
  <1>8. QED
    BY <1>3, <1>4, <1>6, <1>7

\* A logout, and whatever leaves the tables alone, only takes tokens away.
LEMMA Withdrawal ==
    ASSUME SInv, UNCHANGED <<issued, login>>,
           revoked \subseteq revoked', revoked' \subseteq 1..issued
    PROVE  /\ issued' \in Tokens /\ login' \in [Pairs -> Tokens]
           /\ revoked' \subseteq 1..issued'
           /\ Descent' /\ OneLiveTokenPerLogin'
           /\ \A l \in 1..issued : Live(l) = {} => Live(l)' = {}
  BY DEF SInv, Descent, OneLiveTokenPerLogin, Live

-----------------------------------------------------------------------------
(* The steps *)

\* What an answer, and a look-up that passed, do to the requests and the promises.
LEMMA Answers ==
    ASSUME SInv, NEW p \in posts, NEW outcome \in {"done", "failed"}, NEW n \in Tokens,
           issued' \in Nat, n \in 0..issued', issued <= issued',
           AnswerWith(p, outcome, n)
    PROVE  /\ posts' \subseteq Post /\ refreshing' \in [Tabs -> Awaited]
           /\ KnownTokens'
  <1> USE DEF SInv
  <1>1. posts' \subseteq posts /\ store' = store
    BY DEF AnswerWith
  <1>2. refreshing' \in [Tabs -> Awaited]
    BY DEF AnswerWith, Awaited
  <1>3. \A t \in Tabs : refreshing'[t].pair \in {refreshing[t].pair, n}
    BY DEF AnswerWith, Awaited
  <1>4. QED
    BY <1>1, <1>2, <1>3 DEF KnownTokens

LEMMA LookUps ==
    ASSUME SInv, NEW p \in posts, RefreshDecodes(p.token), Proceed(p)
    PROVE  SInv' /\ \A l \in 1..issued : Live(l) = {} => Live(l)' = {}
  <1> USE DEF SInv
  <1>1. /\ posts' \subseteq Post
        /\ \A q \in posts' : q \in posts \/ (q.token = p.token /\ p.token # None)
    BY DEF Proceed, Post, RefreshDecodes
  <1>2. UNCHANGED <<issued, login, revoked, store, refreshing>>
    BY DEF Proceed, serverVars, tabVars
  <1>3. KnownTokens'
    BY <1>1, <1>2 DEF KnownTokens
  <1>4. QED
    BY <1>1, <1>2, <1>3, Withdrawal

\* What the tabs do leaves the server's tables alone.
LEMMA TabSteps ==
    ASSUME SInv, UNCHANGED serverVars, posts' \subseteq Post,
           refreshing' \in [Tabs -> Awaited], KnownTokens'
    PROVE  SInv' /\ \A l \in 1..issued : Live(l) = {} => Live(l)' = {}
  BY Withdrawal DEF SInv, serverVars

LEMMA ServeStep ==
    ASSUME SInv, NEW p \in posts, Serve(p)
    PROVE  SInv' /\ \A l \in 1..issued : Live(l) = {} => Live(l)' = {}
  <1> USE DEF SInv
  <1>1. /\ p \in Post /\ p.token \in 0..issued
        /\ p.at = "checked" => p.token \in 1..issued
        /\ issued \in Nat
    BY DEF KnownTokens
  \* A failure, or a logout with nothing to revoke, changes no table.
  <1>2. ASSUME NEW o \in {"done", "failed"}, AnswerWith(p, o, None), UNCHANGED serverVars
        PROVE  SInv' /\ \A l \in 1..issued : Live(l) = {} => Live(l)' = {}
    <2>1. /\ posts' \subseteq Post /\ refreshing' \in [Tabs -> Awaited]
          /\ KnownTokens'
      BY <1>1, <1>2, Answers DEF serverVars
    <2>2. QED
      BY <2>1, <1>2, TabSteps
  <1>3. CASE RefreshLookUp(p)
    BY <1>2, <1>3, LookUps DEF RefreshLookUp
  <1>4. CASE RefreshCommit(p)
    <2>1. p.token \in 1..issued
      BY <1>1, <1>4 DEF RefreshCommit
    <2>2. CASE UniqueJti(p.token)
      <3>1. /\ p.token \notin revoked
            /\ Mint(login[p.token])
            /\ revoked' = revoked \union {p.token}
            /\ AnswerWith(p, "done", issued + 1)
        BY <1>4, <2>2 DEF RefreshCommit, UniqueJti
      <3>2. /\ issued' \in Tokens /\ login' \in [Pairs -> Tokens]
            /\ revoked' \subseteq 1..issued'
            /\ Descent' /\ OneLiveTokenPerLogin'
            /\ \A l \in 1..issued : Live(l) = {} => Live(l)' = {}
        BY <2>1, <3>1, Rotation
      <3>3. issued' = issued + 1
        BY <3>1 DEF Mint
      <3>4. /\ posts' \subseteq Post /\ refreshing' \in [Tabs -> Awaited]
            /\ KnownTokens'
        <4>1. issued' \in Nat /\ issued + 1 \in 0..issued' /\ issued <= issued'
          BY <3>3, <1>1
        <4>2. issued + 1 \in Tokens
          BY <3>2, <3>3
        <4>3. QED
          BY <3>1, <4>1, <4>2, Answers
      <3>5. QED
        BY <3>2, <3>4
    <2>3. CASE ~UniqueJti(p.token)
      BY <1>2, <1>4, <2>3 DEF RefreshCommit
    <2>4. QED
      BY <2>2, <2>3
  <1>5. CASE LogoutLookUp(p)
    BY <1>2, <1>5, LookUps DEF LogoutLookUp
  <1>6. CASE LogoutCommit(p)
    <2>1. CASE UniqueJti(p.token)
      <3>1. /\ p.token \in 1..issued
            /\ UNCHANGED <<issued, login>>
            /\ revoked' = revoked \union {p.token}
            /\ AnswerWith(p, "done", None)
        BY <1>1, <1>6, <2>1 DEF LogoutCommit
      <3>2. /\ issued' \in Tokens /\ login' \in [Pairs -> Tokens]
            /\ revoked' \subseteq 1..issued'
            /\ Descent' /\ OneLiveTokenPerLogin'
            /\ \A l \in 1..issued : Live(l) = {} => Live(l)' = {}
        BY <3>1, Withdrawal
      <3>3. /\ posts' \subseteq Post /\ refreshing' \in [Tabs -> Awaited]
            /\ KnownTokens'
        BY <3>1, <1>1, Answers
      <3>4. QED
        BY <3>2, <3>3
    <2>2. CASE ~UniqueJti(p.token)
      BY <1>2, <1>6, <2>2 DEF LogoutCommit
    <2>3. QED
      BY <2>1, <2>2
  <1>7. CASE Lose(p)
    BY <1>2, <1>7 DEF Lose
  <1>8. QED
    BY <1>3, <1>4, <1>5, <1>6, <1>7 DEF Serve

LEMMA LoginStep ==
    ASSUME SInv, NEW t \in Tabs, Login(t)
    PROVE  SInv' /\ \A l \in 1..issued : Live(l) = {} => Live(l)' = {}
  <1> USE DEF SInv
  <1>1. /\ issued \in Nat /\ issued' = issued + 1
        /\ store' = issued + 1 /\ UNCHANGED <<revoked, posts, refreshing>>
    BY DEF Login, Mint, StoreIs
  <1>2. /\ issued' \in Tokens /\ login' \in [Pairs -> Tokens]
        /\ revoked' \subseteq 1..issued'
        /\ Descent' /\ OneLiveTokenPerLogin'
        /\ \A l \in 1..issued : Live(l) = {} => Live(l)' = {}
    BY <1>1, SignIn DEF Login
  <1>3. KnownTokens'
    BY <1>1 DEF KnownTokens
  <1>4. QED
    BY <1>1, <1>2, <1>3

\* A tab that is loaded anew sends no answer anywhere, and changes no token.
LEMMA Forgetting ==
    ASSUME SInv, NEW t \in Tabs, Forget(t), store' \in {store, None}, issued' = issued
    PROVE  /\ posts' \subseteq Post /\ refreshing' \in [Tabs -> Awaited]
           /\ KnownTokens'
  <1> USE DEF SInv
  <1>1. posts' \subseteq Post
    BY DEF Forget, Abandoned, Post
  <1>2. \A q \in posts' : \E p \in posts : q.token = p.token /\ q.at = p.at
    BY DEF Forget, Abandoned, Post
  <1>3. refreshing' \in [Tabs -> Awaited]
    BY DEF Forget, Awaited, Nothing
  <1>4. \A u \in Tabs : refreshing'[u].pair \in {refreshing[u].pair, None}
    BY DEF Forget, Nothing
  <1>5. ASSUME NEW q \in posts'
        PROVE  q.token \in 0..issued /\ (q.at = "checked" => q.token # None)
    <2>1. PICK p \in posts : q.token = p.token /\ q.at = p.at
      BY <1>2
    <2>2. QED
      BY <2>1 DEF KnownTokens
  <1>6. store' \in 0..issued /\ \A u \in Tabs : refreshing'[u].pair \in 0..issued
    BY <1>4 DEF KnownTokens
  <1>7. QED
    BY <1>1, <1>3, <1>5, <1>6 DEF KnownTokens

LEMMA TabStep ==
    ASSUME SInv, NEW t \in Tabs, LoseAnswer(t) \/ Tab(t)
    PROVE  SInv' /\ \A l \in 1..issued : Live(l) = {} => Live(l)' = {}
  <1> USE DEF SInv
  <1>1. issued \in Nat /\ store \in 0..issued
    BY DEF KnownTokens
  <1>2. CASE LoseAnswer(t)
    <2>1. /\ UNCHANGED <<serverVars, posts, store>>
          /\ refreshing' \in [Tabs -> Awaited]
          /\ \A u \in Tabs : refreshing'[u].pair \in {refreshing[u].pair, None}
      <3>1. UNCHANGED <<serverVars, posts, store>>
        BY <1>2 DEF LoseAnswer
      <3>2. refreshing[t].token \in Tokens
        BY DEF Awaited
      <3>3. \/ UNCHANGED refreshing
            \/ refreshing' = [refreshing EXCEPT ![t] =
                  [at |-> "failed", token |-> refreshing[t].token, pair |-> None]]
        BY <1>2 DEF LoseAnswer
      <3>4. refreshing' \in [Tabs -> Awaited]
        <4>1. [at |-> "failed", token |-> refreshing[t].token, pair |-> None] \in Awaited
          BY <3>2 DEF Awaited
        <4>2. QED
          BY <3>3, <4>1
      <3>5. \A u \in Tabs : refreshing'[u].pair \in {refreshing[u].pair, None}
        BY <3>3
      <3>6. QED
        BY <3>1, <3>4, <3>5
    <2>2. KnownTokens'
      BY <2>1 DEF KnownTokens, serverVars
    <2>3. QED
      BY <2>1, <2>2, TabSteps
  <1>3. CASE Login(t)
    BY <1>3, LoginStep
  <1>4. CASE Refreshed(t)
    <2>1. /\ UNCHANGED <<serverVars, posts>>
          /\ store' = refreshing[t].pair
          /\ refreshing' = [refreshing EXCEPT ![t] = Nothing]
      BY <1>4 DEF Refreshed, StoreIs
    <2>2. refreshing' \in [Tabs -> Awaited]
      BY <2>1 DEF Awaited, Nothing
    <2>3. KnownTokens'
      BY <2>1 DEF KnownTokens, serverVars, Nothing
    <2>4. QED
      BY <2>1, <2>2, <2>3, TabSteps
  <1>5. CASE LoggedOut(t)
    <2>1. UNCHANGED serverVars /\ store' = None
      BY <1>5 DEF LoggedOut, StoreIs
    <2>2. CASE OnLoginPage(t)
      <3>1. UNCHANGED posts /\ refreshing' = [refreshing EXCEPT ![t] = Nothing]
        BY <1>5, <2>2 DEF LoggedOut
      <3>2. refreshing' \in [Tabs -> Awaited]
        BY <3>1 DEF Awaited, Nothing
      <3>3. KnownTokens'
        BY <1>1, <2>1, <3>1 DEF KnownTokens, serverVars, Nothing
      <3>4. QED
        BY <2>1, <3>1, <3>2, <3>3, TabSteps
    <2>3. CASE ~OnLoginPage(t)
      BY <1>5, <2>1, <2>3, Forgetting, TabSteps DEF LoggedOut, serverVars
    <2>4. QED
      BY <2>2, <2>3
  <1>6. CASE Reload(t)
    BY <1>6, Forgetting, TabSteps DEF Reload, serverVars
  <1>7. CASE StartLogout(t)
    <2>1. UNCHANGED <<serverVars, store, refreshing>>
      BY <1>7 DEF StartLogout
    <2>2. /\ posts' \subseteq Post
          /\ \A q \in posts' : q \in posts \/ (q.token = store /\ q.at = "sent")
      BY <1>1, <1>7 DEF StartLogout, Post
    <2>3. KnownTokens'
      BY <1>1, <2>1, <2>2 DEF KnownTokens, serverVars
    <2>4. QED
      BY <2>1, <2>2, <2>3, TabSteps
  <1>8. CASE EndLogout(t)
    <2>1. UNCHANGED <<serverVars, posts, refreshing>> /\ store' = None
      BY <1>8 DEF EndLogout, StoreIs
    <2>2. KnownTokens'
      BY <1>1, <2>1 DEF KnownTokens, serverVars
    <2>3. QED
      BY <2>1, <2>2, TabSteps
  <1>9. QED
    BY <1>2, <1>3, <1>4, <1>5, <1>6, <1>7, <1>8 DEF Tab

LEMMA CallsStep ==
    ASSUME SInv, NEW c \in Calls, CallStep(c)
    PROVE  SInv' /\ \A l \in 1..issued : Live(l) = {} => Live(l)' = {}
  <1> USE DEF SInv
  <1>1. issued \in Nat /\ store \in 0..issued /\ TabOf[c] \in Tabs
    BY DEF KnownTokens
  <1>2. UNCHANGED serverVars /\ store' \in {store, None}
    BY DEF CallStep, StartCall, ServeCall, CallSucceeds, CallRejected, CallRefreshes, StoreIs
  <1>3. CASE CallRefreshes(c) /\ refreshing[TabOf[c]].at = "none"
    <2> DEFINE t == TabOf[c]
    <2>1. /\ refreshing' = [refreshing EXCEPT ![t] =
                               [at |-> "out", token |-> store, pair |-> None]]
          /\ posts' = posts \union
                {[op |-> "refresh", token |-> store, at |-> "sent", tab |-> t]}
      BY <1>3 DEF CallRefreshes
    <2>2. posts' \subseteq Post /\ refreshing' \in [Tabs -> Awaited]
      BY <1>1, <2>1 DEF Post, Awaited
    <2>3. KnownTokens'
      BY <1>1, <1>2, <2>1 DEF KnownTokens, serverVars
    <2>4. QED
      BY <1>2, <2>2, <2>3, TabSteps
  <1>4. CASE ~(CallRefreshes(c) /\ refreshing[TabOf[c]].at = "none")
    <2>1. UNCHANGED <<posts, refreshing>>
      BY <1>4 DEF CallStep, StartCall, ServeCall, CallSucceeds, CallRejected, CallRefreshes
    <2>2. KnownTokens'
      BY <1>1, <1>2, <2>1 DEF KnownTokens, serverVars
    <2>3. QED
      BY <1>2, <2>1, <2>2, TabSteps
  <1>5. QED
    BY <1>3, <1>4

LEMMA Step ==
    ASSUME SInv, [Next]_vars
    PROVE  SInv' /\ \A l \in 1..issued : Live(l) = {} => Live(l)' = {}
  <1> USE DEF SInv
  <1>1. ASSUME UNCHANGED <<serverVars, posts, store, refreshing>>
        PROVE  SInv' /\ \A l \in 1..issued : Live(l) = {} => Live(l)' = {}
    BY <1>1, TabSteps DEF KnownTokens, serverVars
  <1>2. CASE UNCHANGED vars
    BY <1>1, <1>2 DEF vars, tabVars
  <1>3. CASE ExpireAccess
    BY <1>1, <1>3 DEF ExpireAccess, tabVars
  <1>4. CASE SetActive
    BY <1>1, <1>4 DEF SetActive, tabVars
  <1>5. QED
    BY <1>2, <1>3, <1>4, ServeStep, TabStep, CallsStep DEF Next

LEMMA Start == Init => SInv
  BY DEF Init, SInv, Descent, KnownTokens, OneLiveTokenPerLogin, Awaited, Nothing

-----------------------------------------------------------------------------

\* The invariant behind the theorems below.
THEOREM Inductive == Spec => []SInv
  <1>1. SInv /\ [Next]_vars => SInv'
    BY Step
  <1>2. QED
    BY Start, <1>1, PTL DEF Spec

\* Concurrent refreshes with one token, rotation and logout never leave a sign-in
\* with two refresh tokens the server would honour.
THEOREM OneLiveToken == Spec => []OneLiveTokenPerLogin
  <1>1. SInv => OneLiveTokenPerLogin
    BY DEF SInv
  <1>2. QED
    BY Inductive, <1>1, PTL

\* No request that was let through before a logout revives the session it ended.
THEOREM EndedStaysEnded == Spec => EndedLoginStaysEnded
  <1>1. SInv /\ [Next]_vars =>
            [\A l \in 1..issued : Live(l) = {} => Live(l)' = {}]_vars
    BY Step
  <1>2. QED
    BY Inductive, <1>1, PTL DEF Spec, EndedLoginStaysEnded

-----------------------------------------------------------------------------
(* Types *)

\* What the invariant above leaves out of the types.
RestOK ==
    /\ accessDead \in 0..issued
    /\ enabled \in BOOLEAN
    /\ user \in [Tabs -> BOOLEAN]
    /\ leaving \in [Tabs -> Awaited]
    /\ call \in [Calls -> Call]
    /\ orphaned \in BOOLEAN
    /\ faults \in 0..MaxFaults

\* A call made of typed parts is typed, and so is one that has come back.
LEMMA CallTypes ==
  /\ Idle \in Call /\ Nothing \in Awaited
  /\ \A kind \in {"page", "login", "restore"}, n \in Tokens, b \in BOOLEAN : Sent(kind, n, b) \in Call
  BY DEF Idle, Call, Sent, Nothing, Awaited

\* Faults are counted up to their bound.
LEMMA FaultTypes ==
  ASSUME faults \in 0..MaxFaults, Fault \/ UNCHANGED faults
  PROVE  faults' \in 0..MaxFaults
  BY DEF Fault

\* The types are kept by the server, ...
LEMMA ServeTypes ==
  ASSUME SInv, SInv', RestOK, NEW p \in posts, Serve(p)
  PROVE  RestOK'
<1>1. issued \in Nat /\ issued' \in Nat /\ issued <= issued'
  BY DEF SInv, Serve, RefreshLookUp, RefreshCommit, LogoutLookUp, LogoutCommit, Lose, Proceed,
     serverVars, Mint
<1>2. /\ UNCHANGED <<accessDead, enabled, user, call, orphaned>> /\ faults' \in 0..MaxFaults
  <2>1. UNCHANGED <<user, call, orphaned>>
    BY DEF Serve, RefreshLookUp, RefreshCommit, LogoutLookUp, LogoutCommit, Lose, Proceed,
       AnswerWith, tabVars
  <2>2. faults' \in 0..MaxFaults
    BY FaultTypes DEF Serve, Lose, RestOK
  <2> QED BY <2>1, <2>2 DEF Serve, envVars
<1>3. leaving' \in [Tabs -> Awaited]
  <2>1. ASSUME NEW o \in {"done", "failed"}, NEW n, AnswerWith(p, o, n)
        PROVE  leaving' \in [Tabs -> Awaited]
    BY <2>1 DEF AnswerWith, RestOK, Awaited
  <2> QED BY <2>1 DEF Serve, RefreshLookUp, RefreshCommit, LogoutLookUp, LogoutCommit, Lose,
            Proceed, tabVars, RestOK
<1> QED BY <1>1, <1>2, <1>3 DEF RestOK

\* ... by the tabs ...
LEMMA TabTypes ==
  ASSUME SInv, SInv', RestOK, NEW t \in Tabs, LoseAnswer(t) \/ Tab(t)
  PROVE  RestOK'
<1>0. issued \in Nat /\ store \in Tokens /\ \A u \in Tabs : refreshing[u].pair \in Tokens
  BY DEF SInv, KnownTokens
<1>1. issued' \in Nat /\ issued <= issued' /\ UNCHANGED <<accessDead, enabled>>
  <2>1. CASE Login(t)
    BY <1>0, <2>1 DEF Login, Mint, envVars
  <2>2. CASE ~Login(t)
    <3>1. UNCHANGED <<serverVars, envVars>>
      BY <2>2 DEF LoseAnswer, Tab, Refreshed, LoggedOut, Reload, StartLogout, EndLogout
    <3> QED BY <1>0, <3>1 DEF serverVars, envVars
  <2> QED BY <2>1, <2>2
<1>2. faults' \in 0..MaxFaults
  <2>1. Fault \/ UNCHANGED faults
    BY DEF LoseAnswer, Tab, Login, Refreshed, LoggedOut, Reload, StartLogout, EndLogout
  <2> QED BY <2>1, FaultTypes DEF RestOK
<1>3. orphaned' \in BOOLEAN
  BY DEF LoseAnswer, Tab, Login, Refreshed, LoggedOut, Reload, StartLogout, EndLogout, RestOK, StoreIs
<1>4. user' \in [Tabs -> BOOLEAN]
  BY DEF LoseAnswer, Tab, Login, Refreshed, LoggedOut, Reload, Forget, StartLogout, EndLogout, RestOK
<1>5. leaving' \in [Tabs -> Awaited]
  <2>1. CASE Login(t) \/ Refreshed(t) \/ LoggedOut(t) \/ Reload(t) \/ EndLogout(t)
    BY <2>1, CallTypes DEF Login, Refreshed, LoggedOut, Reload, Forget, EndLogout, RestOK
  <2>2. CASE LoseAnswer(t)
    BY <2>2 DEF LoseAnswer, RestOK, Awaited
  <2>3. CASE StartLogout(t)
    BY <1>0, <2>3 DEF StartLogout, RestOK, Awaited
  <2> QED BY <2>1, <2>2, <2>3 DEF Tab
<1>6. call' \in [Calls -> Call]
  <2>1. Dropped(t) \in [Calls -> Call]
    BY CallTypes DEF Dropped, RestOK
  <2>2. CASE LoseAnswer(t) \/ StartLogout(t) \/ EndLogout(t)
    BY <2>2 DEF LoseAnswer, StartLogout, EndLogout, RestOK
  <2>3. CASE Login(t)
    <3>1. issued + 1 \in Tokens
      BY <2>3, <1>0 DEF Login, Mint
    <3>2. PICK c \in Calls : call' = [call EXCEPT ![c] = Sent("login", issued + 1, FALSE)]
      BY <2>3 DEF Login, CallsOf
    <3> QED BY <3>1, <3>2, CallTypes DEF RestOK
  <2>4. CASE Refreshed(t)
    <3>1. \A c \in Calls : Sent(call[c].kind, refreshing[t].pair, TRUE) \in Call
      <4>1. \A c \in Calls : call[c].kind \in {"page", "login", "restore"}
        BY DEF RestOK, Call
      <4> QED BY <1>0, <4>1, CallTypes
    <3> QED BY <2>4, <3>1 DEF Refreshed, Replayed, RestOK
  <2>5. CASE LoggedOut(t)
    BY <2>1, <2>5, CallTypes DEF LoggedOut, RestOK
  <2>6. CASE Reload(t)
    <3>1. CASE store = None
      BY <2>1, <2>6, <3>1 DEF Reload
    <3>2. CASE store # None
      <4>1. PICK c \in Calls : call' = [Dropped(t) EXCEPT ![c] = Sent("restore", store, FALSE)]
        BY <2>6, <3>2 DEF Reload, CallsOf
      <4> QED BY <1>0, <2>1, <4>1, CallTypes
    <3> QED BY <3>1, <3>2
  <2> QED BY <2>2, <2>3, <2>4, <2>5, <2>6 DEF Tab
<1> QED BY <1>0, <1>1, <1>2, <1>3, <1>4, <1>5, <1>6 DEF RestOK

\* ... and by the calls.
LEMMA CallStepTypes ==
  ASSUME SInv, SInv', RestOK, NEW c \in Calls, CallStep(c)
  PROVE  RestOK'
<1>0. issued \in Nat /\ store \in Tokens /\ call[c] \in Call /\ TabOf[c] \in Tabs
  BY DEF SInv, KnownTokens, RestOK
<1>1. UNCHANGED <<issued, accessDead, enabled, leaving>>
  BY DEF CallStep, StartCall, ServeCall, CallSucceeds, CallRejected, CallRefreshes, serverVars, envVars
<1>2. faults' \in 0..MaxFaults
  <2>1. Fault \/ UNCHANGED faults
    BY DEF CallStep, StartCall, ServeCall, CallSucceeds, CallRejected, CallRefreshes
  <2> QED BY <2>1, FaultTypes DEF RestOK
<1>3. orphaned' \in BOOLEAN /\ user' \in [Tabs -> BOOLEAN]
  BY <1>0 DEF CallStep, StartCall, ServeCall, CallSucceeds, CallRejected, CallRefreshes, RestOK, StoreIs
<1>4. call' \in [Calls -> Call]
  <2>1. CASE StartCall(c)
    BY <1>0, <2>1, CallTypes DEF StartCall, RestOK
  <2>2. CASE CallSucceeds(c) \/ CallRejected(c)
    BY <2>2, CallTypes DEF CallSucceeds, CallRejected, RestOK
  <2>3. CASE CallRefreshes(c)
    BY <1>0, <2>3 DEF CallRefreshes, RestOK, Call
  <2>4. CASE ServeCall(c)
    <3>1. PICK a \in {"ok", "failed", "denied"} :
            call' = [call EXCEPT ![c] = IF @.kind = "page" /\ a # "denied" THEN Idle
                                        ELSE [@ EXCEPT !.at = a, !.token = None, !.retried = FALSE]]
      BY <2>4 DEF ServeCall
    <3>2. PICK q : q = [call[c] EXCEPT !.at = a, !.token = None, !.retried = FALSE]
      OBVIOUS
    <3>3. q \in Call
      <4>1. q = [at |-> a, kind |-> call[c].kind, token |-> None, retried |-> FALSE]
        BY <1>0, <3>2 DEF Call
      <4>2. call[c].kind \in {"page", "login", "restore"}
        BY <1>0 DEF Call
      <4> QED BY <4>1, <4>2 DEF Call
    <3>4. call' = [call EXCEPT ![c] = Idle] \/ call' = [call EXCEPT ![c] = q]
      BY <3>1, <3>2 DEF RestOK
    <3> QED BY <3>3, <3>4, CallTypes DEF RestOK
  <2> QED BY <2>1, <2>2, <2>3, <2>4 DEF CallStep
<1> QED BY <1>1, <1>2, <1>3, <1>4 DEF RestOK

\* Together, every step keeps the types.
LEMMA TypesStep == ASSUME SInv, RestOK, [Next]_vars PROVE RestOK'
<1>0. SInv'
  BY Step
<1>1. CASE ExpireAccess
  BY <1>1 DEF ExpireAccess, RestOK, SInv, serverVars, tabVars
<1>2. CASE SetActive
  BY <1>2 DEF SetActive, RestOK, serverVars, tabVars, Fault
<1>3. CASE UNCHANGED vars
  BY <1>3 DEF vars, serverVars, envVars, tabVars, RestOK
<1> QED BY <1>0, <1>1, <1>2, <1>3, ServeTypes, TabTypes, CallStepTypes DEF Next

\* Every variable keeps its type, and nothing stored or revoked was never issued.
THEOREM TypeCorrect == Spec => []TypeOK
<1>1. Init => RestOK
  <2>1. SUFFICES ASSUME Init PROVE RestOK
    OBVIOUS
  <2>2. accessDead \in 0..issued /\ faults \in 0..MaxFaults
    BY <2>1 DEF Init
  <2>3. enabled \in BOOLEAN /\ orphaned \in BOOLEAN /\ user \in [Tabs -> BOOLEAN]
    BY <2>1 DEF Init
  <2>4. leaving \in [Tabs -> Awaited] /\ call \in [Calls -> Call]
    BY <2>1, CallTypes DEF Init
  <2> QED BY <2>2, <2>3, <2>4 DEF RestOK
<1>2. SInv /\ RestOK => TypeOK
  BY DEF SInv, RestOK, KnownTokens, TypeOK
<1>3. SInv /\ RestOK /\ [Next]_vars => RestOK'
  BY TypesStep
<1> QED BY <1>1, <1>2, <1>3, Inductive, PTL DEF Spec

-----------------------------------------------------------------------------
(* The stored pair.  It can only be revoked by a request that carries it;   *)
(* the answer to that request is awaited by the tab that sent it, or lost.  *)

\* A tab awaits the answer to each request it has sent and not yet forgotten, ...
Awaiting ==
    \A p \in posts : p.tab \in Tabs =>
        LET awaited == IF p.op = "refresh" THEN refreshing[p.tab] ELSE leaving[p.tab]
        IN  awaited.at = "out" /\ awaited.token = p.token

\* ... and sends no second one of the kind meanwhile.
OneEach ==
    \A p, q \in posts : p.op = q.op /\ p.tab = q.tab /\ p.tab \in Tabs => p = q

\* Nobody but the tab that is about to store it has heard of an answered pair.
Unheard(t, n) ==
    /\ n \in 1..issued /\ n \notin revoked /\ n # store
    /\ \A p \in posts : p.token # n
    /\ \A u \in Tabs \ {t} : refreshing[u].at = "done" => refreshing[u].pair # n

AnsweredPairs == \A t \in Tabs : refreshing[t].at = "done" => Unheard(t, refreshing[t].pair)

\* A request about the stored pair that no tab awaits any more is a lost answer.
Deserted == \A p \in posts : p.tab = NoTab /\ p.token = store /\ store # None => orphaned

Transit == Awaiting /\ OneEach /\ AnsweredPairs /\ Deserted /\ StoredPairDiesInTransit

TInv == SInv /\ leaving \in [Tabs -> Awaited] /\ Transit

\* What Transit reads of the state.
Unmoved == UNCHANGED <<issued, revoked, posts, store, refreshing, leaving, orphaned>>

\* Steps of which Transit reads nothing leave it as it is.
LEMMA TransitStays == ASSUME Transit, Unmoved PROVE Transit'
  BY DEF Transit, Unmoved, Awaiting, OneEach, AnsweredPairs, Unheard, Deserted, StoredPairDiesInTransit

\* An answer reaches the tab that awaits it: a new pair that nobody has heard of,
\* a failure, or the end of a logout, which may have revoked the token.
Minted(p, o, n) ==
    /\ p.op = "refresh" /\ o = "done" /\ n = issued + 1 /\ issued' = issued + 1
    /\ revoked' = revoked \union {p.token}

Refused(p, o) ==
    /\ p.op = "refresh" => o = "failed" /\ revoked' = revoked
    /\ issued' = issued /\ revoked' \in {revoked, revoked \union {p.token}}

LEMMA AnswerTransit ==
  ASSUME TInv, SInv', NEW p \in posts, NEW o \in {"done", "failed"}, NEW n,
         AnswerWith(p, o, n), Minted(p, o, n) \/ Refused(p, o)
  PROVE  Transit'
<1>0. /\ p \in Post /\ p.token \in 0..issued /\ issued \in Nat /\ NoTab \notin Tabs
      /\ p.op \in {"refresh", "logout"} /\ p.tab \in Tabs \cup {NoTab}
      /\ refreshing \in [Tabs -> Awaited] /\ leaving \in [Tabs -> Awaited]
      /\ posts' = posts \ {p} /\ UNCHANGED <<store, orphaned>>
  BY DEF TInv, SInv, KnownTokens, AnswerWith, Post
<1>1. \A t \in Tabs : ~(p.op = "refresh" /\ p.tab = t) => refreshing'[t] = refreshing[t]
  BY <1>0 DEF AnswerWith
<1>2. \A t \in Tabs : p.op = "refresh" /\ p.tab = t =>
        refreshing'[t].at = o /\ refreshing'[t].pair = n /\ refreshing'[t].token = refreshing[t].token
  BY <1>0 DEF AnswerWith, Awaited
<1>3. \A t \in Tabs : ~(p.op = "logout" /\ p.tab = t) => leaving'[t] = leaving[t]
  BY <1>0 DEF AnswerWith
<1>4. \A t \in Tabs : p.op = "logout" /\ p.tab = t =>
        leaving'[t].at = o /\ leaving'[t].token = leaving[t].token
  BY <1>0 DEF AnswerWith, Awaited
<1>5. \A t \in Tabs : p.tab = t =>
        IF p.op = "refresh" THEN refreshing[t].at = "out" /\ refreshing[t].token = p.token
                            ELSE leaving[t].at = "out" /\ leaving[t].token = p.token
  BY DEF TInv, Transit, Awaiting
<1>6. Awaiting'
  <2>1. SUFFICES ASSUME NEW q \in posts, q # p, q.tab \in Tabs
                 PROVE  LET awaited == IF q.op = "refresh" THEN refreshing'[q.tab] ELSE leaving'[q.tab]
                        IN  awaited.at = "out" /\ awaited.token = q.token
    BY <1>0 DEF Awaiting
  <2>2. q.op # p.op \/ q.tab # p.tab
    BY <2>1 DEF TInv, Transit, OneEach
  <2>3. q.op \in {"refresh", "logout"}
    BY DEF TInv, SInv, Post
  <2> QED BY <1>0, <1>1, <1>3, <2>1, <2>2, <2>3 DEF TInv, Transit, Awaiting
<1>7. OneEach'
  BY <1>0 DEF TInv, Transit, OneEach
<1>8. AnsweredPairs'
  <2>1. SUFFICES ASSUME NEW t \in Tabs, refreshing'[t].at = "done"
                 PROVE  Unheard(t, refreshing[t].pair)' 
    BY DEF AnsweredPairs
  <2>2. \A u \in Tabs : refreshing[u].at = "done" =>
           /\ Unheard(u, refreshing[u].pair) /\ refreshing[u].pair # p.token
           /\ ~(p.op = "refresh" /\ p.tab = u)
    BY <1>5 DEF TInv, Transit, AnsweredPairs, Unheard
  <2>3. \A u \in Tabs : refreshing'[u].at = "done" =>
           \/ refreshing'[u] = refreshing[u]
           \/ Minted(p, o, n) /\ p.tab = u /\ refreshing'[u].pair = issued + 1
    BY <1>0, <1>1, <1>2 DEF Minted, Refused
  <2>4. revoked' \subseteq revoked \cup {p.token} /\ issued' \in Nat /\ issued <= issued'
    BY <1>0 DEF Minted, Refused
  <2>5. PICK m : m = refreshing'[t].pair
    OBVIOUS
  <2>6. CASE refreshing'[t] = refreshing[t]
    <3>1. /\ m \in 1..issued /\ m \notin revoked /\ m # p.token /\ m # store
          /\ \A q \in posts : q.token # m
          /\ \A u \in Tabs \ {t} : refreshing[u].at = "done" => refreshing[u].pair # m
      BY <2>1, <2>2, <2>5, <2>6 DEF Unheard
    <3>2. \A u \in Tabs \ {t} : refreshing'[u].at = "done" => refreshing'[u].pair # m
      BY <1>0, <2>3, <3>1
    <3> QED BY <1>0, <2>4, <2>5, <3>1, <3>2 DEF Unheard
  <2>7. CASE Minted(p, o, n) /\ p.tab = t /\ m = issued + 1
    <3>1. m \in 1..issued' /\ m # store /\ m \notin revoked' /\ \A q \in posts : q.token # m
      BY <1>0, <2>4, <2>7 DEF TInv, SInv, KnownTokens, Minted
    <3>2. \A u \in Tabs \ {t} : refreshing'[u].at = "done" => refreshing'[u].pair # m
      BY <1>0, <2>2, <2>3, <2>7 DEF Unheard
    <3> QED BY <1>0, <2>5, <3>1, <3>2 DEF Unheard
  <2> QED BY <2>1, <2>3, <2>5, <2>6, <2>7
<1>9. Deserted'
  BY <1>0 DEF TInv, Transit, Deserted
<1>10. StoredPairDiesInTransit'
  <2>1. SUFFICES ASSUME store \in revoked', ~orphaned
                 PROVE  \E t \in Tabs : \/ refreshing'[t].at = "done" /\ refreshing'[t].token = store
                                        \/ leaving'[t].at # "none" /\ leaving'[t].token = store
    BY <1>0 DEF StoredPairDiesInTransit
  <2>2. CASE store \in revoked
    <3>1. PICK t \in Tabs : \/ refreshing[t].at = "done" /\ refreshing[t].token = store
                            \/ leaving[t].at # "none" /\ leaving[t].token = store
      BY <2>1, <2>2 DEF TInv, Transit, StoredPairDiesInTransit
    <3> QED BY <1>0, <1>1, <1>3, <1>4, <1>5, <3>1
  <2>3. CASE store \notin revoked
    <3>1. store = p.token /\ store # None /\ revoked' # revoked
      BY <2>1, <2>3 DEF Minted, Refused, SInv
    <3>2. p.tab \in Tabs
      BY <1>0, <2>1, <3>1 DEF TInv, Transit, Deserted
    <3> QED BY <1>0, <1>2, <1>4, <1>5, <3>1, <3>2 DEF Minted, Refused
  <2> QED BY <2>2, <2>3
<1> QED BY <1>6, <1>7, <1>8, <1>9, <1>10 DEF Transit

\* Every step of the server is an answer, or a look-up that passed.
LEMMA ServeTransit == ASSUME TInv, SInv', NEW p \in posts, Serve(p) PROVE Transit'
<1>1. ASSUME NEW o \in {"done", "failed"}, AnswerWith(p, o, None), UNCHANGED serverVars,
             p.op = "refresh" => o = "failed"
      PROVE  Transit'
  BY <1>1, AnswerTransit DEF Refused, serverVars
<1>2. CASE RefreshCommit(p) /\ UniqueJti(p.token)
  <2>1. Minted(p, "done", issued + 1)
    BY <1>2 DEF RefreshCommit, Minted, Mint
  <2> QED BY <1>2, <2>1, AnswerTransit DEF RefreshCommit
<1>3. CASE LogoutCommit(p) /\ UniqueJti(p.token)
  <2>1. Refused(p, "done")
    BY <1>3 DEF LogoutCommit, Refused
  <2> QED BY <1>3, <2>1, AnswerTransit DEF LogoutCommit
<1>4. ASSUME Proceed(p) PROVE Transit'
  <2>1. PICK q : q = [p EXCEPT !.at = "checked"]
    OBVIOUS
  <2>2. q.op = p.op /\ q.tab = p.tab /\ q.token = p.token
    BY <2>1 DEF TInv, SInv, Post
  <2>3. posts' = (posts \ {p}) \union {q}
    BY <1>4, <2>1 DEF Proceed
  <2>4. UNCHANGED <<issued, revoked, store, refreshing, leaving, orphaned>>
    BY <1>4 DEF Proceed, serverVars, tabVars
  <2>5. Awaiting' /\ Deserted' /\ StoredPairDiesInTransit'
    BY <2>2, <2>3, <2>4 DEF TInv, Transit, Awaiting, Deserted, StoredPairDiesInTransit
  <2>6. OneEach'
    BY <2>2, <2>3 DEF TInv, Transit, OneEach
  <2>7. AnsweredPairs'
    BY <2>2, <2>3, <2>4 DEF TInv, Transit, AnsweredPairs, Unheard
  <2> QED BY <2>5, <2>6, <2>7 DEF Transit
<1>5. CASE RefreshLookUp(p) \/ LogoutLookUp(p)
  BY <1>1, <1>4, <1>5 DEF RefreshLookUp, LogoutLookUp
<1>6. CASE (RefreshCommit(p) \/ LogoutCommit(p)) /\ ~UniqueJti(p.token)
  BY <1>1, <1>6 DEF RefreshCommit, LogoutCommit
<1>7. CASE Lose(p)
  BY <1>1, <1>7 DEF Lose
<1> QED BY <1>2, <1>3, <1>5, <1>6, <1>7 DEF Serve

\* A request about the stored pair is sent by a tab that had none of its kind out.
LEMMA SendTransit ==
  ASSUME TInv, NEW t \in Tabs, NEW q, q.tab = t, q.token = store, posts' = posts \cup {q},
         UNCHANGED <<issued, revoked, store, orphaned>>,
         \/ /\ q.op = "refresh" /\ refreshing[t].at = "none" /\ UNCHANGED leaving
            /\ refreshing' = [refreshing EXCEPT ![t] = [at |-> "out", token |-> store, pair |-> None]]
         \/ /\ q.op = "logout" /\ leaving[t].at = "none" /\ UNCHANGED refreshing
            /\ leaving' = [leaving EXCEPT ![t] = [at |-> "out", token |-> store, pair |-> None]]
  PROVE  Transit'
<1>0. NoTab \notin Tabs /\ refreshing \in [Tabs -> Awaited] /\ leaving \in [Tabs -> Awaited]
  BY DEF TInv, SInv
<1>1. \A p \in posts : p.op \in {"refresh", "logout"} /\ (p.op = q.op => p.tab # t)
  BY DEF TInv, SInv, Transit, Awaiting, Post
<1>2. \A u \in Tabs : /\ refreshing'[u].at \in {"done"} => refreshing'[u] = refreshing[u]
                      /\ refreshing[u].at = "done" => refreshing'[u] = refreshing[u]
                      /\ leaving[u].at # "none" => leaving'[u] = leaving[u]
  BY <1>0
<1>3. Awaiting'
  BY <1>0, <1>1 DEF TInv, Transit, Awaiting
<1>4. OneEach'
  BY <1>1 DEF TInv, Transit, OneEach
<1>5. AnsweredPairs'
  BY <1>2 DEF TInv, Transit, AnsweredPairs, Unheard
<1>6. Deserted'
  BY <1>0 DEF TInv, Transit, Deserted
<1>7. StoredPairDiesInTransit'
  BY <1>2 DEF TInv, Transit, StoredPairDiesInTransit
<1> QED BY <1>3, <1>4, <1>5, <1>6, <1>7 DEF Transit

\* An empty store has lost nothing: a tab may forget what it awaits, or all it has.
LEMMA ClearTransit ==
  ASSUME TInv, SInv', NEW t \in Tabs, store' = None, UNCHANGED <<issued, revoked>>,
         \/ Forget(t)
         \/ /\ UNCHANGED posts
            /\ \/ UNCHANGED refreshing
               \/ refreshing[t].at = "failed" /\ refreshing' = [refreshing EXCEPT ![t] = Nothing]
            /\ \/ UNCHANGED leaving
               \/ leaving[t].at \in {"done", "failed"} /\ leaving' = [leaving EXCEPT ![t] = Nothing]
  PROVE  Transit'
<1>0. /\ NoTab \notin Tabs /\ refreshing \in [Tabs -> Awaited] /\ leaving \in [Tabs -> Awaited]
      /\ posts \subseteq Post /\ issued \in Nat
  BY DEF TInv, SInv
<1>1. \A q \in posts' : \/ q \in posts /\ (q.tab = t => UNCHANGED posts)
                        \/ q.tab = NoTab /\ \E p \in posts : q.token = p.token
  BY <1>0 DEF Forget, Abandoned, Post
<1>2. \A u \in Tabs \ {t} : refreshing'[u] = refreshing[u] /\ leaving'[u] = leaving[u]
  BY <1>0 DEF Forget
<1>3. refreshing'[t].at = "done" => refreshing'[t] = refreshing[t]
  BY <1>0 DEF Forget, Nothing
<1>4. Awaiting'
  <2>1. ASSUME UNCHANGED posts
        PROVE  \A p \in posts : p.tab = t =>
                 IF p.op = "refresh" THEN refreshing'[t] = refreshing[t] \/ Forget(t)
                                     ELSE leaving'[t] = leaving[t] \/ Forget(t)
    BY <1>0 DEF TInv, Transit, Awaiting
  <2>2. CASE Forget(t)
    <3>1. \A q \in posts' : q.tab # t
      BY <1>0, <2>2 DEF Forget, Abandoned, Post
    <3> QED BY <1>0, <1>1, <1>2, <3>1 DEF TInv, Transit, Awaiting
  <2>3. CASE ~Forget(t)
    BY <1>0, <1>2, <2>1, <2>3 DEF TInv, Transit, Awaiting
  <2> QED BY <2>2, <2>3
<1>5. OneEach'
  BY <1>0, <1>1 DEF TInv, Transit, OneEach
<1>6. AnsweredPairs'
  BY <1>0, <1>1, <1>2, <1>3 DEF TInv, Transit, AnsweredPairs, Unheard
<1>7. Deserted' /\ StoredPairDiesInTransit'
  <2>1. store' \notin revoked'
    BY DEF SInv
  <2> QED BY <2>1 DEF Deserted, StoredPairDiesInTransit
<1> QED BY <1>4, <1>5, <1>6, <1>7 DEF Transit

\* A pair that is stored has not been revoked, and no request carries it yet.
LEMMA StoreTransit ==
  ASSUME TInv, SInv', NEW t \in Tabs, Login(t) \/ Refreshed(t)
  PROVE  Transit'
<1>0. /\ NoTab \notin Tabs /\ refreshing \in [Tabs -> Awaited] /\ issued \in Nat
      /\ UNCHANGED <<revoked, posts, leaving>>
  <2>1. NoTab \notin Tabs /\ refreshing \in [Tabs -> Awaited] /\ issued \in Nat
    BY DEF TInv, SInv
  <2>2. UNCHANGED <<revoked, posts, leaving>>
    BY DEF Login, Refreshed, serverVars
  <2> QED BY <2>1, <2>2
<1>1. \A u \in Tabs : refreshing'[u].at = "done" => refreshing'[u] = refreshing[u]
  <2>1. UNCHANGED refreshing \/ refreshing' = [refreshing EXCEPT ![t] = Nothing]
    BY DEF Login, Refreshed
  <2> QED BY <1>0, <2>1 DEF Nothing
<1>2. /\ store' \notin revoked /\ \A p \in posts : p.token # store'
      /\ \A u \in Tabs : refreshing'[u].at = "done" => refreshing[u].pair # store'
  <2>1. CASE Login(t)
    BY <1>0, <1>1, <2>1 DEF Login, StoreIs, TInv, SInv, KnownTokens
  <2>2. CASE Refreshed(t)
    <3>1. store' = refreshing[t].pair /\ Unheard(t, store') /\ refreshing'[t].at = "none"
      BY <1>0, <2>2 DEF Refreshed, StoreIs, TInv, Transit, AnsweredPairs, Nothing
    <3> QED BY <1>1, <3>1 DEF Unheard
  <2> QED BY <2>1, <2>2
<1>3. Awaiting'
  <2>1. CASE Login(t)
    BY <1>0, <2>1 DEF Login, TInv, Transit, Awaiting
  <2>2. CASE Refreshed(t)
    <3>1. \A p \in posts : p.op = "refresh" => p.tab # t
      BY <2>2 DEF Refreshed, TInv, Transit, Awaiting
    <3>2. \A u \in Tabs \ {t} : refreshing'[u] = refreshing[u]
      BY <1>0, <2>2 DEF Refreshed
    <3> QED BY <1>0, <3>1, <3>2 DEF TInv, Transit, Awaiting
  <2> QED BY <2>1, <2>2
<1>4. OneEach'
  BY <1>0 DEF TInv, Transit, OneEach
<1>5. AnsweredPairs'
  <2>1. issued <= issued' /\ issued' \in Nat
    <3>1. issued' \in {issued, issued + 1}
      BY DEF Login, Refreshed, Mint, serverVars
    <3> QED BY <1>0, <3>1
  <2> QED BY <1>0, <1>1, <1>2, <2>1 DEF TInv, Transit, AnsweredPairs, Unheard
<1>6. Deserted' /\ StoredPairDiesInTransit'
  BY <1>0, <1>2 DEF Deserted, StoredPairDiesInTransit
<1> QED BY <1>3, <1>4, <1>5, <1>6 DEF Transit

\* A tab that is loaded anew loses what it awaited about the stored pair.
LEMMA ReloadTransit == ASSUME TInv, NEW t \in Tabs, Reload(t) PROVE Transit'
<1>0. /\ NoTab \notin Tabs /\ refreshing \in [Tabs -> Awaited] /\ leaving \in [Tabs -> Awaited]
      /\ posts \subseteq Post /\ UNCHANGED <<issued, revoked, store>> /\ Forget(t)
      /\ None \notin revoked
  BY DEF TInv, SInv, Reload, serverVars
<1>1. \A q \in posts' : \/ q \in posts /\ q.tab # t
                        \/ q.tab = NoTab /\ \E p \in posts : p.tab = t /\ q.token = p.token
  BY <1>0 DEF Forget, Abandoned, Post
<1>2. \A u \in Tabs \ {t} : refreshing'[u] = refreshing[u] /\ leaving'[u] = leaving[u]
  BY <1>0 DEF Forget
<1>3. refreshing'[t].at # "done"
  BY <1>0 DEF Forget, Nothing
<1>4. orphaned' <=> orphaned \/ (store # None /\ LostWith(t))
  BY DEF Reload
<1>5. Awaiting'
  BY <1>0, <1>1, <1>2 DEF TInv, Transit, Awaiting
<1>6. OneEach'
  BY <1>0, <1>1 DEF TInv, Transit, OneEach
<1>7. AnsweredPairs'
  BY <1>0, <1>1, <1>2, <1>3 DEF TInv, Transit, AnsweredPairs, Unheard
<1>8. Deserted'
  <2>1. ASSUME NEW p \in posts, p.tab = t, p.token = store PROVE LostWith(t)
    BY <2>1, <1>0 DEF TInv, Transit, Awaiting, LostWith, Post
  <2> QED BY <1>0, <1>1, <1>4, <2>1 DEF TInv, Transit, Deserted
<1>9. StoredPairDiesInTransit'
  BY <1>0, <1>2, <1>4 DEF TInv, Transit, StoredPairDiesInTransit, LostWith
<1> QED BY <1>5, <1>6, <1>7, <1>8, <1>9 DEF Transit

\* A lost answer about the stored pair is what orphaned remembers.
LEMMA LoseTransit == ASSUME TInv, NEW t \in Tabs, LoseAnswer(t) PROVE Transit'
<1>0. /\ refreshing \in [Tabs -> Awaited] /\ leaving \in [Tabs -> Awaited]
      /\ UNCHANGED <<issued, revoked, posts, store>>
  BY DEF TInv, SInv, LoseAnswer, serverVars
<1>1. CASE UNCHANGED leaving
  <2>1. PICK lost : lost = [at |-> "failed", token |-> refreshing[t].token, pair |-> None]
    OBVIOUS
  <2>2. \/ UNCHANGED <<refreshing, orphaned>>
        \/ /\ refreshing[t].at = "done" /\ refreshing' = [refreshing EXCEPT ![t] = lost]
           /\ orphaned' = (orphaned \/ refreshing[t].token = store)
    BY <1>0, <1>1, <2>1 DEF LoseAnswer
  <2>3. CASE UNCHANGED <<refreshing, orphaned>>
    BY <1>0, <1>1, <2>3, TransitStays DEF Unmoved, TInv
  <2>4. CASE /\ refreshing[t].at = "done" /\ refreshing' = [refreshing EXCEPT ![t] = lost]
             /\ orphaned' = (orphaned \/ refreshing[t].token = store)
    <3>1. refreshing'[t].at = "failed" /\ \A u \in Tabs \ {t} : refreshing'[u] = refreshing[u]
      BY <1>0, <2>1, <2>4
    <3>2. Awaiting' /\ OneEach' /\ Deserted'
      BY <1>0, <1>1, <2>4, <3>1 DEF TInv, Transit, Awaiting, OneEach, Deserted
    <3>3. AnsweredPairs'
      BY <1>0, <3>1 DEF TInv, Transit, AnsweredPairs, Unheard
    <3>4. StoredPairDiesInTransit'
      BY <1>0, <1>1, <2>4, <3>1 DEF TInv, Transit, StoredPairDiesInTransit
    <3> QED BY <3>2, <3>3, <3>4 DEF Transit
  <2> QED BY <2>2, <2>3, <2>4
<1>2. CASE ~UNCHANGED leaving
  <2>1. /\ leaving[t].at = "done" /\ leaving' = [leaving EXCEPT ![t].at = "failed"]
        /\ UNCHANGED <<refreshing, orphaned>>
    BY <1>2 DEF LoseAnswer
  <2>2. /\ leaving'[t].at = "failed" /\ leaving'[t].token = leaving[t].token
        /\ \A u \in Tabs \ {t} : leaving'[u] = leaving[u]
    BY <1>0, <2>1 DEF Awaited
  <2>3. Awaiting' /\ OneEach' /\ Deserted'
    BY <1>0, <2>1, <2>2 DEF TInv, Transit, Awaiting, OneEach, Deserted
  <2>4. AnsweredPairs' /\ StoredPairDiesInTransit'
    BY <1>0, <2>1, <2>2 DEF TInv, Transit, AnsweredPairs, Unheard, StoredPairDiesInTransit
  <2> QED BY <2>3, <2>4 DEF Transit
<1> QED BY <1>1, <1>2

\* Every step of a tab, ...
LEMMA TabTransit ==
  ASSUME TInv, SInv', NEW t \in Tabs, LoseAnswer(t) \/ Tab(t)
  PROVE  Transit'
<1>1. CASE LoggedOut(t)
  BY <1>1, ClearTransit DEF LoggedOut, StoreIs, serverVars
<1>2. CASE EndLogout(t)
  BY <1>2, ClearTransit DEF EndLogout, StoreIs, serverVars
<1>3. CASE StartLogout(t)
  <2>1. CASE store = None
    BY <1>3, <2>1, TransitStays DEF StartLogout, Unmoved, TInv, serverVars
  <2>2. CASE store # None
    <3>1. PICK q : q = [op |-> "logout", token |-> store, at |-> "sent", tab |-> t]
      OBVIOUS
    <3>2. leaving[t].at = "none"
      BY <1>3 DEF StartLogout, Nothing
    <3> QED BY <1>3, <2>2, <3>1, <3>2, SendTransit DEF StartLogout, serverVars
  <2> QED BY <2>1, <2>2
<1> QED BY <1>1, <1>2, <1>3, StoreTransit, ReloadTransit, LoseTransit DEF Tab

\* ... every step of a call ...
LEMMA CallTransit == ASSUME TInv, SInv', NEW c \in Calls, CallStep(c) PROVE Transit'
<1>1. CASE StartCall(c) \/ ServeCall(c) \/ CallSucceeds(c)
  BY <1>1, TransitStays DEF StartCall, ServeCall, CallSucceeds, Unmoved, TInv, serverVars
<1>2. CASE CallRejected(c)
  <2>1. UNCHANGED <<issued, revoked, posts, refreshing, leaving>> /\ TabOf[c] \in Tabs
    BY <1>2 DEF CallRejected, serverVars
  <2>2. CASE call[c].kind = "restore"
    BY <1>2, <2>1, <2>2, ClearTransit DEF CallRejected, StoreIs
  <2>3. CASE call[c].kind # "restore"
    <3>1. store' = store /\ (orphaned => orphaned')
      BY <1>2, <2>3 DEF CallRejected, StoreIs
    <3> QED BY <2>1, <3>1 DEF TInv, Transit, Awaiting, OneEach, AnsweredPairs, Unheard, Deserted,
              StoredPairDiesInTransit
  <2> QED BY <2>2, <2>3
<1>3. CASE CallRefreshes(c)
  <2>1. PICK t : t = TabOf[c]
    OBVIOUS
  <2>2. t \in Tabs
    BY <2>1
  <2>3. CASE refreshing[t].at = "none"
    <3>1. PICK q : q = [op |-> "refresh", token |-> store, at |-> "sent", tab |-> t]
      OBVIOUS
    <3> QED BY <1>3, <2>1, <2>2, <2>3, <3>1, SendTransit DEF CallRefreshes, serverVars
  <2>4. CASE refreshing[t].at # "none"
    BY <1>3, <2>1, <2>4, TransitStays DEF CallRefreshes, Unmoved, TInv, serverVars
  <2> QED BY <2>3, <2>4
<1> QED BY <1>1, <1>2, <1>3 DEF CallStep

\* ... and every other step keeps the invariant.
LEMMA TransitStep == ASSUME TInv, RestOK, [Next]_vars PROVE TInv'
<1>0. SInv' /\ leaving' \in [Tabs -> Awaited]
  BY Step, TypesStep DEF TInv, RestOK
<1>1. Transit'
  <2>1. ASSUME NEW p \in posts, Serve(p) PROVE Transit'
    BY <1>0, <2>1, ServeTransit
  <2>2. ASSUME NEW t \in Tabs, LoseAnswer(t) \/ Tab(t) PROVE Transit'
    BY <1>0, <2>2, TabTransit
  <2>3. ASSUME NEW c \in Calls, CallStep(c) PROVE Transit'
    BY <1>0, <2>3, CallTransit
  <2>4. CASE ExpireAccess \/ SetActive \/ UNCHANGED vars
    <3>1. Unmoved
      BY <2>4 DEF ExpireAccess, SetActive, vars, Unmoved, serverVars, tabVars
    <3> QED BY <3>1, TransitStays DEF TInv
  <2> QED BY <2>1, <2>2, <2>3, <2>4 DEF Next
<1> QED BY <1>0, <1>1 DEF TInv

\* A browser never holds on to a session the server has ended, unless the answer
\* that would have told it so was lost or is still on its way.
THEOREM StoredPairTold == Spec => []StoredPairDiesInTransit
<1>1. Init => TInv
  BY Start, CallTypes DEF Init, TInv, Transit, Awaiting, OneEach, AnsweredPairs, Deserted,
     StoredPairDiesInTransit, Nothing
<1>2. SInv /\ TypeOK => RestOK
  BY DEF RestOK, TypeOK
<1>3. TInv /\ RestOK /\ [Next]_vars => TInv'
  BY TransitStep
<1>4. TInv => StoredPairDiesInTransit
  BY DEF TInv, Transit
<1> QED BY <1>1, <1>2, <1>3, <1>4, Inductive, TypeCorrect, PTL DEF Spec
=============================================================================
