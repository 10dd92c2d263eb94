------------------------------- MODULE Sessions -------------------------------
(***************************************************************************)
(* Sign-in sessions of one user in one browser: the pair of access and     *)
(* refresh token in localStorage, which all tabs share, the transparent    *)
(* refresh on a 401 (one promise per tab, shared by the tab's calls), and  *)
(* the server that rotates refresh tokens and keeps the revoked ones.      *)
(*                                                                         *)
(* A pair of tokens is the number under which it was issued; access tokens *)
(* expire in that order.  That a refresh token expires is left out: it is  *)
(* then refused, and any refresh may fail here.  The server's handlers for *)
(* refresh and logout are a look-up and a commit, between which other      *)
(* requests run.                                                           *)
(***************************************************************************)
EXTENDS Naturals, FiniteSets

CONSTANTS
    Tabs,       \* the tabs of the browser
    Calls,      \* the calls of the pages to protected routes, ...
    TabOf,      \* ... each made in the tab TabOf[c]
    NoTab,      \* the sender of a request nobody waits for any more
    MaxPairs,   \* bound: pairs ever issued
    MaxFaults   \* bound: lost messages, page loads that forget something, and
                \*        times the user is disabled

None == 0       \* no token

ASSUME SessionsAssumption ==
    /\ TabOf \in [Calls -> Tabs]
    /\ NoTab \notin Tabs
    /\ MaxPairs \in Nat
    /\ MaxFaults \in Nat

VARIABLES
    issued,       \* pairs 1..issued have been minted
    login,        \* login[n]: the first pair of the sign-in n descends from (history)
    revoked,      \* table revoked_tokens
    accessDead,   \* access tokens 1..accessDead have expired
    enabled,      \* User.is_active
    posts,        \* the POSTs to /auth/refresh and /auth/logout being served
    store,        \* the pair in localStorage
    user,         \* user[t]: whether AuthProvider of tab t has a user
    refreshing,   \* refreshing[t]: the refresh tab t awaits
    leaving,      \* leaving[t]: the logout tab t awaits
    call,         \* call[c]: a call made with axios
    orphaned,     \* an answer about the stored pair was lost (history)
    faults

serverVars == <<issued, login, revoked>>
envVars == <<accessDead, enabled>>
tabVars == <<user, refreshing, leaving, call>>
vars == <<serverVars, envVars, posts, store, tabVars, orphaned, faults>>

Pairs == 1..MaxPairs
Tokens == 0..MaxPairs

Post == [op : {"refresh", "logout"}, token : Tokens, at : {"sent", "checked"},
         tab : Tabs \union {NoTab}]
Awaited == [at : {"none", "out", "done", "failed"}, token : Tokens, pair : Tokens]
Call == [at : {"idle", "sent", "ok", "failed", "denied", "waiting"},
         kind : {"page", "login", "restore"}, token : Tokens, retried : BOOLEAN]

Nothing == [at |-> "none", token |-> None, pair |-> None]
Idle == [at |-> "idle", kind |-> "page", token |-> None, retried |-> FALSE]
Sent(kind, n, retried) ==
    [at |-> "sent", kind |-> kind, token |-> n, retried |-> retried]

CallsOf(t) == {c \in Calls : TabOf[c] = t}

\* The calls of tab t become Idle, as when its page is loaded anew.
Dropped(t) == [c \in Calls |-> IF TabOf[c] = t THEN Idle ELSE call[c]]
Abandoned(t) ==
    {IF p.tab = t THEN [p EXCEPT !.tab = NoTab] ELSE p : p \in posts}

\* The store becomes the pair n; what was lost about the former no longer matters.
StoreIs(n) ==
    /\ store' = n
    /\ orphaned' = (orphaned /\ n = store)

Init ==
    /\ issued = 0
    /\ login = [n \in Pairs |-> None]
    /\ revoked = {}
    /\ accessDead = 0
    /\ enabled = TRUE
    /\ posts = {}
    /\ store = None
    /\ user = [t \in Tabs |-> FALSE]
    /\ refreshing = [t \in Tabs |-> Nothing]
    /\ leaving = [t \in Tabs |-> Nothing]
    /\ call = [c \in Calls |-> Idle]
    /\ orphaned = FALSE
    /\ faults = 0

-----------------------------------------------------------------------------
(* The server *)

AccessAccepted(n) == n # None /\ n > accessDead /\ enabled
RefreshDecodes(n) == n # None

IsRevoked(n) == n \in revoked     \* the look-up
\* Mutant of UniqueJti: the column is not unique.
InsertsAlways(n) == n \in Pairs
UniqueJti(n) == n \notin revoked  \* what the unique column lets a commit insert

Fault ==
    /\ faults < MaxFaults
    /\ faults' = faults + 1

\* The next pair, of the sign-in l (its own when it is the first).
Mint(l) ==
    /\ issued < MaxPairs
    /\ issued' = issued + 1
    /\ login' = [login EXCEPT ![issued + 1] = l]

\* The answer of post p reaches its tab, if that still waits.
AnswerWith(p, outcome, pair) ==
    /\ posts' = posts \ {p}
    /\ refreshing' =
          IF p.op = "refresh" /\ p.tab \in Tabs
          THEN [refreshing EXCEPT ![p.tab].at = outcome, ![p.tab].pair = pair]
          ELSE refreshing
    /\ leaving' =
          IF p.op = "logout" /\ p.tab \in Tabs
          THEN [leaving EXCEPT ![p.tab].at = outcome]
          ELSE leaving
    /\ UNCHANGED <<user, call, store, orphaned>>

Proceed(p) ==
    /\ posts' = (posts \ {p}) \union {[p EXCEPT !.at = "checked"]}
    /\ UNCHANGED <<serverVars, store, tabVars, orphaned>>

\* POST /auth/refresh: the token, the revocation list and the account are looked up.
RefreshLookUp(p) ==
    /\ p.op = "refresh" /\ p.at = "sent"
    /\ IF RefreshDecodes(p.token) /\ ~IsRevoked(p.token) /\ enabled
       THEN Proceed(p)
       ELSE AnswerWith(p, "failed", None) /\ UNCHANGED serverVars

\* POST /auth/refresh: the used token is revoked and a new pair answered, unless
\* another request has revoked it since: then the commit fails.
RefreshCommit(p) ==
    /\ p.op = "refresh" /\ p.at = "checked"
    /\ IF UniqueJti(p.token)
       THEN /\ Mint(login[p.token])
            /\ revoked' = revoked \union {p.token}
            /\ AnswerWith(p, "done", issued + 1)
       ELSE AnswerWith(p, "failed", None) /\ UNCHANGED serverVars

\* POST /auth/logout: an expired or revoked token leaves nothing to do.
LogoutLookUp(p) ==
    /\ p.op = "logout" /\ p.at = "sent"
    /\ IF RefreshDecodes(p.token) /\ ~IsRevoked(p.token)
       THEN Proceed(p)
       ELSE AnswerWith(p, "done", None) /\ UNCHANGED serverVars

LogoutCommit(p) ==
    /\ p.op = "logout" /\ p.at = "checked"
    /\ IF UniqueJti(p.token)
       THEN /\ revoked' = revoked \union {p.token}
            /\ AnswerWith(p, "done", None)
            /\ UNCHANGED <<issued, login>>
       ELSE AnswerWith(p, "failed", None) /\ UNCHANGED serverVars

\* The request is lost, or the server fails, before anything is committed.  At the
\* bound of pairs a refresh can only fail.
Lose(p) ==
    /\ IF issued = MaxPairs THEN UNCHANGED faults ELSE Fault
    /\ AnswerWith(p, "failed", None)
    /\ UNCHANGED serverVars

Serve(p) ==
    /\ \/ /\ RefreshLookUp(p) \/ RefreshCommit(p) \/ LogoutLookUp(p) \/ LogoutCommit(p)
          /\ UNCHANGED faults
       \/ Lose(p)
    /\ UNCHANGED envVars

\* An answer is lost after the commit.
LoseAnswer(t) ==
    /\ \/ /\ refreshing[t].at = "done"
          /\ refreshing' = [refreshing EXCEPT ![t] =
                                [at |-> "failed", token |-> @.token, pair |-> None]]
          /\ orphaned' = (orphaned \/ refreshing[t].token = store)
          /\ UNCHANGED leaving
       \/ /\ leaving[t].at = "done"
          /\ leaving' = [leaving EXCEPT ![t].at = "failed"]
          /\ UNCHANGED <<refreshing, orphaned>>
    /\ Fault
    /\ UNCHANGED <<serverVars, envVars, posts, store, user, call>>

\* get_current_user on a call's access token; or the call, or its answer, is lost.
\* A first 401 is "denied", any other error "failed"; and nothing here depends on
\* what the call of a page was answered.
ServeCall(c) ==
    LET answer == IF AccessAccepted(call[c].token) THEN "ok"
                  ELSE IF call[c].retried THEN "failed" ELSE "denied"
        Answered(a) == [call EXCEPT ![c] =
                           IF @.kind = "page" /\ a # "denied" THEN Idle
                           ELSE [@ EXCEPT !.at = a, !.token = None, !.retried = FALSE]]
    IN
    /\ call[c].at = "sent"
    /\ \/ call' = Answered(answer) /\ UNCHANGED faults
       \/ call' = Answered("failed") /\ Fault
    /\ UNCHANGED <<serverVars, envVars, posts, store, user, refreshing, leaving, orphaned>>

-----------------------------------------------------------------------------
(* Time, and the administrator *)

\* Mutant of ExpireAccess: tokens that have not been issued yet expire.
ExpireAhead ==
    /\ accessDead < MaxPairs
    /\ accessDead' = accessDead + 1
    /\ UNCHANGED <<serverVars, enabled, posts, store, tabVars, orphaned, faults>>

ExpireAccess ==
    /\ accessDead < issued
    /\ accessDead' = accessDead + 1
    /\ UNCHANGED <<serverVars, enabled, posts, store, tabVars, orphaned, faults>>

SetActive ==
    /\ enabled' = ~enabled
    /\ IF enabled THEN Fault ELSE UNCHANGED faults
    /\ UNCHANGED <<serverVars, accessDead, posts, store, tabVars, orphaned>>

-----------------------------------------------------------------------------
(* A tab *)

\* A user who is signed in opens a page that calls the server.
StartCall(c) ==
    /\ user[TabOf[c]]
    /\ call[c] = Idle
    /\ call' = [call EXCEPT ![c] = Sent("page", store, FALSE)]
    /\ UNCHANGED <<serverVars, envVars, posts, store, user, refreshing, leaving,
                   orphaned, faults>>

\* login(): POST /auth/login, the pair is stored, then GET /auth/me.
Login(t) ==
    /\ ~user[t]
    /\ \A c \in CallsOf(t) : call[c].at # "idle" => call[c].kind = "page"
    /\ enabled
    /\ Mint(issued + 1)
    /\ StoreIs(issued + 1)
    /\ \E c \in CallsOf(t) :
          /\ call[c] = Idle
          /\ call' = [call EXCEPT ![c] = Sent("login", issued + 1, FALSE)]
    /\ UNCHANGED <<revoked, envVars, posts, user, refreshing, leaving, faults>>

\* The answer of /auth/me sets the user.
CallSucceeds(c) ==
    /\ call[c].at = "ok"
    /\ user' = [user EXCEPT ![TabOf[c]] = TRUE]
    /\ call' = [call EXCEPT ![c] = Idle]
    /\ UNCHANGED <<serverVars, envVars, posts, store, refreshing, leaving, orphaned,
                   faults>>

\* An error the interceptor passes on; restore() clears the tokens on any.
CallRejected(c) ==
    /\ call[c].at = "failed"
    /\ call' = [call EXCEPT ![c] = Idle]
    /\ StoreIs(IF call[c].kind = "restore" THEN None ELSE store)
    /\ UNCHANGED <<serverVars, envVars, posts, user, refreshing, leaving, faults>>

\* The first 401 of a call: it waits for the tab's refresh, begun if there is none.
CallRefreshes(c) ==
    LET t == TabOf[c] IN
    /\ call[c].at = "denied"
    /\ call' = [call EXCEPT ![c].at = "waiting"]
    /\ IF refreshing[t].at = "none"
       THEN /\ refreshing' = [refreshing EXCEPT ![t] =
                                 [at |-> "out", token |-> store, pair |-> None]]
            /\ posts' = posts \union
                  {[op |-> "refresh", token |-> store, at |-> "sent", tab |-> t]}
       ELSE UNCHANGED <<refreshing, posts>>
    /\ UNCHANGED <<serverVars, envVars, store, user, leaving, orphaned, faults>>

\* Mutant of Replayed: only one of the calls that share the refresh is sent again.
ReplayedOnce(t, n) ==
    [call EXCEPT ![CHOOSE c \in CallsOf(t) : call[c].at = "waiting"] =
        Sent(@.kind, n, TRUE)]

\* The calls of tab t that wait are sent again with the new pair.
Replayed(t, n) ==
    [c \in Calls |-> IF TabOf[c] = t /\ call[c].at = "waiting"
                     THEN Sent(call[c].kind, n, TRUE)
                     ELSE call[c]]

\* Mutant of Refreshed: the new pair is used but not stored.
RefreshedUnsaved(t) ==
    /\ refreshing[t].at = "done"
    /\ call' = Replayed(t, refreshing[t].pair)
    /\ refreshing' = [refreshing EXCEPT ![t] = Nothing]
    /\ UNCHANGED <<serverVars, envVars, posts, store, user, leaving, orphaned, faults>>

Refreshed(t) ==
    /\ refreshing[t].at = "done"
    /\ StoreIs(refreshing[t].pair)
    /\ call' = Replayed(t, refreshing[t].pair)
    /\ refreshing' = [refreshing EXCEPT ![t] = Nothing]
    /\ UNCHANGED <<serverVars, envVars, posts, user, leaving, faults>>

OnLoginPage(t) ==
    /\ ~user[t]
    /\ \A c \in CallsOf(t) : call[c].kind # "restore"

\* Tab t is loaded anew: what it held in memory is gone, and nobody reads the
\* answers to what it had sent.
Forget(t) ==
    /\ user' = [user EXCEPT ![t] = FALSE]
    /\ refreshing' = [refreshing EXCEPT ![t] = Nothing]
    /\ leaving' = [leaving EXCEPT ![t] = Nothing]
    /\ posts' = Abandoned(t)

\* Tab t awaits, or has yet to read, an answer about the stored pair.
LostWith(t) ==
    \/ refreshing[t].at \in {"out", "done"} /\ refreshing[t].token = store
    \/ leaving[t].at # "none" /\ leaving[t].token = store

\* onLoggedOut(): a failed refresh clears the tokens and, elsewhere than on the
\* login page, loads that page; there the calls that waited are rejected.
LoggedOut(t) ==
    /\ refreshing[t].at = "failed"
    /\ StoreIs(None)
    /\ IF OnLoginPage(t)
       THEN /\ call' = [c \in Calls |-> IF TabOf[c] = t /\ call[c].at = "waiting"
                                        THEN Idle ELSE call[c]]
            /\ refreshing' = [refreshing EXCEPT ![t] = Nothing]
            /\ UNCHANGED <<user, leaving, posts>>
       ELSE /\ Forget(t)
            /\ call' = Dropped(t)
    /\ UNCHANGED <<serverVars, envVars, faults>>

\* Nothing of tab t is in memory, as when it has just been opened.
Blank(t) ==
    /\ ~user[t] /\ refreshing[t] = Nothing /\ leaving[t] = Nothing
    /\ \A c \in CallsOf(t) : call[c] = Idle

\* The tab is opened or its page loaded again: with tokens in the store, restore()
\* asks /auth/me.
Reload(t) ==
    /\ IF Blank(t) THEN store # None /\ UNCHANGED faults
                   ELSE Fault
    /\ Forget(t)
    /\ IF store = None
       THEN call' = Dropped(t)
       ELSE \E c \in CallsOf(t) :
               call' = [Dropped(t) EXCEPT ![c] = Sent("restore", store, FALSE)]
    /\ orphaned' = (orphaned \/ (store # None /\ LostWith(t)))
    /\ UNCHANGED <<serverVars, envVars, store>>

\* logout() sends the refresh token of the store; with none it is done at once.
StartLogout(t) ==
    /\ user[t] /\ leaving[t] = Nothing
    /\ IF store = None
       THEN user' = [user EXCEPT ![t] = FALSE] /\ UNCHANGED <<leaving, posts>>
       ELSE /\ leaving' = [leaving EXCEPT ![t] =
                              [at |-> "out", token |-> store, pair |-> None]]
            /\ posts' = posts \union
                  {[op |-> "logout", token |-> store, at |-> "sent", tab |-> t]}
            /\ UNCHANGED user
    /\ UNCHANGED <<serverVars, envVars, store, refreshing, call, orphaned, faults>>

\* The store is cleared whatever came back; the user only after an answer.
EndLogout(t) ==
    /\ leaving[t].at \in {"done", "failed"}
    /\ StoreIs(None)
    /\ user' = [user EXCEPT ![t] = @ /\ leaving[t].at = "failed"]
    /\ leaving' = [leaving EXCEPT ![t] = Nothing]
    /\ UNCHANGED <<serverVars, envVars, posts, refreshing, call, faults>>

-----------------------------------------------------------------------------

Tab(t) == Login(t) \/ Refreshed(t) \/ LoggedOut(t) \/ Reload(t)
             \/ StartLogout(t) \/ EndLogout(t)
CallStep(c) == StartCall(c) \/ ServeCall(c) \/ CallSucceeds(c) \/ CallRejected(c)
                  \/ CallRefreshes(c)

Next ==
    \/ \E p \in posts : Serve(p)
    \/ \E t \in Tabs : LoseAnswer(t) \/ Tab(t)
    \/ \E c \in Calls : CallStep(c)
    \/ ExpireAccess \/ SetActive

Spec == Init /\ [][Next]_vars

\* Requests are answered or time out, and a tab's event loop runs what has come back.
Fairness ==
    /\ \A t \in Tabs : /\ WF_vars(\E p \in posts : p.tab = t /\ Serve(p))
                       /\ WF_vars(Refreshed(t) \/ LoggedOut(t))
    /\ \A c \in Calls : /\ WF_vars(ServeCall(c))
                        /\ WF_vars(CallSucceeds(c) \/ CallRejected(c) \/ CallRefreshes(c))

FairSpec == Spec /\ Fairness

-----------------------------------------------------------------------------
(* Properties *)

TypeOK ==
    /\ issued \in Tokens
    /\ login \in [Pairs -> Tokens]
    /\ revoked \subseteq 1..issued
    /\ accessDead \in 0..issued
    /\ enabled \in BOOLEAN
    /\ posts \subseteq Post
    /\ store \in 0..issued
    /\ user \in [Tabs -> BOOLEAN]
    /\ refreshing \in [Tabs -> Awaited]
    /\ leaving \in [Tabs -> Awaited]
    /\ call \in [Calls -> Call]
    /\ orphaned \in BOOLEAN
    /\ faults \in 0..MaxFaults

Live(l) == {n \in 1..issued : login[n] = l /\ n \notin revoked}

\* However many requests carry the same refresh token at the same time, a
\* sign-in never has two refresh tokens the server would honour.
OneLiveTokenPerLogin ==
    \A m, n \in 1..issued :
        login[m] = login[n] /\ m \notin revoked /\ n \notin revoked => m = n

\* Once a sign-in has no token that is not revoked, no request that is still
\* being served brings it back: a session ended by logout stays ended.
EndedLoginStaysEnded ==
    [][\A l \in 1..issued : Live(l) = {} => Live(l)' = {}]_vars

\* A stored pair is revoked only while its successor, or the answer to a logout,
\* is on its way to a tab, or when such an answer has been lost: otherwise a
\* browser never holds on to a session the server has ended.
StoredPairDiesInTransit ==
    store \in revoked =>
        \/ orphaned
        \/ \E t \in Tabs : \/ refreshing[t].at = "done" /\ refreshing[t].token = store
                           \/ leaving[t].at # "none" /\ leaving[t].token = store

\* Every call of a page comes back with an answer or an error, whatever refresh it
\* has waited for.
CallSettles == \A c \in Calls : call[c].at # "idle" ~> call[c].at = "idle"

\* "Clearing it is a full logout" (tokens.js): only a new sign-in fills an empty store.
OnlyLoginFillsStore ==
    [][store = None /\ store' # None => \E t \in Tabs : Login(t)]_vars
=============================================================================
