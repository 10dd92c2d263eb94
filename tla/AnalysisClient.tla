---------------------------- MODULE AnalysisClient ----------------------------
(***************************************************************************)
(* The browser's store of AI analyses (frontend lib/analysis.jsx): each    *)
(* tab holds one entry per key (cluster, check and day), polls the server  *)
(* for the entries that run, and mirrors its entries to localStorage,      *)
(* which the tabs of a browser share and whose changes they are told of.   *)
(*                                                                         *)
(* A callback keeps the user it was made for: a poll, its timer and a POST *)
(* in flight outlive the user's session in their tab, and save what they   *)
(* bring under the user they began with.                                   *)
(*                                                                         *)
(* The server is a JobBoard, read when its answer arrives; that it drops   *)
(* settled jobs when it is full is left to ServerRestarts, which tells the *)
(* same 404.  Entries older than a day, which load drops, are left out, as *)
(* is a localStorage that refuses to save.                                 *)
(***************************************************************************)
EXTENDS Integers, FiniteSets, FiniteSetsExt

CONSTANTS
    Tabs, Users,
    Anon,      \* uid of a tab nobody is signed in to
    Keys,
    Owner,     \* Owner[j]: whose token asks for job j
    Outcomes,  \* bound: the ways a job ends that are looked at
    MaxLoops,  \* bound: poll loops of one key alive at once in a tab
    MaxTurns   \* bound: starts, failed calls, logouts and reloads together

Jobs == DOMAIN Owner

ASSUME ClientAssumption ==
    /\ IsFiniteSet(Tabs) /\ IsFiniteSet(Keys) /\ IsFiniteSet(Users)
    /\ Anon \notin Users
    /\ Jobs \subseteq Nat \ {0} /\ IsFiniteSet(Jobs)
    /\ Owner \in [Jobs -> Users]
    /\ Outcomes \subseteq {"done", "error", "no_breach"}
    /\ MaxLoops \in Nat \ {0}
    /\ MaxTurns \in Nat

VARIABLES
    tab,       \* tab[t][k]: entriesRef.current[k], timers.current[k] and the loops of poll(k)
    uid,       \* uid[t]: the user of the provider
    hydrated,  \* hydrated[t]: the effect on [uid] has run for that user
    session,   \* whose tokens are in localStorage
    store,     \* store[u]: localStorage under lsKey(u)
    events,    \* events[t]: the users whose storage events tab t has not been given yet
    posts,     \* the starts whose POST is not answered
    started,   \* the jobs asked for
    stale,     \* the jobs whose start is more than ten seconds ago
    board,     \* the server, as a JobBoard
    trouble

tabVars == <<tab, store, events>>
whoVars == <<uid, hydrated, session>>
vars == <<tabVars, whoVars, posts, started, stale, board, trouble>>

Server == INSTANCE JobBoard

\* There is a turn left (bound).
Turn == Cardinality(started) + trouble < MaxTurns
Trouble == Turn /\ trouble' = trouble + 1
Quiet == UNCHANGED trouble

NoJob == 0
NoLoop == 0
Loops == 1..MaxLoops
Accounts == Users \cup {Anon}

\* "untold": an entry a late { jobId } created, which has no status.
Entry == [status: {"none", "untold", "running"} \cup Server!Settled,
          start: Jobs \cup {NoJob}, job: Jobs \cup {NoJob}]
NoEntry == [status |-> "none", start |-> NoJob, job |-> NoJob]

\* A call of poll, in flight or waiting for its timer, made for user by.
Idle == [phase |-> "idle", job |-> NoJob, by |-> Anon, as |-> Anon]
Loop == [phase: {"idle", "asking", "waiting"}, job: Jobs \cup {NoJob}, by: Accounts, as: Accounts]
Cell == [entry: Entry, loop: [Loops -> Loop], timer: Loops \cup {NoLoop}]
NewCell == [entry |-> NoEntry, loop |-> [l \in Loops |-> Idle], timer |-> NoLoop]

-----------------------------------------------------------------------------
(* The store's helpers, on the cell of one key *)

Pollable(e) == e.status = "running" /\ e.job # NoJob

\* The patches of setEntry, which create the entry they do not find.  Start
\* and job matter while an entry runs and are left out of the others.
WithStatus(c, s) == [c EXCEPT !.entry = [NoEntry EXCEPT !.status = s]]
WithJob(c, j) == IF c.entry.status = "running" THEN [c EXCEPT !.entry.job = j]
                 ELSE IF c.entry = NoEntry THEN WithStatus(c, "untold") ELSE c

\* clearTimeout stops a waiting loop only: one in flight goes on, and a timer
\* that has fired is still in timers.current until something clears it.
Stopped(c) ==
    IF c.timer # NoLoop /\ c.loop[c.timer].phase = "waiting"
    THEN [c EXCEPT !.loop[c.timer] = Idle] ELSE c

\* A plausible bug: the timer is cancelled and stays in timers.current.
CancelledOnly(c) == Stopped(c)

ClearTimer(c) == [Stopped(c) EXCEPT !.timer = NoLoop]

FreeLoops(c) == {l \in Loops : c.loop[l].phase = "idle"}

\* A call of poll as loop l, of user u.
Poll(c, l, u) ==
    IF Pollable(c.entry)
    THEN [c EXCEPT !.loop[l] = [phase |-> "asking", job |-> c.entry.job, by |-> u, as |-> session]]
    ELSE ClearTimer([c EXCEPT !.loop[l] = Idle])

EnsurePoll(c, u) == IF c.timer = NoLoop THEN Poll(c, Min(FreeLoops(c)), u) ELSE c

\* There is a loop left to call poll with (bound).
RoomToPoll(t) == \A k \in Keys : FreeLoops(tab[t][k]) # {}

Entries(cells) == [k \in Keys |-> cells[k].entry]

\* save(u, entries): the other tabs get an event when that changes anything.
Save(t, u, cells, due) ==
    /\ store' = [store EXCEPT ![u] = Entries(cells)]
    /\ events' = [s \in Tabs |-> IF s # t /\ store[u] # Entries(cells)
                                 THEN due[s] \cup {u} ELSE due[s]]

\* The tab's cell of k becomes c, which setEntry saves for user u.
SetEntry(t, k, c, u) ==
    LET cells == [tab[t] EXCEPT ![k] = c]
    IN  tab' = [tab EXCEPT ![t] = cells] /\ Save(t, u, cells, events)

\* The cell of k becomes c with its entry as it was.
SetCell(t, k, c) ==
    /\ tab' = [tab EXCEPT ![t][k] = c]
    /\ UNCHANGED <<store, events>>

-----------------------------------------------------------------------------
(* Hydration *)

\* Running without a job, more than ten seconds after it was started.
Interrupted(e) ==
    /\ e.status = "running" /\ e.job = NoJob
    /\ e.start \in stale

HydratedCell(c, e, u) ==
    LET loaded == [c EXCEPT !.entry = e]
    IN  CASE Pollable(e) -> EnsurePoll(loaded, u)
          [] Interrupted(e) -> WithStatus(loaded, "error")
          [] OTHER -> loaded

\* due: the events that are left to be given to the tabs.
Hydrate(t, due) ==
    LET loaded == store[uid[t]]
        cells == [k \in Keys |-> HydratedCell(tab[t][k], loaded[k], uid[t])]
    IN  /\ RoomToPoll(t)
        /\ tab' = [tab EXCEPT ![t] = cells]
        /\ IF \E k \in Keys : Interrupted(loaded[k])
           THEN Save(t, uid[t], cells, due)
           ELSE store' = store /\ events' = due

\* The effect on [uid].
HydrateUser(t) ==
    /\ ~hydrated[t]
    /\ Hydrate(t, events)
    /\ hydrated' = [hydrated EXCEPT ![t] = TRUE]
    /\ Quiet /\ UNCHANGED <<uid, session, posts, started, stale, board>>

\* The storage listener, which ignores what is saved for other users.
OnStorage(t, u) ==
    LET due == [events EXCEPT ![t] = @ \ {u}]
    IN  /\ u \in events[t] /\ hydrated[t]
        /\ IF u = uid[t] THEN Hydrate(t, due)
           ELSE events' = due /\ UNCHANGED <<tab, store>>
        /\ Quiet /\ UNCHANGED <<whoVars, posts, started, stale, board>>

-----------------------------------------------------------------------------
(* What the pages call: start and reset *)

\* What start finds: the tab's entry, or else the one in localStorage.
Existing(t, k) == IF tab[t][k].entry # NoEntry THEN tab[t][k].entry ELSE store[uid[t]][k]
Standing == {"running", "done", "no_breach"}

\* Nothing is run twice: an entry that is only in localStorage is taken over,
\* and whatever runs is polled.
Adopt(t, k) ==
    LET found == Existing(t, k)
        adopted == [tab[t][k] EXCEPT !.entry = found]
        polled == IF Pollable(found) THEN EnsurePoll(adopted, uid[t]) ELSE adopted
    IN  /\ uid[t] # Anon /\ RoomToPoll(t)
        /\ found.status \in Standing
        /\ IF tab[t][k].entry = NoEntry THEN SetEntry(t, k, polled, uid[t]) ELSE SetCell(t, k, polled)
        /\ Quiet /\ UNCHANGED <<whoVars, posts, started, stale, board>>

\* The next start with the tokens that are stored (bound: there is one left).
NextJobs == {j \in Jobs \ started : Owner[j] = session}

Start(t, k) ==
    /\ uid[t] # Anon /\ NextJobs # {} /\ Turn
    /\ Existing(t, k).status \notin Standing
    /\ LET j == Min(NextJobs)
       IN  /\ SetEntry(t, k, [tab[t][k] EXCEPT !.entry = [status |-> "running", start |-> j, job |-> NoJob]],
                       uid[t])
           /\ posts' = posts \cup {[tab |-> t, key |-> k, job |-> j, by |-> uid[t]]}
           /\ started' = started \cup {j}
    /\ Quiet /\ UNCHANGED <<whoVars, stale, board>>

\* The server takes the job and its answer arrives: setEntry(key, { jobId }),
\* and at once poll(key).
PostAnswered(p) ==
    LET c == WithJob(tab[p.tab][p.key], p.job)
    IN  /\ RoomToPoll(p.tab)
        /\ Server!Post(p.job)
        /\ SetEntry(p.tab, p.key, Poll(c, Min(FreeLoops(c)), p.by), p.by)
        /\ posts' = posts \ {p}
        /\ Quiet /\ UNCHANGED <<whoVars, started, stale>>

\* Refused, or lost on its way there or back: a job taken then is polled by nobody.
PostFails(p) ==
    /\ SetEntry(p.tab, p.key, WithStatus(tab[p.tab][p.key], "error"), p.by)
    /\ posts' = posts \ {p}
    /\ Trouble /\ UNCHANGED <<whoVars, started, stale, board>>

\* Offered on an entry that is done or has failed.
Reset(t, k) ==
    /\ uid[t] # Anon /\ tab[t][k].entry.status \in {"done", "error"}
    /\ SetEntry(t, k, [ClearTimer(tab[t][k]) EXCEPT !.entry = NoEntry], uid[t])
    /\ Quiet /\ UNCHANGED <<whoVars, posts, started, stale, board>>

-----------------------------------------------------------------------------
(* The poll loops *)

\* GET /analysis/{job_id}: 404 for a job that is not there, 403 for another's
\* (the users here are no administrators).
Told(l) == IF l.job \in Jobs /\ Owner[l.job] = l.as THEN board[l.job] ELSE "gone"

\* A plausible bug: a 404 is taken for a job that runs.
StillRunning(s) == s \in {"running", "gone"}

Runs(s) == s = "running"

\* The answer to loop l of k.
PollAnswered(t, k, l) ==
    LET c == tab[t][k]
        told == Told(c.loop[l])
        status == IF told \in Server!Settled THEN told ELSE "error"
    IN  /\ c.loop[l].phase = "asking"
        /\ IF Runs(told)
           THEN SetCell(t, k, [c EXCEPT !.loop[l].phase = "waiting", !.loop[l].job = NoJob, !.timer = l])
           ELSE SetEntry(t, k, WithStatus(ClearTimer([c EXCEPT !.loop[l] = Idle]), status), c.loop[l].by)
        /\ Quiet /\ UNCHANGED <<whoVars, posts, started, stale, board>>

\* No answer, or one that is an error.
PollFails(t, k, l) ==
    LET c == tab[t][k]
    IN  /\ c.loop[l].phase = "asking"
        /\ SetEntry(t, k, WithStatus(ClearTimer([c EXCEPT !.loop[l] = Idle]), "error"), c.loop[l].by)
        /\ Trouble /\ UNCHANGED <<whoVars, posts, started, stale, board>>

TimerFires(t, k, l) ==
    /\ tab[t][k].loop[l].phase = "waiting"
    /\ SetCell(t, k, Poll(tab[t][k], l, tab[t][k].loop[l].by))
    /\ Quiet /\ UNCHANGED <<whoVars, posts, started, stale, board>>

-----------------------------------------------------------------------------
(* Users, tabs, the server and time *)

\* The provider's user changes: the timers it knows of are cleared.
ChangeUser(t, u) ==
    /\ uid' = [uid EXCEPT ![t] = u]
    /\ hydrated' = [hydrated EXCEPT ![t] = FALSE]
    /\ tab' = [tab EXCEPT ![t] = [k \in Keys |-> ClearTimer(tab[t][k])]]
    /\ UNCHANGED <<store, events, posts, started, stale, board>>

Login(t, u) ==
    /\ uid[t] = Anon /\ hydrated[t]
    /\ session' = u /\ ChangeUser(t, u)
    /\ Quiet

Logout(t) ==
    /\ uid[t] # Anon /\ Trouble
    /\ session' = Anon /\ ChangeUser(t, Anon)

\* The page's memory goes; it comes back with whoever is signed in.
Reload(t) ==
    /\ Trouble
    /\ tab' = [tab EXCEPT ![t] = [k \in Keys |-> NewCell]]
    /\ uid' = [uid EXCEPT ![t] = session]
    /\ hydrated' = [hydrated EXCEPT ![t] = FALSE]
    /\ events' = [events EXCEPT ![t] = {}]
    /\ posts' = {p \in posts : p.tab # t}
    /\ UNCHANGED <<session, store, started, stale, board>>

ServerSettles(j) ==
    /\ \E s \in Outcomes : Server!Settle(j, s)
    /\ Quiet /\ UNCHANGED <<tabVars, whoVars, posts, started, stale>>

ServerRestarts ==
    /\ \E j \in Jobs : board[j] # "unposted"
    /\ Server!Restart({})
    /\ Quiet /\ UNCHANGED <<tabVars, whoVars, posts, started, stale>>

\* Ten seconds after a start.  (Looked at while its POST is not answered.)
GrowsStale(j) ==
    /\ j \in started \ stale
    /\ \E e \in {tab[t][k].entry : t \in Tabs, k \in Keys}
               \cup {store[u][k] : u \in Accounts, k \in Keys} :
           e.status = "running" /\ e.start = j /\ e.job = NoJob
    /\ stale' = stale \cup {j}
    /\ Quiet /\ UNCHANGED <<tabVars, whoVars, posts, started, board>>

-----------------------------------------------------------------------------

Init ==
    /\ tab = [t \in Tabs |-> [k \in Keys |-> NewCell]]
    /\ store = [u \in Accounts |-> [k \in Keys |-> NoEntry]]
    /\ events = [t \in Tabs |-> {}]
    /\ uid = [t \in Tabs |-> Anon] /\ hydrated = [t \in Tabs |-> TRUE]
    /\ session = Anon
    /\ posts = {} /\ started = {} /\ stale = {}
    /\ Server!Init
    /\ trouble = 0

Next ==
    \/ \E t \in Tabs : HydrateUser(t) \/ Logout(t) \/ Reload(t)
    \/ \E t \in Tabs, u \in Users : OnStorage(t, u) \/ Login(t, u)
    \/ \E t \in Tabs, k \in Keys : Adopt(t, k) \/ Start(t, k) \/ Reset(t, k)
    \/ \E p \in posts : PostAnswered(p) \/ PostFails(p)
    \/ \E t \in Tabs, k \in Keys, l \in Loops :
           PollAnswered(t, k, l) \/ PollFails(t, k, l) \/ TimerFires(t, k, l)
    \/ \E j \in Jobs : ServerSettles(j) \/ GrowsStale(j)
    \/ ServerRestarts

Spec == Init /\ [][Next]_vars

\* The browser runs the effects of an open page and the timers of every key, and
\* a request gets an answer, if only an error.  Nothing is assumed of the server:
\* a job may run for ever, as one whose thread cannot start does.
Fairness ==
    /\ WF_vars(\E t \in Tabs : HydrateUser(t))
    /\ \A t \in Tabs, k \in Keys :
           WF_vars(\E l \in Loops : PollAnswered(t, k, l) \/ TimerFires(t, k, l))

FairSpec == Spec /\ Fairness

-----------------------------------------------------------------------------

TypeOK ==
    /\ tab \in [Tabs -> [Keys -> Cell]]
    /\ store \in [Accounts -> [Keys -> Entry]]
    /\ events \in [Tabs -> SUBSET Users]
    /\ uid \in [Tabs -> Accounts] /\ hydrated \in [Tabs -> BOOLEAN] /\ session \in Accounts
    /\ posts \subseteq [tab: Tabs, key: Keys, job: Jobs, by: Users]
    /\ started \subseteq Jobs /\ stale \subseteq started
    /\ board \in [Jobs -> Server!View] /\ trouble \in 0..MaxTurns

\* An entry that shows "running" has a loop that polls for it, whatever
\* answers, events and timers came in between: the spinner that turns until the
\* page is refreshed, which the comment on entriesRef tells of, does not return.
RunningIsPolled == \A t \in Tabs, k \in Keys :
    hydrated[t] /\ Pollable(tab[t][k].entry) =>
        \E l \in Loops : tab[t][k].loop[l].phase # "idle"

\* The tab shows a job as running that is over on the server: settled, or lost
\* by a restart.
ShownOver(t, k) ==
    LET e == tab[t][k].entry
    IN  Pollable(e) /\ board[e.job] # "running"

\* No entry does so for ever: whatever loops of the key are alive, some of them
\* for jobs that never settle, one asks for the entry's own job in the end and
\* ends it (poll).  It says that the entry ends, not with what: the late answer
\* to a loop that asked for an older job of the key may have ended it before.
PolledEntrySettles == \A t \in Tabs, k \in Keys : ShownOver(t, k) ~> ~ShownOver(t, k)

=============================================================================
