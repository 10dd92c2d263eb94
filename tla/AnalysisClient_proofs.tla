------------------------ MODULE AnalysisClient_proofs ------------------------
(***************************************************************************)
(* What the browser's store of analyses keeps, for any tabs, users, keys,  *)
(* jobs and loops: that its state has its types and that no entry shows    *)
(* "running" without a loop that polls for it.                             *)
(*                                                                         *)
(* The second rests on ensurePoll being right to look at the timer alone:  *)
(* a timer names a loop that is alive.  The loop it names may have gone on *)
(* asking since, and other loops of the key may be alive as well.          *)
(***************************************************************************)
EXTENDS AnalysisClient, FiniteSetTheorems, WellFoundedInduction, TLAPS

\* A cell whose loops, those that are alive, poll for somebody.
Attended == {c \in Cell : \A l \in Loops : c.loop[l].phase # "idle" => c.loop[l].by \in Users}

\* And whose timer, if it is set, names one of them.
TimerAlive(c) == c.timer # NoLoop => c.loop[c.timer].phase # "idle"
Sound == {c \in Attended : TimerAlive(c)}

Alive(c) == \E l \in Loops : c.loop[l].phase # "idle"

\* Nobody starts anything, or saves anything, without being signed in.
NothingOfAnon == \A k \in Keys : store[Anon][k] = NoEntry

CInv ==
    /\ TypeOK
    /\ \A t \in Tabs, k \in Keys : tab[t][k] \in Sound
    /\ NothingOfAnon
    /\ RunningIsPolled

-----------------------------------------------------------------------------
(* The store's helpers *)

\* A set of numbers that is not empty has a least element: the CHOOSE of Min.
LEMMA MinIsOne ==
  ASSUME NEW S, S \subseteq Nat, S # {}
  PROVE  Min(S) \in S
<1>1. PICK x \in S : \A y \in S : ~ (<<y, x>> \in OpToRel(<, Nat))
  BY NatLessThanWellFounded, WFMin
<1>2. ASSUME NEW y \in S PROVE x <= y
  <2>1. ~ (y < x)
    BY <1>1, Zenon DEF OpToRel
  <2> QED BY <2>1
<1> QED BY <1>2 DEF Min

LEMMA FreeLoop ==
  ASSUME NEW c, FreeLoops(c) # {}
  PROVE  Min(FreeLoops(c)) \in Loops
<1>1. FreeLoops(c) \subseteq Nat
  BY ClientAssumption DEF FreeLoops, Loops
<1>2. Min(FreeLoops(c)) \in FreeLoops(c)
  BY <1>1, MinIsOne
<1> QED BY <1>2 DEF FreeLoops

\* Loops are numbered from one, and no loop is what no timer names.
LEMMA LoopsAreTimers == NoLoop \notin Loops
BY DEF NoLoop, Loops

\* An entry may be replaced by another: loops and timer stay.
LEMMA NewEntry ==
  ASSUME NEW c \in Sound, NEW e \in Entry
  PROVE  /\ [c EXCEPT !.entry = e] \in Sound
         /\ [c EXCEPT !.entry = e].entry = e
         /\ [c EXCEPT !.entry = e].loop = c.loop
         /\ [c EXCEPT !.entry = e].timer = c.timer
BY DEF Sound, Attended, TimerAlive, Cell

\* The settled entries: typed, and nothing polls for them.
LEMMA SettledEntry ==
  ASSUME NEW c \in Sound, NEW s \in Server!Settled \cup {"untold"}
  PROVE  WithStatus(c, s) \in Sound /\ ~ Pollable(WithStatus(c, s).entry)
<1>1. [NoEntry EXCEPT !.status = s] \in Entry
  BY DEF NoEntry, Entry
<1>2. ~ Pollable([NoEntry EXCEPT !.status = s])
  BY DEF NoEntry, Pollable, Server!Settled
<1> QED BY <1>1, <1>2, NewEntry DEF WithStatus

LEMMA NamedEntry ==
  ASSUME NEW c \in Sound, NEW j \in Jobs
  PROVE  WithJob(c, j) \in Sound
<1>1. CASE c.entry.status = "running"
  <2>1. c.entry \in Entry
    BY DEF Sound, Attended, Cell
  <2>2. [c.entry EXCEPT !.job = j] \in Entry
    BY <2>1 DEF Entry
  <2>3. [c EXCEPT !.entry = [c.entry EXCEPT !.job = j]] \in Sound
    BY <2>2, NewEntry
  <2> QED BY <1>1, <2>3 DEF WithJob, Sound, Attended, Cell
<1>2. CASE c.entry.status # "running"
  BY <1>2, SettledEntry DEF WithJob
<1> QED BY <1>1, <1>2

\* Clearing the timer leaves no timer, whatever it named, and the entry as it was.
LEMMA TimerCleared ==
  ASSUME NEW c \in Attended
  PROVE  ClearTimer(c) \in Sound /\ ClearTimer(c).entry = c.entry
<1>1. Idle \in Loop /\ Idle.phase = "idle"
  BY DEF Idle, Loop, Accounts
<1>2. Stopped(c) \in Attended /\ Stopped(c).entry = c.entry
  <2>1. CASE c.timer # NoLoop /\ c.loop[c.timer].phase = "waiting"
    <3>1. c.timer \in Loops
      BY <2>1 DEF Attended, Cell
    <3> PICK f : f = [c.loop EXCEPT ![c.timer] = Idle]
      OBVIOUS
    <3>2. f \in [Loops -> Loop] /\ \A l \in Loops : f[l] = IF l = c.timer THEN Idle ELSE c.loop[l]
      BY <3>1, <1>1 DEF Attended, Cell
    <3>3. Stopped(c) = [c EXCEPT !.loop = f]
      BY <2>1 DEF Stopped, Attended, Cell
    <3> QED BY <3>2, <3>3, <1>1 DEF Attended, Cell
  <2>2. CASE ~ (c.timer # NoLoop /\ c.loop[c.timer].phase = "waiting")
    BY <2>2 DEF Stopped
  <2> QED BY <2>1, <2>2
<1> HIDE DEF Stopped
<1> QED BY <1>2 DEF ClearTimer, Sound, Attended, TimerAlive, Cell

\* A loop that ends clears the timer with it.
LEMMA LoopEnds ==
  ASSUME NEW c \in Sound, NEW l \in Loops
  PROVE  /\ ClearTimer([c EXCEPT !.loop[l] = Idle]) \in Sound
         /\ ClearTimer([c EXCEPT !.loop[l] = Idle]).entry = c.entry
<1>1. Idle \in Loop /\ Idle.phase = "idle"
  BY DEF Idle, Loop, Accounts
<1> PICK f : f = [c.loop EXCEPT ![l] = Idle]
  OBVIOUS
<1>2. f \in [Loops -> Loop] /\ \A m \in Loops : f[m] = IF m = l THEN Idle ELSE c.loop[m]
  BY <1>1 DEF Sound, Attended, Cell
<1> PICK d : d = [c EXCEPT !.loop[l] = Idle]
  OBVIOUS
<1>3. d = [c EXCEPT !.loop = f]
  BY DEF Sound, Attended, Cell
<1>4. d \in Attended /\ d.entry = c.entry
  BY <1>1, <1>2, <1>3 DEF Sound, Attended, Cell
<1> QED BY <1>4, TimerCleared

\* A call of poll leaves a loop behind that is alive, if there is something to ask for.
LEMMA Polls ==
  ASSUME NEW c \in Sound, NEW l \in Loops, NEW u \in Users, session \in Accounts
  PROVE  /\ Poll(c, l, u) \in Sound
         /\ Poll(c, l, u).entry = c.entry
         /\ Pollable(c.entry) => Alive(Poll(c, l, u))
<1>1. CASE Pollable(c.entry)
  <2> PICK r : r = [phase |-> "asking", job |-> c.entry.job, by |-> u, as |-> session]
    OBVIOUS
  <2>1. c.entry \in Entry
    BY DEF Sound, Attended, Cell
  <2>2. r \in Loop /\ r.phase = "asking" /\ r.by \in Users
    BY <2>1 DEF Loop, Entry, Accounts
  <2> PICK f : f = [c.loop EXCEPT ![l] = r]
    OBVIOUS
  <2>3. f \in [Loops -> Loop] /\ \A m \in Loops : f[m] = IF m = l THEN r ELSE c.loop[m]
    BY <2>2 DEF Sound, Attended, Cell
  <2> PICK d : d = Poll(c, l, u)
    OBVIOUS
  <2>4. d = [c EXCEPT !.loop = f]
    BY <1>1 DEF Poll, Sound, Attended, Cell
  <2>5. d \in Sound /\ d.entry = c.entry /\ d.loop = f
    BY <2>2, <2>3, <2>4 DEF Sound, Attended, TimerAlive, Cell
  <2> QED BY <2>2, <2>3, <2>5 DEF Alive
<1>2. CASE ~ Pollable(c.entry)
  BY <1>2, LoopEnds DEF Poll
<1> QED BY <1>1, <1>2

\* ensurePoll: where the timer is set, the loop it names is alive.
LEMMA PollEnsured ==
  ASSUME NEW c \in Sound, NEW u \in Users, session \in Accounts, FreeLoops(c) # {}
  PROVE  /\ EnsurePoll(c, u) \in Sound
         /\ EnsurePoll(c, u).entry = c.entry
         /\ Pollable(c.entry) => Alive(EnsurePoll(c, u))
<1>1. CASE c.timer = NoLoop
  BY <1>1, FreeLoop, Polls DEF EnsurePoll
<1>2. CASE c.timer # NoLoop
  <2>1. c.timer \in Loops /\ c.loop[c.timer].phase # "idle"
    BY <1>2 DEF Sound, Attended, TimerAlive, Cell
  <2> QED BY <1>2, <2>1 DEF EnsurePoll, Alive
<1> QED BY <1>1, <1>2

\* Every cell of a tab that hydrates shows what was stored, or that it was
\* interrupted, and is polled for if it runs.
LEMMA HydratedCells ==
  ASSUME NEW c \in Sound, NEW e \in Entry, NEW u \in Users, session \in Accounts, FreeLoops(c) # {}
  PROVE  /\ HydratedCell(c, e, u) \in Sound
         /\ Pollable(HydratedCell(c, e, u).entry) => Alive(HydratedCell(c, e, u))
<1> PICK d : d = [c EXCEPT !.entry = e]
  OBVIOUS
<1>1. d \in Sound /\ d.entry = e /\ FreeLoops(d) # {}
  BY NewEntry DEF FreeLoops
<1>2. CASE Pollable(e)
  <2>1. ~ Interrupted(e)
    BY <1>2 DEF Pollable, Interrupted
  <2>2. HydratedCell(c, e, u) = EnsurePoll(d, u)
    BY <1>2, <2>1 DEF HydratedCell
  <2> QED BY <2>2, <1>1, PollEnsured
<1>3. CASE ~ Pollable(e) /\ Interrupted(e)
  <2>1. HydratedCell(c, e, u) = WithStatus(d, "error")
    BY <1>3 DEF HydratedCell
  <2> QED BY <2>1, <1>1, SettledEntry DEF Server!Settled
<1>4. CASE ~ Pollable(e) /\ ~ Interrupted(e)
  <2>1. HydratedCell(c, e, u) = d
    BY <1>4 DEF HydratedCell
  <2> QED BY <2>1, <1>1, <1>4
<1> QED BY <1>2, <1>3, <1>4

\* Where nobody is signed in there is nothing to load.
LEMMA BlankCells ==
  ASSUME NEW c \in Sound, NEW u
  PROVE  /\ HydratedCell(c, NoEntry, u) \in Sound
         /\ ~ Pollable(HydratedCell(c, NoEntry, u).entry)
         /\ ~ Interrupted(NoEntry)
<1>1. NoEntry \in Entry /\ ~ Pollable(NoEntry) /\ ~ Interrupted(NoEntry)
  BY DEF NoEntry, Entry, Pollable, Interrupted
<1>2. HydratedCell(c, NoEntry, u) = [c EXCEPT !.entry = NoEntry]
  BY <1>1 DEF HydratedCell
<1> QED BY <1>1, <1>2, NewEntry

-----------------------------------------------------------------------------
(* What is shared by the steps *)

\* A tab's new cells, saved for a user.
LEMMA SavedTypes ==
  ASSUME TypeOK, NothingOfAnon, NEW t, NEW u \in Users,
         NEW cells \in [Keys -> Cell], NEW due \in [Tabs -> SUBSET Users], Save(t, u, cells, due)
  PROVE  store' \in [Accounts -> [Keys -> Entry]] /\ events' \in [Tabs -> SUBSET Users] /\ NothingOfAnon'
<1>1. Entries(cells) \in [Keys -> Entry]
  BY DEF Entries, Cell
<1>2. u \in Accounts /\ u # Anon
  BY ClientAssumption DEF Accounts
<1> QED BY <1>1, <1>2 DEF Save, TypeOK, NothingOfAnon, Accounts

\* What is left of CInv when the cells of a tab, and what is saved, are right.
LEMMA StepKeeps ==
  ASSUME CInv,
         NEW t \in Tabs, NEW cells \in [Keys -> Sound], tab' = [tab EXCEPT ![t] = cells],
         store' \in [Accounts -> [Keys -> Entry]], events' \in [Tabs -> SUBSET Users], NothingOfAnon',
         uid' \in [Tabs -> Accounts], hydrated' \in [Tabs -> BOOLEAN], session' \in Accounts,
         posts' \subseteq [tab: Tabs, key: Keys, job: Jobs, by: Users],
         started' \subseteq Jobs, stale' \subseteq started',
         board' \in [Jobs -> Server!View], trouble' \in 0..MaxTurns,
         \A s \in Tabs \ {t} : hydrated'[s] = hydrated[s],
         hydrated'[t] => \A k \in Keys : Pollable(cells[k].entry) => Alive(cells[k])
  PROVE  CInv'
<1>1. \A s \in Tabs : tab'[s] = IF s = t THEN cells ELSE tab[s]
  BY DEF CInv, TypeOK
<1>2. cells \in [Keys -> Cell]
  BY DEF Sound, Attended
<1>3. tab' \in [Tabs -> [Keys -> Cell]]
  BY <1>2 DEF CInv, TypeOK
<1>4. TypeOK'
  BY <1>3 DEF TypeOK
<1>5. (\A s \in Tabs, k \in Keys : tab[s][k] \in Sound)'
  BY <1>1 DEF CInv
<1>6. ASSUME NEW s \in Tabs, NEW k \in Keys, hydrated'[s], Pollable(tab'[s][k].entry)
      PROVE  Alive(tab'[s][k])
  <2>1. CASE s = t
    BY <1>1, <1>6, <2>1
  <2>2. CASE s # t
    <3>1. tab'[s] = tab[s] /\ hydrated[s]
      BY <1>1, <1>6, <2>2
    <3>2. Pollable(tab[s][k].entry)
      BY <1>6, <3>1
    <3>3. \E l \in Loops : tab[s][k].loop[l].phase # "idle"
      BY <3>1, <3>2 DEF CInv, RunningIsPolled
    <3> QED BY <3>1, <3>3 DEF Alive
  <2> QED BY <2>1, <2>2
<1>7. RunningIsPolled'
  BY <1>6 DEF RunningIsPolled, Alive
<1> QED BY <1>4, <1>5, <1>7 DEF CInv

\* A turn is there to be taken.
LEMMA Turns ==
  ASSUME TypeOK, Trouble
  PROVE  trouble' \in 0..MaxTurns
<1>1. IsFiniteSet(started)
  BY ClientAssumption, FS_Subset DEF TypeOK
<1>2. Cardinality(started) \in Nat
  BY <1>1, FS_CardinalityType
<1> QED BY <1>2, ClientAssumption DEF TypeOK, Trouble, Turn

\* setEntry for a user, on a cell that is right.
LEMMA EntrySet ==
  ASSUME CInv, NEW t \in Tabs, NEW k \in Keys, NEW c \in Sound, NEW u \in Users, SetEntry(t, k, c, u),
         Pollable(c.entry) => Alive(c), UNCHANGED whoVars,
         posts' \subseteq [tab: Tabs, key: Keys, job: Jobs, by: Users],
         started' \subseteq Jobs, stale' \subseteq started',
         board' \in [Jobs -> Server!View], trouble' \in 0..MaxTurns
  PROVE  CInv'
<1> PICK cells : cells = [tab[t] EXCEPT ![k] = c]
  OBVIOUS
<1>1. cells \in [Keys -> Sound] /\ \A m \in Keys : cells[m] = IF m = k THEN c ELSE tab[t][m]
  BY DEF CInv, TypeOK
<1>2. cells \in [Keys -> Cell]
  BY <1>1 DEF Sound, Attended
<1>3. tab' = [tab EXCEPT ![t] = cells] /\ Save(t, u, cells, events)
  BY DEF SetEntry
<1>4. store' \in [Accounts -> [Keys -> Entry]] /\ events' \in [Tabs -> SUBSET Users] /\ NothingOfAnon'
  BY <1>2, <1>3, SavedTypes DEF CInv, TypeOK
<1>5. hydrated[t] => \A m \in Keys : Pollable(cells[m].entry) => Alive(cells[m])
  BY <1>1 DEF CInv, RunningIsPolled, Alive
<1> QED BY <1>1, <1>3, <1>4, <1>5, StepKeeps DEF CInv, TypeOK, whoVars

\* A cell that changes with its entry as it was.
LEMMA CellSet ==
  ASSUME CInv, NEW t \in Tabs, NEW k \in Keys, NEW c \in Sound, SetCell(t, k, c),
         Pollable(c.entry) => Alive(c), UNCHANGED <<whoVars, posts, started, stale, board, trouble>>
  PROVE  CInv'
<1> PICK cells : cells = [tab[t] EXCEPT ![k] = c]
  OBVIOUS
<1>1. cells \in [Keys -> Sound] /\ \A m \in Keys : cells[m] = IF m = k THEN c ELSE tab[t][m]
  BY DEF CInv, TypeOK
<1>2. tab' = [tab EXCEPT ![t] = cells]
  BY DEF SetCell, CInv, TypeOK
<1>3. hydrated[t] => \A m \in Keys : Pollable(cells[m].entry) => Alive(cells[m])
  BY <1>1 DEF CInv, RunningIsPolled, Alive
<1> QED BY <1>1, <1>2, <1>3, StepKeeps DEF CInv, TypeOK, NothingOfAnon, SetCell, whoVars

\* A tab that hydrates polls for whatever runs in it.
LEMMA HydrateKeeps ==
  ASSUME CInv, NEW t \in Tabs, NEW due \in [Tabs -> SUBSET Users], Hydrate(t, due),
         UNCHANGED <<uid, session, posts, started, stale, board, trouble>>,
         hydrated' \in [Tabs -> BOOLEAN], \A s \in Tabs \ {t} : hydrated'[s] = hydrated[s]
  PROVE  CInv'
<1> PICK loaded : loaded = store[uid[t]]
  OBVIOUS
<1>1. uid[t] \in Accounts /\ session \in Accounts /\ loaded \in [Keys -> Entry]
  BY DEF CInv, TypeOK
<1> PICK cells : cells = [k \in Keys |-> HydratedCell(tab[t][k], loaded[k], uid[t])]
  OBVIOUS
<1>2. \A k \in Keys : tab[t][k] \in Sound /\ FreeLoops(tab[t][k]) # {}
  BY DEF CInv, Hydrate, RoomToPoll
<1>3. tab' = [tab EXCEPT ![t] = cells]
  BY DEF Hydrate
<1>4. ASSUME NEW k \in Keys
      PROVE  cells[k] \in Sound /\ (Pollable(cells[k].entry) => Alive(cells[k]))
  <2>1. CASE uid[t] \in Users
    BY <2>1, <1>1, <1>2, HydratedCells
  <2>2. CASE uid[t] = Anon
    <3>1. loaded[k] = NoEntry
      BY <2>2 DEF CInv, NothingOfAnon
    <3> QED BY <3>1, <1>2, BlankCells
  <2> QED BY <2>1, <2>2, <1>1 DEF Accounts
<1>5. cells \in [Keys -> Sound]
  BY <1>4
<1>6. store' \in [Accounts -> [Keys -> Entry]] /\ events' \in [Tabs -> SUBSET Users] /\ NothingOfAnon'
  <2>1. CASE \E k \in Keys : Interrupted(loaded[k])
    <3>1. uid[t] # Anon
      BY <2>1, BlankCells, <1>2 DEF CInv, NothingOfAnon
    <3>2. uid[t] \in Users /\ cells \in [Keys -> Cell]
      BY <3>1, <1>1, <1>5 DEF Accounts, Sound, Attended
    <3>3. Save(t, uid[t], cells, due)
      BY <2>1 DEF Hydrate
    <3> QED BY <3>2, <3>3, SavedTypes DEF CInv
  <2>2. CASE ~ \E k \in Keys : Interrupted(loaded[k])
    <3>1. store' = store /\ events' = due
      BY <2>2 DEF Hydrate
    <3> QED BY <3>1 DEF CInv, TypeOK, NothingOfAnon
  <2> QED BY <2>1, <2>2
<1> HIDE DEF Hydrate
<1> QED BY <1>3, <1>4, <1>5, <1>6, StepKeeps DEF CInv, TypeOK

\* Leaving, signing in and clearing the timers: nothing is hydrated.
LEMMA UserChanges ==
  ASSUME CInv, NEW t \in Tabs, NEW u \in Accounts, ChangeUser(t, u),
         session' \in Accounts, trouble' \in 0..MaxTurns
  PROVE  CInv'
<1> PICK cells : cells = [k \in Keys |-> ClearTimer(tab[t][k])]
  OBVIOUS
<1>1. cells \in [Keys -> Sound]
  BY TimerCleared DEF CInv, Sound
<1>2. /\ tab' = [tab EXCEPT ![t] = cells]
      /\ hydrated' = [hydrated EXCEPT ![t] = FALSE]
      /\ uid' = [uid EXCEPT ![t] = u]
  BY DEF ChangeUser
<1>3. uid' \in [Tabs -> Accounts] /\ hydrated' \in [Tabs -> BOOLEAN] /\ ~ hydrated'[t]
      /\ \A s \in Tabs \ {t} : hydrated'[s] = hydrated[s]
  BY <1>2 DEF CInv, TypeOK
<1> QED BY <1>1, <1>2, <1>3, StepKeeps DEF CInv, TypeOK, NothingOfAnon, ChangeUser

-----------------------------------------------------------------------------
(* The invariant *)

LEMMA CInvInit == Init => CInv
<1> SUFFICES ASSUME Init PROVE CInv
  OBVIOUS
<1>1. NoEntry \in Entry /\ ~ Pollable(NoEntry)
  BY DEF NoEntry, Entry, Pollable
<1>2. Idle \in Loop /\ Idle.phase = "idle"
  BY DEF Idle, Loop, Accounts
<1>3. NewCell \in Sound /\ NewCell \in Cell /\ NewCell.entry = NoEntry
  BY <1>1, <1>2 DEF NewCell, Sound, Attended, TimerAlive, Cell
<1>4. board \in [Jobs -> Server!View]
  BY DEF Init, Server!Init, Server!View
<1>5. TypeOK
  BY <1>1, <1>3, <1>4, ClientAssumption DEF Init, TypeOK, Accounts
<1> QED BY <1>1, <1>3, <1>5 DEF Init, CInv, NothingOfAnon, RunningIsPolled, Accounts

LEMMA CInvStep == CInv /\ [Next]_vars => CInv'
<1> SUFFICES ASSUME CInv, [Next]_vars PROVE CInv'
  OBVIOUS
<1> USE DEF Quiet
<1>0. TypeOK
  BY DEF CInv
<1>1. ASSUME NEW t \in Tabs, HydrateUser(t) PROVE CInv'
  <2>1. hydrated' \in [Tabs -> BOOLEAN] /\ \A s \in Tabs \ {t} : hydrated'[s] = hydrated[s]
    BY <1>0, <1>1 DEF HydrateUser, TypeOK
  <2>2. events \in [Tabs -> SUBSET Users]
    BY <1>0 DEF TypeOK
  <2> QED BY <1>1, <2>1, <2>2, HydrateKeeps DEF HydrateUser
<1>2. ASSUME NEW t \in Tabs, Logout(t) PROVE CInv'
  BY <1>0, <1>2, UserChanges, Turns DEF Logout, Accounts
<1>3. ASSUME NEW t \in Tabs, Reload(t) PROVE CInv'
  <2> PICK cells : cells = [k \in Keys |-> NewCell]
    OBVIOUS
  <2>1. NewCell \in Sound
    <3>1. NoEntry \in Entry
      BY DEF NoEntry, Entry
    <3>2. Idle \in Loop /\ Idle.phase = "idle"
      BY DEF Idle, Loop, Accounts
    <3> QED BY <3>1, <3>2 DEF NewCell, Sound, Attended, TimerAlive, Cell
  <2>2. cells \in [Keys -> Sound]
    BY <2>1
  <2>3. tab' = [tab EXCEPT ![t] = cells]
    BY <1>3 DEF Reload
  <2>4. /\ uid' \in [Tabs -> Accounts] /\ hydrated' \in [Tabs -> BOOLEAN] /\ ~ hydrated'[t]
        /\ \A s \in Tabs \ {t} : hydrated'[s] = hydrated[s]
        /\ events' \in [Tabs -> SUBSET Users]
        /\ posts' \subseteq [tab: Tabs, key: Keys, job: Jobs, by: Users]
    BY <1>0, <1>3 DEF Reload, TypeOK
  <2>5. trouble' \in 0..MaxTurns
    BY <1>0, <1>3, Turns DEF Reload
  <2>6. UNCHANGED <<session, store, started, stale, board>>
    BY <1>3 DEF Reload
  <2> QED BY <2>2, <2>3, <2>4, <2>5, <2>6, StepKeeps DEF CInv, TypeOK, NothingOfAnon
<1>4. ASSUME NEW t \in Tabs, NEW u \in Users, OnStorage(t, u) PROVE CInv'
  <2> PICK due : due = [events EXCEPT ![t] = @ \ {u}]
    OBVIOUS
  <2>1. due \in [Tabs -> SUBSET Users]
    BY <1>0 DEF TypeOK
  <2>2. UNCHANGED <<whoVars, posts, started, stale, board, trouble>>
    BY <1>4 DEF OnStorage
  <2>3. CASE u = uid[t]
    <3>1. Hydrate(t, due)
      BY <1>4, <2>3 DEF OnStorage
    <3> QED BY <1>0, <2>1, <2>2, <3>1, HydrateKeeps DEF whoVars, TypeOK
  <2>4. CASE u # uid[t]
    <3>1. events' = due /\ UNCHANGED <<tab, store>>
      BY <1>4, <2>4 DEF OnStorage
    <3>2. TypeOK'
      BY <1>0, <2>1, <2>2, <3>1 DEF TypeOK, whoVars
    <3> QED BY <2>2, <3>1, <3>2 DEF CInv, NothingOfAnon, RunningIsPolled, whoVars
  <2> QED BY <2>3, <2>4
<1>5. ASSUME NEW t \in Tabs, NEW u \in Users, Login(t, u) PROVE CInv'
  BY <1>0, <1>5, UserChanges DEF Login, Accounts, TypeOK
<1>6. ASSUME NEW t \in Tabs, NEW k \in Keys, Adopt(t, k) PROVE CInv'
  <2> PICK found : found = Existing(t, k)
    OBVIOUS
  <2>1. uid[t] \in Users /\ session \in Accounts /\ tab[t][k] \in Sound /\ FreeLoops(tab[t][k]) # {}
    BY <1>0, <1>6 DEF Adopt, RoomToPoll, CInv, TypeOK, Accounts
  <2>2. found \in Entry
    BY <1>0 DEF Existing, TypeOK, Cell
  <2> PICK adopted : adopted = [tab[t][k] EXCEPT !.entry = found]
    OBVIOUS
  <2>3. adopted \in Sound /\ adopted.entry = found /\ FreeLoops(adopted) # {}
    BY <2>1, <2>2, NewEntry DEF FreeLoops
  <2> PICK c : c = IF Pollable(found) THEN EnsurePoll(adopted, uid[t]) ELSE adopted
    OBVIOUS
  <2>4. c \in Sound /\ (Pollable(c.entry) => Alive(c))
    BY <2>1, <2>3, PollEnsured
  <2>5. UNCHANGED <<whoVars, posts, started, stale, board, trouble>>
    BY <1>6 DEF Adopt
  <2>6. CASE tab[t][k].entry = NoEntry
    <3>1. SetEntry(t, k, c, uid[t])
      BY <1>6, <2>6 DEF Adopt
    <3> QED BY <1>0, <2>1, <2>4, <2>5, <3>1, EntrySet DEF TypeOK
  <2>7. CASE tab[t][k].entry # NoEntry
    <3>1. SetCell(t, k, c)
      BY <1>6, <2>7 DEF Adopt
    <3> QED BY <1>0, <2>4, <2>5, <3>1, CellSet
  <2> QED BY <2>6, <2>7
<1>7. ASSUME NEW t \in Tabs, NEW k \in Keys, Start(t, k) PROVE CInv'
  <2> PICK j : j = Min(NextJobs)
    OBVIOUS
  <2>1. uid[t] \in Users /\ tab[t][k] \in Sound
    BY <1>0, <1>7 DEF Start, CInv, TypeOK, Accounts
  <2>2. j \in Jobs
    <3>1. NextJobs \subseteq Nat /\ NextJobs # {}
      BY <1>7, ClientAssumption DEF Start, NextJobs
    <3>2. j \in NextJobs
      BY <3>1, MinIsOne
    <3> QED BY <3>2 DEF NextJobs
  <2> PICK e : e = [status |-> "running", start |-> j, job |-> NoJob]
    OBVIOUS
  <2>3. e \in Entry /\ ~ Pollable(e)
    BY <2>2 DEF Entry, Pollable
  <2> PICK c : c = [tab[t][k] EXCEPT !.entry = e]
    OBVIOUS
  <2>4. c \in Sound /\ ~ Pollable(c.entry)
    BY <2>1, <2>3, NewEntry
  <2>5. /\ SetEntry(t, k, c, uid[t])
        /\ posts' = posts \cup {[tab |-> t, key |-> k, job |-> j, by |-> uid[t]]}
        /\ started' = started \cup {j}
        /\ UNCHANGED <<whoVars, stale, board, trouble>>
    BY <1>7 DEF Start
  <2>6. /\ posts' \subseteq [tab: Tabs, key: Keys, job: Jobs, by: Users]
        /\ started' \subseteq Jobs /\ stale' \subseteq started'
        /\ board' \in [Jobs -> Server!View] /\ trouble' \in 0..MaxTurns
    BY <1>0, <2>1, <2>2, <2>5 DEF TypeOK
  <2> QED BY <2>1, <2>4, <2>5, <2>6, EntrySet
<1>8. ASSUME NEW t \in Tabs, NEW k \in Keys, Reset(t, k) PROVE CInv'
  <2> PICK c : c = [ClearTimer(tab[t][k]) EXCEPT !.entry = NoEntry]
    OBVIOUS
  <2>1. uid[t] \in Users /\ tab[t][k] \in Sound
    BY <1>0, <1>8 DEF Reset, CInv, TypeOK, Accounts
  <2>2. NoEntry \in Entry /\ ~ Pollable(NoEntry)
    BY DEF NoEntry, Entry, Pollable
  <2>3. c \in Sound /\ ~ Pollable(c.entry)
    <3>1. ClearTimer(tab[t][k]) \in Sound
      BY <2>1, TimerCleared DEF Sound
    <3> QED BY <3>1, <2>2, NewEntry
  <2>4. SetEntry(t, k, c, uid[t]) /\ UNCHANGED <<whoVars, posts, started, stale, board, trouble>>
    BY <1>8 DEF Reset
  <2> QED BY <1>0, <2>1, <2>3, <2>4, EntrySet DEF TypeOK
<1>9. ASSUME NEW p \in posts, PostAnswered(p) PROVE CInv'
  <2>1. p.tab \in Tabs /\ p.key \in Keys /\ p.job \in Jobs /\ p.by \in Users
    BY <1>0 DEF TypeOK
  <2>2. tab[p.tab][p.key] \in Sound /\ session \in Accounts
    BY <1>0, <2>1 DEF CInv, TypeOK
  <2> PICK c : c = WithJob(tab[p.tab][p.key], p.job)
    OBVIOUS
  <2>3. c \in Sound
    BY <2>1, <2>2, NamedEntry
  <2>4. FreeLoops(c) # {}
    <3>1. FreeLoops(tab[p.tab][p.key]) # {}
      BY <1>9, <2>1 DEF PostAnswered, RoomToPoll
    <3>2. c.loop = tab[p.tab][p.key].loop
      BY <2>2 DEF WithJob, WithStatus, Sound, Attended, Cell
    <3> QED BY <3>1, <3>2 DEF FreeLoops
  <2> PICK d : d = Poll(c, Min(FreeLoops(c)), p.by)
    OBVIOUS
  <2>5. d \in Sound /\ (Pollable(d.entry) => Alive(d))
    BY <2>1, <2>2, <2>3, <2>4, FreeLoop, Polls
  <2>6. /\ SetEntry(p.tab, p.key, d, p.by)
        /\ posts' = posts \ {p}
        /\ Server!Post(p.job)
        /\ UNCHANGED <<whoVars, started, stale, trouble>>
    BY <1>9 DEF PostAnswered
  <2>7. board' \in [Jobs -> Server!View]
    BY <1>0, <2>6 DEF TypeOK, Server!Post, Server!View
  <2> QED BY <1>0, <2>1, <2>5, <2>6, <2>7, EntrySet DEF TypeOK
<1>10. ASSUME NEW p \in posts, PostFails(p) PROVE CInv'
  <2>1. p.tab \in Tabs /\ p.key \in Keys /\ p.by \in Users
    BY <1>0 DEF TypeOK
  <2> PICK c : c = WithStatus(tab[p.tab][p.key], "error")
    OBVIOUS
  <2>2. c \in Sound /\ ~ Pollable(c.entry)
    BY <2>1, SettledEntry DEF CInv, Server!Settled
  <2>3. /\ SetEntry(p.tab, p.key, c, p.by) /\ posts' = posts \ {p}
        /\ UNCHANGED <<whoVars, started, stale, board>>
    BY <1>10 DEF PostFails
  <2>4. trouble' \in 0..MaxTurns
    BY <1>0, <1>10, Turns DEF PostFails
  <2> QED BY <1>0, <2>1, <2>2, <2>3, <2>4, EntrySet DEF TypeOK
<1>11. ASSUME NEW t \in Tabs, NEW k \in Keys, NEW l \in Loops, PollAnswered(t, k, l) PROVE CInv'
  <2> PICK c : c = tab[t][k]
    OBVIOUS
  <2> PICK told : told = Told(c.loop[l])
    OBVIOUS
  <2>1. c \in Sound /\ c.loop[l].phase = "asking" /\ c.loop[l].by \in Users
    BY <1>11 DEF CInv, PollAnswered, Sound, Attended
  <2>2. CASE Runs(told)
    <3> PICK r : r = [c.loop[l] EXCEPT !.phase = "waiting", !.job = NoJob]
      OBVIOUS
    <3> PICK f : f = [c.loop EXCEPT ![l] = r]
      OBVIOUS
    <3> PICK d : d = [c EXCEPT !.loop[l].phase = "waiting", !.loop[l].job = NoJob, !.timer = l]
      OBVIOUS
    <3>1. c.loop[l] \in Loop
      BY <2>1 DEF Sound, Attended, Cell
    <3>2. r \in Loop /\ r.phase = "waiting" /\ r.by \in Users
      BY <2>1, <3>1 DEF Loop
    <3>3. f \in [Loops -> Loop] /\ \A m \in Loops : f[m] = IF m = l THEN r ELSE c.loop[m]
      BY <2>1, <3>2 DEF Sound, Attended, Cell
    <3>4. d = [c EXCEPT !.loop = f, !.timer = l]
      BY <2>1, <3>1 DEF Sound, Attended, Cell, Loop
    <3>5. d \in Cell /\ d.loop = f /\ d.timer = l
      BY <2>1, <3>3, <3>4 DEF Sound, Attended, Cell
    <3>6. d \in Sound
      <4>1. \A m \in Loops : f[m].phase # "idle" => f[m].by \in Users
        BY <2>1, <3>2, <3>3 DEF Sound, Attended
      <4>2. f[l].phase # "idle"
        BY <3>2, <3>3
      <4> QED BY <3>5, <4>1, <4>2 DEF Sound, Attended, TimerAlive
    <3>7. Alive(d)
      BY <3>2, <3>3, <3>5 DEF Alive
    <3>8. SetCell(t, k, d) /\ UNCHANGED <<whoVars, posts, started, stale, board, trouble>>
      BY <1>11, <2>2 DEF PollAnswered
    <3> QED BY <3>6, <3>7, <3>8, CellSet
  <2>3. CASE ~ Runs(told)
    <3> PICK ended : ended = ClearTimer([c EXCEPT !.loop[l] = Idle])
      OBVIOUS
    <3> PICK status : status = IF told \in Server!Settled THEN told ELSE "error"
      OBVIOUS
    <3> PICK d : d = WithStatus(ended, status)
      OBVIOUS
    <3>1. ended \in Sound
      BY <2>1, LoopEnds
    <3>2. d \in Sound /\ ~ Pollable(d.entry)
      BY <3>1, SettledEntry DEF Server!Settled
    <3>3. SetEntry(t, k, d, c.loop[l].by) /\ UNCHANGED <<whoVars, posts, started, stale, board, trouble>>
      BY <1>11, <2>3 DEF PollAnswered
    <3> QED BY <1>0, <2>1, <3>2, <3>3, EntrySet DEF TypeOK
  <2> QED BY <2>2, <2>3
<1>12. ASSUME NEW t \in Tabs, NEW k \in Keys, NEW l \in Loops, PollFails(t, k, l) PROVE CInv'
  <2> PICK c : c = tab[t][k]
    OBVIOUS
  <2>1. c \in Sound /\ c.loop[l].by \in Users
    BY <1>12 DEF CInv, PollFails, Sound, Attended
  <2> PICK ended : ended = ClearTimer([c EXCEPT !.loop[l] = Idle])
    OBVIOUS
  <2> PICK d : d = WithStatus(ended, "error")
    OBVIOUS
  <2>2. ended \in Sound
    BY <2>1, LoopEnds
  <2>3. d \in Sound /\ ~ Pollable(d.entry)
    BY <2>2, SettledEntry DEF Server!Settled
  <2>4. SetEntry(t, k, d, c.loop[l].by) /\ UNCHANGED <<whoVars, posts, started, stale, board>>
    BY <1>12 DEF PollFails
  <2>5. trouble' \in 0..MaxTurns
    BY <1>0, <1>12, Turns DEF PollFails
  <2> QED BY <1>0, <2>1, <2>3, <2>4, <2>5, EntrySet DEF TypeOK
<1>13. ASSUME NEW t \in Tabs, NEW k \in Keys, NEW l \in Loops, TimerFires(t, k, l) PROVE CInv'
  <2> PICK c : c = tab[t][k]
    OBVIOUS
  <2>1. c \in Sound /\ c.loop[l].by \in Users /\ session \in Accounts
    BY <1>13 DEF CInv, TypeOK, TimerFires, Sound, Attended
  <2> PICK d : d = Poll(c, l, c.loop[l].by)
    OBVIOUS
  <2>2. d \in Sound /\ (Pollable(d.entry) => Alive(d))
    BY <2>1, Polls
  <2>3. SetCell(t, k, d) /\ UNCHANGED <<whoVars, posts, started, stale, board, trouble>>
    BY <1>13 DEF TimerFires
  <2> QED BY <2>2, <2>3, CellSet
<1>14. ASSUME NEW j \in Jobs, ServerSettles(j) PROVE CInv'
  <2>1. PICK s \in Outcomes : Server!Settle(j, s)
    BY <1>14 DEF ServerSettles
  <2>2. board' \in [Jobs -> Server!View]
    BY <1>0, <2>1, ClientAssumption DEF TypeOK, Server!Settle, Server!View, Server!Settled
  <2> QED BY <1>0, <1>14, <2>2
       DEF ServerSettles, CInv, TypeOK, NothingOfAnon, RunningIsPolled, tabVars, whoVars
<1>15. ASSUME NEW j \in Jobs, GrowsStale(j) PROVE CInv'
  BY <1>0, <1>15 DEF GrowsStale, CInv, TypeOK, NothingOfAnon, RunningIsPolled, tabVars, whoVars
<1>16. CASE ServerRestarts
  <2>1. board' \in [Jobs -> Server!View]
    BY <1>0, <1>16 DEF ServerRestarts, TypeOK, Server!Restart, Server!View
  <2> QED BY <1>0, <1>16, <2>1
       DEF ServerRestarts, CInv, TypeOK, NothingOfAnon, RunningIsPolled, tabVars, whoVars
<1>17. CASE UNCHANGED vars
  BY <1>17 DEF vars, tabVars, whoVars, CInv, TypeOK, NothingOfAnon, RunningIsPolled
<1> QED
  BY <1>1, <1>2, <1>3, <1>4, <1>5, <1>6, <1>7, <1>8, <1>9, <1>10, <1>11, <1>12, <1>13, <1>14, <1>15,
     <1>16, <1>17 DEF Next

-----------------------------------------------------------------------------

LEMMA CInvariant == Spec => []CInv
BY CInvInit, CInvStep, PTL DEF Spec

\* Cells, storage, events, posts and the server keep their types, whatever the
\* tabs, users, keys, jobs, loops and turns: nothing is ever saved, or told to
\* other tabs, but for a user who is signed in (save and the storage listener).
THEOREM TypeCorrect == Spec => []TypeOK
<1>1. CInv => TypeOK
  BY DEF CInv
<1> QED BY <1>1, CInvariant, PTL

\* An entry that shows "running" and has a job has a loop that polls for it,
\* whatever answers, events, timers and changes of user came in between
\* (poll, ensurePoll and hydrate of analysis.jsx).
THEOREM RunningPolled == Spec => []RunningIsPolled
<1>1. CInv => RunningIsPolled
  BY DEF CInv
<1> QED BY <1>1, CInvariant, PTL
=============================================================================
