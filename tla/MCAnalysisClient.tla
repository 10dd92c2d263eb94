--------------------------- MODULE MCAnalysisClient ---------------------------
(* The tabs of one browser, one user, one key and two starts of it.           *)
EXTENDS AnalysisClient

CONSTANTS
    u1,
    t1,    \* the tab that is used alone
    Among  \* bound: the turns there are while another tab is signed in

MCOwner == <<u1, u1>>

Used == Cardinality(started) + trouble
Alone == \A t \in Tabs \ {t1} : uid[t] = Anon

\* Some tab takes a turn.  The behaviours are behaviours of FairSpec.
TurnOf(t) == Used < Among \/ (Alone /\ t = t1)

MCNext ==
    \/ \E t \in Tabs : HydrateUser(t) \/ (TurnOf(t) /\ (Logout(t) \/ Reload(t)))
    \/ \E t \in Tabs, u \in Users : OnStorage(t, u) \/ ((t = t1 \/ Used <= Among) /\ Login(t, u))
    \/ \E t \in Tabs, k \in Keys : Adopt(t, k) \/ Reset(t, k) \/ (TurnOf(t) /\ Start(t, k))
    \/ \E p \in posts : PostAnswered(p) \/ (TurnOf(p.tab) /\ PostFails(p))
    \/ \E t \in Tabs, k \in Keys, l \in Loops :
           PollAnswered(t, k, l) \/ TimerFires(t, k, l) \/ (TurnOf(t) /\ PollFails(t, k, l))
    \/ \E j \in Jobs : ServerSettles(j) \/ GrowsStale(j)
    \/ ServerRestarts
MCSpec == Init /\ [][MCNext]_vars /\ Fairness
=============================================================================
