------------------------------ MODULE MCSessions ------------------------------
(* Two tabs of one browser with a call each; or one tab with two calls.        *)
EXTENDS Sessions, TLC

CONSTANTS t1, t2, c1, c2

TwoTabs == {t1, t2}
OneTab == {t1}
MCCalls == {c1, c2}
CallEach == (c1 :> t1) @@ (c2 :> t2)
BothInOne == (c1 :> t1) @@ (c2 :> t1)

\* The two tabs are alike, each with its call.
MCSymmetry == {p \in Permutations({t1, t2, c1, c2}) :
                  /\ p[t1] \in {t1, t2} /\ p[c1] \in {c1, c2}
                  /\ p[t1] = t1 <=> p[c1] = c1}
=============================================================================
