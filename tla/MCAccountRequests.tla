--------------------------- MODULE MCAccountRequests ---------------------------
(* Two overlapping requests of one or two administrators on one account.       *)
EXTENDS AccountRequests, TLC

CONSTANTS a1, a2, u1, s1, s2

MCUsers == {a1, a2, u1}
MCAdmins == {a1, a2}
MCSlots == {s1, s2}
MCSymmetry == Permutations(MCSlots)
=============================================================================
