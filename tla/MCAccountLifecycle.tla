-------------------------- MODULE MCAccountLifecycle --------------------------
(* Two administrators, one of them seeded, and two plain users; the window   *)
(* is two ticks and the clock allows a window, an approval and a second one. *)
EXTENDS AccountLifecycle

CONSTANTS a1, a2, u1, u2

MCUsers == {a1, a2, u1, u2}
MCAdmins == {a1, a2}
=============================================================================
