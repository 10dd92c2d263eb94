---------------------------- MODULE MCAnalysisJobs ----------------------------
(* Three analyses, two of one user, in a registry that keeps two; and, for     *)
(* longer chains of models, two analyses of one user.                          *)
EXTENDS AnalysisJobs, TLC

CONSTANTS j1, j2, j3, u1, u2

MCJobs == {j1, j2, j3}
MCUsers == {u1, u2}
MCOwner == [j \in MCJobs |-> IF j = j3 THEN u2 ELSE u1]
MCSymmetry == Permutations({j1, j2})

MCTwoJobs == {j1, j2}
MCOneOwner == [j \in MCTwoJobs |-> u1]
=============================================================================
