---------------------------- MODULE MCSourceCache ----------------------------
(* A view and an analysis, of one past day or the latest, and two              *)
(* administrators, or for the shortest counterexamples one.                    *)
EXTENDS SourceCache, TLC

CONSTANTS v1, an1, admin1, admin2, yesterday, none, nobody

MCViews == {v1}
MCAnalyses == {an1}
MCDays == {yesterday, none}
MCAdmins == {admin1, admin2}
MCSymmetry == Permutations(MCAdmins)
=============================================================================
