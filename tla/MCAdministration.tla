--------------------------- MODULE MCAdministration ---------------------------
(* One administrator, one user who may come and go, two models of which one has   *)
(* been retired, one plan, two checks with a threshold each, two requests at once.  *)
EXTENDS Administration, TLC

CONSTANTS boss, ann, m1, retired, t1, t2

MCUsers == {boss, ann}
MCAdmins == {boss}
MCModels == {m1, retired}
MCRegistry == {m1}
MCPlans == {1}
MCKpis == {"cpu_percent", "ram_percent"}
MCLimits == {0, 2}
MCThreads == {t1, t2}

MCInviteRights == {[plan |-> 1, models |-> {m1, retired}, kpis |-> {"cpu_percent"}, limit |-> 2]}
MCAccessBodies ==
    {[models |-> {m1, retired}, kpis |-> {"cpu_percent"}, limit |-> 0,
      given |-> TRUE, priority |-> {m1, retired}],
     [models |-> {}, kpis |-> {}, limit |-> Null,
      given |-> FALSE, priority |-> {}]}
MCPlanBodies ==
    {[models |-> {m1}, limit |-> 2, active |-> TRUE],
     [models |-> {retired}, limit |-> 0, active |-> FALSE]}

MCFields == {"cpu_pct", "ram_pct"}
MCFieldTask == [f \in MCFields |-> IF f = "cpu_pct" THEN "cpu_percent" ELSE "ram_percent"]
MCLevels == {90}
MCFileTypes == {"hosts", "cpu", "services"}
MCHostNames == {"one"}
MCSymmetry == Permutations(MCThreads)
=============================================================================
