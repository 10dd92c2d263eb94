------------------------------- MODULE Findings -------------------------------
(* What an analysis makes of a report: ai/models.py (the severity floor and the *)
(* order of findings), the incident of ai/analyzer.py, and the KPIs a user may   *)
(* see (engine/kpi_access.py).  What the model answers is an input.              *)
EXTENDS Checks

CONSTANTS ManyCritical   \* critical alerts from which the floor is CRITICAL: ten

Order == <<"LOW", "MEDIUM", "HIGH", "CRITICAL">>
Severity == {Order[i] : i \in DOMAIN Order}
RankOf(s) == CHOOSE i \in DOMAIN Order : Order[i] = s
NoFloor == 0

\* Whether some clause of a detail line reports this word.
Mentions(result, what) == \E d \in result.detail : d.what = what

AlertsFloor(result) ==
    LET critical == Cardinality({d \in result.detail : d.what = "CRITICAL"})
    IN  CASE critical >= ManyCritical -> RankOf("CRITICAL")
          [] critical \in 1..(ManyCritical - 1) -> RankOf("HIGH")
          [] OTHER -> RankOf("MEDIUM")   \* the line always says "important"

\* Read off the words of the detail line, in this order.
SeverityFloor(result) ==
    IF result.task = "alerts" THEN AlertsFloor(result)
    ELSE IF Mentions(result, "BAD") THEN RankOf("CRITICAL")
    ELSE CASE result.task = "hdfs_health" /\ Mentions(result, "CONCERNING") -> RankOf("HIGH")
           [] result.task \in {"host_health", "service_status"} /\ Mentions(result, "CONCERNING")
                 -> RankOf("MEDIUM")
           [] result.task = "network" /\ Mentions(result, "unreachable") -> RankOf("HIGH")
           [] OTHER -> NoFloor

\* An answer's severity outside the four words counts as MEDIUM.
Understood(severity) == IF severity \in Severity THEN RankOf(severity) ELSE RankOf("MEDIUM")

ApplyFloor(severity, result) ==
    LET floor == SeverityFloor(result)
    IN  IF floor > Understood(severity) THEN floor ELSE Understood(severity)

-----------------------------------------------------------------------------
(* engine/kpi_access.py *)

\* A user is an administrator or has a list of tasks; an empty list restricts nothing.
VisibleKpis(user) ==
    IF user.admin \/ user.allowed = {} THEN Tasks ELSE user.allowed \cap Tasks

Visible(report, user) == [task \in DOMAIN report \cap VisibleKpis(user) |-> report[task]]

-----------------------------------------------------------------------------
(* ai/analyzer.py: analyze_incident *)

Finding(task, severity) == [task |-> task, severity |-> severity]

FindingOfAnswer(raw, shown) ==
    Finding(raw.task, IF raw.task \in DOMAIN shown THEN ApplyFloor(raw.severity, shown[raw.task])
                      ELSE Understood(raw.severity))

\* The elements of S, each after all that relation R puts before it.
InOrder(S, R) ==
    [k \in 1..Cardinality(S) |->
        CHOOSE x \in S : Cardinality({y \in S : <<y, x>> \in R}) = k - 1]

\* One finding per breach, in the order of the checks.
FindingsOfBreaches(shown) ==
    LET places == {i \in DOMAIN AllChecks : AllChecks[i] \in DOMAIN shown}
        order == InOrder(places, {p \in places \X places : p[1] < p[2]})
        finding(task) == Finding(task, ApplyFloor("MEDIUM", shown[task]))
    IN  [k \in DOMAIN order |-> finding(AllChecks[order[k]])]

\* The more severe comes first; equals keep their order.
MoreUrgent(findings) ==
    {p \in (DOMAIN findings) \X (DOMAIN findings) :
        LET severity == findings[p[1]].severity
            other == findings[p[2]].severity
        IN  severity > other \/ (severity = other /\ p[1] < p[2])}

UnorderedFindings(findings) == findings

OrderFindings(findings) ==
    LET order == InOrder(DOMAIN findings, MoreUrgent(findings))
    IN  [k \in DOMAIN findings |-> findings[order[k]]]

\* The breaches user may see: without one, the analysis is not run.
Breached(report, user) ==
    LET seen == Visible(report, user) IN [task \in Breaching(seen) |-> seen[task]]

\* The cards shown for these breaches when the model answers with these findings.
Incident(shown, answer) ==
    OrderFindings(IF answer = <<>> THEN FindingsOfBreaches(shown)
                  ELSE [i \in DOMAIN answer |-> FindingOfAnswer(answer[i], shown)])
=============================================================================
