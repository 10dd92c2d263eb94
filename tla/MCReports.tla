------------------------------ MODULE MCReports ------------------------------
(* Two hosts with one watched mount, two days of two moments, an administrator  *)
(* and a user who sees two KPIs; values on both sides of each limit.            *)
EXTENDS Reports, TLC

CONSTANTS h1, h2, m1

MCHosts == {h1, h2}
MCMounts == {m1}
MCLimits == [cpu_pct |-> 1, ram_pct |-> 50, disk_pct |-> 50, disk_mounts |-> {m1},
             heartbeat_window_sec |-> 1, log_size_mb |-> 1, hdfs_growth_pct_threshold |-> 10,
             hdfs_growth_pct_window_hours |-> 1, network_error_rate_threshold |-> 0]
MCValues == [m \in Metrics |->
    CASE m \in {"physical_memory_total", "capacity"} -> {0, 2}
      [] m = "fs_bytes_used_percent"                 -> {50, 51}
      [] m = "dfs_capacity_used"                     -> {0, 10, 12}
      [] m \in {"receive_rate", "frame_errors_rate"} -> {0, 1}
      [] OTHER                                       -> {1, 2}]
MCLogSizes == {1, 2}
MCUsers == {[admin |-> TRUE, allowed |-> {}],
            [admin |-> FALSE, allowed |-> {"network", "alerts"}]}
MCFindings == [task : {"alerts", "network", "something else"}, severity : {"LOW"}]
MCAnswers == {<<>>} \cup {<<f>> : f \in MCFindings}
    \cup {<<[task |-> "something else", severity |-> "NONE"], [task |-> t, severity |-> "LOW"]>> :
             t \in {"alerts", "service_status", "host_health"}}
MCQueried == {"ram"}
MCSymmetry == Permutations(MCHosts)

\* Requests of a live source are in flight or answered only in a cluster whose
\* memory is all that is measured of it; without them it does what Next allows.
\* The behaviours are behaviours of Spec.
NoRequests == asked = <<>> /\ cache = <<>>
OnlyMemory == /\ cm.services = <<>> /\ cm.events = {}
              /\ \A h \in Hosts : cm.hosts[h] = [health |-> "GOOD", beat |-> 0]
              /\ \A s \in cm.samples : s.metric = "physical_memory_used"

MCNext ==
    \/ Tick
    \/ OnlyMemory /\ \E c \in Callers :
          Answered(c) \/ Unanswered(c) \/ \E plan \in Queried : Ask(c, plan)
    \/ OnlyMemory /\ Measure("physical_memory_used")
    \/ NoRequests /\ \E metric \in Metrics : Measure(metric)
    \/ NoRequests /\ \E h \in Hosts : Beat(h) \/ HostTurns(h) \/ LoseHost(h) \/ GrowLog(h)
    \/ NoRequests /\ \E s \in ServiceNames : ServiceTurns(s) \/ RoleTurns(s)
    \/ NoRequests /\ RaiseEvent
MCSpec == Init /\ [][MCNext]_vars
=============================================================================
