-------------------------------- MODULE Checks --------------------------------
(* The nine checks of checks/ as functions of a cluster, the day viewed and the *)
(* tenant's limits.  A result keeps its status, the entities it names, the rows *)
(* of its evidence (with what each is about and whether it is red), and what its *)
(* detail line says of whom; numbers and wording are left out.                   *)
EXTENDS ClusterData, Sequences

\* config/schema.py.  A percentage is a whole number here.
ThresholdsConfig ==
    [cpu_pct : 0..100, ram_pct : 0..100, disk_pct : 0..100, disk_mounts : SUBSET Mounts,
     heartbeat_window_sec : Nat \ {0}, log_size_mb : Nat,
     hdfs_growth_pct_window_hours : Nat \ {0}, hdfs_growth_pct_threshold : Nat,
     network_error_rate_threshold : Nat]

CONSTANTS Limits   \* the tenant's thresholds

ASSUME LimitsAssumption == Limits \in ThresholdsConfig

Bad == {"CONCERNING", "BAD"}
HealthyStates == {"STARTED", "NA"}
Serious == {"CRITICAL", "IMPORTANT"}
DeadBelow == 1     \* NEAR_ZERO_THROUGHPUT

\* ALL_CHECKS, in their order.
AllChecks == <<"host_health", "heartbeat", "cpu_percent", "ram_percent", "disk_percent",
               "hdfs_health", "service_status", "alerts", "network">>
Tasks == {AllChecks[i] : i \in DOMAIN AllChecks}

Says(entity, what) == [entity |-> entity, what |-> what]
Row(entity, breached) == [entity |-> entity, breached |-> breached]

NoData(task) == [task |-> task, status |-> "NO_DATA", entities |-> {}, rows |-> {}, detail |-> {}]

\* The detail line of a check that breaches has a clause per problem.
Result(task, detail, rows) ==
    [task |-> task, status |-> IF detail = {} THEN "OK" ELSE "BREACH",
     entities |-> {d.entity : d \in detail}, rows |-> rows, detail |-> detail]

\* points[-1] of every series that has points, and p.of / p.per > limit.
LatestPoints(points) ==
    {p \in points : \A q \in points : q.host = p.host /\ q.mount = p.mount => q.at <= p.at}
Over(p, limit) == p.of > limit * p.per

-----------------------------------------------------------------------------
(* Hosts *)

HostHealth(cm) ==
    LET unhealthy(h) == cm.hosts[h].health # "GOOD"
    IN  Result("host_health",
               {Says(<<h>>, cm.hosts[h].health) : h \in {x \in DOMAIN cm.hosts : unhealthy(x)}},
               {Row(<<h>>, unhealthy(h)) : h \in DOMAIN cm.hosts})

Heartbeat(cm, now) ==
    LET silent(h) == now - cm.hosts[h].beat > Limits.heartbeat_window_sec
    IN  Result("heartbeat",
               {Says(<<h>>, "silent") : h \in {x \in DOMAIN cm.hosts : silent(x)}},
               {Row(<<h>>, silent(h)) : h \in DOMAIN cm.hosts})

CpuPercent(cm, asOf) ==
    LET last == LatestPoints(GetMetric(cm, asOf, "cpu_percent"))
    IN  Result("cpu_percent",
               {Says(<<p.host>>, "over") : p \in {x \in last : Over(x, Limits.cpu_pct)}},
               {Row(<<p.host>>, Over(p, Limits.cpu_pct)) : p \in last})

\* Hosts with a last reading of both, and a positive total.
RamPercent(cm, asOf) ==
    LET used == LatestPoints(GetMetric(cm, asOf, "physical_memory_used"))
        total == LatestPoints(GetMetric(cm, asOf, "physical_memory_total"))
        percent == {Point(pair[1].host, NoMount, pair[1].at, 100 * pair[1].of, pair[2].of) :
                       pair \in {q \in used \X total : q[1].host = q[2].host /\ q[2].of > 0}}
    IN  Result("ram_percent",
               {Says(<<p.host>>, "over") : p \in {x \in percent : Over(x, Limits.ram_pct)}},
               {Row(<<p.host>>, Over(p, Limits.ram_pct)) : p \in percent})

-----------------------------------------------------------------------------
(* Storage *)

\* df over SSH only adds a note to a row.
DiskCheck(cm, asOf) ==
    LET disks == {p \in LatestPoints(GetMetric(cm, asOf, "fs_bytes_used_percent")) :
                     p.mount \in Limits.disk_mounts}
        full == {p \in disks : Over(p, Limits.disk_pct)}
        large == {f \in LogFiles(cm) : f.size > Limits.log_size_mb}
    IN  Result("disk_percent",
               {Says(<<p.host, p.mount>>, "over") : p \in full}
                   \cup {Says(<<f.host, "log">>, "over") : f \in large},
               {Row(<<p.host, p.mount>>, p \in full) : p \in disks}
                   \cup {Row(<<f.host, "log">>, f \in large) : f \in LogFiles(cm)})

HealthPart(cm) ==
    LET services == GetServices(cm)
    IN  CASE ~HasServices(cm) -> {}
          [] HasServices(cm) /\ "hdfs" \notin DOMAIN services -> {Says(<<"hdfs">>, "not found")}
          [] OTHER -> {Says(<<"hdfs">>, h) :
                          h \in {services["hdfs"].summary, services["hdfs"].check} \ {"GOOD"}}

FirstPoint(points) == CHOOSE p \in points : \A q \in points : p.at <= q.at
LastPoint(points) == CHOOSE p \in points : \A q \in points : q.at <= p.at

\* Growth from the first to the last point there is, over the limit.
GrowthOver(points) ==
    /\ Cardinality(points) >= 2
    /\ FirstPoint(points).of > 0
    /\ (LastPoint(points).of - FirstPoint(points).of) * 100 > Limits.hdfs_growth_pct_threshold * FirstPoint(points).of

GrowthPart(cm, asOf) ==
    {d \in {Says(<<"hdfs">>, "grew")} : GrowthOver(GetMetric(cm, asOf, "dfs_capacity_used"))}

\* The rows on capacity and on single health checks repeat these two.
EvidenceRows(health, growth) == {Row(<<"health">>, health # {}), Row(<<"growth">>, growth # {})}

HdfsHealth(cm, asOf) ==
    LET health == HealthPart(cm)
        growth == GrowthPart(cm, asOf)
    IN  Result("hdfs_health", health \cup growth, EvidenceRows(health, growth))

-----------------------------------------------------------------------------
(* Services, alerts, network *)

StateBad(s) == s.state \notin HealthyStates
ServiceChecksConcerning(s) == s.check = "CONCERNING"
ServiceChecksBad(s) == s.check \in Bad
RolesBad(cm, name) == {r \in GetRoles(cm, name) : r.check \in Bad}

SummaryNeverExplains(cm, name, s) == FALSE

\* The summary is named only when nothing more specific is.
SummaryExplains(cm, name, s) ==
    /\ s.summary \in Bad
    /\ ~StateBad(s) /\ ~ServiceChecksBad(s) /\ RolesBad(cm, name) = {}

ServiceBreached(cm, name, s) ==
    StateBad(s) \/ s.summary \in Bad \/ ServiceChecksBad(s) \/ RolesBad(cm, name) # {}

\* A clause for every reason.
ServiceDetail(cm, name, s) ==
    {d \in {Says(<<name>>, s.state)} : StateBad(s)}
    \cup {d \in {Says(<<name, "check">>, s.check)} : ServiceChecksBad(s)}
    \cup {Says(<<name, "role">>, r.check) : r \in RolesBad(cm, name)}
    \cup {d \in {Says(<<name>>, s.summary)} : SummaryExplains(cm, name, s)}

ServiceStatus(cm) ==
    LET services == GetServices(cm)
    IN  IF ~HasServices(cm) THEN NoData("service_status")
        ELSE Result("service_status",
                    UNION {ServiceDetail(cm, n, services[n]) : n \in DOMAIN services},
                    {Row(<<n>>, ServiceBreached(cm, n, services[n])) : n \in DOMAIN services})

Alerts(cm, asOf) ==
    LET serious == {e \in GetEvents(cm, asOf) : e.severity \in Serious}
    IN  IF ~HasEvents(cm) THEN NoData("alerts")
        ELSE Result("alerts", {Says(<<e.severity, e.at>>, e.severity) : e \in serious},
                    IF serious = {} THEN {Row(<<"active alerts">>, FALSE)}
                    ELSE {Row(<<e.severity, e.at>>, TRUE) : e \in serious})

\* Each host is named once, for the first of the three reasons that holds.
Network(cm, asOf) ==
    LET received == LatestPoints(GetMetric(cm, asOf, "receive_rate"))
        errors == LatestPoints(GetMetric(cm, asOf, "frame_errors_rate"))
        dead == {p.host : p \in {x \in received : x.of < DeadBelow}}
        noisy == {p.host : p \in {x \in errors : Over(x, Limits.network_error_rate_threshold)}}
        lost == {p.host : p \in {x \in PingHosts(cm) : ~x.reachable}}
    IN  Result("network",
               {Says(<<h>>, "no activity") : h \in dead}
                   \cup {Says(<<h>>, "frame errors") : h \in noisy \ dead}
                   \cup {Says(<<h>>, "unreachable") : h \in lost \ (dead \cup noisy)},
               {Row(<<p.host>>, p.host \in dead) : p \in received}
                   \cup {Row(<<p.host, "frame errors">>, p.host \in noisy) : p \in errors}
                   \cup {Row(<<p.host, "ping">>, ~p.reachable) : p \in PingHosts(cm)})

-----------------------------------------------------------------------------
(* run_all_checks.py, and the bridge that calls it *)

Check(task, cm, asOf, now) ==
    CASE task = "host_health"    -> HostHealth(cm)
      [] task = "heartbeat"      -> Heartbeat(cm, now)
      [] task = "cpu_percent"    -> CpuPercent(cm, asOf)
      [] task = "ram_percent"    -> RamPercent(cm, asOf)
      [] task = "disk_percent"   -> DiskCheck(cm, asOf)
      [] task = "hdfs_health"    -> HdfsHealth(cm, asOf)
      [] task = "service_status" -> ServiceStatus(cm)
      [] task = "alerts"         -> Alerts(cm, asOf)
      [] task = "network"        -> Network(cm, asOf)

\* A view of one day judges heartbeats by the newest of them.
Now(cm, asOf, clock) ==
    IF asOf # Latest /\ Dated(cm) THEN ReferenceNow(cm.hosts, clock) ELSE clock

BuildSingleCheck(task, cm, asOf, clock) == Check(task, cm, asOf, Now(cm, asOf, clock))

\* One check that raises takes the whole report with it.
Answering(cm) == {task \in Tasks : ~Raises(cm, task)}
ReportRaises(cm) == \E task \in Tasks : Raises(cm, task)
BuildReport(cm, asOf, clock) == [task \in Tasks |-> Check(task, cm, asOf, Now(cm, asOf, clock))]

Breaching(report) == {task \in DOMAIN report : report[task].status = "BREACH"}
=============================================================================
