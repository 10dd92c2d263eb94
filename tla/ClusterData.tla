------------------------------ MODULE ClusterData ------------------------------
(* The records of data_sources/base.py, what the three data sources read of     *)
(* them, and the day filter.  A cluster cm is what Cloudera Manager holds of it  *)
(* (or a folder of exports; or the sample files of a YAML profile): hosts, services, roles,        *)
(* events, samples and, in the sample files, SSH results.  Points carry          *)
(* fractions, of / per, so that percentages stay exact.  A file lists its        *)
(* samples in time order, as Cloudera Manager exports them.                      *)
EXTENDS Integers, FiniteSets, FiniteSetsExt

CONSTANTS
    Hosts,        \* hostnames
    Mounts,       \* mount points
    TicksPerDay,  \* moments of time in a day
    MaxClock,     \* bound on time
    LookbackDays, \* days of history a live source asks for, today included
    CacheTtl      \* how long it keeps an answer

ASSUME DataAssumption ==
    /\ TicksPerDay \in Nat \ {0} /\ LookbackDays \in Nat \ {0}
    /\ MaxClock \in Nat /\ CacheTtl \in Nat

Latest == -1      \* as_of = None

Kinds == {"export", "json", "api"}
Healths == {"GOOD", "CONCERNING", "BAD", "DISABLED"}
States == {"STARTED", "STOPPED", "NA"}
Severities == {"CRITICAL", "IMPORTANT", "INFORMATIONAL"}

HostMetrics == {"cpu_percent", "physical_memory_used", "physical_memory_total"}
Filesystem == {"capacity_used", "capacity"}
HdfsMetrics == {"dfs_capacity_used"}   \* dfs_capacity is only displayed
\* Only the sample files hold these under the names the checks use.
SampleOnly == {"fs_bytes_used_percent", "frame_errors_rate"}
Metrics == HostMetrics \cup {"receive_rate"} \cup Filesystem \cup HdfsMetrics \cup SampleOnly

NoMount == "no mount"
Moments == 0..MaxClock

Host == [health : Healths, beat : Moments]
\* check is the worst of a service's health checks, GOOD when it has none.
Service == [state : States, summary : Healths, check : Healths]
\* check is the worst health check of a role, as above.
Role == [service : {"hdfs", "yarn"}, check : Healths]
LogFile == [host : Hosts, size : Nat]
\* At most one event of a kind per moment.
Event == [severity : Severities, alert : BOOLEAN, at : Moments]
Sample == [metric : Metrics, host : Hosts \cup {"hdfs"}, mount : Mounts \cup {NoMount},
           at : Moments, value : Nat]

DayOf(at) == at \div TicksPerDay

-----------------------------------------------------------------------------
(* day_filter.py *)

OnOrBeforeNextDay(at, asOf) == asOf = Latest \/ DayOf(at) <= asOf + 1

\* Not later than the end of the as_of day.
OnOrBefore(at, asOf) == asOf = Latest \/ DayOf(at) <= asOf

TrimToDay(points, asOf) == {p \in points : OnOrBefore(p.at, asOf)}
EventsOnOrBefore(events, asOf) == {e \in events : OnOrBefore(e.at, asOf)}

\* The newest heartbeat, or the wall clock when there is no host.
ReferenceNow(hosts, clock) ==
    IF DOMAIN hosts = {} THEN clock ELSE Max({hosts[h].beat : h \in DOMAIN hosts})

-----------------------------------------------------------------------------
(* parse_cm_export.py and parse_cm_json.py *)

Of(cm, metric) == {s \in cm.samples : s.metric = metric}

Point(host, mount, at, of, per) ==
    [host |-> host, mount |-> mount, at |-> at, of |-> of, per |-> per]

\* Each sample as it is.
HostMetric(cm, metric) == {Point(s.host, s.mount, s.at, s.value, 1) : s \in Of(cm, metric)}
NetworkThroughput(cm) == HostMetric(cm, "receive_rate")

\* parse_cm_json.py keeps every series under its name.
JsonMetrics(cm, metric) == HostMetric(cm, metric)

\* Bytes used of the capacity measured at the same moment, in per cent.
DiskPercent(cm) ==
    {Point(pair[1].host, pair[1].mount, pair[1].at, 100 * pair[1].value, pair[2].value) :
        pair \in {q \in Of(cm, "capacity_used") \X Of(cm, "capacity") :
                      /\ q[1].host = q[2].host /\ q[1].mount = q[2].mount
                      /\ q[1].at = q[2].at
                      /\ q[2].value > 0}}

ParsedEvents(cm) == {e \in cm.events : e.alert}
ParsedRoles(cm, service) == {r \in cm.roles : r.service = service}

\* What these samples add up to.
Total(samples) == MapThenSumSet(LAMBDA s : s.value, samples)

\* The sum of the DataNodes that have a value at each moment.
HdfsCapacity(cm, metric) ==
    {Point("hdfs", NoMount, t, Total({s \in Of(cm, metric) : s.at = t}), 1) :
        t \in {s.at : s \in Of(cm, metric)}}

-----------------------------------------------------------------------------
(* export_source.py, api_source.py and json_source.py *)

\* Only the file and API sources have as_of; the sample files are never trimmed.
Dated(cm) == cm.kind # "json"

\* Every point of a metric under the name the checks use.
AllPoints(cm, metric) ==
    IF cm.kind = "json" THEN JsonMetrics(cm, metric)
    ELSE CASE metric = "fs_bytes_used_percent" -> DiskPercent(cm)
           [] metric \in HdfsMetrics           -> HdfsCapacity(cm, metric)
           [] metric = "receive_rate"          -> NetworkThroughput(cm)
           [] metric \in HostMetrics           -> HostMetric(cm, metric)
           [] OTHER                            -> {}

GetMetric(cm, asOf, metric) ==
    IF Dated(cm) THEN TrimToDay(AllPoints(cm, metric), asOf) ELSE AllPoints(cm, metric)

\* The queries of the API source; each fetches what it provides in one request.
Plans == [cpu |-> {"cpu_percent"}, ram |-> {"physical_memory_used", "physical_memory_total"},
          disk |-> Filesystem, hdfs |-> HdfsMetrics, network |-> {"receive_rate"}]

\* The history asked for begins at midnight.
InLookback(s, clock) == DayOf(s.at) > DayOf(clock) - LookbackDays

\* What Cloudera Manager holds of what a plan asks for.
Wanted(cm, plan, clock) ==
    {s \in cm.samples : s.metric \in Plans[plan] /\ InLookback(s, clock)}

FreshForOneMore(entry, clock) == clock - entry.at <= CacheTtl

\* cache maps the queries answered so far to their answer, when it was asked for
\* and when it had come.
Fresh(entry, clock) == clock - entry.at < CacheTtl
Cached(cache, plan, clock) == plan \in DOMAIN cache /\ Fresh(cache[plan], clock)

\* A check's samples: of the cache, or of an answer that comes at once.
FetchPlan(cm, cache, plan, clock) ==
    IF Cached(cache, plan, clock) THEN cache[plan].samples ELSE Wanted(cm, plan, clock)

\* The cluster as its source shows it: a live one shows what its queries return.
Seen(cm, cache, clock) ==
    IF cm.kind # "api" THEN cm
    ELSE [cm EXCEPT !.samples = UNION {FetchPlan(cm, cache, plan, clock) : plan \in DOMAIN Plans}]

HasServices(cm) == cm.kind # "export" \/ cm.servicesFile
HasEvents(cm) == cm.kind # "export" \/ cm.eventsFile

GetServices(cm) == IF HasServices(cm) THEN cm.services ELSE <<>>
GetRoles(cm, service) ==
    IF cm.kind = "export" THEN {} ELSE ParsedRoles(cm, service)

GetEvents(cm, asOf) ==
    CASE ~HasEvents(cm)                 -> {}
      [] HasEvents(cm) /\ Dated(cm)     -> EventsOnOrBefore(ParsedEvents(cm), asOf)
      [] OTHER                          -> ParsedEvents(cm)

\* SSH results: in the sample files, absent from exports.
PingHosts(cm) ==
    IF cm.kind = "json"
    THEN {[host |-> h, reachable |-> h \notin cm.unreachable] : h \in DOMAIN cm.hosts}
    ELSE {}
LogFiles(cm) == IF cm.kind = "json" THEN cm.logs ELSE {}

\* A live source without SSH settings raises where it needs SSH, and the bridge
\* gives it none.
NeedsSsh == {"disk_percent", "network"}
Raises(cm, task) == cm.kind = "api" /\ task \in NeedsSsh
=============================================================================
