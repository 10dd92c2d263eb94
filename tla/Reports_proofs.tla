---------------------------- MODULE Reports_proofs ----------------------------
(***************************************************************************)
(* Proofs about Reports, for any hosts, mounts, limits, values, days and   *)
(* bounds: that every card agrees with its evidence, whatever its source   *)
(* tells; that a live source's cache hides nothing older than its time to  *)
(* live and the time its answer took; that earlier days stay as they were; *)
(* that a cluster that only gets worse stays red; and that an incident     *)
(* keeps to its floors, however many findings a model returns.             *)
(***************************************************************************)
EXTENDS Reports, TLAPS, FiniteSetTheorems

-----------------------------------------------------------------------------
(* Cards and their evidence *)

\* What CardsAgreeWithTheirRows says of one card.
Agrees(r) ==
    /\ r.status = "BREACH" <=> \E row \in r.rows : row.breached
    /\ r.status = "BREACH" <=> r.entities # {}
    /\ r.status = "NO_DATA" => r.rows = {}

LEMMA NoDataAgrees ==
  ASSUME NEW task PROVE Agrees(NoData(task))
BY DEF NoData, Agrees

\* A row is red when it is said to be.
LEMMA RowTells ==
  ASSUME NEW entity, NEW breached \in BOOLEAN
  PROVE  Row(entity, breached).breached = breached
BY DEF Row

\* A result agrees when its clauses and its red rows come together.
LEMMA ResultAgrees ==
  ASSUME NEW task, NEW detail, NEW rows,
         detail # {} <=> \E row \in rows : row.breached
  PROVE  Agrees(Result(task, detail, rows))
<1> PICK r : r = Result(task, detail, rows)
  OBVIOUS
<1>1. r.rows = rows /\ r.entities = {d.entity : d \in detail}
      /\ r.status = IF detail = {} THEN "OK" ELSE "BREACH"
  BY DEF Result
<1>2. r.entities # {} <=> detail # {}
  BY <1>1
<1>3. CASE detail = {}
  BY <1>1, <1>2, <1>3 DEF Agrees
<1>4. CASE detail # {}
  BY <1>1, <1>2, <1>4 DEF Agrees
<1> QED BY <1>3, <1>4

LEMMA HostHealthAgrees ==
  ASSUME NEW source PROVE Agrees(HostHealth(source))
<1> DEFINE unhealthy(h) == source.hosts[h].health # "GOOD"
<1>1. PICK detail : detail = {Says(<<h>>, source.hosts[h].health) :
                               h \in {x \in DOMAIN source.hosts : unhealthy(x)}}
  OBVIOUS
<1>2. PICK rows : rows = {Row(<<h>>, unhealthy(h)) : h \in DOMAIN source.hosts}
  OBVIOUS
<1>3. detail # {} <=> \E row \in rows : row.breached
  <2>1. detail # {} <=> \E h \in DOMAIN source.hosts : unhealthy(h)
    BY <1>1
  <2>2. (\E row \in rows : row.breached) <=> \E h \in DOMAIN source.hosts : unhealthy(h)
    BY <1>2, RowTells
  <2> QED BY <2>1, <2>2
<1>4. HostHealth(source) = Result("host_health", detail, rows)
  BY <1>1, <1>2 DEF HostHealth
<1> QED BY <1>3, <1>4, ResultAgrees

LEMMA HeartbeatAgrees ==
  ASSUME NEW source, NEW now PROVE Agrees(Heartbeat(source, now))
<1> DEFINE silent(h) == now - source.hosts[h].beat > Limits.heartbeat_window_sec
<1>1. PICK detail : detail = {Says(<<h>>, "silent") : h \in {x \in DOMAIN source.hosts : silent(x)}}
  OBVIOUS
<1>2. PICK rows : rows = {Row(<<h>>, silent(h)) : h \in DOMAIN source.hosts}
  OBVIOUS
<1>3. detail # {} <=> \E row \in rows : row.breached
  <2>1. detail # {} <=> \E h \in DOMAIN source.hosts : silent(h)
    BY <1>1
  <2>2. \A h : Row(<<h>>, silent(h)).breached <=> silent(h)
    BY DEF Row
  <2>3. (\E row \in rows : row.breached) <=> \E h \in DOMAIN source.hosts : silent(h)
    <3> HIDE DEF silent
    <3> QED BY <1>2, <2>2
  <2> QED BY <2>1, <2>3
<1>4. Heartbeat(source, now) = Result("heartbeat", detail, rows)
  BY <1>1, <1>2 DEF Heartbeat
<1> QED BY <1>3, <1>4, ResultAgrees

LEMMA CpuPercentAgrees ==
  ASSUME NEW source, NEW asOf PROVE Agrees(CpuPercent(source, asOf))
<1>1. PICK last : last = LatestPoints(GetMetric(source, asOf, "cpu_percent"))
  OBVIOUS
<1>2. PICK detail : detail = {Says(<<p.host>>, "over") : p \in {x \in last : Over(x, Limits.cpu_pct)}}
  OBVIOUS
<1>3. PICK rows : rows = {Row(<<p.host>>, Over(p, Limits.cpu_pct)) : p \in last}
  OBVIOUS
<1>4. detail # {} <=> \E row \in rows : row.breached
  <2>1. detail # {} <=> \E p \in last : Over(p, Limits.cpu_pct)
    BY <1>2
  <2>2. (\E row \in rows : row.breached) <=> \E p \in last : Over(p, Limits.cpu_pct)
    <3>1. \A p : Row(<<p.host>>, Over(p, Limits.cpu_pct)).breached <=> Over(p, Limits.cpu_pct)
      BY DEF Row, Over
    <3> QED BY <1>3, <3>1
  <2> QED BY <2>1, <2>2
<1>5. CpuPercent(source, asOf) = Result("cpu_percent", detail, rows)
  BY <1>1, <1>2, <1>3 DEF CpuPercent
<1> QED BY <1>4, <1>5, ResultAgrees

LEMMA RamPercentAgrees ==
  ASSUME NEW source, NEW asOf PROVE Agrees(RamPercent(source, asOf))
<1>1. PICK used : used = LatestPoints(GetMetric(source, asOf, "physical_memory_used"))
  OBVIOUS
<1>2. PICK total : total = LatestPoints(GetMetric(source, asOf, "physical_memory_total"))
  OBVIOUS
<1>3. PICK percent : percent =
        {Point(pair[1].host, NoMount, pair[1].at, 100 * pair[1].of, pair[2].of) :
            pair \in {q \in used \X total : q[1].host = q[2].host /\ q[2].of > 0}}
  OBVIOUS
<1>4. PICK detail : detail = {Says(<<p.host>>, "over") : p \in {x \in percent : Over(x, Limits.ram_pct)}}
  OBVIOUS
<1>5. PICK rows : rows = {Row(<<p.host>>, Over(p, Limits.ram_pct)) : p \in percent}
  OBVIOUS
<1>6. detail # {} <=> \E row \in rows : row.breached
  <2>1. detail # {} <=> \E p \in percent : Over(p, Limits.ram_pct)
    BY <1>4
  <2>2. (\E row \in rows : row.breached) <=> \E p \in percent : Over(p, Limits.ram_pct)
    <3>1. \A p : Row(<<p.host>>, Over(p, Limits.ram_pct)).breached <=> Over(p, Limits.ram_pct)
      BY DEF Row, Over
    <3> QED BY <1>5, <3>1
  <2> QED BY <2>1, <2>2
<1>7. RamPercent(source, asOf) = Result("ram_percent", detail, rows)
  BY <1>1, <1>2, <1>3, <1>4, <1>5 DEF RamPercent
<1> QED BY <1>6, <1>7, ResultAgrees

LEMMA DiskCheckAgrees ==
  ASSUME NEW source, NEW asOf PROVE Agrees(DiskCheck(source, asOf))
<1>1. PICK disks : disks = {p \in LatestPoints(GetMetric(source, asOf, "fs_bytes_used_percent")) :
                             p.mount \in Limits.disk_mounts}
  OBVIOUS
<1>2. PICK full : full = {p \in disks : Over(p, Limits.disk_pct)}
  OBVIOUS
<1>3. PICK large : large = {f \in LogFiles(source) : f.size > Limits.log_size_mb}
  OBVIOUS
<1>4. PICK detail : detail = {Says(<<p.host, p.mount>>, "over") : p \in full}
                               \cup {Says(<<f.host, "log">>, "over") : f \in large}
  OBVIOUS
<1>5. PICK rows : rows = {Row(<<p.host, p.mount>>, p \in full) : p \in disks}
                           \cup {Row(<<f.host, "log">>, f \in large) : f \in LogFiles(source)}
  OBVIOUS
<1>6. detail # {} <=> full # {} \/ large # {}
  BY <1>2, <1>3, <1>4
<1>7. (\E row \in rows : row.breached) <=> full # {} \/ large # {}
  <2>1. \A p : Row(<<p.host, p.mount>>, p \in full).breached <=> p \in full
    BY DEF Row
  <2>2. \A f : Row(<<f.host, "log">>, f \in large).breached <=> f \in large
    BY DEF Row
  <2>3. ASSUME NEW row \in rows, row.breached PROVE full # {} \/ large # {}
    <3>1. CASE \E p \in disks : row = Row(<<p.host, p.mount>>, p \in full)
      BY <2>1, <2>3, <3>1
    <3>2. CASE \E f \in LogFiles(source) : row = Row(<<f.host, "log">>, f \in large)
      BY <2>2, <2>3, <3>2
    <3> QED BY <1>5, <3>1, <3>2
  <2>4. ASSUME NEW p \in full PROVE \E row \in rows : row.breached
    <3>1. Row(<<p.host, p.mount>>, p \in full) \in rows
      BY <1>2, <1>5
    <3> QED BY <2>1, <3>1
  <2>5. ASSUME NEW f \in large PROVE \E row \in rows : row.breached
    <3>1. Row(<<f.host, "log">>, f \in large) \in rows
      BY <1>3, <1>5
    <3> QED BY <2>2, <3>1
  <2> QED BY <2>3, <2>4, <2>5
<1>8. DiskCheck(source, asOf) = Result("disk_percent", detail, rows)
  BY <1>1, <1>2, <1>3, <1>4, <1>5 DEF DiskCheck
<1> QED BY <1>6, <1>7, <1>8, ResultAgrees

LEMMA HdfsHealthAgrees ==
  ASSUME NEW source, NEW asOf PROVE Agrees(HdfsHealth(source, asOf))
<1>1. PICK health : health = HealthPart(source)
  OBVIOUS
<1>2. PICK growth : growth = GrowthPart(source, asOf)
  OBVIOUS
<1>3. health \cup growth # {} <=> \E row \in EvidenceRows(health, growth) : row.breached
  BY <1>1, <1>2, RowTells DEF EvidenceRows
<1>4. HdfsHealth(source, asOf) = Result("hdfs_health", health \cup growth, EvidenceRows(health, growth))
  BY <1>1, <1>2 DEF HdfsHealth
<1> QED BY <1>3, <1>4, ResultAgrees

\* A service has a clause exactly when it breaches: its summary is left out only
\* where something else is told.
LEMMA ServiceExplained ==
  ASSUME NEW source, NEW n, NEW s
  PROVE  ServiceDetail(source, n, s) # {} <=> ServiceBreached(source, n, s)
BY DEF ServiceDetail, ServiceBreached, SummaryExplains

LEMMA ServiceStatusAgrees ==
  ASSUME NEW source PROVE Agrees(ServiceStatus(source))
<1>1. PICK services : services = GetServices(source)
  OBVIOUS
<1>2. PICK detail : detail = UNION {ServiceDetail(source, n, services[n]) : n \in DOMAIN services}
  OBVIOUS
<1>3. PICK rows : rows = {Row(<<n>>, ServiceBreached(source, n, services[n])) : n \in DOMAIN services}
  OBVIOUS
<1>4. detail # {} <=> \E n \in DOMAIN services : ServiceDetail(source, n, services[n]) # {}
  BY <1>1, <1>2
<1>5. (\E row \in rows : row.breached) <=> \E n \in DOMAIN services : ServiceBreached(source, n, services[n])
  BY <1>1, <1>3, RowTells DEF ServiceBreached
<1>6. detail # {} <=> \E row \in rows : row.breached
  BY <1>4, <1>5, ServiceExplained
<1>7. HasServices(source) => ServiceStatus(source) = Result("service_status", detail, rows)
  BY <1>1, <1>2, <1>3 DEF ServiceStatus
<1>8. ~ HasServices(source) => ServiceStatus(source) = NoData("service_status")
  BY <1>1, <1>2, <1>3 DEF ServiceStatus
<1> QED BY <1>6, <1>7, <1>8, ResultAgrees, NoDataAgrees

LEMMA AlertsAgree ==
  ASSUME NEW source, NEW asOf PROVE Agrees(Alerts(source, asOf))
<1>1. PICK serious : serious = {e \in GetEvents(source, asOf) : e.severity \in Serious}
  OBVIOUS
<1>2. PICK detail : detail = {Says(<<e.severity, e.at>>, e.severity) : e \in serious}
  OBVIOUS
<1>3. PICK rows : rows = IF serious = {} THEN {Row(<<"active alerts">>, FALSE)}
                       ELSE {Row(<<e.severity, e.at>>, TRUE) : e \in serious}
  OBVIOUS
<1>4. detail # {} <=> \E row \in rows : row.breached
  BY <1>2, <1>3, RowTells
<1>5. HasEvents(source) => Alerts(source, asOf) = Result("alerts", detail, rows)
  BY <1>1, <1>2, <1>3 DEF Alerts
<1>6. ~ HasEvents(source) => Alerts(source, asOf) = NoData("alerts")
  BY <1>1, <1>2, <1>3 DEF Alerts
<1> QED BY <1>4, <1>5, <1>6, ResultAgrees, NoDataAgrees

\* Of a host with several reasons one is told; each of the others has its red row.
LEMMA NetworkAgrees ==
  ASSUME NEW source, NEW asOf PROVE Agrees(Network(source, asOf))
<1>1. PICK received : received = LatestPoints(GetMetric(source, asOf, "receive_rate"))
  OBVIOUS
<1>2. PICK errors : errors = LatestPoints(GetMetric(source, asOf, "frame_errors_rate"))
  OBVIOUS
<1>3. PICK dead : dead = {p.host : p \in {x \in received : x.of < DeadBelow}}
  OBVIOUS
<1>4. PICK noisy : noisy = {p.host : p \in {x \in errors : Over(x, Limits.network_error_rate_threshold)}}
  OBVIOUS
<1>5. PICK lost : lost = {p.host : p \in {x \in PingHosts(source) : ~x.reachable}}
  OBVIOUS
<1>6. PICK detail : detail = {Says(<<h>>, "no activity") : h \in dead}
                               \cup {Says(<<h>>, "frame errors") : h \in noisy \ dead}
                               \cup {Says(<<h>>, "unreachable") : h \in lost \ (dead \cup noisy)}
  OBVIOUS
<1>7. PICK rows : rows = {Row(<<p.host>>, p.host \in dead) : p \in received}
                           \cup {Row(<<p.host, "frame errors">>, p.host \in noisy) : p \in errors}
                           \cup {Row(<<p.host, "ping">>, ~p.reachable) : p \in PingHosts(source)}
  OBVIOUS
<1>8. detail # {} <=> dead \cup noisy \cup lost # {}
  <2>1. ASSUME dead \cup noisy \cup lost = {} PROVE detail = {}
    BY <1>6, <2>1
  <2>2. ASSUME NEW h \in dead PROVE detail # {}
    BY <1>6
  <2>3. ASSUME NEW h \in noisy \ dead PROVE detail # {}
    BY <1>6
  <2>4. ASSUME NEW h \in lost \ (dead \cup noisy) PROVE detail # {}
    BY <1>6
  <2> QED BY <2>1, <2>2, <2>3, <2>4
<1>9. (\E p \in received : p.host \in dead) <=> dead # {}
  BY <1>1, <1>3
<1>10. (\E p \in errors : p.host \in noisy) <=> noisy # {}
  BY <1>2, <1>4
<1>11. (\E p \in PingHosts(source) : ~p.reachable) <=> lost # {}
  BY <1>5
<1>12. (\E row \in rows : row.breached) <=>
          \/ \E p \in received : p.host \in dead
          \/ \E p \in errors : p.host \in noisy
          \/ \E p \in PingHosts(source) : ~p.reachable
  <2>1. \A p : Row(<<p.host>>, p.host \in dead).breached <=> p.host \in dead
    BY DEF Row
  <2>2. \A p : Row(<<p.host, "frame errors">>, p.host \in noisy).breached <=> p.host \in noisy
    BY DEF Row
  <2>3. \A p : Row(<<p.host, "ping">>, ~p.reachable).breached <=> ~p.reachable
    BY DEF Row
  <2>4. ASSUME NEW row \in rows, row.breached
        PROVE  \/ \E p \in received : p.host \in dead
               \/ \E p \in errors : p.host \in noisy
               \/ \E p \in PingHosts(source) : ~p.reachable
    <3>1. CASE \E p \in received : row = Row(<<p.host>>, p.host \in dead)
      BY <2>1, <2>4, <3>1
    <3>2. CASE \E p \in errors : row = Row(<<p.host, "frame errors">>, p.host \in noisy)
      BY <2>2, <2>4, <3>2
    <3>3. CASE \E p \in PingHosts(source) : row = Row(<<p.host, "ping">>, ~p.reachable)
      BY <2>3, <2>4, <3>3
    <3> QED BY <1>7, <3>1, <3>2, <3>3
  <2>5. ASSUME NEW p \in received, p.host \in dead PROVE \E row \in rows : row.breached
    <3>1. Row(<<p.host>>, p.host \in dead) \in rows
      BY <1>7
    <3> QED BY <2>1, <2>5, <3>1
  <2>6. ASSUME NEW p \in errors, p.host \in noisy PROVE \E row \in rows : row.breached
    <3>1. Row(<<p.host, "frame errors">>, p.host \in noisy) \in rows
      BY <1>7
    <3> QED BY <2>2, <2>6, <3>1
  <2>7. ASSUME NEW p \in PingHosts(source), ~p.reachable PROVE \E row \in rows : row.breached
    <3>1. Row(<<p.host, "ping">>, ~p.reachable) \in rows
      BY <1>7
    <3> QED BY <2>3, <2>7, <3>1
  <2> QED BY <2>4, <2>5, <2>6, <2>7
<1>13. Network(source, asOf) = Result("network", detail, rows)
  BY <1>1, <1>2, <1>3, <1>4, <1>5, <1>6, <1>7 DEF Network
<1> QED BY <1>8, <1>9, <1>10, <1>11, <1>12, <1>13, ResultAgrees

LEMMA TaskNames ==
  Tasks = {"host_health", "heartbeat", "cpu_percent", "ram_percent", "disk_percent",
           "hdfs_health", "service_status", "alerts", "network"}
BY DEF Tasks, AllChecks

\* A later moment is not of an earlier day.
LEMMA DaysGrow ==
  ASSUME NEW x \in Nat, NEW y \in Nat, x <= y
  PROVE  DayOf(x) \in Nat /\ DayOf(x) <= DayOf(y)
BY DataAssumption DEF DayOf

\* Whatever check is asked for.
LEMMA EveryCheckAgrees ==
  ASSUME NEW source, NEW asOf, NEW now, NEW task \in Tasks
  PROVE  Agrees(Check(task, source, asOf, now))
<1> QED BY TaskNames, HostHealthAgrees, HeartbeatAgrees, CpuPercentAgrees, RamPercentAgrees, DiskCheckAgrees,
           HdfsHealthAgrees, ServiceStatusAgrees, AlertsAgree, NetworkAgrees DEF Check

\* A card agrees with its evidence, whatever a source may tell: status, breaching
\* entities and rows are computed apart in each of checks/*.py and say the same.
THEOREM CardsAgree == Spec => []CardsAgreeWithTheirRows
<1>1. CardsAgreeWithTheirRows
  BY EveryCheckAgrees DEF CardsAgreeWithTheirRows, Answering, BuildSingleCheck, Agrees
<1> QED BY <1>1, PTL

-----------------------------------------------------------------------------
(* What a step records *)

Fields == {"kind", "hosts", "servicesFile", "eventsFile", "services", "roles",
           "events", "samples", "unreachable", "logs"}

\* A cluster of the right types.
ClusterOK(c) ==
    /\ DOMAIN c = Fields
    /\ c.kind \in Kinds
    /\ c.hosts \in [Hosts -> Host]
    /\ DOMAIN c.services \in SUBSET ServiceNames
    /\ \A s \in DOMAIN c.services : c.services[s] \in Service
    /\ c.roles \subseteq Role /\ c.events \subseteq Event /\ c.samples \subseteq Sample
    /\ c.unreachable \subseteq Hosts /\ c.logs \subseteq LogFile

\* What is recorded in a step is of now; a cluster has the services and files it had.
Recorded(c) ==
    /\ ClusterOK(c)
    /\ c.kind = cm.kind /\ c.servicesFile = cm.servicesFile /\ c.eventsFile = cm.eventsFile
    /\ DOMAIN c.services = DOMAIN cm.services
    /\ cm.samples \subseteq c.samples /\ \A s \in c.samples \ cm.samples : s.at = clock
    /\ \A e \in c.events \ cm.events : e.at = clock
    /\ cm.events \subseteq c.events

\* A live source asks or is answered.
Fetching ==
    \/ \E c \in Callers, plan \in Queried : Ask(c, plan)
    \/ \E c \in Callers : Answered(c) \/ Unanswered(c)

\* Every step but the clock's and the requests' records something.
LEMMA RecordedSteps ==
  ASSUME TypeOK, Next
  PROVE  \/ Tick
         \/ Fetching
         \/ Record(cm') /\ Recorded(cm')
<1>0. ClusterOK(cm)
  BY DEF TypeOK, ClusterOK, Fields
<1>1. ASSUME NEW h \in Hosts, Beat(h) PROVE Record(cm') /\ Recorded(cm')
  <2> PICK c : c = [cm EXCEPT !.hosts[h].beat = clock]
    OBVIOUS
  <2> PICK hosts : hosts = [cm.hosts EXCEPT ![h].beat = clock]
    OBVIOUS
  <2>1. Record(c) /\ cm' = c
    BY <1>1 DEF Beat, Record
  <2>2. cm.hosts[h] \in Host
    BY <1>0 DEF ClusterOK
  <2>3. [cm.hosts[h] EXCEPT !.beat = clock] \in Host
    BY <2>2 DEF TypeOK, Host
  <2>4. hosts \in [Hosts -> Host]
    BY <1>0, <2>3 DEF ClusterOK
  <2>5. c = [cm EXCEPT !.hosts = hosts]
    OBVIOUS
  <2>6. Recorded(c)
    BY <1>0, <2>4, <2>5 DEF Recorded, ClusterOK, Fields
  <2> QED BY <2>1, <2>6
<1>2. ASSUME NEW h \in Hosts, HostTurns(h) PROVE Record(cm') /\ Recorded(cm')
  <2>1. PICK health \in Healths : Record([cm EXCEPT !.hosts[h].health = health])
    BY <1>2 DEF HostTurns
  <2> PICK c : c = [cm EXCEPT !.hosts[h].health = health]
    OBVIOUS
  <2> PICK hosts : hosts = [cm.hosts EXCEPT ![h].health = health]
    OBVIOUS
  <2>2. Record(c) /\ cm' = c
    BY <2>1 DEF Record
  <2>3. [cm.hosts[h] EXCEPT !.health = health] \in Host
    BY <1>0 DEF ClusterOK, Host
  <2>4. hosts \in [Hosts -> Host]
    BY <1>0, <2>3 DEF ClusterOK
  <2>5. c = [cm EXCEPT !.hosts = hosts]
    OBVIOUS
  <2>6. Recorded(c)
    BY <1>0, <2>4, <2>5 DEF Recorded, ClusterOK, Fields
  <2> QED BY <2>2, <2>6
<1>3. ASSUME NEW h \in Hosts, LoseHost(h) PROVE Record(cm') /\ Recorded(cm')
  <2> PICK c : c = [cm EXCEPT !.unreachable = @ \cup {h}]
    OBVIOUS
  <2>1. Record(c) /\ cm' = c
    BY <1>3 DEF LoseHost, Record
  <2>2. Recorded(c)
    BY <1>0 DEF Recorded, ClusterOK, Fields
  <2> QED BY <2>1, <2>2
<1>4. ASSUME NEW h \in Hosts, GrowLog(h) PROVE Record(cm') /\ Recorded(cm')
  <2>1. PICK size \in LogSizes :
            Record([cm EXCEPT !.logs = {f \in @ : f.host # h} \cup {[host |-> h, size |-> size]}])
    BY <1>4 DEF GrowLog
  <2> PICK logs : logs = {f \in cm.logs : f.host # h} \cup {[host |-> h, size |-> size]}
    OBVIOUS
  <2> PICK c : c = [cm EXCEPT !.logs = logs]
    OBVIOUS
  <2>2. Record(c) /\ cm' = c
    BY <2>1 DEF Record
  <2>3. logs \subseteq LogFile
    BY <1>0, ReportsAssumption DEF ClusterOK, LogFile
  <2>4. Recorded(c)
    BY <1>0, <2>3 DEF Recorded, ClusterOK, Fields
  <2> QED BY <2>2, <2>4
<1>5. ASSUME NEW metric \in Metrics, Measure(metric) PROVE Record(cm') /\ Recorded(cm')
  <2>1. PICK at \in Carriers(metric), value \in Values[metric] :
            Record([cm EXCEPT !.samples = @ \cup
                        {[metric |-> metric, host |-> at[1], mount |-> at[2], at |-> clock,
                          value |-> value]}])
    BY <1>5 DEF Measure
  <2> PICK s : s = [metric |-> metric, host |-> at[1], mount |-> at[2], at |-> clock, value |-> value]
    OBVIOUS
  <2> PICK c : c = [cm EXCEPT !.samples = @ \cup {s}]
    OBVIOUS
  <2>2. Record(c) /\ cm' = c
    BY <2>1 DEF Record
  <2>3. at[1] \in Hosts \cup {"hdfs"} /\ at[2] \in Mounts \cup {NoMount}
    BY DEF Carriers
  <2>4. value \in Nat
    BY ReportsAssumption
  <2>5. s \in Sample /\ s.at = clock
    BY <2>3, <2>4 DEF Sample, TypeOK
  <2>6. Recorded(c)
    BY <1>0, <2>5 DEF Recorded, ClusterOK, Fields
  <2> QED BY <2>2, <2>6
<1>6. ASSUME NEW n \in ServiceNames, ServiceTurns(n) PROVE Record(cm') /\ Recorded(cm')
  <2>1. n \in DOMAIN cm.services /\ cm.services[n] \in Service
    BY <1>0, <1>6 DEF ServiceTurns, ClusterOK
  <2>2. ASSUME NEW service \in Service, Record([cm EXCEPT !.services[n] = service])
        PROVE  Record(cm') /\ Recorded(cm')
    <3> PICK services : services = [cm.services EXCEPT ![n] = service]
      OBVIOUS
    <3> PICK c : c = [cm EXCEPT !.services[n] = service]
      OBVIOUS
    <3>1. Record(c) /\ cm' = c
      BY <2>2 DEF Record
    <3>2. DOMAIN services = DOMAIN cm.services /\ \A m \in DOMAIN services : services[m] \in Service
      BY <1>0 DEF ClusterOK
    <3>3. c = [cm EXCEPT !.services = services]
      OBVIOUS
    <3>4. Recorded(c)
      BY <1>0, <3>2, <3>3 DEF Recorded, ClusterOK, Fields
    <3> QED BY <3>1, <3>4
  <2>3. ASSUME NEW v \in States, Record([cm EXCEPT !.services[n].state = v])
        PROVE  Record(cm') /\ Recorded(cm')
    <3>1. [cm.services[n] EXCEPT !.state = v] \in Service
      BY <2>1 DEF Service
    <3>2. [cm EXCEPT !.services[n].state = v] =
            [cm EXCEPT !.services[n] = [cm.services[n] EXCEPT !.state = v]]
      OBVIOUS
    <3> QED BY <2>2, <2>3, <3>1, <3>2
  <2>4. ASSUME NEW v \in Healths, Record([cm EXCEPT !.services[n].summary = v])
        PROVE  Record(cm') /\ Recorded(cm')
    <3>1. [cm.services[n] EXCEPT !.summary = v] \in Service
      BY <2>1 DEF Service
    <3>2. [cm EXCEPT !.services[n].summary = v] =
            [cm EXCEPT !.services[n] = [cm.services[n] EXCEPT !.summary = v]]
      OBVIOUS
    <3> QED BY <2>2, <2>4, <3>1, <3>2
  <2>5. ASSUME NEW v \in Healths, Record([cm EXCEPT !.services[n].check = v])
        PROVE  Record(cm') /\ Recorded(cm')
    <3>1. [cm.services[n] EXCEPT !.check = v] \in Service
      BY <2>1 DEF Service
    <3>2. [cm EXCEPT !.services[n].check = v] =
            [cm EXCEPT !.services[n] = [cm.services[n] EXCEPT !.check = v]]
      OBVIOUS
    <3> QED BY <2>2, <2>5, <3>1, <3>2
  <2> QED BY <1>6, <2>3, <2>4, <2>5 DEF ServiceTurns
<1>7. ASSUME NEW n \in ServiceNames, RoleTurns(n) PROVE Record(cm') /\ Recorded(cm')
  <2>1. PICK v \in Healths : Record([cm EXCEPT !.roles = {r \in @ : r.service # n}
                                                \cup {[service |-> n, check |-> v]}])
    BY <1>7 DEF RoleTurns
  <2> PICK roles : roles = {r \in cm.roles : r.service # n} \cup {[service |-> n, check |-> v]}
    OBVIOUS
  <2> PICK c : c = [cm EXCEPT !.roles = roles]
    OBVIOUS
  <2>2. Record(c) /\ cm' = c
    BY <2>1 DEF Record
  <2>3. roles \subseteq Role
    BY <1>0 DEF ClusterOK, Role, ServiceNames
  <2>4. Recorded(c)
    BY <1>0, <2>3 DEF Recorded, ClusterOK, Fields
  <2> QED BY <2>2, <2>4
<1>8. CASE RaiseEvent
  <2>1. PICK severity \in Severities, alert \in BOOLEAN :
            Record([cm EXCEPT !.events = @ \cup {[severity |-> severity, alert |-> alert, at |-> clock]}])
    BY <1>8 DEF RaiseEvent
  <2> PICK e : e = [severity |-> severity, alert |-> alert, at |-> clock]
    OBVIOUS
  <2> PICK c : c = [cm EXCEPT !.events = @ \cup {e}]
    OBVIOUS
  <2>2. Record(c) /\ cm' = c
    BY <2>1 DEF Record
  <2>3. e \in Event /\ e.at = clock
    BY DEF Event, TypeOK
  <2>4. Recorded(c)
    BY <1>0, <2>3 DEF Recorded, ClusterOK, Fields
  <2> QED BY <2>2, <2>4
<1> QED BY <1>1, <1>2, <1>3, <1>4, <1>5, <1>6, <1>7, <1>8 DEF Next, Fetching

-----------------------------------------------------------------------------
(* The invariant *)

\* An answer has everything the query asks for that was measured before it was
\* asked for: one in flight, and so one that is cached.
Complete(plan, at, samples) == \A s \in Wanted(cm, plan, at) : s.at < at => s \in samples

AskedComplete == \A c \in DOMAIN asked : Complete(asked[c].plan, asked[c].at, asked[c].samples)
CacheComplete == \A plan \in DOMAIN cache : Complete(plan, cache[plan].asked, cache[plan].samples)

RInv == TypeOK /\ AskedComplete /\ CacheComplete

LEMMA InitRInv == Init => RInv
<1> SUFFICES ASSUME Init PROVE RInv
  OBVIOUS
<1>1. PICK kind \in Kinds, servicesFile \in BOOLEAN, eventsFile \in BOOLEAN, S \in SUBSET ServiceNames :
          cm = [kind |-> kind, hosts |-> [h \in Hosts |-> [health |-> "GOOD", beat |-> 0]],
                servicesFile |-> servicesFile, eventsFile |-> eventsFile,
                services |-> [s \in S |-> [state |-> "STARTED", summary |-> "GOOD",
                                           check |-> "GOOD"]],
                roles |-> {}, events |-> {}, samples |-> {}, unreachable |-> {}, logs |-> {}]
  BY DEF Init
<1>2. [h \in Hosts |-> [health |-> "GOOD", beat |-> 0]] \in [Hosts -> Host]
  BY DataAssumption DEF Host, Healths, Moments
<1>3. ClusterOK(cm)
  BY <1>1, <1>2 DEF ClusterOK, Fields, Service, States, Healths
<1>4. cm.samples = {} /\ DOMAIN cache = {} /\ DOMAIN asked = {} /\ clock \in Moments /\ records \in 0..MaxRecords
  BY <1>1, DataAssumption, ReportsAssumption DEF Init, Moments
<1>5. TypeOK
  BY <1>3, <1>4 DEF TypeOK, ClusterOK, Fields
<1> QED BY <1>4, <1>5 DEF RInv, AskedComplete, CacheComplete

LEMMA StepRInv == RInv /\ [Next]_vars => RInv'
<1> SUFFICES ASSUME RInv, [Next]_vars PROVE RInv'
  OBVIOUS
<1>0. TypeOK /\ ClusterOK(cm) /\ clock \in Nat /\ clock \in Moments
  BY DataAssumption DEF RInv, TypeOK, ClusterOK, Fields, Moments
<1>1. CASE Tick
  <2>1. clock' \in Moments /\ clock' = clock + 1 /\ UNCHANGED <<cm, records, cache, asked>>
    BY <1>0, <1>1, DataAssumption DEF Tick, Moments
  <2>2. /\ \A plan \in DOMAIN cache : cache[plan].at \in 0..clock'
        /\ \A c \in DOMAIN asked : asked[c].at \in 0..clock'
    BY <1>0, <2>1 DEF TypeOK
  <2>3. TypeOK'
    BY <1>0, <2>1, <2>2 DEF TypeOK
  <2> QED BY <2>1, <2>3 DEF RInv, AskedComplete, CacheComplete, Complete, Wanted
<1>2. ASSUME NEW c \in Callers, NEW plan \in Queried, Ask(c, plan) PROVE RInv'
  <2> PICK r : r = [plan |-> plan, at |-> clock, samples |-> Wanted(cm, plan, clock)]
    OBVIOUS
  <2>1. /\ asked' = [x \in DOMAIN asked \cup {c} |-> IF x = c THEN r ELSE asked[x]]
        /\ UNCHANGED <<clock, cm, records, cache>>
    BY <1>2 DEF Ask
  <2>2. DOMAIN asked' = DOMAIN asked \cup {c}
        /\ \A x \in DOMAIN asked' : asked'[x] = IF x = c THEN r ELSE asked[x]
    BY <2>1
  <2>3. /\ r.plan \in DOMAIN Plans /\ r.at \in 0..clock /\ r.samples \subseteq cm.samples
        /\ Complete(r.plan, r.at, r.samples)
    BY <1>0, ReportsAssumption DEF Complete, Wanted
  <2>4. /\ DOMAIN asked' \subseteq Callers
        /\ \A x \in DOMAIN asked' :
              /\ asked'[x].plan \in DOMAIN Plans /\ asked'[x].at \in 0..clock
              /\ asked'[x].samples \subseteq cm.samples
    BY <1>0, <2>2, <2>3 DEF TypeOK
  <2>5. TypeOK'
    BY <1>0, <2>1, <2>4 DEF TypeOK
  <2>6. \A x \in DOMAIN asked' : Complete(asked'[x].plan, asked'[x].at, asked'[x].samples)
    BY <2>2, <2>3 DEF RInv, AskedComplete
  <2> QED BY <2>1, <2>5, <2>6 DEF RInv, AskedComplete, CacheComplete, Complete
<1>5. ASSUME NEW c \in Callers, Answered(c) PROVE RInv'
  <2> DEFINE r == asked[c]
  <2>1. /\ c \in DOMAIN asked /\ UNCHANGED <<clock, cm, records>>
        /\ asked' = [x \in DOMAIN asked \ {c} |-> asked[x]]
    BY <1>5 DEF Answered, Forget
  <2>2. PICK late \in SUBSET (Wanted(cm, r.plan, r.at) \ r.samples) :
           cache' = [p \in DOMAIN cache \cup {r.plan} |->
                       IF p = r.plan THEN CacheEntry(r.at, r.samples \cup late) ELSE cache[p]]
    BY <1>5, Zenon DEF Answered
  <2> HIDE DEF r
  <2>3. /\ r.plan \in DOMAIN Plans /\ r.at \in 0..clock /\ r.samples \subseteq cm.samples
        /\ Complete(r.plan, r.at, r.samples)
    <3>1. r.plan \in DOMAIN Plans /\ r.at \in 0..clock /\ r.samples \subseteq cm.samples
      <4>1. \A x \in DOMAIN asked : /\ asked[x].plan \in DOMAIN Plans /\ asked[x].at \in 0..clock
                                   /\ asked[x].samples \subseteq cm.samples
        BY <1>0 DEF TypeOK
      <4> QED BY <2>1, <4>1 DEF r
    <3>2. Complete(r.plan, r.at, r.samples)
      BY <2>1 DEF RInv, AskedComplete, r
    <3> QED BY <3>1, <3>2
  <2> PICK entry : entry = CacheEntry(r.at, r.samples \cup late)
    OBVIOUS
  <2>4. /\ entry.at = clock /\ entry.asked = r.at /\ entry.samples = r.samples \cup late
    BY DEF CacheEntry
  <2>5. /\ entry.at \in 0..clock /\ entry.asked \in 0..entry.at
        /\ entry.samples \subseteq cm.samples
    <3>1. late \subseteq cm.samples
      BY DEF Wanted
    <3>2. entry.samples \subseteq cm.samples
      BY <2>3, <2>4, <3>1
    <3>3. clock \in 0..clock
      BY <1>0
    <3> QED BY <2>3, <2>4, <3>2, <3>3
  <2>6. Complete(r.plan, entry.asked, entry.samples)
    <3>1. ASSUME NEW plan, NEW at, NEW few, NEW many, few \subseteq many, Complete(plan, at, few)
          PROVE  Complete(plan, at, many)
      BY <3>1 DEF Complete
    <3>2. r.samples \subseteq entry.samples
      BY <2>4
    <3> QED BY <2>3, <2>4, <3>1, <3>2
  <2>7. DOMAIN cache' = DOMAIN cache \cup {r.plan}
        /\ \A p \in DOMAIN cache' : cache'[p] = IF p = r.plan THEN entry ELSE cache[p]
    BY <2>2
  <2>8. /\ DOMAIN cache' \subseteq DOMAIN Plans
        /\ \A p \in DOMAIN cache' :
              /\ cache'[p].at \in 0..clock /\ cache'[p].asked \in 0..cache'[p].at
              /\ cache'[p].samples \subseteq cm.samples
    BY <1>0, <2>3, <2>5, <2>7 DEF TypeOK
  <2>9. DOMAIN asked' \subseteq DOMAIN asked /\ \A x \in DOMAIN asked' : asked'[x] = asked[x]
    BY <2>1
  <2>10. TypeOK'
    BY <1>0, <2>1, <2>8, <2>9 DEF TypeOK
  <2>11. \A p \in DOMAIN cache' : Complete(p, cache'[p].asked, cache'[p].samples)
    BY <2>6, <2>7 DEF RInv, CacheComplete
  <2> QED BY <2>1, <2>9, <2>10, <2>11 DEF RInv, AskedComplete, CacheComplete, Complete
<1>6. ASSUME NEW c \in Callers, Unanswered(c) PROVE RInv'
  <2>1. UNCHANGED <<clock, cm, records, cache>>
    BY <1>6 DEF Unanswered
  <2>2. DOMAIN asked' \subseteq DOMAIN asked /\ \A x \in DOMAIN asked' : asked'[x] = asked[x]
    BY <1>6 DEF Unanswered, Forget
  <2>3. TypeOK'
    BY <1>0, <2>1, <2>2 DEF TypeOK
  <2> QED BY <2>1, <2>2, <2>3 DEF RInv, AskedComplete, CacheComplete, Complete
<1>3. CASE Record(cm') /\ Recorded(cm')
  <2>1. UNCHANGED <<clock, cache, asked>> /\ records' \in 0..MaxRecords
    BY <1>0, <1>3, ReportsAssumption DEF Record, TypeOK
  <2>2. /\ ClusterOK(cm') /\ cm'.kind = cm.kind
        /\ cm.samples \subseteq cm'.samples
        /\ \A s \in cm'.samples \ cm.samples : s.at = clock
    BY <1>3 DEF Recorded
  <2>3. /\ \A plan \in DOMAIN cache : /\ cache[plan].asked \in 0..clock
                                      /\ cache[plan].samples \subseteq cm.samples
        /\ \A c \in DOMAIN asked : asked[c].at \in 0..clock /\ asked[c].samples \subseteq cm.samples
    BY <1>0 DEF TypeOK
  <2>4. TypeOK'
    <3>1. /\ \A plan \in DOMAIN cache : cache[plan].samples \subseteq cm'.samples
          /\ \A c \in DOMAIN asked : asked[c].samples \subseteq cm'.samples
      BY <2>2, <2>3
    <3> QED BY <1>0, <2>1, <2>2, <3>1 DEF TypeOK, ClusterOK, Fields
  <2>5. ASSUME NEW plan, NEW at \in 0..clock, NEW samples, Complete(plan, at, samples)
        PROVE  Complete(plan, at, samples)'
    <3>1. \A s \in cm'.samples : s.at < at => s \in cm.samples
      BY <1>0, <2>2, <2>5
    <3> QED BY <2>5, <3>1 DEF Complete, Wanted
  <2>6. AskedComplete' /\ CacheComplete'
    BY <2>1, <2>3, <2>5 DEF RInv, AskedComplete, CacheComplete
  <2> QED BY <2>4, <2>6 DEF RInv
<1>4. CASE UNCHANGED vars
  BY <1>4 DEF vars, RInv, TypeOK, AskedComplete, CacheComplete, Complete
<1> QED BY <1>0, <1>1, <1>2, <1>3, <1>4, <1>5, <1>6, RecordedSteps DEF Fetching

LEMMA RInvHolds == Spec => []RInv
BY InitRInv, StepRInv, PTL DEF Spec

\* The cluster, what is recorded of it and what the source has cached keep their
\* types; a cached answer is of the past and tells nothing that was not measured
\* (_metrics_cache of api_source.py).
THEOREM TypeCorrect == Spec => []TypeOK
<1>1. RInv => TypeOK
  BY DEF RInv
<1> QED BY <1>1, RInvHolds, PTL

-----------------------------------------------------------------------------
(* What a source shows *)

LEMMA SeenCluster ==
  ASSUME NEW c, DOMAIN c = Fields, NEW answers, NEW at
  PROVE  /\ Seen(c, answers, at).kind = c.kind
         /\ Seen(c, answers, at).hosts = c.hosts
         /\ Seen(c, answers, at).servicesFile = c.servicesFile
         /\ Seen(c, answers, at).eventsFile = c.eventsFile
         /\ Seen(c, answers, at).services = c.services
         /\ Seen(c, answers, at).roles = c.roles
         /\ Seen(c, answers, at).events = c.events
         /\ Seen(c, answers, at).unreachable = c.unreachable
         /\ Seen(c, answers, at).logs = c.logs
         /\ c.kind # "api" => Seen(c, answers, at).samples = c.samples
         /\ c.kind = "api" => \A s : s \in Seen(c, answers, at).samples <=>
                \E plan \in DOMAIN Plans : s \in FetchPlan(c, answers, plan, at)
BY DEF Seen, Fields

LEMMA LagBound == RInv => LagBoundedByTtl
<1> SUFFICES ASSUME RInv, NEW plan \in DOMAIN cache, cm.kind = "api", Fresh(cache[plan], clock),
                    NEW s \in Wanted(cm, plan, clock),
                    s.at <= clock - CacheTtl - Took(cache[plan])
             PROVE  s \in Source.samples
  BY DEF LagBoundedByTtl
<1> PICK entry : entry = cache[plan]
  OBVIOUS
<1>1. /\ s \in cm.samples /\ s.metric \in Plans[plan] /\ InLookback(s, clock)
      /\ s \in Sample /\ plan \in DOMAIN Plans
  BY DEF Wanted, RInv, TypeOK
<1>2. /\ clock \in Nat /\ s.at \in Nat /\ CacheTtl \in Nat /\ LookbackDays \in Nat
      /\ entry.at \in 0..clock /\ entry.asked \in 0..entry.at
  BY <1>1, DataAssumption DEF RInv, TypeOK, Moments, Sample
<1>3. entry.asked \in Nat /\ entry.asked <= clock /\ s.at < entry.asked
  BY <1>2 DEF Fresh, Took
<1>4. DayOf(entry.asked) <= DayOf(clock) /\ DayOf(entry.asked) \in Nat /\ DayOf(clock) \in Nat
      /\ DayOf(s.at) \in Nat
  BY <1>2, <1>3, DaysGrow
<1>5. InLookback(s, entry.asked)
  BY <1>1, <1>2, <1>4 DEF InLookback
<1>6. s \in entry.samples
  BY <1>1, <1>3, <1>5 DEF RInv, CacheComplete, Complete, Wanted
<1>7. s \in FetchPlan(cm, cache, plan, clock)
  BY <1>6 DEF FetchPlan, Cached
<1>8. DOMAIN cm = Fields
  BY DEF RInv, TypeOK, Fields
<1> QED BY <1>1, <1>7, <1>8, SeenCluster DEF Source

\* What a live source answers from its cache lags by no more than CacheTtl and the
\* time the cached answer took to come, for any callers that ask at once in any
\* order, any history asked for and any TTL (_fetch_plan of api_source.py).
THEOREM LagBounded == Spec => []LagBoundedByTtl
BY LagBound, RInvHolds, PTL

-----------------------------------------------------------------------------
(* Earlier days *)

\* Two sources that tell the same of what was measured and raised up to a day.
SameUpTo(a, b, day) ==
    /\ a.kind = b.kind /\ a.kind # "json" /\ a.eventsFile = b.eventsFile
    /\ \A s : DayOf(s.at) <= day => (s \in a.samples <=> s \in b.samples)
    /\ \A e : DayOf(e.at) <= day => (e \in a.events <=> e \in b.events)

LEMMA SameBothWays ==
  ASSUME NEW a, NEW b, NEW day, SameUpTo(a, b, day)
  PROVE  SameUpTo(b, a, day)
BY DEF SameUpTo

\* Every point of a day is computed from samples of its own moment.
LEMMA TrimmedPoints ==
  ASSUME NEW a, NEW b, NEW day \in Nat, SameUpTo(a, b, day)
  PROVE  /\ \A metric : TrimToDay(HostMetric(a, metric), day) \subseteq TrimToDay(HostMetric(b, metric), day)
         /\ TrimToDay(DiskPercent(a), day) \subseteq TrimToDay(DiskPercent(b), day)
<1>1. day # Latest
  BY DEF Latest
<1>2. ASSUME NEW metric, NEW p \in TrimToDay(HostMetric(a, metric), day)
      PROVE  p \in TrimToDay(HostMetric(b, metric), day)
  <2>1. PICK s \in Of(a, metric) : p = Point(s.host, s.mount, s.at, s.value, 1)
    BY DEF TrimToDay, HostMetric
  <2>2. p.at = s.at /\ OnOrBefore(p.at, day)
    BY <2>1 DEF Point, TrimToDay
  <2>3. s \in Of(b, metric)
    BY <1>1, <2>2 DEF OnOrBefore, Of, SameUpTo
  <2> QED BY <2>1, <2>2, <2>3 DEF TrimToDay, HostMetric
<1>3. ASSUME NEW p \in TrimToDay(DiskPercent(a), day)
      PROVE  p \in TrimToDay(DiskPercent(b), day)
  <2>1. PICK pair \in Of(a, "capacity_used") \X Of(a, "capacity") :
            /\ pair[1].host = pair[2].host /\ pair[1].mount = pair[2].mount
            /\ pair[1].at = pair[2].at
            /\ pair[2].value > 0
            /\ p = Point(pair[1].host, pair[1].mount, pair[1].at, 100 * pair[1].value, pair[2].value)
    BY DEF TrimToDay, DiskPercent
  <2>2. p.at = pair[1].at /\ p.at = pair[2].at /\ OnOrBefore(p.at, day)
    BY <2>1 DEF Point, TrimToDay
  <2>3. pair \in Of(b, "capacity_used") \X Of(b, "capacity")
    BY <1>1, <2>1, <2>2 DEF OnOrBefore, Of, SameUpTo
  <2>4. p \in DiskPercent(b)
    BY <2>1, <2>3 DEF DiskPercent
  <2> QED BY <2>2, <2>4 DEF TrimToDay
<1> QED BY <1>2, <1>3

Measured == {"cpu_percent", "physical_memory_used", "physical_memory_total", "fs_bytes_used_percent",
             "receive_rate", "frame_errors_rate"}

LEMMA SameMetrics ==
  ASSUME NEW a, NEW b, NEW day \in Nat, NEW metric \in Measured, SameUpTo(a, b, day)
  PROVE  GetMetric(a, day, metric) = GetMetric(b, day, metric)
<1>1. SameUpTo(b, a, day)
  BY SameBothWays
<1>2. TrimToDay(HostMetric(a, metric), day) = TrimToDay(HostMetric(b, metric), day)
  BY <1>1, TrimmedPoints
<1>3. TrimToDay(DiskPercent(a), day) = TrimToDay(DiskPercent(b), day)
  BY <1>1, TrimmedPoints
<1>4. Dated(a) /\ Dated(b)
  BY DEF Dated, SameUpTo
<1>5. GetMetric(a, day, metric) = TrimToDay(AllPoints(a, metric), day)
      /\ GetMetric(b, day, metric) = TrimToDay(AllPoints(b, metric), day)
  BY <1>4 DEF GetMetric
<1>6. CASE metric = "fs_bytes_used_percent"
  <2>1. AllPoints(a, metric) = DiskPercent(a) /\ AllPoints(b, metric) = DiskPercent(b)
    BY <1>6 DEF AllPoints, SameUpTo, HdfsMetrics, HostMetrics
  <2> QED BY <1>3, <1>5, <2>1
<1>7. CASE metric \in HostMetrics \cup {"receive_rate"}
  <2>1. AllPoints(a, metric) = HostMetric(a, metric) /\ AllPoints(b, metric) = HostMetric(b, metric)
    BY <1>7 DEF AllPoints, SameUpTo, HdfsMetrics, HostMetrics, NetworkThroughput
  <2> QED BY <1>2, <1>5, <2>1
<1>8. CASE metric = "frame_errors_rate"
  <2>1. AllPoints(a, metric) = {} /\ AllPoints(b, metric) = {}
    BY <1>8 DEF AllPoints, SameUpTo, HdfsMetrics, HostMetrics
  <2> QED BY <1>5, <2>1
<1> QED BY <1>6, <1>7, <1>8 DEF Measured, HostMetrics

LEMMA SameEvents ==
  ASSUME NEW a, NEW b, NEW day \in Nat, SameUpTo(a, b, day)
  PROVE  GetEvents(a, day) = GetEvents(b, day) /\ (HasEvents(a) <=> HasEvents(b))
<1>1. day # Latest
  BY DEF Latest
<1>2. EventsOnOrBefore(ParsedEvents(a), day) = EventsOnOrBefore(ParsedEvents(b), day)
  BY <1>1 DEF EventsOnOrBefore, ParsedEvents, OnOrBefore, SameUpTo
<1>3. Dated(a) /\ Dated(b) /\ (HasEvents(a) <=> HasEvents(b))
  BY DEF Dated, HasEvents, SameUpTo
<1> QED BY <1>2, <1>3 DEF GetEvents

DayTasks == {"cpu_percent", "ram_percent", "disk_percent", "alerts", "network"}

\* The checks of measurements and alerts look at nothing else.
LEMMA SameCards ==
  ASSUME NEW a, NEW b, NEW day \in Nat, SameUpTo(a, b, day), NEW task \in DayTasks, NEW now, NEW then
  PROVE  Check(task, a, day, now) = Check(task, b, day, then)
<1>1. \A metric \in Measured : GetMetric(a, day, metric) = GetMetric(b, day, metric)
  BY SameMetrics
<1>2. LogFiles(a) = LogFiles(b) /\ PingHosts(a) = PingHosts(b)
  BY DEF LogFiles, PingHosts, SameUpTo
<1>3. CASE task = "cpu_percent"
  BY <1>1, <1>3 DEF Check, CpuPercent, Measured
<1>4. CASE task = "ram_percent"
  BY <1>1, <1>4 DEF Check, RamPercent, Measured
<1>5. CASE task = "disk_percent"
  BY <1>1, <1>2, <1>5 DEF Check, DiskCheck, Measured
<1>6. CASE task = "alerts"
  BY SameEvents, <1>6 DEF Check, Alerts
<1>7. CASE task = "network"
  BY <1>1, <1>2, <1>7 DEF Check, Network, Measured
<1> QED BY <1>3, <1>4, <1>5, <1>6, <1>7 DEF DayTasks

\* What a step records is of now, so that an earlier day is told as before.
LEMMA EarlierDaysTold ==
  ASSUME RInv, Record(cm'), Recorded(cm'), Dated(cm), NEW day \in Nat, day < DayOf(clock)
  PROVE  SameUpTo(Source, Source', day)
<1>1. DOMAIN cm = Fields /\ DOMAIN cm' = Fields
  BY DEF RInv, TypeOK, Recorded, ClusterOK, Fields
<1>2. UNCHANGED <<clock, cache>>
  BY DEF Record
<1>3. /\ cm'.kind = cm.kind /\ cm'.eventsFile = cm.eventsFile
      /\ \A s : DayOf(s.at) <= day => (s \in cm.samples <=> s \in cm'.samples)
      /\ \A e : DayOf(e.at) <= day => (e \in cm.events <=> e \in cm'.events)
  <2>1. DayOf(clock) \in Nat
    BY DataAssumption, DaysGrow DEF RInv, TypeOK, Moments
  <2> QED BY <2>1 DEF Recorded
<1>4. ASSUME NEW s, DayOf(s.at) <= day, NEW plan \in DOMAIN Plans
      PROVE  s \in FetchPlan(cm, cache, plan, clock)
             <=> s \in FetchPlan(cm', cache, plan, clock)
  <2>1. CASE Cached(cache, plan, clock)
    BY <2>1 DEF FetchPlan
  <2>2. CASE ~Cached(cache, plan, clock)
    BY <1>3, <1>4, <2>2 DEF FetchPlan, Wanted
  <2> QED BY <2>1, <2>2
<1>5. Source' = Seen(cm', cache, clock)
  BY <1>2 DEF Source
<1>6. /\ Source.kind = cm.kind /\ Source'.kind = cm.kind
      /\ Source.eventsFile = cm.eventsFile /\ Source'.eventsFile = cm.eventsFile
      /\ Source.events = cm.events /\ Source'.events = cm'.events
  BY <1>1, <1>3, <1>5, SeenCluster DEF Source
<1>7. ASSUME NEW s, DayOf(s.at) <= day PROVE s \in Source.samples <=> s \in Source'.samples
  <2>1. CASE cm.kind # "api"
    <3>1. Source.samples = cm.samples /\ Source'.samples = cm'.samples
      BY <1>1, <1>3, <1>5, <2>1, SeenCluster DEF Source
    <3> QED BY <1>3, <1>7, <3>1
  <2>2. CASE cm.kind = "api"
    <3>1. s \in Source.samples <=> \E plan \in DOMAIN Plans : s \in FetchPlan(cm, cache, plan, clock)
      BY <1>1, <2>2, SeenCluster DEF Source
    <3>2. s \in Source'.samples <=>
            \E plan \in DOMAIN Plans : s \in FetchPlan(cm', cache, plan, clock)
      BY <1>1, <1>3, <1>5, <2>2, SeenCluster
    <3> QED BY <1>4, <1>7, <3>1, <3>2
  <2> QED BY <2>1, <2>2
<1>8. cm.kind # "json"
  BY DEF Dated
<1> QED BY <1>3, <1>6, <1>7, <1>8 DEF SameUpTo

\* What is measured or raised after a day changes no card of that day, of the checks
\* of measurements and alerts (data_sources/day_filter.py and its callers).
THEOREM EarlierDaysStay == Spec => EarlierDaysSettled
<1>1. ASSUME RInv, [Next]_vars, cm' # cm, Dated(cm), NEW day \in 0..(DayOf(clock) - 1),
             NEW task \in {"cpu_percent", "ram_percent", "disk_percent", "alerts", "network"} \cap Answering(cm)
      PROVE  BuildSingleCheck(task, Source, day, clock)' = BuildSingleCheck(task, Source, day, clock)
  <2>1. Record(cm') /\ Recorded(cm')
    BY <1>1, RecordedSteps DEF RInv, vars, Tick, Fetching, Ask, Answered, Unanswered
  <2>2. DayOf(clock) \in Nat
    BY <1>1, DataAssumption, DaysGrow DEF RInv, TypeOK, Moments
  <2>3. day \in Nat /\ day < DayOf(clock)
    BY <2>2
  <2>4. SameUpTo(Source, Source', day)
    BY <1>1, <2>1, <2>3, EarlierDaysTold
  <2> QED BY <2>3, <2>4, SameCards DEF BuildSingleCheck, DayTasks
<1>2. RInv /\ [Next]_vars =>
        [cm' # cm /\ Dated(cm) =>
          \A day \in 0..(DayOf(clock) - 1), task \in
                {"cpu_percent", "ram_percent", "disk_percent", "alerts", "network"} \cap Answering(cm) :
              BuildSingleCheck(task, Source, day, clock)' = BuildSingleCheck(task, Source, day, clock)]_vars
  BY <1>1
<1> QED BY <1>2, RInvHolds, PTL DEF Spec, EarlierDaysSettled

-----------------------------------------------------------------------------
(* Worse clusters *)

\* A source that tells no better of anything than another.
NoBetter(a, b) ==
    /\ b.kind = a.kind /\ b.servicesFile = a.servicesFile /\ b.eventsFile = a.eventsFile
    /\ b.samples = a.samples
    /\ DOMAIN b.hosts = DOMAIN a.hosts
    /\ \A h \in DOMAIN a.hosts : AsBad(a.hosts[h].health, b.hosts[h].health)
    /\ DOMAIN b.services = DOMAIN a.services
    /\ \A n \in DOMAIN a.services :
          /\ AsBad(a.services[n].summary, b.services[n].summary)
          /\ AsBad(a.services[n].check, b.services[n].check)
          /\ a.services[n].state = b.services[n].state \/ a.services[n].state \in HealthyStates
          /\ \A r \in GetRoles(a, n) : \E q \in GetRoles(b, n) : AsBad(r.check, q.check)
    /\ a.events \subseteq b.events
    /\ a.unreachable \subseteq b.unreachable

\* The order of health: what is bad stays bad.
LEMMA BadStaysBad ==
  ASSUME NEW v, NEW w, AsBad(v, w)
  PROVE  (v \in Bad => w \in Bad) /\ (v # "GOOD" => w # "GOOD")
BY DEF AsBad, Bad

LEMMA ResultBreaches ==
  ASSUME NEW task, NEW detail, NEW rows
  PROVE  Result(task, detail, rows).status = "BREACH" <=> detail # {}
BY DEF Result

LEMMA WorseHosts ==
  ASSUME NEW a, NEW b, NoBetter(a, b), HostHealth(a).status = "BREACH"
  PROVE  HostHealth(b).status = "BREACH"
<1>1. ASSUME NEW c
      PROVE  HostHealth(c).status = "BREACH" <=> \E h \in DOMAIN c.hosts : c.hosts[h].health # "GOOD"
  <2>1. PICK detail : detail = {Says(<<h>>, c.hosts[h].health) :
                                 h \in {x \in DOMAIN c.hosts : c.hosts[x].health # "GOOD"}}
    OBVIOUS
  <2>2. detail # {} <=> \E h \in DOMAIN c.hosts : c.hosts[h].health # "GOOD"
    BY <2>1
  <2>3. HostHealth(c).status = "BREACH" <=> detail # {}
    BY <2>1, ResultBreaches DEF HostHealth
  <2> QED BY <2>2, <2>3
<1>2. PICK h \in DOMAIN a.hosts : a.hosts[h].health # "GOOD"
  BY <1>1
<1>3. h \in DOMAIN b.hosts /\ b.hosts[h].health # "GOOD"
  BY <1>2, BadStaysBad DEF NoBetter
<1> QED BY <1>1, <1>3

LEMMA WorseServices ==
  ASSUME NEW a, NEW b, NoBetter(a, b), ServiceStatus(a).status = "BREACH"
  PROVE  ServiceStatus(b).status = "BREACH"
<1>1. ASSUME NEW c
      PROVE  ServiceStatus(c).status = "BREACH"
                 <=> HasServices(c) /\ \E n \in DOMAIN c.services : ServiceBreached(c, n, c.services[n])
  <2>1. PICK detail : detail = UNION {ServiceDetail(c, n, c.services[n]) : n \in DOMAIN c.services}
    OBVIOUS
  <2>2. detail # {} <=> \E n \in DOMAIN c.services : ServiceBreached(c, n, c.services[n])
    BY <2>1, ServiceExplained
  <2>3. HasServices(c) => (ServiceStatus(c).status = "BREACH" <=> detail # {})
    BY <2>1, ResultBreaches DEF ServiceStatus, GetServices
  <2>4. ~ HasServices(c) => ServiceStatus(c).status # "BREACH"
    BY DEF ServiceStatus, NoData
  <2> QED BY <2>2, <2>3, <2>4
<1>2. PICK n \in DOMAIN a.services : ServiceBreached(a, n, a.services[n])
  BY <1>1
<1>3. HasServices(a) /\ HasServices(b)
  BY <1>1 DEF HasServices, NoBetter
<1>4. n \in DOMAIN b.services
  BY DEF NoBetter
<1>5. ServiceBreached(b, n, b.services[n])
  <2>1. CASE StateBad(a.services[n])
    BY <2>1 DEF NoBetter, StateBad, ServiceBreached
  <2>2. CASE a.services[n].summary \in Bad
    <3>1. b.services[n].summary \in Bad
      BY <2>2, BadStaysBad DEF NoBetter
    <3> QED BY <3>1 DEF ServiceBreached
  <2>3. CASE ServiceChecksBad(a.services[n])
    <3>1. ServiceChecksBad(b.services[n])
      BY <2>3, BadStaysBad DEF NoBetter, ServiceChecksBad
    <3> QED BY <3>1 DEF ServiceBreached
  <2>4. CASE RolesBad(a, n) # {}
    <3>1. PICK r \in GetRoles(a, n) : r.check \in Bad
      BY <2>4 DEF RolesBad
    <3>2. PICK q \in GetRoles(b, n) : AsBad(r.check, q.check)
      BY DEF NoBetter
    <3>3. q \in RolesBad(b, n)
      BY <3>1, <3>2, BadStaysBad DEF RolesBad
    <3> QED BY <3>3 DEF ServiceBreached
  <2> QED BY <1>2, <2>1, <2>2, <2>3, <2>4 DEF ServiceBreached
<1> QED BY <1>1, <1>3, <1>4, <1>5

\* What is computed from samples alone is the same for the same samples.
LEMMA SameSamples ==
  ASSUME NEW a, NEW b, a.kind = b.kind, a.samples = b.samples, NEW metric, NEW asOf
  PROVE  GetMetric(a, asOf, metric) = GetMetric(b, asOf, metric)
<1>1. Dated(a) <=> Dated(b)
  BY DEF Dated
<1>2. \A m : Of(a, m) = Of(b, m)
  BY DEF Of
<1>3. \A m : HostMetric(a, m) = HostMetric(b, m)
  BY <1>2 DEF HostMetric
<1>4. DiskPercent(a) = DiskPercent(b)
  BY <1>2 DEF DiskPercent
<1>5. HdfsCapacity(a, metric) = HdfsCapacity(b, metric)
  <2> DEFINE Sums(samples) == {Point("hdfs", NoMount, t, Total({s \in samples : s.at = t}), 1) :
                                  t \in {s.at : s \in samples}}
  <2>1. HdfsCapacity(a, metric) = Sums(Of(a, metric)) /\ HdfsCapacity(b, metric) = Sums(Of(b, metric))
    BY DEF HdfsCapacity
  <2> HIDE DEF Sums
  <2> QED BY <1>2, <2>1
<1>6. AllPoints(a, metric) = AllPoints(b, metric)
  BY <1>3, <1>4, <1>5 DEF AllPoints, JsonMetrics, NetworkThroughput
<1> QED BY <1>1, <1>6 DEF GetMetric

LEMMA WorseHdfs ==
  ASSUME NEW a, NEW b, NoBetter(a, b), NEW asOf, HdfsHealth(a, asOf).status = "BREACH"
  PROVE  HdfsHealth(b, asOf).status = "BREACH"
<1>1. ASSUME NEW c
      PROVE  HdfsHealth(c, asOf).status = "BREACH" <=> HealthPart(c) # {} \/ GrowthPart(c, asOf) # {}
  BY ResultBreaches DEF HdfsHealth
<1>2. GrowthPart(b, asOf) = GrowthPart(a, asOf)
  <2>1. GetMetric(a, asOf, "dfs_capacity_used") = GetMetric(b, asOf, "dfs_capacity_used")
    BY SameSamples DEF NoBetter
  <2> QED BY <2>1 DEF GrowthPart
<1>3. ASSUME HealthPart(a) # {} PROVE HealthPart(b) # {}
  <2>1. HasServices(a) /\ HasServices(b)
    BY <1>3 DEF HealthPart, HasServices, NoBetter
  <2>2. GetServices(a) = a.services /\ GetServices(b) = b.services
    BY <2>1 DEF GetServices
  <2>3. CASE "hdfs" \notin DOMAIN a.services
    <3>1. HealthPart(b) = {Says(<<"hdfs">>, "not found")}
      BY <2>1, <2>2, <2>3 DEF HealthPart, NoBetter
    <3> QED BY <3>1
  <2>4. CASE "hdfs" \in DOMAIN a.services
    <3>1. "hdfs" \in DOMAIN b.services
      BY <2>4 DEF NoBetter
    <3>2. /\ HealthPart(a) = {Says(<<"hdfs">>, h) :
                                 h \in {a.services["hdfs"].summary, a.services["hdfs"].check} \ {"GOOD"}}
          /\ HealthPart(b) = {Says(<<"hdfs">>, h) :
                                 h \in {b.services["hdfs"].summary, b.services["hdfs"].check} \ {"GOOD"}}
      BY <2>1, <2>2, <2>4, <3>1 DEF HealthPart
    <3>3. a.services["hdfs"].summary # "GOOD" \/ a.services["hdfs"].check # "GOOD"
      BY <1>3, <3>2
    <3>4. b.services["hdfs"].summary # "GOOD" \/ b.services["hdfs"].check # "GOOD"
      BY <2>4, <3>3, BadStaysBad DEF NoBetter
    <3> QED BY <3>2, <3>4
  <2> QED BY <2>3, <2>4
<1> QED BY <1>1, <1>2, <1>3

LEMMA WorseAlerts ==
  ASSUME NEW a, NEW b, NoBetter(a, b), Alerts(a, Latest).status = "BREACH"
  PROVE  Alerts(b, Latest).status = "BREACH"
<1>1. ASSUME NEW c
      PROVE  Alerts(c, Latest).status = "BREACH"
                 <=> HasEvents(c) /\ \E e \in GetEvents(c, Latest) : e.severity \in Serious
  <2>1. PICK serious : serious = {e \in GetEvents(c, Latest) : e.severity \in Serious}
    OBVIOUS
  <2>2. PICK detail : detail = {Says(<<e.severity, e.at>>, e.severity) : e \in serious}
    OBVIOUS
  <2>3. detail # {} <=> \E e \in GetEvents(c, Latest) : e.severity \in Serious
    BY <2>1, <2>2
  <2>4. HasEvents(c) => (Alerts(c, Latest).status = "BREACH" <=> detail # {})
    BY <2>1, <2>2, ResultBreaches DEF Alerts
  <2>5. ~ HasEvents(c) => Alerts(c, Latest).status # "BREACH"
    BY DEF Alerts, NoData
  <2> QED BY <2>3, <2>4, <2>5
<1>2. PICK e \in GetEvents(a, Latest) : e.severity \in Serious
  BY <1>1
<1>3. HasEvents(a) /\ HasEvents(b)
  BY <1>1 DEF HasEvents, NoBetter
<1>4. e \in GetEvents(b, Latest)
  BY <1>2, <1>3 DEF GetEvents, EventsOnOrBefore, ParsedEvents, OnOrBefore, Dated, NoBetter
<1> QED BY <1>1, <1>2, <1>3, <1>4

LEMMA WorseNetwork ==
  ASSUME NEW a, NEW b, NoBetter(a, b), NEW asOf, Network(a, asOf).status = "BREACH"
  PROVE  Network(b, asOf).status = "BREACH"
<1> DEFINE Dead(c) == {p.host : p \in {x \in LatestPoints(GetMetric(c, asOf, "receive_rate")) : x.of < DeadBelow}}
           Noisy(c) == {p.host : p \in {x \in LatestPoints(GetMetric(c, asOf, "frame_errors_rate")) :
                                            Over(x, Limits.network_error_rate_threshold)}}
           Lost(c) == {p.host : p \in {x \in PingHosts(c) : ~x.reachable}}
<1>1. ASSUME NEW c
      PROVE  Network(c, asOf).status = "BREACH" <=> Dead(c) \cup Noisy(c) \cup Lost(c) # {}
  <2>1. PICK detail : detail = {Says(<<h>>, "no activity") : h \in Dead(c)}
                               \cup {Says(<<h>>, "frame errors") : h \in Noisy(c) \ Dead(c)}
                               \cup {Says(<<h>>, "unreachable") : h \in Lost(c) \ (Dead(c) \cup Noisy(c))}
    OBVIOUS
  <2>2. Network(c, asOf).status = "BREACH" <=> detail # {}
    BY <2>1, ResultBreaches DEF Network
  <2> HIDE DEF Dead, Noisy, Lost
  <2>3. ASSUME Dead(c) \cup Noisy(c) \cup Lost(c) = {} PROVE detail = {}
    BY <2>1, <2>3
  <2>4. ASSUME NEW h \in Dead(c) PROVE detail # {}
    BY <2>1
  <2>5. ASSUME NEW h \in Noisy(c) \ Dead(c) PROVE detail # {}
    BY <2>1
  <2>6. ASSUME NEW h \in Lost(c) \ (Dead(c) \cup Noisy(c)) PROVE detail # {}
    BY <2>1
  <2> QED BY <2>2, <2>3, <2>4, <2>5, <2>6
<1>2. Dead(a) = Dead(b) /\ Noisy(a) = Noisy(b)
  <2>1. /\ GetMetric(a, asOf, "receive_rate") = GetMetric(b, asOf, "receive_rate")
        /\ GetMetric(a, asOf, "frame_errors_rate") = GetMetric(b, asOf, "frame_errors_rate")
    BY SameSamples DEF NoBetter
  <2> QED BY <2>1
<1>3. Lost(a) \subseteq Lost(b)
  <2>1. ASSUME NEW h \in Lost(a) PROVE h \in Lost(b)
    <3>1. PICK x \in PingHosts(a) : x.host = h /\ ~x.reachable
      OBVIOUS
    <3>2. a.kind = "json"
      BY <3>1 DEF PingHosts
    <3>3. PICK g \in DOMAIN a.hosts : x = [host |-> g, reachable |-> g \notin a.unreachable]
      BY <3>1, <3>2 DEF PingHosts
    <3>4. h \in DOMAIN a.hosts /\ h \in a.unreachable
      BY <3>1, <3>3
    <3>5. h \in DOMAIN b.hosts /\ h \in b.unreachable /\ b.kind = "json"
      BY <3>2, <3>4 DEF NoBetter
    <3>6. PICK y : y = [host |-> h, reachable |-> h \notin b.unreachable]
      OBVIOUS
    <3>7. y \in PingHosts(b)
      BY <3>5, <3>6 DEF PingHosts
    <3>8. y.host = h /\ ~y.reachable
      BY <3>5, <3>6
    <3> QED BY <3>7, <3>8
  <2> QED BY <2>1
<1> HIDE DEF Dead, Noisy, Lost
<1> QED BY <1>1, <1>2, <1>3

LEMMA WorseCards ==
  ASSUME NEW a, NEW b, NoBetter(a, b), NEW task \in StatusTasks, NEW now, NEW then,
         Check(task, a, Latest, now).status = "BREACH"
  PROVE  Check(task, b, Latest, then).status = "BREACH"
<1>1. CASE task = "host_health"
  BY <1>1, WorseHosts DEF Check
<1>2. CASE task = "service_status"
  BY <1>2, WorseServices DEF Check
<1>3. CASE task = "hdfs_health"
  BY <1>3, WorseHdfs DEF Check
<1>4. CASE task = "alerts"
  BY <1>4, WorseAlerts DEF Check
<1>5. CASE task = "network"
  BY <1>5, WorseNetwork DEF Check
<1> QED BY <1>1, <1>2, <1>3, <1>4, <1>5 DEF StatusTasks

\* The cluster that got worse is told to be no better.
LEMMA WorseIsTold ==
  ASSUME RInv, Record(cm'), Recorded(cm'), Worse
  PROVE  NoBetter(Source, Source')
<1>1. DOMAIN cm = Fields /\ DOMAIN cm' = Fields /\ DOMAIN cm.hosts = Hosts /\ DOMAIN cm'.hosts = Hosts
  BY DEF RInv, TypeOK, Recorded, ClusterOK, Fields
<1>2. Source' = Seen(cm', cache', clock')
  BY DEF Source
<1>3. /\ Source.kind = cm.kind /\ Source'.kind = cm'.kind
      /\ Source.hosts = cm.hosts /\ Source'.hosts = cm'.hosts
      /\ Source.servicesFile = cm.servicesFile /\ Source'.servicesFile = cm'.servicesFile
      /\ Source.eventsFile = cm.eventsFile /\ Source'.eventsFile = cm'.eventsFile
      /\ Source.services = cm.services /\ Source'.services = cm'.services
      /\ Source.roles = cm.roles /\ Source'.roles = cm'.roles
      /\ Source.events = cm.events /\ Source'.events = cm'.events
      /\ Source.unreachable = cm.unreachable /\ Source'.unreachable = cm'.unreachable
  BY <1>1, <1>2, SeenCluster DEF Source
<1>4. \A n : GetRoles(Source, n) = GetRoles(cm, n) /\ GetRoles(Source', n) = GetRoles(cm', n)
  BY <1>3 DEF GetRoles, ParsedRoles
<1>5. /\ cm'.kind = cm.kind /\ cm'.servicesFile = cm.servicesFile /\ cm'.eventsFile = cm.eventsFile
      /\ DOMAIN cm'.services = DOMAIN cm.services
  BY DEF Recorded
<1>6. /\ \A h \in Hosts : AsBad(cm.hosts[h].health, cm'.hosts[h].health)
      /\ cm.events \subseteq cm'.events /\ cm.unreachable \subseteq cm'.unreachable
      /\ Source.samples = Source'.samples
  BY DEF Worse
<1>7. \A n \in DOMAIN cm.services :
          /\ AsBad(cm.services[n].summary, cm'.services[n].summary)
          /\ AsBad(cm.services[n].check, cm'.services[n].check)
          /\ cm.services[n].state = cm'.services[n].state \/ cm.services[n].state \in HealthyStates
          /\ \A r \in GetRoles(cm, n) : \E q \in GetRoles(cm', n) : AsBad(r.check, q.check)
  BY DEF Worse
<1> QED BY <1>1, <1>3, <1>4, <1>5, <1>6, <1>7 DEF NoBetter

\* A cluster that only gets worse keeps every red card of state and health, for any
\* hosts and services (checks/host_health.py, service_status.py, hdfs_health.py,
\* alerts.py, network.py).
THEOREM WorseStaysRed == Spec => WorseNeverClears
<1>1. ASSUME RInv, [Next]_vars, Worse, NEW task \in StatusTasks \cap Answering(cm),
             ReportOf(Latest)[task].status = "BREACH"
      PROVE  ReportOf(Latest)'[task].status = "BREACH"
  <2>1. Record(cm') /\ Recorded(cm')
    BY <1>1, RecordedSteps DEF RInv, vars, Tick, Fetching, Ask, Answered, Unanswered, Worse
  <2>2. NoBetter(Source, Source')
    BY <1>1, <2>1, WorseIsTold
  <2>3. task \in Tasks /\ task \in StatusTasks
    BY <1>1 DEF Answering
  <2>4. Check(task, Source, Latest, Now(Source, Latest, clock)).status = "BREACH"
    BY <1>1, <2>3 DEF ReportOf, BuildReport
  <2>5. Check(task, Source', Latest, Now(Source', Latest, clock')).status = "BREACH"
    BY <2>2, <2>3, <2>4, WorseCards
  <2> QED BY <2>3, <2>5 DEF ReportOf, BuildReport
<1>2. RInv /\ [Next]_vars =>
        [Worse => \A task \in StatusTasks \cap Answering(cm) :
          ReportOf(Latest)[task].status = "BREACH" => ReportOf(Latest)'[task].status = "BREACH"]_vars
  BY <1>1
<1> QED BY <1>2, RInvHolds, PTL DEF Spec, WorseNeverClears

-----------------------------------------------------------------------------
(* Findings and their order *)

\* R puts the elements of S in a row.
Orders(R, S) ==
    /\ \A x \in S : <<x, x>> \notin R
    /\ \A x, y \in S : x # y => <<x, y>> \in R \/ <<y, x>> \in R
    /\ \A x, y, z \in S : <<x, y>> \in R /\ <<y, z>> \in R => <<x, z>> \in R

\* s lists the elements of S as R orders them.
Lists(s, S, R) ==
    /\ s \in [1..Cardinality(S) -> S]
    /\ \A x \in S : \E k \in 1..Cardinality(S) : s[k] = x
    /\ \A i, j \in 1..Cardinality(S) : i < j => <<s[i], s[j]>> \in R

\* InOrder lists every element, and an element after those that are before it.
LEMMA InOrderLists ==
  ASSUME NEW S, IsFiniteSet(S), NEW R, Orders(R, S)
  PROVE  /\ Cardinality(S) \in Nat
         /\ Lists(InOrder(S, R), S, R)
<1> PICK n : n = Cardinality(S)
  OBVIOUS
<1> PICK s : s = InOrder(S, R)
  OBVIOUS
<1> DEFINE earlier(x) == {y \in S : <<y, x>> \in R}
<1> DEFINE place == [x \in S |-> Cardinality(earlier(x))]
<1>0. n \in Nat
  BY FS_CardinalityType
<1>1. \A x \in S : /\ IsFiniteSet(earlier(x)) /\ Cardinality(earlier(x)) \in Nat
                   /\ Cardinality(earlier(x)) < n
  <2> TAKE x \in S
  <2>1. earlier(x) \in SUBSET S /\ x \notin earlier(x)
    BY DEF Orders
  <2>2. earlier(x) # S
    BY <2>1
  <2>3. /\ IsFiniteSet(earlier(x)) /\ Cardinality(earlier(x)) <= Cardinality(S)
        /\ Cardinality(S) = Cardinality(earlier(x)) => S = earlier(x)
    <3> HIDE DEF earlier
    <3> QED BY <2>1, FS_Subset
  <2>4. Cardinality(earlier(x)) \in Nat
    BY <2>3, FS_CardinalityType
  <2> QED BY <1>0, <2>2, <2>3, <2>4
<1>2. \A x, y \in S : <<x, y>> \in R => place[x] < place[y]
  <2> SUFFICES ASSUME NEW x \in S, NEW y \in S, <<x, y>> \in R
               PROVE  Cardinality(earlier(x)) < Cardinality(earlier(y))
    OBVIOUS
  <2>1. earlier(x) \in SUBSET earlier(y) /\ x \in earlier(y) /\ x \notin earlier(x)
    BY DEF Orders
  <2>2. earlier(x) # earlier(y)
    BY <2>1
  <2>3. /\ Cardinality(earlier(x)) <= Cardinality(earlier(y))
        /\ Cardinality(earlier(y)) = Cardinality(earlier(x)) => earlier(y) = earlier(x)
    <3> HIDE DEF earlier
    <3> QED BY <1>1, <2>1, FS_Subset
  <2> HIDE DEF earlier
  <2> QED BY <1>1, <2>2, <2>3
<1>3. place \in [S -> 0..(n - 1)]
  <2> HIDE DEF earlier
  <2> QED BY <1>0, <1>1
<1>4. \A x, y \in S : place[x] = place[y] => x = y
  <2>1. \A x \in S : place[x] \in Nat
    BY <1>3, <1>0
  <2> SUFFICES ASSUME NEW x \in S, NEW y \in S, place[x] = place[y], x # y
               PROVE  FALSE
    OBVIOUS
  <2>2. place[x] < place[y] \/ place[y] < place[x]
    BY <1>2 DEF Orders
  <2> HIDE DEF place
  <2> QED BY <2>1, <2>2
<1>5. place \in Surjection(S, 0..(n - 1))
  <2>1. place \in Injection(S, 0..(n - 1))
    <3> HIDE DEF place
    <3> QED BY <1>3, <1>4 DEF Injection, IsInjective
  <2>2. IsFiniteSet(0..(n - 1)) /\ Cardinality(0..(n - 1)) = n
    <3>1. IsFiniteSet(0..(n - 1)) /\ Cardinality(0..(n - 1)) = IF 0 > n - 1 THEN 0 ELSE (n - 1) - 0 + 1
      <4>1. 0 \in Int /\ n - 1 \in Int
        BY <1>0
      <4> QED BY <4>1, FS_Interval
    <3>2. PICK c : c = Cardinality(0..(n - 1))
      OBVIOUS
    <3> QED BY <1>0, <3>1, <3>2
  <2>3. IsFiniteSet(S) /\ Cardinality(S) = n
    OBVIOUS
  <2> HIDE DEF place
  <2>4. PICK T : T = 0..(n - 1)
    OBVIOUS
  <2>5. place \in Injection(S, T) /\ IsFiniteSet(T) /\ Cardinality(S) = Cardinality(T)
    BY <2>1, <2>2, <2>3, <2>4
  <2>6. place \in Surjection(S, T)
    BY <2>5, FS_Injection
  <2> QED BY <2>4, <2>6
<1>6. \A k \in 1..n : \E x \in S : place[x] = k - 1
  <2>1. \A k \in 1..n : k - 1 \in 0..(n - 1)
    BY <1>0
  <2> HIDE DEF place
  <2> QED BY <1>5, <2>1 DEF Surjection
<1>7. s = [k \in 1..n |-> CHOOSE x \in S : Cardinality(earlier(x)) = k - 1]
  BY DEF InOrder
<1>8. \A k \in 1..n : s[k] \in S /\ place[s[k]] = k - 1
  <2> TAKE k \in 1..n
  <2>1. \E x \in S : Cardinality(earlier(x)) = k - 1
    BY <1>6
  <2>2. s[k] = CHOOSE x \in S : Cardinality(earlier(x)) = k - 1
    BY <1>7
  <2> HIDE DEF earlier
  <2> QED BY <2>1, <2>2
<1>9. s \in [1..n -> S]
  <2> HIDE DEF earlier, place
  <2> QED BY <1>7, <1>8
<1> HIDE DEF place
<1>10. \A x \in S : \E k \in 1..n : s[k] = x
  <2> TAKE x \in S
  <2>1. place[x] + 1 \in 1..n /\ (place[x] + 1) - 1 = place[x]
    BY <1>0, <1>3
  <2>2. s[place[x] + 1] = x
    BY <1>4, <1>8, <2>1
  <2> QED BY <2>1, <2>2
<1>11. \A i, j \in 1..n : i < j => <<s[i], s[j]>> \in R
  <2> SUFFICES ASSUME NEW i \in 1..n, NEW j \in 1..n, i < j
               PROVE  <<s[i], s[j]>> \in R
    OBVIOUS
  <2>1. place[s[i]] < place[s[j]]
    BY <1>8
  <2>2. s[i] # s[j] /\ ~(<<s[j], s[i]>> \in R)
    BY <1>0, <1>2, <1>8, <2>1
  <2> QED BY <1>8, <2>2 DEF Orders
<1> QED BY <1>0, <1>9, <1>10, <1>11 DEF Lists

\* Numbers are ordered by size, and by a key with the larger first and ties in order.
LEMMA BySize ==
  ASSUME NEW S \in SUBSET Nat PROVE Orders({p \in S \X S : p[1] < p[2]}, S)
BY DEF Orders

LEMMA LargestFirst ==
  ASSUME NEW D \in SUBSET Nat, NEW key \in [D -> Nat], NEW R,
         \A x, y \in D : <<x, y>> \in R <=> key[x] > key[y] \/ (key[x] = key[y] /\ x < y)
  PROVE  Orders(R, D)
BY DEF Orders

\* A floor is a rank or none, and a severity is understood as a rank.
LEMMA Ranks ==
  ASSUME NEW severity, NEW result
  PROVE  /\ Understood(severity) \in 1..4
         /\ SeverityFloor(result) \in 0..4
         /\ ApplyFloor(severity, result) \in 1..4
         /\ ApplyFloor(severity, result) >= SeverityFloor(result)
<1>1. \A t \in Severity : RankOf(t) \in 1..4
  <2>1. DOMAIN Order = 1..4
    BY DEF Order
  <2>2. \A t \in Severity : \E i \in DOMAIN Order : Order[i] = t
    BY DEF Severity
  <2> QED BY <2>1, <2>2 DEF RankOf
<1>2. {"LOW", "MEDIUM", "HIGH", "CRITICAL"} \subseteq Severity
  BY DEF Severity, Order
<1>3. Understood(severity) \in 1..4
  BY <1>1, <1>2 DEF Understood
<1>4. AlertsFloor(result) \in 1..4
  BY <1>1, <1>2 DEF AlertsFloor
<1>5. SeverityFloor(result) \in 0..4
  BY <1>1, <1>2, <1>4 DEF SeverityFloor, NoFloor
<1>6. ApplyFloor(severity, result) =
        IF SeverityFloor(result) > Understood(severity) THEN SeverityFloor(result) ELSE Understood(severity)
  BY DEF ApplyFloor
<1> QED BY <1>3, <1>5, <1>6

\* A sequence of findings with severities that are understood.
Ranked(f, n) == DOMAIN f = 1..n /\ \A i \in 1..n : f[i].severity \in 1..4

LEMMA UpTo ==
  ASSUME NEW n \in Nat
  PROVE  IsFiniteSet(1..n) /\ Cardinality(1..n) = n
<1>0. 1 \in Int /\ n \in Int
  OBVIOUS
<1>1. IsFiniteSet(1..n) /\ Cardinality(1..n) = IF 1 > n THEN 0 ELSE n - 1 + 1
  BY <1>0, FS_Interval
<1>2. PICK c : c = Cardinality(1..n)
  OBVIOUS
<1> QED BY <1>1, <1>2

\* The ordered cards are the findings, and the first is of the highest severity.
LEMMA CardsOrdered ==
  ASSUME NEW n \in Nat, NEW f, Ranked(f, n)
  PROVE  \E order \in [1..n -> 1..n] :
           /\ OrderFindings(f) = [k \in 1..n |-> f[order[k]]]
           /\ \A i \in 1..n : \E k \in 1..n : order[k] = i
           /\ \A k \in 1..n : f[order[1]].severity >= f[order[k]].severity
<1>0. PICK D : D = 1..n
  OBVIOUS
<1>1. D = DOMAIN f /\ D \in SUBSET Nat
  BY <1>0 DEF Ranked
<1>2. PICK key : key = [i \in D |-> f[i].severity]
  OBVIOUS
<1>3. key \in [D -> Nat]
  BY <1>0, <1>2 DEF Ranked
<1>4. PICK R : R = MoreUrgent(f)
  OBVIOUS
<1>5. \A x, y \in D : <<x, y>> \in R <=> key[x] > key[y] \/ (key[x] = key[y] /\ x < y)
  <2> TAKE x \in D, y \in D
  <2>1. <<x, y>> \in MoreUrgent(f) <=>
          f[x].severity > f[y].severity \/ (f[x].severity = f[y].severity /\ x < y)
    BY <1>1 DEF MoreUrgent
  <2>2. key[x] = f[x].severity /\ key[y] = f[y].severity
    BY <1>2
  <2> QED BY <1>4, <2>1, <2>2
<1>6. Orders(R, D)
  BY <1>1, <1>3, <1>5, LargestFirst
<1>7. PICK order : order = InOrder(DOMAIN f, R)
  OBVIOUS
<1>8. Lists(order, D, R) /\ Cardinality(D) = n
  BY <1>0, <1>1, <1>6, <1>7, UpTo, InOrderLists
<1>9. order \in [D -> D] /\ \A i \in D : \E k \in D : order[k] = i
  BY <1>0, <1>8 DEF Lists
<1>10. OrderFindings(f) = [k \in D |-> f[order[k]]]
  <2>1. OrderFindings(f) = [k \in DOMAIN f |-> f[order[k]]]
    BY <1>4, <1>7 DEF OrderFindings
  <2> QED BY <1>1, <2>1
<1>11. \A k \in D : key[order[1]] >= key[order[k]]
  <2> SUFFICES ASSUME NEW k \in D PROVE key[order[1]] >= key[order[k]]
    OBVIOUS
  <2>1. k \in 1..n /\ 1 \in D
    BY <1>0
  <2>2. order[1] \in D /\ order[k] \in D
    BY <1>9, <2>1
  <2>3. key[order[1]] \in Nat /\ key[order[k]] \in Nat
    BY <1>3, <2>2
  <2>4. CASE k = 1
    BY <2>3, <2>4
  <2>5. CASE k # 1
    <3>1. 1 < k /\ 1 \in 1..n
      BY <2>1, <2>5
    <3>2. <<order[1], order[k]>> \in R
      BY <1>8, <2>1, <3>1 DEF Lists
    <3>3. key[order[1]] > key[order[k]] \/ key[order[1]] = key[order[k]]
      BY <1>5, <2>2, <3>2
    <3> QED BY <2>3, <3>3
  <2> QED BY <2>4, <2>5
<1>12. \A k \in D : f[order[1]].severity >= f[order[k]].severity
  <2> TAKE k \in D
  <2>1. 1 \in D
    BY <1>0
  <2>2. order[1] \in D /\ order[k] \in D
    BY <1>9, <2>1
  <2> QED BY <1>2, <1>11, <2>2
<1> QED BY <1>0, <1>9, <1>10, <1>12

\* The findings that stand in for an answer: one for each breach, at its floor or above.
StandIns(f, n, shown) ==
    /\ DOMAIN f = 1..n
    /\ \A k \in 1..n : f[k].task \in DOMAIN shown
    /\ \A k \in 1..n : f[k].severity = ApplyFloor("MEDIUM", shown[f[k].task])
    /\ \A t \in DOMAIN shown : \E k \in 1..n : f[k].task = t

LEMMA BreachesFound ==
  ASSUME NEW shown, DOMAIN shown \subseteq Tasks
  PROVE  \E n \in Nat : StandIns(FindingsOfBreaches(shown), n, shown)
<1>1. PICK S : S = {i \in DOMAIN AllChecks : AllChecks[i] \in DOMAIN shown}
  OBVIOUS
<1>2. PICK R : R = {p \in S \X S : p[1] < p[2]}
  OBVIOUS
<1>3. PICK order : order = InOrder(S, R)
  OBVIOUS
<1>4. S \in SUBSET (1..9) /\ IsFiniteSet(S)
  <2>1. IsFiniteSet(1..9)
    BY UpTo
  <2>2. S \in SUBSET (1..9)
    BY <1>1 DEF AllChecks
  <2> QED BY <2>1, <2>2, FS_Subset
<1>5. Orders(R, S)
  BY <1>2, <1>4, BySize
<1>6. PICK n : n \in Nat /\ n = Cardinality(S) /\ Lists(order, S, R)
  BY <1>3, <1>4, <1>5, InOrderLists
<1>7. order \in [1..n -> S] /\ \A i \in S : \E k \in 1..n : order[k] = i
  BY <1>6 DEF Lists
<1>8. PICK f : f = FindingsOfBreaches(shown)
  OBVIOUS
<1>9. f = [k \in 1..n |-> Finding(AllChecks[order[k]], ApplyFloor("MEDIUM", shown[AllChecks[order[k]]]))]
  <2>1. DOMAIN order = 1..n
    BY <1>7
  <2> QED BY <1>1, <1>2, <1>3, <1>8, <2>1 DEF FindingsOfBreaches
<1>10. \A k \in 1..n : /\ f[k].task = AllChecks[order[k]]
                       /\ f[k].severity = ApplyFloor("MEDIUM", shown[AllChecks[order[k]]])
  BY <1>9 DEF Finding
<1>11. \A k \in 1..n : AllChecks[order[k]] \in DOMAIN shown
  BY <1>1, <1>7
<1>12. \A t \in DOMAIN shown : \E k \in 1..n : f[k].task = t
  <2> TAKE t \in DOMAIN shown
  <2>1. PICK i \in S : AllChecks[i] = t
    BY <1>1 DEF Tasks
  <2>2. PICK k \in 1..n : order[k] = i
    BY <1>7
  <2> QED BY <1>10, <2>1, <2>2
<1>13. DOMAIN f = 1..n
  BY <1>9
<1>14. StandIns(f, n, shown)
  BY <1>10, <1>11, <1>12, <1>13 DEF StandIns
<1> QED BY <1>6, <1>8, <1>14

\* A raw answer's findings keep to the floors of the breaches they are about.
LEMMA AnswersFound ==
  ASSUME NEW shown, NEW raw \in [task : STRING, severity : STRING]
  PROVE  /\ FindingOfAnswer(raw, shown).severity \in 1..4
         /\ FindingOfAnswer(raw, shown).task \in DOMAIN shown =>
               FindingOfAnswer(raw, shown).severity >=
                   SeverityFloor(shown[FindingOfAnswer(raw, shown).task])
<1>1. FindingOfAnswer(raw, shown) =
        [task |-> raw.task,
         severity |-> IF raw.task \in DOMAIN shown THEN ApplyFloor(raw.severity, shown[raw.task])
                      ELSE Understood(raw.severity)]
  BY DEF FindingOfAnswer, Finding
<1> QED BY <1>1, Ranks

\* Findings that undercut no floor of a breach that they are about.
Floored(f, n, shown) ==
    \A i \in 1..n : f[i].task \in DOMAIN shown => f[i].severity >= SeverityFloor(shown[f[i].task])

LEMMA FindingsFloored ==
  ASSUME NEW shown, DOMAIN shown \subseteq Tasks, NEW answer \in Answers, NEW f,
         f = IF answer = <<>> THEN FindingsOfBreaches(shown)
             ELSE [i \in DOMAIN answer |-> FindingOfAnswer(answer[i], shown)]
  PROVE  \E n \in Nat : /\ Ranked(f, n) /\ Floored(f, n, shown)
                        /\ answer = <<>> => StandIns(f, n, shown)
<1>1. CASE answer = <<>>
  <2>1. PICK n \in Nat : StandIns(f, n, shown)
    BY <1>1, BreachesFound
  <2>2. \A i \in 1..n : /\ f[i].severity \in 1..4
                        /\ f[i].severity >= SeverityFloor(shown[f[i].task])
    <3> TAKE i \in 1..n
    <3>1. f[i].severity = ApplyFloor("MEDIUM", shown[f[i].task])
      BY <2>1 DEF StandIns
    <3> QED BY <3>1, Ranks
  <2>3. DOMAIN f = 1..n
    BY <2>1 DEF StandIns
  <2>4. Ranked(f, n) /\ Floored(f, n, shown)
    BY <2>2, <2>3 DEF Ranked, Floored
  <2> QED BY <2>1, <2>4
<1>2. CASE answer # <<>>
  <2>1. PICK F : F = [task : STRING, severity : STRING]
    OBVIOUS
  <2>2. answer \in Seq(F)
    BY <2>1, ReportsAssumption
  <2>3. PICK n : n = Len(answer)
    OBVIOUS
  <2>4. n \in Nat /\ DOMAIN answer = 1..n
    BY <2>2, <2>3
  <2>5. \A i \in 1..n : answer[i] \in F
    BY <2>2, <2>3
  <2>6. f = [i \in 1..n |-> FindingOfAnswer(answer[i], shown)]
    BY <1>2, <2>4
  <2>7. DOMAIN f = 1..n
    BY <2>6
  <2>8. \A i \in 1..n : /\ f[i].severity \in 1..4
                        /\ f[i].task \in DOMAIN shown => f[i].severity >= SeverityFloor(shown[f[i].task])
    <3> TAKE i \in 1..n
    <3>1. answer[i] \in [task : STRING, severity : STRING] /\ f[i] = FindingOfAnswer(answer[i], shown)
      BY <2>1, <2>5, <2>6
    <3> QED BY <3>1, AnswersFound
  <2> QED BY <1>2, <2>4, <2>7, <2>8 DEF Ranked, Floored
<1> QED BY <1>1, <1>2

\* What the cards of an incident are, whatever the model has answered.
LEMMA IncidentCards ==
  ASSUME NEW shown, DOMAIN shown \subseteq Tasks, NEW answer \in Answers
  PROVE  LET cards == Incident(shown, answer)
         IN  /\ \A i \in DOMAIN cards :
                   cards[i].task \in DOMAIN shown =>
                       cards[1].severity >= SeverityFloor(shown[cards[i].task])
             /\ answer = <<>> => {cards[i].task : i \in DOMAIN cards} = DOMAIN shown
<1>1. PICK f : f = IF answer = <<>> THEN FindingsOfBreaches(shown)
                   ELSE [i \in DOMAIN answer |-> FindingOfAnswer(answer[i], shown)]
  OBVIOUS
<1>2. PICK n \in Nat : /\ Ranked(f, n) /\ Floored(f, n, shown)
                       /\ answer = <<>> => StandIns(f, n, shown)
  BY <1>1, FindingsFloored
<1>3. PICK cards : cards = Incident(shown, answer)
  OBVIOUS
<1>4. cards = OrderFindings(f)
  BY <1>1, <1>3 DEF Incident
<1>5. PICK order \in [1..n -> 1..n] :
        /\ OrderFindings(f) = [k \in 1..n |-> f[order[k]]]
        /\ \A i \in 1..n : \E k \in 1..n : order[k] = i
        /\ \A k \in 1..n : f[order[1]].severity >= f[order[k]].severity
  <2>1. Ranked(f, n)
    BY <1>2
  <2> QED BY <2>1, CardsOrdered
<1>6. DOMAIN cards = 1..n /\ \A k \in 1..n : cards[k] = f[order[k]] /\ order[k] \in 1..n
  BY <1>4, <1>5
<1>7. \A k \in 1..n : cards[k].task \in DOMAIN shown =>
                          cards[1].severity >= SeverityFloor(shown[cards[k].task])
  <2> SUFFICES ASSUME NEW k \in 1..n, cards[k].task \in DOMAIN shown
               PROVE  cards[1].severity >= SeverityFloor(shown[cards[k].task])
    OBVIOUS
  <2>1. 1 \in 1..n
    OBVIOUS
  <2>2. PICK i \in 1..n, j \in 1..n : i = order[k] /\ j = order[1]
    BY <1>6, <2>1
  <2>10. cards[k] = f[i] /\ cards[1] = f[j]
    BY <1>6, <2>1, <2>2
  <2>11. Ranked(f, n) /\ Floored(f, n, shown)
    BY <1>2
  <2>3. cards[k].severity >= SeverityFloor(shown[cards[k].task])
    BY <2>10, <2>11 DEF Floored
  <2>4. cards[k].severity \in 1..4 /\ cards[1].severity \in 1..4
    BY <2>10, <2>11 DEF Ranked
  <2>5. cards[1].severity >= cards[k].severity
    BY <1>5, <2>2, <2>10
  <2>6. SeverityFloor(shown[cards[k].task]) \in 0..4
    BY Ranks
  <2>7. PICK a, b, c : /\ a = cards[1].severity /\ b = cards[k].severity
                       /\ c = SeverityFloor(shown[cards[k].task])
    OBVIOUS
  <2>8. a \in 1..4 /\ b \in 1..4 /\ c \in 0..4 /\ a >= b /\ b >= c
    BY <2>3, <2>4, <2>5, <2>6, <2>7
  <2>9. a >= c
    BY <2>8
  <2> QED BY <2>7, <2>9
<1>8. ASSUME answer = <<>> PROVE {cards[i].task : i \in 1..n} = DOMAIN shown
  <2>0. StandIns(f, n, shown)
    BY <1>2, <1>8
  <2>1. \A k \in 1..n : cards[k].task \in DOMAIN shown
    BY <1>6, <2>0 DEF StandIns
  <2>2. \A t \in DOMAIN shown : \E k \in 1..n : cards[k].task = t
    <3> TAKE t \in DOMAIN shown
    <3>1. PICK i \in 1..n : f[i].task = t
      BY <2>0 DEF StandIns
    <3>2. PICK k \in 1..n : order[k] = i
      BY <1>5
    <3> QED BY <1>6, <3>1, <3>2
  <2> QED BY <2>1, <2>2
<1> QED BY <1>3, <1>6, <1>7, <1>8

\* Whatever the cluster, the user and the model's answer, the first card of an incident
\* is no less severe than the floor of any breach the cards are about, and without
\* findings of the model there is one card for each breach the user may see
\* (severity_floor, apply_floor, order_findings of models.py; analyze_incident).
THEOREM FloorRespected == Spec => []CardsRespectFloor
<1>1. CardsRespectFloor
  <2>1. \A user \in Users : DOMAIN Breached(ReportOf(Latest), user) \subseteq Tasks
    BY DEF Breached, Breaching, Visible, ReportOf, BuildReport
  <2> QED BY <2>1, IncidentCards DEF CardsRespectFloor
<1> QED BY <1>1, PTL
=============================================================================
