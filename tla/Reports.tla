-------------------------------- MODULE Reports --------------------------------
(* A cluster over some days, as its exports, sample files or live API tell it,   *)
(* with the reports, single checks and incidents computed from it at any moment. *)
(* The dashboard keeps none of them: engine/bridge.py computes them anew for     *)
(* every request, so the states are those of the cluster and its tenant's files. *)
EXTENDS Findings

CONSTANTS
    Values,      \* metric -> the values it may have
    LogSizes,    \* sizes of log files, in MB
    Users,       \* those who ask: [admin, allowed]
    Answers,     \* findings a model may return
    MaxRecords,  \* bound on what is recorded
    Queried,     \* bound: the queries that are ever run
    Callers      \* bound: the threads that may be asking a live source at once

ASSUME ReportsAssumption ==
    /\ Values \in [Metrics -> SUBSET Nat] /\ LogSizes \subseteq Nat
    /\ MaxRecords \in Nat
    /\ Queried \subseteq DOMAIN Plans
    /\ Answers \subseteq Seq([task : STRING, severity : STRING])

VARIABLES
    clock,       \* wall clock
    cm,          \* the cluster
    records,     \* how much has been recorded so far
    cache,       \* _metrics_cache of the source
    asked        \* the requests to Cloudera Manager that are in flight, by caller

vars == <<clock, cm, records, cache, asked>>

ServiceNames == {"hdfs", "yarn"}

\* The days a user may view, and the latest data.
Days == 0..DayOf(MaxClock) \cup {Latest}

\* Sound hosts and services; an exports tenant may lack services.json or events.json.
Init ==
    /\ clock = 0
    /\ records = 0
    /\ cache = <<>> /\ asked = <<>>
    /\ \E kind \in Kinds, servicesFile, eventsFile \in BOOLEAN, S \in SUBSET ServiceNames :
          /\ ~servicesFile => S = {}
          /\ kind # "export" => servicesFile /\ eventsFile
          /\ cm = [kind |-> kind, hosts |-> [h \in Hosts |-> [health |-> "GOOD", beat |-> 0]],
                   servicesFile |-> servicesFile, eventsFile |-> eventsFile,
                   services |-> [s \in S |-> [state |-> "STARTED", summary |-> "GOOD",
                                              check |-> "GOOD"]],
                   roles |-> {}, events |-> {}, samples |-> {}, unreachable |-> {}, logs |-> {}]

Record(cluster) ==
    /\ records < MaxRecords
    /\ records' = records + 1
    /\ cm' = cluster
    /\ UNCHANGED <<clock, cache, asked>>

Tick == clock < MaxClock /\ clock' = clock + 1 /\ UNCHANGED <<cm, records, cache, asked>>

\* A host reports in.
Beat(h) == cm.hosts[h].beat < clock /\ Record([cm EXCEPT !.hosts[h].beat = clock])

HostTurns(h) ==
    \E health \in Healths \ {cm.hosts[h].health} : Record([cm EXCEPT !.hosts[h].health = health])

\* Cloudera Manager measures something now.  The sample files and DataNodes aside,
\* every metric is of a host; a file system's is of one of its mounts.
Carriers(metric) ==
    CASE metric \in Filesystem \cup {"fs_bytes_used_percent"} -> Hosts \X Mounts
      [] metric \in HdfsMetrics /\ cm.kind = "json" -> {<<"hdfs", NoMount>>}
      [] OTHER -> Hosts \X {NoMount}

Held(metric) ==
    IF cm.kind = "json" THEN metric \notin Filesystem ELSE metric \notin SampleOnly

Measure(metric) ==
    /\ Held(metric)
    /\ \E c \in Carriers(metric), value \in Values[metric] :
          /\ ~ \E s \in Of(cm, metric) : s.host = c[1] /\ s.mount = c[2] /\ s.at = clock
          /\ Record([cm EXCEPT !.samples = @ \cup
                        {[metric |-> metric, host |-> c[1], mount |-> c[2], at |-> clock,
                          value |-> value]}])

ServiceTurns(s) ==
    /\ s \in DOMAIN cm.services
    /\ \/ \E v \in States \ {cm.services[s].state} : Record([cm EXCEPT !.services[s].state = v])
       \/ \E v \in Healths \ {cm.services[s].summary} : Record([cm EXCEPT !.services[s].summary = v])
       \/ \E v \in Healths \ {cm.services[s].check} : Record([cm EXCEPT !.services[s].check = v])

RoleTurns(s) ==
    /\ cm.kind # "export" /\ s \in DOMAIN cm.services
    /\ \E v \in Healths : Record([cm EXCEPT !.roles = {r \in @ : r.service # s}
                                                \cup {[service |-> s, check |-> v]}])

RaiseEvent ==
    /\ cm.eventsFile
    /\ \E severity \in Severities, alert \in BOOLEAN :
          LET e == [severity |-> severity, alert |-> alert, at |-> clock]
          IN  e \notin cm.events /\ Record([cm EXCEPT !.events = @ \cup {e}])

\* What SSH finds, in the sample files.
LoseHost(h) ==
    /\ cm.kind = "json" /\ h \notin cm.unreachable
    /\ Record([cm EXCEPT !.unreachable = @ \cup {h}])
GrowLog(h) ==
    /\ cm.kind = "json"
    /\ \E size \in LogSizes :
          Record([cm EXCEPT !.logs = {f \in @ : f.host # h} \cup {[host |-> h, size |-> size]}])

\* A live source has no fresh answer to a query and sends it: for a check, which
\* holds the lock of its source, or for a trend or the days there are, which do not.
Ask(c, plan) ==
    /\ cm.kind = "api" /\ c \notin DOMAIN asked
    /\ ~Cached(cache, plan, clock)
    /\ asked' = [x \in DOMAIN asked \cup {c} |->
                    IF x = c THEN [plan |-> plan, at |-> clock, samples |-> Wanted(cm, plan, clock)]
                    ELSE asked[x]]
    /\ UNCHANGED <<clock, cm, records, cache>>

Forget(c) == asked' = [x \in DOMAIN asked \ {c} |-> asked[x]]

\* A plausible bug, as in the other modules.
CacheKeepsExpiry(at, samples) == [asked |-> at, at |-> clock + CacheTtl, samples |-> samples]

\* An answer to what was asked at some time is stamped when it has come.
CacheEntry(at, samples) == [asked |-> at, at |-> clock, samples |-> samples]

\* The answer: what Cloudera Manager held when it was asked, and any of what it
\* measured meanwhile.  It takes the place of whatever is cached by now.
Answered(c) ==
    /\ c \in DOMAIN asked
    /\ LET r == asked[c] IN
       \E late \in SUBSET (Wanted(cm, r.plan, r.at) \ r.samples) :
          cache' = [p \in DOMAIN cache \cup {r.plan} |->
                       IF p = r.plan THEN CacheEntry(r.at, r.samples \cup late) ELSE cache[p]]
    /\ Forget(c)
    /\ UNCHANGED <<clock, cm, records>>

\* A time-out or an error: nothing is cached.
Unanswered(c) == c \in DOMAIN asked /\ Forget(c) /\ UNCHANGED <<clock, cm, records, cache>>

Next ==
    \/ Tick
    \/ \E c \in Callers, plan \in Queried : Ask(c, plan)
    \/ \E c \in Callers : Answered(c) \/ Unanswered(c)
    \/ \E h \in Hosts : Beat(h) \/ HostTurns(h) \/ LoseHost(h) \/ GrowLog(h)
    \/ \E metric \in Metrics : Measure(metric)
    \/ \E s \in ServiceNames : ServiceTurns(s) \/ RoleTurns(s)
    \/ RaiseEvent

Spec == Init /\ [][Next]_vars

Source == Seen(cm, cache, clock)
ReportOf(day) == BuildReport(Source, day, clock)

-----------------------------------------------------------------------------
(* Properties *)

\* Everything recorded has its type.
TypeOK ==
    /\ clock \in Moments
    /\ records \in 0..MaxRecords
    /\ DOMAIN cm = {"kind", "hosts", "servicesFile", "eventsFile", "services", "roles",
                    "events", "samples", "unreachable", "logs"}
    /\ cm.kind \in Kinds
    /\ cm.hosts \in [Hosts -> Host]
    /\ DOMAIN cm.services \in SUBSET ServiceNames
    /\ \A s \in DOMAIN cm.services : cm.services[s] \in Service
    /\ cm.roles \subseteq Role /\ cm.events \subseteq Event /\ cm.samples \subseteq Sample
    /\ cm.unreachable \subseteq Hosts /\ cm.logs \subseteq LogFile
    /\ DOMAIN cache \subseteq DOMAIN Plans
    /\ \A plan \in DOMAIN cache :
          /\ cache[plan].at \in 0..clock /\ cache[plan].asked \in 0..cache[plan].at
          /\ cache[plan].samples \subseteq cm.samples
    /\ DOMAIN asked \subseteq Callers
    /\ \A c \in DOMAIN asked :
          /\ asked[c].plan \in DOMAIN Plans /\ asked[c].at \in 0..clock
          /\ asked[c].samples \subseteq cm.samples

\* A card agrees with its evidence: a check breaches exactly when one of the
\* readings it shows is red, and a check without data shows none (checks/result.py:
\* "anyone can trace a card's status back to the exact values it came from").
CardsAgreeWithTheirRows ==
    \A day \in Days, task \in Answering(cm) :
        LET r == BuildSingleCheck(task, Source, day, clock)
        IN  /\ r.status = "BREACH" <=> \E row \in r.rows : row.breached
            /\ r.status = "BREACH" <=> r.entities # {}
            /\ r.status = "NO_DATA" => r.rows = {}

\* What is measured or raised after a day never changes what the checks of
\* measurements and alerts say of that day (data_sources/day_filter.py).
EarlierDaysSettled ==
    [][cm' # cm /\ Dated(cm) =>
          \A day \in 0..(DayOf(clock) - 1), task \in
                {"cpu_percent", "ram_percent", "disk_percent", "alerts", "network"} \cap Answering(cm) :
              BuildSingleCheck(task, Source, day, clock)' = BuildSingleCheck(task, Source, day, clock)]_vars

\* How long a cached answer was on its way.
Took(entry) == entry.at - entry.asked

\* A live source's answers lag, by no more than a TTL and the time the request took:
\* a query answered from the cache still shows all of the history asked for that was
\* measured so long ago or earlier, however often it is read meanwhile, and though
\* several callers ask at once and a slow answer may replace one asked for later.
LagBoundedByTtl ==
    \A plan \in DOMAIN cache : cm.kind = "api" /\ Fresh(cache[plan], clock) =>
        \A s \in Wanted(cm, plan, clock) :
            s.at <= clock - CacheTtl - Took(cache[plan]) => s \in Source.samples

\* The cluster only gets worse in a step, in what its state and health checks tell.
AsBad(v, w) == v \in {w, "GOOD"} \/ (v = "CONCERNING" /\ w = "BAD")
Worse ==
    /\ cm' # cm
    /\ \A h \in Hosts : AsBad(cm.hosts[h].health, cm.hosts[h].health')
    /\ \A s \in DOMAIN cm.services :
          LET old == cm.services[s]
              new == cm.services'[s]
          IN  /\ AsBad(old.summary, new.summary) /\ AsBad(old.check, new.check)
              /\ old.state = new.state \/ old.state \in HealthyStates
              /\ \A r \in GetRoles(cm, s) : \E q \in GetRoles(cm', s) : AsBad(r.check, q.check)
    /\ cm.events \subseteq cm.events'
    /\ cm.unreachable \subseteq cm.unreachable'
    /\ Source.samples = Source.samples'

StatusTasks == {"host_health", "service_status", "hdfs_health", "alerts", "network"}

\* A cluster that only gets worse never turns a breaching card of state or health
\* green or grey, whichever of the signals of checks/service_status.py carries it.
WorseNeverClears ==
    [][Worse => \A task \in StatusTasks \cap Answering(cm) :
          ReportOf(Latest)[task].status = "BREACH" => ReportOf(Latest)'[task].status = "BREACH"]_vars

\* Whatever the model answers: an incident's first card is at least as severe as
\* the floor of every breach its cards are about; a user's cards for a model
\* without findings are exactly the breaches that user may see (ai/analyzer.py).
CardsRespectFloor ==
    \A user \in Users :
        LET shown == Breached(ReportOf(Latest), user) IN
        DOMAIN shown # {} /\ ~ReportRaises(cm) => \A answer \in Answers :
            LET cards == Incident(shown, answer)
            IN  /\ \A i \in DOMAIN cards :
                      cards[i].task \in DOMAIN shown =>
                          cards[1].severity >= SeverityFloor(shown[cards[i].task])
                /\ answer = <<>> => {cards[i].task : i \in DOMAIN cards} = DOMAIN shown

\* api_source.py: "SSH is optional: only set up when the tenant config provides it."
\* So a cluster's report does not depend on it.
EveryClusterHasItsReport == ~ReportRaises(cm)
=============================================================================
