----------------------------- MODULE AnalysisJobs -----------------------------
(***************************************************************************)
(* Background AI analyses: POST /tenants/{slug}/analyze checks the user's  *)
(* call limit, registers a job and starts a daemon thread; the thread runs *)
(* the deterministic check, checks the limit again, tries the user's chain *)
(* of models in order and records each call in table api_usage; the client *)
(* polls the in-memory registry.                                           *)
(*                                                                         *)
(* Each step below is what one thread does between two points where others *)
(* can run.  A job's figures are abstracted to the kind of its answer, and *)
(* of the four limits (calls and tokens, day and month) the daily call     *)
(* limit stands for all: they are read at the same point and compared the  *)
(* same way.                                                               *)
(***************************************************************************)
EXTENDS Integers, FiniteSets

CONSTANTS
    Jobs,       \* the analyses that are ever asked for
    Users,
    Owner,      \* Owner[j]: who asks for job j
    CallLimit,  \* effective daily call limit; 0 means unlimited
    MaxJobs,    \* _MAX_JOBS
    MaxChain,   \* the longest chain of models a user has
    MaxDay      \* bound: the last day

ASSUME JobsAssumption ==
    /\ IsFiniteSet(Jobs)
    /\ Owner \in [Jobs -> Users]
    /\ CallLimit \in Nat
    /\ MaxJobs \in Nat \ {0}
    /\ MaxChain \in Nat \ {0}
    /\ MaxDay \in Nat

VARIABLES
    registry,  \* the keys of _JOBS
    status,    \* status[j]: Job.status
    payload,   \* payload[j]: whether Job.result or Job.error is set
    started,   \* started[j]: the order of Job.started_at
    entered,   \* entered[j]: the order of insertion in _JOBS, by which dicts iterate
    trim,      \* what the thread in _register's trim has read so far
    thread,    \* thread[j]: where the request, then the worker thread, of j is
    left,      \* left[j]: models of the chain not tried yet, 0 outside the loop
    calls,     \* the rows of table api_usage
    day,       \* the UTC day
    peak       \* history: peak[u] is the most jobs of u ever past the limit check at once

regVars == <<registry, entered, trim>>
jobVars == <<regVars, status, payload, started, thread>>
vars == <<jobVars, left, calls, day, peak>>

Call == [job: Jobs, model: 1..MaxChain, ok: BOOLEAN, day: 0..MaxDay]

-----------------------------------------------------------------------------
(* Limits *)

UsedToday(u) == Cardinality({c \in calls : c.ok /\ c.day = day /\ Owner[c.job] = u})

\* Plausible bugs in the definitions that follow, as in AccountLifecycle.
OverLimitOffByOne(u) == CallLimit # 0 /\ UsedToday(u) > CallLimit

OverLimit(u) == CallLimit # 0 /\ UsedToday(u) >= CallLimit

\* The jobs of u past the check whose call is not on record.
Calling(u) == {j \in Jobs : thread[j] = "calling" /\ Owner[j] = u}

Larger(m, n) == IF m < n THEN n ELSE m

-----------------------------------------------------------------------------
(* The registry *)

Running(k) == status[k] = "running"

\* _LOCK is held across steps only by a thread that trims.
Locked == \E j \in Jobs : thread[j] = "trimming"

\* unread: jobs the generator in _register has yet to come to.  found: those it
\* has read as finished.  finished: history, those that had finished before the
\* trim began.
NoTrim == [unread |-> {}, found |-> {}, finished |-> {}]

\* The k-th of a set by time of start is dropped while k is at most the excess.
NewestFound ==
    {k \in trim.found : Cardinality({m \in trim.found : started[m] > started[k]})
                            < Cardinality(registry) - MaxJobs}
OldestOfAll ==
    {k \in registry : Cardinality({m \in registry : started[m] < started[k]})
                          < Cardinality(registry) - MaxJobs}

\* done[: len(_JOBS) - _MAX_JOBS]: the oldest of the jobs found finished, as many
\* as exceed the cap, or as many as there are.
OldestFound ==
    {k \in trim.found : Cardinality({m \in trim.found : started[m] < started[k]})
                            < Cardinality(registry) - MaxJobs}

-----------------------------------------------------------------------------
Init ==
    /\ registry = {}
    /\ status = [j \in Jobs |-> "running"]
    /\ payload = [j \in Jobs |-> "none"]
    /\ started = [j \in Jobs |-> 0]
    /\ entered = [j \in Jobs |-> 0]
    /\ trim = NoTrim
    /\ thread = [j \in Jobs |-> "new"]
    /\ left = [j \in Jobs |-> 0]
    /\ calls = {}
    /\ day = 0
    /\ peak = [u \in Users |-> 0]

Goto(j, place) == thread' = [thread EXCEPT ![j] = place]

\* _preflight passes and start() builds the Job, which stamps started_at.  A
\* refused request writes nothing.
Preflight(j) ==
    /\ thread[j] = "new"
    /\ ~OverLimit(Owner[j])
    /\ started' = [started EXCEPT ![j] = 1 + Cardinality({k \in Jobs : started[k] > 0})]
    /\ Goto(j, "checked")
    /\ UNCHANGED <<regVars, status, payload, left, calls, day, peak>>

\* _register takes _LOCK and inserts; only over the cap does it keep the lock to trim.
Register(j) ==
    /\ thread[j] = "checked"
    /\ ~Locked
    /\ registry' = registry \cup {j}
    /\ entered' = [entered EXCEPT ![j] = 1 + Cardinality({k \in Jobs : entered[k] > 0})]
    /\ IF Cardinality(registry') > MaxJobs
       THEN /\ trim' = [unread |-> registry', found |-> {}, finished |-> {k \in registry : ~Running(k)}]
            /\ Goto(j, "trimming")
       ELSE /\ Goto(j, "queued")
            /\ UNCHANGED trim
    /\ UNCHANGED <<status, payload, started, left, calls, day, peak>>

\* The generator reads one status; _finish assigns them without the lock.
ReadStatus(j) ==
    /\ thread[j] = "trimming"
    /\ \E k \in trim.unread :
          /\ \A m \in trim.unread : entered[k] <= entered[m]
          /\ trim' = [trim EXCEPT !.unread = @ \ {k},
                                  !.found = IF Running(k) THEN @ ELSE @ \cup {k}]
    /\ UNCHANGED <<registry, entered, status, payload, started, thread, left, calls, day, peak>>

\* The pops, and the release of _LOCK; whoever polls between two pops sees some
\* of these jobs gone and others not yet.
DropOldest(j) ==
    /\ thread[j] = "trimming"
    /\ trim.unread = {}
    /\ registry' = registry \ OldestFound
    /\ trim' = NoTrim
    /\ Goto(j, "queued")
    /\ UNCHANGED <<entered, status, payload, started, left, calls, day, peak>>

\* The thread cannot be started, or the database fails in the two reads that
\* precede _run's inner try: no handler sets the status.
DieUnhandled(j) ==
    /\ thread[j] = "queued"
    /\ Goto(j, "dead")
    /\ UNCHANGED <<regVars, status, payload, started, left, calls, day, peak>>

Load(j) ==
    /\ thread[j] = "queued"
    /\ Goto(j, "loaded")
    /\ UNCHANGED <<regVars, status, payload, started, left, calls, day, peak>>

\* _finish assigns the status first: a poll can run before the rest.
FinishWithoutHandler(j, s) ==
    /\ IF s = "error" THEN UNCHANGED status ELSE status' = [status EXCEPT ![j] = s]
    /\ Goto(j, IF s = "error" THEN "dead" ELSE "finishing")
    /\ left' = [left EXCEPT ![j] = 0]
    /\ UNCHANGED <<regVars, payload, started, day, peak>>

Finish(j, s) ==
    /\ status' = [status EXCEPT ![j] = s]
    /\ Goto(j, "finishing")
    /\ left' = [left EXCEPT ![j] = 0]
    /\ UNCHANGED <<regVars, payload, started, day, peak>>

WritePayload(j) ==
    /\ thread[j] = "finishing"
    /\ payload' = [payload EXCEPT ![j] = IF status[j] = "done" THEN "result" ELSE "message"]
    /\ Goto(j, "ended")
    /\ UNCHANGED <<regVars, status, started, left, calls, day, peak>>

\* The user or the cluster has been deleted.
LoadMissing(j) == thread[j] = "queued" /\ Finish(j, "error") /\ UNCHANGED calls

NothingBreaches(j) == thread[j] = "loaded" /\ Finish(j, "no_breach") /\ UNCHANGED calls

\* The source cannot be read, the chain is empty by now, or the limit is reached
\* by now.
AnalysisFails(j) == thread[j] = "loaded" /\ Finish(j, "error") /\ UNCHANGED calls

PassLimit(j) ==
    LET u == Owner[j] IN
    /\ thread[j] = "loaded"
    /\ ~OverLimit(u)
    /\ \E n \in 1..MaxChain : left' = [left EXCEPT ![j] = n]
    /\ Goto(j, "calling")
    /\ peak' = [peak EXCEPT ![u] = Larger(@, Cardinality(Calling(u)) + 1)]
    /\ UNCHANGED <<regVars, status, payload, started, calls, day>>

-----------------------------------------------------------------------------
(* The chain of models *)

UsageRowAlwaysFailed(j, ok) == [job |-> j, model |-> left[j], ok |-> FALSE, day |-> day]
UsageRow(j, ok) == [job |-> j, model |-> left[j], ok |-> ok, day |-> day]

TryingPastTheEnd(j) == thread[j] = "calling"
Trying(j) == thread[j] = "calling" /\ left[j] > 0

NextModel(j) ==
    /\ left' = [left EXCEPT ![j] = @ - 1]
    /\ UNCHANGED <<jobVars, day, peak>>

\* An unknown model, or one without an API key.
SkipModel(j) == Trying(j) /\ NextModel(j) /\ UNCHANGED calls

CallFails(j) ==
    /\ Trying(j)
    /\ calls' = calls \cup {UsageRow(j, FALSE)}
    /\ NextModel(j)

CallSucceeds(j) ==
    /\ Trying(j)
    /\ calls' = calls \cup {UsageRow(j, TRUE)}
    /\ Goto(j, "answered")
    /\ left' = [left EXCEPT ![j] = 0]
    /\ UNCHANGED <<regVars, status, payload, started, day, peak>>

\* The database refuses the usage row.
RecordFails(j) == Trying(j) /\ Finish(j, "error") /\ UNCHANGED calls

ChainExhausted(j) ==
    /\ thread[j] = "calling"
    /\ left[j] = 0
    /\ Finish(j, "error")
    /\ UNCHANGED calls

Answer(j) == thread[j] = "answered" /\ Finish(j, "done") /\ UNCHANGED calls

\* The model's answer does not fit the response schema.
AnswerUnusable(j) == thread[j] = "answered" /\ Finish(j, "error") /\ UNCHANGED calls

-----------------------------------------------------------------------------
Live(j) == thread[j] \in {"checked", "trimming", "queued", "loaded", "calling", "answered", "finishing"}

\* The process is restarted: its threads and the registry are gone, api_usage stays.
Restart ==
    /\ registry' = {}
    /\ trim' = NoTrim
    /\ thread' = [j \in Jobs |-> IF Live(j) THEN "lost" ELSE thread[j]]
    /\ left' = [j \in Jobs |-> 0]
    /\ UNCHANGED <<entered, status, payload, started, calls, day, peak>>

NewDay ==
    /\ day < MaxDay
    /\ day' = day + 1
    /\ UNCHANGED <<jobVars, left, calls, peak>>

\* What runs once the request has been let in, up to the end of the thread.
WorkerStep(j) ==
    \/ Load(j) \/ LoadMissing(j) \/ DieUnhandled(j)
    \/ NothingBreaches(j) \/ AnalysisFails(j) \/ PassLimit(j)
    \/ SkipModel(j) \/ CallFails(j) \/ CallSucceeds(j) \/ RecordFails(j) \/ ChainExhausted(j)
    \/ Answer(j) \/ AnswerUnusable(j) \/ WritePayload(j)

TrimStep(j) == ReadStatus(j) \/ DropOldest(j)

Next ==
    \/ \E j \in Jobs : Preflight(j) \/ Register(j) \/ TrimStep(j) \/ WorkerStep(j)
    \/ Restart
    \/ NewDay

\* The operating system runs every thread; the model calls a thread waits for
\* end, at the latest by the 600 s timeout.
Fairness == \A j \in Jobs : WF_vars(TrimStep(j)) /\ WF_vars(WorkerStep(j))

Spec == Init /\ [][Next]_vars
FairSpec == Spec /\ Fairness

-----------------------------------------------------------------------------
(* Properties *)

Place == {"new", "checked", "trimming", "queued", "loaded", "calling", "answered", "finishing",
          "ended", "dead", "lost"}

\* Every variable keeps its type; only jobs that reached the registry are in it.
TypeOK ==
    /\ registry \subseteq {j \in Jobs : thread[j] \notin {"new", "checked", "lost"}}
    /\ status \in [Jobs -> {"running", "done", "error", "no_breach"}]
    /\ payload \in [Jobs -> {"none", "result", "message"}]
    /\ started \in [Jobs -> Nat]
    /\ entered \in [Jobs -> Nat]
    /\ trim \in [unread: SUBSET Jobs, found: SUBSET Jobs, finished: SUBSET Jobs]
    /\ thread \in [Jobs -> Place]
    /\ left \in [Jobs -> 0..MaxChain]
    /\ calls \subseteq Call
    /\ day \in 0..MaxDay
    /\ peak \in [Users -> Nat]

\* The limit is checked before the call and the call recorded after it, so jobs
\* that overlap overshoot it; but by no more than overlapped: one job at a time
\* can never exceed the limit, whatever happens around midnight or at a restart.
OvershootBoundedByOverlap ==
    CallLimit # 0 =>
        \A u \in Users : UsedToday(u) + Cardinality(Calling(u)) <= CallLimit - 1 + peak[u]

\* A job that is done has billed its user exactly one successful call, whichever
\* model of the chain answered, and one without a breach has called no model.
DoneIsBilledOnce ==
    \A j \in Jobs :
        /\ status[j] = "done" => Cardinality({c \in calls : c.job = j /\ c.ok}) = 1
        /\ status[j] = "no_breach" => \A c \in calls : c.job # j

\* The registry makes room by dropping finished jobs in the order they started,
\* as far as it can know: a job that had finished before the trim began does not
\* survive one that started later and is dropped.  (One that finishes during the
\* trim, after its status was read, may.)
OldestDroppedFirst ==
    [][\A j \in registry \ registry', k \in registry \cap registry' :
          k \in trim.finished => started[j] < started[k]]_vars

\* What a poll for each job is told.
Polled == [j \in Jobs |-> IF thread[j] \in {"new", "checked"} THEN "unposted"
                          ELSE IF j \in registry THEN status[j] ELSE "gone"]

Board == INSTANCE JobBoard WITH board <- Polled

\* Whoever polls sees what JobBoard promises: a running job is never dropped,
\* an answer never changes, and a job once gone does not come back.
ImplementsJobBoard == Board!Spec

\* A job whose user and cluster were loaded settles, result or message included,
\* unless the process is restarted: whatever fails on the way is caught.
LoadedJobSettles ==
    \A j \in Jobs : thread[j] = "loaded" ~> thread[j] = "lost" \/ payload[j] # "none"
=============================================================================
