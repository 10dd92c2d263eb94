-------------------------- MODULE AnalysisJobs_proofs --------------------------
(***************************************************************************)
(* Proofs about AnalysisJobs, for any jobs, users, chains of models, call  *)
(* limit and size of the registry: what is billed, how far a limit can be  *)
(* overshot, which jobs the registry drops, and that whoever polls sees a  *)
(* JobBoard.                                                               *)
(***************************************************************************)
EXTENDS AnalysisJobs, FiniteSetTheorems, TLAPS

USE JobsAssumption

-----------------------------------------------------------------------------
(* Finite sets *)

\* Sets of jobs, and what is counted of them, are finite.
LEMMA JobSets ==
  ASSUME NEW S \in SUBSET Jobs
  PROVE  IsFiniteSet(S) /\ Cardinality(S) \in Nat
  BY FS_Subset, FS_CardinalityType

\* One element more, or one less.
LEMMA OneMore ==
  ASSUME NEW S, IsFiniteSet(S), Cardinality(S) \in Nat, NEW x
  PROVE  Cardinality(S \cup {x}) <= Cardinality(S) + 1 /\ Cardinality(S \cup {x}) \in Nat
<1>1. Cardinality(S \cup {x}) = IF x \in S THEN Cardinality(S) ELSE Cardinality(S) + 1
  BY FS_AddElement
<1> QED BY <1>1

LEMMA OneLess ==
  ASSUME NEW S, IsFiniteSet(S), NEW x \in S
  PROVE  Cardinality(S \ {x}) = Cardinality(S) - 1
<1>1. Cardinality(S \ {x}) = IF x \in S THEN Cardinality(S) - 1 ELSE Cardinality(S)
  BY FS_RemoveElement
<1> QED BY <1>1

\* The larger of two.
LEMMA LargerIsNat ==
  ASSUME NEW m \in Nat, NEW n \in Nat
  PROVE  Larger(m, n) \in Nat /\ m <= Larger(m, n) /\ n <= Larger(m, n)
  BY DEF Larger

-----------------------------------------------------------------------------
(* Types, and what a thread has billed by the place it has reached *)

OkCalls(j) == {c \in calls : c.job = j /\ c.ok}

\* A job that has not finished runs, whatever became of its thread, and what it has
\* billed depends on how far its thread has come.
Stages == \A j \in Jobs :
    /\ status[j] # "running" => thread[j] \in {"finishing", "ended", "lost"}
    /\ thread[j] \in {"new", "checked", "trimming", "queued", "loaded"} => \A c \in calls : c.job # j
    /\ thread[j] = "calling" => OkCalls(j) = {}
    /\ thread[j] = "answered" => \E c : OkCalls(j) = {c}
    /\ status[j] = "done" => \E c : OkCalls(j) = {c}
    /\ status[j] = "no_breach" => \A c \in calls : c.job # j

JInv == TypeOK /\ Stages

\* No job has started.
LEMMA InitStages == Init => JInv
<1> SUFFICES ASSUME Init PROVE JInv
  OBVIOUS
<1>1. TypeOK
  BY DEF Init, NoTrim, TypeOK, Place
<1>2. Stages
  BY DEF Init, Stages, OkCalls
<1> QED BY <1>1, <1>2 DEF JInv

\* A step of one thread that calls no model: the thread moves, and perhaps its
\* status; a job only finishes with a result if one call of it has succeeded.
LEMMA ThreadMoves ==
  ASSUME JInv, NEW j \in Jobs, NEW place \in Place, Goto(j, place), UNCHANGED calls,
         NEW s \in {"running", "done", "error", "no_breach"}, status' = [status EXCEPT ![j] = s],
         s # "running" => place \in {"finishing", "ended", "lost"},
         place \in {"new", "checked", "trimming", "queued", "loaded"} \/ s = "no_breach" => \A c \in calls : c.job # j,
         place = "calling" => OkCalls(j) = {},
         place = "answered" \/ s = "done" => \E c : OkCalls(j) = {c}
  PROVE  Stages'
<1>1. \A k \in Jobs : /\ thread'[k] = IF k = j THEN place ELSE thread[k]
                      /\ status'[k] = IF k = j THEN s ELSE status[k]
  BY DEF JInv, TypeOK, Goto
<1>2. \A k \in Jobs : OkCalls(k)' = OkCalls(k)
  BY DEF OkCalls
<1>3. ASSUME NEW k \in Jobs
      PROVE  /\ status'[k] # "running" => thread'[k] \in {"finishing", "ended", "lost"}
             /\ thread'[k] \in {"new", "checked", "trimming", "queued", "loaded"} => \A c \in calls : c.job # k
             /\ thread'[k] = "calling" => OkCalls(k) = {}
             /\ thread'[k] = "answered" => \E c : OkCalls(k) = {c}
             /\ status'[k] = "done" => \E c : OkCalls(k) = {c}
             /\ status'[k] = "no_breach" => \A c \in calls : c.job # k
  <2>1. CASE k = j
    BY <2>1, <1>1
  <2>2. CASE k # j
    BY <2>2, <1>1 DEF JInv, Stages
  <2> QED BY <2>1, <2>2
<1> QED BY <1>2, <1>3, Zenon DEF Stages

\* Every step keeps the types.
LEMMA TypeStep == ASSUME TypeOK, [Next]_vars PROVE TypeOK'
<1> USE DEF TypeOK, jobVars, regVars
<1>1. ASSUME NEW j \in Jobs, Preflight(j) PROVE TypeOK'
  <2>1. Cardinality({k \in Jobs : started[k] > 0}) \in Nat
    BY JobSets
  <2>2. started' \in [Jobs -> Nat]
    BY <1>1, <2>1 DEF Preflight
  <2> QED BY <1>1, <2>2 DEF Preflight, Goto, Place
<1>2. ASSUME NEW j \in Jobs, Register(j) PROVE TypeOK'
  <2>1. Cardinality({k \in Jobs : entered[k] > 0}) \in Nat
    BY JobSets
  <2>2. entered' \in [Jobs -> Nat]
    BY <1>2, <2>1 DEF Register
  <2>3. registry' = registry \cup {j} /\ UNCHANGED <<status, payload, started, left, calls, day, peak>>
    BY <1>2 DEF Register
  <2>4. \/ trim' = [unread |-> registry', found |-> {}, finished |-> {k \in registry : ~Running(k)}]
        \/ trim' = trim
    BY <1>2 DEF Register
  <2>5. trim' \in [unread: SUBSET Jobs, found: SUBSET Jobs, finished: SUBSET Jobs]
    BY <2>3, <2>4
  <2>6. Goto(j, "trimming") \/ Goto(j, "queued")
    BY <1>2 DEF Register
  <2>7. /\ thread' \in [Jobs -> Place]
        /\ registry' \subseteq {k \in Jobs : thread'[k] \notin {"new", "checked", "lost"}}
    BY <2>3, <2>6 DEF Goto, Place
  <2> QED BY <2>2, <2>3, <2>5, <2>7
<1>trim. ASSUME NEW j \in Jobs, TrimStep(j) PROVE TypeOK'
  <2>1. CASE ReadStatus(j)
    <3>1. PICK k \in trim.unread : trim' = [trim EXCEPT !.unread = @ \ {k},
                                              !.found = IF Running(k) THEN @ ELSE @ \cup {k}]
      BY <2>1 DEF ReadStatus
    <3>2. trim' = [unread |-> trim.unread \ {k},
                   found |-> IF Running(k) THEN trim.found ELSE trim.found \cup {k},
                   finished |-> trim.finished]
      BY <3>1
    <3>3. trim' \in [unread: SUBSET Jobs, found: SUBSET Jobs, finished: SUBSET Jobs]
      BY <3>2
    <3> QED BY <2>1, <3>3 DEF ReadStatus
  <2>2. CASE DropOldest(j)
    BY <2>2 DEF DropOldest, NoTrim, Goto, Place
  <2> QED BY <1>trim, <2>1, <2>2 DEF TrimStep
<1>3. ASSUME NEW j \in Jobs, Load(j) \/ DieUnhandled(j) PROVE TypeOK'
  BY <1>3 DEF Load, DieUnhandled, Goto, Place
<1>4. ASSUME NEW j \in Jobs, LoadMissing(j) \/ NothingBreaches(j) \/ AnalysisFails(j) \/ ChainExhausted(j)
                             \/ Answer(j) \/ AnswerUnusable(j) \/ RecordFails(j)
      PROVE TypeOK'
  <2>1. PICK s \in {"done", "error", "no_breach"} : Finish(j, s)
    BY <1>4 DEF LoadMissing, NothingBreaches, AnalysisFails, ChainExhausted, Answer, AnswerUnusable, RecordFails
  <2>2. UNCHANGED calls /\ thread[j] \notin {"new", "checked", "lost"}
    BY <1>4 DEF LoadMissing, NothingBreaches, AnalysisFails, ChainExhausted, Answer, AnswerUnusable, RecordFails, Trying
  <2> QED BY <2>1, <2>2 DEF Finish, Goto, Place
<1>5. ASSUME NEW j \in Jobs, WritePayload(j) PROVE TypeOK'
  BY <1>5 DEF WritePayload, Goto, Place
<1>6. ASSUME NEW j \in Jobs, PassLimit(j) PROVE TypeOK'
  <2>1. Cardinality(Calling(Owner[j])) + 1 \in Nat
    BY JobSets DEF Calling
  <2>2. \A m, n \in Nat : Larger(m, n) \in Nat
    BY LargerIsNat
  <2>3. peak' \in [Users -> Nat]
    BY <1>6, <2>1, <2>2 DEF PassLimit
  <2> QED BY <1>6, <2>3 DEF PassLimit, Goto, Place
<1>7. ASSUME NEW j \in Jobs, SkipModel(j) PROVE TypeOK'
  BY <1>7 DEF SkipModel, Trying, NextModel
<1>8. ASSUME NEW j \in Jobs, CallFails(j) \/ CallSucceeds(j) PROVE TypeOK'
  <2>1. left[j] \in 1..MaxChain /\ UsageRow(j, TRUE) \in Call /\ UsageRow(j, FALSE) \in Call
    BY <1>8 DEF CallFails, CallSucceeds, Trying, UsageRow, Call
  <2>2. calls' \subseteq Call
    BY <1>8, <2>1 DEF CallFails, CallSucceeds
  <2>3. left' \in [Jobs -> 0..MaxChain]
    <3>1. left[j] - 1 \in 0..MaxChain /\ 0 \in 0..MaxChain
      BY <2>1
    <3> QED BY <1>8, <3>1 DEF CallFails, CallSucceeds, NextModel
  <2>4. UNCHANGED <<regVars, status, payload, started, day, peak>>
    BY <1>8 DEF CallFails, CallSucceeds, NextModel
  <2>5. thread[j] = "calling" /\ thread' \in {thread, [thread EXCEPT ![j] = "answered"]}
    BY <1>8 DEF CallFails, CallSucceeds, NextModel, Trying, Goto
  <2>6. thread' \in [Jobs -> Place]
    BY <2>5 DEF Place
  <2>7. registry' \subseteq {k \in Jobs : thread'[k] \notin {"new", "checked", "lost"}}
    BY <2>4, <2>5
  <2> QED BY <2>2, <2>3, <2>4, <2>6, <2>7
<1>9. CASE Restart
  BY <1>9 DEF Restart, NoTrim, Place
<1>10. CASE NewDay
  BY <1>10 DEF NewDay
<1>11. CASE UNCHANGED vars
  BY <1>11 DEF vars
<1> QED BY <1>1, <1>2, <1>trim, <1>3, <1>4, <1>5, <1>6, <1>7, <1>8, <1>9, <1>10, <1>11 DEF Next, WorkerStep

\* Every step keeps the stages: by ThreadMoves if it calls no model.
LEMMA StagesStep == ASSUME JInv, [Next]_vars PROVE Stages'
<1> USE DEF jobVars, regVars
<1>0. \A j \in Jobs : /\ status[j] \in {"running", "done", "error", "no_breach"}
                      /\ status = [status EXCEPT ![j] = status[j]]
  BY DEF JInv, TypeOK
<1>1. ASSUME NEW j \in Jobs, Preflight(j) \/ Register(j) \/ DropOldest(j) \/ Load(j)
                             \/ DieUnhandled(j) \/ PassLimit(j)
      PROVE Stages'
  <2>1. PICK place \in {"checked", "trimming", "queued", "loaded", "dead", "calling"} : Goto(j, place)
    BY <1>1 DEF Preflight, Register, DropOldest, Load, DieUnhandled, PassLimit
  <2>2. status' = [status EXCEPT ![j] = status[j]] /\ UNCHANGED calls
    BY <1>0, <1>1 DEF Preflight, Register, DropOldest, Load, DieUnhandled, PassLimit
  <2>3. thread[j] \in {"new", "checked", "trimming", "queued", "loaded"}
    BY <1>1 DEF Preflight, Register, DropOldest, Load, DieUnhandled, PassLimit
  <2>4. status[j] = "running" /\ (\A c \in calls : c.job # j) /\ OkCalls(j) = {}
    BY <2>3, <1>0 DEF JInv, Stages, OkCalls
  <2> QED BY <1>0, <2>1, <2>2, <2>4, ThreadMoves DEF Place
<1>2. ASSUME NEW j \in Jobs, LoadMissing(j) \/ NothingBreaches(j) \/ AnalysisFails(j) \/ ChainExhausted(j)
                             \/ AnswerUnusable(j) \/ RecordFails(j) \/ Answer(j)
      PROVE Stages'
  <2>1. PICK s \in {"done", "error", "no_breach"} :
           /\ Finish(j, s)
           /\ s = "done" => thread[j] = "answered"
           /\ s = "no_breach" => thread[j] = "loaded"
    BY <1>2 DEF LoadMissing, NothingBreaches, AnalysisFails, ChainExhausted, AnswerUnusable, RecordFails, Answer
  <2>2. UNCHANGED calls
    BY <1>2 DEF LoadMissing, NothingBreaches, AnalysisFails, ChainExhausted, AnswerUnusable, RecordFails, Answer
  <2>3. /\ s = "done" => \E c : OkCalls(j) = {c}
        /\ s = "no_breach" => \A c \in calls : c.job # j
    BY <2>1 DEF JInv, Stages
  <2> QED BY <2>1, <2>2, <2>3, ThreadMoves DEF Finish, Place
<1>3. ASSUME NEW j \in Jobs, WritePayload(j) PROVE Stages'
  <2>1. Goto(j, "ended") /\ UNCHANGED calls /\ status' = [status EXCEPT ![j] = status[j]]
    BY <1>0, <1>3 DEF WritePayload
  <2>2. /\ status[j] = "done" => \E c : OkCalls(j) = {c}
        /\ status[j] = "no_breach" => \A c \in calls : c.job # j
    BY DEF JInv, Stages
  <2> QED BY <1>0, <2>1, <2>2, ThreadMoves DEF Place
<1>4. CASE Restart
  BY <1>4 DEF Restart, JInv, Stages, OkCalls, Live
<1>5. CASE NewDay \/ (\E j \in Jobs : SkipModel(j) \/ ReadStatus(j)) \/ UNCHANGED vars
  <2>1. UNCHANGED <<calls, thread, status>>
    BY <1>5 DEF NewDay, SkipModel, ReadStatus, NextModel, vars
  <2> QED BY <2>1 DEF JInv, Stages, OkCalls
<1>6. ASSUME NEW j \in Jobs, CallFails(j) \/ CallSucceeds(j) PROVE Stages'
  <2> PICK ok \in BOOLEAN : /\ calls' = calls \cup {UsageRow(j, ok)}
                            /\ ok => CallSucceeds(j)
                            /\ ~ok => CallFails(j)
    BY <1>6 DEF CallFails, CallSucceeds
  <2>1. UsageRow(j, ok).job = j /\ UsageRow(j, ok).ok = ok
    BY DEF UsageRow
  <2>2. thread[j] = "calling" /\ status[j] = "running" /\ UNCHANGED status
    BY <1>6, <1>0 DEF CallFails, CallSucceeds, Trying, NextModel, JInv, Stages
  <2>3. \A k \in Jobs : thread'[k] = IF k = j /\ ok THEN "answered" ELSE thread[k]
    BY <2>2 DEF CallFails, CallSucceeds, NextModel, Goto, JInv, TypeOK
  <2>4. \A k \in Jobs \ {j} : OkCalls(k)' = OkCalls(k) /\ ((\A c \in calls : c.job # k) => \A c \in calls' : c.job # k)
    BY <2>1 DEF OkCalls
  <2>5. OkCalls(j) = {} /\ OkCalls(j)' = IF ok THEN {UsageRow(j, ok)} ELSE {}
    BY <2>1, <2>2 DEF OkCalls, JInv, Stages
  <2>6. ASSUME NEW k \in Jobs, k # j
        PROVE  /\ status'[k] # "running" => thread'[k] \in {"finishing", "ended", "lost"}
               /\ thread'[k] \in {"new", "checked", "trimming", "queued", "loaded"} => \A c \in calls' : c.job # k
               /\ thread'[k] = "calling" => OkCalls(k)' = {}
               /\ thread'[k] = "answered" => \E c : OkCalls(k)' = {c}
               /\ status'[k] = "done" => \E c : OkCalls(k)' = {c}
               /\ status'[k] = "no_breach" => \A c \in calls' : c.job # k
    <3>1. status'[k] = status[k] /\ thread'[k] = thread[k] /\ OkCalls(k)' = OkCalls(k)
      BY <2>2, <2>3, <2>4, <2>6
    <3>2. (\A c \in calls : c.job # k) => \A c \in calls' : c.job # k
      BY <2>4, <2>6
    <3> QED BY <3>1, <3>2 DEF JInv, Stages
  <2> QED BY <2>2, <2>3, <2>5, <2>6 DEF Stages
<1> QED BY <1>1, <1>2, <1>3, <1>4, <1>5, <1>6 DEF Next, WorkerStep, TrimStep

\* The registry, the statuses and the bills keep their types.
THEOREM TypeCorrect == Spec => []TypeOK
<1>1. Init => TypeOK
  BY InitStages DEF JInv
<1> QED BY <1>1, TypeStep, PTL DEF Spec

\* The invariant of types and stages.
LEMMA StagesHold == Spec => []JInv
<1>1. JInv /\ [Next]_vars => JInv'
  BY TypeStep, StagesStep DEF JInv
<1> QED BY <1>1, InitStages, PTL DEF Spec

\* A job that is done has billed exactly one successful call, and one without a
\* breach has called no model (agent_runner.py, usage.py).
THEOREM DoneBilledOnce == Spec => []DoneIsBilledOnce
<1>1. JInv => DoneIsBilledOnce
  BY FS_Singleton DEF JInv, Stages, OkCalls, DoneIsBilledOnce
<1> QED BY <1>1, StagesHold, PTL

-----------------------------------------------------------------------------
(* The call limit *)

\* No call is of a day to come, and as long as jobs of a user are between the limit
\* check and the record of their call, the most that ever were is at least that many.
Metered ==
    /\ IsFiniteSet(calls)
    /\ \A c \in calls : c.day <= day
    /\ \A u \in Users : Cardinality(Calling(u)) <= peak[u]
    /\ OvershootBoundedByOverlap

MInv == TypeOK /\ Metered

\* What is counted are natural numbers.
LEMMA Counts ==
  ASSUME MInv, NEW u \in Users
  PROVE  /\ IsFiniteSet(Calling(u)) /\ Cardinality(Calling(u)) \in Nat
         /\ IsFiniteSet({c \in calls : c.ok /\ c.day = day /\ Owner[c.job] = u}) /\ UsedToday(u) \in Nat
         /\ peak[u] \in Nat /\ CallLimit \in Nat
<1>1. IsFiniteSet({c \in calls : c.ok /\ c.day = day /\ Owner[c.job] = u})
  BY FS_Subset DEF MInv, Metered
<1> QED BY <1>1, JobSets, FS_CardinalityType DEF MInv, Metered, TypeOK, UsedToday, Calling

\* Nothing has been called or counted.
LEMMA InitMetered == Init => MInv
<1> SUFFICES ASSUME Init PROVE MInv
  OBVIOUS
<1>1. TypeOK
  BY InitStages DEF JInv
<1>2. IsFiniteSet(calls) /\ \A c \in calls : c.day <= day
  BY FS_EmptySet DEF Init
<1>3. \A u \in Users : Calling(u) = {} /\ UsedToday(u) = Cardinality({}) /\ peak[u] = 0
  BY DEF Init, Calling, UsedToday
<1>4. Cardinality({}) = 0
  BY FS_EmptySet
<1>5. \A u \in Users : Cardinality(Calling(u)) = 0 /\ UsedToday(u) = 0 /\ peak[u] = 0
  BY <1>3, <1>4
<1>6. OvershootBoundedByOverlap
  BY <1>5 DEF OvershootBoundedByOverlap
<1> QED BY <1>1, <1>2, <1>5, <1>6 DEF MInv, Metered

\* Jobs leave the calls, or are cut off.
LEMMA CallingShrinks ==
  ASSUME MInv, UNCHANGED <<calls, day, peak>>, \A j \in Jobs : thread'[j] = "calling" => thread[j] = "calling"
  PROVE  Metered'
<1>1. ASSUME NEW u \in Users
      PROVE  /\ Cardinality(Calling(u)') <= Cardinality(Calling(u)) /\ Cardinality(Calling(u)') \in Nat
             /\ UsedToday(u)' = UsedToday(u)
  <2>1. Calling(u)' \subseteq Calling(u)
    BY DEF Calling
  <2> QED BY <2>1, Counts, FS_Subset, FS_CardinalityType DEF UsedToday
<1>nat. \A u \in Users : Cardinality(Calling(u)) \in Nat /\ UsedToday(u) \in Nat /\ peak[u] \in Nat
  BY Counts
<1>within. \A u \in Users : Cardinality(Calling(u)) <= peak[u]
  BY DEF MInv, Metered
<1>2. \A u \in Users : Cardinality(Calling(u)') <= peak'[u]
  BY <1>1, <1>nat, <1>within
<1>used. \A u \in Users : CallLimit # 0 => UsedToday(u) + Cardinality(Calling(u)) <= CallLimit - 1 + peak[u]
  BY DEF MInv, Metered, OvershootBoundedByOverlap
<1>3. OvershootBoundedByOverlap'
  BY <1>1, <1>nat, <1>used DEF OvershootBoundedByOverlap
<1> QED BY <1>2, <1>3 DEF MInv, Metered

\* A job passes the check: its user is below the limit, and the peak counts it.
LEMMA CallingGrows == ASSUME MInv, NEW j \in Jobs, PassLimit(j) PROVE Metered'
<1> DEFINE u == Owner[j]
<1>0. u \in Users
  OBVIOUS
<1>1. UNCHANGED <<calls, day>> /\ thread' = [thread EXCEPT ![j] = "calling"]
  BY DEF PassLimit, Goto
<1>2. Calling(u)' = Calling(u) \cup {j} /\ j \notin Calling(u)
  BY <1>1 DEF PassLimit, Calling, MInv, TypeOK
<1>3. Cardinality(Calling(u)') = Cardinality(Calling(u)) + 1
  BY <1>0, <1>2, Counts, FS_AddElement
<1>4. \A v \in Users \ {u} : Calling(v)' = Calling(v) /\ peak'[v] = peak[v]
  BY <1>1 DEF PassLimit, Calling, MInv, TypeOK
<1>5. \A v \in Users : UsedToday(v)' = UsedToday(v)
  BY <1>1 DEF UsedToday
<1>6. peak'[u] = Larger(peak[u], Cardinality(Calling(u)) + 1)
  BY <1>0 DEF PassLimit, MInv, TypeOK
<1>nat. Cardinality(Calling(u)) \in Nat /\ UsedToday(u) \in Nat /\ peak[u] \in Nat
  BY <1>0, Counts
<1>next. Cardinality(Calling(u)) + 1 \in Nat
  BY <1>nat
<1>7. peak'[u] \in Nat /\ Cardinality(Calling(u)) + 1 <= peak'[u]
  BY <1>6, <1>nat, <1>next, LargerIsNat
<1>8. CallLimit # 0 => UsedToday(u) <= CallLimit - 1
  BY <1>0, <1>nat DEF PassLimit, OverLimit
<1>9. ASSUME NEW v \in Users PROVE Cardinality(Calling(v)') <= peak'[v]
  <2>1. CASE v = u
    BY <2>1, <1>3, <1>7
  <2>2. CASE v # u
    BY <2>2, <1>4 DEF MInv, Metered
  <2> QED BY <2>1, <2>2
<1>10. ASSUME NEW v \in Users, CallLimit # 0
       PROVE UsedToday(v)' + Cardinality(Calling(v)') <= CallLimit - 1 + peak'[v]
  <2>1. CASE v = u
    BY <2>1, <1>0, <1>3, <1>5, <1>7, <1>8, <1>10, <1>nat
  <2>2. CASE v # u
    BY <2>2, <1>4, <1>5, <1>10 DEF MInv, Metered, OvershootBoundedByOverlap
  <2> QED BY <2>1, <2>2
<1> QED BY <1>1, <1>9, <1>10 DEF MInv, Metered, OvershootBoundedByOverlap

\* A call is recorded: one that failed counts for nothing, and a job whose call
\* succeeded is out of the calls by then.
LEMMA CallRecorded == ASSUME MInv, NEW j \in Jobs, CallFails(j) \/ CallSucceeds(j) PROVE Metered'
<1> PICK ok \in BOOLEAN : /\ calls' = calls \cup {UsageRow(j, ok)}
                          /\ ok => CallSucceeds(j)
                          /\ ~ok => CallFails(j)
  BY DEF CallFails, CallSucceeds
<1>1. UNCHANGED <<day, peak>> /\ thread[j] = "calling"
  BY DEF CallFails, CallSucceeds, NextModel, Trying
<1>2. IsFiniteSet(calls') /\ \A c \in calls' : c.day <= day'
  <2>1. UsageRow(j, ok).day = day /\ day \in Nat
    BY DEF UsageRow, MInv, TypeOK
  <2> QED BY <1>1, <2>1, FS_AddElement DEF MInv, Metered
<1>3. CASE ~ok
  <2>1. \A u \in Users : Calling(u)' = Calling(u)
    BY <1>3 DEF CallFails, NextModel, jobVars, Calling
  <2>2. ~UsageRow(j, ok).ok
    BY <1>3 DEF UsageRow
  <2>3. \A u \in Users : UsedToday(u)' = UsedToday(u)
    <3>1. \A u \in Users : {c \in calls' : c.ok /\ c.day = day' /\ Owner[c.job] = u}
                            = {c \in calls : c.ok /\ c.day = day /\ Owner[c.job] = u}
      BY <1>1, <2>2
    <3> QED BY <3>1 DEF UsedToday
  <2> QED BY <1>1, <1>2, <2>1, <2>3 DEF MInv, Metered, OvershootBoundedByOverlap
<1>4. CASE ok
  <2> DEFINE u == Owner[j]
             row == UsageRow(j, ok)
             billed(v) == {c \in calls : c.ok /\ c.day = day /\ Owner[c.job] = v}
  <2>0. u \in Users /\ row.ok /\ row.day = day /\ row.job = j
    BY <1>4 DEF UsageRow
  <2>1. thread' = [thread EXCEPT ![j] = "answered"]
    BY <1>4 DEF CallSucceeds, Goto
  <2>2. Calling(u)' = Calling(u) \ {j} /\ j \in Calling(u)
    BY <1>1, <2>1 DEF Calling, MInv, TypeOK
  <2>nat. /\ IsFiniteSet(Calling(u)) /\ Cardinality(Calling(u)) \in Nat
        /\ UsedToday(u) \in Nat /\ peak[u] \in Nat
    BY <2>0, Counts
  <2>3. Cardinality(Calling(u)') = Cardinality(Calling(u)) - 1
    BY <2>2, <2>nat, OneLess
  <2>4. \A v \in Users \ {u} : Calling(v)' = Calling(v)
    BY <2>1 DEF Calling, MInv, TypeOK
  <2>5. UsedToday(u)' <= UsedToday(u) + 1 /\ UsedToday(u)' \in Nat
    <3>1. {c \in calls' : c.ok /\ c.day = day' /\ Owner[c.job] = u} = billed(u) \cup {row}
      BY <1>1, <2>0
    <3>2. IsFiniteSet(billed(u)) /\ UsedToday(u) \in Nat /\ UsedToday(u) = Cardinality(billed(u))
      BY <2>0, Counts DEF UsedToday
    <3>3. UsedToday(u)' = Cardinality(billed(u) \cup {row})
      BY <3>1 DEF UsedToday
    <3> HIDE DEF billed, row, u
    <3> QED BY <3>2, <3>3, OneMore
  <2>6. \A v \in Users \ {u} : UsedToday(v)' = UsedToday(v)
    <3>1. \A v \in Users \ {u} : {c \in calls' : c.ok /\ c.day = day' /\ Owner[c.job] = v} = billed(v)
      BY <1>1, <2>0
    <3> QED BY <3>1 DEF UsedToday
  <2>7. ASSUME NEW v \in Users
        PROVE  /\ Cardinality(Calling(v)') <= peak'[v]
               /\ CallLimit # 0 => UsedToday(v)' + Cardinality(Calling(v)') <= CallLimit - 1 + peak'[v]
    <3>1. CASE v = u
      <4>1. /\ Cardinality(Calling(u)) <= peak[u]
            /\ CallLimit # 0 => UsedToday(u) + Cardinality(Calling(u)) <= CallLimit - 1 + peak[u]
        BY <2>0 DEF MInv, Metered, OvershootBoundedByOverlap
      <4>2. peak'[u] = peak[u]
        BY <1>1
      <4> HIDE DEF u
      <4> QED BY <3>1, <4>1, <4>2, <2>3, <2>5, <2>nat
    <3>2. CASE v # u
      BY <3>2, <1>1, <2>4, <2>6 DEF MInv, Metered, OvershootBoundedByOverlap
    <3> QED BY <3>1, <3>2
  <2> QED BY <1>2, <2>7 DEF Metered, OvershootBoundedByOverlap
<1> QED BY <1>3, <1>4

\* At midnight nothing has been used yet, and the jobs that are calling are no more
\* than the peak.
LEMMA DayBegins == ASSUME MInv, NewDay PROVE Metered'
<1>1. UNCHANGED <<calls, thread, peak>> /\ day' = day + 1 /\ day \in Nat
  BY DEF NewDay, jobVars, MInv, TypeOK
<1>2. \A c \in calls : c.day \in Nat /\ c.day <= day
  BY DEF MInv, Metered, TypeOK, Call
<1>3. \A u \in Users : UsedToday(u)' = Cardinality({}) /\ Calling(u)' = Calling(u)
  <2>1. \A u \in Users : {c \in calls' : c.ok /\ c.day = day' /\ Owner[c.job] = u} = {}
    BY <1>1, <1>2
  <2> QED BY <1>1, <2>1 DEF UsedToday, Calling
<1>4. Cardinality({}) = 0
  BY FS_EmptySet
<1>nat. \A u \in Users : /\ Cardinality(Calling(u)) \in Nat /\ peak[u] \in Nat
                        /\ Cardinality(Calling(u)) <= peak[u]
  BY Counts DEF MInv, Metered
<1>5. \A u \in Users : CallLimit # 0 => 0 + Cardinality(Calling(u)) <= CallLimit - 1 + peak[u]
  BY <1>nat
<1>6. \A c \in calls' : c.day <= day'
  BY <1>1, <1>2
<1> QED BY <1>1, <1>3, <1>4, <1>5, <1>6 DEF MInv, Metered, OvershootBoundedByOverlap

\* Every step keeps the meter.
LEMMA MeteredStep == ASSUME MInv, [Next]_vars PROVE Metered'
<1> USE DEF jobVars, regVars
<1>1. ASSUME NEW j \in Jobs,
             \/ Preflight(j) \/ Register(j) \/ DropOldest(j) \/ Load(j) \/ DieUnhandled(j) \/ LoadMissing(j)
             \/ NothingBreaches(j) \/ AnalysisFails(j) \/ ChainExhausted(j) \/ Answer(j)
             \/ AnswerUnusable(j) \/ RecordFails(j) \/ WritePayload(j)
      PROVE Metered'
  <2>1. UNCHANGED <<calls, day, peak>>
    BY <1>1 DEF Preflight, Register, DropOldest, Load, DieUnhandled, LoadMissing, NothingBreaches, AnalysisFails,
                ChainExhausted, Answer, AnswerUnusable, RecordFails, WritePayload, Finish
  <2>2. \E place \in Place \ {"calling"} : Goto(j, place)
    BY <1>1 DEF Preflight, Register, DropOldest, Load, DieUnhandled, LoadMissing, NothingBreaches, AnalysisFails,
                ChainExhausted, Answer, AnswerUnusable, RecordFails, WritePayload, Finish, Place
  <2>3. \A k \in Jobs : thread'[k] = "calling" => thread[k] = "calling"
    BY <2>2 DEF Goto, MInv, TypeOK
  <2> QED BY <2>1, <2>3, CallingShrinks
<1>2. CASE Restart
  BY <1>2, CallingShrinks DEF Restart, Live
<1>3. CASE (\E j \in Jobs : SkipModel(j) \/ ReadStatus(j)) \/ UNCHANGED vars
  BY <1>3, CallingShrinks DEF SkipModel, ReadStatus, NextModel, vars
<1> QED BY <1>1, <1>2, <1>3, CallingGrows, CallRecorded, DayBegins DEF Next, WorkerStep, TrimStep

\* However a user's analyses overlap, fail, run past midnight or are cut off by a
\* restart, the daily limit is overshot by at most the jobs that were ever past the
\* check together, less one (usage.py, jobs.py).
THEOREM OvershootBounded == Spec => []OvershootBoundedByOverlap
<1>1. MInv /\ [Next]_vars => MInv'
  BY TypeStep, MeteredStep DEF MInv
<1>2. MInv => OvershootBoundedByOverlap
  BY DEF MInv, Metered
<1> QED BY <1>1, <1>2, InitMetered, PTL DEF Spec

-----------------------------------------------------------------------------
(* The registry *)

\* What the generator has read as finished has finished, and whatever had
\* finished when the trim began has been read so or is still to be read: a status
\* never goes back to running.
Trimming ==
    /\ trim.found \cup trim.unread \subseteq registry
    /\ \A k \in trim.found : ~Running(k)
    /\ trim.finished \subseteq trim.found \cup trim.unread
    /\ \A k \in trim.finished : ~Running(k)

TInv == JInv /\ Trimming

\* No step but Register, ReadStatus and DropOldest, and a restart, concerns the
\* registry, and a status only leaves "running".
LEMMA OtherSteps ==
  ASSUME JInv, [Next]_vars, ~Restart, \A j \in Jobs : ~Register(j) /\ ~TrimStep(j)
  PROVE  UNCHANGED regVars /\ \A k \in Jobs : ~Running(k) => status'[k] = status[k]
<1> USE DEF jobVars
<1>1. ASSUME NEW j \in Jobs, LoadMissing(j) \/ NothingBreaches(j) \/ AnalysisFails(j) \/ ChainExhausted(j)
                             \/ AnswerUnusable(j) \/ RecordFails(j) \/ Answer(j)
      PROVE  UNCHANGED regVars /\ \A k \in Jobs : ~Running(k) => status'[k] = status[k]
  <2>1. thread[j] \in {"queued", "loaded", "calling", "answered"} /\ \E s : Finish(j, s)
    BY <1>1 DEF LoadMissing, NothingBreaches, AnalysisFails, ChainExhausted, AnswerUnusable, RecordFails,
       Answer, Trying
  <2>2. Running(j)
    BY <2>1 DEF JInv, Stages, Running
  <2> QED BY <2>1, <2>2 DEF Finish, JInv, TypeOK
<1>2. ASSUME NEW j \in Jobs, \/ Preflight(j) \/ Load(j) \/ DieUnhandled(j) \/ PassLimit(j)
                             \/ SkipModel(j) \/ CallFails(j) \/ CallSucceeds(j) \/ WritePayload(j)
      PROVE  UNCHANGED <<regVars, status>>
  BY <1>2 DEF Preflight, Load, DieUnhandled, PassLimit, SkipModel, CallFails, CallSucceeds, WritePayload,
     NextModel
<1>3. CASE NewDay \/ UNCHANGED vars
  BY <1>3 DEF NewDay, vars
<1> QED BY <1>1, <1>2, <1>3 DEF Next, WorkerStep

\* Every step keeps what a trim knows.
LEMMA TrimmingStep == ASSUME TInv, [Next]_vars PROVE Trimming'
<1>1. ASSUME NEW j \in Jobs, Register(j) PROVE Trimming'
  <2>1. registry' = registry \cup {j} /\ UNCHANGED status
    BY <1>1 DEF Register
  <2>2. CASE trim' = [unread |-> registry', found |-> {}, finished |-> {k \in registry : ~Running(k)}]
    BY <2>1, <2>2 DEF Trimming, Running
  <2>3. CASE UNCHANGED trim
    BY <2>1, <2>3 DEF TInv, Trimming, Running
  <2> QED BY <1>1, <2>2, <2>3 DEF Register
<1>2. ASSUME NEW j \in Jobs, ReadStatus(j) PROVE Trimming'
  <2>1. UNCHANGED <<registry, status>>
    BY <1>2 DEF ReadStatus
  <2>2. PICK k \in trim.unread : trim' = [trim EXCEPT !.unread = @ \ {k},
                                            !.found = IF Running(k) THEN @ ELSE @ \cup {k}]
    BY <1>2 DEF ReadStatus
  <2>3. /\ trim'.unread = trim.unread \ {k} /\ trim'.finished = trim.finished
        /\ trim'.found = IF Running(k) THEN trim.found ELSE trim.found \cup {k}
    BY <2>2 DEF TInv, JInv, TypeOK
  <2>4. k \in registry
    BY DEF TInv, Trimming
  <2> QED BY <2>1, <2>3, <2>4 DEF TInv, Trimming, Running
<1>3. ASSUME NEW j \in Jobs, DropOldest(j) PROVE Trimming'
  BY <1>3 DEF DropOldest, NoTrim, Trimming
<1>4. CASE Restart
  BY <1>4 DEF Restart, NoTrim, Trimming
<1>5. CASE ~Restart /\ \A j \in Jobs : ~Register(j) /\ ~TrimStep(j)
  <2>1. UNCHANGED regVars /\ \A k \in Jobs : ~Running(k) => status'[k] = status[k]
    BY <1>5, OtherSteps DEF TInv
  <2>2. trim.found \in SUBSET Jobs /\ trim.finished \in SUBSET Jobs
    BY DEF TInv, JInv, TypeOK
  <2> QED BY <2>1, <2>2 DEF regVars, TInv, Trimming, Running
<1> QED BY <1>1, <1>2, <1>3, <1>4, <1>5 DEF TrimStep

\* The oldest of the jobs found finished started before any of them that is kept.
LEMMA OldestStartedFirst ==
  ASSUME TypeOK, NEW j \in OldestFound, NEW k \in trim.found \ OldestFound
  PROVE  started[j] < started[k]
<1> DEFINE before(i) == {m \in trim.found : started[m] < started[i]}
           room == Cardinality(registry) - MaxJobs
<1>1. j \in trim.found /\ Cardinality(before(j)) < room /\ ~(Cardinality(before(k)) < room)
  BY DEF OldestFound
<1>2. trim.found \in SUBSET Jobs /\ registry \in SUBSET Jobs
  BY DEF TypeOK
<1>3. \A i \in {j, k} : IsFiniteSet(before(i)) /\ Cardinality(before(i)) \in Nat
  BY <1>2, JobSets
<1>4. room \in Int
  BY <1>2, JobSets
<1>5. SUFFICES ASSUME started[k] <= started[j] PROVE FALSE
  BY <1>1, <1>2 DEF TypeOK
<1>6. before(k) \subseteq before(j)
  BY <1>1, <1>2, <1>5 DEF TypeOK
<1>7. Cardinality(before(k)) <= Cardinality(before(j))
  BY <1>3, <1>6, FS_Subset
<1> HIDE DEF before, room
<1> QED BY <1>1, <1>3, <1>4, <1>7

\* The invariant of trims.
LEMMA TrimsKnow == Spec => []TInv
<1>1. Init => TInv
  <2>1. Init => Trimming
    BY DEF Init, NoTrim, Trimming
  <2> QED BY <2>1, InitStages DEF TInv
<1>2. TInv /\ [Next]_vars => TInv'
  BY TypeStep, StagesStep, TrimmingStep DEF TInv, JInv
<1> QED BY <1>1, <1>2, PTL DEF Spec

\* A finished job survives one that started later and is dropped only if it
\* finished while the statuses were being read (jobs.py).
THEOREM OldestFirst == Spec => OldestDroppedFirst
<1>1. ASSUME TInv, [Next]_vars, NEW j \in registry \ registry', NEW k \in registry \cap registry',
             k \in trim.finished
      PROVE  started[j] < started[k]
  <2>1. ~Restart /\ \A x \in Jobs : ~Register(x) /\ ~ReadStatus(x)
    BY <1>1 DEF Restart, Register, ReadStatus
  <2>2. PICK x \in Jobs : DropOldest(x)
    BY <1>1, <2>1, OtherSteps DEF TInv, TrimStep, regVars
  <2>3. trim.unread = {} /\ registry' = registry \ OldestFound
    BY <2>2 DEF DropOldest
  <2>4. j \in OldestFound /\ k \in trim.found \ OldestFound
    BY <1>1, <2>3 DEF TInv, Trimming
  <2> QED BY <1>1, <2>4, OldestStartedFirst DEF TInv, JInv
<1>2. TInv /\ [Next]_vars =>
        [\A j \in registry \ registry', k \in registry \cap registry' :
          k \in trim.finished => started[j] < started[k]]_vars
  BY <1>1
<1> QED BY <1>2, TrimsKnow, PTL DEF Spec, OldestDroppedFirst

-----------------------------------------------------------------------------
(* The refinement of JobBoard *)

\* No poll is told of a job yet.
LEMMA BoardInit == Init => Board!Init
  BY DEF Init, Board!Init, Polled

\* A step of a thread that has been registered and leaves status and registry alone
\* shows nothing, and neither does one of a request that is not.
LEMMA ShowsNothing ==
  ASSUME UNCHANGED <<registry, status>>,
         \A j \in Jobs : thread[j] \in {"new", "checked"} <=> thread'[j] \in {"new", "checked"}
  PROVE  UNCHANGED Polled
  BY DEF Polled

\* A job is posted.
LEMMA RegisterPosts == ASSUME JInv, NEW j \in Jobs, Register(j) PROVE Board!Next
<1>1. /\ thread[j] = "checked" /\ status[j] = "running" /\ UNCHANGED status
      /\ registry' = registry \cup {j}
      /\ \E place \in {"trimming", "queued"} :
            \A k \in Jobs : thread'[k] = IF k = j THEN place ELSE thread[k]
  BY DEF Register, Goto, JInv, TypeOK, Stages
<1>2. Polled[j] = "unposted"
  BY <1>1 DEF Polled
<1>3. Polled' = [Polled EXCEPT ![j] = "running"]
  <2>1. ASSUME NEW k \in Jobs
        PROVE (IF thread'[k] \in {"new", "checked"} THEN "unposted"
               ELSE IF k \in registry' THEN status'[k] ELSE "gone")
              = IF k = j THEN "running" ELSE Polled[k]
    BY <1>1 DEF Polled
  <2> QED BY <2>1 DEF Polled
<1>4. Board!Post(j)
  BY <1>2, <1>3 DEF Board!Post
<1> QED BY <1>4 DEF Board!Next

\* What a trim drops has settled.
LEMMA TrimDrops == ASSUME TInv, NEW j \in Jobs, DropOldest(j) PROVE Board!Next
<1>1. /\ thread[j] = "trimming" /\ UNCHANGED status
      /\ registry' = registry \ OldestFound
      /\ \A k \in Jobs : thread'[k] = IF k = j THEN "queued" ELSE thread[k]
  BY DEF DropOldest, Goto, TInv, JInv, TypeOK
<1>2. OldestFound \subseteq registry /\ \A k \in OldestFound : status[k] # "running"
  BY DEF OldestFound, TInv, Trimming, Running
<1>3. \A k \in registry : k \in Jobs /\ thread[k] \notin {"new", "checked"}
  BY DEF TInv, JInv, TypeOK
<1>4. \A k \in OldestFound : Polled[k] \in Board!Settled
  BY <1>2, <1>3 DEF Polled, Board!Settled, TInv, JInv, TypeOK
<1>5. Polled' = [k \in Jobs |-> IF k \in OldestFound THEN "gone" ELSE Polled[k]]
  <2>1. ASSUME NEW k \in Jobs
        PROVE (IF thread'[k] \in {"new", "checked"} THEN "unposted"
               ELSE IF k \in registry' THEN status'[k] ELSE "gone")
              = IF k \in OldestFound THEN "gone" ELSE Polled[k]
    BY <1>1, <1>2, <1>3 DEF Polled
  <2> QED BY <2>1 DEF Polled
<1>6. OldestFound \in SUBSET Jobs
  BY <1>2, <1>3
<1>7. Board!Drop(OldestFound)
  BY <1>4, <1>5 DEF Board!Drop
<1> QED BY <1>6, <1>7 DEF Board!Next

\* A thread finishes: its job settles, if the registry still has it.
LEMMA FinishSettles ==
  ASSUME JInv, NEW j \in Jobs, NEW s \in Board!Settled, Finish(j, s),
         thread[j] \in {"queued", "loaded", "calling", "answered"}
  PROVE  Board!Next \/ UNCHANGED Polled
<1>1. status[j] = "running" /\ UNCHANGED registry
      /\ \A k \in Jobs : /\ thread'[k] = IF k = j THEN "finishing" ELSE thread[k]
                         /\ status'[k] = IF k = j THEN s ELSE status[k]
  BY DEF Finish, regVars, Goto, JInv, TypeOK, Stages
<1>2. CASE j \in registry
  <2>1. Polled[j] = "running"
    BY <1>1, <1>2 DEF Polled
  <2>2. Polled' = [Polled EXCEPT ![j] = s]
    BY <1>1, <1>2 DEF Polled
  <2> QED BY <2>1, <2>2 DEF Board!Next, Board!Settle
<1>3. CASE j \notin registry
  BY <1>1, <1>3 DEF Polled
<1> QED BY <1>2, <1>3

\* A restart loses every job that was posted, and the requests let in.
LEMMA RestartClears == ASSUME JInv, Restart PROVE Board!Next
<1> DEFINE lost == {j \in Jobs : thread[j] = "checked"}
<1>1. \A j \in Jobs : thread'[j] \in {"new", "checked"} <=> thread[j] = "new"
  BY DEF Restart, Live, JInv, TypeOK, Place
<1>2. registry' = {}
  BY DEF Restart
<1>3. \A j \in Jobs : Polled[j] = "unposted" <=> thread[j] \in {"new", "checked"}
  BY DEF Polled, JInv, TypeOK
<1>4. Polled' = [j \in Jobs |-> IF Polled[j] = "unposted" /\ j \notin lost THEN "unposted" ELSE "gone"]
  BY <1>1, <1>2, <1>3 DEF Polled
<1>5. \A j \in lost : Polled[j] = "unposted"
  BY <1>3
<1>6. Board!Restart(lost)
  BY <1>4, <1>5 DEF Board!Restart
<1> QED BY <1>6 DEF Board!Next

\* Every step is one of the board, or shows nothing.
LEMMA BoardStep == ASSUME TInv, [Next]_vars PROVE [Board!Next]_Polled
<1> USE DEF jobVars, regVars, TInv
<1>1. ASSUME NEW j \in Jobs,
             Preflight(j) \/ Load(j) \/ DieUnhandled(j) \/ PassLimit(j) \/ CallSucceeds(j) \/ WritePayload(j)
      PROVE  UNCHANGED Polled
  <2>1. UNCHANGED <<registry, status>>
    BY <1>1 DEF Preflight, Load, DieUnhandled, PassLimit, CallSucceeds, WritePayload
  <2>2. \A k \in Jobs : thread[k] \in {"new", "checked"} <=> thread'[k] \in {"new", "checked"}
    BY <1>1 DEF Preflight, Load, DieUnhandled, PassLimit, CallSucceeds, WritePayload, Trying, Goto, JInv, TypeOK
  <2> QED BY <2>1, <2>2, ShowsNothing
<1>2. ASSUME NEW j \in Jobs, LoadMissing(j) \/ NothingBreaches(j) \/ AnalysisFails(j) \/ ChainExhausted(j)
                             \/ AnswerUnusable(j) \/ RecordFails(j) \/ Answer(j)
      PROVE  Board!Next \/ UNCHANGED Polled
  BY <1>2, FinishSettles DEF LoadMissing, NothingBreaches, AnalysisFails, ChainExhausted, AnswerUnusable,
     RecordFails, Answer, Trying, Board!Settled
<1>3. ASSUME UNCHANGED <<registry, status, thread>> PROVE UNCHANGED Polled
  BY <1>3 DEF Polled
<1>4. CASE NewDay \/ (\E j \in Jobs : SkipModel(j) \/ CallFails(j) \/ ReadStatus(j)) \/ UNCHANGED vars
  BY <1>3, <1>4 DEF NewDay, SkipModel, CallFails, ReadStatus, NextModel, vars
<1> QED BY <1>1, <1>2, <1>4, RegisterPosts, TrimDrops, RestartClears DEF Next, WorkerStep, TrimStep

\* Whoever polls sees a JobBoard: a job that runs is never dropped but by a restart, an
\* answer never changes, and a job once gone does not come back (jobs.py).
THEOREM RefinesJobBoard == Spec => ImplementsJobBoard
  BY BoardInit, BoardStep, TrimsKnow, PTL DEF Spec, ImplementsJobBoard, Board!Spec
=============================================================================
