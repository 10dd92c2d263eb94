------------------------------- MODULE JobBoard -------------------------------
(***************************************************************************)
(* What ai/jobs.py promises to whoever polls GET /analysis/{job_id}.       *)
(*                                                                         *)
(* A job is posted once and is then running.  It settles once, and an      *)
(* answer never changes.  Settled jobs may be dropped to make room, never  *)
(* one that still runs; only a restart of the process drops those.         *)
(***************************************************************************)

CONSTANT Jobs

VARIABLE board  \* board[j]: what a poll for job j is told

Settled == {"done", "error", "no_breach"}
View == {"unposted", "running", "gone"} \cup Settled

Init == board = [j \in Jobs |-> "unposted"]

Post(j) ==
    /\ board[j] = "unposted"
    /\ board' = [board EXCEPT ![j] = "running"]

Settle(j, s) ==
    /\ board[j] = "running"
    /\ board' = [board EXCEPT ![j] = s]

Drop(dropped) ==
    /\ \A j \in dropped : board[j] \in Settled
    /\ board' = [j \in Jobs |-> IF j \in dropped THEN "gone" ELSE board[j]]

\* lost: the requests that were being served and had not posted their job.
Restart(lost) ==
    /\ \A j \in lost : board[j] = "unposted"
    /\ board' = [j \in Jobs |-> IF board[j] = "unposted" /\ j \notin lost
                                THEN "unposted" ELSE "gone"]

Next ==
    \/ \E j \in Jobs : Post(j)
    \/ \E j \in Jobs, s \in Settled : Settle(j, s)
    \/ \E dropped \in SUBSET Jobs : Drop(dropped)
    \/ \E lost \in SUBSET Jobs : Restart(lost)

Spec == Init /\ [][Next]_board
=============================================================================
