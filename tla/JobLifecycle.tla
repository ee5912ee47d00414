---------------------------- MODULE JobLifecycle ----------------------------
(***************************************************************************)
(* What the job store promises about a job, whatever the pool does: the    *)
(* statuses _accept, _drain_message and _finish (worker/ai_bridge/jobs.py) *)
(* give it, which a caller reads with GET /v1/jobs/{id}, and the order in  *)
(* which they may follow one another.  A failed job is told apart by its   *)
(* error code.  Several jobs may move in one step, because one pass of the *)
(* coordinator, drain() and close() end many jobs under one hold of the    *)
(* lock.                                                                   *)
(***************************************************************************)
CONSTANT Jobs

VARIABLE status

Outcomes == {"succeeded", "task_failed", "worker_crashed", "worker_start_failed",
             "service_restarted", "timed_out", "cancelled"}

Statuses == {"new", "queued", "running", "expired"} \cup Outcomes

Unfinished == {"queued", "running"}

(* A queued job has run nowhere, so it cannot end by a reply; a running    *)
(* job belongs to a child, so neither a failed start nor a drain ends it.  *)
Moves ==
  {<<"new", "queued">>, <<"queued", "running">>}
    \cup {"queued"} \X (Outcomes \ {"succeeded", "task_failed"})
    \cup {"running"} \X (Outcomes \ {"worker_start_failed", "service_restarted"})
    \cup Outcomes \X {"expired"}

Init == status = [j \in Jobs |-> "new"]

Next ==
  /\ status' \in [Jobs -> Statuses]
  /\ \A j \in Jobs : status'[j] = status[j] \/ <<status[j], status'[j]>> \in Moves

(* Ending one job, whatever happens to the others meanwhile.               *)
End(j) == Next /\ status[j] \in Unfinished /\ status'[j] \in Outcomes

Safety == Init /\ [][Next]_status

Spec == Safety /\ \A j \in Jobs : WF_status(End(j))
=============================================================================
