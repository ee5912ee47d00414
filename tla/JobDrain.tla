------------------------------ MODULE JobDrain ------------------------------
(***************************************************************************)
(* JobPool with a memory, for one property of drain(): which jobs a child  *)
(* had begun when drain() took the lock.  The store's own books do not say *)
(* so: a job whose "started" nobody has read yet is queued in them.        *)
(***************************************************************************)
EXTENDS JobPool

VARIABLE begun   \* a history variable: the jobs begun by then

Remember == begun' = IF drain = "no" /\ drain' = "busy" THEN {j \in Jobs : ran[j] > 0} ELSE begun

Marked == Init /\ begun = {} /\ [][Next /\ Remember]_<<vars, begun>>

(* drain() fails no job that a child had begun when it took the lock, also *)
(* where the start is still unread in a pipe; such a job ends meanwhile    *)
(* only by its child's reply or death: "A start the parent has not read    *)
(* yet counts as a start", and "running jobs go on".                       *)
DrainSparesBegun ==
  [][drain = "busy" =>
       \A j \in Jobs : state[j] = "running" \/ (j \in begun /\ state[j] = "queued") =>
         state'[j] \in {state[j], "running", "succeeded", "task_failed", "worker_crashed"}]_vars
=============================================================================
