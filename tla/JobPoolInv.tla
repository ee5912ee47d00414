----------------------------- MODULE JobPoolInv -----------------------------
(***************************************************************************)
(* The inductive invariant behind JobPool's safety properties, part by     *)
(* part.  Each part is proved from itself and the parts before it.         *)
(***************************************************************************)
EXTENDS JobPool

(* A child that has been started and not yet been added to the pool.       *)
Joining == IF pc \in {"join", "discard"} THEN {cur} \ {NoWorker} ELSE {}

(* Who deals with which child: the coordinator's cur, its snapshots, and   *)
(* the hold of the lock, which only one thread has.                        *)
Control ==
  /\ ~(pc \in LockedPcs /\ drain = "busy")
  /\ pc \notin {"scan", "poll", "check", "repoll"} /\ drain # "busy" => polling = {}
  /\ pc \in {"wait", "scan", "dispatch", "send", "start", "reap", "done"} => cur = NoWorker
  /\ pc \notin {"dispatch", "send", "sent", "unsent"} => Sends = {}
  /\ pc \in {"sent", "unsent"} => sending[cur] # NoJob
  /\ pc = "unsent" => child[cur] = "gone"
  /\ pc \in {"wait", "done"} => reapable = {}

(* Every process is in the pool, retired or about to join, and in one of   *)
(* these only.                                                             *)
Membership ==
  /\ pool \cap retiring = {}
  /\ (pool \cup retiring) \cap Joining = {}
  /\ \A w \in Workers : child[w] = "none" <=> w \notin pool \cup retiring \cup Joining
  /\ ready \subseteq pool
  /\ polling \subseteq pool \cup retiring
  /\ pc \in {"poll", "check", "repoll"} => cur \in pool \cup retiring
  /\ reapable \subseteq retiring
  /\ \A w \in Workers : sending[w] # NoJob => w \in pool \cup retiring
  /\ \A w \in retiring : outbox[w] = <<>>

(* The send of w's message has not been made yet, or has failed.           *)
Undelivered(w) == sending[w] # NoJob /\ ~(pc = "sent" /\ cur = w)

Ready       == [job |-> NoJob, kind |-> "ready"]
Started(j)  == [job |-> j, kind |-> "started"]
Replies(j)  == {[job |-> j, kind |-> "result"], [job |-> j, kind |-> "error"]}

(* A child with no job attached says at most that it is ready.             *)
Unattached(w) ==
  /\ task[w] = NoJob /\ inbox[w] = NoJob /\ ~Undelivered(w)
  /\ w \in ready => outbox[w] = <<>> /\ child[w] # "loading"
  /\ w \notin ready =>
       /\ sending[w] = NoJob
       /\ \/ outbox[w] = <<>> /\ child[w] # "up"
          \/ outbox[w] = <<Ready>> /\ child[w] # "loading"

(* The progress of the job a child in service holds, as the pipe and the   *)
(* table show it.                                                          *)
NotBegun(w, j) ==
  /\ outbox[w] = <<>> /\ task[w] = NoJob /\ inbox[w] \in {NoJob, j}
  /\ state[j] = "queued" /\ ran[j] = 0
  /\ Undelivered(w) => inbox[w] = NoJob
Begun(w, j) ==
  /\ inbox[w] = NoJob /\ ~Undelivered(w) /\ ran[j] = 1
  /\ \/ outbox[w] = <<Started(j)>> /\ state[j] = "queued" /\ task[w] \in {NoJob, j}
     \/ outbox[w] = <<>> /\ state[j] = "running" /\ task[w] \in {NoJob, j}
     \/ (\E m \in Replies(j) : outbox[w] = <<Started(j), m>>) /\ state[j] = "queued" /\ task[w] = NoJob
     \/ (\E m \in Replies(j) : outbox[w] = <<m>>) /\ state[j] = "running" /\ task[w] = NoJob

Pipe(w) ==
  /\ child[w] \in {"none", "loading", "gone"} => task[w] = NoJob /\ inbox[w] = NoJob
  /\ child[w] = "none" => outbox[w] = <<>>
  /\ child[w] = "loading" => sending[w] = NoJob
  /\ w \in pool \cup Joining =>
       IF job_id[w] = NoJob THEN Unattached(w)
       ELSE /\ sending[w] \in {NoJob, job_id[w]}
            /\ child[w] # "loading"
            /\ NotBegun(w, job_id[w]) \/ Begun(w, job_id[w])

Pipes == \A w \in Workers : Pipe(w)

(* Where a job may still be begun: at most in one place, never after it    *)
(* has been begun, and while it waits in the queue nowhere, except in a    *)
(* message that will not reach its child any more.                         *)
Pending(w, j) == inbox[w] = j \/ (Undelivered(w) /\ sending[w] = j)

(* The ways a job that was once sent to a child can have ended.            *)
Ended == (Outcomes \cup {"expired"}) \ {"worker_start_failed"}

Beginnings ==
  /\ \A j \in Jobs :
       state[j] \in {"new", "worker_start_failed"} \/ j \in Waiting => ran[j] = 0
  /\ \A j \in Jobs, w \in Workers : Pending(w, j) =>
       /\ ran[j] = 0 /\ state[j] # "new"
       /\ \A v \in Workers : Pending(v, j) => v = w
  /\ \A w \in Workers : inbox[w] # NoJob =>
       /\ ~Undelivered(w)
       /\ job_id[w] = inbox[w] \/ state[inbox[w]] \in Ended
  /\ \A w \in Workers : Undelivered(w) =>
       job_id[w] = sending[w] \/ state[sending[w]] \in Ended \/ child[w] = "gone"
  /\ pc = "dispatch" => \A w \in Sends : job_id[w] = sending[w]

(* What each child is about, and how often each job has begun.             *)
Work == Pipes /\ Beginnings /\ AtMostOnce /\ HonestOutcome

(* What remains once close() has ended the jobs: from the event on no      *)
(* child joins the pool, and the last step finds the coordinator gone.     *)
Closing ==
  /\ closing # "open" => stopping
  /\ closing \in {"reap", "final", "closed"} => Live = {} /\ pool = {}
  /\ closing = "closed" => retiring = {} /\ pc = "done"

(* Only a retired child has been told to go.                               *)
Owned == PipeOwnership /\ \A w \in Workers : asked[w] # "no" => w \in retiring

(* A child that is free for a job has jobs left to serve, and a start      *)
(* under way has room in the pool.                                         *)
Bounded ==
  /\ PoolBound
  /\ \A w \in Workers : job_id[w] = NoJob => served[w] < MaxJobs
  /\ \A w \in Workers \ pool : served[w] = 0
  /\ pc \in {"start", "join"} => Cardinality(pool) < Concurrency

IInv == TypeOK /\ Attached /\ CountedOnce /\ Control /\ Membership /\ Work /\ Closing /\ DrainedQueue /\ Owned /\ Bounded
=============================================================================
