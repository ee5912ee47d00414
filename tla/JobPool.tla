------------------------------- MODULE JobPool -------------------------------
(***************************************************************************)
(* worker/ai_bridge/jobs.py: the pool of child processes that runs jobs.   *)
(*                                                                         *)
(* Four kinds of actor interleave.  HTTP threads call submit, get and      *)
(* cancel; one coordinator thread (_coordinate) reads the children's       *)
(* pipes, ends overdue jobs, sends queued jobs to idle children, starts    *)
(* children and reaps retired ones; the thread that stops the service      *)
(* calls drain and close; and each child (_serve) loads its models, runs   *)
(* the jobs it is sent and may die at any point.  One lock guards the      *)
(* store.  A step of this module is one hold of the lock, except where the *)
(* children's progress during the hold matters (reading their pipes), and  *)
(* one system call outside it (send, process start, reap).                 *)
(*                                                                         *)
(* Left to other modules: admission, idempotency keys, retention time,     *)
(* the SQLite table, and which owner's job is dispatched first.  Here a    *)
(* finished job may expire whenever the code calls _expire.                *)
(***************************************************************************)
EXTENDS Naturals, Sequences, FiniteSets

CONSTANTS
  Jobs,         \* job ids; a uuid is never used twice, so neither is one of these
  Workers,      \* names for children; a name is free again once its child is reaped
  NoJob, NoWorker,
  Concurrency,  \* Settings.concurrency
  MaxJobs       \* Settings.max_jobs

ASSUME SentinelAssumption == NoJob \notin Jobs /\ NoWorker \notin Workers
ASSUME LimitAssumption == Concurrency \in Nat \ {0} /\ MaxJobs \in Nat \ {0}
ASSUME WorkersAssumption == IsFiniteSet(Workers)

VARIABLES
  \* The job table (_jobs), and for the properties how often each job began to run in a child.
  state,      \* a job's status, and its error code once it has failed
  retried,    \* jobs with _retried set
  ended,      \* how often _finish counted each job in the jobs metric
  ran,        \* how often a child began to execute each job
  \* What the parent knows about its children (_Worker, _active, _pool, _retiring).
  pool, retiring,
  active,     \* _active: job -> the child it was sent to
  job_id,     \* _Worker.job_id
  ready,      \* children with _Worker.ready set
  sending,    \* the job a send outside the lock carries to this child: NoJob when _Worker.sending is false
  served,     \* _Worker.served
  closed,     \* children whose pipe the parent has closed
  asked,      \* how the parent told the child to go: "no", "stop" (None sent), "term" or "kill" (signals)
  backoff,    \* whether _backoff_until lies ahead
  \* The children, and the pipe to and from each.
  child,      \* "none" (no such process), "loading", "up" or "gone" (exited, not yet reaped)
  task,       \* the job it is executing
  inbox,      \* the job that waits in its pipe
  outbox,     \* its messages the parent has not read
  \* Where the threads are.
  pc, cur,    \* the coordinator, and the child it is dealing with
  polling,    \* the children the holder of the lock has yet to poll
  reapable,   \* the coordinator's copy of _retiring
  drain,      \* drain(): "no", "busy" (it holds the lock) or "done"; _draining is set unless "no"
  stopping,   \* _stopping
  closing     \* close(): "open", "join", "lock", "reap", "final" or "closed"

jobVars   == <<state, retried, ended, ran>>
poolVars  == <<pool, retiring, active, job_id, ready, sending, served, closed, asked, backoff>>
retireVars == <<pool, retiring, ready, served, closed, asked, outbox, backoff>>
childVars == <<child, task, inbox, outbox>>
pcVars    == <<pc, cur, polling, reapable, drain, stopping, closing>>
vars      == <<jobVars, poolVars, childVars, pcVars>>

Unfinished == {"queued", "running"}
Outcomes   == {"succeeded", "task_failed", "worker_crashed", "worker_start_failed",
               "service_restarted", "timed_out", "cancelled"}
States     == {"new", "queued", "running", "expired"} \cup Outcomes
Kinds      == {"ready", "started", "result", "error"}
Messages   == [job : Jobs \cup {NoJob}, kind : Kinds]
LockedPcs  == {"scan", "poll", "check", "repoll", "dispatch"}
Pcs        == LockedPcs \cup {"wait", "send", "sent", "unsent", "start", "join", "discard", "reap", "done"}

(* One type invariant for the module.                                      *)
TypeOK ==
  /\ state \in [Jobs -> States]
  /\ retried \subseteq Jobs
  /\ ended \in [Jobs -> Nat] /\ ran \in [Jobs -> Nat]
  /\ pool \subseteq Workers /\ retiring \subseteq Workers
  /\ active \in [Jobs -> Workers \cup {NoWorker}]
  /\ job_id \in [Workers -> Jobs \cup {NoJob}]
  /\ ready \subseteq Workers /\ closed \subseteq Workers
  /\ sending \in [Workers -> Jobs \cup {NoJob}]
  /\ served \in [Workers -> Nat]
  /\ asked \in [Workers -> {"no", "stop", "term", "kill"}]
  /\ backoff \in BOOLEAN
  /\ child \in [Workers -> {"none", "loading", "up", "gone"}]
  /\ task \in [Workers -> Jobs \cup {NoJob}]
  /\ inbox \in [Workers -> Jobs \cup {NoJob}]
  /\ outbox \in [Workers -> Seq(Messages)]
  /\ pc \in Pcs /\ cur \in Workers \cup {NoWorker}
  /\ pc \in {"poll", "check", "repoll", "sent", "unsent", "discard"} => cur \in Workers
  /\ polling \subseteq Workers /\ reapable \subseteq Workers
  /\ drain \in {"no", "busy", "done"} /\ stopping \in BOOLEAN
  /\ closing \in {"open", "join", "lock", "reap", "final", "closed"}
-----------------------------------------------------------------------------
(* The lock is held through several steps only by the coordinator reading  *)
(* pipes and by drain(); every other holder takes and releases it in one.  *)
LockFree == pc \notin LockedPcs /\ drain # "busy"

Draining  == drain # "no"
Alive(w)  == child[w] \in {"loading", "up"}
Over      == {j \in Jobs : state[j] \in Outcomes}
Live      == {j \in Jobs : state[j] \in Unfinished}
Waiting   == {j \in Jobs : state[j] = "queued" /\ active[j] = NoWorker}
Idle      == {w \in pool : w \in ready /\ job_id[w] = NoJob}
Free      == {w \in Workers : child[w] = "none"}
Sends     == {w \in Workers : sending[w] # NoJob}

Full == Cardinality(pool) >= Concurrency

(* Mutant of Queued: drain() overlooks the jobs already sent to a child.   *)
QueuedUnsent == Waiting
Queued == {j \in Jobs : state[j] = "queued"}

(* _finish for every job of J, with code[j] as its outcome, after _expire  *)
(* has dropped the jobs of X.                                              *)
Settle(J, code, X) ==
  /\ state' = [j \in Jobs |-> IF j \in J THEN code[j] ELSE IF j \in X THEN "expired" ELSE state[j]]
  /\ ended' = [j \in Jobs |-> IF j \in J THEN ended[j] + 1 ELSE ended[j]]

Finish(J, code) == Settle(J, code, {})
All(J, outcome) == [j \in J |-> outcome]

(* Mutant of HangUp: _retire closes the pipe under a send.                 *)
HangUpAll(W, owned) == closed' = closed \cup W
HangUp(W, owned) == closed' = closed \cup (W \ owned)

(* The effect of _retire on the children of W that are not retired yet.    *)
(* An idle child (of stops) is sent None instead of a signal, but not      *)
(* while a send owns its pipe (owned): the sender then closes it.  What a  *)
(* retired child wrote is never read, and neither are its ready flag and   *)
(* its count of jobs, which are dropped here.                              *)
Retire(W, stops, owned) ==
  LET fresh == W \ retiring IN
  /\ pool' = pool \ W
  /\ retiring' = retiring \cup W
  /\ asked' = [w \in Workers |-> IF w \notin fresh THEN asked[w]
                                 ELSE IF w \in stops \ owned THEN "stop" ELSE "term"]
  /\ HangUp(fresh, owned)
  /\ outbox' = [w \in Workers |-> IF w \in fresh THEN <<>> ELSE outbox[w]]
  /\ backoff' = (backoff \/ \E w \in fresh : w \notin ready)
  /\ ready' = ready \ fresh
  /\ served' = [w \in Workers |-> IF w \in fresh THEN 0 ELSE served[w]]

(* The jobs of J and the children of W no longer belong together.          *)
Detach(J, W) ==
  /\ active' = [j \in Jobs |-> IF j \in J THEN NoWorker ELSE active[j]]
  /\ job_id' = [w \in Workers |-> IF w \in W THEN NoJob ELSE job_id[w]]

(* _abort: end the jobs of J before their children have; each such child   *)
(* may be halfway through the input, so it is retired.                     *)
Abort(J, code, X) ==
  LET W == {active[j] : j \in J} \ {NoWorker} IN
  /\ Settle(J, code, X)
  /\ Detach(J, W)
  /\ Retire(W, {}, Sends)

(* The jobs _start_failed tells now: nobody is up to take them.  Mutants:  *)
(* it looks at no status; it takes no notice of the children still up.     *)
StrandedOver(W) == IF W = {} /\ ~Draining THEN {j \in Jobs : active[j] = NoWorker} ELSE {}
StrandedAll(W) == IF Draining THEN {} ELSE Queued
Stranded(W) == IF W = {} /\ ~Draining THEN Waiting ELSE {}

(* _retire of a child that is still in service, with the job it holds.  A  *)
(* job the child never started goes back to the queue, once.               *)
Lose(w, died, owned) ==
  LET held   == {j \in Jobs : j = job_id[w] /\ j \in Live}
      again  == {j \in held : state[j] = "queued" /\ j \notin retried}
      failed == IF died /\ w \notin ready THEN Stranded(pool \ {w}) ELSE {}
  IN
  IF w \in retiring
  THEN UNCHANGED <<state, ended, retried, active, job_id, retireVars>>
  ELSE
  /\ Finish((held \ again) \cup failed,
            [j \in Jobs |-> IF j \in failed THEN "worker_start_failed" ELSE "worker_crashed"])
  /\ retried' = retried \cup again
  /\ Detach(held, {w})
  /\ Retire({w}, {}, owned)

(* A child's process and every trace of it is let go; its name is free.    *)
Forget(G) ==
  /\ child' = [w \in Workers |-> IF w \in G THEN "none" ELSE child[w]]
  /\ task' = [w \in Workers |-> IF w \in G THEN NoJob ELSE task[w]]
  /\ inbox' = [w \in Workers |-> IF w \in G THEN NoJob ELSE inbox[w]]
  /\ outbox' = [w \in Workers |-> IF w \in G THEN <<>> ELSE outbox[w]]
  /\ closed' = closed \ G
-----------------------------------------------------------------------------
(* The constructor has tried to fill the pool before the coordinator runs: *)
(* either it is full, or a start failed and the backoff has begun.         *)
Init ==
  /\ state = [j \in Jobs |-> "new"]
  /\ retried = {}
  /\ ended = [j \in Jobs |-> 0] /\ ran = [j \in Jobs |-> 0]
  /\ pool \in {W \in SUBSET Workers : Cardinality(W) <= Concurrency}
  /\ retiring = {}
  /\ active = [j \in Jobs |-> NoWorker]
  /\ job_id = [w \in Workers |-> NoJob]
  /\ ready = {} /\ closed = {}
  /\ sending = [w \in Workers |-> NoJob]
  /\ served = [w \in Workers |-> 0]
  /\ asked = [w \in Workers |-> "no"]
  /\ backoff \in BOOLEAN /\ (backoff <=> Cardinality(pool) < Concurrency)
  /\ child = [w \in Workers |-> IF w \in pool THEN "loading" ELSE "none"]
  /\ task = [w \in Workers |-> NoJob]
  /\ inbox = [w \in Workers |-> NoJob]
  /\ outbox = [w \in Workers |-> <<>>]
  /\ pc = "wait" /\ cur = NoWorker /\ polling = {} /\ reapable = {}
  /\ drain = "no" /\ stopping = FALSE /\ closing = "open"
-----------------------------------------------------------------------------
(* HTTP threads.  Each handler runs _expire first.                         *)
Submit(j, X) ==
  /\ LockFree /\ ~Draining /\ ~stopping
  /\ state[j] = "new"
  /\ state' = [k \in Jobs |-> IF k = j THEN "queued" ELSE IF k \in X THEN "expired" ELSE state[k]]
  /\ UNCHANGED <<retried, ended, ran, poolVars, childVars, pcVars>>

Get(X) ==
  /\ LockFree
  /\ Settle({}, <<>>, X)
  /\ UNCHANGED <<retried, ran, poolVars, childVars, pcVars>>

(* Mutants of Cancel: a job that is over is cancelled; the child is kept.  *)
CancelOver(j, X) ==
  /\ LockFree
  /\ j \in Live \cup Over
  /\ Abort({j}, All({j}, "cancelled"), X \ {j})
  /\ UNCHANGED <<retried, ran, sending, child, task, inbox, pcVars>>
CancelKeepingChild(j, X) ==
  /\ LockFree
  /\ j \in Live
  /\ Settle({j}, All({j}, "cancelled"), X)
  /\ Detach({j}, {active[j]})
  /\ UNCHANGED <<retried, ran, retireVars, sending, child, task, inbox, pcVars>>
Cancel(j, X) ==
  /\ LockFree
  /\ j \in Live
  /\ Abort({j}, All({j}, "cancelled"), X)
  /\ UNCHANGED <<retried, ran, sending, child, task, inbox, pcVars>>

(* Time passes: the pause after a failed start ends.                       *)
BackoffEnds ==
  /\ backoff
  /\ backoff' = FALSE
  /\ UNCHANGED <<jobVars, pool, retiring, active, job_id, ready, sending, served, closed, asked,
                 childVars, pcVars>>
-----------------------------------------------------------------------------
(* One message of child w, applied by whoever holds the lock               *)
(* (_drain_message).  A message about a job the child no longer runs for   *)
(* the store has nowhere to go.                                            *)
Applies(w, m) == m.job = job_id[w] /\ m.job \in Live

Ends(w, m) == m.kind \in {"result", "error"} /\ Applies(w, m)

Receive(w) ==
  LET m == Head(outbox[w]) IN
  /\ outbox[w] # <<>>
  /\ IF Ends(w, m)
     THEN /\ Finish({m.job}, All({m.job}, IF m.kind = "result" THEN "succeeded" ELSE "task_failed"))
          /\ Detach({m.job}, {w})
     ELSE /\ state' = IF m.kind = "started" /\ Applies(w, m)
                      THEN [state EXCEPT ![m.job] = "running"] ELSE state
          /\ UNCHANGED <<ended, active, job_id>>
  /\ IF Ends(w, m) /\ served[w] >= MaxJobs
     THEN Retire({w}, {w}, Sends)
     ELSE /\ outbox' = [outbox EXCEPT ![w] = Tail(@)]
          /\ ready' = IF m.kind = "ready" THEN ready \cup {w} ELSE ready
          /\ UNCHANGED <<pool, retiring, served, closed, asked, backoff>>
  /\ UNCHANGED <<retried, ran, sending, child, task, inbox>>

(* Mutants of AtEOF: what a dead child still had in its pipe is not read;  *)
(* the parent keeps its copy of the child's end, so there is no end of file. *)
GoneAtEOF(w) == child[w] = "gone"
NeverEOF(w) == FALSE
AtEOF(w) == outbox[w] = <<>> /\ child[w] = "gone"
-----------------------------------------------------------------------------
(* The coordinator: one pass of _coordinate's loop.                        *)
CoordBegin(X) ==
  /\ pc = "wait" /\ ~stopping /\ LockFree
  /\ Settle({}, <<>>, X)
  /\ pc' = "scan" /\ polling' = pool
  /\ UNCHANGED <<retried, ran, poolVars, childVars, cur, reapable, drain, stopping, closing>>

CoordExit ==
  /\ pc = "wait" /\ stopping
  /\ pc' = "done"
  /\ UNCHANGED <<jobVars, poolVars, childVars, cur, polling, reapable, drain, stopping, closing>>

PickWorker(w) ==
  /\ pc = "scan" /\ w \in polling
  /\ pc' = "poll" /\ cur' = w /\ polling' = polling \ {w}
  /\ UNCHANGED <<jobVars, poolVars, childVars, reapable, drain, stopping, closing>>

(* _drain stops at the message that ended the child's job.                 *)
CoordReceive ==
  /\ pc \in {"poll", "repoll"}
  /\ Receive(cur)
  /\ pc' = IF pc = "poll" /\ Ends(cur, Head(outbox[cur])) THEN "check" ELSE pc
  /\ UNCHANGED <<cur, polling, reapable, drain, stopping, closing>>

PollEmpty ==
  /\ pc = "poll" /\ outbox[cur] = <<>> /\ child[cur] # "gone"
  /\ pc' = "check"
  /\ UNCHANGED <<jobVars, poolVars, childVars, cur, polling, reapable, drain, stopping, closing>>

(* End of file, at the first poll or after the last message of a child     *)
(* seen to be dead: the child is retired as died.                          *)
CoordEOF ==
  /\ pc \in {"poll", "repoll"} /\ AtEOF(cur)
  /\ Lose(cur, TRUE, Sends)
  /\ pc' = "scan" /\ cur' = NoWorker
  /\ UNCHANGED <<ran, sending, child, task, inbox,
                 polling, reapable, drain, stopping, closing>>

(* is_alive() after the poll: a child that died since is polled again, for *)
(* a message it sent just before it exited.                                *)
CheckDead ==
  /\ pc = "check" /\ cur \notin retiring /\ child[cur] = "gone"
  /\ pc' = "repoll"
  /\ UNCHANGED <<jobVars, poolVars, childVars, cur, polling, reapable, drain, stopping, closing>>

CheckAlive ==
  /\ pc = "check" /\ (cur \in retiring \/ child[cur] # "gone")
  /\ pc' = "scan" /\ cur' = NoWorker
  /\ UNCHANGED <<jobVars, poolVars, childVars, polling, reapable, drain, stopping, closing>>

(* READY_SECONDS have passed and the child has not said it is ready.       *)
CheckSlow ==
  /\ pc = "check" /\ (cur \in retiring \/ child[cur] # "gone")
  /\ cur \notin ready
  /\ Lose(cur, FALSE, Sends)
  /\ pc' = "scan" /\ cur' = NoWorker
  /\ UNCHANGED <<ran, sending, child, task, inbox,
                 polling, reapable, drain, stopping, closing>>

(* Mutant of Due: only queued jobs time out.                               *)
DueQueued(late) == {j \in late : state[j] = "queued"}
Due(late) == {j \in late : j \in Live}

(* Every unfinished job in turn: the ones past their deadline (late) time  *)
(* out, and while draining the queued ones end.                            *)
JobsStep(late) ==
  LET left == IF Draining THEN Queued ELSE {} IN
  /\ pc = "scan" /\ polling = {}
  /\ Abort(Due(late) \cup left,
           [j \in Jobs |-> IF j \in late THEN "timed_out" ELSE "service_restarted"], {})
  /\ pc' = "dispatch"
  /\ UNCHANGED <<retried, ran, sending, child, task, inbox,
                 cur, polling, reapable, drain, stopping, closing>>

(* _dispatch and _attach, for one of the waiting jobs.                     *)
Attach(j, w) ==
  /\ pc = "dispatch"
  /\ j \in Waiting /\ w \in Idle
  /\ job_id' = [job_id EXCEPT ![w] = j]
  /\ served' = [served EXCEPT ![w] = @ + 1]
  /\ sending' = [sending EXCEPT ![w] = j]
  /\ active' = [active EXCEPT ![j] = w]
  /\ UNCHANGED <<jobVars, pool, retiring, ready, closed, asked, backoff, childVars, pcVars>>

DispatchDone ==
  /\ pc = "dispatch" /\ (Waiting = {} \/ Idle = {})
  /\ pc' = "send" /\ reapable' = retiring
  /\ UNCHANGED <<jobVars, poolVars, childVars, cur, polling, drain, stopping, closing>>

(* _send, without the lock: the message reaches the child's pipe, or fails *)
(* because the child is gone.                                              *)
SendMessage(w) ==
  /\ pc = "send" /\ w \in Sends
  /\ IF child[w] = "gone"
     THEN pc' = "unsent" /\ UNCHANGED inbox
     ELSE pc' = "sent" /\ inbox' = [inbox EXCEPT ![w] = sending[w]]
  /\ cur' = w
  /\ UNCHANGED <<jobVars, poolVars, child, task, outbox, polling, reapable, drain, stopping, closing>>

(* _send's second half, under the lock.  A child retired meanwhile left    *)
(* its pipe for this step to close.                                        *)
SendDone ==
  /\ pc \in {"sent", "unsent"} /\ LockFree
  /\ sending' = [sending EXCEPT ![cur] = NoJob]
  /\ IF cur \in retiring
     THEN /\ closed' = closed \cup {cur}
          /\ UNCHANGED <<state, ended, retried, active, job_id, pool, retiring, ready, served, asked, outbox, backoff>>
     ELSE IF pc = "unsent"
     THEN Lose(cur, FALSE, Sends \ {cur})
     ELSE UNCHANGED <<state, ended, retried, active, job_id, retireVars>>
  /\ pc' = "send" /\ cur' = NoWorker
  /\ UNCHANGED <<ran, child, task, inbox, polling, reapable, drain, stopping, closing>>

(* _replenish decides under the lock whether to start a child,             *)
Replenish ==
  /\ pc = "send" /\ Sends = {} /\ LockFree
  /\ pc' = IF stopping \/ Draining \/ Full \/ backoff
           THEN "reap" ELSE "start"
  /\ UNCHANGED <<jobVars, poolVars, childVars, cur, polling, reapable, drain, stopping, closing>>

(* starts it without the lock, which the system may refuse,                *)
StartWorker(w) ==
  /\ pc = "start" /\ w \in Free
  /\ child' = [child EXCEPT ![w] = "loading"]
  /\ pc' = "join" /\ cur' = w
  /\ UNCHANGED <<jobVars, poolVars, task, inbox, outbox, polling, reapable, drain, stopping, closing>>

StartRefused ==
  /\ pc = "start"
  /\ pc' = "join"
  /\ UNCHANGED <<jobVars, poolVars, childVars, cur, polling, reapable, drain, stopping, closing>>

(* and adds it under the lock.  A failed start ends the jobs nobody is up  *)
(* to take (_start_failed).                                                *)
(* Mutants of JoinPool: it does not look at the event again; it forgets    *)
(* which child to stop.                                                    *)
JoinAnyway ==
  /\ pc = "join" /\ cur # NoWorker /\ LockFree
  /\ pc' = "send" /\ pool' = pool \cup {cur} /\ cur' = NoWorker
  /\ UNCHANGED <<jobVars, retiring, active, job_id, ready, sending, served, closed, asked, backoff,
                 childVars, polling, reapable, drain, stopping, closing>>
JoinForgetful ==
  /\ pc = "join" /\ cur # NoWorker /\ LockFree
  /\ IF stopping
     THEN pc' = "discard" /\ UNCHANGED pool
     ELSE pc' = "send" /\ pool' = pool \cup {cur}
  /\ cur' = NoWorker
  /\ UNCHANGED <<jobVars, retiring, active, job_id, ready, sending, served, closed, asked, backoff,
                 childVars, polling, reapable, drain, stopping, closing>>
JoinPool ==
  /\ pc = "join" /\ cur # NoWorker /\ LockFree
  /\ IF stopping
     THEN pc' = "discard" /\ UNCHANGED <<pool, cur>>
     ELSE pc' = "send" /\ pool' = pool \cup {cur} /\ cur' = NoWorker
  /\ UNCHANGED <<jobVars, retiring, active, job_id, ready, sending, served, closed, asked, backoff,
                 childVars, polling, reapable, drain, stopping, closing>>

StartFailed ==
  /\ pc = "join" /\ cur = NoWorker /\ LockFree
  /\ Finish(Stranded(pool), All(Stranded(pool), "worker_start_failed"))
  /\ backoff' = TRUE
  /\ pc' = "reap"
  /\ UNCHANGED <<retried, ran, pool, retiring, active, job_id, ready, sending, served, closed,
                 asked, childVars, cur, polling, reapable, drain, stopping, closing>>

(* _discard: a child that never joined the pool is stopped and waited for. *)
Discard ==
  /\ pc = "discard"
  /\ Forget({cur})
  /\ pc' = "reap" /\ cur' = NoWorker
  /\ UNCHANGED <<jobVars, pool, retiring, active, job_id, ready, sending, served, asked, backoff,
                 polling, reapable, drain, stopping, closing>>

(* Mutant of PastGrace: nobody is ever killed.                             *)
NeverPastGrace(K) == {}
PastGrace(K) == {w \in K : child[w] # "gone"}

(* _reap: children that have exited are let go; of the others, those past  *)
(* the grace period (K) are killed.                                        *)
Reap(K) ==
  LET gone == {w \in reapable : child[w] = "gone"} IN
  /\ pc = "reap" /\ ~stopping /\ LockFree
  /\ Forget(gone)
  /\ retiring' = retiring \ gone
  /\ asked' = [w \in Workers |-> IF w \in gone THEN "no" ELSE IF w \in PastGrace(K) THEN "kill" ELSE asked[w]]
  /\ pc' = "wait" /\ reapable' = {}
  /\ UNCHANGED <<jobVars, pool, active, job_id, ready, sending, served, backoff, cur, polling, drain, stopping, closing>>

(* close() reaps from here on.                                             *)
LeaveReaping ==
  /\ pc = "reap" /\ stopping
  /\ pc' = "done" /\ reapable' = {}
  /\ UNCHANGED <<jobVars, poolVars, childVars, cur, polling, drain, stopping, closing>>
-----------------------------------------------------------------------------
(* drain(): no new job from here on.  It reads every pipe first, because a *)
(* start the parent has not read yet counts as a start, and then ends the  *)
(* jobs that are still queued.  Mutant of DrainBegin: it reads no pipe.    *)
DrainBeginBlind ==
  /\ drain = "no" /\ LockFree
  /\ drain' = "busy" /\ polling' = {}
  /\ UNCHANGED <<jobVars, poolVars, childVars, pc, cur, reapable, stopping, closing>>
DrainBegin ==
  /\ drain = "no" /\ LockFree
  /\ drain' = "busy" /\ polling' = pool
  /\ UNCHANGED <<jobVars, poolVars, childVars, pc, cur, reapable, stopping, closing>>

DrainReceive(w) ==
  /\ drain = "busy" /\ w \in polling
  /\ Receive(w)
  /\ polling' = IF Ends(w, Head(outbox[w])) THEN polling \ {w} ELSE polling
  /\ UNCHANGED <<pc, cur, reapable, drain, stopping, closing>>

DrainEmpty(w) ==
  /\ drain = "busy" /\ w \in polling
  /\ outbox[w] = <<>> /\ child[w] # "gone"
  /\ polling' = polling \ {w}
  /\ UNCHANGED <<jobVars, poolVars, childVars, pc, cur, reapable, drain, stopping, closing>>

DrainEOF(w) ==
  /\ drain = "busy" /\ w \in polling /\ AtEOF(w)
  /\ Lose(w, TRUE, Sends)
  /\ polling' = polling \ {w}
  /\ UNCHANGED <<ran, sending, child, task, inbox,
                 pc, cur, reapable, drain, stopping, closing>>

DrainFinish ==
  /\ drain = "busy" /\ polling = {}
  /\ Abort(Queued, All(Queued, "service_restarted"), {})
  /\ drain' = "done"
  /\ UNCHANGED <<retried, ran, sending, child, task, inbox,
                 pc, cur, polling, reapable, stopping, closing>>
-----------------------------------------------------------------------------
(* close().  The event is set without the lock.                            *)
CloseBegin ==
  /\ closing = "open"
  /\ stopping' = TRUE /\ closing' = "join"
  /\ UNCHANGED <<jobVars, poolVars, childVars, pc, cur, polling, reapable, drain>>

(* The coordinator has left its loop, or the first join has timed out: it  *)
(* is blocked in a system call that may take longer than two seconds.      *)
Blocked == (pc = "send" /\ Sends # {}) \/ pc \in {"start", "discard"}

CloseJoined ==
  /\ closing = "join" /\ (pc = "done" \/ Blocked)
  /\ closing' = "lock"
  /\ UNCHANGED <<jobVars, poolVars, childVars, pc, cur, polling, reapable, drain, stopping>>

CloseJobs ==
  LET held == {active[j] : j \in Live} \ {NoWorker} IN
  /\ closing = "lock" /\ LockFree
  /\ Finish(Live, All(Live, "cancelled"))
  /\ Detach(Live, held)
  /\ Retire(pool \cup held, pool \ held, Sends)
  /\ closing' = "reap"
  /\ UNCHANGED <<retried, ran, sending, child, task, inbox,
                 pc, cur, polling, reapable, drain, stopping>>

(* Every retired child is waited for and killed if it does not go.         *)
CloseReap ==
  /\ closing = "reap"
  /\ child' = [w \in Workers |-> IF w \in retiring THEN "gone" ELSE child[w]]
  /\ task' = [w \in Workers |-> IF w \in retiring THEN NoJob ELSE task[w]]
  /\ inbox' = [w \in Workers |-> IF w \in retiring THEN NoJob ELSE inbox[w]]
  /\ closing' = "final"
  /\ UNCHANGED <<jobVars, poolVars, outbox, pc, cur, polling, reapable, drain, stopping>>

CloseFinal ==
  /\ closing = "final" /\ pc = "done" /\ LockFree
  /\ Forget(retiring)
  /\ retiring' = {}
  /\ asked' = [w \in Workers |-> IF w \in retiring THEN "no" ELSE asked[w]]
  /\ closing' = "closed"
  /\ UNCHANGED <<jobVars, pool, active, job_id, ready, sending, served, backoff, pc, cur, polling, reapable, drain, stopping>>
-----------------------------------------------------------------------------
(* A child (_serve).  Writing to a pipe the parent has closed fails, and   *)
(* the child then leaves its loop: that is ChildExit.  The parent's copy   *)
(* of what it wrote is kept only while somebody will read it.              *)
Say(w, m) == outbox' = IF w \in retiring THEN outbox ELSE [outbox EXCEPT ![w] = Append(@, m)]

ChildReady(w) ==
  /\ child[w] = "loading" /\ w \notin closed
  /\ child' = [child EXCEPT ![w] = "up"]
  /\ Say(w, [job |-> NoJob, kind |-> "ready"])
  /\ UNCHANGED <<jobVars, poolVars, task, inbox, pcVars>>

ChildStart(w) ==
  /\ child[w] = "up" /\ task[w] = NoJob /\ inbox[w] # NoJob /\ w \notin closed
  /\ task' = [task EXCEPT ![w] = inbox[w]]
  /\ inbox' = [inbox EXCEPT ![w] = NoJob]
  /\ ran' = [ran EXCEPT ![inbox[w]] = @ + 1]
  /\ Say(w, [job |-> inbox[w], kind |-> "started"])
  /\ UNCHANGED <<state, retried, ended, poolVars, child, pcVars>>

ChildReply(w, kind) ==
  /\ child[w] = "up" /\ task[w] # NoJob /\ w \notin closed
  /\ kind \in {"result", "error"}
  /\ task' = [task EXCEPT ![w] = NoJob]
  /\ Say(w, [job |-> task[w], kind |-> kind])
  /\ UNCHANGED <<jobVars, poolVars, child, inbox, pcVars>>

(* It crashes, is out of memory, obeys a signal or the None message, or    *)
(* finds its pipe closed.                                                  *)
ChildExit(w) ==
  /\ Alive(w)
  /\ child' = [child EXCEPT ![w] = "gone"]
  /\ task' = [task EXCEPT ![w] = NoJob]
  /\ inbox' = [inbox EXCEPT ![w] = NoJob]
  /\ UNCHANGED <<jobVars, poolVars, outbox, pcVars>>
-----------------------------------------------------------------------------
Coordinate ==
  \/ \E X \in SUBSET Over : CoordBegin(X)
  \/ CoordExit \/ CoordReceive \/ PollEmpty \/ CoordEOF
  \/ CheckDead \/ CheckAlive \/ CheckSlow \/ DispatchDone
  \/ \E late \in SUBSET Live : JobsStep(late)
  \/ \E w \in Workers : PickWorker(w) \/ SendMessage(w) \/ StartWorker(w)
  \/ \E j \in Jobs, w \in Workers : Attach(j, w)
  \/ SendDone \/ Replenish \/ StartRefused \/ JoinPool \/ StartFailed \/ Discard
  \/ \E K \in SUBSET reapable : Reap(K)
  \/ LeaveReaping

DrainSteps ==
  \/ \E w \in Workers : DrainReceive(w) \/ DrainEmpty(w) \/ DrainEOF(w)
  \/ DrainFinish

CloseSteps == CloseJoined \/ CloseJobs \/ CloseReap \/ CloseFinal

Requests ==
  \E X \in SUBSET Over :
    \/ \E j \in Jobs : Submit(j, X) \/ Cancel(j, X)
    \/ Get(X)

Children ==
  \E w \in Workers :
    \/ ChildReady(w) \/ ChildStart(w) \/ ChildExit(w)
    \/ \E kind \in Kinds : ChildReply(w, kind)

Next ==
  \/ Requests \/ Coordinate \/ Children
  \/ DrainBegin \/ DrainSteps
  \/ CloseBegin \/ CloseSteps
  \/ BackoffEnds

Safety == Init /\ [][Next]_vars

(* The lock's holders and the coordinator keep running; deadlines and      *)
(* grace periods end, so a pass that finds every unfinished job late, or   *)
(* every retired child past its grace, keeps coming; SIGKILL is obeyed.    *)
(* Nothing is assumed of a child: it may load, or run a job, for ever.     *)
Fairness ==
  /\ WF_vars(Coordinate) /\ WF_vars(DrainSteps) /\ WF_vars(CloseSteps)
  /\ SF_vars(JobsStep(Live))
  /\ SF_vars(Reap(reapable))
  /\ \A w \in Workers : WF_vars(asked[w] = "kill" /\ ChildExit(w))

Spec == Safety /\ Fairness
-----------------------------------------------------------------------------
(* No job is executed twice: _retire hands a job to another child only     *)
(* when the first cannot have begun it, which is why _coordinate polls a   *)
(* dead child's pipe once more before it retires it, and _drain reads      *)
(* before end of file.                                                     *)
AtMostOnce == \A j \in Jobs : ran[j] <= 1

(* Every job that is over was counted by _finish exactly once, and no      *)
(* other, whichever of a reply, a crash, a deadline, cancel, drain, close  *)
(* or a failed start came first: the jobs metric adds up.                  *)
CountedOnce ==
  \A j \in Jobs : ended[j] = IF state[j] \in Outcomes \cup {"expired"} THEN 1 ELSE 0

(* _active and _Worker.job_id name each other, only a ready child in the   *)
(* pool holds a job, only an unfinished job is held, and a running job     *)
(* always is: no job runs that a crash could not end.                      *)
Attached ==
  /\ \A j \in Jobs, w \in Workers : active[j] = w <=> job_id[w] = j
  /\ \A w \in Workers : job_id[w] # NoJob => w \in pool \cap ready /\ job_id[w] \in Live
  /\ \A j \in Jobs : state[j] = "running" => active[j] # NoWorker

(* A child in service executes, holds in its pipe and reports on nothing   *)
(* but the job it is attached to; work on a job that is over goes on only  *)
(* in a retired child, which is terminated.                                *)
NoStrayWork ==
  \A w \in pool :
    /\ {task[w], inbox[w]} \subseteq {NoJob, job_id[w]}
    /\ \A i \in DOMAIN outbox[w] : outbox[w][i].job \in {NoJob, job_id[w]}

(* The pipe of a retired child is closed, by _retire or by the send that   *)
(* owned it, and no send is ever under way on a closed pipe; a child asked *)
(* to stop by message rather than terminated has nothing left to do.       *)
PipeOwnership ==
  /\ Sends \cap closed = {}
  /\ closed = retiring \ Sends
  /\ \A w \in Workers : asked[w] = "stop" => task[w] = NoJob /\ inbox[w] = NoJob /\ w \notin Sends

(* Once drain() has returned no job is queued, nor will one be: a child    *)
(* that dies later cannot put a job back, because it has started it.       *)
DrainedQueue == drain = "done" => \A j \in Jobs : state[j] # "queued"

(* From the moment close() has ended the jobs, none is left and none is    *)
(* added, the pool stays empty although a start may still be under way,    *)
(* and when close() returns every child is gone.                           *)
NothingOutlivesClose ==
  /\ closing \in {"reap", "final", "closed"} => Live = {} /\ pool = {}
  /\ closing = "closed" => \A w \in Workers : child[w] = "none"

(* A job reported as worker_start_failed, or waiting in the queue, has     *)
(* never run, and one that succeeded has: an error code that says "not     *)
(* run" can be trusted by a caller that resubmits.                         *)
HonestOutcome ==
  \A j \in Jobs :
    /\ state[j] = "worker_start_failed" \/ j \in Waiting => ran[j] = 0
    /\ state[j] \in {"running", "succeeded", "task_failed"} => ran[j] = 1

(* The pool never exceeds the concurrency limit, although a start is       *)
(* decided and added under different holds of the lock, and no child is    *)
(* sent more than max_jobs jobs.                                           *)
PoolBound ==
  /\ Cardinality(pool) <= Concurrency
  /\ \A w \in pool : served[w] <= MaxJobs

Lifecycle == INSTANCE JobLifecycle WITH status <- state

(* Every step moves each job as the protocol document allows.              *)
RefinesLifecycle == Lifecycle!Safety

(* Every accepted job ends, although a child may hang for ever.            *)
EveryJobEnds == Lifecycle!Spec

(* close() returns.                                                        *)
CloseReturns == stopping ~> closing = "closed"

(* A retired child is reaped, although it may ignore SIGTERM.              *)
RetiredGo == \A w \in Workers : w \in retiring ~> w \notin retiring
=============================================================================
