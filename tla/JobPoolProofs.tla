--------------------------- MODULE JobPoolProofs ----------------------------
(***************************************************************************)
(* Proofs about JobPool, for any set of jobs and children and any limits:  *)
(* the books (types, counts, who holds which job), the work that goes      *)
(* through the pipes, then the remaining parts of the inductive invariant, *)
(* what a step can do to a job, and the theorems that follow once all of   *)
(* it is put together.                                                     *)
(***************************************************************************)
EXTENDS JobPoolInv, JobDrain, FiniteSetTheorems, TLAPS

(* What each operator the actions share leaves well typed.                 *)
LEMMA SettleType ==
  ASSUME TypeOK, NEW J \in SUBSET Jobs, NEW code, NEW X,
         \A j \in J : code[j] \in States, Settle(J, code, X)
  PROVE  state' \in [Jobs -> States] /\ ended' \in [Jobs -> Nat]
BY DEF TypeOK, Settle, States, Outcomes

LEMMA DetachType ==
  ASSUME TypeOK, NEW J, NEW W, Detach(J, W)
  PROVE  active' \in [Jobs -> Workers \cup {NoWorker}] /\ job_id' \in [Workers -> Jobs \cup {NoJob}]
BY DEF TypeOK, Detach

RetireTyped ==
  /\ pool \subseteq Workers /\ retiring \subseteq Workers
  /\ ready \subseteq Workers /\ closed \subseteq Workers
  /\ served \in [Workers -> Nat]
  /\ asked \in [Workers -> {"no", "stop", "term", "kill"}]
  /\ backoff \in BOOLEAN
  /\ outbox \in [Workers -> Seq(Messages)]

LEMMA RetireType ==
  ASSUME TypeOK, NEW W \in SUBSET Workers, NEW stops, NEW owned, Retire(W, stops, owned)
  PROVE  RetireTyped'
BY DEF TypeOK, Retire, HangUp, RetireTyped

LEMMA AbortType ==
  ASSUME TypeOK, NEW J \in SUBSET Jobs, NEW code, NEW X,
         \A j \in J : code[j] \in States, Abort(J, code, X)
  PROVE  /\ state' \in [Jobs -> States] /\ ended' \in [Jobs -> Nat]
         /\ active' \in [Jobs -> Workers \cup {NoWorker}] /\ job_id' \in [Workers -> Jobs \cup {NoJob}]
         /\ RetireTyped'
<1> DEFINE W == {active[j] : j \in J} \ {NoWorker}
<1>1. W \in SUBSET Workers
  BY DEF TypeOK
<1> QED
  BY <1>1, SettleType, DetachType, RetireType DEF Abort

LEMMA LoseType ==
  ASSUME TypeOK, NEW w \in Workers, NEW died, NEW owned, Lose(w, died, owned)
  PROVE  /\ state' \in [Jobs -> States] /\ ended' \in [Jobs -> Nat] /\ retried' \subseteq Jobs
         /\ active' \in [Jobs -> Workers \cup {NoWorker}] /\ job_id' \in [Workers -> Jobs \cup {NoJob}]
         /\ RetireTyped'
<1> DEFINE held   == {j \in Jobs : j = job_id[w] /\ j \in Live}
           again  == {j \in held : state[j] = "queued" /\ j \notin retried}
           failed == IF died /\ w \notin ready THEN Stranded(pool \ {w}) ELSE {}
           code   == [j \in Jobs |-> IF j \in failed THEN "worker_start_failed" ELSE "worker_crashed"]
<1>1. CASE w \in retiring
  BY <1>1 DEF Lose, TypeOK, RetireTyped, retireVars
<1>2. CASE w \notin retiring
  <2>1. (held \ again) \cup failed \in SUBSET Jobs
    BY DEF Stranded, Waiting
  <2>2. \A j \in (held \ again) \cup failed : code[j] \in States
    BY <2>1 DEF States, Outcomes
  <2>3. /\ Settle((held \ again) \cup failed, code, {})
        /\ retried' = retried \cup again
        /\ Detach(held, {w})
        /\ Retire({w}, {}, owned)
    BY <1>2 DEF Lose, Finish
  <2> HIDE DEF code, failed
  <2> QED
    BY <2>1, <2>2, <2>3, SettleType, DetachType, RetireType DEF TypeOK
<1> QED
  BY <1>1, <1>2

LEMMA ReceiveType ==
  ASSUME TypeOK, NEW w \in Workers, Receive(w)
  PROVE  /\ state' \in [Jobs -> States] /\ ended' \in [Jobs -> Nat]
         /\ active' \in [Jobs -> Workers \cup {NoWorker}] /\ job_id' \in [Workers -> Jobs \cup {NoJob}]
         /\ RetireTyped'
<1> DEFINE m == Head(outbox[w])
<1>1. m \in Messages /\ Tail(outbox[w]) \in Seq(Messages)
  BY DEF TypeOK, Receive
<1>2. CASE Ends(w, m)
  <2>1. m.job \in Jobs
    BY <1>2 DEF Ends, Applies, Live
  <2>2. state' \in [Jobs -> States] /\ ended' \in [Jobs -> Nat]
    <3> DEFINE code == All({m.job}, IF m.kind = "result" THEN "succeeded" ELSE "task_failed")
    <3>1. Settle({m.job}, code, {})
      BY <1>2 DEF Receive, Finish
    <3>2. \A j \in {m.job} : code[j] \in States
      BY DEF All, States, Outcomes
    <3> HIDE DEF code, m
    <3>3. {m.job} \in SUBSET Jobs
      BY <2>1
    <3> QED
      BY <3>1, <3>2, <3>3, SettleType
  <2>3. active' \in [Jobs -> Workers \cup {NoWorker}] /\ job_id' \in [Workers -> Jobs \cup {NoJob}]
    BY <1>2, DetachType DEF Receive
  <2>4. CASE served[w] >= MaxJobs
    BY <1>2, <2>2, <2>3, <2>4, RetireType DEF Receive
  <2>5. CASE ~(served[w] >= MaxJobs)
    <3>1. /\ outbox' = [outbox EXCEPT ![w] = Tail(@)]
          /\ ready' = ready \/ ready' = ready \cup {w}
          /\ UNCHANGED <<pool, retiring, served, closed, asked, backoff>>
      BY <1>2, <2>5 DEF Receive
    <3> HIDE DEF m
    <3> QED
      BY <1>1, <2>2, <2>3, <3>1 DEF RetireTyped, TypeOK
  <2> QED
    BY <2>4, <2>5
<1>3. CASE ~Ends(w, m)
  <2>1. state' \in [Jobs -> States]
    BY <1>3 DEF Receive, TypeOK, States
  <2>2. /\ outbox' = [outbox EXCEPT ![w] = Tail(@)]
        /\ ready' = ready \/ ready' = ready \cup {w}
        /\ UNCHANGED <<ended, retried, active, job_id, pool, retiring, served, closed, asked, backoff>>
    BY <1>3 DEF Receive
  <2> HIDE DEF m
  <2> QED
    BY <1>1, <2>1, <2>2 DEF RetireTyped, TypeOK
<1> QED
  BY <1>2, <1>3

LEMMA ForgetType ==
  ASSUME TypeOK, NEW G, Forget(G)
  PROVE  /\ child' \in [Workers -> {"none", "loading", "up", "gone"}]
         /\ task' \in [Workers -> Jobs \cup {NoJob}] /\ inbox' \in [Workers -> Jobs \cup {NoJob}]
         /\ outbox' \in [Workers -> Seq(Messages)] /\ closed' \subseteq Workers
BY DEF TypeOK, Forget

(* The initial state, and every step.                                      *)
LEMMA TypeInit == Init => TypeOK
<1> SUFFICES ASSUME Init
             PROVE  TypeOK
  OBVIOUS
<1>1. backoff \in BOOLEAN /\ stopping \in BOOLEAN
  BY DEF Init
<1>2. outbox \in [Workers -> Seq(Messages)]
  BY DEF Init
<1>3. child \in [Workers -> {"none", "loading", "up", "gone"}] /\ pool \subseteq Workers
  BY DEF Init
<1>4. state \in [Jobs -> States] /\ pc \in Pcs
  BY DEF Init, States, Pcs, LockedPcs
<1> QED
  BY <1>1, <1>2, <1>3, <1>4 DEF Init, TypeOK

LEMMA TypeRequests ==
  ASSUME TypeOK, Requests
  PROVE  TypeOK'
<1>1. ASSUME NEW X \in SUBSET Over, NEW j \in Jobs, Submit(j, X)
      PROVE  TypeOK'
  BY <1>1 DEF TypeOK, Submit, States, poolVars, childVars, pcVars, Pcs
<1>2. ASSUME NEW X \in SUBSET Over, Get(X)
      PROVE  TypeOK'
  <2>1. state' \in [Jobs -> States] /\ ended' \in [Jobs -> Nat]
    BY <1>2 DEF Get, Settle, TypeOK, States
  <2> QED
    BY <1>2, <2>1 DEF TypeOK, Get, poolVars, childVars, pcVars
<1>3. ASSUME NEW X \in SUBSET Over, NEW j \in Jobs, Cancel(j, X)
      PROVE  TypeOK'
  <2>1. \A k \in {j} : All({j}, "cancelled")[k] \in States
    BY DEF All, States, Outcomes
  <2>2. /\ state' \in [Jobs -> States] /\ ended' \in [Jobs -> Nat]
        /\ active' \in [Jobs -> Workers \cup {NoWorker}] /\ job_id' \in [Workers -> Jobs \cup {NoJob}]
        /\ RetireTyped'
    <3>1. {j} \in SUBSET Jobs /\ Abort({j}, All({j}, "cancelled"), X)
      BY <1>3 DEF Cancel
    <3> QED
      BY <2>1, <3>1, AbortType
  <2> QED
    BY <1>3, <2>2 DEF TypeOK, Cancel, RetireTyped, pcVars
<1> QED
  BY <1>1, <1>2, <1>3 DEF Requests

LEMMA TypeChildren ==
  ASSUME TypeOK, Children
  PROVE  TypeOK'
<1>1. ASSUME NEW w \in Workers, NEW m \in Messages, Say(w, m)
      PROVE  outbox' \in [Workers -> Seq(Messages)]
  BY <1>1 DEF TypeOK, Say
<1>2. ASSUME NEW w \in Workers, ChildReady(w)
      PROVE  TypeOK'
  <2>1. [job |-> NoJob, kind |-> "ready"] \in Messages
    BY DEF Messages, Kinds
  <2> QED
    BY <1>1, <1>2, <2>1 DEF TypeOK, ChildReady, jobVars, poolVars, pcVars
<1>3. ASSUME NEW w \in Workers, ChildStart(w)
      PROVE  TypeOK'
  <2>1. inbox[w] \in Jobs /\ [job |-> inbox[w], kind |-> "started"] \in Messages
    BY <1>3 DEF ChildStart, TypeOK, Messages, Kinds
  <2> QED
    BY <1>1, <1>3, <2>1 DEF TypeOK, ChildStart, poolVars, pcVars
<1>4. ASSUME NEW w \in Workers, NEW kind \in Kinds, ChildReply(w, kind)
      PROVE  TypeOK'
  <2>1. [job |-> task[w], kind |-> kind] \in Messages
    BY DEF TypeOK, Messages
  <2> QED
    BY <1>1, <1>4, <2>1 DEF TypeOK, ChildReply, jobVars, poolVars, pcVars
<1>5. ASSUME NEW w \in Workers, ChildExit(w)
      PROVE  TypeOK'
  BY <1>5 DEF TypeOK, ChildExit, jobVars, poolVars, pcVars
<1> QED
  BY <1>2, <1>3, <1>4, <1>5 DEF Children

LEMMA TypeScan ==
  ASSUME TypeOK,
         \/ \E X \in SUBSET Over : CoordBegin(X)
         \/ CoordExit \/ CoordReceive \/ PollEmpty \/ CoordEOF
         \/ CheckDead \/ CheckAlive \/ CheckSlow
         \/ \E w \in Workers : PickWorker(w)
  PROVE  TypeOK'
<1>1. ASSUME NEW X \in SUBSET Over, CoordBegin(X)
      PROVE  TypeOK'
  <2>1. state' \in [Jobs -> States] /\ ended' \in [Jobs -> Nat]
    BY <1>1 DEF CoordBegin, Settle, TypeOK, States
  <2> QED
    BY <1>1, <2>1 DEF TypeOK, CoordBegin, poolVars, childVars, Pcs, LockedPcs
<1>2. CASE CoordExit
  BY <1>2 DEF TypeOK, CoordExit, jobVars, poolVars, childVars, Pcs
<1>3. CASE CoordReceive
  <2>1. cur \in Workers
    BY <1>3 DEF TypeOK, CoordReceive
  <2>2. /\ state' \in [Jobs -> States] /\ ended' \in [Jobs -> Nat]
        /\ active' \in [Jobs -> Workers \cup {NoWorker}] /\ job_id' \in [Workers -> Jobs \cup {NoJob}]
        /\ RetireTyped'
    BY <1>3, <2>1, ReceiveType DEF CoordReceive
  <2>3. UNCHANGED <<retried, ran, sending, child, task, inbox, cur, polling, reapable, drain, stopping, closing>>
    BY <1>3 DEF CoordReceive, Receive
  <2>4. pc' \in Pcs
    BY <1>3 DEF CoordReceive, Pcs, LockedPcs
  <2> QED
    BY <2>1, <2>2, <2>3, <2>4 DEF TypeOK, RetireTyped
<1>4. CASE PollEmpty
  BY <1>4 DEF TypeOK, PollEmpty, jobVars, poolVars, childVars, Pcs, LockedPcs
<1>5. ASSUME CoordEOF \/ CheckSlow
      PROVE  TypeOK'
  <2>1. cur \in Workers /\ \E died \in BOOLEAN : Lose(cur, died, Sends)
    BY <1>5 DEF TypeOK, CoordEOF, CheckSlow
  <2>2. /\ state' \in [Jobs -> States] /\ ended' \in [Jobs -> Nat] /\ retried' \subseteq Jobs
        /\ active' \in [Jobs -> Workers \cup {NoWorker}] /\ job_id' \in [Workers -> Jobs \cup {NoJob}]
        /\ RetireTyped'
    BY <2>1, LoseType
  <2>3. /\ pc' = "scan" /\ cur' = NoWorker
        /\ UNCHANGED <<ran, sending, child, task, inbox, polling, reapable, drain, stopping, closing>>
    BY <1>5 DEF CoordEOF, CheckSlow
  <2> QED
    BY <2>2, <2>3 DEF TypeOK, RetireTyped, Pcs, LockedPcs
<1>6. CASE CheckDead
  BY <1>6 DEF TypeOK, CheckDead, jobVars, poolVars, childVars, Pcs, LockedPcs
<1>7. CASE CheckAlive
  BY <1>7 DEF TypeOK, CheckAlive, jobVars, poolVars, childVars, Pcs, LockedPcs
<1>8. ASSUME NEW w \in Workers, PickWorker(w)
      PROVE  TypeOK'
  BY <1>8 DEF TypeOK, PickWorker, jobVars, poolVars, childVars, Pcs, LockedPcs
<1> QED
  BY <1>1, <1>2, <1>3, <1>4, <1>5, <1>6, <1>7, <1>8

LEMMA TypeDispatch ==
  ASSUME TypeOK,
         \/ \E late \in SUBSET Live : JobsStep(late)
         \/ \E j \in Jobs, w \in Workers : Attach(j, w)
         \/ DispatchDone \/ SendDone
         \/ \E w \in Workers : SendMessage(w)
  PROVE  TypeOK'
<1>1. ASSUME NEW late \in SUBSET Live, JobsStep(late)
      PROVE  TypeOK'
  <2> DEFINE left == IF Draining THEN Queued ELSE {}
             code == [j \in Jobs |-> IF j \in late THEN "timed_out" ELSE "service_restarted"]
  <2>1. (Due(late) \cup left) \in SUBSET Jobs /\ Abort(Due(late) \cup left, code, {})
    BY <1>1 DEF JobsStep, Due, Queued, Live
  <2>2. \A j \in Due(late) \cup left : code[j] \in States
    BY <2>1 DEF States, Outcomes
  <2> HIDE DEF left, code
  <2>3. /\ state' \in [Jobs -> States] /\ ended' \in [Jobs -> Nat]
        /\ active' \in [Jobs -> Workers \cup {NoWorker}] /\ job_id' \in [Workers -> Jobs \cup {NoJob}]
        /\ RetireTyped'
    BY <2>1, <2>2, AbortType
  <2> QED
    BY <1>1, <2>3 DEF TypeOK, JobsStep, RetireTyped, Pcs, LockedPcs
<1>2. ASSUME NEW j \in Jobs, NEW w \in Workers, Attach(j, w)
      PROVE  TypeOK'
  <2>1. served' \in [Workers -> Nat]
    <3>1. served \in [Workers -> Nat] /\ served' = [served EXCEPT ![w] = @ + 1]
      BY <1>2 DEF TypeOK, Attach
    <3>2. served[w] + 1 \in Nat
      BY <3>1
    <3> QED
      BY <3>1, <3>2
  <2>2. /\ active' \in [Jobs -> Workers \cup {NoWorker}]
        /\ job_id' \in [Workers -> Jobs \cup {NoJob}] /\ sending' \in [Workers -> Jobs \cup {NoJob}]
    BY <1>2 DEF TypeOK, Attach
  <2> QED
    BY <1>2, <2>1, <2>2 DEF TypeOK, Attach, jobVars, childVars, pcVars
<1>3. CASE DispatchDone
  BY <1>3 DEF TypeOK, DispatchDone, jobVars, poolVars, childVars, Pcs
<1>4. ASSUME NEW w \in Workers, SendMessage(w)
      PROVE  TypeOK'
  <2>1. inbox' \in [Workers -> Jobs \cup {NoJob}] /\ pc' \in {"sent", "unsent"} /\ cur' = w
    <3>1. inbox' = inbox \/ inbox' = [inbox EXCEPT ![w] = sending[w]]
      BY <1>4 DEF SendMessage
    <3>2. inbox \in [Workers -> Jobs \cup {NoJob}] /\ sending[w] \in Jobs \cup {NoJob}
      BY DEF TypeOK
    <3> QED
      BY <1>4, <3>1, <3>2 DEF SendMessage
  <2>2. UNCHANGED <<jobVars, poolVars, child, task, outbox, polling, reapable, drain, stopping, closing>>
    BY <1>4 DEF SendMessage
  <2>3. pc' \in Pcs
    BY <2>1 DEF Pcs
  <2> QED
    <3>1. UNCHANGED <<state, retried, ended, ran, pool, retiring, active, job_id, ready, sending, served, closed, asked,
                      backoff>>
      BY <2>2 DEF jobVars, poolVars
    <3> QED
      BY <2>1, <2>2, <2>3, <3>1 DEF TypeOK
<1>5. CASE SendDone
  <2>1. cur \in Workers
    BY <1>5 DEF TypeOK, SendDone
  <2>2. /\ state' \in [Jobs -> States] /\ ended' \in [Jobs -> Nat] /\ retried' \subseteq Jobs
        /\ active' \in [Jobs -> Workers \cup {NoWorker}] /\ job_id' \in [Workers -> Jobs \cup {NoJob}]
        /\ RetireTyped'
    <3>1. CASE cur \in retiring
      BY <1>5, <2>1, <3>1 DEF SendDone, TypeOK, RetireTyped
    <3>2. CASE cur \notin retiring /\ pc = "unsent"
      BY <1>5, <2>1, <3>2, LoseType DEF SendDone
    <3>3. CASE cur \notin retiring /\ pc # "unsent"
      BY <1>5, <3>3 DEF SendDone, TypeOK, RetireTyped, retireVars
    <3> QED
      BY <3>1, <3>2, <3>3
  <2> QED
    BY <1>5, <2>2 DEF TypeOK, SendDone, RetireTyped, Pcs
<1> QED
  BY <1>1, <1>2, <1>3, <1>4, <1>5

LEMMA TypeStarts ==
  ASSUME TypeOK,
         \/ Replenish \/ StartRefused \/ JoinPool \/ StartFailed \/ Discard
         \/ \E w \in Workers : StartWorker(w)
         \/ \E K \in SUBSET reapable : Reap(K)
         \/ LeaveReaping
  PROVE  TypeOK'
<1>1. CASE Replenish
  BY <1>1 DEF TypeOK, Replenish, jobVars, poolVars, childVars, Pcs
<1>2. CASE StartRefused
  BY <1>2 DEF TypeOK, StartRefused, jobVars, poolVars, childVars, Pcs
<1>3. CASE JoinPool
  BY <1>3 DEF TypeOK, JoinPool, jobVars, childVars, Pcs
<1>4. CASE StartFailed
  <2>1. state' \in [Jobs -> States] /\ ended' \in [Jobs -> Nat]
    BY <1>4 DEF TypeOK, StartFailed, Finish, Settle, All, States, Outcomes
  <2> QED
    BY <1>4, <2>1 DEF TypeOK, StartFailed, childVars, Pcs
<1>5. CASE Discard
  BY <1>5, ForgetType DEF TypeOK, Discard, jobVars, Pcs
<1>6. ASSUME NEW w \in Workers, StartWorker(w)
      PROVE  TypeOK'
  BY <1>6 DEF TypeOK, StartWorker, jobVars, poolVars, Pcs
<1>7. ASSUME NEW K \in SUBSET reapable, Reap(K)
      PROVE  TypeOK'
  <2>1. asked' \in [Workers -> {"no", "stop", "term", "kill"}] /\ retiring' \subseteq Workers
    BY <1>7 DEF TypeOK, Reap
  <2> QED
    BY <1>7, <2>1, ForgetType DEF TypeOK, Reap, jobVars, Pcs
<1>8. CASE LeaveReaping
  BY <1>8 DEF TypeOK, LeaveReaping, jobVars, poolVars, childVars, Pcs
<1> QED
  BY <1>1, <1>2, <1>3, <1>4, <1>5, <1>6, <1>7, <1>8

LEMMA TypeStops ==
  ASSUME TypeOK, BackoffEnds \/ DrainBegin \/ DrainSteps \/ CloseBegin \/ CloseSteps
  PROVE  TypeOK'
<1>1. CASE BackoffEnds
  BY <1>1 DEF TypeOK, BackoffEnds, jobVars, childVars, pcVars
<1>2. CASE DrainBegin
  BY <1>2 DEF TypeOK, DrainBegin, jobVars, poolVars, childVars
<1>3. ASSUME NEW w \in Workers, DrainReceive(w)
      PROVE  TypeOK'
  <2>1. /\ state' \in [Jobs -> States] /\ ended' \in [Jobs -> Nat]
        /\ active' \in [Jobs -> Workers \cup {NoWorker}] /\ job_id' \in [Workers -> Jobs \cup {NoJob}]
        /\ RetireTyped'
    BY <1>3, ReceiveType DEF DrainReceive
  <2>2. UNCHANGED <<retried, ran, sending, child, task, inbox, pc, cur, reapable, drain, stopping, closing>>
    BY <1>3 DEF DrainReceive, Receive
  <2>3. polling' \subseteq Workers
    BY <1>3 DEF DrainReceive, TypeOK
  <2> QED
    BY <2>1, <2>2, <2>3 DEF TypeOK, RetireTyped
<1>4. ASSUME NEW w \in Workers, DrainEmpty(w)
      PROVE  TypeOK'
  BY <1>4 DEF TypeOK, DrainEmpty, jobVars, poolVars, childVars
<1>5. ASSUME NEW w \in Workers, DrainEOF(w)
      PROVE  TypeOK'
  BY <1>5, LoseType DEF TypeOK, DrainEOF, RetireTyped
<1>6. CASE DrainFinish
  <2>1. Queued \in SUBSET Jobs /\ \A j \in Queued : All(Queued, "service_restarted")[j] \in States
    BY DEF Queued, All, States, Outcomes
  <2>2. /\ state' \in [Jobs -> States] /\ ended' \in [Jobs -> Nat]
        /\ active' \in [Jobs -> Workers \cup {NoWorker}] /\ job_id' \in [Workers -> Jobs \cup {NoJob}]
        /\ RetireTyped'
    BY <1>6, <2>1, AbortType DEF DrainFinish
  <2> QED
    BY <1>6, <2>2 DEF TypeOK, DrainFinish, RetireTyped
<1>7. CASE CloseBegin
  BY <1>7 DEF TypeOK, CloseBegin, jobVars, poolVars, childVars
<1>8. CASE CloseJoined
  BY <1>8 DEF TypeOK, CloseJoined, jobVars, poolVars, childVars
<1>9. CASE CloseJobs
  <2> DEFINE held == {active[j] : j \in Live} \ {NoWorker}
  <2>1. pool \cup held \in SUBSET Workers
    BY DEF TypeOK, Live
  <2>2. Live \in SUBSET Jobs /\ \A j \in Live : All(Live, "cancelled")[j] \in States
    BY DEF Live, All, States, Outcomes
  <2>3. /\ Settle(Live, All(Live, "cancelled"), {}) /\ Detach(Live, held)
        /\ Retire(pool \cup held, pool \ held, Sends)
    BY <1>9 DEF CloseJobs, Finish
  <2> HIDE DEF held
  <2>4. /\ state' \in [Jobs -> States] /\ ended' \in [Jobs -> Nat]
        /\ active' \in [Jobs -> Workers \cup {NoWorker}] /\ job_id' \in [Workers -> Jobs \cup {NoJob}]
        /\ RetireTyped'
    BY <2>1, <2>2, <2>3, SettleType, DetachType, RetireType
  <2> QED
    BY <1>9, <2>4 DEF TypeOK, CloseJobs, RetireTyped
<1>10. CASE CloseReap
  BY <1>10 DEF TypeOK, CloseReap, jobVars, poolVars
<1>11. CASE CloseFinal
  BY <1>11, ForgetType DEF TypeOK, CloseFinal, jobVars
<1> QED
  BY <1>1, <1>2, <1>3, <1>4, <1>5, <1>6, <1>7, <1>8, <1>9, <1>10, <1>11 DEF DrainSteps, CloseSteps

LEMMA TypeStep ==
  ASSUME TypeOK, [Next]_vars
  PROVE  TypeOK'
<1>1. CASE Requests
  BY <1>1, TypeRequests
<1>2. CASE Coordinate
  BY <1>2, TypeScan, TypeDispatch, TypeStarts DEF Coordinate
<1>3. CASE Children
  BY <1>3, TypeChildren
<1>4. CASE BackoffEnds \/ DrainBegin \/ DrainSteps \/ CloseBegin \/ CloseSteps
  BY <1>4, TypeStops
<1>5. CASE UNCHANGED vars
  BY <1>5 DEF TypeOK, vars, jobVars, poolVars, childVars, pcVars
<1> QED
  BY <1>1, <1>2, <1>3, <1>4, <1>5 DEF Next

(* Every variable keeps to the values its part of the store can hold.      *)
THEOREM TypeCorrect == Safety => []TypeOK
BY TypeInit, TypeStep, PTL DEF Safety

-----------------------------------------------------------------------------
(* Attachment and counting.                                                *)
Books == Attached /\ CountedOnce

LEMMA SettleBooks ==
  ASSUME TypeOK, CountedOnce, NEW J \in SUBSET Live, NEW code, NEW X \in SUBSET Over,
         \A j \in J : code[j] \in Outcomes, Settle(J, code, X)
  PROVE  /\ CountedOnce'
         /\ \A j \in Jobs : state'[j] = IF j \in J THEN code[j] ELSE IF j \in X THEN "expired" ELSE state[j]
         /\ Live' = Live \ J
<1>1. \A j \in Jobs : state'[j] = IF j \in J THEN code[j] ELSE IF j \in X THEN "expired" ELSE state[j]
  BY DEF Settle
<1>2. \A j \in Jobs : ended'[j] = IF j \in J THEN ended[j] + 1 ELSE ended[j]
  BY DEF Settle
<1>3. \A j \in J : j \in Jobs /\ state[j] \in Unfinished
  BY DEF Live
<1>4. \A j \in X : j \in Jobs /\ state[j] \in Outcomes
  BY DEF Over
<1>5. CountedOnce'
  <2> SUFFICES ASSUME NEW j \in Jobs
               PROVE  ended'[j] = IF state'[j] \in Outcomes \cup {"expired"} THEN 1 ELSE 0
    BY DEF CountedOnce
  <2> QED
    BY <1>1, <1>2, <1>3, <1>4 DEF CountedOnce, Outcomes, Unfinished
<1>6. Live' = Live \ J
  BY <1>1, <1>3, <1>4 DEF Live, Outcomes, Unfinished
<1> QED
  BY <1>1, <1>5, <1>6

LEMMA AbortBooks ==
  ASSUME TypeOK, Books, NEW J \in SUBSET Live, NEW code, NEW X \in SUBSET Over,
         \A j \in J : code[j] \in Outcomes, Abort(J, code, X)
  PROVE  Books' /\ {active[j] : j \in J} \ {NoWorker} \subseteq pool
<1> DEFINE W == {active[j] : j \in J} \ {NoWorker}
<1>1. /\ CountedOnce' /\ Live' = Live \ J
      /\ \A j \in Jobs : state'[j] = IF j \in J THEN code[j] ELSE IF j \in X THEN "expired" ELSE state[j]
  BY SettleBooks DEF Abort, Books
<1>2. J \subseteq Jobs /\ W \subseteq Workers
  BY DEF Live, TypeOK
<1>3. \A w \in Workers : w \in W <=> job_id[w] \in J
  BY <1>2, SentinelAssumption DEF TypeOK, Books, Attached
<1>4. W \subseteq pool
  BY <1>2, <1>3, SentinelAssumption DEF Books, Attached
<1>5. /\ \A j \in Jobs : active'[j] = IF j \in J THEN NoWorker ELSE active[j]
      /\ \A w \in Workers : job_id'[w] = IF w \in W THEN NoJob ELSE job_id[w]
      /\ pool' = pool \ W
      /\ ready' = ready \ (W \ retiring)
  BY DEF Abort, Detach, Retire
<1>6. \A j \in Jobs, w \in Workers : active'[j] = w <=> job_id'[w] = j
  BY <1>2, <1>3, <1>5, SentinelAssumption DEF Books, Attached
<1>7. \A w \in Workers : job_id'[w] # NoJob => w \in pool' \cap ready' /\ job_id'[w] \in Live'
  BY <1>1, <1>3, <1>5 DEF Books, Attached
<1>8. \A j \in Jobs : state'[j] = "running" => active'[j] # NoWorker
  BY <1>1, <1>5 DEF Books, Attached, Outcomes
<1> QED
  BY <1>1, <1>4, <1>6, <1>7, <1>8 DEF Books, Attached

LEMMA LoseBooks ==
  ASSUME TypeOK, Books, NEW w \in Workers, NEW died, NEW owned, Lose(w, died, owned)
  PROVE  Books'
<1> DEFINE held   == {j \in Jobs : j = job_id[w] /\ j \in Live}
           again  == {j \in held : state[j] = "queued" /\ j \notin retried}
           failed == IF died /\ w \notin ready THEN Stranded(pool \ {w}) ELSE {}
           J      == (held \ again) \cup failed
           code   == [j \in Jobs |-> IF j \in failed THEN "worker_start_failed" ELSE "worker_crashed"]
<1>1. CASE w \in retiring
  BY <1>1 DEF Lose, Books, Attached, CountedOnce, retireVars, Live
<1>2. CASE w \notin retiring
  <2>1. J \in SUBSET Live /\ failed \subseteq Waiting
    BY DEF Stranded, Waiting, Live, Unfinished
  <2>2. \A j \in J : code[j] \in Outcomes
    BY <2>1 DEF Outcomes, Live
  <2>3. /\ Settle(J, code, {})
        /\ Detach(held, {w})
        /\ Retire({w}, {}, owned)
    BY <1>2 DEF Lose, Finish
  <2>4. held = {job_id[w]} \ {NoJob}
    BY SentinelAssumption DEF Books, Attached, TypeOK, Live
  <2>5. \A j \in failed : j \in Jobs /\ active[j] = NoWorker
    BY <2>1 DEF Waiting
  <2>6. \A j \in again : state[j] = "queued"
    OBVIOUS
  <2>7. again \subseteq held
    OBVIOUS
  <2> HIDE DEF held, again, failed, code
  <2>8. /\ CountedOnce' /\ Live' = Live \ J
        /\ \A j \in Jobs : state'[j] = IF j \in J THEN code[j] ELSE state[j]
    <3>1. {} \in SUBSET Over
      OBVIOUS
    <3> QED
      BY <2>1, <2>2, <2>3, <3>1, SettleBooks DEF Books
  <2>9. /\ \A j \in Jobs : active'[j] = IF j \in held THEN NoWorker ELSE active[j]
        /\ \A v \in Workers : job_id'[v] = IF v = w THEN NoJob ELSE job_id[v]
        /\ pool' = pool \ {w}
        /\ ready' = ready \ {w}
    BY <1>2, <2>3 DEF Detach, Retire
  <2>10. \A j \in Jobs, v \in Workers : active'[j] = v <=> job_id'[v] = j
    BY <2>4, <2>9, SentinelAssumption DEF Books, Attached
  <2>11. \A v \in Workers : job_id'[v] # NoJob => v \in pool' \cap ready' /\ job_id'[v] \in Live'
    <3> SUFFICES ASSUME NEW v \in Workers, job_id'[v] # NoJob
                 PROVE  v \in pool' \cap ready' /\ job_id'[v] \in Live'
      OBVIOUS
    <3>1. v # w /\ job_id'[v] = job_id[v] /\ job_id[v] \in Jobs
      BY <2>9 DEF TypeOK
    <3>2. active[job_id[v]] = v
      BY <3>1 DEF Books, Attached
    <3>3. job_id[v] \notin held /\ job_id[v] \notin failed
      BY <2>4, <2>5, <3>1, <3>2, SentinelAssumption DEF Books, Attached
    <3> QED
      BY <2>8, <2>9, <3>1, <3>3 DEF Books, Attached
  <2>12. \A j \in Jobs : state'[j] = "running" => active'[j] # NoWorker
    <3> SUFFICES ASSUME NEW j \in Jobs, state'[j] = "running"
                 PROVE  active'[j] # NoWorker
      OBVIOUS
    <3>1. j \notin J /\ state[j] = "running"
      BY <2>2, <2>8 DEF Outcomes
    <3>2. j \notin held
      BY <2>6, <3>1
    <3> QED
      BY <2>9, <3>1, <3>2 DEF Books, Attached
  <2> QED
    BY <2>8, <2>10, <2>11, <2>12 DEF Books, Attached
<1> QED
  BY <1>1, <1>2

LEMMA ReceiveBooks ==
  ASSUME TypeOK, Books, NEW w \in Workers, Receive(w)
  PROVE  Books'
<1> DEFINE m == Head(outbox[w])
<1>1. CASE Ends(w, m)
  <2> DEFINE code == All({m.job}, IF m.kind = "result" THEN "succeeded" ELSE "task_failed")
  <2>1. m.job \in Live /\ m.job \in Jobs /\ m.job = job_id[w] /\ active[m.job] = w
    BY <1>1 DEF Ends, Applies, Live, Books, Attached
  <2>2. Settle({m.job}, code, {}) /\ Detach({m.job}, {w})
    BY <1>1 DEF Receive, Finish
  <2>3. \A j \in {m.job} : code[j] \in Outcomes
    BY DEF All, Outcomes
  <2>4. pool' \in {pool, pool \ {w}} /\ (\A v \in ready : v # w => v \in ready')
    BY <1>1 DEF Receive, Retire
  <2> HIDE DEF m, code
  <2>5. /\ CountedOnce' /\ Live' = Live \ {m.job}
        /\ \A j \in Jobs : state'[j] = IF j = m.job THEN code[j] ELSE state[j]
    <3>1. {} \in SUBSET Over /\ {m.job} \in SUBSET Live
      BY <2>1
    <3> DEFINE J == {m.job}
    <3>2. /\ J \in SUBSET Live /\ Settle(J, code, {})
          /\ \A j \in J : code[j] \in Outcomes
      BY <2>2, <2>3, <3>1
    <3>3. \A j : j \in J <=> j = m.job
      OBVIOUS
    <3> HIDE DEF J
    <3>4. /\ CountedOnce' /\ Live' = Live \ J
          /\ \A j \in Jobs : state'[j] = IF j \in J THEN code[j]
                                         ELSE IF j \in {} THEN "expired" ELSE state[j]
      BY <3>1, <3>2, SettleBooks DEF Books
    <3> QED
      BY <3>3, <3>4
  <2>6. /\ \A j \in Jobs : active'[j] = IF j = m.job THEN NoWorker ELSE active[j]
        /\ \A v \in Workers : job_id'[v] = IF v = w THEN NoJob ELSE job_id[v]
    BY <2>2 DEF Detach
  <2>7. \A j \in Jobs, v \in Workers : active'[j] = v <=> job_id'[v] = j
    BY <2>1, <2>6, SentinelAssumption DEF Books, Attached
  <2>8. \A v \in Workers : job_id'[v] # NoJob => v \in pool' \cap ready' /\ job_id'[v] \in Live'
    BY <2>1, <2>4, <2>5, <2>6 DEF Books, Attached, TypeOK
  <2>9. \A j \in Jobs : state'[j] = "running" => active'[j] # NoWorker
    BY <2>3, <2>5, <2>6 DEF Books, Attached, Outcomes
  <2> QED
    BY <2>5, <2>7, <2>8, <2>9 DEF Books, Attached
<1>2. CASE ~Ends(w, m)
  <2>1. UNCHANGED <<ended, active, job_id, pool>> /\ ready \subseteq ready'
    BY <1>2 DEF Receive
  <2>2. state' = state \/ (Applies(w, m) /\ state' = [state EXCEPT ![m.job] = "running"])
    BY <1>2 DEF Receive
  <2>3. Applies(w, m) => m.job \in Jobs /\ active[m.job] = w /\ state[m.job] \in Unfinished
    BY DEF Applies, Live, Books, Attached
  <2> HIDE DEF m
  <2>4. \A j \in Jobs : state'[j] = state[j] \/ (state'[j] = "running" /\ active[j] = w /\ state[j] \in Unfinished)
    BY <2>2, <2>3 DEF TypeOK
  <2>5. Live' = Live
    BY <2>4 DEF Live, Unfinished
  <2>6. CountedOnce'
    BY <2>1, <2>4 DEF Books, CountedOnce, Outcomes, Unfinished
  <2>7. Attached'
    BY <2>1, <2>4, <2>5, SentinelAssumption DEF Books, Attached
  <2> QED
    BY <2>6, <2>7 DEF Books
<1> QED
  BY <1>1, <1>2

LEMMA SameBooks ==
  ASSUME TypeOK, Books, UNCHANGED <<state, ended, active, job_id, ready>>, pool \subseteq pool'
  PROVE  Books'
<1>1. Live' = Live
  BY DEF Live
<1>2. CountedOnce'
  BY DEF Books, CountedOnce
<1> QED
  BY <1>1, <1>2 DEF Books, Attached

LEMMA BooksStep ==
  ASSUME TypeOK, Books, [Next]_vars
  PROVE  Books'
<1>1. ASSUME NEW X \in SUBSET Over, NEW j \in Jobs, Submit(j, X)
      PROVE  Books'
  <2>1. \A k \in Jobs : state'[k] = IF k = j THEN "queued" ELSE IF k \in X THEN "expired" ELSE state[k]
    BY <1>1 DEF Submit
  <2>2. \A k \in X : k \in Jobs /\ state[k] \in Outcomes
    BY DEF Over
  <2>3. state[j] = "new" /\ UNCHANGED <<ended, active, job_id, ready, pool>>
    BY <1>1 DEF Submit, poolVars
  <2>4. CountedOnce'
    BY <2>1, <2>2, <2>3 DEF Books, CountedOnce, Outcomes
  <2>5. Live \subseteq Live'
    BY <2>1, <2>2 DEF Live, Unfinished, Outcomes
  <2> QED
    BY <2>1, <2>3, <2>4, <2>5 DEF Books, Attached
<1>2. ASSUME NEW X \in SUBSET Over, Get(X) \/ CoordBegin(X)
      PROVE  Books'
  <2>1. \A k \in Jobs : state'[k] = IF k \in X THEN "expired" ELSE state[k]
    BY <1>2 DEF Get, CoordBegin, Settle
  <2>2. \A k \in X : k \in Jobs /\ state[k] \in Outcomes
    BY DEF Over
  <2>3. UNCHANGED <<active, job_id, ready, pool>> /\ \A k \in Jobs : ended'[k] = ended[k]
    BY <1>2 DEF Get, CoordBegin, Settle, poolVars
  <2>4. CountedOnce'
    BY <2>1, <2>2, <2>3 DEF Books, CountedOnce, Outcomes
  <2>5. Live \subseteq Live'
    BY <2>1, <2>2 DEF Live, Unfinished, Outcomes
  <2> QED
    BY <2>1, <2>3, <2>4, <2>5 DEF Books, Attached
<1>3. ASSUME NEW X \in SUBSET Over, NEW j \in Jobs, Cancel(j, X)
      PROVE  Books'
  <2>1. {j} \in SUBSET Live /\ Abort({j}, All({j}, "cancelled"), X)
    BY <1>3 DEF Cancel
  <2>2. \A k \in {j} : All({j}, "cancelled")[k] \in Outcomes
    BY DEF All, Outcomes
  <2> QED
    BY <2>1, <2>2, AbortBooks
<1>4. ASSUME NEW late \in SUBSET Live, JobsStep(late)
      PROVE  Books'
  <2> DEFINE left == IF Draining THEN Queued ELSE {}
             code == [j \in Jobs |-> IF j \in late THEN "timed_out" ELSE "service_restarted"]
             J    == Due(late) \cup left
  <2>1. J \in SUBSET Live /\ Abort(J, code, {})
    BY <1>4 DEF JobsStep, Due, Queued, Live, Unfinished
  <2>2. \A j \in J : code[j] \in Outcomes
    BY <2>1 DEF Outcomes, Live
  <2>3. {} \in SUBSET Over
    OBVIOUS
  <2> HIDE DEF J, code
  <2> QED
    BY <2>1, <2>2, <2>3, AbortBooks
<1>5. CASE DrainFinish
  <2>1. Queued \in SUBSET Live /\ Abort(Queued, All(Queued, "service_restarted"), {})
    BY <1>5 DEF DrainFinish, Queued, Live, Unfinished
  <2>2. (\A k \in Queued : All(Queued, "service_restarted")[k] \in Outcomes) /\ {} \in SUBSET Over
    BY DEF All, Outcomes
  <2> QED
    BY <2>1, <2>2, AbortBooks
<1>6. CASE CloseJobs
  <2> DEFINE held == {active[j] : j \in Live} \ {NoWorker}
             code == All(Live, "cancelled")
  <2>1. Live \in SUBSET Live /\ {} \in SUBSET Over /\ \A j \in Live : code[j] \in Outcomes
    BY DEF All, Outcomes
  <2>2. Settle(Live, code, {}) /\ Detach(Live, held)
    BY <1>6 DEF CloseJobs, Finish
  <2> HIDE DEF code, held
  <2>3. CountedOnce' /\ Live' = Live \ Live
        /\ \A j \in Jobs : state'[j] = IF j \in Live THEN code[j] ELSE IF j \in {} THEN "expired" ELSE state[j]
    BY <2>1, <2>2, SettleBooks DEF Books
  <2>4. \A w \in Workers : job_id[w] # NoJob => w \in held
    BY SentinelAssumption DEF Books, Attached, held, TypeOK
  <2>5. \A w \in Workers : job_id'[w] = NoJob
    BY <2>2, <2>4 DEF Detach
  <2>6. \A j \in Jobs : active'[j] = NoWorker
    <3> SUFFICES ASSUME NEW j \in Jobs, active[j] # NoWorker
                 PROVE  j \in Live
      BY <2>2 DEF Detach
    <3>1. active[j] \in Workers
      BY DEF TypeOK
    <3>2. job_id[active[j]] = j
      BY <3>1 DEF Books, Attached
    <3> QED
      BY <3>1, <3>2, SentinelAssumption DEF Books, Attached
  <2>7. \A j \in Jobs : state'[j] # "running"
    BY <2>1, <2>3 DEF Live, Unfinished, Outcomes
  <2>8. Attached'
    BY <2>5, <2>6, <2>7, SentinelAssumption DEF Attached
  <2> QED
    BY <2>3, <2>8 DEF Books
<1>7. ASSUME CoordEOF \/ CheckSlow \/ \E w \in Workers : DrainEOF(w)
      PROVE  Books'
  <2>1. \E w \in Workers, died \in BOOLEAN : Lose(w, died, Sends)
    BY <1>7 DEF TypeOK, CoordEOF, CheckSlow, DrainEOF
  <2> QED
    BY <2>1, LoseBooks
<1>8. ASSUME CoordReceive \/ \E w \in Workers : DrainReceive(w)
      PROVE  Books'
  <2>1. \E w \in Workers : Receive(w)
    BY <1>8 DEF TypeOK, CoordReceive, DrainReceive
  <2> QED
    BY <2>1, ReceiveBooks
<1>9. CASE SendDone
  <2>1. cur \in Workers
    BY <1>9 DEF TypeOK, SendDone
  <2>2. CASE cur \notin retiring /\ pc = "unsent"
    BY <1>9, <2>1, <2>2, LoseBooks DEF SendDone
  <2>3. CASE ~(cur \notin retiring /\ pc = "unsent")
    BY <1>9, <2>3, SameBooks DEF SendDone, retireVars
  <2> QED
    BY <2>2, <2>3
<1>10. CASE StartFailed
  <2> DEFINE J == Stranded(pool)
             code == All(J, "worker_start_failed")
  <2>1. J \in SUBSET Live /\ {} \in SUBSET Over /\ (\A j \in J : code[j] \in Outcomes)
        /\ (\A j \in J : j \in Jobs /\ active[j] = NoWorker)
    BY DEF All, Outcomes, Stranded, Waiting, Live, Unfinished
  <2>2. Settle(J, code, {}) /\ UNCHANGED <<active, job_id, pool, ready>>
    BY <1>10 DEF StartFailed, Finish
  <2> HIDE DEF J, code
  <2>3. CountedOnce' /\ Live' = Live \ J
        /\ \A j \in Jobs : state'[j] = IF j \in J THEN code[j] ELSE IF j \in {} THEN "expired" ELSE state[j]
    BY <2>1, <2>2, SettleBooks DEF Books
  <2>4. \A w \in Workers : job_id[w] \notin J
    BY <2>1, SentinelAssumption DEF Books, Attached
  <2>5. \A j \in Jobs : state'[j] = "running" => state[j] = "running"
    BY <2>1, <2>3 DEF Outcomes
  <2> QED
    BY <2>2, <2>3, <2>4, <2>5 DEF Books, Attached
<1>11. ASSUME NEW j \in Jobs, NEW w \in Workers, Attach(j, w)
       PROVE  Books'
  <2>1. j \in Waiting /\ w \in Idle /\ UNCHANGED <<state, ended, pool, ready>>
    BY <1>11 DEF Attach, jobVars
  <2>2. (\A k \in Jobs : active'[k] = IF k = j THEN w ELSE active[k])
        /\ \A v \in Workers : job_id'[v] = IF v = w THEN j ELSE job_id[v]
    BY <1>11 DEF Attach, TypeOK
  <2>3. Live' = Live /\ CountedOnce'
    BY <2>1 DEF Live, Books, CountedOnce
  <2>4. j \in Live /\ active[j] = NoWorker /\ w \in pool \cap ready /\ job_id[w] = NoJob
    BY <2>1 DEF Waiting, Idle, Live, Unfinished
  <2>5. \A k \in Jobs, v \in Workers : active'[k] = v <=> job_id'[v] = k
    BY <2>2, <2>4, SentinelAssumption DEF Books, Attached
  <2>6. \A v \in Workers : job_id'[v] # NoJob => v \in pool' \cap ready' /\ job_id'[v] \in Live'
    BY <2>1, <2>2, <2>3, <2>4 DEF Books, Attached
  <2>7. \A k \in Jobs : state'[k] = "running" => active'[k] # NoWorker
    BY <2>1, <2>2, SentinelAssumption DEF Books, Attached
  <2> QED
    BY <2>3, <2>5, <2>6, <2>7 DEF Books, Attached
<1>12. CASE Children
  <2>1. UNCHANGED <<state, ended, active, job_id, ready, pool>>
    BY <1>12 DEF Children, ChildReady, ChildStart, ChildReply, ChildExit, jobVars, poolVars
  <2> QED
    BY <2>1, SameBooks
<1>13. ASSUME \/ CoordExit \/ PollEmpty \/ CheckDead \/ CheckAlive \/ DispatchDone
              \/ Replenish \/ StartRefused \/ LeaveReaping \/ DrainBegin \/ CloseBegin
              \/ CloseJoined \/ CloseReap \/ BackoffEnds \/ UNCHANGED vars
              \/ \E w \in Workers : PickWorker(w) \/ SendMessage(w) \/ StartWorker(w) \/ DrainEmpty(w)
       PROVE  Books'
  <2>1. UNCHANGED <<state, ended, active, job_id, ready, pool>>
    BY <1>13 DEF CoordExit, PollEmpty, CheckDead, CheckAlive, DispatchDone,
         Replenish, StartRefused, LeaveReaping, DrainBegin, CloseBegin, CloseJoined, CloseReap, BackoffEnds,
         PickWorker, SendMessage, StartWorker, DrainEmpty, vars, jobVars, poolVars, childVars, pcVars
  <2> QED
    BY <2>1, SameBooks
<1>14. CASE JoinPool \/ Discard \/ CloseFinal \/ \E K \in SUBSET reapable : Reap(K)
  <2>1. UNCHANGED <<state, ended, active, job_id, ready>> /\ pool \subseteq pool'
    BY <1>14 DEF JoinPool, Discard, CloseFinal, Reap, jobVars
  <2> QED
    BY <2>1, SameBooks
<1> QED
  BY <1>1, <1>2, <1>3, <1>4, <1>5, <1>6, <1>7, <1>8, <1>9, <1>10, <1>11, <1>12, <1>13, <1>14
     DEF Next, Requests, Coordinate, DrainSteps, CloseSteps

LEMMA BooksInit == Init => Books
<1> SUFFICES ASSUME Init
             PROVE  Books
  OBVIOUS
<1>1. CountedOnce
  BY DEF Init, CountedOnce, Outcomes
<1>2. Attached
  BY SentinelAssumption DEF Init, Attached, Live
<1> QED
  BY <1>1, <1>2 DEF Books

(* Every job that is over was counted exactly once, however many ways of   *)
(* ending it race.                                                         *)
THEOREM JobsCountedOnce == Safety => []CountedOnce
<1>1. TypeOK /\ TypeOK' /\ Books /\ [Next]_vars => Books'
  BY BooksStep
<1>2. Books => CountedOnce
  BY DEF Books
<1> QED
  BY <1>1, <1>2, BooksInit, TypeCorrect, PTL DEF Safety

(* The two maps between jobs and children agree at every step.             *)
THEOREM JobsAttached == Safety => []Attached
<1>1. TypeOK /\ Books /\ [Next]_vars => Books'
  BY BooksStep
<1>2. Books => Attached
  BY DEF Books
<1> QED
  BY <1>1, <1>2, BooksInit, TypeCorrect, PTL DEF Safety

-----------------------------------------------------------------------------
(* Who holds which child, and the hold of the lock.                        *)
Threads == Control /\ Membership

(* What a retirement of the children of W leaves.                          *)
Retired(W) ==
  /\ pool' = pool \ W /\ retiring' = retiring \cup W
  /\ ready' = ready \ (W \ retiring)
  /\ \A w \in Workers : outbox'[w] = IF w \in W \ retiring THEN <<>> ELSE outbox[w]

LEMMA AbortRetires ==
  ASSUME TypeOK, Books, NEW J \in SUBSET Live, NEW code, NEW X, Abort(J, code, X)
  PROVE  \E W \in SUBSET pool : Retired(W)
<1> DEFINE W == {active[j] : j \in J} \ {NoWorker}
<1>1. W \in SUBSET pool
  <2> SUFFICES ASSUME NEW j \in J, active[j] # NoWorker
               PROVE  active[j] \in pool
    OBVIOUS
  <2>1. j \in Jobs /\ active[j] \in Workers
    BY DEF Live, TypeOK
  <2>2. job_id[active[j]] = j
    BY <2>1 DEF Books, Attached
  <2> QED
    BY <2>1, <2>2, SentinelAssumption DEF Books, Attached
<1>2. Retired(W)
  BY DEF Abort, Retire, Retired
<1> QED
  BY <1>1, <1>2

LEMMA LoseRetires ==
  ASSUME TypeOK, Membership, NEW w \in Workers, NEW died, NEW owned, Lose(w, died, owned)
  PROVE  Retired({w})
<1>1. CASE w \in retiring
  BY <1>1 DEF Lose, Retired, retireVars, Membership
<1>2. CASE w \notin retiring
  BY <1>2 DEF Lose, Retired, Retire
<1> QED
  BY <1>1, <1>2

LEMMA RetiredMembership ==
  ASSUME TypeOK, Membership, NEW W \in SUBSET (pool \cup retiring), Retired(W),
         child' = child, Joining' = Joining, polling' \subseteq polling, reapable' \subseteq retiring',
         pc' \in {"poll", "check", "repoll"} => cur' \in pool \cup retiring,
         \A w \in Workers : sending'[w] # NoJob => sending[w] # NoJob
  PROVE  Membership'
<1>1. (pool \cup retiring)' = pool \cup retiring
  BY DEF Retired
<1> QED
  BY <1>1 DEF Membership, Retired, TypeOK

LEMMA ReceiveMembership ==
  ASSUME TypeOK, Membership, NEW w \in pool \cup retiring, Receive(w),
         Joining' = Joining, polling' \subseteq polling, reapable' = reapable,
         pc' \in {"poll", "check", "repoll"} => cur' \in pool \cup retiring
  PROVE  Membership'
<1>1. w \in pool /\ w \in Workers /\ w \notin retiring
  BY DEF Membership, Receive, TypeOK
<1>2. CASE Ends(w, Head(outbox[w])) /\ served[w] >= MaxJobs
  <2>1. Retired({w})
    BY <1>2 DEF Receive, Retired, Retire
  <2>2. child' = child /\ sending' = sending /\ reapable' \subseteq retiring'
    BY <1>2 DEF Receive, Membership, Retire
  <2>3. {w} \in SUBSET (pool \cup retiring)
    OBVIOUS
  <2> QED
    BY <2>1, <2>2, <2>3, RetiredMembership
<1>3. CASE ~(Ends(w, Head(outbox[w])) /\ served[w] >= MaxJobs)
  <2>1. /\ outbox' = [outbox EXCEPT ![w] = Tail(@)]
        /\ ready' \subseteq ready \cup {w}
        /\ UNCHANGED <<pool, retiring, child, sending>>
    BY <1>3 DEF Receive
  <2>2. \A v \in retiring : outbox'[v] = <<>>
    BY <1>1, <2>1 DEF Membership, TypeOK
  <2> QED
    BY <1>1, <2>1, <2>2 DEF Membership
<1> QED
  BY <1>2, <1>3

LEMMA ThreadsInit == Init => Threads
<1> SUFFICES ASSUME Init
             PROVE  Threads
  OBVIOUS
<1>1. Joining = {}
  BY DEF Init, Joining
<1>2. Control
  BY DEF Init, Control, LockedPcs, Sends
<1>3. Membership
  BY <1>1 DEF Init, Membership
<1> QED
  BY <1>2, <1>3 DEF Threads

(* Requests and children.                                                  *)
LEMMA ThreadsOutside ==
  ASSUME TypeOK, Books, Threads, Requests \/ Children \/ BackoffEnds
  PROVE  Threads'
<1>1. ASSUME NEW X \in SUBSET Over, (\E j \in Jobs : Submit(j, X)) \/ Get(X) \/ BackoffEnds
      PROVE  Threads'
  <2>1. /\ UNCHANGED <<pool, retiring, ready, sending, childVars, pcVars>>
    BY <1>1 DEF Submit, Get, BackoffEnds, poolVars
  <2> QED
    BY <2>1 DEF Threads, Control, Membership, Joining, Sends, childVars, pcVars
<1>2. ASSUME NEW X \in SUBSET Over, NEW j \in Jobs, Cancel(j, X)
      PROVE  Threads'
  <2>1. \E W \in SUBSET pool : Retired(W)
    <3>1. {j} \in SUBSET Live /\ Abort({j}, All({j}, "cancelled"), X)
      BY <1>2 DEF Cancel
    <3> QED
      BY <3>1, AbortRetires
  <2>2. PICK W \in SUBSET pool : Retired(W)
    BY <2>1
  <2>3. UNCHANGED <<sending, child, pcVars>>
    BY <1>2 DEF Cancel
  <2>4. Control'
    BY <2>3 DEF Threads, Control, Sends, pcVars
  <2>5. Membership'
    <3>1. W \in SUBSET (pool \cup retiring) /\ reapable' \subseteq retiring' /\ Joining' = Joining
      BY <2>2, <2>3 DEF Threads, Membership, Retired, Joining, pcVars
    <3> QED
      BY <2>2, <2>3, <3>1, RetiredMembership DEF Threads, Membership, pcVars
  <2> QED
    BY <2>4, <2>5 DEF Threads
<1>3. ASSUME NEW w \in Workers,
             ChildReady(w) \/ ChildStart(w) \/ ChildExit(w) \/ \E kind \in Kinds : ChildReply(w, kind)
      PROVE  Threads'
  <2>1. UNCHANGED <<pool, retiring, ready, sending, pcVars>>
    BY <1>3 DEF ChildReady, ChildStart, ChildExit, ChildReply, poolVars
  <2>2. \A v \in Workers : (child'[v] = "none" <=> child[v] = "none") /\ (child[v] = "gone" => child'[v] = "gone")
    BY <1>3 DEF ChildReady, ChildStart, ChildExit, ChildReply, Alive, TypeOK
  <2>3. \A v \in retiring : outbox'[v] = outbox[v]
    <3>1. outbox' = outbox \/ \E m : Say(w, m)
      BY <1>3 DEF ChildReady, ChildStart, ChildExit, ChildReply
    <3> QED
      BY <3>1 DEF Say, TypeOK
  <2>4. Control'
    BY <2>1, <2>2 DEF Threads, Control, Sends, pcVars, TypeOK
  <2>5. Membership'
    BY <2>1, <2>2, <2>3 DEF Threads, Membership, Joining, pcVars
  <2> QED
    BY <2>4, <2>5 DEF Threads
<1> QED
  BY <1>1, <1>2, <1>3 DEF Requests, Children

(* The coordinator reads pipes.                                            *)
LEMMA ThreadsScan ==
  ASSUME TypeOK, Books, Threads,
         \/ \E X \in SUBSET Over : CoordBegin(X)
         \/ CoordExit \/ CoordReceive \/ PollEmpty \/ CoordEOF
         \/ CheckDead \/ CheckAlive \/ CheckSlow
         \/ \E w \in Workers : PickWorker(w)
  PROVE  Threads'
<1>1. ASSUME NEW X \in SUBSET Over, CoordBegin(X)
      PROVE  Threads'
  <2>1. /\ pc = "wait" /\ drain # "busy" /\ pc' = "scan" /\ polling' = pool
        /\ UNCHANGED <<pool, retiring, ready, sending, childVars, cur, reapable, drain, stopping, closing>>
    BY <1>1 DEF CoordBegin, LockFree, poolVars
  <2> QED
    BY <2>1 DEF Threads, Control, Membership, Joining, Sends, childVars
<1>2. CASE CoordReceive
  <2>1. cur \in pool \cup retiring /\ pc \in {"poll", "repoll"} /\ pc' \in {"poll", "check", "repoll"}
    BY <1>2 DEF CoordReceive, Threads, Membership
  <2>2. UNCHANGED <<sending, child, cur, polling, reapable, drain>>
    BY <1>2 DEF CoordReceive, Receive
  <2>3. Control'
    BY <2>1, <2>2 DEF Threads, Control, Sends, LockedPcs
  <2>4. Joining' = Joining
    BY <2>1 DEF Joining
  <2>5. Membership'
    <3>1. Receive(cur)
      BY <1>2 DEF CoordReceive
    <3> QED
      BY <2>1, <2>2, <2>4, <3>1, ReceiveMembership DEF Threads
  <2> QED
    BY <2>3, <2>5 DEF Threads
<1>3. ASSUME CoordEOF \/ CheckSlow
      PROVE  Threads'
  <2>1. /\ cur \in Workers /\ cur \in pool \cup retiring /\ \E died \in BOOLEAN : Lose(cur, died, Sends)
        /\ pc \in {"poll", "repoll", "check"} /\ pc' = "scan" /\ cur' = NoWorker
        /\ UNCHANGED <<sending, child, polling, reapable, drain>>
    BY <1>3 DEF CoordEOF, CheckSlow, TypeOK, Threads, Membership
  <2>2. Retired({cur})
    BY <2>1, LoseRetires DEF Threads
  <2>3. Control'
    BY <2>1 DEF Threads, Control, Sends, LockedPcs
  <2>4. Joining' = Joining /\ reapable' \subseteq retiring'
    BY <2>1, <2>2 DEF Joining, Retired, Threads, Membership
  <2>5. Membership'
    <3>1. {cur} \in SUBSET (pool \cup retiring)
      BY <2>1
    <3> QED
      BY <2>1, <2>2, <2>4, <3>1, RetiredMembership DEF Threads
  <2> QED
    BY <2>3, <2>5 DEF Threads
<1>4. ASSUME CoordExit \/ PollEmpty \/ CheckDead \/ CheckAlive \/ \E w \in Workers : PickWorker(w)
      PROVE  Threads'
  <2>1. UNCHANGED <<pool, retiring, ready, sending, childVars, drain>>
    BY <1>4 DEF CoordExit, PollEmpty, CheckDead, CheckAlive, PickWorker, poolVars
  <2>2. Control'
    BY <1>4, <2>1 DEF CoordExit, PollEmpty, CheckDead, CheckAlive, PickWorker, Threads, Control, Sends, LockedPcs,
       childVars
  <2>3. Joining = {} /\ Joining' = {}
    BY <1>4 DEF CoordExit, PollEmpty, CheckDead, CheckAlive, PickWorker, Joining
  <2>4. Membership'
    BY <1>4, <2>1, <2>3 DEF CoordExit, PollEmpty, CheckDead, CheckAlive, PickWorker, Threads, Membership, childVars
  <2> QED
    BY <2>2, <2>4 DEF Threads
<1> QED
  BY <1>1, <1>2, <1>3, <1>4

(* It ends jobs, dispatches and sends.                                     *)
LEMMA ThreadsDispatch ==
  ASSUME TypeOK, Books, Threads,
         \/ \E late \in SUBSET Live : JobsStep(late)
         \/ \E j \in Jobs, w \in Workers : Attach(j, w)
         \/ DispatchDone \/ SendDone
         \/ \E w \in Workers : SendMessage(w)
  PROVE  Threads'
<1>1. ASSUME NEW late \in SUBSET Live, JobsStep(late)
      PROVE  Threads'
  <2> DEFINE J    == Due(late) \cup (IF Draining THEN Queued ELSE {})
             code == [j \in Jobs |-> IF j \in late THEN "timed_out" ELSE "service_restarted"]
  <2>1. /\ J \in SUBSET Live /\ Abort(J, code, {})
        /\ pc = "scan" /\ polling = {} /\ pc' = "dispatch"
        /\ UNCHANGED <<sending, child, cur, polling, reapable, drain>>
    BY <1>1 DEF JobsStep, Due, Queued, Live, Unfinished
  <2> HIDE DEF J, code
  <2>2. PICK W \in SUBSET pool : Retired(W)
    BY <2>1, AbortRetires
  <2>3. Control'
    BY <2>1 DEF Threads, Control, Sends, LockedPcs
  <2>4. Joining' = Joining /\ reapable' \subseteq retiring' /\ W \in SUBSET (pool \cup retiring)
    BY <2>1, <2>2 DEF Joining, Retired, Threads, Membership
  <2>5. Membership'
    BY <2>1, <2>2, <2>4, RetiredMembership DEF Threads
  <2> QED
    BY <2>3, <2>5 DEF Threads
<1>2. ASSUME NEW j \in Jobs, NEW w \in Workers, Attach(j, w)
      PROVE  Threads'
  <2>1. /\ pc = "dispatch" /\ w \in pool
        /\ UNCHANGED <<pool, retiring, ready, childVars, pcVars>>
        /\ \A v \in Workers : sending'[v] # NoJob => v = w \/ sending[v] # NoJob
    BY <1>2 DEF Attach, Idle, TypeOK
  <2>2. Control'
    BY <2>1 DEF Threads, Control, Sends, pcVars, childVars
  <2>3. Membership'
    BY <2>1 DEF Threads, Membership, Joining, pcVars, childVars
  <2> QED
    BY <2>2, <2>3 DEF Threads
<1>3. CASE DispatchDone
  <2>1. UNCHANGED <<pool, retiring, ready, sending, childVars, cur, polling, drain>>
        /\ pc = "dispatch" /\ pc' = "send" /\ reapable' = retiring
    BY <1>3 DEF DispatchDone, poolVars
  <2> QED
    BY <2>1 DEF Threads, Control, Membership, Joining, Sends, childVars, LockedPcs
<1>4. ASSUME NEW w \in Workers, SendMessage(w)
      PROVE  Threads'
  <2>1. UNCHANGED <<pool, retiring, ready, sending, child, outbox, polling, reapable, drain>>
        /\ pc = "send" /\ pc' \in {"sent", "unsent"} /\ cur' = w /\ sending[w] # NoJob
        /\ (pc' = "unsent" => child[w] = "gone")
    BY <1>4 DEF SendMessage, poolVars, Sends
  <2> QED
    BY <2>1 DEF Threads, Control, Membership, Joining, Sends, LockedPcs
<1>5. CASE SendDone
  <2>1. /\ cur \in Workers /\ sending[cur] # NoJob /\ pc \in {"sent", "unsent"}
        /\ pc' = "send" /\ cur' = NoWorker /\ sending' = [sending EXCEPT ![cur] = NoJob]
        /\ UNCHANGED <<child, polling, reapable, drain>>
    BY <1>5 DEF SendDone, TypeOK, Threads, Control
  <2>2. cur \in pool \cup retiring
    BY <2>1 DEF Threads, Membership
  <2>3. \E W \in SUBSET {cur} : Retired(W)
    <3>1. CASE cur \notin retiring /\ pc = "unsent"
      BY <1>5, <2>1, <3>1, LoseRetires DEF SendDone, Threads
    <3>2. CASE ~(cur \notin retiring /\ pc = "unsent")
      <4>1. UNCHANGED <<pool, retiring, ready, outbox>>
        BY <1>5, <3>2 DEF SendDone, retireVars
      <4>2. Retired({})
        BY <4>1 DEF Retired
      <4> QED
        BY <4>2
    <3> QED
      BY <3>1, <3>2
  <2>4. PICK W \in SUBSET {cur} : Retired(W)
    BY <2>3
  <2>5. Control'
    BY <2>1 DEF Threads, Control, Sends, LockedPcs
  <2>6. /\ Joining' = Joining /\ reapable' \subseteq retiring' /\ W \in SUBSET (pool \cup retiring)
        /\ \A v \in Workers : sending'[v] # NoJob => sending[v] # NoJob
    BY <2>1, <2>2, <2>4 DEF Joining, Retired, Threads, Membership, TypeOK
  <2>7. Membership'
    BY <2>1, <2>4, <2>6, RetiredMembership DEF Threads
  <2> QED
    BY <2>5, <2>7 DEF Threads
<1> QED
  BY <1>1, <1>2, <1>3, <1>4, <1>5

(* It starts children and reaps them.                                      *)
LEMMA ThreadsStarts ==
  ASSUME TypeOK, Books, Threads,
         \/ Replenish \/ StartRefused \/ JoinPool \/ StartFailed \/ Discard
         \/ \E w \in Workers : StartWorker(w)
         \/ \E K \in SUBSET reapable : Reap(K)
         \/ LeaveReaping
  PROVE  Threads'
<1>1. ASSUME Replenish \/ StartRefused \/ StartFailed \/ LeaveReaping
      PROVE  Threads'
  <2>1. /\ UNCHANGED <<pool, retiring, ready, sending, childVars, cur, polling, drain>>
        /\ reapable' \subseteq reapable
    BY <1>1 DEF Replenish, StartRefused, StartFailed, LeaveReaping, poolVars
  <2>2. Control'
    BY <1>1, <2>1 DEF Replenish, StartRefused, StartFailed, LeaveReaping, Threads, Control, Sends, LockedPcs, childVars
  <2>3. Joining = {} /\ Joining' = {}
    BY <1>1, <2>1 DEF Replenish, StartRefused, StartFailed, LeaveReaping, Joining, Threads, Control
  <2>4. Membership'
    BY <1>1, <2>1, <2>3 DEF Replenish, StartRefused, StartFailed, LeaveReaping, Threads, Membership, childVars
  <2> QED
    BY <2>2, <2>4 DEF Threads
<1>2. CASE JoinPool
  <2>1. /\ UNCHANGED <<retiring, ready, sending, childVars, polling, reapable, drain>>
        /\ pc = "join" /\ cur # NoWorker /\ cur \in Workers
    BY <1>2 DEF JoinPool, TypeOK
  <2>2. Joining = {cur}
    BY <2>1 DEF Joining
  <2>3. CASE stopping
    BY <1>2, <2>1, <2>2, <2>3 DEF JoinPool, Threads, Control, Membership, Joining, Sends, childVars, LockedPcs
  <2>4. CASE ~stopping
    <3>1. pc' = "send" /\ pool' = pool \cup {cur} /\ cur' = NoWorker
      BY <1>2, <2>4 DEF JoinPool
    <3>2. Joining' = {}
      BY <3>1 DEF Joining
    <3>3. Control'
      BY <2>1, <3>1 DEF Threads, Control, Sends, LockedPcs, childVars
    <3>4. Membership'
      BY <2>1, <2>2, <3>1, <3>2 DEF Threads, Membership, childVars
    <3> QED
      BY <3>3, <3>4 DEF Threads
  <2> QED
    BY <2>3, <2>4
<1>3. CASE Discard
  <2>1. /\ pc = "discard" /\ cur \in Workers /\ cur # NoWorker /\ pc' = "reap" /\ cur' = NoWorker
        /\ UNCHANGED <<pool, retiring, ready, sending, polling, reapable, drain>>
        /\ \A w \in Workers : child'[w] = IF w = cur THEN "none" ELSE child[w]
        /\ \A w \in Workers : outbox'[w] = IF w = cur THEN <<>> ELSE outbox[w]
    BY <1>3, SentinelAssumption DEF Discard, TypeOK, Forget
  <2>2. Joining = {cur} /\ Joining' = {}
    BY <2>1 DEF Joining
  <2>3. Control'
    BY <2>1 DEF Threads, Control, Sends, LockedPcs
  <2>4. Membership'
    BY <2>1, <2>2 DEF Threads, Membership, TypeOK
  <2> QED
    BY <2>3, <2>4 DEF Threads
<1>4. ASSUME NEW w \in Workers, StartWorker(w)
      PROVE  Threads'
  <2>1. /\ pc = "start" /\ child[w] = "none" /\ child' = [child EXCEPT ![w] = "loading"]
        /\ pc' = "join" /\ cur' = w /\ w # NoWorker
        /\ UNCHANGED <<pool, retiring, ready, sending, outbox, polling, reapable, drain>>
    BY <1>4, SentinelAssumption DEF StartWorker, Free, poolVars
  <2>2. Joining = {} /\ Joining' = {w}
    BY <2>1 DEF Joining
  <2>3. Control'
    BY <2>1 DEF Threads, Control, Sends, LockedPcs
  <2>4. Membership'
    BY <2>1, <2>2 DEF Threads, Membership, TypeOK
  <2> QED
    BY <2>3, <2>4 DEF Threads
<1>5. ASSUME NEW K \in SUBSET reapable, Reap(K)
      PROVE  Threads'
  <2> DEFINE gone == {w \in reapable : child[w] = "gone"}
  <2>1. /\ pc = "reap" /\ pc' = "wait" /\ reapable' = {} /\ drain # "busy"
        /\ UNCHANGED <<pool, ready, sending, cur, polling, drain>> /\ retiring' = retiring \ gone
        /\ \A w \in Workers : child'[w] = IF w \in gone THEN "none" ELSE child[w]
        /\ \A w \in Workers : outbox'[w] = IF w \in gone THEN <<>> ELSE outbox[w]
    BY <1>5 DEF Reap, Forget, LockFree
  <2>2. gone \subseteq retiring /\ polling = {} /\ Sends = {}
    BY <2>1 DEF Threads, Membership, Control
  <2> HIDE DEF gone
  <2>3. Joining = {} /\ Joining' = {}
    BY <2>1 DEF Joining
  <2>4. Control'
    BY <2>1, <2>2 DEF Threads, Control, Sends, LockedPcs
  <2>5. Membership'
    BY <2>1, <2>2, <2>3 DEF Threads, Membership, Sends, TypeOK
  <2> QED
    BY <2>4, <2>5 DEF Threads
<1> QED
  BY <1>1, <1>2, <1>3, <1>4, <1>5

(* The service drains and closes.                                          *)
LEMMA ThreadsStops ==
  ASSUME TypeOK, Books, Threads, DrainBegin \/ DrainSteps \/ CloseBegin \/ CloseSteps
  PROVE  Threads'
<1>1. CASE DrainBegin
  <2>1. /\ pc \notin LockedPcs /\ drain' = "busy" /\ polling' = pool
        /\ UNCHANGED <<pool, retiring, ready, sending, childVars, pc, cur, reapable>>
    BY <1>1 DEF DrainBegin, LockFree, poolVars
  <2> QED
    BY <2>1 DEF Threads, Control, Membership, Joining, Sends, childVars, LockedPcs
<1>2. ASSUME NEW w \in Workers, DrainReceive(w)
      PROVE  Threads'
  <2>1. /\ w \in pool \cup retiring /\ drain = "busy" /\ polling' \subseteq polling /\ Receive(w)
        /\ UNCHANGED <<pc, cur, reapable, drain>>
    BY <1>2 DEF DrainReceive, Threads, Membership
  <2>2. UNCHANGED <<sending, child>>
    BY <2>1 DEF Receive
  <2>3. Control'
    BY <2>1, <2>2 DEF Threads, Control, Sends
  <2>4. Joining' = Joining /\ (pc' \in {"poll", "check", "repoll"} => cur' \in pool \cup retiring)
    BY <2>1 DEF Joining, Threads, Membership
  <2>5. Membership'
    BY <2>1, <2>4, ReceiveMembership DEF Threads
  <2> QED
    BY <2>3, <2>5 DEF Threads
<1>3. ASSUME NEW w \in Workers, DrainEmpty(w)
      PROVE  Threads'
  <2>1. /\ drain = "busy" /\ polling' \subseteq polling
        /\ UNCHANGED <<pool, retiring, ready, sending, childVars, pc, cur, reapable, drain>>
    BY <1>3 DEF DrainEmpty, poolVars
  <2> QED
    BY <2>1 DEF Threads, Control, Membership, Joining, Sends, childVars, LockedPcs
<1>4. ASSUME NEW w \in Workers, DrainEOF(w)
      PROVE  Threads'
  <2>1. /\ w \in pool \cup retiring /\ drain = "busy" /\ polling' \subseteq polling /\ Lose(w, TRUE, Sends)
        /\ UNCHANGED <<sending, child, pc, cur, reapable, drain>>
    BY <1>4 DEF DrainEOF, Threads, Membership
  <2>2. Retired({w})
    BY <2>1, LoseRetires DEF Threads
  <2>3. Control'
    BY <2>1 DEF Threads, Control, Sends
  <2>4. /\ Joining' = Joining /\ (pc' \in {"poll", "check", "repoll"} => cur' \in pool \cup retiring)
        /\ reapable' \subseteq retiring' /\ {w} \in SUBSET (pool \cup retiring)
    BY <2>1, <2>2 DEF Joining, Threads, Membership, Retired
  <2>5. Membership'
    BY <2>1, <2>2, <2>4, RetiredMembership DEF Threads
  <2> QED
    BY <2>3, <2>5 DEF Threads
<1>5. CASE DrainFinish
  <2>1. /\ Queued \in SUBSET Live /\ Abort(Queued, All(Queued, "service_restarted"), {})
        /\ polling = {} /\ drain = "busy" /\ drain' = "done"
        /\ UNCHANGED <<sending, child, pc, cur, polling, reapable>>
    BY <1>5 DEF DrainFinish, Queued, Live, Unfinished
  <2>2. PICK W \in SUBSET pool : Retired(W)
    BY <2>1, AbortRetires
  <2>3. Control'
    BY <2>1 DEF Threads, Control, Sends
  <2>4. /\ Joining' = Joining /\ (pc' \in {"poll", "check", "repoll"} => cur' \in pool \cup retiring)
        /\ reapable' \subseteq retiring' /\ W \in SUBSET (pool \cup retiring)
    BY <2>1, <2>2 DEF Joining, Threads, Membership, Retired
  <2>5. Membership'
    BY <2>1, <2>2, <2>4, RetiredMembership DEF Threads
  <2> QED
    BY <2>3, <2>5 DEF Threads
<1>6. ASSUME CloseBegin \/ CloseJoined
      PROVE  Threads'
  <2>1. UNCHANGED <<pool, retiring, ready, sending, childVars, pc, cur, polling, reapable, drain>>
    BY <1>6 DEF CloseBegin, CloseJoined, poolVars
  <2> QED
    BY <2>1 DEF Threads, Control, Membership, Joining, Sends, childVars
<1>7. CASE CloseJobs
  <2> DEFINE held == {active[j] : j \in Live} \ {NoWorker}
  <2>1. held \subseteq pool
    <3> SUFFICES ASSUME NEW j \in Live, active[j] # NoWorker
                 PROVE  active[j] \in pool
      OBVIOUS
    <3>1. j \in Jobs /\ active[j] \in Workers
      BY DEF Live, TypeOK
    <3> QED
      BY <3>1, SentinelAssumption DEF Books, Attached
  <2>2. Retire(pool \cup held, pool \ held, Sends) /\ UNCHANGED <<sending, child, pc, cur, polling, reapable, drain>>
    BY <1>7 DEF CloseJobs
  <2> HIDE DEF held
  <2>3. Retired(pool)
    <3>1. pool \cup held = pool
      BY <2>1
    <3> QED
      BY <2>2, <3>1 DEF Retire, Retired
  <2>4. Control'
    BY <2>2 DEF Threads, Control, Sends
  <2>5. /\ Joining' = Joining /\ (pc' \in {"poll", "check", "repoll"} => cur' \in pool \cup retiring)
        /\ reapable' \subseteq retiring' /\ pool \in SUBSET (pool \cup retiring)
    BY <2>2, <2>3 DEF Joining, Threads, Membership, Retired
  <2>6. Membership'
    BY <2>2, <2>3, <2>5, RetiredMembership DEF Threads
  <2> QED
    BY <2>4, <2>6 DEF Threads
<1>8. CASE CloseReap
  <2>1. /\ UNCHANGED <<pool, retiring, ready, sending, outbox, pc, cur, polling, reapable, drain>>
        /\ \A w \in Workers : child'[w] = IF w \in retiring THEN "gone" ELSE child[w]
    BY <1>8 DEF CloseReap, poolVars
  <2>2. Control'
    BY <2>1 DEF Threads, Control, Sends, TypeOK
  <2>3. Membership'
    BY <2>1 DEF Threads, Membership, Joining
  <2> QED
    BY <2>2, <2>3 DEF Threads
<1>9. CASE CloseFinal
  <2>1. /\ pc = "done" /\ drain # "busy" /\ retiring' = {}
        /\ UNCHANGED <<pool, ready, sending, pc, cur, polling, reapable, drain>>
        /\ \A w \in Workers : child'[w] = IF w \in retiring THEN "none" ELSE child[w]
    BY <1>9 DEF CloseFinal, Forget, LockFree
  <2>2. polling = {} /\ Sends = {} /\ reapable = {}
    BY <2>1 DEF Threads, Control
  <2>3. Control'
    BY <2>1, <2>2 DEF Threads, Control, Sends
  <2>4. Joining = {} /\ Joining' = {}
    BY <2>1 DEF Joining
  <2>5. Membership'
    BY <2>1, <2>2, <2>4 DEF Threads, Membership, Sends
  <2> QED
    BY <2>3, <2>5 DEF Threads
<1> QED
  BY <1>1, <1>2, <1>3, <1>4, <1>5, <1>6, <1>7, <1>8, <1>9 DEF DrainSteps, CloseSteps

LEMMA ThreadsStep ==
  ASSUME TypeOK, Books, Threads, [Next]_vars
  PROVE  Threads'
<1>1. CASE UNCHANGED vars
  BY <1>1 DEF Threads, Control, Membership, Joining, Sends, vars, poolVars, childVars, pcVars
<1>2. CASE Requests \/ Children \/ BackoffEnds
  BY <1>2, ThreadsOutside
<1>3. CASE Coordinate
  BY <1>3, ThreadsScan, ThreadsDispatch, ThreadsStarts DEF Coordinate
<1>4. CASE DrainBegin \/ DrainSteps \/ CloseBegin \/ CloseSteps
  BY <1>4, ThreadsStops
<1> QED
  BY <1>1, <1>2, <1>3, <1>4 DEF Next
-----------------------------------------------------------------------------
(* The last layer of the inductive invariant: what each pipe can hold, and *)
(* in how many places a job may still begin.                               *)

(* A child whose own variables, job and place do not change.               *)
LEMMA SamePipe ==
  ASSUME NEW w \in Workers, Pipe(w),
         child'[w] = child[w], task'[w] = task[w], inbox'[w] = inbox[w], outbox'[w] = outbox[w],
         job_id'[w] = job_id[w], sending'[w] \in {sending[w], NoJob},
         w \in ready' <=> w \in ready,
         Undelivered(w)' => Undelivered(w),
         w \in (pool \cup Joining)' => w \in pool \cup Joining,
         w \in pool \cup Joining /\ job_id[w] # NoJob =>
           state'[job_id[w]] = state[job_id[w]] /\ ran'[job_id[w]] = ran[job_id[w]]
  PROVE  Pipe(w)'
<1>1. CASE w \notin (pool \cup Joining)'
  BY <1>1 DEF Pipe
<1>2. CASE w \in (pool \cup Joining)' /\ job_id[w] = NoJob
  <2>1. Unattached(w)'
    BY <1>2 DEF Pipe, Unattached
  <2> QED
    BY <1>2, <2>1 DEF Pipe
<1>3. CASE w \in (pool \cup Joining)' /\ job_id[w] # NoJob
  <2> DEFINE j == job_id[w]
  <2>1. CASE NotBegun(w, j)
    <3>1. NotBegun(w, j)'
      BY <1>3, <2>1 DEF NotBegun
    <3> QED
      BY <1>3, <3>1 DEF Pipe
  <2>2. CASE Begun(w, j)
    <3>1. Begun(w, j)'
      BY <1>3, <2>2 DEF Begun
    <3> QED
      BY <1>3, <3>1 DEF Pipe
  <2> QED
    BY <1>3, <2>1, <2>2 DEF Pipe
<1> QED
  BY <1>1, <1>2, <1>3

(* A child that is neither in service nor joining.                         *)
LEMMA LeavingPipe ==
  ASSUME NEW w \in Workers, Pipe(w),
         child'[w] = child[w], task'[w] = task[w], inbox'[w] = inbox[w], outbox'[w] \in {outbox[w], <<>>},
         sending'[w] \in {sending[w], NoJob}, w \notin (pool \cup Joining)'
  PROVE  Pipe(w)'
BY DEF Pipe

(* No job begins, and jobs move on, each as its place in the pipes allows. *)
LEMMA BeginningsKept ==
  ASSUME TypeOK, Beginnings, ran' = ran,
         \A w \in Workers : inbox'[w] \in {inbox[w], NoJob} /\ (child[w] = "gone" => child'[w] = "gone"),
         \A w \in Workers : Undelivered(w)' => Undelivered(w) /\ sending'[w] = sending[w],
         \A j \in Jobs : \/ state'[j] = state[j]
                         \/ state'[j] \in Ended \cup {"queued", "running"} /\ state[j] \notin Ended
                         \/ state'[j] = "expired"
                         \/ state'[j] = "worker_start_failed" /\ j \in Waiting,
         \A j \in Waiting' : ran[j] = 0,
         \A w \in Workers : inbox[w] # NoJob /\ job_id[w] = inbox[w] /\ job_id'[w] # inbox[w] =>
           state'[inbox[w]] \in Ended,
         \A w \in Workers : Undelivered(w)' /\ job_id[w] = sending[w] /\ job_id'[w] # sending[w] =>
           state'[sending[w]] \in Ended \/ child[w] = "gone",
         pc' = "dispatch" => \A w \in Sends' : job_id'[w] = sending'[w]
  PROVE  Beginnings'
<1>1. \A j \in Jobs : state'[j] \in {"new", "worker_start_failed"} \/ j \in Waiting' => ran[j] = 0
  <2>1. ASSUME NEW j \in Jobs, state'[j] \in {"new", "worker_start_failed"}
        PROVE  ran[j] = 0
    <3>1. state'[j] \notin Ended \cup {"queued", "running", "expired"}
      BY <2>1 DEF Ended, Outcomes
    <3>2. state'[j] = state[j] \/ j \in Waiting
      BY <3>1
    <3> QED
      BY <2>1, <3>2 DEF Beginnings
  <2> QED
    BY <2>1
<1>2. \A j \in Jobs, w \in Workers : Pending(w, j)' => Pending(w, j)
  BY SentinelAssumption DEF Pending
<1>3. \A j \in Jobs : state[j] # "new" => state'[j] # "new"
  BY DEF Ended, Outcomes
<1>4. \A j \in Jobs : state[j] \in Ended => state'[j] \in Ended
  BY DEF Ended, Outcomes, Waiting
<1>5. \A j \in Jobs, w \in Workers : Pending(w, j)' =>
        ran'[j] = 0 /\ state'[j] # "new" /\ \A v \in Workers : Pending(v, j)' => v = w
  BY <1>2, <1>3 DEF Beginnings
<1>6. \A w \in Workers : inbox'[w] # NoJob =>
        ~Undelivered(w)' /\ (job_id'[w] = inbox'[w] \/ state'[inbox'[w]] \in Ended)
  BY <1>4 DEF Beginnings, TypeOK
<1>7. \A w \in Workers : Undelivered(w)' =>
        job_id'[w] = sending'[w] \/ state'[sending'[w]] \in Ended \/ child'[w] = "gone"
  BY <1>4 DEF Beginnings, TypeOK, Undelivered
<1> QED
  BY <1>1, <1>5, <1>6, <1>7 DEF Beginnings

LEMMA WorkKept ==
  ASSUME Work, Pipes', Beginnings', ran' = ran,
         \A j \in Jobs : state'[j] \in {"running", "succeeded", "task_failed"} => ran[j] = 1
  PROVE  Work'
<1>1. AtMostOnce'
  BY DEF Work, AtMostOnce
<1>2. HonestOutcome'
  BY DEF HonestOutcome, Beginnings
<1> QED
  BY <1>1, <1>2 DEF Work

(* The jobs of J end before their children have, and the children of V go, *)
(* those of J among them.                                                  *)
LEMMA EndWork ==
  ASSUME TypeOK, Books, Threads, Work,
         NEW J \in SUBSET Live, NEW code, NEW X \in SUBSET Over,
         \A j \in J : code[j] \in {"worker_crashed", "service_restarted", "timed_out", "cancelled"},
         NEW W, W = {active[j] : j \in J} \ {NoWorker},
         NEW V \in SUBSET (pool \cup retiring), W \subseteq V, NEW stops, NEW owned,
         Settle(J, code, X), Detach(J, W), Retire(V, stops, owned),
         UNCHANGED <<ran, sending, child, task, inbox>>,
         \A w \in Workers : Undelivered(w)' => Undelivered(w),
         Joining' = Joining, pc' = "dispatch" => Sends = {}
  PROVE  Work'
<1>1. \A j \in Jobs : state'[j] = IF j \in J THEN code[j] ELSE IF j \in X THEN "expired" ELSE state[j]
  BY DEF Settle
<1>2. /\ \A j \in Jobs : active'[j] = IF j \in J THEN NoWorker ELSE active[j]
      /\ \A w \in Workers : job_id'[w] = IF w \in W THEN NoJob ELSE job_id[w]
  BY DEF Detach
<1>3. /\ pool' = pool \ V /\ ready' = ready \ (V \ retiring)
      /\ \A w \in Workers : outbox'[w] = IF w \in V \ retiring THEN <<>> ELSE outbox[w]
  BY DEF Retire
<1>4. J \subseteq Jobs /\ W \subseteq Workers /\ \A w \in Workers : w \in W <=> job_id[w] \in J
  BY SentinelAssumption DEF TypeOK, Books, Attached, Live
<1>5. \A j \in J : state[j] \in Unfinished
  BY DEF Live
<1>6. \A j \in X : j \in Jobs /\ state[j] \in Outcomes
  BY DEF Over
<1>7. Pipes'
  <2> SUFFICES ASSUME NEW w \in Workers
               PROVE  Pipe(w)'
    BY DEF Pipes
  <2>1. Pipe(w)
    BY DEF Work, Pipes
  <2>2. CASE w \in V
    <3>1. w \notin (pool \cup Joining)'
      BY <1>3, <2>2 DEF Threads, Membership
    <3>2. outbox'[w] \in {outbox[w], <<>>}
      BY <1>3
    <3> QED
      BY <2>1, <3>1, <3>2, LeavingPipe
  <2>3. CASE w \notin V
    <3>1. job_id'[w] = job_id[w] /\ outbox'[w] = outbox[w] /\ (w \in ready' <=> w \in ready)
      BY <1>2, <1>3, <2>3
    <3>2. job_id[w] # NoJob => state'[job_id[w]] = state[job_id[w]]
      <4> SUFFICES ASSUME job_id[w] # NoJob
                   PROVE  state'[job_id[w]] = state[job_id[w]]
        OBVIOUS
      <4>1. job_id[w] \in Jobs /\ state[job_id[w]] \in Unfinished
        BY DEF TypeOK, Books, Attached, Live
      <4>2. job_id[w] \notin J /\ job_id[w] \notin X
        BY <1>4, <1>6, <2>3, <4>1 DEF Outcomes, Unfinished
      <4> QED
        BY <1>1, <4>1, <4>2
    <3>3. sending'[w] \in {sending[w], NoJob} /\ (w \in (pool \cup Joining)' => w \in pool \cup Joining)
      BY <1>3
    <3> QED
      BY <2>1, <3>1, <3>2, <3>3, SamePipe
  <2> QED
    BY <2>2, <2>3
<1>8. Beginnings'
  <2>1. Beginnings
    BY DEF Work
  <2>2. \A j \in J : state'[j] \in Ended /\ state[j] \notin Ended
    BY <1>1, <1>4, <1>5 DEF Ended, Outcomes, Unfinished
  <2>3. \A j \in Jobs : j \in J \/ state'[j] = state[j] \/ state'[j] = "expired"
    BY <1>1
  <2>4. \A j \in Waiting' : ran[j] = 0
    <3>1. \A j \in Waiting' : j \in Waiting
      BY <1>1, <1>2 DEF Waiting
    <3> QED
      BY <2>1, <3>1 DEF Beginnings, Waiting
  <2>5. \A w \in Workers : job_id'[w] # job_id[w] => job_id[w] \in J
    BY <1>2, <1>4
  <2>6. pc' = "dispatch" => \A w \in Sends' : job_id'[w] = sending'[w]
    BY DEF Sends
  <2> QED
    BY <2>1, <2>2, <2>3, <2>4, <2>5, <2>6, BeginningsKept
<1>9. \A j \in Jobs : state'[j] \in {"running", "succeeded", "task_failed"} => ran[j] = 1
  <2>1. \A j \in Jobs : state'[j] \in {"running", "succeeded", "task_failed"} => state'[j] = state[j]
    BY <1>1
  <2> QED
    BY <2>1 DEF Work, HonestOutcome
<1> QED
  BY <1>7, <1>8, <1>9, WorkKept

(* Nothing changes but the threads' places.                                *)
LEMMA IdleWork ==
  ASSUME TypeOK, Work,
         UNCHANGED <<state, ran, active, job_id, ready, child, task, inbox, outbox>>,
         \A w \in Workers : sending'[w] \in {sending[w], NoJob},
         \A w \in Workers : Undelivered(w)' => Undelivered(w) /\ sending'[w] = sending[w],
         (pool \cup Joining)' \subseteq pool \cup Joining,
         pc' = "dispatch" => pc = "dispatch" /\ sending' = sending
  PROVE  Work'
<1>1. Pipes'
  <2> SUFFICES ASSUME NEW w \in Workers
               PROVE  Pipe(w)'
    BY DEF Pipes
  <2> QED
    BY SamePipe DEF Work, Pipes
<1>2. Beginnings'
  <2>1. Beginnings /\ Waiting' = Waiting
    BY DEF Work, Waiting
  <2>2. \A j \in Waiting : ran[j] = 0
    BY <2>1 DEF Beginnings, Waiting
  <2>3. pc' = "dispatch" => \A w \in Sends' : job_id'[w] = sending'[w]
    BY <2>1 DEF Beginnings, Sends
  <2> QED
    BY <2>1, <2>2, <2>3, BeginningsKept
<1>3. \A j \in Jobs : state'[j] \in {"running", "succeeded", "task_failed"} => ran[j] = 1
  BY DEF Work, HonestOutcome
<1> QED
  BY <1>1, <1>2, <1>3, WorkKept

(* A child that cannot have begun its job, or whose pipe says it has.      *)
LEMMA LoseWork ==
  ASSUME TypeOK, Books, Threads, Work, NEW w \in pool \cup retiring, NEW died, NEW owned,
         Lose(w, died, owned),
         w \in ready => child[w] = "gone" /\ (outbox[w] = <<>> \/ Undelivered(w)),
         UNCHANGED <<ran, child, task, inbox>>,
         \A v \in Workers : sending'[v] \in {sending[v], NoJob},
         \A v \in Workers : Undelivered(v)' => Undelivered(v) /\ sending'[v] = sending[v],
         Joining' = Joining, pc' # "dispatch"
  PROVE  Work'
<1>1. CASE w \in retiring
  <2>1. UNCHANGED <<state, active, job_id, ready, outbox, pool>>
    BY <1>1 DEF Lose, retireVars
  <2> QED
    BY <2>1, IdleWork
<1>2. CASE w \notin retiring
  <2> DEFINE held   == {j \in Jobs : j = job_id[w] /\ j \in Live}
             again  == {j \in held : state[j] = "queued" /\ j \notin retried}
             failed == IF died /\ w \notin ready THEN Stranded(pool \ {w}) ELSE {}
             code   == [j \in Jobs |-> IF j \in failed THEN "worker_start_failed" ELSE "worker_crashed"]
             J      == (held \ again) \cup failed
  <2>1. /\ Settle(J, code, {}) /\ Detach(held, {w}) /\ Retire({w}, {}, owned)
    BY <1>2 DEF Lose, Finish
  <2>2. w \in Workers /\ w \in pool
    BY <1>2 DEF TypeOK
  <2>3. /\ failed \subseteq Waiting /\ held \subseteq Jobs /\ again \subseteq held
        /\ \A j \in again : state[j] = "queued"
        /\ \A j \in held : j = job_id[w] /\ state[j] \in Unfinished
    BY DEF Stranded, Live
  <2>4. /\ \A j \in Jobs : state'[j] = IF j \in J THEN (IF j \in failed THEN "worker_start_failed" ELSE "worker_crashed")
                                        ELSE state[j]
    BY <2>1 DEF Settle
  <2>5. /\ \A j \in Jobs : active'[j] = IF j \in held THEN NoWorker ELSE active[j]
        /\ \A v \in Workers : job_id'[v] = IF v = w THEN NoJob ELSE job_id[v]
    BY <2>1 DEF Detach
  <2>6. /\ pool' = pool \ {w} /\ ready' = ready \ {w}
        /\ \A v \in Workers : outbox'[v] = IF v = w THEN <<>> ELSE outbox[v]
    BY <1>2, <2>1 DEF Retire
  <2> HIDE DEF held, again, failed, code
  <2>7. \A j \in held : /\ active[j] = w /\ w \in ready /\ child[w] = "gone" /\ inbox[w] = NoJob
                        /\ state[j] = "queued" => ran[j] = 0
    <3> SUFFICES ASSUME NEW j \in held
                 PROVE  /\ active[j] = w /\ w \in ready /\ child[w] = "gone" /\ inbox[w] = NoJob
                        /\ state[j] = "queued" => ran[j] = 0
      OBVIOUS
    <3>1. j \in Jobs /\ job_id[w] = j /\ j # NoJob
      BY <2>3, SentinelAssumption
    <3>2. active[j] = w /\ w \in ready
      BY <2>2, <3>1 DEF Books, Attached
    <3>3. child[w] = "gone" /\ (outbox[w] = <<>> \/ Undelivered(w))
      BY <3>2
    <3>4. Pipe(w)
      BY <2>2 DEF Work, Pipes
    <3>5. inbox[w] = NoJob /\ (NotBegun(w, j) \/ Begun(w, j))
      BY <2>2, <3>1, <3>3, <3>4 DEF Pipe
    <3>6. state[j] = "queued" => ran[j] = 0
      <4>1. CASE NotBegun(w, j)
        BY <4>1 DEF NotBegun
      <4>2. CASE Begun(w, j)
        <5>1. outbox[w] = <<>>
          BY <3>3, <4>2 DEF Begun
        <5>2. <<Started(j)>> # <<>> /\ \A m : <<Started(j), m>> # <<>>
          OBVIOUS
        <5> QED
          BY <4>2, <5>1, <5>2 DEF Begun
      <4> QED
        BY <3>5, <4>1, <4>2
    <3> QED
      BY <3>2, <3>3, <3>5, <3>6
  <2>8. Pipes'
    <3> SUFFICES ASSUME NEW v \in Workers
                 PROVE  Pipe(v)'
      BY DEF Pipes
    <3>1. Pipe(v)
      BY DEF Work, Pipes
    <3>2. CASE v = w
      <4>1. v \notin (pool \cup Joining)' /\ outbox'[v] \in {outbox[v], <<>>}
        BY <2>2, <2>6, <3>2 DEF Threads, Membership
      <4> QED
        BY <3>1, <4>1, LeavingPipe
    <3>3. CASE v # w
      <4>1. job_id'[v] = job_id[v] /\ outbox'[v] = outbox[v] /\ (v \in ready' <=> v \in ready)
        BY <2>5, <2>6, <3>3
      <4>2. v \in (pool \cup Joining)' => v \in pool \cup Joining
        BY <2>6
      <4>3. job_id[v] # NoJob => state'[job_id[v]] = state[job_id[v]]
        <5> SUFFICES ASSUME job_id[v] # NoJob
                     PROVE  state'[job_id[v]] = state[job_id[v]]
          OBVIOUS
        <5>1. job_id[v] \in Jobs /\ active[job_id[v]] = v
          BY DEF TypeOK, Books, Attached
        <5>2. job_id[v] \notin held /\ job_id[v] \notin failed
          BY <2>3, <2>7, <3>3, <5>1, SentinelAssumption DEF Waiting
        <5> QED
          BY <2>4, <5>1, <5>2
      <4> QED
        BY <3>1, <4>1, <4>2, <4>3, SamePipe
    <3> QED
      BY <3>2, <3>3
  <2>9. Beginnings'
    <3>1. Beginnings
      BY DEF Work
    <3>2. \A j \in Jobs :
            \/ state'[j] = state[j]
            \/ state'[j] \in Ended /\ state[j] \notin Ended
            \/ state'[j] = "worker_start_failed" /\ j \in Waiting
      <4> SUFFICES ASSUME NEW j \in Jobs, j \in J
                   PROVE  \/ state'[j] \in Ended /\ state[j] \notin Ended
                          \/ state'[j] = "worker_start_failed" /\ j \in Waiting
        BY <2>4
      <4>1. CASE j \in failed
        BY <2>3, <2>4, <4>1
      <4>2. CASE j \notin failed
        <5>1. j \in held /\ state'[j] = "worker_crashed"
          BY <2>4, <4>2
        <5>2. state[j] \in Unfinished
          BY <2>3, <5>1
        <5> QED
          BY <5>1, <5>2 DEF Ended, Outcomes, Unfinished
      <4> QED
        BY <4>1, <4>2
    <3>3. \A j \in Waiting' : ran[j] = 0
      <4> SUFFICES ASSUME NEW j \in Waiting'
                   PROVE  ran[j] = 0
        OBVIOUS
      <4>1. j \in Jobs /\ state'[j] = "queued" /\ active'[j] = NoWorker
        BY DEF Waiting
      <4>2. state[j] = "queued"
        BY <2>4, <4>1
      <4>3. CASE j \in held
        BY <2>7, <4>2, <4>3
      <4>4. CASE j \notin held
        BY <2>5, <3>1, <4>1, <4>2, <4>4 DEF Beginnings, Waiting
      <4> QED
        BY <4>3, <4>4
    <3>4. \A v \in Workers : job_id'[v] # job_id[v] => v = w
      BY <2>5
    <3>5. job_id[w] # NoJob => child[w] = "gone" /\ inbox[w] = NoJob
      <4> SUFFICES ASSUME job_id[w] # NoJob
                   PROVE  child[w] = "gone" /\ inbox[w] = NoJob
        OBVIOUS
      <4>1. w \in ready
        BY <2>2 DEF Books, Attached
      <4> QED
        BY <2>2, <4>1 DEF Work, Pipes, Pipe
    <3>6. \A v \in Workers : inbox[v] # NoJob /\ job_id[v] = inbox[v] => job_id'[v] = inbox[v]
      BY <3>4, <3>5
    <3>7. \A v \in Workers : Undelivered(v)' /\ job_id[v] = sending[v] /\ job_id'[v] # sending[v] => child[v] = "gone"
      BY <3>4, <3>5 DEF Undelivered
    <3> QED
      BY <3>1, <3>2, <3>3, <3>6, <3>7, BeginningsKept
  <2>10. \A j \in Jobs : state'[j] \in {"running", "succeeded", "task_failed"} => ran[j] = 1
    <3>1. \A j \in Jobs : state'[j] \in {"running", "succeeded", "task_failed"} => state'[j] = state[j]
      BY <2>4
    <3> QED
      BY <3>1 DEF Work, HonestOutcome
  <2> QED
    BY <2>8, <2>9, <2>10, WorkKept
<1> QED
  BY <1>1, <1>2

(* What the holder of the lock can find at the head of a pipe.             *)
LEMMA Heads == \A a, b : Head(<<a>>) = a /\ Tail(<<a>>) = <<>> /\ Head(<<a, b>>) = a /\ Tail(<<a, b>>) = <<b>>
OBVIOUS

LEMMA Reading ==
  ASSUME TypeOK, Books, Threads, Work, NEW w \in pool \cup retiring, Receive(w)
  PROVE  /\ w \in pool /\ w \in Workers /\ w \notin retiring /\ child[w] # "none"
         /\ \/ /\ job_id[w] = NoJob /\ outbox[w] = <<Ready>> /\ w \notin ready /\ Unattached(w)
               /\ child[w] # "loading"
            \/ /\ job_id[w] # NoJob /\ state[job_id[w]] = "queued" /\ Begun(w, job_id[w])
               /\ \/ outbox[w] = <<Started(job_id[w])>>
                  \/ \E m \in Replies(job_id[w]) : outbox[w] = <<Started(job_id[w]), m>> /\ task[w] = NoJob
            \/ /\ job_id[w] # NoJob /\ state[job_id[w]] = "running" /\ Begun(w, job_id[w])
               /\ task[w] = NoJob
               /\ \E m \in Replies(job_id[w]) : outbox[w] = <<m>>
<1>1. outbox[w] # <<>>
  BY DEF Receive
<1>2. w \in pool /\ w \in Workers /\ w \notin retiring
  BY <1>1 DEF Threads, Membership, TypeOK
<1>3. child[w] # "none" /\ Pipe(w)
  BY <1>2 DEF Threads, Membership, Work, Pipes
<1>4. CASE job_id[w] = NoJob
  <2>1. Unattached(w)
    BY <1>2, <1>3, <1>4 DEF Pipe
  <2> QED
    BY <1>1, <1>2, <1>3, <1>4, <2>1 DEF Unattached
<1>5. CASE job_id[w] # NoJob
  <2>1. NotBegun(w, job_id[w]) \/ Begun(w, job_id[w])
    BY <1>2, <1>3, <1>5 DEF Pipe
  <2>2. Begun(w, job_id[w])
    BY <1>1, <2>1 DEF NotBegun
  <2> QED
    BY <1>1, <1>2, <1>3, <1>5, <2>2 DEF Begun
<1> QED
  BY <1>4, <1>5

(* What reading each of them does.                                         *)
ReadReady(w) ==
  /\ UNCHANGED <<state, active, job_id, pool>>
  /\ ready' = ready \cup {w} /\ outbox' = [outbox EXCEPT ![w] = <<>>]

ReadStarted(w) ==
  /\ UNCHANGED <<active, job_id, pool, ready>>
  /\ state' = [state EXCEPT ![job_id[w]] = "running"] /\ outbox' = [outbox EXCEPT ![w] = Tail(@)]

ReadReply(w) ==
  /\ \E outcome \in {"succeeded", "task_failed"} : state' = [state EXCEPT ![job_id[w]] = outcome]
  /\ active' = [active EXCEPT ![job_id[w]] = NoWorker] /\ job_id' = [job_id EXCEPT ![w] = NoJob]
  /\ outbox' = [outbox EXCEPT ![w] = <<>>]
  /\ \/ UNCHANGED <<pool, ready>>
     \/ pool' = pool \ {w} /\ ready' = ready \ {w}

LEMMA ReadingEffect ==
  ASSUME TypeOK, Books, Threads, Work, NEW w \in pool \cup retiring, Receive(w)
  PROVE  \/ job_id[w] = NoJob /\ ReadReady(w)
         \/ job_id[w] # NoJob /\ state[job_id[w]] = "queued" /\ ReadStarted(w)
         \/ job_id[w] # NoJob /\ state[job_id[w]] = "running" /\ ReadReply(w)
<1> DEFINE m == Head(outbox[w])
<1>1. w \in pool /\ w \in Workers /\ w \notin retiring
  BY Reading
<1>2. job_id[w] # NoJob => job_id[w] \in Jobs /\ job_id[w] \in Live /\ active[job_id[w]] = w
  BY <1>1 DEF TypeOK, Books, Attached
<1>3. CASE job_id[w] = NoJob /\ outbox[w] = <<Ready>>
  <2>1. m = Ready /\ Tail(outbox[w]) = <<>>
    BY <1>3, Heads
  <2>2. m.kind = "ready" /\ ~Ends(w, m)
    BY <2>1 DEF Ready, Ends
  <2> HIDE DEF m
  <2> QED
    BY <1>1, <1>3, <2>1, <2>2 DEF Receive, ReadReady, m, TypeOK
<1>4. ASSUME job_id[w] # NoJob, state[job_id[w]] = "queued",
             \/ outbox[w] = <<Started(job_id[w])>>
             \/ \E r \in Replies(job_id[w]) : outbox[w] = <<Started(job_id[w]), r>>
      PROVE  ReadStarted(w)
  <2>1. m = Started(job_id[w])
    BY <1>4, Heads
  <2>2. m.kind = "started" /\ m.job = job_id[w] /\ ~Ends(w, m) /\ Applies(w, m)
    BY <1>2, <1>4, <2>1 DEF Started, Ends, Applies
  <2> HIDE DEF m
  <2> QED
    BY <1>1, <1>2, <1>4, <2>2 DEF Receive, ReadStarted, m
<1>5. ASSUME job_id[w] # NoJob, state[job_id[w]] = "running",
             \E r \in Replies(job_id[w]) : outbox[w] = <<r>>
      PROVE  ReadReply(w)
  <2>1. m \in Replies(job_id[w]) /\ Tail(outbox[w]) = <<>>
    BY <1>5, Heads
  <2>2. m.kind \in {"result", "error"} /\ m.job = job_id[w] /\ Ends(w, m)
    BY <1>2, <1>5, <2>1 DEF Replies, Ends, Applies
  <2> HIDE DEF m
  <2> DEFINE outcome == IF m.kind = "result" THEN "succeeded" ELSE "task_failed"
  <2>3. Settle({job_id[w]}, All({job_id[w]}, outcome), {}) /\ Detach({job_id[w]}, {w})
    BY <2>2 DEF Receive, Finish, m
  <2>4. state' = [state EXCEPT ![job_id[w]] = outcome]
    BY <1>2, <1>5, <2>3 DEF Settle, All, TypeOK
  <2>5. active' = [active EXCEPT ![job_id[w]] = NoWorker] /\ job_id' = [job_id EXCEPT ![w] = NoJob]
    BY <2>3 DEF Detach, TypeOK
  <2>6. \/ UNCHANGED <<pool, ready>> /\ outbox' = [outbox EXCEPT ![w] = Tail(@)]
        \/ Retire({w}, {w}, Sends)
    BY <2>2 DEF Receive, m
  <2>7. CASE Retire({w}, {w}, Sends)
    <3>1. pool' = pool \ {w} /\ ready' = ready \ {w}
      BY <1>1, <2>7 DEF Retire
    <3>2. outbox' = [outbox EXCEPT ![w] = <<>>]
      BY <1>1, <2>7 DEF Retire, TypeOK
    <3> QED
      BY <2>4, <2>5, <3>1, <3>2 DEF ReadReply
  <2>8. CASE UNCHANGED <<pool, ready>> /\ outbox' = [outbox EXCEPT ![w] = Tail(@)]
    BY <1>1, <2>1, <2>4, <2>5, <2>8 DEF ReadReply
  <2> QED
    BY <2>6, <2>7, <2>8
<1> QED
  BY <1>3, <1>4, <1>5, Reading

LEMMA ReceiveWork ==
  ASSUME TypeOK, Books, Threads, Work, NEW w \in pool \cup retiring, Receive(w),
         \A v \in Workers : Undelivered(v)' => Undelivered(v),
         Joining' = Joining, pc' # "dispatch"
  PROVE  Work'
<1> DEFINE j == job_id[w]
<1>1. w \in pool /\ w \in Workers /\ w \notin retiring /\ child[w] # "none" /\ Pipe(w)
  BY Reading DEF Work, Pipes
<1>2. UNCHANGED <<ran, sending, child, task, inbox>>
  BY DEF Receive
<1>3. j # NoJob => j \in Jobs /\ state[j] \in Unfinished /\ active[j] = w /\ w \in ready
  BY <1>1 DEF TypeOK, Books, Attached, Live
<1>4. \A v \in Workers \ {w} : job_id[v] # NoJob => job_id[v] # j
  BY <1>1 DEF Books, Attached, TypeOK
<1>5. Beginnings /\ AtMostOnce /\ HonestOutcome
  BY DEF Work
(* The other children are left alone.                                      *)
<1>6. ASSUME \A k \in Jobs : k # j => state'[k] = state[k],
             \A v \in Workers \ {w} : job_id'[v] = job_id[v] /\ outbox'[v] = outbox[v] /\ (v \in ready' <=> v \in ready),
             pool' \subseteq pool, Pipe(w)'
      PROVE  Pipes'
  <2> SUFFICES ASSUME NEW v \in Workers, v # w
               PROVE  Pipe(v)'
    BY <1>6 DEF Pipes
  <2>1. Pipe(v) /\ (v \in (pool \cup Joining)' => v \in pool \cup Joining)
    BY <1>6 DEF Work, Pipes
  <2>2. job_id[v] # NoJob => state'[job_id[v]] = state[job_id[v]]
    BY <1>4, <1>6 DEF TypeOK
  <2>3. job_id'[v] = job_id[v] /\ outbox'[v] = outbox[v] /\ (v \in ready' <=> v \in ready)
    BY <1>6
  <2> QED
    BY <1>2, <2>1, <2>2, <2>3, SamePipe
<1>7. CASE j = NoJob /\ ReadReady(w)
  <2>1. Unattached(w) /\ child[w] # "loading"
    BY <1>7, Reading
  <2>2. /\ outbox'[w] = <<>> /\ job_id'[w] = NoJob /\ w \in ready' /\ state' = state
        /\ UNCHANGED <<active, job_id, pool>>
    BY <1>1, <1>7 DEF ReadReady, TypeOK
  <2>3. Unattached(w)'
    BY <1>1, <1>2, <2>1, <2>2 DEF Unattached
  <2>4. Pipe(w)'
    BY <1>1, <1>2, <2>2, <2>3 DEF Pipe
  <2>5. Pipes'
    BY <1>6, <1>7, <2>2, <2>4 DEF ReadReady, TypeOK
  <2>6. Beginnings'
    <3>1. Waiting' = Waiting
      BY <2>2 DEF Waiting
    <3>2. \A k \in Waiting : ran[k] = 0
      BY <1>5 DEF Beginnings, Waiting
    <3> QED
      BY <1>2, <1>5, <2>2, <3>1, <3>2, BeginningsKept
  <2>7. \A k \in Jobs : state'[k] \in {"running", "succeeded", "task_failed"} => ran[k] = 1
    BY <1>5, <2>2 DEF HonestOutcome
  <2> QED
    BY <1>2, <2>5, <2>6, <2>7, WorkKept
<1>8. CASE j # NoJob /\ state[j] = "queued" /\ ReadStarted(w)
  <2>1. \A k \in Jobs : state'[k] = IF k = j THEN "running" ELSE state[k]
    BY <1>8 DEF ReadStarted, TypeOK
  <2>2. UNCHANGED <<active, job_id, pool, ready>> /\ outbox'[w] = Tail(outbox[w])
    BY <1>1, <1>8 DEF ReadStarted, TypeOK
  <2>3. /\ Begun(w, j)
        /\ \/ outbox[w] = <<Started(j)>>
           \/ \E m \in Replies(j) : outbox[w] = <<Started(j), m>> /\ task[w] = NoJob
    BY <1>8, Reading
  <2>4. ran[j] = 1 /\ inbox[w] = NoJob /\ ~Undelivered(w) /\ task[w] \in {NoJob, j}
    BY <2>3 DEF Begun
  <2>5. Begun(w, j)'
    <3>1. CASE outbox[w] = <<Started(j)>>
      <4>1. outbox'[w] = <<>>
        BY <2>2, <3>1, Heads
      <4> QED
        BY <1>1, <1>2, <1>3, <1>8, <2>1, <2>2, <2>4, <4>1 DEF Begun
    <3>2. CASE \E m \in Replies(j) : outbox[w] = <<Started(j), m>> /\ task[w] = NoJob
      <4>1. \E m \in Replies(j) : outbox'[w] = <<m>>
        BY <2>2, <3>2, Heads
      <4>2. Replies(job_id[w])' = Replies(j)
        BY <2>2 DEF Replies
      <4> QED
        BY <1>1, <1>2, <1>3, <1>8, <2>1, <2>2, <2>4, <3>2, <4>1, <4>2 DEF Begun
    <3> QED
      BY <2>3, <3>1, <3>2
  <2>6. Pipe(w)'
    BY <1>1, <1>2, <1>8, <2>2, <2>5 DEF Pipe
  <2>7. Pipes'
    BY <1>6, <1>8, <2>1, <2>2, <2>6 DEF ReadStarted, TypeOK
  <2>8. Beginnings'
    <3>1. \A k \in Waiting' : k \in Waiting
      BY <2>1, <2>2 DEF Waiting
    <3>2. \A k \in Waiting : ran[k] = 0
      BY <1>5 DEF Beginnings, Waiting
    <3>3. \A k \in Jobs : \/ state'[k] = state[k]
                          \/ state'[k] = "running" /\ state[k] \notin Ended
      BY <1>8, <2>1 DEF Ended, Outcomes
    <3> QED
      BY <1>2, <1>5, <2>2, <3>1, <3>2, <3>3, BeginningsKept
  <2>9. \A k \in Jobs : state'[k] \in {"running", "succeeded", "task_failed"} => ran[k] = 1
    BY <1>5, <2>1, <2>4 DEF HonestOutcome
  <2> QED
    BY <1>2, <2>7, <2>8, <2>9, WorkKept
<1>9. CASE j # NoJob /\ state[j] = "running" /\ ReadReply(w)
  <2>1. \A k \in Jobs : k # j => state'[k] = state[k]
    BY <1>9 DEF ReadReply, TypeOK
  <2>2. state'[j] \in {"succeeded", "task_failed"}
    BY <1>3, <1>9 DEF ReadReply, TypeOK
  <2>3. /\ \A k \in Jobs : active'[k] = IF k = j THEN NoWorker ELSE active[k]
        /\ \A v \in Workers : job_id'[v] = IF v = w THEN NoJob ELSE job_id[v]
        /\ \A v \in Workers : outbox'[v] = IF v = w THEN <<>> ELSE outbox[v]
    BY <1>9 DEF ReadReply, TypeOK
  <2>4. pool' \subseteq pool /\ \A v \in Workers \ {w} : v \in ready' <=> v \in ready
    BY <1>9 DEF ReadReply
  <2>5. w \in pool' => w \in ready'
    BY <1>3, <1>9 DEF ReadReply
  <2>6. ran[j] = 1 /\ inbox[w] = NoJob /\ ~Undelivered(w) /\ task[w] = NoJob /\ child[w] # "loading"
    <3>1. Begun(w, j) /\ task[w] = NoJob
      BY <1>9, Reading
    <3> QED
      BY <1>1, <1>9, <3>1 DEF Begun, Pipe
  <2>7. Pipe(w)'
    <3>1. w \in (pool \cup Joining)' => w \in pool'
      BY <1>1 DEF Threads, Membership
    <3>2. w \in pool' => Unattached(w)'
      BY <1>1, <1>2, <2>3, <2>5, <2>6 DEF Unattached
    <3> QED
      BY <1>1, <1>2, <2>3, <2>6, <3>1, <3>2 DEF Pipe
  <2>8. Pipes'
    BY <1>6, <2>1, <2>3, <2>4, <2>7
  <2>9. Beginnings'
    <3>1. \A k \in Waiting' : k \in Waiting
      BY <2>1, <2>2, <2>3 DEF Waiting
    <3>2. \A k \in Waiting : ran[k] = 0
      BY <1>5 DEF Beginnings, Waiting
    <3>3. \A k \in Jobs : \/ state'[k] = state[k]
                          \/ state'[k] \in Ended /\ state[k] \notin Ended
      BY <1>9, <2>1, <2>2 DEF Ended, Outcomes
    <3>4. state'[j] \in Ended
      BY <2>2 DEF Ended, Outcomes
    <3>5. \A v \in Workers : job_id'[v] # job_id[v] => job_id[v] = j
      BY <2>3
    <3> QED
      BY <1>2, <1>5, <3>1, <3>2, <3>3, <3>4, <3>5, BeginningsKept
  <2>10. \A k \in Jobs : state'[k] \in {"running", "succeeded", "task_failed"} => ran[k] = 1
    BY <1>5, <2>1, <2>6 DEF HonestOutcome
  <2> QED
    BY <1>2, <2>8, <2>9, <2>10, WorkKept
<1> QED
  BY <1>7, <1>8, <1>9, ReadingEffect
-----------------------------------------------------------------------------
LEMMA WorkInit == Init => Work
<1> SUFFICES ASSUME Init
             PROVE  Work
  OBVIOUS
<1>1. /\ \A w \in Workers : /\ task[w] = NoJob /\ inbox[w] = NoJob /\ outbox[w] = <<>> /\ job_id[w] = NoJob
                            /\ sending[w] = NoJob /\ child[w] \in {"loading", "none"} /\ w \notin ready
      /\ \A j \in Jobs : state[j] = "new" /\ ran[j] = 0
      /\ pc = "wait"
  BY DEF Init
<1>2. Pipes
  BY <1>1 DEF Pipes, Pipe, Unattached, Undelivered
<1>3. Beginnings
  BY <1>1, SentinelAssumption DEF Beginnings, Undelivered, Pending, Sends
<1>4. AtMostOnce /\ HonestOutcome
  BY <1>1 DEF AtMostOnce, HonestOutcome, Waiting
<1> QED
  BY <1>2, <1>3, <1>4 DEF Work

(* Only jobs that are over change: they expire.                            *)
LEMMA ExpireWork ==
  ASSUME TypeOK, Books, Threads, Work, NEW X \in SUBSET Over, Settle({}, <<>>, X),
         UNCHANGED <<ran, poolVars, childVars>>,
         \A w \in Workers : Undelivered(w)' => Undelivered(w),
         Joining' = Joining, pc' # "dispatch"
  PROVE  Work'
<1> DEFINE J == {}
           code == <<>>
<1>1. J \in SUBSET Live /\ \A j \in J : code[j] \in {"worker_crashed", "service_restarted", "timed_out", "cancelled"}
  OBVIOUS
<1>2. J = {active[j] : j \in J} \ {NoWorker} /\ J \in SUBSET (pool \cup retiring)
  OBVIOUS
<1>3. Detach(J, J)
  BY DEF Detach, poolVars, TypeOK
<1>4. Retire(J, J, J)
  BY DEF Retire, HangUp, poolVars, childVars, TypeOK
<1>5. Settle(J, code, X) /\ UNCHANGED <<ran, sending, child, task, inbox>>
  BY DEF poolVars, childVars
<1> HIDE DEF J, code
<1> QED
  BY <1>1, <1>2, <1>3, <1>4, <1>5, EndWork

(* _abort, when no thread moves in a way that matters.                     *)
LEMMA AbortWork ==
  ASSUME TypeOK, Books, Threads, Work,
         NEW J \in SUBSET Live, NEW code, NEW X \in SUBSET Over,
         \A j \in J : code[j] \in {"worker_crashed", "service_restarted", "timed_out", "cancelled"},
         Abort(J, code, X), UNCHANGED <<ran, sending, child, task, inbox>>,
         \A w \in Workers : Undelivered(w)' => Undelivered(w),
         Joining' = Joining, pc' = "dispatch" => Sends = {}
  PROVE  Work'
<1> DEFINE W == {active[j] : j \in J} \ {NoWorker}
<1>1. W \in SUBSET (pool \cup retiring)
  <2> SUFFICES ASSUME NEW j \in J, active[j] # NoWorker
               PROVE  active[j] \in pool
    OBVIOUS
  <2>1. j \in Jobs /\ active[j] \in Workers /\ j # NoJob
    BY SentinelAssumption DEF Live, TypeOK
  <2> QED
    BY <2>1 DEF Books, Attached
<1>2. Settle(J, code, X) /\ Detach(J, W) /\ Retire(W, {}, Sends)
  BY DEF Abort
<1>3. W = {active[j] : j \in J} \ {NoWorker} /\ W \subseteq W
  OBVIOUS
<1> HIDE DEF W
<1> QED
  BY <1>1, <1>2, <1>3, EndWork

LEMMA WorkRequests ==
  ASSUME TypeOK, Books, Threads, Work, Requests \/ BackoffEnds
  PROVE  Work'
<1>1. /\ UNCHANGED <<pcVars, sending, child, inbox, task>>
      /\ \A w \in Workers : Undelivered(w)' <=> Undelivered(w)
      /\ Joining' = Joining
  BY DEF Requests, BackoffEnds, Submit, Get, Cancel, poolVars, childVars, pcVars, Undelivered, Joining
<1>2. ASSUME NEW X \in SUBSET Over, NEW j \in Jobs, Submit(j, X)
      PROVE  Work'
  <2>1. /\ \A k \in Jobs : state'[k] = IF k = j THEN "queued" ELSE IF k \in X THEN "expired" ELSE state[k]
        /\ state[j] = "new" /\ UNCHANGED <<ran, poolVars, childVars, pc>>
    BY <1>2 DEF Submit, pcVars
  <2>2. Beginnings /\ pc' # "dispatch"
    BY <1>2, <2>1 DEF Work, Submit, LockFree, LockedPcs
  <2>3. Pipes'
    <3> SUFFICES ASSUME NEW w \in Workers
                 PROVE  Pipe(w)'
      BY DEF Pipes
    <3>1. job_id[w] # NoJob => state'[job_id[w]] = state[job_id[w]]
      <4>1. job_id[w] # NoJob => job_id[w] \in Jobs /\ state[job_id[w]] \in Unfinished
        BY DEF TypeOK, Books, Attached, Live
      <4>2. \A k \in X : state[k] \in Outcomes
        BY DEF Over
      <4> QED
        BY <2>1, <4>1, <4>2 DEF Outcomes, Unfinished
    <3>2. Pipe(w)
      BY DEF Work, Pipes
    <3> QED
      BY <1>1, <2>1, <3>1, <3>2, SamePipe DEF poolVars, childVars
  <2>4. Beginnings'
    <3>1. \A k \in Waiting' : ran[k] = 0
      <4>1. \A k \in Waiting' : k = j \/ k \in Waiting
        BY <2>1 DEF Waiting, poolVars
      <4> QED
        BY <2>1, <2>2, <4>1 DEF Beginnings, Waiting
    <3>2. \A k \in Jobs : state'[k] = state[k] \/ state'[k] = "expired" \/ (state'[k] = "queued" /\ state[k] \notin Ended)
      BY <2>1 DEF Ended, Outcomes
    <3> QED
      BY <1>1, <2>1, <2>2, <3>1, <3>2, BeginningsKept DEF poolVars, childVars
  <2>5. \A k \in Jobs : state'[k] \in {"running", "succeeded", "task_failed"} => ran[k] = 1
    BY <2>1 DEF Work, HonestOutcome
  <2> QED
    BY <2>1, <2>3, <2>4, <2>5, WorkKept
<1>3. ASSUME NEW X \in SUBSET Over, Get(X)
      PROVE  Work'
  <2>1. Settle({}, <<>>, X) /\ UNCHANGED <<ran, poolVars, childVars>> /\ pc' # "dispatch"
    BY <1>3 DEF Get, LockFree, LockedPcs, pcVars
  <2> QED
    BY <1>1, <2>1, ExpireWork
<1>4. ASSUME NEW X \in SUBSET Over, NEW j \in Jobs, Cancel(j, X)
      PROVE  Work'
  <2> DEFINE J == {j}
             code == All({j}, "cancelled")
  <2>1. J \in SUBSET Live /\ (\A k \in J : code[k] = "cancelled")
    BY <1>4 DEF Cancel, All
  <2>2. Abort(J, code, X) /\ ran' = ran /\ pc' # "dispatch"
    BY <1>4 DEF Cancel, LockFree, LockedPcs, pcVars
  <2> HIDE DEF J, code
  <2> QED
    BY <1>1, <2>1, <2>2, AbortWork
<1>5. CASE BackoffEnds
  <2>1. UNCHANGED <<state, ran, active, job_id, ready, child, task, inbox, outbox, pool, pc, sending>>
    BY <1>5 DEF BackoffEnds, jobVars, childVars, pcVars
  <2>2. (pool \cup Joining)' \subseteq pool \cup Joining
    BY <1>1, <2>1
  <2> QED
    BY <1>1, <2>1, <2>2, IdleWork
<1> QED
  BY <1>2, <1>3, <1>4, <1>5 DEF Requests

(* The coordinator reads pipes.                                            *)
LEMMA WorkScan ==
  ASSUME TypeOK, Books, Threads, Work,
         \/ \E X \in SUBSET Over : CoordBegin(X)
         \/ CoordExit \/ CoordReceive \/ PollEmpty \/ CoordEOF
         \/ CheckDead \/ CheckAlive \/ CheckSlow
         \/ \E w \in Workers : PickWorker(w)
  PROVE  Work'
<1>1. /\ pc \in {"wait", "scan", "poll", "repoll", "check"} /\ pc' \in {"scan", "poll", "repoll", "check", "done"}
      /\ sending' = sending
  BY DEF CoordBegin, CoordExit, CoordReceive, PollEmpty, CoordEOF, CheckDead, CheckAlive, CheckSlow, PickWorker,
         poolVars, Receive
<1>2. /\ \A w \in Workers : Undelivered(w)' <=> Undelivered(w)
      /\ Joining = {} /\ Joining' = {}
  BY <1>1 DEF Undelivered, Joining
<1>3. ASSUME NEW X \in SUBSET Over, CoordBegin(X)
      PROVE  Work'
  <2>1. Settle({}, <<>>, X) /\ UNCHANGED <<ran, poolVars, childVars>>
    BY <1>3 DEF CoordBegin
  <2> QED
    BY <1>1, <1>2, <2>1, ExpireWork
<1>4. CASE CoordReceive
  <2>1. cur \in pool \cup retiring /\ Receive(cur)
    BY <1>4 DEF CoordReceive, Threads, Membership
  <2> QED
    BY <1>1, <1>2, <2>1, ReceiveWork
<1>5. ASSUME CoordEOF \/ CheckSlow
      PROVE  Work'
  <2>1. /\ cur \in pool \cup retiring /\ \E died \in BOOLEAN : Lose(cur, died, Sends)
        /\ cur \in ready => child[cur] = "gone" /\ outbox[cur] = <<>>
        /\ UNCHANGED <<ran, child, task, inbox>>
    BY <1>5 DEF CoordEOF, CheckSlow, AtEOF, Threads, Membership
  <2> QED
    BY <1>1, <1>2, <2>1, LoseWork
<1>6. ASSUME CoordExit \/ PollEmpty \/ CheckDead \/ CheckAlive \/ \E w \in Workers : PickWorker(w)
      PROVE  Work'
  <2>1. UNCHANGED <<state, ran, active, job_id, ready, child, task, inbox, outbox, pool>>
    BY <1>6 DEF CoordExit, PollEmpty, CheckDead, CheckAlive, PickWorker, jobVars, poolVars, childVars
  <2> QED
    BY <1>1, <1>2, <2>1, IdleWork
<1> QED
  BY <1>3, <1>4, <1>5, <1>6

(* It ends jobs, dispatches and sends.                                     *)
LEMMA WorkAttach ==
  ASSUME TypeOK, Books, Threads, Work, NEW j \in Jobs, NEW w \in Workers, Attach(j, w)
  PROVE  Work'
<1>1. /\ pc = "dispatch" /\ state[j] = "queued" /\ active[j] = NoWorker
      /\ w \in pool /\ w \in ready /\ job_id[w] = NoJob
      /\ UNCHANGED <<state, ran, pool, ready, child, task, inbox, outbox, pc, cur>>
  BY DEF Attach, Waiting, Idle, jobVars, childVars, pcVars
<1>2. /\ \A v \in Workers : job_id'[v] = IF v = w THEN j ELSE job_id[v]
      /\ \A v \in Workers : sending'[v] = IF v = w THEN j ELSE sending[v]
      /\ \A k \in Jobs : active'[k] = IF k = j THEN w ELSE active[k]
  BY DEF Attach, TypeOK
<1>3. Beginnings /\ Pipe(w) /\ AtMostOnce /\ HonestOutcome
  BY DEF Work, Pipes
<1>4. ran[j] = 0
  BY <1>1, <1>3 DEF Beginnings, Waiting
<1>5. Unattached(w) /\ outbox[w] = <<>> /\ child[w] # "loading"
  BY <1>1, <1>3 DEF Pipe, Unattached
<1>6. Joining' = Joining /\ \A v \in Workers \ {w} : Undelivered(v)' <=> Undelivered(v)
  BY <1>1, <1>2 DEF Joining, Undelivered
<1>7. Pipes'
  <2> SUFFICES ASSUME NEW v \in Workers
               PROVE  Pipe(v)'
    BY DEF Pipes
  <2>1. CASE v = w
    <3>1. NotBegun(w, j)'
      BY <1>1, <1>4, <1>5 DEF NotBegun, Unattached
    <3> QED
      BY <1>1, <1>2, <1>5, <2>1, <3>1, SentinelAssumption DEF Pipe, Unattached
  <2>2. CASE v # w
    <3>1. Pipe(v)
      BY DEF Work, Pipes
    <3> QED
      BY <1>1, <1>2, <1>6, <2>2, <3>1, SamePipe
  <2> QED
    BY <2>1, <2>2
<1>8. Beginnings'
  <2>1. \A k \in Jobs : state'[k] \in {"new", "worker_start_failed"} \/ k \in Waiting' => ran'[k] = 0
    <3>1. \A k \in Waiting' : k \in Waiting
      <4>1. w # NoWorker
        BY SentinelAssumption
      <4> QED
        BY <1>1, <1>2, <4>1 DEF Waiting
    <3> QED
      BY <1>1, <1>3, <3>1 DEF Beginnings
  <2>2. \A v \in Workers, k \in Jobs : v # w /\ Pending(v, k)' => Pending(v, k) /\ k # j
    <3> SUFFICES ASSUME NEW v \in Workers, NEW k \in Jobs, v # w, Pending(v, k)'
                 PROVE  Pending(v, k) /\ k # j
      OBVIOUS
    <3>1. Pending(v, k)
      BY <1>1, <1>2, <1>6 DEF Pending
    <3>2. job_id[v] # j
      BY <1>1, SentinelAssumption DEF Books, Attached
    <3>3. state[j] \notin Ended
      BY <1>1 DEF Ended, Outcomes
    <3>4. CASE inbox[v] = k
      <4>1. inbox[v] # NoJob
        BY <3>4, SentinelAssumption
      <4> QED
        BY <1>3, <3>1, <3>2, <3>3, <3>4, <4>1 DEF Beginnings
    <3>5. CASE sending[v] = k
      <4>1. v \in Sends
        BY <3>5, SentinelAssumption DEF Sends
      <4> QED
        BY <1>1, <1>3, <3>1, <3>2, <3>5, <4>1 DEF Beginnings
    <3> QED
      BY <3>1, <3>4, <3>5 DEF Pending
  <2>3. \A k \in Jobs : Pending(w, k)' => k = j
    BY <1>1, <1>2, <1>5, SentinelAssumption DEF Pending, Unattached
  <2>4. \A k \in Jobs, v \in Workers : Pending(v, k)' =>
          ran'[k] = 0 /\ state'[k] # "new" /\ \A u \in Workers : Pending(u, k)' => u = v
    <3> SUFFICES ASSUME NEW k \in Jobs, NEW v \in Workers, Pending(v, k)'
                 PROVE  ran'[k] = 0 /\ state'[k] # "new" /\ \A u \in Workers : Pending(u, k)' => u = v
      OBVIOUS
    <3>1. CASE v = w
      BY <1>1, <1>4, <2>2, <2>3, <3>1
    <3>2. CASE v # w
      BY <1>1, <1>3, <2>2, <2>3, <3>2 DEF Beginnings
    <3> QED
      BY <3>1, <3>2
  <2>5. \A v \in Workers : inbox'[v] # NoJob =>
          ~Undelivered(v)' /\ (job_id'[v] = inbox'[v] \/ state'[inbox'[v]] \in Ended)
    BY <1>1, <1>2, <1>3, <1>5, <1>6 DEF Beginnings, Unattached
  <2>6. \A v \in Workers : Undelivered(v)' =>
          job_id'[v] = sending'[v] \/ state'[sending'[v]] \in Ended \/ child'[v] = "gone"
    BY <1>1, <1>2, <1>3, <1>6 DEF Beginnings
  <2>7. \A v \in Sends' : job_id'[v] = sending'[v]
    BY <1>1, <1>2, <1>3 DEF Beginnings, Sends
  <2> QED
    BY <2>1, <2>4, <2>5, <2>6, <2>7 DEF Beginnings
<1>9. \A k \in Jobs : state'[k] \in {"running", "succeeded", "task_failed"} => ran[k] = 1
  BY <1>1, <1>3 DEF HonestOutcome
<1> QED
  BY <1>1, <1>7, <1>8, <1>9, WorkKept

LEMMA WorkSend ==
  ASSUME TypeOK, Books, Threads, Work, NEW w \in Workers, SendMessage(w)
  PROVE  Work'
<1>1. /\ pc = "send" /\ sending[w] # NoJob /\ pc' \in {"sent", "unsent"} /\ cur' = w
      /\ UNCHANGED <<state, ran, pool, ready, active, job_id, sending, child, task, outbox>>
  BY DEF SendMessage, Sends, jobVars, poolVars
<1>2. Joining = {} /\ Joining' = {} /\ Undelivered(w)
  BY <1>1 DEF Joining, Undelivered
<1>3. CASE child[w] = "gone"
  <2>1. pc' = "unsent" /\ inbox' = inbox
    BY <1>3 DEF SendMessage
  <2>2. \A v \in Workers : Undelivered(v)' <=> Undelivered(v)
    BY <1>1, <2>1 DEF Undelivered
  <2> QED
    BY <1>1, <1>2, <2>1, <2>2, IdleWork
<1>4. CASE child[w] # "gone"
  <2> DEFINE k == sending[w]
  <2>1. pc' = "sent" /\ \A v \in Workers : inbox'[v] = IF v = w THEN k ELSE inbox[v]
    BY <1>4 DEF SendMessage, TypeOK
  <2>2. \A v \in Workers : Undelivered(v)' <=> v # w /\ Undelivered(v)
    BY <1>1, <2>1 DEF Undelivered
  <2>3. k \in Jobs
    BY <1>1 DEF TypeOK
  <2>4. Beginnings /\ Pipe(w) /\ child[w] # "none"
    BY <1>1 DEF Work, Pipes, Threads, Membership
  <2>5. Pipes'
    <3> SUFFICES ASSUME NEW v \in Workers
                 PROVE  Pipe(v)'
      BY DEF Pipes
    <3>1. Pipe(v)
      BY DEF Work, Pipes
    <3>2. CASE v # w
      BY <1>1, <1>2, <2>1, <2>2, <3>1, <3>2, SamePipe
    <3>3. CASE v = w
      <4>1. w \in pool => job_id[w] = k /\ NotBegun(w, k)
        BY <1>1, <1>2, <2>4, SentinelAssumption DEF Pipe, Unattached, Begun
      <4>2. w \in pool => NotBegun(w, k)'
        BY <1>1, <2>1, <2>2, <4>1 DEF NotBegun
      <4>3. child[w] = "up"
        BY <1>1, <1>4, <2>4 DEF Pipe, TypeOK
      <4> QED
        BY <1>1, <1>2, <2>3, <3>3, <4>1, <4>2, <4>3, SentinelAssumption DEF Pipe
    <3> QED
      BY <3>2, <3>3
  <2>6. Beginnings'
    <3>1. Waiting' = Waiting
      BY <1>1 DEF Waiting
    <3>2. \A v \in Workers, j \in Jobs : Pending(v, j)' => Pending(v, j)
      BY <1>1, <1>2, <2>1, <2>2 DEF Pending
    <3>3. \A v \in Workers : inbox'[v] # NoJob =>
            ~Undelivered(v)' /\ (job_id'[v] = inbox'[v] \/ state'[inbox'[v]] \in Ended)
      BY <1>1, <1>2, <1>4, <2>1, <2>2, <2>4 DEF Beginnings
    <3> QED
      BY <1>1, <2>1, <2>2, <2>4, <3>1, <3>2, <3>3 DEF Beginnings
  <2>7. \A j \in Jobs : state'[j] \in {"running", "succeeded", "task_failed"} => ran[j] = 1
    BY <1>1 DEF Work, HonestOutcome
  <2> QED
    BY <1>1, <2>5, <2>6, <2>7, WorkKept
<1> QED
  BY <1>3, <1>4

LEMMA WorkDispatch ==
  ASSUME TypeOK, Books, Threads, Work,
         \/ \E late \in SUBSET Live : JobsStep(late)
         \/ DispatchDone \/ SendDone
         \/ \E w \in Workers : SendMessage(w)
         \/ \E j \in Jobs, w \in Workers : Attach(j, w)
  PROVE  Work'
<1>1. ASSUME NEW late \in SUBSET Live, JobsStep(late)
      PROVE  Work'
  <2> DEFINE left == IF Draining THEN Queued ELSE {}
             J == Due(late) \cup left
             code == [j \in Jobs |-> IF j \in late THEN "timed_out" ELSE "service_restarted"]
             X == {}
  <2>1. J \in SUBSET Live /\ X \in SUBSET Over
    BY DEF Due, Queued, Live, Unfinished
  <2>2. \A j \in J : code[j] \in {"worker_crashed", "service_restarted", "timed_out", "cancelled"}
    BY <2>1 DEF Live
  <2>3. Abort(J, code, X) /\ UNCHANGED <<ran, sending, child, task, inbox>> /\ pc = "scan" /\ pc' = "dispatch"
    BY <1>1 DEF JobsStep
  <2>4. /\ \A w \in Workers : Undelivered(w)' <=> Undelivered(w)
        /\ Joining' = Joining /\ Sends = {}
    BY <2>3 DEF Undelivered, Joining, Threads, Control
  <2> HIDE DEF J, code, X
  <2> QED
    BY <2>1, <2>2, <2>3, <2>4, AbortWork
<1>2. CASE DispatchDone
  <2>1. /\ UNCHANGED <<state, ran, active, job_id, ready, child, task, inbox, outbox, pool, sending>>
        /\ pc = "dispatch" /\ pc' = "send"
    BY <1>2 DEF DispatchDone, jobVars, poolVars, childVars
  <2>2. /\ \A w \in Workers : Undelivered(w)' <=> Undelivered(w)
        /\ (pool \cup Joining)' \subseteq pool \cup Joining
    BY <2>1 DEF Undelivered, Joining
  <2> QED
    BY <2>1, <2>2, IdleWork
<1>3. CASE SendDone
  <2>1. /\ pc \in {"sent", "unsent"} /\ pc' = "send" /\ cur \in Workers /\ cur \in pool \cup retiring
        /\ \A w \in Workers : sending'[w] = IF w = cur THEN NoJob ELSE sending[w]
        /\ UNCHANGED <<ran, child, task, inbox>>
    BY <1>3 DEF SendDone, TypeOK, Threads, Control, Membership
  <2>2. /\ \A w \in Workers : Undelivered(w)' => Undelivered(w) /\ sending'[w] = sending[w]
        /\ Joining = {} /\ Joining' = {}
    BY <2>1 DEF Undelivered, Joining
  <2>3. CASE cur \notin retiring /\ pc = "unsent"
    <3>1. Lose(cur, FALSE, Sends \ {cur})
      BY <1>3, <2>3 DEF SendDone
    <3>2. child[cur] = "gone" /\ Undelivered(cur)
      BY <2>3 DEF Threads, Control, Undelivered
    <3> QED
      BY <2>1, <2>2, <3>1, <3>2, LoseWork
  <2>4. CASE cur \in retiring \/ pc = "sent"
    <3>1. UNCHANGED <<state, active, job_id, ready, outbox, pool>>
      BY <1>3, <2>1, <2>4 DEF SendDone, retireVars
    <3> QED
      BY <2>1, <2>2, <3>1, IdleWork
  <2> QED
    BY <2>1, <2>3, <2>4
<1> QED
  BY <1>1, <1>2, <1>3, WorkSend, WorkAttach

(* Children that are neither in service nor joining are let go.            *)
LEMMA ForgetWork ==
  ASSUME TypeOK, Work, Sends = {}, NEW G \in SUBSET Workers, Forget(G),
         UNCHANGED <<state, ran, active, job_id, ready, sending>>,
         (pool \cup Joining)' \subseteq (pool \cup Joining) \ G, pc' # "dispatch"
  PROVE  Work'
<1>1. /\ \A w \in Workers : child'[w] = IF w \in G THEN "none" ELSE child[w]
      /\ \A w \in Workers : task'[w] = IF w \in G THEN NoJob ELSE task[w]
      /\ \A w \in Workers : inbox'[w] = IF w \in G THEN NoJob ELSE inbox[w]
      /\ \A w \in Workers : outbox'[w] = IF w \in G THEN <<>> ELSE outbox[w]
  BY DEF Forget
<1>2. \A w \in Workers : sending[w] = NoJob /\ ~Undelivered(w) /\ ~Undelivered(w)'
  BY DEF Sends, Undelivered
<1>3. Pipes'
  <2> SUFFICES ASSUME NEW w \in Workers
               PROVE  Pipe(w)'
    BY DEF Pipes
  <2>1. Pipe(w)
    BY DEF Work, Pipes
  <2>2. CASE w \in G
    BY <1>1, <2>2 DEF Pipe
  <2>3. CASE w \notin G
    <3>1. w \in (pool \cup Joining)' => w \in pool \cup Joining
      OBVIOUS
    <3> QED
      BY <1>1, <1>2, <2>1, <2>3, <3>1, SamePipe
  <2> QED
    BY <2>2, <2>3
<1>4. Beginnings'
  <2>1. Beginnings
    BY DEF Work
  <2>2. \A j \in Jobs : state'[j] \in {"new", "worker_start_failed"} \/ j \in Waiting' => ran'[j] = 0
    BY <2>1 DEF Beginnings, Waiting
  <2>3. \A j \in Jobs, w \in Workers : Pending(w, j)' => Pending(w, j)
    BY <1>1, <1>2, SentinelAssumption DEF Pending
  <2>4. \A w \in Workers : inbox'[w] # NoJob => inbox'[w] = inbox[w]
    BY <1>1
  <2> QED
    BY <1>2, <2>1, <2>2, <2>3, <2>4 DEF Beginnings
<1>5. \A j \in Jobs : state'[j] \in {"running", "succeeded", "task_failed"} => ran[j] = 1
  BY DEF Work, HonestOutcome
<1> QED
  BY <1>3, <1>4, <1>5, WorkKept

(* It starts children and reaps them.                                      *)
LEMMA WorkStarts ==
  ASSUME TypeOK, Books, Threads, Work,
         \/ \E w \in Workers : StartWorker(w)
         \/ Replenish \/ StartRefused \/ JoinPool \/ StartFailed \/ Discard
         \/ \E K \in SUBSET reapable : Reap(K)
         \/ LeaveReaping
  PROVE  Work'
<1>1. /\ pc \in {"send", "start", "join", "discard", "reap"}
      /\ pc' \in {"send", "start", "join", "discard", "reap", "wait", "done"} /\ sending' = sending
  BY DEF StartWorker, Replenish, StartRefused, JoinPool, StartFailed, Discard, Reap, LeaveReaping, poolVars
<1>2. \A w \in Workers : Undelivered(w)' <=> Undelivered(w)
  BY <1>1 DEF Undelivered
<1>3. ASSUME NEW w \in Workers, StartWorker(w)
      PROVE  Work'
  <2>1. /\ pc = "start" /\ child[w] = "none" /\ cur' = w /\ pc' = "join"
        /\ \A v \in Workers : child'[v] = IF v = w THEN "loading" ELSE child[v]
        /\ UNCHANGED <<state, ran, active, job_id, ready, pool, task, inbox, outbox>>
    BY <1>3 DEF StartWorker, Free, TypeOK, jobVars, poolVars
  <2>2. Joining = {} /\ Joining' = {w}
    BY <2>1, SentinelAssumption DEF Joining
  <2>3. w \notin pool /\ w \notin ready /\ sending[w] = NoJob /\ job_id[w] = NoJob
    BY <2>1 DEF Threads, Control, Membership, Sends, Books, Attached
  <2>4. Pipe(w)'
    <3>1. Pipe(w) /\ ~Undelivered(w)
      BY <2>3 DEF Work, Pipes, Undelivered
    <3>2. task[w] = NoJob /\ inbox[w] = NoJob /\ outbox[w] = <<>>
      BY <2>1, <3>1 DEF Pipe
    <3>3. Unattached(w)'
      BY <1>1, <1>2, <2>1, <2>3, <3>1, <3>2 DEF Unattached
    <3> QED
      BY <1>1, <2>1, <2>3, <3>2, <3>3 DEF Pipe
  <2>5. Pipes'
    <3> SUFFICES ASSUME NEW v \in Workers, v # w
                 PROVE  Pipe(v)'
      BY <2>4 DEF Pipes
    <3>1. Pipe(v) /\ (v \in (pool \cup Joining)' => v \in pool \cup Joining)
      BY <2>1, <2>2 DEF Work, Pipes
    <3> QED
      BY <1>1, <1>2, <2>1, <3>1, SamePipe
  <2>6. Beginnings'
    <3>1. Beginnings /\ Waiting' = Waiting
      BY <2>1 DEF Work, Waiting
    <3>2. \A j \in Waiting : ran[j] = 0
      BY <3>1 DEF Beginnings, Waiting
    <3> QED
      BY <1>1, <1>2, <2>1, <3>1, <3>2, BeginningsKept
  <2>7. \A j \in Jobs : state'[j] \in {"running", "succeeded", "task_failed"} => ran[j] = 1
    BY <2>1 DEF Work, HonestOutcome
  <2> QED
    BY <2>1, <2>5, <2>6, <2>7, WorkKept
<1>4. ASSUME Replenish \/ StartRefused \/ JoinPool \/ LeaveReaping
      PROVE  Work'
  <2>1. UNCHANGED <<state, ran, active, job_id, ready, child, task, inbox, outbox>>
    BY <1>4 DEF Replenish, StartRefused, JoinPool, LeaveReaping, jobVars, poolVars, childVars
  <2>2. (pool \cup Joining)' \subseteq pool \cup Joining
    BY <1>4 DEF Replenish, StartRefused, JoinPool, LeaveReaping, Joining, Threads, Control, poolVars
  <2> QED
    BY <1>1, <1>2, <2>1, <2>2, IdleWork
<1>5. CASE StartFailed
  <2>1. /\ pc = "join" /\ pc' = "reap" /\ cur = NoWorker
        /\ UNCHANGED <<ran, active, job_id, ready, pool, child, task, inbox, outbox>>
    BY <1>5 DEF StartFailed, childVars
  <2>2. \A j \in Jobs : state'[j] = IF j \in Stranded(pool) THEN "worker_start_failed" ELSE state[j]
    BY <1>5 DEF StartFailed, Finish, Settle, All
  <2>3. Stranded(pool) \subseteq Waiting /\ Joining = {} /\ Joining' = {}
    BY <2>1 DEF Stranded, Joining
  <2>4. \A j \in Waiting : state[j] = "queued" /\ active[j] = NoWorker
    BY DEF Waiting
  <2>5. Pipes'
    <3> SUFFICES ASSUME NEW w \in Workers
                 PROVE  Pipe(w)'
      BY DEF Pipes
    <3>1. job_id[w] # NoJob => state'[job_id[w]] = state[job_id[w]]
      BY <2>2, <2>3, <2>4, SentinelAssumption DEF Books, Attached, TypeOK
    <3>2. Pipe(w) /\ (w \in (pool \cup Joining)' => w \in pool \cup Joining)
      BY <2>1, <2>3 DEF Work, Pipes
    <3> QED
      BY <1>1, <1>2, <2>1, <3>1, <3>2, SamePipe
  <2>6. Beginnings'
    <3>1. Beginnings
      BY DEF Work
    <3>2. \A j \in Waiting' : j \in Waiting
      BY <2>1, <2>2 DEF Waiting
    <3>3. \A j \in Waiting : ran[j] = 0
      BY <3>1 DEF Beginnings, Waiting
    <3> QED
      BY <1>1, <1>2, <2>1, <2>2, <2>3, <3>1, <3>2, <3>3, BeginningsKept
  <2>7. \A j \in Jobs : state'[j] \in {"running", "succeeded", "task_failed"} => ran[j] = 1
    BY <2>2 DEF Work, HonestOutcome
  <2> QED
    BY <2>1, <2>5, <2>6, <2>7, WorkKept
<1>6. CASE Discard
  <2> DEFINE G == {cur}
  <2>1. /\ G \in SUBSET Workers /\ Sends = {} /\ Forget(G)
        /\ UNCHANGED <<state, ran, active, job_id, ready, pool>> /\ pc = "discard" /\ pc' = "reap"
    BY <1>6 DEF Discard, TypeOK, Threads, Control, jobVars
  <2>2. (pool \cup Joining)' \subseteq (pool \cup Joining) \ G
    BY <2>1, SentinelAssumption DEF Joining, Threads, Membership
  <2> HIDE DEF G
  <2> QED
    BY <1>1, <2>1, <2>2, ForgetWork
<1>7. ASSUME NEW K \in SUBSET reapable, Reap(K)
      PROVE  Work'
  <2> DEFINE G == {w \in reapable : child[w] = "gone"}
  <2>1. /\ G \in SUBSET Workers /\ G \subseteq retiring /\ Sends = {} /\ Forget(G)
        /\ UNCHANGED <<state, ran, active, job_id, ready, pool>> /\ pc = "reap" /\ pc' = "wait"
    BY <1>7 DEF Reap, TypeOK, Threads, Control, Membership, jobVars
  <2> HIDE DEF G
  <2>2. (pool \cup Joining)' \subseteq (pool \cup Joining) \ G
    BY <2>1 DEF Joining, Threads, Membership
  <2> QED
    BY <1>1, <2>1, <2>2, ForgetWork
<1> QED
  BY <1>3, <1>4, <1>5, <1>6, <1>7

(* The service drains and closes.                                          *)
LEMMA WorkStops ==
  ASSUME TypeOK, Books, Threads, Work, DrainBegin \/ DrainSteps \/ CloseBegin \/ CloseSteps
  PROVE  Work'
<1>1. /\ UNCHANGED <<pc, cur, sending>>
      /\ \A w \in Workers : Undelivered(w)' <=> Undelivered(w)
      /\ Joining' = Joining
  BY DEF DrainBegin, DrainSteps, CloseBegin, CloseSteps, DrainReceive, DrainEmpty, DrainEOF, DrainFinish, Receive,
         CloseJoined, CloseJobs, CloseReap, CloseFinal, poolVars, Undelivered, Joining
<1>2. ASSUME DrainBegin \/ CloseBegin \/ CloseJoined \/ \E w \in Workers : DrainEmpty(w)
      PROVE  Work'
  <2>1. UNCHANGED <<state, ran, active, job_id, ready, child, task, inbox, outbox, pool>>
    BY <1>2 DEF DrainBegin, CloseBegin, CloseJoined, DrainEmpty, jobVars, poolVars, childVars
  <2>2. (pool \cup Joining)' \subseteq pool \cup Joining
    BY <1>1, <2>1
  <2> QED
    BY <1>1, <2>1, <2>2, IdleWork
<1>3. ASSUME NEW w \in Workers, DrainReceive(w)
      PROVE  Work'
  <2>1. w \in pool \cup retiring /\ Receive(w) /\ pc # "dispatch"
    BY <1>3 DEF DrainReceive, Threads, Control, Membership, LockedPcs
  <2> QED
    BY <1>1, <2>1, ReceiveWork
<1>4. ASSUME NEW w \in Workers, DrainEOF(w)
      PROVE  Work'
  <2>1. /\ w \in pool \cup retiring /\ Lose(w, TRUE, Sends) /\ pc # "dispatch"
        /\ outbox[w] = <<>> /\ child[w] = "gone" /\ UNCHANGED <<ran, child, task, inbox>>
    BY <1>4 DEF DrainEOF, AtEOF, Threads, Control, Membership, LockedPcs
  <2> QED
    BY <1>1, <2>1, LoseWork
<1>5. CASE DrainFinish
  <2> DEFINE J == Queued
             code == All(Queued, "service_restarted")
             X == {}
  <2>1. J \in SUBSET Live /\ X \in SUBSET Over /\ \A j \in J : code[j] = "service_restarted"
    BY DEF Queued, Live, Unfinished, All
  <2>2. Abort(J, code, X) /\ UNCHANGED <<ran, child, task, inbox>> /\ pc # "dispatch"
    BY <1>5 DEF DrainFinish, Threads, Control, LockedPcs
  <2> HIDE DEF J, code, X
  <2> QED
    BY <1>1, <2>1, <2>2, AbortWork
<1>6. CASE CloseJobs
  <2> DEFINE J == Live
             code == All(Live, "cancelled")
             X == {}
             W == {active[j] : j \in J} \ {NoWorker}
             V == pool \cup W
  <2>1. J \in SUBSET Live /\ X \in SUBSET Over /\ \A j \in J : code[j] = "cancelled"
    BY DEF All
  <2>2. W \subseteq pool
    <3> SUFFICES ASSUME NEW j \in J, active[j] # NoWorker
                 PROVE  active[j] \in pool
      OBVIOUS
    <3>1. j \in Jobs /\ active[j] \in Workers /\ j # NoJob
      BY SentinelAssumption DEF Live, TypeOK
    <3> QED
      BY <3>1 DEF Books, Attached
  <2>3. /\ Settle(J, code, X) /\ Detach(J, W) /\ Retire(V, pool \ W, Sends)
        /\ UNCHANGED <<ran, child, task, inbox>> /\ pc # "dispatch"
    BY <1>6 DEF CloseJobs, Finish, LockFree, LockedPcs
  <2>4. V \in SUBSET (pool \cup retiring) /\ W \subseteq V
    BY <2>2
  <2>5. W = {active[j] : j \in J} \ {NoWorker}
    OBVIOUS
  <2> HIDE DEF J, code, X, W, V
  <2> QED
    BY <1>1, <2>1, <2>3, <2>4, <2>5, EndWork
<1>7. CASE CloseReap
  <2>1. /\ \A w \in Workers : child'[w] = IF w \in retiring THEN "gone" ELSE child[w]
        /\ \A w \in Workers : task'[w] = IF w \in retiring THEN NoJob ELSE task[w]
        /\ \A w \in Workers : inbox'[w] = IF w \in retiring THEN NoJob ELSE inbox[w]
        /\ UNCHANGED <<state, ran, active, job_id, ready, pool, outbox>>
    BY <1>7 DEF CloseReap, jobVars, poolVars
  <2>2. Pipes'
    <3> SUFFICES ASSUME NEW w \in Workers
                 PROVE  Pipe(w)'
      BY DEF Pipes
    <3>1. Pipe(w)
      BY DEF Work, Pipes
    <3>2. CASE w \in retiring
      <4>1. w \notin (pool \cup Joining)'
        BY <1>1, <2>1, <3>2 DEF Threads, Membership
      <4> QED
        BY <2>1, <3>2, <4>1 DEF Pipe
    <3>3. CASE w \notin retiring
      <4>1. w \in (pool \cup Joining)' => w \in pool \cup Joining
        BY <1>1, <2>1
      <4> QED
        BY <1>1, <2>1, <3>1, <3>3, <4>1, SamePipe
    <3> QED
      BY <3>2, <3>3
  <2>3. Beginnings'
    <3>1. Beginnings /\ Waiting' = Waiting
      BY <2>1 DEF Work, Waiting
    <3>2. \A j \in Waiting : ran[j] = 0
      BY <3>1 DEF Beginnings, Waiting
    <3>3. pc' = "dispatch" => \A w \in Sends' : job_id'[w] = sending'[w]
      BY <1>1, <2>1, <3>1 DEF Beginnings, Sends
    <3> QED
      BY <1>1, <2>1, <3>1, <3>2, <3>3, BeginningsKept
  <2>4. \A j \in Jobs : state'[j] \in {"running", "succeeded", "task_failed"} => ran[j] = 1
    BY <2>1 DEF Work, HonestOutcome
  <2> QED
    BY <2>1, <2>2, <2>3, <2>4, WorkKept
<1>8. CASE CloseFinal
  <2> DEFINE G == retiring
  <2>1. /\ G \in SUBSET Workers /\ Sends = {} /\ Forget(G) /\ pc = "done"
        /\ UNCHANGED <<state, ran, active, job_id, ready, pool>>
    BY <1>8 DEF CloseFinal, TypeOK, Threads, Control, jobVars
  <2>2. (pool \cup Joining)' \subseteq (pool \cup Joining) \ G
    BY <1>1, <2>1 DEF Threads, Membership
  <2> HIDE DEF G
  <2> QED
    BY <1>1, <2>1, <2>2, ForgetWork
<1> QED
  BY <1>2, <1>3, <1>4, <1>5, <1>6, <1>7, <1>8 DEF DrainSteps, CloseSteps

(* The children.                                                           *)
LEMMA ChildTells ==
  ASSUME TypeOK, Threads, NEW w \in Workers, NEW m, Say(w, m)
  PROVE  /\ \A v \in Workers \ {w} : outbox'[v] = outbox[v]
         /\ w \in pool \cup Joining => outbox'[w] = Append(outbox[w], m)
         /\ w \in retiring => outbox'[w] = outbox[w]
BY DEF Say, TypeOK, Threads, Membership

LEMMA Appending ==
  ASSUME NEW S, NEW a \in S, NEW b \in S
  PROVE  Append(<<>>, b) = <<b>> /\ Append(<<a>>, b) = <<a, b>>
<1>1. Append(<<>>, b) = <<b>>
  OBVIOUS
<1>2. Append(<<a>>, b) = <<a, b>>
  <2> DEFINE s == Append(<<a>>, b)
             t == <<a, b>>
  <2>1. <<a>> \in Seq(S) /\ s \in Seq(S) /\ t \in Seq(S)
    OBVIOUS
  <2>2. DOMAIN s = 1 .. 2 /\ DOMAIN t = 1 .. 2
    BY <2>1
  <2>3. \A i \in 1 .. 2 : s[i] = t[i]
    BY <2>1
  <2>4. s = [i \in 1 .. 2 |-> s[i]] /\ t = [i \in 1 .. 2 |-> t[i]]
    BY <2>1, <2>2
  <2> HIDE DEF s, t
  <2>5. s = t
    BY <2>3, <2>4
  <2> QED
    BY <2>5 DEF s, t
<1> QED
  BY <1>1, <1>2

LEMMA WorkChild ==
  ASSUME TypeOK, Books, Threads, Work, NEW w \in Workers,
         ChildReady(w) \/ ChildExit(w) \/ \E kind \in Kinds : ChildReply(w, kind)
  PROVE  Work'
<1>1. /\ UNCHANGED <<state, ran, active, job_id, ready, sending, pool, pc, cur>> /\ Joining' = Joining
      /\ \A v \in Workers : Undelivered(v)' <=> Undelivered(v)
      /\ \A v \in Workers \ {w} : UNCHANGED <<child[v], task[v], inbox[v], outbox[v]>>
      /\ inbox'[w] \in {inbox[w], NoJob} /\ child'[w] # "none" /\ (child[w] = "gone" => child'[w] = "gone")
  BY ChildTells DEF ChildReady, ChildExit, ChildReply, Alive, TypeOK, jobVars, poolVars, pcVars, Undelivered, Joining
<1>2. Pipe(w) /\ Beginnings
  BY DEF Work, Pipes
<1>3. Pipe(w)'
  <2>1. CASE ChildReady(w)
    <3>1. /\ child[w] = "loading" /\ child'[w] = "up" /\ task'[w] = task[w] /\ inbox'[w] = inbox[w]
          /\ Say(w, Ready)
      BY <2>1 DEF ChildReady, Ready, TypeOK
    <3>2. CASE w \in pool \cup Joining
      <4>1. job_id[w] = NoJob /\ Unattached(w) /\ outbox[w] = <<>> /\ w \notin ready
        BY <1>2, <3>1, <3>2 DEF Pipe, Unattached
      <4>2. outbox'[w] = <<Ready>>
        BY <3>1, <3>2, <4>1, ChildTells
      <4>3. Unattached(w)'
        BY <1>1, <3>1, <4>1, <4>2 DEF Unattached
      <4> QED
        BY <1>1, <3>1, <4>1, <4>3 DEF Pipe
    <3>3. CASE w \notin pool \cup Joining
      BY <1>1, <3>1, <3>3 DEF Pipe
    <3> QED
      BY <3>2, <3>3
  <2>2. CASE ChildExit(w)
    <3>1. /\ child[w] \in {"loading", "up"} /\ child'[w] = "gone" /\ task'[w] = NoJob /\ inbox'[w] = NoJob
          /\ outbox' = outbox
      BY <2>2 DEF ChildExit, Alive, TypeOK
    <3>2. CASE w \in pool \cup Joining /\ job_id[w] = NoJob
      <4>1. Unattached(w)
        BY <1>2, <3>2 DEF Pipe
      <4>2. Unattached(w)'
        BY <1>1, <3>1, <3>2, <4>1 DEF Unattached
      <4> QED
        BY <1>1, <3>1, <3>2, <4>2 DEF Pipe
    <3>3. CASE w \in pool \cup Joining /\ job_id[w] # NoJob
      <4>1. sending[w] \in {NoJob, job_id[w]} /\ (NotBegun(w, job_id[w]) \/ Begun(w, job_id[w]))
        BY <1>2, <3>3 DEF Pipe
      <4>2. (NotBegun(w, job_id[w]) \/ Begun(w, job_id[w]))'
        <5>1. NotBegun(w, job_id[w]) => NotBegun(w, job_id[w])'
          BY <1>1, <3>1 DEF NotBegun
        <5>2. Begun(w, job_id[w]) => Begun(w, job_id[w])'
          BY <1>1, <3>1 DEF Begun, Started, Replies
        <5> QED
          BY <4>1, <5>1, <5>2
      <4> QED
        BY <1>1, <3>1, <3>3, <4>1, <4>2 DEF Pipe
    <3>4. CASE w \notin pool \cup Joining
      BY <1>1, <3>1, <3>4 DEF Pipe
    <3> QED
      BY <3>2, <3>3, <3>4
  <2>3. ASSUME NEW kind \in Kinds, ChildReply(w, kind)
        PROVE  Pipe(w)'
    <3> DEFINE m == [job |-> task[w], kind |-> kind]
    <3>1. /\ child[w] = "up" /\ child'[w] = "up" /\ task[w] # NoJob /\ task'[w] = NoJob /\ inbox' = inbox
          /\ kind \in {"result", "error"} /\ Say(w, m)
      BY <2>3 DEF ChildReply, TypeOK
    <3>2. CASE w \in pool \cup Joining
      <4> DEFINE j == job_id[w]
      <4>1. j # NoJob /\ sending[w] \in {NoJob, j} /\ Begun(w, j)
        BY <1>2, <3>1, <3>2 DEF Pipe, Unattached, NotBegun
      <4>2. /\ task[w] = j /\ m \in Replies(j) /\ (outbox[w] = <<Started(j)>> \/ outbox[w] = <<>>)
            /\ Started(j) \in Messages /\ m \in Messages
        BY <3>1, <4>1 DEF Begun, Replies, Started, Messages, Kinds, TypeOK
      <4> HIDE DEF m
      <4>3. outbox'[w] = Append(outbox[w], m)
        BY <3>1, <3>2, ChildTells
      <4>4. Begun(w, j)'
        <5>1. CASE outbox[w] = <<Started(j)>>
          <6>1. outbox'[w] = <<Started(j), m>>
            BY <4>2, <4>3, <5>1, Appending
          <6>2. state[j] = "queued"
            <7>1. <<Started(j)>> # <<>>
              OBVIOUS
            <7>2. \A r \in Replies(j) : <<Started(j)>> # <<r>>
              <8>1. \A r \in Replies(j) : Started(j) # r
                BY DEF Started, Replies
              <8> QED
                BY <8>1
            <7> QED
              BY <4>1, <5>1, <7>1, <7>2 DEF Begun
          <6> QED
            BY <1>1, <3>1, <4>1, <4>2, <6>1, <6>2 DEF Begun, Started, Replies
        <5>2. CASE outbox[w] = <<>>
          <6>1. outbox'[w] = <<m>>
            BY <4>2, <4>3, <5>2, Appending
          <6>2. state[j] = "running"
            <7>1. <<Started(j)>> # <<>> /\ \A r : <<Started(j), r>> # <<>> /\ <<r>> # <<>>
              OBVIOUS
            <7> QED
              BY <4>1, <5>2, <7>1 DEF Begun
          <6> QED
            BY <1>1, <3>1, <4>1, <4>2, <6>1, <6>2 DEF Begun, Started, Replies
        <5> QED
          BY <4>2, <5>1, <5>2
      <4> QED
        BY <1>1, <3>1, <4>1, <4>4 DEF Pipe
    <3>3. CASE w \notin pool \cup Joining
      BY <1>1, <3>1, <3>3 DEF Pipe
    <3> QED
      BY <3>2, <3>3
  <2> QED
    BY <2>1, <2>2, <2>3
<1>4. Pipes'
  <2> SUFFICES ASSUME NEW v \in Workers, v # w
               PROVE  Pipe(v)'
    BY <1>3 DEF Pipes
  <2>1. Pipe(v) /\ (v \in (pool \cup Joining)' => v \in pool \cup Joining)
    BY <1>1 DEF Work, Pipes
  <2> QED
    BY <1>1, <2>1, SamePipe
<1>5. Beginnings'
  <2>1. Waiting' = Waiting /\ \A j \in Waiting : ran[j] = 0
    BY <1>1, <1>2 DEF Beginnings, Waiting
  <2>2. \A v \in Workers : inbox'[v] \in {inbox[v], NoJob} /\ (child[v] = "gone" => child'[v] = "gone")
    BY <1>1
  <2>3. pc' = "dispatch" => \A v \in Sends' : job_id'[v] = sending'[v]
    BY <1>1, <1>2 DEF Beginnings, Sends
  <2> QED
    BY <1>1, <1>2, <2>1, <2>2, <2>3, BeginningsKept
<1>6. \A j \in Jobs : state'[j] \in {"running", "succeeded", "task_failed"} => ran[j] = 1
  BY <1>1 DEF Work, HonestOutcome
<1> QED
  BY <1>1, <1>4, <1>5, <1>6, WorkKept

(* A child begins the job that waits in its pipe: nothing else names it.   *)
LEMMA WorkStart ==
  ASSUME TypeOK, Books, Threads, Work, NEW w \in Workers, ChildStart(w)
  PROVE  Work'
<1> DEFINE k == inbox[w]
<1>1. /\ child[w] = "up" /\ task[w] = NoJob /\ k # NoJob /\ k \in Jobs /\ Say(w, Started(k))
      /\ \A v \in Workers : task'[v] = IF v = w THEN k ELSE task[v]
      /\ \A v \in Workers : inbox'[v] = IF v = w THEN NoJob ELSE inbox[v]
      /\ \A j \in Jobs : ran'[j] = IF j = k THEN ran[k] + 1 ELSE ran[j]
  BY DEF ChildStart, TypeOK, Started
<1>2. /\ UNCHANGED <<state, active, job_id, ready, sending, pool, child, pc, cur>> /\ Joining' = Joining
      /\ \A v \in Workers : Undelivered(v)' <=> Undelivered(v)
  BY DEF ChildStart, poolVars, pcVars, Undelivered, Joining
<1>3. Pipe(w) /\ Beginnings /\ AtMostOnce /\ HonestOutcome
  BY DEF Work, Pipes
<1>4. /\ Pending(w, k) /\ ran[k] = 0 /\ state[k] # "new" /\ ~Undelivered(w)
      /\ \A v \in Workers : Pending(v, k) => v = w
      /\ job_id[w] = k \/ state[k] \in Ended
  <2>1. Pending(w, k)
    BY DEF Pending
  <2> QED
    BY <1>1, <1>3, <2>1 DEF Beginnings
<1>5. ran'[k] = 1
  BY <1>1, <1>4
<1>6. \A v \in Workers \ {w} : job_id[v] # k
  BY <1>1, <1>4 DEF Books, Attached, Live, Ended, Outcomes, Unfinished
<1>7. Pipe(w)'
  <2>1. CASE w \in pool \cup Joining
    <3>1. job_id[w] = k /\ sending[w] \in {NoJob, k} /\ NotBegun(w, k)
      BY <1>1, <1>3, <2>1 DEF Pipe, Unattached, NotBegun, Begun
    <3>2. outbox'[w] = <<Started(k)>>
      <4>1. outbox'[w] = Append(<<>>, Started(k))
        BY <1>1, <2>1, <3>1, ChildTells DEF NotBegun
      <4>2. Started(k) \in Messages
        BY <1>1 DEF Started, Messages, Kinds
      <4> QED
        BY <4>1, <4>2, Appending
    <3>3. state'[k] = "queued" /\ inbox'[w] = NoJob /\ task'[w] = k /\ ~Undelivered(w)'
      BY <1>1, <1>2, <1>4, <3>1 DEF NotBegun
    <3> DEFINE j == k
    <3> HIDE DEF j
    <3>4. inbox'[w] = NoJob /\ ran'[j] = 1 /\ outbox'[w] = <<Started(j)>> /\ state'[j] = "queued" /\ task'[w] = j
      BY <1>5, <3>2, <3>3 DEF j
    <3>5. j = job_id'[w] /\ j # NoJob
      BY <1>1, <1>2, <3>1 DEF j
    <3>6. Begun(w, job_id[w])'
      BY <3>3, <3>4, <3>5 DEF Begun, Started, Replies
    <3> QED
      BY <1>1, <1>2, <3>1, <3>5, <3>6 DEF Pipe
  <2>2. CASE w \notin pool \cup Joining
    BY <1>1, <1>2, <2>2 DEF Pipe
  <2> QED
    BY <2>1, <2>2
<1>8. Pipes'
  <2> SUFFICES ASSUME NEW v \in Workers, v # w
               PROVE  Pipe(v)'
    BY <1>7 DEF Pipes
  <2>1. Pipe(v) /\ (v \in (pool \cup Joining)' => v \in pool \cup Joining)
    BY <1>2 DEF Work, Pipes
  <2>2. outbox'[v] = outbox[v]
    BY <1>1, ChildTells
  <2>3. job_id[v] # NoJob => ran'[job_id[v]] = ran[job_id[v]]
    BY <1>1, <1>6 DEF TypeOK
  <2> QED
    BY <1>1, <1>2, <2>1, <2>2, <2>3, SamePipe
<1>9. Beginnings'
  <2>1. state[k] \notin {"new", "worker_start_failed"} /\ k \notin Waiting
    <3>1. CASE job_id[w] = k
      BY <1>1, <3>1, SentinelAssumption DEF Books, Attached, Live, Unfinished, Waiting
    <3>2. CASE state[k] \in Ended
      BY <3>2 DEF Ended, Outcomes, Waiting
    <3> QED
      BY <1>4, <3>1, <3>2
  <2>2. \A j \in Jobs : state'[j] \in {"new", "worker_start_failed"} \/ j \in Waiting' => ran'[j] = 0
    BY <1>1, <1>2, <1>3, <2>1 DEF Beginnings, Waiting
  <2>3. \A v \in Workers, j \in Jobs : Pending(v, j)' => Pending(v, j) /\ j # k
    <3> SUFFICES ASSUME NEW v \in Workers, NEW j \in Jobs, Pending(v, j)'
                 PROVE  Pending(v, j) /\ j # k
      OBVIOUS
    <3>1. v # w
      BY <1>1, <1>2, <1>4, SentinelAssumption DEF Pending
    <3> QED
      BY <1>1, <1>2, <1>4, <3>1 DEF Pending
  <2>4. \A v \in Workers, j \in Jobs : Pending(v, j)' =>
          ran'[j] = 0 /\ state'[j] # "new" /\ \A u \in Workers : Pending(u, j)' => u = v
    BY <1>1, <1>2, <1>3, <2>3 DEF Beginnings
  <2>5. \A v \in Workers : inbox'[v] # NoJob => inbox'[v] = inbox[v]
    BY <1>1
  <2> QED
    BY <1>2, <1>3, <2>2, <2>4, <2>5 DEF Beginnings, Sends
<1>10. AtMostOnce'
  BY <1>1, <1>3, <1>5 DEF AtMostOnce
<1>11. HonestOutcome'
  <2>1. \A j \in Jobs : state'[j] \in {"running", "succeeded", "task_failed"} => ran'[j] = 1
    BY <1>1, <1>2, <1>3, <1>5 DEF HonestOutcome
  <2> QED
    BY <1>9, <2>1 DEF HonestOutcome, Beginnings
<1> QED
  BY <1>8, <1>9, <1>10, <1>11 DEF Work

LEMMA WorkStep ==
  ASSUME TypeOK, Books, Threads, Work, [Next]_vars
  PROVE  Work'
<1>1. CASE UNCHANGED vars
  <2>1. UNCHANGED <<state, ran, active, job_id, ready, child, task, inbox, outbox, sending, pool, pc, cur>>
    BY <1>1 DEF vars, jobVars, poolVars, childVars, pcVars
  <2>2. (pool \cup Joining)' \subseteq pool \cup Joining /\ \A w \in Workers : Undelivered(w)' <=> Undelivered(w)
    BY <2>1 DEF Joining, Undelivered
  <2> QED
    BY <2>1, <2>2, IdleWork
<1>2. CASE Requests \/ BackoffEnds
  BY <1>2, WorkRequests
<1>3. CASE Children
  BY <1>3, WorkChild, WorkStart DEF Children
<1>4. CASE Coordinate
  BY <1>4, WorkScan, WorkDispatch, WorkStarts DEF Coordinate
<1>5. CASE DrainBegin \/ DrainSteps \/ CloseBegin \/ CloseSteps
  BY <1>5, WorkStops
<1> QED
  BY <1>1, <1>2, <1>3, <1>4, <1>5 DEF Next

-----------------------------------------------------------------------------

(* How a step moves each job: as the lifecycle allows; into the queue only *)
(* from a submission, which neither a draining nor a closing store takes;  *)
(* and to the ends that cut a running job short only outside drain().      *)
Moved ==
  \A j \in Jobs :
    \/ state'[j] = state[j]
    \/ state[j] = "new" /\ state'[j] = "queued" /\ ~Draining /\ ~stopping
    \/ /\ <<state[j], state'[j]>> \in Lifecycle!Moves
       /\ state'[j] # "queued"
       /\ state'[j] \in {"timed_out", "cancelled"} => drain # "busy"

LEMMA MovesAllowed ==
  /\ <<"new", "queued">> \in Lifecycle!Moves /\ <<"queued", "running">> \in Lifecycle!Moves
  /\ \A s \in Outcomes : <<s, "expired">> \in Lifecycle!Moves
  /\ \A s \in Unfinished, t \in {"worker_crashed", "timed_out", "cancelled"} : <<s, t>> \in Lifecycle!Moves
  /\ \A t \in {"worker_start_failed", "service_restarted"} : <<"queued", t>> \in Lifecycle!Moves
  /\ \A t \in {"succeeded", "task_failed"} : <<"running", t>> \in Lifecycle!Moves
BY DEF Lifecycle!Moves, Lifecycle!Outcomes, Outcomes, Unfinished

(* Ends of unfinished jobs, each with a code its status allows.            *)
LEMMA SettleMoves ==
  ASSUME TypeOK, NEW J \in SUBSET Live, NEW code, NEW X \in SUBSET Over, Settle(J, code, X),
         \A j \in J : \/ code[j] \in {"worker_crashed", "timed_out", "cancelled"}
                      \/ code[j] \in {"worker_start_failed", "service_restarted"} /\ state[j] = "queued",
         \A j \in J : code[j] \in {"timed_out", "cancelled"} => drain # "busy"
  PROVE  Moved
<1>1. \A j \in Jobs : state'[j] = IF j \in J THEN code[j] ELSE IF j \in X THEN "expired" ELSE state[j]
  BY DEF Settle
<1>2. \A j \in J : j \in Jobs /\ state[j] \in Unfinished
  BY DEF Live
<1>3. \A j \in X : state[j] \in Outcomes
  BY DEF Over
<1> SUFFICES ASSUME NEW j \in Jobs, state'[j] # state[j]
             PROVE  /\ <<state[j], state'[j]>> \in Lifecycle!Moves
                    /\ state'[j] # "queued"
                    /\ state'[j] \in {"timed_out", "cancelled"} => drain # "busy"
  BY DEF Moved
<1>4. CASE j \in J
  BY <1>1, <1>2, <1>4, MovesAllowed
<1>5. CASE j \notin J
  BY <1>1, <1>3, <1>5, MovesAllowed
<1> QED
  BY <1>4, <1>5

LEMMA LoseMoves ==
  ASSUME TypeOK, NEW w, NEW died, NEW owned, Lose(w, died, owned)
  PROVE  Moved
<1> DEFINE held   == {j \in Jobs : j = job_id[w] /\ j \in Live}
           again  == {j \in held : state[j] = "queued" /\ j \notin retried}
           failed == IF died /\ w \notin ready THEN Stranded(pool \ {w}) ELSE {}
           code   == [j \in Jobs |-> IF j \in failed THEN "worker_start_failed" ELSE "worker_crashed"]
           J      == (held \ again) \cup failed
           X      == {}
<1>1. CASE w \in retiring
  BY <1>1 DEF Lose, Moved
<1>2. CASE w \notin retiring
  <2>1. Settle(J, code, X)
    BY <1>2 DEF Lose, Finish
  <2>2. J \in SUBSET Live /\ X \in SUBSET Over
    BY DEF Stranded, Waiting, Live, Unfinished
  <2>3. \A j \in J : \/ code[j] = "worker_crashed"
                     \/ code[j] = "worker_start_failed" /\ state[j] = "queued"
    <3>1. \A j \in failed : j \in Jobs /\ state[j] = "queued"
      BY DEF Stranded, Waiting
    <3>2. J \subseteq Jobs
      BY <2>2 DEF Live
    <3> QED
      BY <3>1, <3>2
  <2> HIDE DEF J, code, X
  <2> QED
    BY <2>1, <2>2, <2>3, SettleMoves
<1> QED
  BY <1>1, <1>2

LEMMA ReceiveMoves ==
  ASSUME TypeOK, Books, Threads, Work, NEW w \in pool \cup retiring, Receive(w)
  PROVE  Moved
<1>1. \A s : state' = [state EXCEPT ![job_id[w]] = s] =>
        \A j \in Jobs : state'[j] = state[j] \/ (j = job_id[w] /\ state'[j] = s)
  BY DEF TypeOK
<1>2. CASE ReadReady(w)
  BY <1>2 DEF ReadReady, Moved
<1>3. CASE state[job_id[w]] = "queued" /\ ReadStarted(w)
  BY <1>1, <1>3, MovesAllowed DEF ReadStarted, Moved
<1>4. CASE state[job_id[w]] = "running" /\ ReadReply(w)
  BY <1>1, <1>4, MovesAllowed DEF ReadReply, Moved
<1> QED
  BY <1>2, <1>3, <1>4, ReadingEffect

LEMMA StepMoves ==
  ASSUME TypeOK, Books, Threads, Work, [Next]_vars
  PROVE  Moved
<1> DEFINE none == {}
<1>1. ASSUME NEW X \in SUBSET Over, NEW j \in Jobs, Submit(j, X)
      PROVE  Moved
  <2>1. \A k \in Jobs : state'[k] = IF k = j THEN "queued" ELSE IF k \in X THEN "expired" ELSE state[k]
    BY <1>1 DEF Submit
  <2>2. state[j] = "new" /\ \A k \in X : state[k] \in Outcomes
    BY <1>1 DEF Submit, Over
  <2>3. ~Draining /\ ~stopping
    BY <1>1 DEF Submit
  <2> QED
    BY <2>1, <2>2, <2>3, MovesAllowed DEF Moved
<1>2. ASSUME NEW X \in SUBSET Over, Get(X) \/ CoordBegin(X)
      PROVE  Moved
  <2>1. Settle(none, <<>>, X) /\ none \in SUBSET Live
    BY <1>2 DEF Get, CoordBegin
  <2> QED
    BY <2>1, SettleMoves
<1>3. ASSUME NEW X \in SUBSET Over, NEW j \in Jobs, Cancel(j, X)
      PROVE  Moved
  <2> DEFINE J == {j}
             code == All({j}, "cancelled")
  <2>1. J \in SUBSET Live /\ Settle(J, code, X) /\ \A k \in J : code[k] = "cancelled"
    BY <1>3 DEF Cancel, Abort, All
  <2>2. drain # "busy"
    BY <1>3 DEF Cancel, LockFree
  <2> HIDE DEF J, code
  <2> QED
    BY <2>1, <2>2, SettleMoves
<1>4. CASE CoordReceive \/ \E w \in Workers : DrainReceive(w)
  <2>1. \E w \in pool \cup retiring : Receive(w)
    BY <1>4 DEF CoordReceive, DrainReceive, Threads, Membership
  <2> QED
    BY <2>1, ReceiveMoves
<1>5. CASE CoordEOF \/ CheckSlow \/ \E w \in Workers : DrainEOF(w)
  <2>1. \E w, died, owned : Lose(w, died, owned)
    BY <1>5 DEF CoordEOF, CheckSlow, DrainEOF
  <2> QED
    BY <2>1, LoseMoves
<1>6. CASE SendDone
  <2>1. state' = state \/ Lose(cur, FALSE, Sends \ {cur})
    BY <1>6 DEF SendDone
  <2> QED
    BY <2>1, LoseMoves DEF Moved
<1>7. ASSUME NEW late \in SUBSET Live, JobsStep(late)
      PROVE  Moved
  <2> DEFINE J == Due(late) \cup (IF Draining THEN Queued ELSE {})
             code == [j \in Jobs |-> IF j \in late THEN "timed_out" ELSE "service_restarted"]
  <2>1. J \in SUBSET Live /\ none \in SUBSET Over
    BY DEF Due, Queued, Live, Unfinished
  <2>2. \A j \in J : code[j] = "timed_out" \/ (code[j] = "service_restarted" /\ state[j] = "queued")
    BY <2>1 DEF Due, Queued, Live
  <2>3. Settle(J, code, none)
    BY <1>7 DEF JobsStep, Abort
  <2>4. drain # "busy"
    BY <1>7 DEF JobsStep, Threads, Control, LockedPcs
  <2> HIDE DEF J, code, none
  <2> QED
    BY <2>1, <2>2, <2>3, <2>4, SettleMoves
<1>8. CASE DrainFinish
  <2> DEFINE code == All(Queued, "service_restarted")
  <2>1. Queued \in SUBSET Live /\ none \in SUBSET Over /\ Settle(Queued, code, none)
    BY <1>8 DEF DrainFinish, Abort, Queued, Live, Unfinished
  <2>2. \A j \in Queued : code[j] = "service_restarted" /\ state[j] = "queued"
    BY DEF All, Queued
  <2> HIDE DEF code, none
  <2> QED
    BY <2>1, <2>2, SettleMoves
<1>9. CASE CloseJobs
  <2> DEFINE code == All(Live, "cancelled")
  <2>1. drain # "busy" /\ Live \in SUBSET Live /\ none \in SUBSET Over /\ Settle(Live, code, none)
    BY <1>9 DEF CloseJobs, Finish, LockFree
  <2>2. \A j \in Live : code[j] = "cancelled"
    BY DEF All
  <2> HIDE DEF code, none
  <2> QED
    BY <2>1, <2>2, SettleMoves
<1>10. CASE StartFailed
  <2> DEFINE J == Stranded(pool)
             code == All(Stranded(pool), "worker_start_failed")
  <2>1. J \in SUBSET Live /\ none \in SUBSET Over /\ Settle(J, code, none)
    BY <1>10 DEF StartFailed, Finish, Stranded, Waiting, Live, Unfinished
  <2>2. \A j \in J : code[j] = "worker_start_failed" /\ state[j] = "queued"
    BY DEF All, Stranded, Waiting
  <2> HIDE DEF J, code, none
  <2> QED
    BY <2>1, <2>2, SettleMoves
<1>11. ASSUME \/ BackoffEnds \/ CoordExit \/ PollEmpty \/ CheckDead \/ CheckAlive \/ DispatchDone
              \/ Replenish \/ StartRefused \/ JoinPool \/ Discard \/ LeaveReaping \/ UNCHANGED vars
              \/ \E w \in Workers : PickWorker(w) \/ SendMessage(w) \/ StartWorker(w)
              \/ \E j \in Jobs, w \in Workers : Attach(j, w)
              \/ \E K \in SUBSET reapable : Reap(K)
       PROVE  Moved
  <2>1. state' = state
    BY <1>11 DEF BackoffEnds, CoordExit, PollEmpty, CheckDead, CheckAlive, DispatchDone, Replenish, StartRefused,
       JoinPool, Discard, LeaveReaping, PickWorker, SendMessage, StartWorker, Attach, Reap, vars, jobVars
  <2> QED
    BY <2>1 DEF Moved
<1>12. ASSUME \/ DrainBegin \/ CloseBegin \/ CloseJoined \/ CloseReap \/ CloseFinal
              \/ \E w \in Workers : DrainEmpty(w)
              \/ Children
       PROVE  Moved
  <2>1. state' = state
    BY <1>12 DEF DrainBegin, CloseBegin, CloseJoined, CloseReap, CloseFinal, DrainEmpty,
       Children, ChildReady, ChildStart, ChildReply, ChildExit, jobVars
  <2> QED
    BY <2>1 DEF Moved
<1> QED
  BY <1>1, <1>2, <1>3, <1>4, <1>5, <1>6, <1>7, <1>8, <1>9, <1>10, <1>11, <1>12
     DEF Next, Requests, Coordinate, DrainSteps, CloseSteps

-----------------------------------------------------------------------------
(* No job enters the queue any more.                                       *)
LEMMA DrainedStep ==
  ASSUME TypeOK, Books, Threads, Work, DrainedQueue, [Next]_vars
  PROVE  DrainedQueue'
<1> SUFFICES ASSUME drain' = "done", NEW j \in Jobs
             PROVE  state'[j] # "queued"
  BY DEF DrainedQueue
<1>1. CASE drain = "done"
  <2>1. state[j] # "queued" /\ Draining
    BY <1>1 DEF DrainedQueue, Draining
  <2> QED
    BY <2>1, StepMoves DEF Moved
<1>2. CASE drain # "done"
  <2>1. DrainFinish
    BY <1>2 DEF Next, Requests, Submit, Get, Cancel, Coordinate, CoordBegin, CoordExit, CoordReceive, PollEmpty,
       CoordEOF, CheckDead, CheckAlive, CheckSlow, JobsStep, PickWorker, SendMessage, StartWorker, Attach,
       DispatchDone, SendDone, Replenish, StartRefused, JoinPool, StartFailed, Discard, Reap, LeaveReaping,
       Children, ChildReady, ChildStart, ChildReply, ChildExit, DrainBegin, DrainSteps, DrainReceive, DrainEmpty,
       DrainEOF, CloseBegin, CloseSteps, CloseJoined, CloseJobs, CloseReap, CloseFinal, BackoffEnds, pcVars, vars
  <2>2. state'[j] = IF j \in Queued THEN "service_restarted" ELSE state[j]
    BY <2>1 DEF DrainFinish, Abort, Settle, All
  <2> QED
    BY <2>2 DEF Queued
<1> QED
  BY <1>1, <1>2
-----------------------------------------------------------------------------
(* Which children come into the pool and which leave it, and where the     *)
(* coordinator can go once it has left its loop.                           *)
Placed ==
  /\ pool' \subseteq pool \/ (JoinPool /\ ~stopping /\ pool' = pool \cup {cur})
  /\ retiring' \subseteq retiring \cup pool
  /\ stopping => stopping'
  /\ pc = "done" => pc' = "done"

LEMMA PlacesStep ==
  ASSUME TypeOK, Books, Threads, [Next]_vars
  PROVE  Placed
<1>1. CASE \E X \in SUBSET Over, j \in Jobs : Cancel(j, X)
  <2>1. PICK X \in SUBSET Over, j \in Jobs : Cancel(j, X)
    BY <1>1
  <2>2. {j} \in SUBSET Live /\ Abort({j}, All({j}, "cancelled"), X)
    BY <2>1 DEF Cancel
  <2>3. PICK W \in SUBSET pool : Retired(W)
    BY <2>2, AbortRetires
  <2> QED
    BY <2>1, <2>3 DEF Cancel, Retired, pcVars, Placed
<1>2. CASE \E late \in SUBSET Live : JobsStep(late)
  <2>1. PICK late \in SUBSET Live : JobsStep(late)
    BY <1>2
  <2> DEFINE J == Due(late) \cup (IF Draining THEN Queued ELSE {})
             code == [j \in Jobs |-> IF j \in late THEN "timed_out" ELSE "service_restarted"]
  <2>2. J \in SUBSET Live
    BY DEF Due, Queued, Live, Unfinished
  <2>3. Abort(J, code, {})
    BY <2>1 DEF JobsStep
  <2> HIDE DEF J, code
  <2>4. PICK W \in SUBSET pool : Retired(W)
    BY <2>2, <2>3, AbortRetires
  <2> QED
    BY <2>1, <2>4 DEF JobsStep, Retired, Placed
<1>3. CASE DrainFinish
  <2>1. Queued \in SUBSET Live /\ Abort(Queued, All(Queued, "service_restarted"), {})
    BY <1>3 DEF DrainFinish, Queued, Live, Unfinished
  <2>2. PICK W \in SUBSET pool : Retired(W)
    BY <2>1, AbortRetires
  <2> QED
    BY <1>3, <2>2 DEF DrainFinish, Retired, Placed
<1>4. ASSUME CoordEOF \/ CheckSlow \/ (SendDone /\ Lose(cur, FALSE, Sends \ {cur})) \/ \E w \in Workers : DrainEOF(w)
      PROVE  Placed
  <2>1. \E w \in pool \cup retiring : \E died, owned : w \in Workers /\ Lose(w, died, owned)
    BY <1>4 DEF CoordEOF, CheckSlow, DrainEOF, SendDone, Threads, Control, Membership, TypeOK
  <2>2. \E w \in pool \cup retiring : Retired({w})
    BY <2>1, LoseRetires DEF Threads
  <2>3. UNCHANGED stopping /\ (pc' = pc \/ pc # "done")
    BY <1>4 DEF CoordEOF, CheckSlow, DrainEOF, SendDone
  <2> QED
    BY <2>2, <2>3 DEF Retired, Placed
<1>5. CASE CoordReceive \/ \E w \in Workers : DrainReceive(w)
  <2>1. \E w \in pool \cup retiring : Receive(w)
    BY <1>5 DEF CoordReceive, DrainReceive, Threads, Membership
  <2>2. pool' \subseteq pool /\ retiring' \subseteq retiring \cup pool
    BY <2>1 DEF Receive, Retire
  <2> QED
    BY <1>5, <2>2 DEF CoordReceive, DrainReceive, Placed
<1>6. CASE CloseJobs
  <2>1. pool' \subseteq pool /\ UNCHANGED <<stopping, pc>>
    BY <1>6 DEF CloseJobs, Retire
  <2>2. \A j \in Live : active[j] # NoWorker => active[j] \in pool
    <3> SUFFICES ASSUME NEW j \in Live, active[j] # NoWorker
                 PROVE  active[j] \in pool
      OBVIOUS
    <3>1. j \in Jobs /\ active[j] \in Workers /\ j # NoJob
      BY SentinelAssumption DEF Live, TypeOK
    <3> QED
      BY <3>1 DEF Books, Attached
  <2>3. retiring' \subseteq retiring \cup pool
    BY <1>6, <2>2 DEF CloseJobs, Retire
  <2> QED
    BY <2>1, <2>3 DEF Placed
<1>7. CASE JoinPool
  BY <1>7 DEF JoinPool, Placed
<1>8. ASSUME \/ BackoffEnds \/ CoordExit \/ PollEmpty \/ CheckDead \/ CheckAlive \/ DispatchDone
             \/ Replenish \/ StartRefused \/ StartFailed \/ Discard \/ LeaveReaping
             \/ (SendDone /\ UNCHANGED <<pool, retiring>>)
             \/ \E w \in Workers : PickWorker(w) \/ SendMessage(w) \/ StartWorker(w)
             \/ \E j \in Jobs, w \in Workers : Attach(j, w)
             \/ \E K \in SUBSET reapable : Reap(K)
      PROVE  Placed
  <2>1. pool' = pool /\ retiring' \subseteq retiring
    BY <1>8 DEF BackoffEnds, CoordExit, PollEmpty, CheckDead, CheckAlive, DispatchDone, Replenish, StartRefused,
       StartFailed, Discard, LeaveReaping, SendDone, PickWorker, SendMessage, StartWorker, Attach, Reap, poolVars
  <2>2. UNCHANGED stopping
    BY <1>8 DEF BackoffEnds, CoordExit, PollEmpty, CheckDead, CheckAlive, DispatchDone, Replenish, StartRefused,
       StartFailed, Discard, LeaveReaping, SendDone, PickWorker, SendMessage, StartWorker, Attach, Reap, pcVars
  <2>3. pc = "done" => pc' = "done"
    BY <1>8 DEF BackoffEnds, CoordExit, PollEmpty, CheckDead, CheckAlive, DispatchDone, Replenish, StartRefused,
       StartFailed, Discard, LeaveReaping, SendDone, PickWorker, SendMessage, StartWorker, Attach, Reap, pcVars
  <2> QED
    BY <2>1, <2>2, <2>3 DEF Placed
<1>9. ASSUME \/ DrainBegin \/ CloseBegin \/ CloseJoined \/ CloseReap \/ CloseFinal \/ UNCHANGED vars
             \/ \E w \in Workers : DrainEmpty(w)
      PROVE  Placed
  BY <1>9 DEF DrainBegin, CloseBegin, CloseJoined, CloseReap, CloseFinal, DrainEmpty, poolVars, pcVars, vars, Placed
<1>10. ASSUME \/ \E X \in SUBSET Over : Get(X) \/ CoordBegin(X)
              \/ \E X \in SUBSET Over, j \in Jobs : Submit(j, X)
       PROVE  Placed
  BY <1>10 DEF Get, CoordBegin, Submit, poolVars, pcVars, Placed
<1>11. CASE Children
  <2>1. UNCHANGED <<pool, retiring, stopping, pc>>
    BY <1>11 DEF Children, ChildReady, ChildStart, ChildReply, ChildExit, poolVars, pcVars
  <2> QED
    BY <2>1 DEF Placed
<1>12. CASE SendDone
  <2>1. UNCHANGED <<pool, retiring>> \/ Lose(cur, FALSE, Sends \ {cur})
    BY <1>12 DEF SendDone, retireVars
  <2> QED
    BY <1>4, <1>8, <1>12, <2>1
<1>13. CASE Requests \/ BackoffEnds
  BY <1>1, <1>8, <1>10, <1>13 DEF Requests
<1>14. CASE Coordinate
  <2>1. CASE \/ \E X \in SUBSET Over : CoordBegin(X)
             \/ CoordExit \/ CoordReceive \/ PollEmpty \/ CoordEOF
             \/ CheckDead \/ CheckAlive \/ CheckSlow \/ DispatchDone
             \/ \E late \in SUBSET Live : JobsStep(late)
    BY <1>2, <1>4, <1>5, <1>8, <1>10, <2>1
  <2>2. CASE \/ \E w \in Workers : PickWorker(w) \/ SendMessage(w) \/ StartWorker(w)
             \/ \E j \in Jobs, w \in Workers : Attach(j, w)
             \/ SendDone \/ Replenish \/ StartRefused \/ JoinPool \/ StartFailed \/ Discard
             \/ \E K \in SUBSET reapable : Reap(K)
             \/ LeaveReaping
    BY <1>7, <1>8, <1>12, <2>2
  <2> QED
    BY <1>14, <2>1, <2>2 DEF Coordinate
<1>15. CASE DrainBegin \/ DrainSteps \/ CloseBegin \/ CloseSteps \/ UNCHANGED vars
  BY <1>3, <1>4, <1>5, <1>6, <1>9, <1>15 DEF DrainSteps, CloseSteps
<1> QED
  BY <1>11, <1>13, <1>14, <1>15 DEF Next

LEMMA CloserMoves ==
  ASSUME [Next]_vars
  PROVE  closing' = closing \/ CloseBegin \/ CloseSteps
BY DEF Next, Requests, Submit, Get, Cancel, Coordinate, CoordBegin, CoordExit, CoordReceive, PollEmpty,
   CoordEOF, CheckDead, CheckAlive, CheckSlow, JobsStep, PickWorker, SendMessage, StartWorker, Attach,
   DispatchDone, SendDone, Replenish, StartRefused, JoinPool, StartFailed, Discard, Reap, LeaveReaping,
   Children, ChildReady, ChildStart, ChildReply, ChildExit, DrainBegin, DrainSteps, DrainReceive, DrainEmpty,
   DrainEOF, DrainFinish, BackoffEnds, pcVars, vars

(* After the event no job is accepted and no child joins; CloseJobs        *)
(* empties both.                                                           *)
LEMMA ClosingStep ==
  ASSUME TypeOK, Books, Threads, Work, Closing, [Next]_vars
  PROVE  Closing'
<1>1. closing' = closing \/ CloseBegin \/ CloseJoined \/ CloseJobs \/ CloseReap \/ CloseFinal
  BY CloserMoves DEF CloseSteps
<1>2. Placed /\ Moved
  BY PlacesStep, StepMoves
<1>3. closing' # "open" => stopping'
  <2>1. CloseBegin => stopping'
    BY DEF CloseBegin
  <2>2. CloseJoined \/ CloseJobs \/ CloseReap \/ CloseFinal => closing # "open"
    BY DEF CloseJoined, CloseJobs, CloseReap, CloseFinal
  <2> QED
    BY <1>1, <1>2, <2>1, <2>2 DEF Closing, Placed
<1>4. closing' \in {"reap", "final", "closed"} => Live' = {} /\ pool' = {}
  <2>1. CASE closing \in {"reap", "final", "closed"}
    <3>1. stopping /\ Live = {} /\ pool = {}
      BY <2>1 DEF Closing
    <3>2. pool' = {}
      BY <1>2, <3>1 DEF Placed
    <3>3. \A s : <<s, "running">> \in Lifecycle!Moves => s = "queued"
      BY DEF Lifecycle!Moves, Lifecycle!Outcomes
    <3>4. Live' = {}
      <4> SUFFICES ASSUME NEW j \in Jobs, state'[j] \in Unfinished
                   PROVE  j \in Live
        BY <3>1 DEF Live
      <4> QED
        BY <1>2, <3>1, <3>3 DEF Moved, Live, Unfinished
    <3> QED
      BY <3>2, <3>4
  <2>2. CASE closing \notin {"reap", "final", "closed"} /\ CloseJobs
    <3>1. pool' = {}
      BY <2>2 DEF CloseJobs, Retire
    <3>2. \A j \in Jobs : state'[j] = IF j \in Live THEN "cancelled" ELSE state[j]
      BY <2>2 DEF CloseJobs, Finish, Settle, All
    <3>3. Live' = {}
      BY <3>2 DEF Live, Unfinished
    <3> QED
      BY <3>1, <3>3
  <2>3. CASE closing \notin {"reap", "final", "closed"} /\ ~CloseJobs
    BY <1>1, <2>3 DEF CloseBegin, CloseJoined, CloseReap, CloseFinal
  <2> QED
    BY <2>1, <2>2, <2>3
<1>5. closing' = "closed" => retiring' = {} /\ pc' = "done"
  <2>1. CASE closing = "closed"
    BY <1>2, <2>1 DEF Closing, Placed
  <2>2. CASE CloseFinal
    BY <2>2 DEF CloseFinal
  <2>3. CASE closing # "closed" /\ ~CloseFinal
    BY <1>1, <2>3 DEF CloseBegin, CloseJoined, CloseJobs, CloseReap
  <2> QED
    BY <2>1, <2>2, <2>3
<1> QED
  BY <1>3, <1>4, <1>5 DEF Closing
-----------------------------------------------------------------------------
(* What a retirement does to the pipes, when whoever sends keeps its own.  *)
LEMMA RetireOwns ==
  ASSUME TypeOK, Owned, NEW W \in SUBSET Workers, NEW stops, NEW owned, Retire(W, stops, owned),
         task' = task, inbox' = inbox,
         \/ owned = Sends /\ sending' = sending
         \/ \E w \in Workers \ retiring : /\ W = {w} /\ owned = Sends \ {w}
                                          /\ \A v \in Workers : sending'[v] = IF v = w THEN NoJob ELSE sending[v],
         \A w \in stops \cap W : w \notin owned => task[w] = NoJob /\ inbox[w] = NoJob
  PROVE  Owned'
<1>1. /\ retiring' = retiring \cup W /\ closed' = closed \cup ((W \ retiring) \ owned)
      /\ \A w \in Workers : asked'[w] = IF w \notin W \ retiring THEN asked[w]
                                        ELSE IF w \in stops \ owned THEN "stop" ELSE "term"
  BY DEF Retire, HangUp
<1>2. closed = retiring \ Sends /\ Sends \subseteq Workers
  BY DEF Owned, PipeOwnership, Sends
<1>3. /\ \A w \in Workers : w \in Sends' => w \in Sends
      /\ Sends' = owned /\ closed' = retiring' \ Sends'
  <2>1. CASE owned = Sends /\ sending' = sending
    <3>1. Sends' = Sends
      BY <2>1 DEF Sends
    <3> QED
      BY <1>1, <1>2, <2>1, <3>1
  <2>2. ASSUME NEW w \in Workers \ retiring, W = {w}, owned = Sends \ {w},
               \A v \in Workers : sending'[v] = IF v = w THEN NoJob ELSE sending[v]
        PROVE  /\ \A v \in Workers : v \in Sends' => v \in Sends
               /\ Sends' = owned /\ closed' = retiring' \ Sends'
    <3>1. Sends' = Sends \ {w}
      BY <2>2 DEF Sends
    <3> QED
      BY <1>1, <1>2, <2>2, <3>1
  <2> QED
    BY <2>1, <2>2
<1>4. Sends' \cap closed' = {}
  BY <1>3
<1>5. \A w \in Workers : asked'[w] = "stop" => task'[w] = NoJob /\ inbox'[w] = NoJob /\ w \notin Sends'
  <2> SUFFICES ASSUME NEW w \in Workers, asked'[w] = "stop"
               PROVE  task[w] = NoJob /\ inbox[w] = NoJob /\ w \notin Sends'
    OBVIOUS
  <2>1. CASE w \in W \ retiring
    BY <1>1, <1>3, <2>1
  <2>2. CASE w \notin W \ retiring
    BY <1>1, <1>3, <2>2 DEF Owned, PipeOwnership
  <2> QED
    BY <2>1, <2>2
<1>6. \A w \in Workers : asked'[w] # "no" => w \in retiring'
  BY <1>1 DEF Owned
<1> QED
  BY <1>3, <1>4, <1>5, <1>6 DEF Owned, PipeOwnership

(* Nothing that Owned speaks of changes, but for work that is dropped or   *)
(* taken from a pipe that is still open.                                   *)
LEMMA SameOwned ==
  ASSUME Owned, UNCHANGED <<retiring, closed, asked>>, Sends' = Sends,
         \A w \in Workers : asked[w] = "stop" => task'[w] \in {task[w], NoJob} /\ inbox'[w] \in {inbox[w], NoJob}
  PROVE  Owned'
BY DEF Owned, PipeOwnership

LEMMA AbortOwned ==
  ASSUME TypeOK, Owned, NEW J \in SUBSET Jobs, NEW code, NEW X, Abort(J, code, X),
         UNCHANGED <<sending, task, inbox>>
  PROVE  Owned'
<1> DEFINE W == {active[j] : j \in J} \ {NoWorker}
           stops == {}
<1>1. W \in SUBSET Workers
  BY DEF TypeOK
<1>2. Retire(W, stops, Sends) /\ \A w \in stops \cap W : w \notin Sends => task[w] = NoJob /\ inbox[w] = NoJob
  BY DEF Abort
<1> HIDE DEF W, stops
<1> QED
  BY <1>1, <1>2, RetireOwns

LEMMA LoseOwned ==
  ASSUME TypeOK, Owned, NEW w \in Workers, NEW died, Lose(w, died, Sends), UNCHANGED <<sending, task, inbox>>
  PROVE  Owned'
<1>1. CASE w \in retiring
  <2>1. UNCHANGED <<retiring, closed, asked>> /\ Sends' = Sends
    BY <1>1 DEF Lose, retireVars, Sends
  <2> QED
    BY <2>1, SameOwned
<1>2. CASE w \notin retiring
  <2> DEFINE W == {w}
             stops == {}
  <2>1. /\ W \in SUBSET Workers /\ Retire(W, stops, Sends)
        /\ \A v \in stops \cap W : v \notin Sends => task[v] = NoJob /\ inbox[v] = NoJob
    BY <1>2 DEF Lose
  <2> HIDE DEF W, stops
  <2> QED
    BY <2>1, RetireOwns
<1> QED
  BY <1>1, <1>2

LEMMA ReceiveOwned ==
  ASSUME TypeOK, Books, Threads, Work, Owned, NEW w \in pool \cup retiring, Receive(w)
  PROVE  Owned'
<1>1. UNCHANGED <<sending, task, inbox>> /\ w \in Workers
  BY Reading DEF Receive
<1>2. CASE Ends(w, Head(outbox[w])) /\ served[w] >= MaxJobs
  <2> DEFINE W == {w}
  <2>1. Retire(W, W, Sends)
    BY <1>2 DEF Receive
  <2>2. task[w] = NoJob /\ inbox[w] = NoJob
    <3>1. ASSUME NEW m, Head(outbox[w]) = m, m \in {Ready, Started(job_id[w])}
          PROVE  FALSE
      <4>1. m.kind \in {"ready", "started"}
        BY <3>1 DEF Ready, Started
      <4> QED
        BY <1>2, <3>1, <4>1 DEF Ends
    <3>2. outbox[w] # <<Ready>> /\ outbox[w] # <<Started(job_id[w])>> /\ \A m : outbox[w] # <<Started(job_id[w]), m>>
      BY <3>1, Heads
    <3> QED
      BY <3>2, Reading DEF Begun
  <2> HIDE DEF W
  <2>3. W \in SUBSET Workers /\ \A v \in W \cap W : v \notin Sends => task[v] = NoJob /\ inbox[v] = NoJob
    BY <1>1, <2>2 DEF W
  <2> QED
    BY <1>1, <2>1, <2>3, RetireOwns
<1>3. CASE ~(Ends(w, Head(outbox[w])) /\ served[w] >= MaxJobs)
  <2>1. UNCHANGED <<retiring, closed, asked>> /\ Sends' = Sends
    BY <1>1, <1>3 DEF Receive, Sends
  <2> QED
    BY <1>1, <2>1, SameOwned
<1> QED
  BY <1>2, <1>3

LEMMA SendOwned ==
  ASSUME TypeOK, Threads, Owned, SendDone
  PROVE  Owned'
<1>1. /\ cur \in Workers /\ cur \in Sends /\ UNCHANGED <<task, inbox>>
      /\ \A w \in Workers : sending'[w] = IF w = cur THEN NoJob ELSE sending[w]
  BY DEF SendDone, TypeOK, Threads, Control, Sends
<1>2. Sends' = Sends \ {cur}
  BY <1>1 DEF Sends
<1>3. CASE cur \in retiring
  BY <1>1, <1>2, <1>3 DEF SendDone, Owned, PipeOwnership
<1>4. CASE cur \notin retiring /\ pc # "unsent"
  <2>1. UNCHANGED <<retiring, closed, asked>>
    BY <1>4 DEF SendDone, retireVars
  <2> QED
    BY <1>1, <1>2, <1>4, <2>1 DEF Owned, PipeOwnership
<1>5. CASE cur \notin retiring /\ pc = "unsent"
  <2> DEFINE W == {cur}
             stops == {}
             owned == Sends \ {cur}
  <2>1. /\ W \in SUBSET Workers /\ Retire(W, stops, owned)
        /\ \A v \in stops \cap W : v \notin owned => task[v] = NoJob /\ inbox[v] = NoJob
    BY <1>1, <1>5 DEF SendDone, Lose
  <2>2. W = {cur} /\ owned = Sends \ {cur} /\ cur \in Workers \ retiring
    BY <1>1, <1>5
  <2> HIDE DEF W, stops, owned
  <2> QED
    BY <1>1, <2>1, <2>2, RetireOwns
<1> QED
  BY <1>3, <1>4, <1>5

LEMMA OwnedStep ==
  ASSUME TypeOK, Books, Threads, Work, Owned, [Next]_vars
  PROVE  Owned'
<1>1. ASSUME NEW X \in SUBSET Over, NEW j \in Jobs, Cancel(j, X)
      PROVE  Owned'
  <2> DEFINE J == {j}
             code == All({j}, "cancelled")
  <2>1. J \in SUBSET Jobs /\ Abort(J, code, X) /\ UNCHANGED <<sending, task, inbox>>
    BY <1>1 DEF Cancel
  <2> HIDE DEF J, code
  <2> QED
    BY <2>1, AbortOwned
<1>2. ASSUME NEW late \in SUBSET Live, JobsStep(late)
      PROVE  Owned'
  <2> DEFINE J == Due(late) \cup (IF Draining THEN Queued ELSE {})
             code == [j \in Jobs |-> IF j \in late THEN "timed_out" ELSE "service_restarted"]
             X == {}
  <2>1. J \in SUBSET Jobs /\ Abort(J, code, X) /\ UNCHANGED <<sending, task, inbox>>
    BY <1>2 DEF JobsStep, Due, Queued, Live
  <2> HIDE DEF J, code, X
  <2> QED
    BY <2>1, AbortOwned
<1>3. CASE DrainFinish
  <2> DEFINE code == All(Queued, "service_restarted")
             X == {}
  <2>1. Queued \in SUBSET Jobs /\ Abort(Queued, code, X) /\ UNCHANGED <<sending, task, inbox>>
    BY <1>3 DEF DrainFinish, Queued
  <2> HIDE DEF code, X
  <2> QED
    BY <2>1, AbortOwned
<1>4. CASE CoordEOF \/ CheckSlow \/ \E w \in Workers : DrainEOF(w)
  <2>1. (\E w \in Workers, died \in BOOLEAN : Lose(w, died, Sends)) /\ UNCHANGED <<sending, task, inbox>>
    BY <1>4 DEF CoordEOF, CheckSlow, DrainEOF, TypeOK
  <2> QED
    BY <2>1, LoseOwned
<1>5. CASE CoordReceive \/ \E w \in Workers : DrainReceive(w)
  <2>1. \E w \in pool \cup retiring : Receive(w)
    BY <1>5 DEF CoordReceive, DrainReceive, Threads, Membership
  <2> QED
    BY <2>1, ReceiveOwned
<1>6. CASE CloseJobs
  <2> DEFINE held == {active[j] : j \in Live} \ {NoWorker}
             W == pool \cup held
             stops == pool \ held
  <2>1. W \in SUBSET Workers
    BY DEF TypeOK, Live
  <2>2. \A w \in stops \cap W : w \notin Sends => task[w] = NoJob /\ inbox[w] = NoJob
    <3> SUFFICES ASSUME NEW w \in stops
                 PROVE  task[w] = NoJob /\ inbox[w] = NoJob
      OBVIOUS
    <3>1. w \in pool /\ w \in Workers /\ Pipe(w)
      BY DEF TypeOK, Work, Pipes
    <3>2. job_id[w] = NoJob
      <4>1. ASSUME job_id[w] # NoJob
            PROVE  w \in held
        <5>1. job_id[w] \in Jobs /\ job_id[w] \in Live /\ active[job_id[w]] = w
          BY <3>1, <4>1 DEF Books, Attached, TypeOK
        <5> QED
          BY <3>1, <5>1, SentinelAssumption
      <4> QED
        BY <4>1
    <3> QED
      BY <3>1, <3>2 DEF Pipe, Unattached
  <2>3. Retire(W, stops, Sends) /\ UNCHANGED <<sending, task, inbox>>
    BY <1>6 DEF CloseJobs
  <2> HIDE DEF W, stops
  <2> QED
    BY <2>1, <2>2, <2>3, RetireOwns
<1>7. ASSUME NEW j \in Jobs, NEW w \in Workers, Attach(j, w)
      PROVE  Owned'
  <2>1. /\ w \notin retiring /\ j # NoJob /\ UNCHANGED <<retiring, closed, asked, task, inbox>>
        /\ \A v \in Workers : sending'[v] = IF v = w THEN j ELSE sending[v]
    BY <1>7, SentinelAssumption DEF Attach, Idle, Threads, Membership, TypeOK, childVars
  <2>2. Sends' = Sends \cup {w}
    BY <2>1 DEF Sends
  <2> QED
    BY <2>1, <2>2 DEF Owned, PipeOwnership
<1>8. CASE (\E K \in SUBSET reapable : Reap(K)) \/ CloseFinal
  <2>1. PICK G \in SUBSET retiring : /\ Forget(G) /\ retiring' = retiring \ G
                                     /\ \A w \in Workers : asked'[w] = "no" \/ (w \in retiring \ G /\ asked'[w] \in {"kill", asked[w]})
    <3>1. ASSUME NEW K \in SUBSET reapable, Reap(K)
          PROVE  \E G \in SUBSET retiring : /\ Forget(G) /\ retiring' = retiring \ G
                                            /\ \A w \in Workers : asked'[w] = "no" \/ (w \in retiring \ G /\ asked'[w] \in {"kill", asked[w]})
      <4> DEFINE G == {w \in reapable : child[w] = "gone"}
      <4>1. G \in SUBSET retiring /\ PastGrace(K) \subseteq retiring
        BY DEF Threads, Membership, PastGrace
      <4>2. Forget(G) /\ retiring' = retiring \ G
        BY <3>1 DEF Reap
      <4>3. \A w \in Workers : asked'[w] = IF w \in G THEN "no" ELSE IF w \in PastGrace(K) THEN "kill" ELSE asked[w]
        BY <3>1 DEF Reap
      <4> HIDE DEF G
      <4>4. \A w \in Workers : asked'[w] = "no" \/ (w \in retiring \ G /\ asked'[w] \in {"kill", asked[w]})
        BY <4>1, <4>3 DEF Owned
      <4> QED
        BY <4>1, <4>2, <4>4
    <3>2. ASSUME CloseFinal
          PROVE  \E G \in SUBSET retiring : /\ Forget(G) /\ retiring' = retiring \ G
                                            /\ \A w \in Workers : asked'[w] = "no" \/ (w \in retiring \ G /\ asked'[w] \in {"kill", asked[w]})
      <4>1. Forget(retiring) /\ retiring' = retiring \ retiring
        BY <3>2 DEF CloseFinal
      <4>2. \A w \in Workers : asked'[w] = "no"
        BY <3>2 DEF CloseFinal, Owned
      <4> QED
        BY <4>1, <4>2
    <3> QED
      BY <1>8, <3>1, <3>2
  <2>2. Sends = {} /\ Sends' = {}
    BY <1>8 DEF Reap, CloseFinal, Threads, Control, Sends
  <2>3. /\ \A w \in Workers : task'[w] = IF w \in G THEN NoJob ELSE task[w]
        /\ \A w \in Workers : inbox'[w] = IF w \in G THEN NoJob ELSE inbox[w]
        /\ closed' = closed \ G
    BY <2>1 DEF Forget
  <2> QED
    BY <2>1, <2>2, <2>3 DEF Owned, PipeOwnership
<1>9. CASE Discard
  <2>1. /\ Sends = {} /\ Sends' = {} /\ cur \notin retiring /\ UNCHANGED <<retiring, asked>> /\ closed' = closed \ {cur}
        /\ \A w \in Workers : task'[w] \in {task[w], NoJob} /\ inbox'[w] \in {inbox[w], NoJob}
    BY <1>9, SentinelAssumption DEF Discard, Forget, TypeOK, Threads, Control, Membership, Joining, Sends
  <2>2. closed' = closed
    BY <2>1 DEF Owned, PipeOwnership
  <2> QED
    BY <2>1, <2>2, SameOwned
<1>10. ASSUME NEW w \in Workers, SendMessage(w)
       PROVE  Owned'
  <2>1. /\ UNCHANGED <<retiring, closed, asked, task>> /\ Sends' = Sends /\ w \in Sends
        /\ \A v \in Workers \ {w} : inbox'[v] = inbox[v]
    BY <1>10 DEF SendMessage, poolVars, Sends, TypeOK
  <2> QED
    BY <2>1, SameOwned DEF Owned, PipeOwnership
<1>11. ASSUME NEW w \in Workers, ChildStart(w)
       PROVE  Owned'
  <2>1. /\ UNCHANGED <<retiring, closed, asked>> /\ Sends' = Sends /\ inbox[w] # NoJob
        /\ \A v \in Workers \ {w} : inbox'[v] = inbox[v] /\ task'[v] = task[v]
    BY <1>11 DEF ChildStart, poolVars, Sends, TypeOK
  <2> QED
    BY <2>1, SameOwned DEF Owned, PipeOwnership
<1>12. ASSUME \/ \E X \in SUBSET Over : Get(X) \/ CoordBegin(X)
              \/ \E X \in SUBSET Over, j \in Jobs : Submit(j, X)
              \/ BackoffEnds \/ CoordExit \/ PollEmpty \/ CheckDead \/ CheckAlive \/ DispatchDone
              \/ \E w \in Workers : PickWorker(w) \/ StartWorker(w) \/ DrainEmpty(w)
       PROVE  Owned'
  <2>1. UNCHANGED <<retiring, closed, asked, sending, task, inbox>>
    BY <1>12 DEF Get, CoordBegin, Submit, BackoffEnds, CoordExit, PollEmpty, CheckDead, CheckAlive, DispatchDone,
       PickWorker, StartWorker, DrainEmpty, poolVars, childVars
  <2> QED
    BY <2>1, SameOwned DEF Sends
<1>13. ASSUME \/ Replenish \/ StartRefused \/ JoinPool \/ StartFailed \/ LeaveReaping
              \/ DrainBegin \/ CloseBegin \/ CloseJoined \/ UNCHANGED vars
       PROVE  Owned'
  <2>1. UNCHANGED <<retiring, closed, asked, sending, task, inbox>>
    BY <1>13 DEF Replenish, StartRefused, JoinPool, StartFailed, LeaveReaping, DrainBegin, CloseBegin, CloseJoined,
       vars, poolVars, childVars
  <2> QED
    BY <2>1, SameOwned DEF Sends
<1>14. ASSUME CloseReap \/ \E w \in Workers : ChildReady(w) \/ ChildExit(w) \/ \E kind \in Kinds : ChildReply(w, kind)
       PROVE  Owned'
  <2>1. UNCHANGED <<retiring, closed, asked, sending>>
    BY <1>14 DEF CloseReap, ChildReady, ChildExit, ChildReply, poolVars
  <2>2. \A v \in Workers : task'[v] \in {task[v], NoJob} /\ inbox'[v] \in {inbox[v], NoJob}
    BY <1>14 DEF CloseReap, ChildReady, ChildExit, ChildReply, TypeOK
  <2> QED
    BY <2>1, <2>2, SameOwned DEF Sends
<1>15. CASE Requests \/ BackoffEnds
  BY <1>1, <1>12, <1>15 DEF Requests
<1>16. CASE Children
  BY <1>11, <1>14, <1>16 DEF Children
<1>17. CASE Coordinate
  BY <1>2, <1>4, <1>5, <1>7, <1>8, <1>9, <1>10, <1>12, <1>13, <1>17, SendOwned DEF Coordinate
<1>18. CASE DrainBegin \/ DrainSteps \/ CloseBegin \/ CloseSteps \/ UNCHANGED vars
  BY <1>3, <1>4, <1>5, <1>6, <1>8, <1>12, <1>13, <1>14, <1>18 DEF DrainSteps, CloseSteps
<1> QED
  BY <1>15, <1>16, <1>17, <1>18 DEF Next

-----------------------------------------------------------------------------
(* How many jobs a child is sent.                                          *)
Served ==
  /\ \A w \in pool : served[w] <= MaxJobs
  /\ \A w \in Workers : job_id[w] = NoJob => served[w] < MaxJobs
  /\ \A w \in Workers \ pool : served[w] = 0

LEMMA RetireServed ==
  ASSUME TypeOK, Threads, Served, NEW W \in SUBSET (pool \cup retiring), NEW stops, NEW owned, Retire(W, stops, owned),
         \A w \in Workers : job_id'[w] = job_id[w] \/ w \in W
  PROVE  Served'
<1>1. /\ pool' = pool \ W
      /\ \A w \in Workers : served'[w] = IF w \in W \ retiring THEN 0 ELSE served[w]
  BY DEF Retire
<1>2. \A w \in W : w \in retiring => w \notin pool
  BY DEF Threads, Membership
<1>3. W \subseteq Workers /\ pool \subseteq Workers /\ pool \cap retiring = {} /\ W \subseteq pool \cup retiring
  BY DEF TypeOK, Threads, Membership
<1>4. \A w \in W : served'[w] = 0
  BY <1>1, <1>2, <1>3 DEF Served
<1>5. MaxJobs \in Nat /\ MaxJobs > 0
  BY LimitAssumption
<1>6. \A w \in Workers : w \notin W => served'[w] = served[w]
  BY <1>1
<1>7. \A w \in pool' : served'[w] <= MaxJobs
  BY <1>1, <1>3, <1>6 DEF Served
<1>8. \A w \in Workers : job_id'[w] = NoJob => served'[w] < MaxJobs
  BY <1>4, <1>5, <1>6 DEF Served
<1>9. \A w \in Workers \ pool' : served'[w] = 0
  BY <1>1, <1>4, <1>6 DEF Served
<1> QED
  BY <1>7, <1>8, <1>9 DEF Served

LEMMA AbortServed ==
  ASSUME TypeOK, Books, Threads, Served, NEW J \in SUBSET Live, NEW code, NEW X, Abort(J, code, X)
  PROVE  Served'
<1> DEFINE W == {active[j] : j \in J} \ {NoWorker}
           stops == {}
<1>1. W \in SUBSET (pool \cup retiring)
  <2> SUFFICES ASSUME NEW j \in J, active[j] # NoWorker
               PROVE  active[j] \in pool
    OBVIOUS
  <2>1. j \in Jobs /\ active[j] \in Workers /\ j # NoJob
    BY SentinelAssumption DEF Live, TypeOK
  <2> QED
    BY <2>1 DEF Books, Attached
<1>2. Detach(J, W) /\ Retire(W, stops, Sends)
  BY DEF Abort
<1>3. \A w \in Workers : job_id'[w] = job_id[w] \/ w \in W
  BY <1>2 DEF Detach
<1> HIDE DEF W, stops
<1> QED
  BY <1>1, <1>2, <1>3, RetireServed

LEMMA LoseServed ==
  ASSUME TypeOK, Threads, Served, NEW w \in pool \cup retiring, NEW died, NEW owned, Lose(w, died, owned)
  PROVE  Served'
<1>1. CASE w \in retiring
  BY <1>1 DEF Lose, retireVars, Served
<1>2. CASE w \notin retiring
  <2> DEFINE W == {w}
             stops == {}
  <2>1. W \in SUBSET (pool \cup retiring) /\ Retire(W, stops, owned)
    BY <1>2 DEF Lose
  <2>2. \A v \in Workers : job_id'[v] = job_id[v] \/ v \in W
    BY <1>2 DEF Lose, Detach
  <2> HIDE DEF W, stops
  <2> QED
    BY <2>1, <2>2, RetireServed
<1> QED
  BY <1>1, <1>2

LEMMA ReceiveServed ==
  ASSUME TypeOK, Threads, Served, NEW w \in pool \cup retiring, Receive(w)
  PROVE  Served'
<1>1. \A v \in Workers : v # w => job_id'[v] = job_id[v]
  BY DEF Receive, Detach
<1>2. CASE Ends(w, Head(outbox[w])) /\ served[w] >= MaxJobs
  <2> DEFINE W == {w}
  <2>1. Retire(W, W, Sends) /\ W \in SUBSET (pool \cup retiring)
    BY <1>2 DEF Receive
  <2>2. \A v \in Workers : job_id'[v] = job_id[v] \/ v \in W
    BY <1>1
  <2> HIDE DEF W
  <2> QED
    BY <2>1, <2>2, RetireServed
<1>3. CASE ~(Ends(w, Head(outbox[w])) /\ served[w] >= MaxJobs)
  <2>1. UNCHANGED <<pool, served>>
    BY <1>3 DEF Receive
  <2>2. job_id'[w] = job_id[w] \/ ~(served[w] >= MaxJobs)
    BY <1>3 DEF Receive
  <2>3. MaxJobs \in Nat /\ w \in Workers /\ served[w] \in Nat
    BY LimitAssumption DEF TypeOK
  <2> QED
    BY <1>1, <2>1, <2>2, <2>3 DEF Served
<1> QED
  BY <1>2, <1>3

LEMMA ServedStep ==
  ASSUME TypeOK, Books, Threads, Served, [Next]_vars
  PROVE  Served'
<1>1. ASSUME NEW X \in SUBSET Over, NEW j \in Jobs, Cancel(j, X)
      PROVE  Served'
  <2> DEFINE J == {j}
             code == All({j}, "cancelled")
  <2>1. J \in SUBSET Live /\ Abort(J, code, X)
    BY <1>1 DEF Cancel
  <2> HIDE DEF J, code
  <2> QED
    BY <2>1, AbortServed
<1>2. ASSUME NEW late \in SUBSET Live, JobsStep(late)
      PROVE  Served'
  <2> DEFINE J == Due(late) \cup (IF Draining THEN Queued ELSE {})
             code == [j \in Jobs |-> IF j \in late THEN "timed_out" ELSE "service_restarted"]
             X == {}
  <2>1. J \in SUBSET Live /\ Abort(J, code, X)
    BY <1>2 DEF JobsStep, Due, Queued, Live, Unfinished
  <2> HIDE DEF J, code, X
  <2> QED
    BY <2>1, AbortServed
<1>3. CASE DrainFinish
  <2> DEFINE code == All(Queued, "service_restarted")
             X == {}
  <2>1. Queued \in SUBSET Live /\ Abort(Queued, code, X)
    BY <1>3 DEF DrainFinish, Queued, Live, Unfinished
  <2> HIDE DEF code, X
  <2> QED
    BY <2>1, AbortServed
<1>4. CASE CoordEOF \/ CheckSlow \/ \E w \in Workers : DrainEOF(w)
  <2>1. \E w \in pool \cup retiring : \E died, owned : Lose(w, died, owned)
    BY <1>4 DEF CoordEOF, CheckSlow, DrainEOF, Threads, Membership
  <2> QED
    BY <2>1, LoseServed
<1>5. CASE CoordReceive \/ \E w \in Workers : DrainReceive(w)
  <2>1. \E w \in pool \cup retiring : Receive(w)
    BY <1>5 DEF CoordReceive, DrainReceive, Threads, Membership
  <2> QED
    BY <2>1, ReceiveServed
<1>6. CASE CloseJobs
  <2> DEFINE held == {active[j] : j \in Live} \ {NoWorker}
             W == pool \cup held
  <2>1. held \subseteq pool
    <3> SUFFICES ASSUME NEW j \in Live, active[j] # NoWorker
                 PROVE  active[j] \in pool
      OBVIOUS
    <3>1. j \in Jobs /\ active[j] \in Workers /\ j # NoJob
      BY SentinelAssumption DEF Live, TypeOK
    <3> QED
      BY <3>1 DEF Books, Attached
  <2>2. W \in SUBSET (pool \cup retiring)
    BY <2>1
  <2>3. Detach(Live, held) /\ Retire(W, pool \ held, Sends)
    BY <1>6 DEF CloseJobs
  <2>4. \A w \in Workers : job_id'[w] = job_id[w] \/ w \in W
    BY <2>3 DEF Detach
  <2> HIDE DEF W, held
  <2> QED
    BY <2>2, <2>3, <2>4, RetireServed
<1>7. CASE SendDone
  <2>1. cur \in pool \cup retiring
    BY <1>7 DEF SendDone, TypeOK, Threads, Control, Membership
  <2>2. Lose(cur, FALSE, Sends \ {cur}) \/ UNCHANGED <<pool, served, job_id>>
    BY <1>7 DEF SendDone, retireVars
  <2> QED
    BY <2>1, <2>2, LoseServed DEF Served
<1>8. ASSUME NEW j \in Jobs, NEW w \in Workers, Attach(j, w)
      PROVE  Served'
  <2>1. /\ job_id[w] = NoJob /\ j # NoJob /\ w \in pool /\ pool' = pool
        /\ \A v \in Workers : job_id'[v] = IF v = w THEN j ELSE job_id[v]
        /\ \A v \in Workers : served'[v] = IF v = w THEN served[w] + 1 ELSE served[v]
    BY <1>8, SentinelAssumption DEF Attach, Idle, TypeOK
  <2>2. \A v \in Workers : served[v] \in Nat /\ MaxJobs \in Nat
    BY LimitAssumption DEF TypeOK
  <2>3. pool \subseteq Workers
    BY DEF TypeOK
  <2> QED
    BY <2>1, <2>2, <2>3 DEF Served
<1>9. CASE JoinPool
  <2>1. UNCHANGED <<served, job_id>> /\ (pool' = pool \/ (cur # NoWorker /\ pool' = pool \cup {cur}))
    BY <1>9 DEF JoinPool
  <2>2. cur # NoWorker => cur \in Workers
    BY DEF TypeOK
  <2>3. \A w \in Workers \ pool : served[w] <= MaxJobs
    BY LimitAssumption DEF Served
  <2> QED
    BY <2>1, <2>2, <2>3 DEF Served
<1>10. ASSUME \/ \E X \in SUBSET Over : Get(X) \/ CoordBegin(X)
              \/ \E X \in SUBSET Over, j \in Jobs : Submit(j, X)
              \/ BackoffEnds \/ CoordExit \/ PollEmpty \/ CheckDead \/ CheckAlive \/ DispatchDone
              \/ \E w \in Workers : PickWorker(w) \/ SendMessage(w) \/ StartWorker(w) \/ DrainEmpty(w)
              \/ Children
       PROVE  Served'
  <2>1. UNCHANGED <<pool, served, job_id>>
    BY <1>10 DEF Get, CoordBegin, Submit, BackoffEnds, CoordExit, PollEmpty, CheckDead, CheckAlive, DispatchDone,
       PickWorker, SendMessage, StartWorker, DrainEmpty, Children, ChildReady, ChildStart, ChildReply, ChildExit, poolVars
  <2> QED
    BY <2>1 DEF Served
<1>11. ASSUME \/ Replenish \/ StartRefused \/ StartFailed \/ Discard \/ LeaveReaping
              \/ DrainBegin \/ CloseBegin \/ CloseJoined \/ CloseReap \/ CloseFinal \/ UNCHANGED vars
              \/ \E K \in SUBSET reapable : Reap(K)
       PROVE  Served'
  <2>1. UNCHANGED <<pool, served, job_id>>
    BY <1>11 DEF Replenish, StartRefused, StartFailed, Discard, LeaveReaping, DrainBegin, CloseBegin, CloseJoined,
       CloseReap, CloseFinal, Reap, vars, poolVars
  <2> QED
    BY <2>1 DEF Served
<1>12. CASE Requests \/ BackoffEnds \/ Children
  BY <1>1, <1>10, <1>12 DEF Requests
<1>13. CASE Coordinate
  BY <1>2, <1>4, <1>5, <1>7, <1>8, <1>9, <1>10, <1>11, <1>13 DEF Coordinate
<1>14. CASE DrainBegin \/ DrainSteps \/ CloseBegin \/ CloseSteps \/ UNCHANGED vars
  BY <1>3, <1>4, <1>5, <1>6, <1>10, <1>11, <1>14 DEF DrainSteps, CloseSteps
<1> QED
  BY <1>12, <1>13, <1>14 DEF Next

(* A start is decided while the pool has room, and only starts fill it.    *)
LEMMA StartsHaveRoom ==
  ASSUME [Next]_vars, pc' \in {"start", "join"}
  PROVE  pc \in {"start", "join"} \/ Replenish
BY DEF Next, Requests, Submit, Get, Cancel, Coordinate, CoordBegin, CoordExit, CoordReceive, PollEmpty,
   CoordEOF, CheckDead, CheckAlive, CheckSlow, JobsStep, PickWorker, SendMessage, StartWorker, Attach,
   DispatchDone, SendDone, StartRefused, JoinPool, StartFailed, Discard, Reap, LeaveReaping,
   Children, ChildReady, ChildStart, ChildReply, ChildExit, DrainBegin, DrainSteps, DrainReceive, DrainEmpty,
   DrainEOF, DrainFinish, CloseBegin, CloseSteps, CloseJoined, CloseJobs, CloseReap, CloseFinal,
   BackoffEnds, pcVars, vars

LEMMA BoundedStep ==
  ASSUME TypeOK, Books, Threads, Bounded, [Next]_vars
  PROVE  Bounded'
<1>1. Served'
  <2>1. Served
    BY DEF Bounded, PoolBound, Served
  <2> QED
    BY <2>1, ServedStep
<1>2. Placed
  BY PlacesStep
<1>3. IsFiniteSet(pool) /\ Cardinality(pool) \in Nat /\ Concurrency \in Nat
  BY WorkersAssumption, LimitAssumption, FS_Subset, FS_CardinalityType DEF TypeOK
<1>4. CASE pool' \subseteq pool
  <2>1. Cardinality(pool') <= Cardinality(pool) /\ Cardinality(pool') \in Nat
    BY <1>3, <1>4, FS_Subset, FS_CardinalityType
  <2>2. Replenish /\ pc' \in {"start", "join"} => Cardinality(pool) < Concurrency
    BY <1>3 DEF Replenish, Full
  <2>3. pc' \in {"start", "join"} => Cardinality(pool') < Concurrency
    BY <1>3, <2>1, <2>2, StartsHaveRoom DEF Bounded
  <2>4. Cardinality(pool') <= Concurrency
    BY <1>3, <2>1 DEF Bounded, PoolBound
  <2> QED
    BY <1>1, <2>3, <2>4 DEF Bounded, PoolBound, Served
<1>5. CASE JoinPool /\ ~stopping /\ pool' = pool \cup {cur}
  <2>1. pc = "join" /\ pc' = "send"
    BY <1>5 DEF JoinPool
  <2> DEFINE P == pool \cup {cur}
  <2>2. Cardinality(P) \in {Cardinality(pool), Cardinality(pool) + 1}
    BY <1>3, FS_AddElement
  <2> HIDE DEF P
  <2>3. pool' = P
    BY <1>5 DEF P
  <2>4. Cardinality(pool') <= Cardinality(pool) + 1 /\ Cardinality(pool') \in Nat
    BY <1>3, <2>2, <2>3
  <2>5. Cardinality(pool') <= Concurrency
    BY <1>3, <2>1, <2>4 DEF Bounded
  <2> QED
    BY <1>1, <2>1, <2>5 DEF Bounded, PoolBound, Served
<1> QED
  BY <1>2, <1>4, <1>5 DEF Placed

-----------------------------------------------------------------------------
(* The last parts of the invariant hold at the start.                      *)
LEMMA RestInit ==
  ASSUME Init
  PROVE  Closing /\ DrainedQueue /\ Owned /\ Bounded
<1>1. Closing /\ DrainedQueue
  BY DEF Init, Closing, DrainedQueue
<1>2. Owned
  BY DEF Init, Owned, PipeOwnership, Sends
<1>3. Bounded
  <2>1. pool \subseteq Workers /\ Cardinality(pool) <= Concurrency /\ pc = "wait"
    BY DEF Init
  <2>2. \A w \in Workers : served[w] = 0
    BY DEF Init
  <2>3. MaxJobs \in Nat /\ MaxJobs > 0
    BY LimitAssumption
  <2> QED
    BY <2>1, <2>2, <2>3 DEF Bounded, PoolBound
<1> QED
  BY <1>1, <1>2, <1>3

(* Every part of the invariant follows from itself and the parts before it. *)
LEMMA Inductive ==
  /\ Init => IInv
  /\ IInv /\ [Next]_vars => IInv'
<1>1. Init => IInv
  BY TypeInit, BooksInit, ThreadsInit, WorkInit, RestInit DEF IInv, Books, Threads
<1>2. ASSUME IInv, [Next]_vars
      PROVE  IInv'
  <2>1. TypeOK /\ Books /\ Threads /\ Work /\ Closing /\ DrainedQueue /\ Owned /\ Bounded
    BY <1>2 DEF IInv, Books, Threads
  <2>2. TypeOK' /\ Books' /\ Threads' /\ Work'
    BY <1>2, <2>1, TypeStep, BooksStep, ThreadsStep, WorkStep
  <2>3. Closing' /\ DrainedQueue' /\ Owned' /\ Bounded'
    BY <1>2, <2>1, ClosingStep, DrainedStep, OwnedStep, BoundedStep
  <2> QED
    BY <2>2, <2>3 DEF IInv, Books, Threads
<1> QED
  BY <1>1, <1>2

(* The whole inductive invariant holds in every behaviour.                 *)
THEOREM Invariance == Safety => []IInv
BY Inductive, PTL DEF Safety

(* No job is executed by two children, nor twice by one.                   *)
THEOREM JobsRunAtMostOnce == Safety => []AtMostOnce
<1>1. IInv => AtMostOnce
  BY DEF IInv, Work
<1> QED
  BY <1>1, Invariance, PTL

(* A job that waits or failed for want of a child has not run; one that    *)
(* runs or has replied has run once.                                       *)
THEOREM OutcomesAreHonest == Safety => []HonestOutcome
<1>1. IInv => HonestOutcome
  BY DEF IInv, Work
<1> QED
  BY <1>1, Invariance, PTL

(* A child in service works on, and reports on, its own job only.          *)
THEOREM WorkIsOwned == Safety => []NoStrayWork
<1>1. IInv => NoStrayWork
  <2> SUFFICES ASSUME IInv, NEW w \in pool
               PROVE  /\ {task[w], inbox[w]} \subseteq {NoJob, job_id[w]}
                      /\ \A i \in DOMAIN outbox[w] : outbox[w][i].job \in {NoJob, job_id[w]}
    BY DEF NoStrayWork
  <2>1. w \in Workers /\ Pipe(w)
    BY DEF IInv, TypeOK, Work, Pipes
  <2>2. CASE job_id[w] = NoJob
    <3>1. Unattached(w)
      BY <2>1, <2>2 DEF Pipe
    <3>2. outbox[w] = <<>> \/ outbox[w] = <<Ready>>
      BY <3>1 DEF Unattached
    <3> QED
      BY <3>1, <3>2 DEF Unattached, Ready
  <2>3. CASE job_id[w] # NoJob
    <3> DEFINE j == job_id[w]
    <3>1. NotBegun(w, j) \/ Begun(w, j)
      BY <2>1, <2>3 DEF Pipe
    <3>2. task[w] \in {NoJob, j} /\ inbox[w] \in {NoJob, j}
      BY <3>1 DEF NotBegun, Begun
    <3>3. \/ outbox[w] = <<>>
          \/ outbox[w] = <<Started(j)>>
          \/ \E m \in Replies(j) : outbox[w] = <<m>> \/ outbox[w] = <<Started(j), m>>
      BY <3>1 DEF NotBegun, Begun
    <3>4. Started(j).job = j /\ \A m \in Replies(j) : m.job = j
      BY DEF Started, Replies
    <3>5. \A i \in DOMAIN outbox[w] : outbox[w][i].job = j
      <4>1. CASE outbox[w] = <<>> \/ outbox[w] = <<Started(j)>>
        BY <3>4, <4>1
      <4>2. ASSUME NEW m \in Replies(j), outbox[w] = <<m>>
            PROVE  \A i \in DOMAIN outbox[w] : outbox[w][i].job = j
        BY <3>4, <4>2
      <4>3. ASSUME NEW m \in Replies(j), outbox[w] = <<Started(j), m>>
            PROVE  \A i \in DOMAIN outbox[w] : outbox[w][i].job = j
        <5>1. DOMAIN outbox[w] = {1, 2} /\ outbox[w][1] = Started(j) /\ outbox[w][2] = m
          BY <4>3
        <5> QED
          BY <3>4, <5>1
      <4> QED
        BY <3>3, <4>1, <4>2, <4>3
    <3> QED
      BY <3>2, <3>5
  <2> QED
    BY <2>2, <2>3
<1> QED
  BY <1>1, Invariance, PTL

(* Whatever the threads and the children do, a caller sees each job go     *)
(* through the statuses in the order the lifecycle allows.                 *)
THEOREM Refinement == Safety => RefinesLifecycle
<1>1. Init => Lifecycle!Init
  BY DEF Init, Lifecycle!Init
<1>2. IInv /\ IInv' /\ [Next]_vars => [Lifecycle!Next]_state
  <2> SUFFICES ASSUME IInv, IInv', [Next]_vars
               PROVE  Lifecycle!Next
    OBVIOUS
  <2>1. Moved
    BY StepMoves DEF IInv, Books, Threads
  <2>2. state' \in [Jobs -> Lifecycle!Statuses]
    BY DEF IInv, TypeOK, States, Outcomes, Lifecycle!Statuses, Lifecycle!Outcomes
  <2> QED
    BY <2>1, <2>2, MovesAllowed DEF Moved, Lifecycle!Next
<1> QED
  BY <1>1, <1>2, Invariance, PTL DEF Safety, RefinesLifecycle, Lifecycle!Safety

(* Once drain() has returned, no job is queued, nor will one be.           *)
THEOREM DrainLeavesNoQueue == Safety => []DrainedQueue
<1>1. IInv => DrainedQueue
  BY DEF IInv
<1> QED
  BY <1>1, Invariance, PTL

(* Only a retired child's pipe is closed, never under a thread that is     *)
(* still sending through it.                                               *)
THEOREM PipesHaveOneOwner == Safety => []PipeOwnership
<1>1. IInv => PipeOwnership
  BY DEF IInv, Owned
<1> QED
  BY <1>1, Invariance, PTL

(* The pool never grows past worker_concurrency, and no child serves more  *)
(* than worker_max_jobs jobs.                                              *)
THEOREM PoolIsBounded == Safety => []PoolBound
<1>1. IInv => PoolBound
  BY DEF IInv, Bounded
<1> QED
  BY <1>1, Invariance, PTL

(* When close() returns, no job is unfinished and no child is left, not    *)
(* even one that was being started meanwhile.                              *)
THEOREM CloseLeavesNothing == Safety => []NothingOutlivesClose
<1>1. IInv => NothingOutlivesClose
  <2> SUFFICES ASSUME IInv, closing = "closed"
               PROVE  \A w \in Workers : child[w] = "none"
    BY DEF NothingOutlivesClose, IInv, Closing
  <2>1. pool = {} /\ retiring = {} /\ Joining = {}
    BY DEF IInv, Closing, Joining
  <2> QED
    BY <2>1 DEF IInv, Membership
<1> QED
  BY <1>1, Invariance, PTL

-----------------------------------------------------------------------------
(* drain() reads every pipe before it fails what is queued.  While it      *)
(* works, a begun job the books call queued has its start in the pipe of a *)
(* child that is still to be read.                                         *)
Noted ==
  /\ begun \subseteq Jobs
  /\ drain = "busy" => \A j \in begun : state[j] = "queued" => ran[j] > 0 /\ active[j] \in polling

LEMMA UnreadStart ==
  ASSUME IInv, NEW j \in Jobs, state[j] = "queued", ran[j] > 0
  PROVE  active[j] \in pool /\ job_id[active[j]] = j /\ outbox[active[j]] # <<>>
<1>1. active[j] \in Workers
  BY DEF IInv, TypeOK, Work, Beginnings, Waiting
<1>2. job_id[active[j]] = j /\ j # NoJob
  BY <1>1, SentinelAssumption DEF IInv, Attached
<1>3. active[j] \in pool
  BY <1>1, <1>2 DEF IInv, Attached
<1>4. NotBegun(active[j], j) \/ Begun(active[j], j)
  BY <1>1, <1>2, <1>3 DEF IInv, Work, Pipes, Pipe
<1>5. outbox[active[j]] # <<>>
  BY <1>4 DEF NotBegun, Begun
<1> QED
  BY <1>2, <1>3, <1>5

(* Which steps drain() makes, and what the others leave alone meanwhile.   *)
Beside == UNCHANGED <<state, active, polling, drain>> /\ \A j \in Jobs : ran'[j] >= ran[j]

LEMMA DrainingStep ==
  ASSUME IInv, [Next]_vars, drain = "busy" \/ drain' = "busy", ~DrainFinish
  PROVE  \/ DrainBegin
         \/ drain = "busy" /\ (Beside \/ \E w \in Workers : DrainReceive(w) \/ DrainEmpty(w) \/ DrainEOF(w))
<1>1. TypeOK /\ \A j \in Jobs : ran[j] \in Nat
  BY DEF IInv, TypeOK
<1>2. ASSUME drain = "busy", \/ BackoffEnds \/ CloseBegin \/ CloseJoined \/ CloseReap
                             \/ LeaveReaping \/ Discard \/ CoordExit \/ StartRefused \/ UNCHANGED vars
                             \/ \E w \in Workers : SendMessage(w) \/ StartWorker(w)
      PROVE  Beside
  BY <1>1, <1>2 DEF Beside, BackoffEnds, CloseBegin, CloseJoined, CloseReap, LeaveReaping, Discard, CoordExit,
     StartRefused, SendMessage, StartWorker, vars, jobVars, poolVars, pcVars
<1>3. ASSUME drain = "busy", Children
      PROVE  Beside
  <2>1. ASSUME NEW w \in Workers, ChildReady(w) \/ ChildExit(w) \/ \E kind \in Kinds : ChildReply(w, kind)
        PROVE  Beside
    <3>1. UNCHANGED <<jobVars, poolVars, pcVars>>
      BY <2>1 DEF ChildReady, ChildExit, ChildReply
    <3> QED
      BY <1>1, <3>1 DEF Beside, jobVars, poolVars, pcVars
  <2>2. ASSUME NEW w \in Workers, ChildStart(w)
        PROVE  Beside
    BY <1>1, <2>2 DEF Beside, ChildStart, TypeOK, poolVars, pcVars
  <2> QED
    BY <1>3, <2>1, <2>2 DEF Children
<1>4. drain # "busy" => drain' = drain \/ DrainBegin
  BY DEF Next, Requests, Submit, Cancel, Get, Coordinate, CoordBegin, CoordExit, CoordReceive, PollEmpty, CoordEOF,
     CheckDead, CheckAlive, CheckSlow, DispatchDone, JobsStep, PickWorker, SendMessage, StartWorker, Attach, SendDone,
     Replenish, StartRefused, JoinPool, StartFailed, Discard, Reap, LeaveReaping, Children, ChildReady, ChildStart,
     ChildExit, ChildReply, DrainSteps, DrainReceive, DrainEmpty, DrainEOF, DrainFinish, CloseBegin, CloseSteps,
     CloseJoined, CloseJobs, CloseReap, CloseFinal, BackoffEnds, vars, pcVars
<1>5. ASSUME drain = "busy"
      PROVE  Beside \/ \E w \in Workers : DrainReceive(w) \/ DrainEmpty(w) \/ DrainEOF(w)
  <2>1. ~LockFree /\ pc \notin LockedPcs
    BY <1>5 DEF LockFree, IInv, Control
  <2>2. /\ ~Requests /\ ~SendDone /\ ~Replenish /\ ~JoinPool /\ ~StartFailed /\ ~CloseJobs /\ ~CloseFinal
        /\ \A X \in SUBSET Over : ~CoordBegin(X)
        /\ \A K \in SUBSET reapable : ~Reap(K)
    BY <2>1 DEF Requests, Submit, Cancel, Get, SendDone, Replenish, JoinPool, StartFailed, CloseJobs, CloseFinal,
       CoordBegin, Reap
  <2>3. /\ ~CoordReceive /\ ~PollEmpty /\ ~CoordEOF /\ ~CheckDead /\ ~CheckAlive /\ ~CheckSlow /\ ~DispatchDone
        /\ \A late \in SUBSET Live : ~JobsStep(late)
        /\ \A w \in Workers : ~PickWorker(w)
        /\ \A j \in Jobs, w \in Workers : ~Attach(j, w)
    BY <2>1 DEF LockedPcs, CoordReceive, PollEmpty, CoordEOF, CheckDead, CheckAlive, CheckSlow, DispatchDone,
       JobsStep, PickWorker, Attach
  <2>4. ~DrainBegin /\ ~DrainFinish
    BY <1>5 DEF DrainBegin, DrainFinish
  <2> QED
    BY <1>2, <1>3, <1>5, <2>2, <2>3, <2>4 DEF Next, Coordinate, DrainSteps, CloseSteps
<1> QED
  BY <1>4, <1>5

LEMMA NotedStep ==
  ASSUME IInv, Noted, [Next /\ Remember]_<<vars, begun>>
  PROVE  Noted'
<1>1. [Next]_vars /\ TypeOK /\ TypeOK' /\ Books /\ Threads /\ Work
  BY TypeStep DEF IInv, Books, Threads
<1>2. begun' \subseteq Jobs
  BY DEF Noted, Remember
<1> SUFFICES ASSUME drain' = "busy", NEW j \in begun', state'[j] = "queued"
             PROVE  ran'[j] > 0 /\ active'[j] \in polling'
  BY <1>2 DEF Noted
<1>3. j \in Jobs /\ ran[j] \in Nat /\ ran'[j] \in Nat
  BY <1>1, <1>2 DEF TypeOK
<1>4. ~DrainFinish
  BY DEF DrainFinish
<1>5. CASE DrainBegin
  <2>1. drain = "no" /\ UNCHANGED <<state, ran, active>> /\ polling' = pool
    BY <1>5 DEF DrainBegin, jobVars, poolVars
  <2>2. ran[j] > 0
    BY <2>1 DEF Remember, vars, pcVars
  <2> QED
    BY <1>3, <2>1, <2>2, UnreadStart
<1>6. CASE drain = "busy"
  <2>1. state[j] = "queued"
    BY <1>1, <1>3, <1>6, StepMoves DEF Moved, Draining
  <2>2. ran[j] > 0 /\ active[j] \in polling
    BY <1>6, <2>1 DEF Noted, Remember
  <2>3. job_id[active[j]] = j /\ outbox[active[j]] # <<>> /\ j # NoJob
    BY <1>3, <2>1, <2>2, UnreadStart, SentinelAssumption
  <2>4. CASE Beside
    BY <1>3, <2>2, <2>4 DEF Beside
  <2>5. ASSUME NEW w \in Workers, DrainReceive(w)
        PROVE  ran'[j] > 0 /\ active'[j] \in polling'
    <3>1. w \in pool \cup retiring /\ Receive(w)
      BY <1>1, <2>5 DEF DrainReceive, Threads, Membership
    <3>2. UNCHANGED ran /\ (polling' = polling \/ polling' = polling \ {w})
      BY <2>5 DEF DrainReceive, Receive
    <3>3. state \in [Jobs -> States] /\ active \in [Jobs -> Workers \cup {NoWorker}]
      BY <1>1 DEF TypeOK
    <3>4. active'[j] = active[j] /\ j # job_id[w]
      <4>1. CASE ReadReady(w) /\ job_id[w] = NoJob
        BY <2>3, <4>1 DEF ReadReady
      <4>2. CASE ReadStarted(w)
        BY <1>3, <3>3, <4>2 DEF ReadStarted
      <4>3. CASE ReadReply(w)
        BY <1>3, <3>3, <4>3 DEF ReadReply
      <4> QED
        BY <1>1, <3>1, <4>1, <4>2, <4>3, ReadingEffect
    <3> QED
      BY <2>2, <2>3, <3>2, <3>4
  <2>6. ASSUME NEW w \in Workers, DrainEmpty(w)
        PROVE  ran'[j] > 0 /\ active'[j] \in polling'
    <3>1. outbox[w] = <<>> /\ UNCHANGED <<ran, active>> /\ polling' = polling \ {w}
      BY <2>6 DEF DrainEmpty, jobVars, poolVars
    <3> QED
      BY <2>2, <2>3, <3>1
  <2>7. ASSUME NEW w \in Workers, DrainEOF(w)
        PROVE  ran'[j] > 0 /\ active'[j] \in polling'
    <3>1. outbox[w] = <<>> /\ UNCHANGED ran /\ polling' = polling \ {w} /\ Lose(w, TRUE, Sends)
      BY <2>7 DEF DrainEOF, AtEOF
    <3>2. active[j] # w
      BY <2>3, <3>1
    <3>3. j # job_id[w]
      BY <1>1, <1>3, <3>2 DEF Books, Attached
    <3>4. active'[j] = active[j]
      BY <1>3, <3>1, <3>3 DEF Lose, Detach
    <3> QED
      BY <2>2, <3>1, <3>2, <3>4
  <2> QED
    BY <1>1, <1>5, <1>6, <1>4, <2>4, <2>5, <2>6, <2>7, DrainingStep
<1> QED
  BY <1>1, <1>5, <1>6, <1>4, DrainingStep

(* What drain() may do to a job at one step, from the two invariants.      *)
LEMMA SparedStep ==
  ASSUME IInv, Noted, [Next]_vars, drain = "busy",
         NEW j \in Jobs, state[j] = "running" \/ (j \in begun /\ state[j] = "queued")
  PROVE  state'[j] \in {state[j], "running", "succeeded", "task_failed", "worker_crashed"}
<1>1. Moved /\ TypeOK /\ Books /\ Threads /\ Work
  BY StepMoves DEF IInv, Books, Threads
<1>2. CASE state[j] = "running"
  <2>1. CASE <<"running", state'[j]>> \in Lifecycle!Moves
    <3>1. state'[j] \in Lifecycle!Outcomes \ {"worker_start_failed", "service_restarted"}
      BY <2>1 DEF Lifecycle!Moves, Lifecycle!Outcomes
    <3>2. state'[j] \notin {"timed_out", "cancelled"}
      BY <1>1, <1>2 DEF Moved
    <3> QED
      BY <3>1, <3>2 DEF Lifecycle!Outcomes
  <2> QED
    BY <1>1, <1>2, <2>1 DEF Moved
<1>3. CASE j \in begun /\ state[j] = "queued"
  <2>1. active[j] \in polling /\ job_id[active[j]] = j /\ outbox[active[j]] # <<>>
    BY <1>3, UnreadStart DEF Noted
  <2>2. ASSUME NEW w \in Workers, DrainReceive(w)
        PROVE  state'[j] \in {"queued", "running"}
    <3>1. w \in pool \cup retiring /\ Receive(w)
      BY <1>1, <2>2 DEF DrainReceive, Threads, Membership
    <3>2. state \in [Jobs -> States]
      BY <1>1 DEF TypeOK
    <3>3. CASE ReadReady(w)
      BY <1>3, <3>3 DEF ReadReady
    <3>4. CASE ReadStarted(w)
      BY <1>3, <3>2, <3>4 DEF ReadStarted
    <3>5. CASE ReadReply(w) /\ state[job_id[w]] = "running"
      BY <1>3, <3>2, <3>5 DEF ReadReply
    <3> QED
      BY <1>1, <3>1, <3>3, <3>4, <3>5, ReadingEffect
  <2>3. ASSUME NEW w \in Workers, DrainEOF(w)
        PROVE  state'[j] = "queued"
    <3>1. outbox[w] = <<>> /\ Lose(w, TRUE, Sends) /\ Stranded(pool \ {w}) = {}
      BY <2>3 DEF DrainEOF, AtEOF, Stranded, Draining
    <3>2. j # job_id[w]
      BY <1>1, <2>1, <3>1 DEF Books, Attached, TypeOK
    <3> QED
      BY <1>3, <3>1, <3>2 DEF Lose, Finish, Settle
  <2>4. CASE Beside
    BY <1>3, <2>4 DEF Beside
  <2>5. ASSUME NEW w \in Workers, DrainEmpty(w)
        PROVE  state'[j] = "queued"
    BY <1>3, <2>5 DEF DrainEmpty, jobVars
  <2>6. CASE DrainFinish
    BY <2>1, <2>6 DEF DrainFinish
  <2> QED
    BY <1>3, <2>2, <2>3, <2>4, <2>5, <2>6, DrainingStep DEF DrainBegin, DrainFinish
<1> QED
  BY <1>2, <1>3

(* While drain() works, a job a child had begun when drain() took the lock *)
(* ends only by what that child says or by its death, also where its start *)
(* is still unread.                                                        *)
THEOREM DrainLetsBegunJobsEnd == Marked => DrainSparesBegun
<1>1. Init /\ begun = {} => IInv /\ Noted
  BY Inductive DEF Noted
<1>2. IInv /\ Noted /\ [Next /\ Remember]_<<vars, begun>> => IInv' /\ Noted'
  BY Inductive, NotedStep
<1>3. IInv /\ Noted /\ [Next /\ Remember]_<<vars, begun>> =>
        [drain = "busy" =>
           \A j \in Jobs : state[j] = "running" \/ (j \in begun /\ state[j] = "queued") =>
             state'[j] \in {state[j], "running", "succeeded", "task_failed", "worker_crashed"}]_vars
  BY SparedStep
<1> QED
  BY <1>1, <1>2, <1>3, PTL DEF Marked, DrainSparesBegun
=============================================================================
