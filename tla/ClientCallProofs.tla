-------------------------- MODULE ClientCallProofs --------------------------
(***************************************************************************)
(* ClientCall for any timeouts, any number of submissions and any clock:   *)
(* what the client waits for, what the worker still has of it, and when a  *)
(* call is over.                                                           *)
(***************************************************************************)
EXTENDS ClientCall, FiniteSetTheorems, SequenceTheorems, TLAPS

Statuses == {"open", "over", "gone"}
Jobs     == [due : Nat, status : Statuses]
Asking   == {"submit", "poll", "cancel"}
Unknown  == {"idle", "submit", "pause"}

(* The client knows of its job from the submission's answer on, and waits  *)
(* for a request of the kind its place says, or for none.                  *)
Types ==
  /\ is \in {"tool", "app"} /\ now \in Nat /\ due \in Nat /\ left \in Nat /\ ends \in Nat /\ wake \in Nat
  /\ jobs \in Seq(Jobs) /\ uncancelled \in BOOLEAN
  /\ late \subseteq [kind : {"submit", "cancel"}, left : Nat, until : {0}, ops : {0}]
  /\ pc \in Asking \cup {"idle", "sleep"} \cup (IF is = "tool" THEN {"pause", "done"} ELSE {"have"})
Knows ==
  /\ mine = 0 \/ mine \in DOMAIN jobs
  /\ pc \in Unknown => mine = 0
  /\ pc \in {"poll", "sleep", "cancel", "have"} => mine # 0
  /\ (\E r \in late : r.kind = "cancel") => mine # 0
Asks ==
  IF pc \in Asking
  THEN /\ req \in [kind : {IF pc = "poll" THEN "get" ELSE pc}, left : Nat, until : Nat, ops : Nat \ {0}]
       /\ now <= req.until
       /\ answer # None =>
            /\ answer \in [is : IF pc = "submit" THEN {"job", "full"} ELSE Statuses, job : Nat]
            /\ answer.is = "job" => answer.job \in DOMAIN jobs
  ELSE req = Idle /\ answer = None
ClientInv == Types /\ Knows /\ Asks

(* A tool call's submission is under way, was given up and may arrive, or  *)
(* has become its only job, and nothing is submitted after the last two.   *)
Arriving == {r \in late : r.kind = "submit"}
OnceInv ==
  /\ is = "tool" =>
       /\ Len(jobs) <= 1
       /\ Arriving # {} => Len(jobs) = 0 /\ pc = "done" /\ mine = 0
       /\ \A r, s \in Arriving : r = s
       /\ pc \in {"idle", "pause"} \/ (pc = "submit" /\ (answer = None \/ answer.is = "full")) => Len(jobs) = 0
  /\ is = "app" => \A i, j \in Known : i = j

(* What has been said to be over, or cancelled, is not open.               *)
OverInv ==
  is = "tool" =>
    /\ pc = "poll" /\ answer # None /\ answer.is = "over" => ~Open(mine)
    /\ pc = "cancel" /\ answer # None => ~Open(mine)
    /\ pc = "done" /\ mine # 0 /\ ~uncancelled => ~Open(mine)

(* When each of the client's waits ends.  A request of the tool is over    *)
(* when its last operation is, if each takes its whole timeout.            *)
Latest == req.until + (req.ops - 1) * Request
ToolTimes ==
  /\ pc = "submit" => left >= 1 /\ Latest + left <= due + Longest
  /\ pc = "pause"  => now <= wake /\ wake + LastS <= due
  /\ pc = "poll"   => Latest <= due + Poll + 2 * Longest
  /\ pc \in {"poll", "sleep"} => ends <= due + Longest
  /\ pc = "sleep"  => now <= wake /\ wake <= due + Longest + Poll
  /\ pc = "cancel" => Latest <= due + Poll + 3 * Longest
AppTimes ==
  /\ pc = "poll"  => req.until <= ends
  /\ pc = "sleep" => now <= wake /\ wake <= ends
TimeInv == IF is = "tool" THEN ToolTimes ELSE AppTimes
-----------------------------------------------------------------------------
(* What a request, or the end of a job, makes of the worker's jobs: none   *)
(* disappears, and none is open or known again.                            *)
Kept == 
  /\ jobs' \in Seq(Jobs) /\ Len(jobs) <= Len(jobs')
  /\ \A j \in DOMAIN jobs : /\ jobs'[j].status = "open" => jobs[j].status = "open"
                            /\ jobs[j].status = "gone" => jobs'[j].status = "gone"

LEMMA Grows == ASSUME Types, Kept PROVE DOMAIN jobs \subseteq DOMAIN jobs'
BY DEF Types, Kept

LEMMA Taken ==
  ASSUME Types, NEW n \in Nat, jobs' = Append(jobs, [due |-> n, status |-> "open"])
  PROVE  Kept /\ Len(jobs') = Len(jobs) + 1 /\ \A j \in DOMAIN jobs : jobs'[j] = jobs[j]
<1>1. [due |-> n, status |-> "open"] \in Jobs
  BY DEF Jobs, Statuses
<1>2. jobs' \in Seq(Jobs) /\ Len(jobs') = Len(jobs) + 1 /\ \A j \in 1 .. Len(jobs) : jobs'[j] = jobs[j]
  BY <1>1 DEF Types
<1> QED BY <1>2 DEF Types, Kept

LEMMA Settled ==
  ASSUME Types, NEW i \in DOMAIN jobs, NEW s \in {"over", "gone"},
         jobs[i].status = "gone" => s = "gone",
         jobs' = [jobs EXCEPT ![i].status = s]
  PROVE  Kept /\ Len(jobs') = Len(jobs) /\ jobs'[i].status = s /\ \A j \in DOMAIN jobs : j # i => jobs'[j] = jobs[j]
<1> DEFINE e == [jobs[i] EXCEPT !.status = s]
<1>1. i \in 1 .. Len(jobs) /\ jobs[i] \in Jobs
  BY ElementOfSeq DEF Types
<1>2. e \in Jobs /\ e.status = s
  BY <1>1 DEF Jobs, Statuses
<1>3. jobs' = [jobs EXCEPT ![i] = e]
  OBVIOUS
<1> HIDE DEF e
<1>4. jobs' \in Seq(Jobs) /\ Len(jobs') = Len(jobs) /\ \A j \in 1 .. Len(jobs) : jobs'[j] = IF j = i THEN e ELSE jobs[j]
  BY <1>1, <1>2, <1>3, ExceptSeq DEF Types
<1>5. \A j \in DOMAIN jobs : jobs'[j] = IF j = i THEN e ELSE jobs[j]
  BY <1>4 DEF Types
<1>6. Kept
  BY <1>2, <1>4, <1>5 DEF Types, Kept
<1> QED BY <1>2, <1>4, <1>5, <1>6

(* What a request of a kind did.                                           *)
Did(kind, full) ==
  \/ jobs' = jobs /\ (kind = "submit" => full \/ Same # {}) /\ (kind = "cancel" => ~Open(mine))
  \/ /\ kind = "submit" /\ Same = {} /\ ~full
     /\ Len(jobs') = Len(jobs) + 1 /\ \A j \in DOMAIN jobs : jobs'[j] = jobs[j]
  \/ /\ kind = "cancel" /\ Len(jobs') = Len(jobs) /\ jobs'[mine].status = "over"
     /\ \A j \in DOMAIN jobs : j # mine => jobs'[j] = jobs[j]

LEMMA Effect ==
  ASSUME Types, Knows, NEW r, r.left \in Nat, r.kind = "cancel" => mine # 0, NEW full \in BOOLEAN, jobs' = Becomes(r, full)
  PROVE  Kept /\ Did(r.kind, full)
<1>1. CASE r.kind = "submit" /\ Same = {} /\ ~full
  <2>1. jobs' = Append(jobs, [due |-> now + r.left, status |-> "open"]) /\ now + r.left \in Nat
    BY <1>1 DEF Becomes, Types
  <2> QED BY <1>1, <2>1, Taken DEF Did
<1>2. CASE r.kind = "cancel" /\ Open(mine)
  <2>1. mine \in DOMAIN jobs /\ jobs[mine].status # "gone" /\ jobs' = [jobs EXCEPT ![mine].status = "over"]
    BY <1>2 DEF Becomes, Knows, Open
  <2> QED BY <1>2, <2>1, Settled DEF Did
<1>3. CASE ~(r.kind = "submit" /\ Same = {} /\ ~full) /\ ~(r.kind = "cancel" /\ Open(mine))
  <2>1. jobs' = jobs
    BY <1>3 DEF Becomes
  <2>2. Kept
    BY <2>1 DEF Types, Kept
  <2> QED BY <1>3, <2>1, <2>2 DEF Did
<1> QED BY <1>1, <1>2, <1>3

(* The worker's steps keep what the client knows; its answer fits the      *)
(* request.                                                                *)
LEMMA WorkerKnows ==
  ASSUME Types, Knows, Kept, UNCHANGED <<is, now, pc, mine, due, left, ends, wake, uncancelled>>, late' \subseteq late
  PROVE  Types' /\ Knows'
<1>1. DOMAIN jobs \subseteq DOMAIN jobs'
  BY Grows
<1>2. Types'
  BY DEF Types, Kept
<1>3. Knows'
  BY <1>1 DEF Knows
<1> QED BY <1>2, <1>3

LEMMA HandleEffect ==
  ASSUME ClientInv, Handle
  PROVE  /\ pc \in Asking /\ answer = None /\ Kept /\ req.kind = (IF pc = "poll" THEN "get" ELSE pc)
         /\ \E full \in BOOLEAN : answer' = Says(req, full) /\ Did(pc, full)
<1>1. pc \in Asking /\ answer = None /\ req # Idle
  BY DEF Handle, ClientInv, Asks
<1>2. req.kind = (IF pc = "poll" THEN "get" ELSE pc) /\ req.left \in Nat
  BY <1>1 DEF ClientInv, Asks
<1>3. req.kind = "cancel" => mine # 0
  BY <1>1, <1>2 DEF Asking, ClientInv, Knows
<1>4. PICK full \in BOOLEAN : jobs' = Becomes(req, full) /\ answer' = Says(req, full)
  BY DEF Handle
<1>5. Kept /\ Did(req.kind, full)
  BY <1>2, <1>3, <1>4, Effect DEF ClientInv
<1>6. (req.kind = "submit" <=> pc = "submit") /\ (req.kind = "cancel" <=> pc = "cancel")
  BY <1>1, <1>2 DEF Asking
<1>7. Did(pc, full)
  BY <1>5, <1>6 DEF Did
<1> QED BY <1>1, <1>2, <1>4, <1>5, <1>7

LEMMA HandleAnswer ==
  ASSUME ClientInv, Handle
  PROVE  /\ answer' # None
         /\ answer' \in [is : IF pc = "submit" THEN {"job", "full"} ELSE Statuses, job : Nat]
         /\ pc = "submit" /\ answer'.is = "job" => answer'.job \in DOMAIN jobs'
         /\ pc = "submit" /\ answer'.is = "full" => jobs' = jobs
         /\ pc # "submit" => answer'.is = jobs'[mine].status
<1>1. pc \in Asking /\ Kept /\ req.kind = (IF pc = "poll" THEN "get" ELSE pc)
  BY HandleEffect
<1>2. PICK full \in BOOLEAN : answer' = Says(req, full) /\ Did(pc, full)
  BY HandleEffect
<1>3. jobs' \in Seq(Jobs) /\ jobs \in Seq(Jobs) /\ DOMAIN jobs \subseteq DOMAIN jobs' /\ DOMAIN jobs' \subseteq Nat
  BY <1>1, Grows DEF Kept, ClientInv, Types
<1>4. ASSUME NEW x \in [is : {"job", "full"} \cup Statuses, job : Nat] PROVE x # None
  BY ClientAssumption DEF Statuses
<1>5. CASE pc = "submit"
  <2>1. CASE Same = {} /\ full
    <3>1. answer' = [is |-> "full", job |-> 0] /\ jobs' = jobs
      BY <1>1, <1>2, <1>5, <2>1 DEF Says, Did
    <3> QED BY <1>4, <1>5, <3>1
  <2>2. CASE Same = {} /\ ~full
    <3>1. answer' = [is |-> "job", job |-> Len(jobs')] /\ Len(jobs') = Len(jobs) + 1
      BY <1>1, <1>2, <1>5, <2>2 DEF Says, Did
    <3>2. Len(jobs') \in Nat /\ Len(jobs') \in DOMAIN jobs'
      BY <1>3, <3>1
    <3> QED BY <1>4, <1>5, <3>1, <3>2
  <2>3. CASE Same # {}
    <3>1. PICK j : j \in Same /\ answer' = [is |-> "job", job |-> j]
      BY <1>1, <1>2, <1>5, <2>3 DEF Says
    <3>2. j \in DOMAIN jobs' /\ j \in Nat
      BY <1>3, <3>1 DEF Same, Known
    <3> QED BY <1>4, <1>5, <3>1, <3>2
  <2> QED BY <2>1, <2>2, <2>3
<1>6. CASE pc # "submit"
  <2>1. answer' = [is |-> jobs'[mine].status, job |-> mine]
    BY <1>1, <1>2, <1>6 DEF Says, Asking
  <2>2. mine \in DOMAIN jobs' /\ mine \in Nat
    BY <1>1, <1>3, <1>6 DEF ClientInv, Knows, Asking
  <2>3. jobs'[mine].status \in Statuses
    <3>1. mine \in 1 .. Len(jobs')
      BY <1>3, <2>2
    <3>2. jobs'[mine] \in Jobs
      BY <1>3, <3>1, ElementOfSeq
    <3> QED BY <3>2 DEF Jobs
  <2> QED BY <1>4, <1>6, <2>1, <2>2, <2>3
<1> QED BY <1>5, <1>6

LEMMA HandleKeeps == ASSUME ClientInv, Handle PROVE ClientInv'
<1>1. pc \in Asking /\ answer = None /\ Kept
  BY HandleEffect
<1>2. UNCHANGED <<is, now, pc, mine, due, left, ends, wake, uncancelled, late, req>>
  BY DEF Handle
<1>3. Types' /\ Knows'
  BY <1>1, <1>2, WorkerKnows DEF ClientInv
<1>4. answer'.is = "job" => pc = "submit"
  BY <1>1, HandleAnswer DEF Statuses
<1>5. Asks'
  BY <1>1, <1>2, <1>4, HandleAnswer DEF ClientInv, Asks
<1> QED BY <1>3, <1>5 DEF ClientInv

LEMMA LateEffect ==
  ASSUME ClientInv, NEW r \in late, NEW full \in BOOLEAN, jobs' = Becomes(r, full)
  PROVE  Kept /\ Did(r.kind, full)
<1>1. r.left \in Nat /\ (r.kind = "cancel" => mine # 0)
  BY DEF ClientInv, Types, Knows
<1> QED BY <1>1, Effect DEF ClientInv

LEMMA EndEffect ==
  ASSUME Types, NEW j \in DOMAIN jobs, End(j)
  PROVE  Kept /\ Len(jobs') = Len(jobs)
<1>1. PICK s \in {"over", "gone"} :
        jobs' = [jobs EXCEPT ![j].status = s] /\ (jobs[j].status = "gone" => s = "gone")
  BY DEF End, Open
<1> QED BY <1>1, Settled

LEMMA WorkerKeeps == ASSUME ClientInv, Worker PROVE ClientInv'
<1>1. ASSUME Kept, UNCHANGED <<now, client>>, late' \subseteq late PROVE ClientInv'
  <2>1. UNCHANGED <<is, now, pc, mine, due, left, ends, wake, uncancelled, req, answer>>
    BY <1>1 DEF client
  <2>2. Types' /\ Knows' /\ DOMAIN jobs \subseteq DOMAIN jobs'
    BY <1>1, <2>1, WorkerKnows, Grows DEF ClientInv
  <2>3. Asks'
    BY <2>1, <2>2 DEF ClientInv, Asks
  <2> QED BY <2>2, <2>3 DEF ClientInv
<1>2. CASE HandleLate
  BY <1>1, <1>2, LateEffect DEF HandleLate
<1>3. ASSUME NEW j \in DOMAIN jobs, End(j) PROVE ClientInv'
  BY <1>1, <1>3, EndEffect DEF End, ClientInv
<1> QED BY <1>2, <1>3, HandleKeeps DEF Worker

(* No job is known again, and none is added while one is.                  *)
LEMMA KnownShrinks == ASSUME Types, Kept, Len(jobs') = Len(jobs) PROVE Known' \subseteq Known
<1>1. DOMAIN jobs' = DOMAIN jobs
  BY DEF Types, Kept
<1> QED BY <1>1 DEF Kept, Known

LEMMA KnownAdded ==
  ASSUME Types, Kept, Len(jobs') = Len(jobs) + 1, Known = {}
  PROVE  \A i, j \in Known' : i = j
<1>1. DOMAIN jobs' = DOMAIN jobs \cup {Len(jobs')}
  BY DEF Types, Kept
<1> QED BY <1>1 DEF Kept, Known

LEMMA WorkerOnce == ASSUME ClientInv, OnceInv, Worker PROVE OnceInv'
<1>1. Types /\ Len(jobs) \in Nat /\ (is = "tool" => Same = {}) /\ (is = "app" => Same = Known) /\ is' = is
  BY DEF ClientInv, Types, Same, Worker, Handle, HandleLate, End, client
<1>2. ASSUME Kept, NEW kind, NEW full \in BOOLEAN, Did(kind, full), is = "app" PROVE OnceInv'
  BY <1>1, <1>2, KnownShrinks, KnownAdded DEF Did, OnceInv, Types, Known
<1>3. CASE Handle
  <2>1. PICK full \in BOOLEAN : Did(pc, full)
    BY <1>3, HandleEffect
  <2>2. ASSUME is = "tool" PROVE OnceInv'
    <3>1. pc \in Asking /\ answer = None /\ UNCHANGED <<is, late, pc, mine>> /\ answer' # None
      BY <1>3, HandleEffect, HandleAnswer DEF Handle
    <3>2. pc = "submit" /\ answer'.is = "full" => jobs' = jobs
      BY <1>3, HandleAnswer
    <3>3. pc # "done"
      BY <3>1 DEF Asking
    <3>4. Arriving = {} /\ Arriving' = {}
      BY <2>2, <3>1, <3>3 DEF OnceInv, Arriving
    <3>5. (pc = "submit" => Len(jobs) = 0) /\ Len(jobs) <= 1
      BY <2>2, <3>1 DEF OnceInv
    <3>6. Len(jobs') <= 1
      BY <1>1, <2>1, <3>5 DEF Did
    <3>7. pc = "submit" /\ answer'.is = "full" => Len(jobs') = 0
      BY <3>2, <3>5
    <3>8. pc' # "idle" /\ pc' # "pause"
      BY <3>1 DEF Asking
    <3> QED BY <1>1, <2>2, <3>1, <3>4, <3>6, <3>7, <3>8 DEF OnceInv
  <2> QED BY <1>1, <1>2, <1>3, <2>1, <2>2, HandleEffect DEF Types
<1>4. CASE HandleLate
  <2>1. PICK r \in late, full \in BOOLEAN : late' = late \ {r} /\ jobs' = Becomes(r, full)
    BY <1>4 DEF HandleLate
  <2>2. Kept /\ Did(r.kind, full)
    BY <2>1, LateEffect
  <2>3. ASSUME is = "tool" PROVE OnceInv'
    <3>1. UNCHANGED <<is, answer, pc, mine>> /\ Arriving' = Arriving \ {r}
      BY <1>4, <2>1 DEF HandleLate, client, Arriving
    <3>2. CASE r.kind = "submit"
      <4>1. Arriving' = {} /\ Len(jobs) = 0 /\ pc = "done"
        BY <2>1, <2>3, <3>1, <3>2 DEF OnceInv, Arriving
      <4>2. Len(jobs') <= 1
        <5> DEFINE m == Len(jobs)
                   n == Len(jobs')
        <5>1. n = m \/ n = m + 1
          BY <2>2 DEF Did
        <5>2. m = 0
          BY <4>1
        <5> HIDE DEF m, n
        <5>3. n <= 1
          BY <5>1, <5>2
        <5> QED BY <5>3 DEF n
      <4> QED BY <1>1, <2>3, <3>1, <4>1, <4>2 DEF OnceInv
    <3>3. CASE r.kind # "submit"
      <4>1. Len(jobs') = Len(jobs)
        BY <2>2, <3>3 DEF Did
      <4> QED BY <1>1, <2>3, <3>1, <4>1 DEF OnceInv
    <3> QED BY <3>2, <3>3
  <2> QED BY <1>1, <1>2, <2>2, <2>3 DEF Types
<1>5. ASSUME NEW j \in DOMAIN jobs, End(j) PROVE OnceInv'
  <2>1. Kept /\ Len(jobs') = Len(jobs) /\ Known' \subseteq Known
    BY <1>1, <1>5, EndEffect, KnownShrinks
  <2>2. UNCHANGED <<is, answer, pc, mine, late>>
    BY <1>5 DEF End, client
  <2> QED BY <2>1, <2>2 DEF OnceInv, Arriving
<1> QED BY <1>3, <1>4, <1>5 DEF Worker

LEMMA WorkerOver == ASSUME ClientInv, OverInv, Worker PROVE OverInv'
<1>1. UNCHANGED <<is, pc, mine, uncancelled>>
  BY DEF Worker, Handle, HandleLate, End, client
<1>2. ASSUME Kept, mine # 0 PROVE Open(mine)' => Open(mine)
  BY <1>1, <1>2 DEF Kept, Open, ClientInv, Knows
<1>3. pc \in {"poll", "cancel"} => mine # 0
  BY DEF ClientInv, Knows
<1>4. CASE Handle
  <2>1. PICK full \in BOOLEAN : Did(pc, full)
    BY <1>4, HandleEffect
  <2>2. Kept /\ pc # "done"
    BY <1>4, HandleEffect DEF Asking
  <2>3. pc = "poll" /\ answer'.is = "over" => ~Open(mine)'
    BY <1>1, <1>4, HandleAnswer DEF Open
  <2>4. pc = "cancel" => ~Open(mine)'
    BY <1>1, <1>2, <1>3, <2>1, <2>2 DEF Did, Open
  <2> QED BY <1>1, <2>2, <2>3, <2>4 DEF OverInv
<1>5. CASE HandleLate \/ \E j \in DOMAIN jobs : End(j)
  <2>1. Kept
    BY <1>5, LateEffect, EndEffect DEF HandleLate, ClientInv
  <2>2. answer' = answer
    BY <1>5 DEF HandleLate, End, client
  <2> QED BY <1>1, <1>2, <1>3, <2>1, <2>2 DEF OverInv
<1> QED BY <1>4, <1>5 DEF Worker
-----------------------------------------------------------------------------
(* The client's own steps change no job, and the clock waits for no one    *)
(* past a timer.                                                           *)
Inv == ClientInv /\ OnceInv /\ OverInv /\ TimeInv

LEMMA TickKeeps == ASSUME Inv, Tick PROVE Inv'
<1>1. UNCHANGED <<is, jobs, late, req, answer, pc, mine, due, left, ends, wake, uncancelled>>
  BY DEF Tick, client
<1>2. now' = now + 1 /\ now' \in Nat
  BY DEF Tick, Inv, ClientInv, Types
<1>3. pc \in Asking => now' <= req.until
  <2>1. pc \in Asking => req # Idle
    BY DEF Inv, ClientInv, Asks, Asking, Idle
  <2> QED BY <1>2, <2>1 DEF Tick, Inv, ClientInv, Types, Asks
<1>4. pc \in {"pause", "sleep"} => now' <= wake
  BY <1>2 DEF Tick, Inv, ClientInv, Types
<1>5. ClientInv'
  BY <1>1, <1>2, <1>3 DEF Inv, ClientInv, Types, Knows, Asks
<1>6. OnceInv' /\ OverInv'
  BY <1>1 DEF Inv, OnceInv, OverInv, Arriving, Known, Open
<1>7. TimeInv'
  BY <1>1, <1>4 DEF Inv, TimeInv, ToolTimes, AppTimes, Latest
<1> QED BY <1>5, <1>6, <1>7 DEF Inv

LEMMA WorkerStep == ASSUME Inv, Worker PROVE Inv'
<1>1. UNCHANGED <<is, now, req, pc, due, left, ends, wake>>
  BY DEF Worker, Handle, HandleLate, End, client
<1>2. TimeInv'
  BY <1>1 DEF Inv, TimeInv, ToolTimes, AppTimes, Latest
<1> QED BY <1>2, WorkerKeeps, WorkerOnce, WorkerOver DEF Inv

(* How the steps of a client are put together.                             *)
LEMMA Sent ==
  ASSUME ClientInv, NEW kind, NEW p \in Asking, kind = IF p = "poll" THEN "get" ELSE p, NEW timeout \in Nat, NEW n \in Nat,
         pc' = p, Send(kind, timeout, n), UNCHANGED <<now, jobs>>
  PROVE  Asks' /\ req'.until = now + timeout /\ answer' = None /\ req'.ops = IF is = "tool" THEN Operations ELSE 1
<1> DEFINE ops == IF is = "tool" THEN Operations ELSE 1
<1>1. now + timeout \in Nat /\ now <= now + timeout /\ ops \in Nat \ {0}
  BY ClientAssumption DEF ClientInv, Types
<1>2. req' = [kind |-> kind, left |-> n, until |-> now + timeout, ops |-> ops] /\ answer' = None
  BY DEF Send
<1> HIDE DEF ops
<1>3. req' \in [kind : {IF p = "poll" THEN "get" ELSE p}, left : Nat, until : Nat, ops : Nat \ {0}]
  BY <1>1, <1>2
<1>4. Asks' /\ req'.until = now + timeout /\ answer' = None /\ req'.ops = ops
  BY <1>1, <1>2, <1>3 DEF Asks
<1> QED BY <1>4 DEF ops

(* A request just sent is over when all its operations are; until then its *)
(* latest end is ahead.                                                    *)
LEMMA ToolSent ==
  ASSUME ClientInv, is = "tool", NEW kind, NEW p \in Asking, kind = IF p = "poll" THEN "get" ELSE p, NEW n \in Nat,
         pc' = p, Send(kind, Request, n), UNCHANGED <<now, jobs>>
  PROVE  Asks' /\ Latest' = now + Longest /\ answer' = None
<1>1. Request \in Nat /\ Operations \in Nat /\ now \in Nat
  BY ClientAssumption DEF ClientInv, Types
<1>2. Asks' /\ req'.until = now + Request /\ answer' = None /\ req'.ops = Operations
  BY <1>1, Sent
<1>3. now + Request + (Operations - 1) * Request = now + Operations * Request
  BY <1>1
<1> QED BY <1>2, <1>3 DEF Latest, Longest

LEMMA Until ==
  ASSUME ClientInv, pc \in Asking
  PROVE  Latest \in Nat /\ req.until \in Nat /\ now <= req.until /\ req.until <= Latest /\ now <= Latest
<1>1. now \in Nat /\ req.until \in Nat /\ req.ops \in Nat /\ req.ops >= 1 /\ now <= req.until /\ Request \in Nat
  BY ClientAssumption DEF ClientInv, Types, Asks
<1>2. (req.ops - 1) * Request \in Nat
  BY <1>1
<1> QED BY <1>1, <1>2 DEF Latest

LEMMA GivenUp ==
  ASSUME ClientInv, NEW p \in Asking, GivesUp(p)
  PROVE  \/ late' = late
         \/ /\ answer = None /\ req.kind = p /\ p # "poll"
            /\ \E r \in [kind : {p}, left : Nat, until : {0}, ops : {0}] : late' = late \cup {r}
<1>1. pc = p /\ req \in [kind : {IF p = "poll" THEN "get" ELSE p}, left : Nat, until : Nat, ops : Nat \ {0}]
  BY DEF GivesUp, ClientInv, Asks
<1>2. CASE p = "poll"
  BY <1>1, <1>2 DEF GivesUp
<1>3. CASE p # "poll" /\ answer = None
  <2> DEFINE r == [req EXCEPT !.until = 0, !.ops = 0]
  <2>1. r \in [kind : {p}, left : Nat, until : {0}, ops : {0}] /\ req.kind = p
    BY <1>1, <1>3
  <2>2. late' \in {late, late \cup {r}}
    BY <1>3 DEF GivesUp
  <2> QED BY <1>3, <2>1, <2>2
<1>4. CASE answer # None
  BY <1>4 DEF GivesUp
<1> QED BY <1>2, <1>3, <1>4

LEMMA Constants ==
  /\ Budget \in Nat /\ Budget >= 1 /\ Request \in Nat /\ Request >= 1 /\ LastS \in Nat /\ LastS >= 1
  /\ Pause \in Nat /\ Pause >= 1 /\ Wait \in Nat /\ Wait >= 1 /\ AppRequest \in Nat /\ AppRequest >= 1
  /\ Poll \in Nat /\ Poll >= 1 /\ Ahead \in Nat /\ Longest \in Nat
<1>1. Operations \in Nat /\ Request \in Nat
  BY ClientAssumption
<1>2. Operations * Request \in Nat
  BY <1>1
<1> QED BY <1>2, ClientAssumption DEF Longest

LEMMA BeginKeeps == ASSUME Inv, Begin PROVE Inv'
<1> USE Constants
<1>1. /\ is = "tool" /\ pc = "idle" /\ pc' = "submit" /\ due' = now + Budget /\ left' = Budget
      /\ UNCHANGED <<is, now, jobs, late, mine, ends, wake, uncancelled>>
  BY DEF Begin, Submit
<1>2. Send("submit", Request, Budget + Ahead) /\ Budget + Ahead \in Nat
  BY DEF Begin, Submit
<1>3. Asks' /\ Latest' = now + Longest /\ answer' = None
  BY <1>1, <1>2, ToolSent DEF Inv, Asking
<1>4. Types' /\ Knows'
  BY <1>1 DEF Inv, ClientInv, Types, Knows, Asking, Unknown
<1>5. OnceInv' /\ OverInv'
  BY <1>1, <1>3 DEF Inv, OnceInv, OverInv, Arriving
<1>6. TimeInv'
  BY <1>1, <1>3 DEF Inv, ClientInv, Types, TimeInv, ToolTimes
<1> QED BY <1>3, <1>4, <1>5, <1>6 DEF Inv, ClientInv

(* An operation that is over gives the next its timeout, and leaves the    *)
(* latest end where it is or before.                                       *)
LEMMA NextOperationKeeps == ASSUME Inv, NextOperation PROVE Inv'
<1>1. /\ is = "tool" /\ req.ops > 1 /\ req' = [req EXCEPT !.until = now + Request, !.ops = @ - 1]
      /\ UNCHANGED <<is, now, jobs, late, answer, pc, mine, due, left, ends, wake, uncancelled>>
  BY DEF NextOperation
<1>2. pc \in Asking
  BY <1>1 DEF Inv, ClientInv, Asks, Idle
<1>3. now \in Nat /\ req.until \in Nat /\ now <= req.until /\ req.ops \in Nat /\ Request \in Nat /\ left \in Nat /\ due \in Nat
  BY <1>2, ClientAssumption DEF Inv, ClientInv, Types, Asks
<1>4. /\ req' \in [kind : {IF pc = "poll" THEN "get" ELSE pc}, left : Nat, until : Nat, ops : Nat \ {0}]
      /\ req'.until = now + Request /\ req'.ops = req.ops - 1
  <2>1. req \in [kind : {IF pc = "poll" THEN "get" ELSE pc}, left : Nat, until : Nat, ops : Nat \ {0}]
    BY <1>2 DEF Inv, ClientInv, Asks
  <2>2. now + Request \in Nat /\ req.ops - 1 \in Nat \ {0}
    BY <1>1, <1>3
  <2> QED BY <1>1, <2>1, <2>2
<1>5. Latest' \in Nat /\ Latest' <= Latest /\ Latest \in Nat
  <2>1. req'.ops - 1 = req.ops - 2 /\ req.ops - 2 \in Nat
    BY <1>1, <1>3, <1>4
  <2>2. (req.ops - 2) * Request \in Nat /\ (req.ops - 1) * Request = (req.ops - 2) * Request + Request
    BY <1>3, <2>1
  <2>3. Latest' = now + Request + (req.ops - 2) * Request
    BY <1>4, <2>1 DEF Latest
  <2> QED BY <1>3, <2>2, <2>3 DEF Latest
<1>6. Asks' /\ Types' /\ Knows'
  BY <1>1, <1>2, <1>3, <1>4 DEF Inv, ClientInv, Types, Knows, Asks
<1>7. OnceInv' /\ OverInv'
  BY <1>1 DEF Inv, OnceInv, OverInv, Arriving, Open, Known
<1>8. TimeInv'
  <2>1. Poll \in Nat /\ Longest \in Nat
    BY Constants
  <2> QED BY <1>1, <1>3, <1>5, <2>1 DEF Inv, TimeInv, ToolTimes
<1> QED BY <1>6, <1>7, <1>8 DEF Inv, ClientInv

LEMMA SubmittedKeeps == ASSUME Inv, Submitted PROVE Inv'
<1> USE Constants
<1>1. /\ is = "tool" /\ pc = "submit" /\ answer # None /\ answer.is = "job" /\ pc' = "poll"
      /\ mine' = answer.job /\ ends' = now + left
      /\ UNCHANGED <<is, now, jobs, late, due, left, wake, uncancelled>>
  BY DEF Submitted, Answered
<1>2. Send("get", Request, 0)
  BY DEF Submitted
<1>3. Asks' /\ Latest' = now + Longest /\ answer' = None
  BY <1>1, <1>2, ToolSent DEF Inv, Asking
<1>4. answer.job \in DOMAIN jobs /\ DOMAIN jobs = 1 .. Len(jobs)
  BY <1>1 DEF Inv, ClientInv, Asks, Asking, Types
<1>5. Types' /\ Knows'
  BY <1>1, <1>4 DEF Inv, ClientInv, Types, Knows, Asking, Unknown
<1>6. OnceInv' /\ OverInv'
  BY <1>1, <1>3 DEF Inv, OnceInv, OverInv, Arriving
<1>7. now <= Latest /\ Latest \in Nat /\ left >= 1 /\ Latest + left <= due + Longest
  BY <1>1, Until DEF Inv, Asking, TimeInv, ToolTimes
<1>8. TimeInv'
  <2>1. now \in Nat /\ left \in Nat /\ due \in Nat
    BY DEF Inv, ClientInv, Types
  <2>2. Latest' <= due + Poll + 2 * Longest /\ ends' <= due + Longest
    BY <1>1, <1>3, <1>7, <2>1
  <2> QED BY <1>1, <2>2 DEF TimeInv, ToolTimes
<1> QED BY <1>3, <1>5, <1>6, <1>8 DEF Inv, ClientInv

LEMMA RefusedKeeps == ASSUME Inv, Refused PROVE Inv'
<1> USE Constants
<1>1. /\ is = "tool" /\ pc = "submit" /\ answer # None /\ answer.is = "full" /\ Quiet
      /\ UNCHANGED <<is, now, jobs, late, mine, due, left, ends, uncancelled>>
  BY DEF Refused, Answered, PauseOr, Sleep, Finishes
<1>2. \/ pc' = "done" /\ wake' = wake
      \/ pc' = "pause" /\ wake' \in Nat /\ now <= wake' /\ wake' + LastS <= due
  <2>1. PICK wanted \in Pause .. 2 * Pause : PauseOr(wanted, "full")
    BY DEF Refused
  <2> DEFINE wait == Least(wanted, due - now - LastS)
  <2>2. wait \in Int /\ wait <= due - now - LastS
    BY DEF Least, Inv, ClientInv, Types
  <2>3. (wait > 0 /\ pc' = "pause" /\ wake' = now + wait) \/ (pc' = "done" /\ wake' = wake)
    BY <2>1 DEF PauseOr, Sleep, Finishes
  <2> HIDE DEF wait
  <2> QED BY <2>2, <2>3 DEF Inv, ClientInv, Types
<1>3. Asks' /\ req' = Idle /\ answer' = None
  BY <1>1, <1>2 DEF Quiet, Asks, Asking
<1>4. Types' /\ Knows'
  BY <1>1, <1>2 DEF Inv, ClientInv, Types, Knows, Asking, Unknown
<1>5. OnceInv' /\ OverInv'
  BY <1>1, <1>2, <1>3 DEF Inv, ClientInv, Knows, Unknown, OnceInv, OverInv, Arriving
<1>6. TimeInv'
  BY <1>1, <1>2 DEF TimeInv, ToolTimes
<1> QED BY <1>3, <1>4, <1>5, <1>6 DEF Inv, ClientInv

LEMMA TryAgainKeeps == ASSUME Inv, TryAgain PROVE Inv'
<1> USE Constants
<1>1. /\ pc = "pause" /\ wake = now /\ pc' = "submit" /\ left' = due - now
      /\ UNCHANGED <<is, now, jobs, late, mine, due, ends, wake, uncancelled>>
  BY DEF TryAgain, Submit
<1>2. is = "tool" /\ wake + LastS <= due
  BY <1>1 DEF Inv, ClientInv, Types, Asking, TimeInv, ToolTimes
<1>3. left' \in Nat /\ left' >= 1 /\ left' + Ahead \in Nat
  BY <1>1, <1>2 DEF Inv, ClientInv, Types
<1>4. Send("submit", Request, left' + Ahead)
  BY <1>1 DEF TryAgain, Submit
<1>5. Asks' /\ Latest' = now + Longest /\ answer' = None
  BY <1>1, <1>2, <1>3, <1>4, ToolSent DEF Inv, Asking
<1>6. Types' /\ Knows'
  BY <1>1, <1>2, <1>3 DEF Inv, ClientInv, Types, Knows, Asking, Unknown
<1>7. OnceInv' /\ OverInv'
  BY <1>1, <1>2, <1>5 DEF Inv, OnceInv, OverInv, Arriving
<1>8. TimeInv'
  BY <1>1, <1>2, <1>3, <1>5 DEF Inv, ClientInv, Types, TimeInv, ToolTimes
<1> QED BY <1>5, <1>6, <1>7, <1>8 DEF Inv, ClientInv

LEMMA SubmitFailsKeeps == ASSUME Inv, SubmitFails PROVE Inv'
<1>1. /\ is = "tool" /\ pc = "submit" /\ pc' = "done" /\ Quiet
      /\ UNCHANGED <<is, now, jobs, mine, due, left, ends, wake, uncancelled>>
  BY DEF SubmitFails, GivesUp, Unanswered, Finishes
<1>2. late' = late \/ (answer = None /\ \E r \in [kind : {"submit"}, left : Nat, until : {0}, ops : {0}] : late' = late \cup {r})
  BY GivenUp DEF SubmitFails, Asking, Inv
<1>3. Asks' /\ answer' = None
  BY <1>1 DEF Quiet, Asks, Asking
<1>4. Types' /\ Knows' /\ mine = 0
  BY <1>1, <1>2 DEF Inv, ClientInv, Types, Knows, Asking, Unknown
<1>5. OnceInv'
  <2>1. Arriving = {} /\ Len(jobs) <= 1
    BY <1>1 DEF Inv, OnceInv
  <2>2. CASE late' = late
    BY <1>1, <1>3, <2>1, <2>2 DEF OnceInv, Arriving
  <2>3. CASE answer = None /\ \E r \in [kind : {"submit"}, left : Nat, until : {0}, ops : {0}] : late' = late \cup {r}
    <3>1. PICK r \in [kind : {"submit"}, left : Nat, until : {0}, ops : {0}] : late' = late \cup {r}
      BY <2>3
    <3>2. Arriving' = {r}
      BY <2>1, <3>1 DEF Arriving
    <3>3. Len(jobs) = 0
      BY <1>1, <2>3 DEF Inv, OnceInv
    <3> QED BY <1>1, <1>4, <2>1, <3>2, <3>3 DEF OnceInv
  <2> QED BY <1>2, <2>2, <2>3
<1>6. OverInv' /\ TimeInv'
  BY <1>1, <1>4 DEF OverInv, TimeInv, ToolTimes
<1> QED BY <1>3, <1>4, <1>5, <1>6 DEF Inv, ClientInv

(* A tool call that gives its job up cancels it, within a request's time.  *)
LEMMA AbandonsKeeps ==
  ASSUME Inv, is = "tool", NEW why, Abandons(why), mine # 0, Len(jobs) > 0,
         now <= due + Poll + 2 * Longest, pc \in {"poll", "sleep"},
         UNCHANGED <<is, now, jobs, late, mine, due, left, ends, wake, uncancelled>>
  PROVE  Inv'
<1> USE Constants
<1>1. pc' = "cancel" /\ Send("cancel", Request, 0)
  BY DEF Abandons
<1>2. Asks' /\ Latest' = now + Longest /\ answer' = None
  BY <1>1, ToolSent DEF Inv, Asking
<1>3. Types' /\ Knows'
  BY <1>1 DEF Inv, ClientInv, Types, Knows, Asking, Unknown
<1>4. OnceInv' /\ OverInv'
  BY <1>1, <1>2 DEF Inv, OnceInv, OverInv, Arriving
<1>5. TimeInv'
  <2>1. now \in Nat /\ due \in Nat
    BY DEF Inv, ClientInv, Types
  <2>2. Latest' <= due + Poll + 3 * Longest
    BY <1>2, <2>1
  <2> QED BY <1>1, <2>2 DEF TimeInv, ToolTimes
<1> QED BY <1>2, <1>3, <1>4, <1>5 DEF Inv, ClientInv

LEMMA WaitingTool ==
  ASSUME Inv, is = "tool", pc \in {"poll", "sleep"}
  PROVE  /\ mine # 0 /\ mine \in DOMAIN jobs /\ Len(jobs) > 0
         /\ now <= due + Poll + 2 * Longest
<1> USE Constants
<1>1. mine # 0 /\ mine \in DOMAIN jobs
  BY DEF Inv, ClientInv, Knows
<1>2. Len(jobs) > 0
  BY <1>1 DEF Inv, ClientInv, Types
<1>3. now \in Nat /\ due \in Nat /\ wake \in Nat
  BY DEF Inv, ClientInv, Types
<1>4. CASE pc = "poll"
  <2>1. now <= Latest /\ Latest \in Nat /\ Latest <= due + Poll + 2 * Longest
    BY <1>4, Until DEF Inv, Asking, TimeInv, ToolTimes
  <2> QED BY <1>1, <1>2, <1>3, <2>1
<1>5. CASE pc = "sleep"
  <2>1. now <= wake /\ wake <= due + Longest + Poll
    BY <1>5 DEF Inv, TimeInv, ToolTimes
  <2> QED BY <1>1, <1>2, <1>3, <2>1
<1> QED BY <1>4, <1>5

LEMMA PollAnsweredKeeps == ASSUME Inv, PollAnswered PROVE Inv'
<1> USE Constants
<1>1. /\ is = "tool" /\ pc = "poll" /\ answer # None
      /\ UNCHANGED <<is, now, jobs, late, mine, due, left, ends, uncancelled>>
  BY DEF PollAnswered
<1>2. mine # 0 /\ mine \in DOMAIN jobs /\ Len(jobs) > 0 /\ now <= due + Poll + 2 * Longest
  BY <1>1, WaitingTool
<1>3. CASE answer.is = "over"
  <2>1. pc' = "done" /\ Quiet /\ wake' = wake
    BY <1>3 DEF PollAnswered, Finishes
  <2>2. Asks' /\ answer' = None
    BY <2>1 DEF Quiet, Asks, Asking
  <2>3. ~Open(mine)
    BY <1>1, <1>3 DEF Inv, OverInv
  <2>4. Types' /\ Knows'
    BY <1>1, <2>1 DEF Inv, ClientInv, Types, Knows, Asking, Unknown
  <2>5. OnceInv' /\ OverInv' /\ TimeInv'
    BY <1>1, <2>1, <2>2, <2>3 DEF Inv, OnceInv, OverInv, Arriving, Open, TimeInv, ToolTimes
  <2> QED BY <2>2, <2>4, <2>5 DEF Inv, ClientInv
<1>4. CASE answer.is = "open" /\ now < ends
  <2>1. pc' = "sleep" /\ Quiet /\ wake' = now + Poll
    <3>1. ~(now >= ends)
      BY <1>4 DEF Inv, ClientInv, Types
    <3> QED BY <1>4, <3>1 DEF PollAnswered, Sleep
  <2>2. Asks' /\ answer' = None
    BY <2>1 DEF Quiet, Asks, Asking
  <2>3. Types' /\ Knows'
    BY <1>1, <2>1 DEF Inv, ClientInv, Types, Knows, Asking, Unknown
  <2>4. OnceInv' /\ OverInv'
    BY <1>1, <2>1, <2>2 DEF Inv, OnceInv, OverInv, Arriving
  <2>5. TimeInv'
    <3>1. ends \in Nat /\ now \in Nat /\ due \in Nat /\ ends <= due + Longest
      BY <1>1 DEF Inv, ClientInv, Types, TimeInv, ToolTimes
    <3>2. now <= wake' /\ wake' <= due + Longest + Poll
      BY <1>4, <2>1, <3>1
    <3> QED BY <1>1, <2>1, <3>1, <3>2 DEF TimeInv, ToolTimes
  <2> QED BY <2>2, <2>3, <2>4, <2>5 DEF Inv, ClientInv
<1>5. CASE ~(answer.is = "over") /\ ~(answer.is = "open" /\ now < ends)
  <2>1. (\E why : Abandons(why)) /\ wake' = wake
    <3>1. now \in Nat /\ ends \in Nat
      BY DEF Inv, ClientInv, Types
    <3>2. CASE answer.is = "open"
      <4>1. now >= ends /\ ~(now < ends)
        BY <1>5, <3>1, <3>2
      <4>2. Abandons("wait_timeout") /\ wake' = wake
        BY <3>2, <4>1 DEF PollAnswered
      <4> QED BY <4>2
    <3>3. CASE answer.is # "open"
      <4>1. Abandons("http_error") /\ wake' = wake
        BY <1>5, <3>3 DEF PollAnswered
      <4> QED BY <4>1
    <3> QED BY <3>2, <3>3
  <2> QED BY <1>1, <1>2, <2>1, AbandonsKeeps
<1> QED BY <1>3, <1>4, <1>5

LEMMA PollEndsKeep == ASSUME Inv, PollFails \/ Interrupted PROVE Inv'
<1>1. /\ is = "tool" /\ pc \in {"poll", "sleep"} /\ \E why : Abandons(why)
      /\ UNCHANGED <<is, now, jobs, mine, due, left, ends, wake, uncancelled>>
  BY DEF PollFails, Interrupted, GivesUp
<1>2. late' = late
  BY GivenUp DEF PollFails, Interrupted, Asking, Inv
<1> QED BY <1>1, <1>2, WaitingTool, AbandonsKeeps

LEMMA PollAgainKeeps == ASSUME Inv, PollAgain PROVE Inv'
<1> USE Constants
<1>1. /\ is = "tool" /\ pc = "sleep" /\ wake = now /\ pc' = "poll" /\ Send("get", Request, 0)
      /\ UNCHANGED <<is, now, jobs, late, mine, due, left, ends, wake, uncancelled>>
  BY DEF PollAgain
<1>2. Asks' /\ Latest' = now + Longest /\ answer' = None
  BY <1>1, ToolSent DEF Inv, Asking
<1>3. Types' /\ Knows'
  BY <1>1 DEF Inv, ClientInv, Types, Knows, Asking, Unknown
<1>4. OnceInv' /\ OverInv'
  BY <1>1, <1>2 DEF Inv, OnceInv, OverInv, Arriving
<1>5. TimeInv'
  <2>1. now \in Nat /\ due \in Nat /\ ends <= due + Longest /\ wake <= due + Longest + Poll
    BY <1>1 DEF Inv, ClientInv, Types, TimeInv, ToolTimes
  <2>2. Latest' <= due + Poll + 2 * Longest
    BY <1>1, <1>2, <2>1
  <2> QED BY <1>1, <2>1, <2>2 DEF TimeInv, ToolTimes
<1> QED BY <1>2, <1>3, <1>4, <1>5 DEF Inv, ClientInv

LEMMA CancelledKeeps == ASSUME Inv, Cancelled PROVE Inv'
<1>1. /\ pc = "cancel" /\ pc' = (IF is = "tool" THEN "done" ELSE "have") /\ Quiet
      /\ UNCHANGED <<is, now, jobs, mine, due, left, ends, wake>>
  BY DEF Cancelled, GivesUp
<1>2. mine # 0 /\ uncancelled' \in BOOLEAN /\ (uncancelled' \/ (answer # None /\ uncancelled' = uncancelled))
  BY <1>1 DEF Cancelled, Inv, ClientInv, Knows, Types
<1>3. late' = late \/ \E r \in [kind : {"cancel"}, left : Nat, until : {0}, ops : {0}] : late' = late \cup {r}
  BY GivenUp DEF Cancelled, Asking, Inv
<1>4. Asks' /\ answer' = None
  BY <1>1 DEF Quiet, Asks, Asking
<1>5. Arriving' = Arriving
  BY <1>3 DEF Arriving
<1>6. late' \subseteq [kind : {"submit", "cancel"}, left : Nat, until : {0}, ops : {0}]
  BY <1>3 DEF Inv, ClientInv, Types
<1>7. Types' /\ Knows'
  BY <1>1, <1>2, <1>6 DEF Inv, ClientInv, Types, Knows, Asking, Unknown
<1>8. OnceInv' /\ OverInv' /\ TimeInv'
  BY <1>1, <1>2, <1>4, <1>5 DEF Inv, OnceInv, OverInv, Open, Known, TimeInv, ToolTimes, AppTimes
<1> QED BY <1>4, <1>7, <1>8 DEF Inv, ClientInv

(* An application's steps.  It is told of no answer's status what the end  *)
(* of a wait is called.                                                    *)
LEMMA AppSubmitKeeps == ASSUME Inv, AppSubmit PROVE Inv'
<1> USE Constants
<1>1. /\ is = "app" /\ pc = "idle" /\ pc' = "submit" /\ Send("submit", AppRequest, Wait)
      /\ UNCHANGED <<is, now, jobs, late, mine, due, left, ends, wake, uncancelled>>
  BY DEF AppSubmit
<1>2. Asks'
  BY <1>1, Sent DEF Inv, Asking
<1>3. Types' /\ Knows'
  BY <1>1 DEF Inv, ClientInv, Types, Knows, Asking, Unknown
<1>4. OnceInv' /\ OverInv' /\ TimeInv'
  BY <1>1 DEF Inv, OnceInv, OverInv, Known, TimeInv, AppTimes
<1> QED BY <1>2, <1>3, <1>4 DEF Inv, ClientInv

LEMMA AppSubmittedKeeps == ASSUME Inv, AppSubmitted PROVE Inv'
<1>1. is = "app" /\ pc = "submit" /\ Quiet /\ UNCHANGED <<is, now, jobs, due, left, ends, wake, uncancelled>>
  BY DEF AppSubmitted, Answered, GivesUp
<1>2. \/ pc' = "have" /\ mine' \in DOMAIN jobs /\ mine' # 0 /\ late' = late
      \/ pc' = "idle" /\ mine' = mine /\ late' \subseteq [kind : {"submit", "cancel"}, left : Nat, until : {0}, ops : {0}]
                      /\ \A r \in late' : r.kind = "cancel" => r \in late
  <2>1. CASE Answered("submit", "job")
    <3>1. answer.job \in DOMAIN jobs /\ DOMAIN jobs = 1 .. Len(jobs)
      BY <2>1 DEF Answered, Inv, ClientInv, Asks, Asking, Types
    <3>2. answer.is # "full"
      BY <2>1 DEF Answered
    <3> QED BY <2>1, <3>1, <3>2, GivenUp DEF AppSubmitted, Answered, Inv, ClientInv, Types, Asking
  <2>2. CASE ~Answered("submit", "job")
    <3>1. pc' = "idle" /\ mine' = mine /\ (late' = late \/ GivesUp("submit"))
      BY <2>2 DEF AppSubmitted
    <3>2. late' = late \/ \E r \in [kind : {"submit"}, left : Nat, until : {0}, ops : {0}] : late' = late \cup {r}
      BY <3>1, GivenUp DEF Inv, Asking
    <3> QED BY <3>1, <3>2 DEF Inv, ClientInv, Types
  <2> QED BY <2>1, <2>2
<1>3. Asks'
  BY <1>1, <1>2 DEF Quiet, Asks, Asking
<1>4. Types' /\ Knows'
  BY <1>1, <1>2 DEF Inv, ClientInv, Types, Knows, Asking, Unknown
<1>5. OnceInv' /\ OverInv' /\ TimeInv'
  BY <1>1, <1>2 DEF Inv, OnceInv, OverInv, Known, TimeInv, AppTimes
<1> QED BY <1>3, <1>4, <1>5 DEF Inv, ClientInv

LEMMA Polled ==
  ASSUME Inv, is = "app", mine # 0, now < ends', ends' \in Nat, NEW t \in Nat, now + t <= ends',
         pc' = "poll", Send("get", t, 0), UNCHANGED <<is, now, jobs, late, mine, due, left, wake, uncancelled>>
  PROVE  Inv'
<1>1. Asks' /\ req'.until = now + t
  BY Sent DEF Inv, Asking
<1>2. Types' /\ Knows'
  BY DEF Inv, ClientInv, Types, Knows, Asking, Unknown
<1>3. OnceInv' /\ OverInv' /\ TimeInv'
  BY <1>1 DEF Inv, OnceInv, OverInv, Known, TimeInv, AppTimes
<1> QED BY <1>1, <1>2, <1>3 DEF Inv, ClientInv

LEMMA AppWaitsKeeps == ASSUME Inv, AppWaits PROVE Inv'
<1> USE Constants
<1>1. /\ is = "app" /\ pc = "have" /\ ends' = now + Wait /\ pc' = "poll" /\ Send("get", Least(Wait, AppRequest), 0)
      /\ UNCHANGED <<is, now, jobs, late, mine, due, left, wake, uncancelled>>
  BY DEF AppWaits
<1>2. now \in Nat /\ mine # 0
  BY <1>1 DEF Inv, ClientInv, Types, Knows
<1>3. Least(Wait, AppRequest) \in Nat /\ Least(Wait, AppRequest) <= Wait
  BY DEF Least
<1> QED BY <1>1, <1>2, <1>3, Polled

LEMMA AppCancelsKeeps == ASSUME Inv, AppCancels PROVE Inv'
<1> USE Constants
<1>1. /\ is = "app" /\ pc = "have" /\ pc' = "cancel" /\ Send("cancel", AppRequest, 0)
      /\ UNCHANGED <<is, now, jobs, late, mine, due, left, ends, wake, uncancelled>>
  BY DEF AppCancels
<1>2. Asks'
  BY <1>1, Sent DEF Inv, Asking
<1>3. Types' /\ Knows'
  BY <1>1 DEF Inv, ClientInv, Types, Knows, Asking, Unknown
<1>4. OnceInv' /\ OverInv' /\ TimeInv'
  BY <1>1 DEF Inv, OnceInv, OverInv, Known, TimeInv, AppTimes
<1> QED BY <1>2, <1>3, <1>4 DEF Inv, ClientInv

LEMMA Idles ==
  ASSUME Inv, is = "app", mine # 0, pc' = "have" \/ (pc' = "sleep" /\ now <= wake' /\ wake' <= ends), wake' \in Nat, Quiet,
         UNCHANGED <<is, now, jobs, late, mine, due, left, ends, uncancelled>>
  PROVE  Inv'
<1>1. Asks'
  BY DEF Quiet, Asks, Asking
<1>2. Types' /\ Knows'
  BY DEF Inv, ClientInv, Types, Knows, Asking, Unknown
<1>3. OnceInv' /\ OverInv' /\ TimeInv'
  BY DEF Inv, OnceInv, OverInv, Known, TimeInv, AppTimes
<1> QED BY <1>1, <1>2, <1>3 DEF Inv, ClientInv

LEMMA WaitingApp ==
  ASSUME Inv, is = "app", pc \in {"poll", "sleep"}
  PROVE  mine # 0 /\ now \in Nat /\ ends \in Nat /\ wake \in Nat /\ now <= ends /\ (pc = "poll" => now <= req.until)
<1>1. mine # 0 /\ now \in Nat /\ ends \in Nat /\ wake \in Nat
  BY DEF Inv, ClientInv, Types, Knows
<1>2. pc = "poll" => now <= req.until /\ req.until \in Nat /\ req.until <= ends
  BY DEF Inv, ClientInv, Asks, Asking, TimeInv, AppTimes
<1>3. pc = "sleep" => now <= wake /\ wake <= ends
  BY DEF Inv, TimeInv, AppTimes
<1> QED BY <1>1, <1>2, <1>3

LEMMA AppAnsweredKeeps == ASSUME Inv, AppAnswered PROVE Inv'
<1> USE Constants
<1>1. /\ is = "app" /\ pc = "poll" /\ Quiet
      /\ UNCHANGED <<is, now, jobs, late, mine, due, left, ends, uncancelled>>
      /\ (pc' = "sleep" /\ wake' = now + Nap) \/ (pc' = "have" /\ wake' = wake)
  BY DEF AppAnswered, Sleep, Finishes
<1>2. mine # 0 /\ now \in Nat /\ ends \in Nat /\ wake \in Nat /\ now <= ends
  BY <1>1, WaitingApp
<1>3. Nap \in Nat /\ now + Nap <= ends
  BY <1>2 DEF Nap, Least
<1> QED BY <1>1, <1>2, <1>3, Idles

LEMMA AppPollFailsKeeps == ASSUME Inv, AppPollFails PROVE Inv'
<1>1. /\ is = "app" /\ pc = "poll" /\ Quiet /\ pc' = "have"
      /\ UNCHANGED <<is, now, jobs, mine, due, left, ends, wake, uncancelled>>
  BY DEF AppPollFails, Finishes, GivesUp
<1>2. late' = late
  BY GivenUp DEF AppPollFails, Asking, Inv
<1> QED BY <1>1, <1>2, WaitingApp, Idles

(* A set whose members are all equal has at most one.                      *)
LEMMA AtMostOne ==
  ASSUME NEW S, \A i, j \in S : i = j
  PROVE  IsFiniteSet(S) /\ Cardinality(S) <= 1
<1>1. CASE S = {}
  <2>1. IsFiniteSet(S) /\ Cardinality(S) = 0
    BY <1>1, FS_EmptySet, Zenon
  <2> QED BY <2>1
<1>2. CASE \E i : S = {i}
  <2>1. IsFiniteSet(S) /\ Cardinality(S) = 1
    BY <1>2, FS_Singleton, Zenon
  <2> QED BY <2>1
<1>3. S = {} \/ \E i : S = {i}
  OBVIOUS
<1> QED BY <1>1, <1>2, <1>3

LEMMA AppPollAgainKeeps == ASSUME Inv, AppPollAgain PROVE Inv'
<1> USE Constants
<1>1. /\ is = "app" /\ pc = "sleep" /\ wake = now /\ NextPoll
      /\ UNCHANGED <<is, now, jobs, late, mine, due, left, ends, wake, uncancelled>>
  BY DEF AppPollAgain
<1>2. mine # 0 /\ now \in Nat /\ ends \in Nat /\ wake \in Nat /\ now <= ends
  BY <1>1, WaitingApp
<1>3. CASE ends - now < 1
  BY <1>1, <1>2, <1>3, Idles DEF NextPoll, Finishes
<1>4. CASE ~(ends - now < 1)
  <2>1. Least(ends - now, AppRequest) \in Nat /\ now + Least(ends - now, AppRequest) <= ends /\ now < ends
    BY <1>2, <1>4 DEF Least
  <2>2. pc' = "poll" /\ Send("get", Least(ends - now, AppRequest), 0)
    BY <1>1, <1>4 DEF NextPoll
  <2> QED BY <1>1, <1>2, <2>1, <2>2, Polled
<1> QED BY <1>3, <1>4
-----------------------------------------------------------------------------
LEMMA InvInit == ASSUME Init PROVE Inv
<1>1. jobs \in Seq(Jobs) /\ Len(jobs) = 0 /\ DOMAIN jobs = {}
  BY DEF Init
<1>2. Types /\ Knows /\ Asks
  BY <1>1 DEF Init, Types, Knows, Asks, Asking, Unknown
<1>3. OnceInv /\ OverInv /\ TimeInv
  BY <1>1 DEF Init, OnceInv, OverInv, Arriving, Known, TimeInv, ToolTimes, AppTimes
<1> QED BY <1>2, <1>3 DEF Inv, ClientInv

LEMMA InvStep == ASSUME Inv, [Next]_vars PROVE Inv'
<1>1. CASE Tool
  BY <1>1, BeginKeeps, NextOperationKeeps, SubmittedKeeps, RefusedKeeps, TryAgainKeeps, SubmitFailsKeeps, PollAnsweredKeeps, PollEndsKeep,
     PollAgainKeeps DEF Tool
<1>2. CASE App
  BY <1>2, AppSubmitKeeps, AppSubmittedKeeps, AppWaitsKeeps, AppCancelsKeeps, AppAnsweredKeeps, AppPollFailsKeeps,
     AppPollAgainKeeps DEF App
<1>3. CASE UNCHANGED vars
  BY <1>3 DEF vars, client, Inv, ClientInv, Types, Knows, Asks, OnceInv, Arriving, Known, OverInv, Open,
              TimeInv, ToolTimes, AppTimes, Latest
<1> QED BY <1>1, <1>2, <1>3, TickKeeps, WorkerStep, CancelledKeeps DEF Next

(* A tool call starts at most one job, and an application one that the     *)
(* worker has not forgotten, whatever is lost, late or refused.            *)
THEOREM OneJob == Spec => []OneJobPerCall
<1>1. Inv => OneJobPerCall
  <2> SUFFICES ASSUME Inv PROVE OneJobPerCall
    OBVIOUS
  <2> DEFINE S == IF is = "app" THEN Known ELSE DOMAIN jobs
  <2>1. DOMAIN jobs = 1 .. Len(jobs) /\ Len(jobs) \in Nat /\ is \in {"tool", "app"}
    BY DEF Inv, ClientInv, Types
  <2>2. \A i, j \in S : i = j
    BY <2>1 DEF Inv, OnceInv
  <2>3. IsFiniteSet(S) /\ Cardinality(S) <= 1
    BY <2>2, AtMostOne
  <2> QED BY <2>3 DEF OneJobPerCall
<1> QED BY <1>1, InvInit, InvStep, PTL DEF Spec

(* A tool call that is over has left no unfinished job behind, unless its  *)
(* submission or its cancellation got no answer.                           *)
THEOREM NothingLeftBehind == Spec => []AbandonedIsCancelled
<1>1. Inv => AbandonedIsCancelled
  <2> SUFFICES ASSUME Inv, is = "tool", pc = "done", mine # 0, ~uncancelled, NEW j \in DOMAIN jobs PROVE ~Open(j)
    BY DEF AbandonedIsCancelled
  <2>1. ~Open(mine) /\ mine \in DOMAIN jobs
    BY DEF Inv, OverInv, ClientInv, Knows
  <2>2. DOMAIN jobs = 1 .. Len(jobs) /\ Len(jobs) <= 1 /\ Len(jobs) \in Nat
    BY DEF Inv, ClientInv, Types, OnceInv
  <2>3. j = mine
    BY <2>1, <2>2
  <2> QED BY <2>1, <2>3
<1> QED BY <1>1, InvInit, InvStep, PTL DEF Spec

(* The clock passes the end of no wait.                                    *)
LEMMA NoLater == ASSUME Inv, [Next]_vars PROVE now' \in Nat /\ (now' = now \/ Tick)
BY DEF Inv, ClientInv, Types, Tick, Next, Worker, Handle, HandleLate, End, Tool, App, vars, Begin, Submitted, Refused,
       NextOperation, TryAgain, SubmitFails, PollAnswered, PollFails, Interrupted, PollAgain, AppSubmit, AppSubmitted, AppWaits,
       AppCancels, AppAnswered, AppPollFails, AppPollAgain, Cancelled

LEMMA AppOnTime ==
  ASSUME Inv, Inv', is = "app", Waiting, [Next]_vars
  PROVE  /\ now' <= ends
         /\ pc' = "have" /\ outcome' = "wait_timeout" => now = ends
         /\ pc' = "have" /\ outcome' = "timeout" => now < ends
<1>1. now \in Nat /\ ends \in Nat /\ wake \in Nat /\ now <= ends
  BY WaitingApp DEF Waiting
<1>2. CASE Tick
  <2>1. UNCHANGED <<is, pc, ends, wake, req>> /\ now' \in Nat
    BY <1>2, NoLater DEF Tick, client
  <2>2. now' <= ends
    BY <2>1, WaitingApp DEF Waiting, Inv, ClientInv, Types, Asks, Asking, TimeInv, AppTimes
  <2> QED BY <2>1, <2>2 DEF Waiting
<1>3. CASE now' = now
  <2>1. ASSUME pc' = "have", outcome' \in {"wait_timeout", "timeout"}
        PROVE  AppAnswered \/ AppPollFails \/ AppPollAgain
    BY <2>1 DEF Waiting, Next, Tick, Worker, Handle, HandleLate, End, Tool, App, vars, client, Begin, Submitted, Refused,
       NextOperation, TryAgain, SubmitFails, PollAnswered, PollFails, Interrupted, PollAgain, AppSubmit, AppSubmitted, AppWaits,
       AppCancels, Cancelled, GivesUp, Answered
  <2>2. CASE AppAnswered
    <3>1. answer.is \in Statuses
      BY <2>2 DEF AppAnswered, Inv, ClientInv, Asks, Asking
    <3>2. pc' = "have" => outcome' \in Statuses
      BY <2>2, <3>1 DEF AppAnswered, Finishes, Sleep
    <3> QED BY <1>1, <1>3, <3>2 DEF Statuses
  <2>3. CASE AppPollFails
    <3>1. pc = "poll" /\ req.until <= ends
      BY <2>3 DEF AppPollFails, GivesUp, Inv, TimeInv, AppTimes
    <3>2. outcome' = "transport_error"
          \/ (req.until = now /\ outcome' = IF Capped THEN "wait_timeout" ELSE "timeout")
      BY <2>3 DEF AppPollFails, Finishes
    <3> QED BY <1>1, <1>3, <3>1, <3>2 DEF Capped
  <2>4. CASE AppPollAgain
    <3>1. (ends - now < 1 /\ outcome' = "wait_timeout") \/ pc' = "poll"
      BY <2>4 DEF AppPollAgain, NextPoll, Finishes
    <3> QED BY <1>1, <1>3, <3>1
  <2> QED BY <1>1, <1>3, <2>1, <2>2, <2>3, <2>4
<1> QED BY <1>2, <1>3, NoLater

LEMMA ToolOnTime ==
  ASSUME Inv, Inv', is = "tool", pc \notin {"idle", "done"}, [Next]_vars
  PROVE  now' <= due + Poll + 3 * Longest
<1> USE Constants
<1>1. now \in Nat /\ due \in Nat /\ wake \in Nat /\ left \in Nat
  BY DEF Inv, ClientInv, Types
<1>2. ASSUME NEW t \in Nat, /\ pc \in Asking => t <= req.until
                            /\ pc \in {"pause", "sleep"} => t <= wake
      PROVE  t <= due + Poll + 3 * Longest
  <2>1. pc \in Asking => req.until \in Nat /\ Latest \in Nat /\ req.until <= Latest
    BY Until DEF Inv
  <2>2. CASE pc \in Asking
    <3>1. Latest <= due + Poll + 3 * Longest
      BY <1>1, <2>1, <2>2 DEF Asking, Inv, TimeInv, ToolTimes
    <3> QED BY <1>1, <1>2, <2>1, <2>2, <3>1
  <2>3. CASE pc \in {"pause", "sleep"}
    <3>1. wake <= due + Poll + 3 * Longest
      BY <1>1, <2>3 DEF Inv, TimeInv, ToolTimes
    <3> QED BY <1>1, <1>2, <2>3, <3>1
  <2>4. pc \in Asking \cup {"pause", "sleep"}
    BY DEF Inv, ClientInv, Types
  <2> QED BY <2>2, <2>3, <2>4
<1>3. CASE Tick
  <2>1. UNCHANGED <<is, pc, wake, req>> /\ now' \in Nat
    BY <1>3, NoLater DEF Tick, client
  <2>2. (pc \in Asking => now' <= req.until) /\ (pc \in {"pause", "sleep"} => now' <= wake)
    BY <2>1 DEF Inv, ClientInv, Asks, Asking, TimeInv, ToolTimes
  <2> QED BY <1>2, <2>1, <2>2
<1>4. CASE now' = now
  <2>1. (pc \in Asking => now <= req.until) /\ (pc \in {"pause", "sleep"} => now <= wake)
    BY DEF Inv, ClientInv, Asks, Asking, TimeInv, ToolTimes
  <2> QED BY <1>1, <1>2, <1>4, <2>1
<1> QED BY <1>3, <1>4, NoLater

(* wait() ends at its deadline and says so only then; a tool call ends     *)
(* within its budget, a sleep and three requests, each as long as its      *)
(* operations may take.                                                    *)
THEOREM WaitsEndOnTime == Spec => CallsEndOnTime
<1>1. Inv /\ [Next]_vars => Inv'
  BY InvStep
<1>2. Inv /\ Inv' /\ [Next]_vars => [OnTime]_vars
  <2> SUFFICES ASSUME Inv, Inv', [Next]_vars PROVE OnTime
    OBVIOUS
  <2>1. is \in {"tool", "app"}
    BY DEF Inv, ClientInv, Types
  <2> QED BY <2>1, AppOnTime, ToolOnTime DEF OnTime
<1> QED BY <1>1, <1>2, InvInit, PTL DEF Spec, CallsEndOnTime
=============================================================================
