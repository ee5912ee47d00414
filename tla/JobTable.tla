------------------------------ MODULE JobTable ------------------------------
(***************************************************************************)
(* The job table of worker/ai_bridge/jobs.py: which jobs are known, for    *)
(* how long, under which idempotency key, and what the SQLite file says    *)
(* about them when a write fails, the process dies or the wall clock is    *)
(* set.  The pool that runs the jobs is JobPool; here a job starts and     *)
(* ends, whatever makes it.                                                *)
(*                                                                         *)
(* Every operation holds the store's lock throughout, so an action is a    *)
(* whole operation.  Each of its transactions may fail by itself; a crash  *)
(* between two of them is a crash after an action that made only the       *)
(* first, since memory is lost with the process.                           *)
(***************************************************************************)
EXTENDS Integers, FiniteSets

CONSTANTS
  Ids, NoId,       \* job ids, each given to one submission only; no job
  Owners, Keys,    \* token names, idempotency keys
  NoKey,           \* None, for the key of a submission without one
  NoTime,          \* None, for a finish time
  Capacity, ResultCapacity, OwnerCapacity,   \* Settings
  Retention,       \* retention_seconds, in ticks of the clock
  MaxTime,         \* the clock stops here (a bound of the model)
  MaxSkew          \* how far the wall clock is ever ahead of the monotonic one

ASSUME LimitsAssumption ==
  {Capacity, ResultCapacity, OwnerCapacity, Retention} \subseteq Nat \ {0}
ASSUME ClockAssumption == MaxTime \in Nat /\ MaxSkew \in Nat /\ NoTime \notin Int
ASSUME NameAssumption == NoId \notin Ids /\ NoKey \notin Keys /\ IsFiniteSet(Ids)

VARIABLES
  phase,        \* "down", "up" or, after close(), "closed"
  status,       \* what _jobs says of a job, "none" when it is not in _jobs
  finished,     \* its _finished, on the monotonic clock
  tag,          \* <<owner, idempotency key>>, in _jobs and in its row
  keys,         \* _keys: the job an owner's key names
  row, stamp,   \* status and finished_at of its row; "none" without a row
  now,          \* time.monotonic()
  skew          \* time.time() - time.monotonic()

(* What a caller has seen of each job, for the properties: when it was     *)
(* submitted, how and when it ended; whether the write of that end failed; *)
(* whether it has expired while the file was open.                         *)
VARIABLES submitted, outcome, ended, missed, forgotten

file   == <<row, stamp>>
memory == <<status, finished, keys>>
clock  == <<now, skew>>
seen   == <<submitted, outcome, ended, missed, forgotten>>
vars   == <<phase, tag, memory, file, clock, seen>>

Tags       == Owners \X (Keys \cup {NoKey})
Unfinished == {"queued", "running"}
Terminal   == {"ended", "cancelled", "service_restarted"}
Known      == {j \in Ids : status[j] # "none"}
Fresh      == {j \in Ids : submitted[j] = NoTime}
wall       == now + skew

Init ==
  /\ phase = "up"
  /\ status = [j \in Ids |-> "none"] /\ finished = [j \in Ids |-> NoTime]
  /\ tag = [j \in Ids |-> NoKey]
  /\ keys = [t \in Owners \X Keys |-> NoId]
  /\ row = [j \in Ids |-> "none"] /\ stamp = [j \in Ids |-> NoTime]
  /\ now = 0 /\ skew \in 0..MaxSkew
  /\ submitted = [j \in Ids |-> NoTime]
  /\ outcome = [j \in Ids |-> "none"] /\ ended = [j \in Ids |-> NoTime]
  /\ missed = {} /\ forgotten = {}
-----------------------------------------------------------------------------
(* _expire: X leaves memory, and in one transaction the file.              *)
(* Mutant: one tick too early.                                             *)
ExpiredEarly == {j \in Known : finished[j] # NoTime /\ now - finished[j] + 1 >= Retention}
Expired == {j \in Known : finished[j] # NoTime /\ now - finished[j] >= Retention}

(* Mutant of KeysWithout: the keys of expired jobs stay.                   *)
AllKeys(X) == keys
KeysWithout(X)     == [t \in Owners \X Keys |-> IF \E j \in X : tag[j] = t THEN NoId ELSE keys[t]]
Kept(f, X, none)   == [j \in Ids |-> IF j \in X THEN none ELSE f[j]]
Deleted(X, worked) == IF worked /\ phase = "up" THEN X ELSE {}

(* The part of every handler that _expire is, when nothing else changes:   *)
(* get(), a repeated or refused submission, cancel() of a job that ended,  *)
(* a pass of the coordinator that ends no job.                             *)
Expire(worked) ==
  /\ phase \in {"up", "closed"}
  /\ status' = Kept(status, Expired, "none") /\ finished' = Kept(finished, Expired, NoTime)
  /\ keys' = KeysWithout(Expired)
  /\ row' = Kept(row, Deleted(Expired, worked), "none")
  /\ stamp' = Kept(stamp, Deleted(Expired, worked), NoTime)
  /\ forgotten' = IF phase = "up" THEN forgotten \cup Expired ELSE forgotten
  /\ UNCHANGED <<phase, tag, clock, submitted, outcome, ended, missed>>

(* The limits of _accept, once the expired jobs are gone.                  *)
Holds(o) == {j \in Known \ Expired : tag[j][1] = o}
Active   == {j \in Known \ Expired : status[j] \in Unfinished}
Retained == (Known \ Expired) \ Active
(* Mutant of Admits: however many results are retained.                    *)
AdmitsPastResults(o) ==
  /\ Cardinality(Holds(o)) < OwnerCapacity
  /\ Cardinality(Active) < Capacity
Admits(o) ==
  /\ Cardinality(Holds(o)) < OwnerCapacity
  /\ Cardinality(Active) < Capacity
  /\ Cardinality(Retained) < ResultCapacity

(* INSERT OR REPLACE also takes the row that holds the same owner and key; *)
(* the unique index holds no key-less row against another.  Mutant: it     *)
(* does.                                                                   *)
ReplacedKeyless(o, k) == {j \in Ids : row[j] # "none" /\ tag[j] = <<o, k>>}
Replaced(o, k) == {j \in Ids : row[j] # "none" /\ tag[j] = <<o, k>> /\ k # NoKey}

Submit(j, o, k, worked) ==
  LET gone == Deleted(Expired, worked) \cup Replaced(o, k) IN
  /\ phase = "up" /\ j \in Fresh
  /\ k # NoKey => KeysWithout(Expired)[<<o, k>>] = NoId
  /\ Admits(o)
  /\ tag' = [tag EXCEPT ![j] = <<o, k>>]
  /\ status' = [Kept(status, Expired, "none") EXCEPT ![j] = "queued"]
  /\ finished' = Kept(finished, Expired, NoTime)
  /\ keys' = [t \in Owners \X Keys |-> IF t = <<o, k>> THEN j ELSE KeysWithout(Expired)[t]]
  /\ row' = [Kept(row, gone, "none") EXCEPT ![j] = "queued"]
  /\ stamp' = Kept(stamp, gone, NoTime)
  /\ submitted' = [submitted EXCEPT ![j] = now]
  /\ forgotten' = forgotten \cup Expired
  /\ UNCHANGED <<phase, clock, outcome, ended, missed>>

(* A child says it has started; "not written through".                     *)
Start(j) ==
  /\ phase = "up" /\ status[j] = "queued"
  /\ status' = [status EXCEPT ![j] = "running"]
  /\ UNCHANGED <<phase, tag, finished, keys, file, clock, seen>>

(* _finish, in cancel() and in the coordinator's pass after _expire has    *)
(* taken X, in drain() and after a failed send without it.                 *)
End(j, X, worked, written) ==
  /\ phase = "up" /\ status[j] \in Unfinished /\ X \in {Expired, {}}
  /\ status' = [Kept(status, X, "none") EXCEPT ![j] = "ended"]
  /\ finished' = [Kept(finished, X, NoTime) EXCEPT ![j] = now]
  /\ keys' = KeysWithout(X)
  /\ LET updated == {i \in {j} : written /\ row[i] # "none"} IN
       /\ row' = [i \in Ids |-> IF i \in updated THEN "ended" ELSE Kept(row, Deleted(X, worked), "none")[i]]
       /\ stamp' = [i \in Ids |-> IF i \in updated THEN wall ELSE Kept(stamp, Deleted(X, worked), NoTime)[i]]
  /\ outcome' = [outcome EXCEPT ![j] = "ended"] /\ ended' = [ended EXCEPT ![j] = now]
  /\ missed' = IF written THEN missed ELSE missed \cup {j}
  /\ forgotten' = forgotten \cup X
  /\ UNCHANGED <<phase, tag, clock, submitted>>

(* close() lets go of the file first, so the ends it makes are not in it.  *)
Close ==
  LET open == {j \in Ids : status[j] \in Unfinished} IN
  /\ phase = "up" /\ phase' = "closed"
  /\ status' = Kept(status, open, "cancelled") /\ finished' = Kept(finished, open, now)
  /\ outcome' = Kept(outcome, open, "cancelled") /\ ended' = Kept(ended, open, now)
  /\ UNCHANGED <<tag, keys, file, clock, submitted, missed, forgotten>>

(* The process exits, or dies at any moment.                               *)
Exit ==
  /\ phase \in {"up", "closed"} /\ phase' = "down"
  /\ status' = [j \in Ids |-> "none"] /\ finished' = [j \in Ids |-> NoTime]
  /\ keys' = [t \in Owners \X Keys |-> NoId]
  /\ UNCHANGED <<tag, file, clock, seen>>

(* _open_db: what is unfinished failed, what is too old goes, the rest is  *)
(* read back.  An error leaves the file as it was and ends the process.    *)
(* Mutants: every row fails; nothing is too old; what is unfinished goes   *)
(* with what is too old; an age may be negative; every age starts again.   *)
CutAll == {j \in Ids : row[j] # "none"}
NoneOld == {}
OldOrCut == {j \in Ids : row[j] \in Unfinished \/ (row[j] # "none" /\ stamp[j] <= wall - Retention)}
AnyAge(at) == wall - at
NoAge(at) == 0

Cut     == {j \in Ids : row[j] \in Unfinished}
Stamped == Kept(stamp, Cut, wall)
Old     == {j \in Ids : row[j] # "none" /\ Stamped[j] <= wall - Retention}
Age(at) == IF at <= wall THEN wall - at ELSE 0

Open ==
  LET first   == {j \in Cut : outcome[j] = "none"}
      Rows(t) == {j \in Ids : row'[j] # "none" /\ tag[j] = t}
  IN
  /\ phase = "down" /\ phase' = "up"
  /\ row' = Kept(Kept(row, Cut, "service_restarted"), Old, "none")
  /\ stamp' = Kept(Stamped, Old, NoTime)
  /\ status' = row'
  /\ finished' = [j \in Ids |-> IF row'[j] = "none" THEN NoTime ELSE now - Age(Stamped[j])]
  /\ keys' \in [Owners \X Keys -> Ids \cup {NoId}]
  /\ \A t \in Owners \X Keys : IF Rows(t) = {} THEN keys'[t] = NoId ELSE keys'[t] \in Rows(t)
  /\ outcome' = Kept(outcome, first, "service_restarted") /\ ended' = Kept(ended, first, now)
  /\ UNCHANGED <<tag, clock, submitted, missed, forgotten>>

Tick     == now < MaxTime /\ now' = now + 1 /\ UNCHANGED <<phase, tag, memory, file, skew, seen>>
SetClock == skew' \in 0..MaxSkew /\ UNCHANGED <<phase, tag, memory, file, now, seen>>

Operations(worked) ==
  \/ Expire(worked)
  \/ \E j \in Ids, o \in Owners, k \in Keys \cup {NoKey} : Submit(j, o, k, worked)
  \/ \E j \in Ids, X \in SUBSET Ids, written \in BOOLEAN : End(j, X, worked, written)

Next ==
  \/ \E worked \in BOOLEAN : Operations(worked)
  \/ \E j \in Ids : Start(j)
  \/ Close \/ Exit \/ Open \/ Tick \/ SetClock

Spec == Init /\ [][Next]_vars
-----------------------------------------------------------------------------
TypeOK ==
  /\ phase \in {"down", "up", "closed"}
  /\ status \in [Ids -> {"none"} \cup Unfinished \cup Terminal]
  /\ finished \in [Ids -> Int \cup {NoTime}]
  /\ tag \in [Ids -> Tags \cup {NoKey}]
  /\ keys \in [Owners \X Keys -> Ids \cup {NoId}]
  /\ row \in [Ids -> {"none", "queued"} \cup Terminal]
  /\ stamp \in [Ids -> Int \cup {NoTime}]
  /\ now \in Nat /\ skew \in 0..MaxSkew
  /\ submitted \in [Ids -> Nat \cup {NoTime}]
  /\ outcome \in [Ids -> {"none"} \cup Terminal]
  /\ ended \in [Ids -> Nat \cup {NoTime}]
  /\ missed \in SUBSET Ids /\ forgotten \in SUBSET Ids

(* A key names exactly the job of that owner and key that is known, after  *)
(* expiry, restarts and deletes that failed as well.                       *)
NamesAgree ==
  \A t \in Owners \X Keys, j \in Ids : keys[t] = j <=> j \in Known /\ tag[j] = t

(* Every known job has its row: no submission ever replaces the row of a   *)
(* job still known.  The row says how the job ended, or, if that write     *)
(* failed or close() made the end, that it has not.                        *)
RowsCoverMemory ==
  \A j \in Known :
    \/ status[j] \in Terminal /\ row[j] = status[j]
    \/ row[j] = "queued" /\ (status[j] \in Unfinished \/ j \in missed \/ phase = "closed")

(* A caller is told another end only of a job whose end the file missed,   *)
(* and then it is told service_restarted.                                  *)
EndsAreKept ==
  \A j \in Known : outcome[j] # "none" =>
    \/ status[j] = outcome[j]
    \/ status[j] = "service_restarted" /\ (j \in missed \/ outcome[j] = "cancelled")

(* With a wall clock that is never set, a job is known for its retention   *)
(* after its end, restarts included, and counts its age exactly.           *)
KeptForRetention ==
  \A j \in Ids : phase # "down" /\ ended[j] # NoTime =>
    /\ now - ended[j] < Retention => j \in Known
    /\ j \in Known /\ status[j] = outcome[j] => finished[j] = ended[j]

(* However the wall clock is set, no job counts as finished in the future, *)
(* so each goes within one retention of its end or of the last start.      *)
NotFromTheFuture == \A j \in Known : finished[j] # NoTime => finished[j] <= now

(* A key starts a second job only when the first has been over for its     *)
(* retention: resubmitting after any failure cannot run the work twice.    *)
Over(i, t) == ended[i] # NoTime /\ t >= ended[i] + Retention
NoDuplicateWork ==
  \A i, j \in Ids \ Fresh : i # j /\ tag[i] = tag[j] /\ tag[i][2] # NoKey =>
    Over(i, submitted[j]) \/ Over(j, submitted[i])

(* What has expired comes back only if the file missed its end.            *)
ForgottenStays == \A j \in forgotten : j \in Known => j \in missed

(* Memory is bounded by the sum of the capacities, and an owner by its     *)
(* own, leaving aside jobs whose ends could not be written.                *)
WithinLimits ==
  /\ Cardinality({j \in Known : status[j] \in Unfinished}) <= Capacity
  /\ Cardinality(Known \ missed) < Capacity + ResultCapacity
  /\ \A o \in Owners : Cardinality({j \in Known \ missed : tag[j][1] = o}) <= OwnerCapacity
-----------------------------------------------------------------------------
(* The inductive invariant.  An id not given yet is nowhere.               *)
Unborn ==
  \A j \in Ids : IF j \in Fresh
    THEN status[j] = "none" /\ row[j] = "none" /\ outcome[j] = "none" /\ j \notin missed \cup forgotten
    ELSE tag[j] \in Tags

(* What has ended has a time, and only that.                               *)
Dated ==
  \A j \in Ids :
    /\ finished[j] = NoTime <=> status[j] \notin Terminal
    /\ stamp[j] = NoTime <=> row[j] \notin Terminal
    /\ ended[j] = NoTime <=> outcome[j] = "none"
    /\ j \in Known => (outcome[j] = "none" <=> status[j] \in Unfinished)
    /\ row[j] \in Terminal => outcome[j] # "none"

(* What the unique index says of the rows, those of forgotten jobs too.    *)
UniqueRows ==
  \A i, j \in Ids : row[i] # "none" /\ row[j] # "none" /\ tag[i] = tag[j] /\ tag[i] \in Owners \X Keys => i = j

(* The row of a job that is over agrees with what callers were told, as    *)
(* far as EndsAreKept asks; a row that says it is not over missed its end. *)
RowsTruthful ==
  \A j \in Ids :
    /\ row[j] \in Terminal => \/ row[j] = outcome[j]
                              \/ row[j] = "service_restarted" /\ (j \in missed \/ outcome[j] = "cancelled")
    /\ row[j] = "queued" => outcome[j] \in {"none", "cancelled"} \/ (outcome[j] = "ended" /\ j \in missed)

(* On one steady clock, a time in the table or the file is never before    *)
(* the end a caller saw, and is that end unless the file missed it; a job  *)
(* that is gone has been over for its retention.                           *)
LongOver(j) == ended[j] # NoTime /\ now - ended[j] >= Retention
Steadily(j) ==
  /\ finished[j] # NoTime => ended[j] <= finished[j] /\ (status[j] = outcome[j] => finished[j] = ended[j])
  /\ stamp[j] # NoTime => ended[j] <= stamp[j] /\ (row[j] = outcome[j] => stamp[j] = ended[j])
  /\ ended[j] # NoTime => ended[j] <= now
  /\ j \notin Fresh /\ row[j] = "none" => LongOver(j)
  /\ j \notin Fresh /\ phase # "down" /\ j \notin Known => LongOver(j)

Steady == \A j \in Ids : Steadily(j)

(* On one steady clock, the file dates an end as memory does; what expired *)
(* is too old for the next open, unless the file missed its end.           *)
OnRecord(j) ==
  /\ stamp[j] # NoTime => stamp[j] <= now /\ (j \in Known => finished[j] = stamp[j])
  /\ j \in forgotten \ missed => j \notin Known /\ row[j] # "queued"
  /\ j \in forgotten \ missed /\ stamp[j] # NoTime => now - stamp[j] >= Retention

Recorded == \A j \in Ids : OnRecord(j)

Core == TypeOK /\ Unborn /\ Dated /\ UniqueRows /\ NamesAgree /\ RowsCoverMemory /\ (phase = "down" => Known = {})

TableInv ==
  /\ Core /\ RowsTruthful /\ EndsAreKept /\ NotFromTheFuture
  /\ MaxSkew = 0 => Steady /\ NoDuplicateWork /\ Recorded
=============================================================================
