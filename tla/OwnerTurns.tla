----------------------------- MODULE OwnerTurns -----------------------------
(***************************************************************************)
(* _dispatch of worker/ai_bridge/jobs.py: whose job an idle child gets.    *)
(* Jobs are numbered as submitted, which is the order of _jobs: a job that *)
(* is put back in the queue keeps its place.  The pass is one action per   *)
(* turn of its loop, with the store's lock held throughout.                *)
(***************************************************************************)
EXTENDS Integers, FiniteSets

CONSTANTS
  Owners,    \* the token names
  NoOwner,   \* of a job not submitted yet
  MaxJobs,   \* jobs submitted (a bound of the model)
  Children   \* concurrency

ASSUME SizeAssumption == MaxJobs \in Nat /\ Children \in Nat /\ NoOwner \notin Owners

VARIABLES
  owner,                \* _owner of a job
  waiting, running,     \* queued and in no child; in a child
  retried,              \* _retried
  idle,                 \* ready children without a job
  served, dispatched,   \* _served, 0 for an owner not in it, and _dispatched
  locked                \* whether the coordinator is in the loop of _dispatch

(* For the properties: the jobs a child was ever given; how many jobs of   *)
(* another owner were, since this one has been waiting or was last served. *)
VARIABLES given, overtaken

queue == <<owner, waiting, running, retried, given>>
vars  == <<queue, idle, served, dispatched, locked, overtaken>>

Jobs     == 1..MaxJobs
OfO(o)   == {j \in waiting : owner[j] = o}
Passed(W) == [o \in Owners |-> [p \in Owners |->
                IF \E j \in W : owner[j] = o THEN overtaken[o][p] ELSE 0]]

Init ==
  /\ owner = [j \in Jobs |-> NoOwner]
  /\ waiting = {} /\ running = {} /\ retried = {} /\ given = {}
  /\ idle = 0 /\ served = [o \in Owners |-> 0] /\ dispatched = 0
  /\ locked = FALSE
  /\ overtaken = [o \in Owners |-> [p \in Owners |-> 0]]

Submit(o) ==
  /\ ~locked
  /\ \E j \in Jobs :
       /\ owner[j] = NoOwner /\ \A i \in 1..(j - 1) : owner[i] # NoOwner
       /\ owner' = [owner EXCEPT ![j] = o] /\ waiting' = waiting \cup {j}
  /\ UNCHANGED <<running, retried, given, idle, served, dispatched, locked, overtaken>>

(* A queued job is cancelled, overdue, or refused by a drain.              *)
Leave(j) ==
  /\ ~locked /\ j \in waiting /\ waiting' = waiting \ {j} /\ overtaken' = Passed(waiting')
  /\ UNCHANGED <<owner, running, retried, given, idle, served, dispatched, locked>>

(* A child says it is ready, or one without a job goes.                    *)
Ready ==
  /\ ~locked /\ idle + Cardinality(running) < Children /\ idle' = idle + 1
  /\ UNCHANGED <<queue, served, dispatched, locked, overtaken>>
Gone ==
  /\ ~locked /\ idle > 0 /\ idle' = idle - 1
  /\ UNCHANGED <<queue, served, dispatched, locked, overtaken>>

(* A child ends its job, and stays or, after max_jobs, goes.               *)
Finish(j, stays) ==
  /\ ~locked /\ j \in running /\ running' = running \ {j}
  /\ idle' = IF stays THEN idle + 1 ELSE idle
  /\ UNCHANGED <<owner, waiting, retried, given, served, dispatched, locked, overtaken>>

(* _retire: a child goes before it has said that it started its job.       *)
PutBack(j) ==
  /\ ~locked /\ j \in running \ retried /\ running' = running \ {j}
  /\ retried' = retried \cup {j} /\ waiting' = waiting \cup {j}
  /\ UNCHANGED <<owner, given, idle, served, dispatched, locked, overtaken>>
-----------------------------------------------------------------------------
Begin ==
  /\ ~locked /\ waiting # {} /\ locked' = TRUE
  /\ UNCHANGED <<queue, idle, served, dispatched, overtaken>>

(* The owner served longest ago, its oldest job first.  min() over queues  *)
(* keeps the first of equals in the order of the dict, which is the owner  *)
(* with the oldest job.  Mutant: the oldest job of all.                    *)
TurnFifo(j) == \A i \in waiting : j <= i
Turn(j) ==
  \A i \in waiting : LET o == owner[j] p == owner[i] IN served[o] < served[p] \/ (served[o] = served[p] /\ j <= i)

(* One turn of the loop; _attach.                                          *)
Attach(j) ==
  LET o == owner[j] IN
  /\ locked /\ idle > 0 /\ j \in waiting /\ Turn(j)
  /\ waiting' = waiting \ {j} /\ running' = running \cup {j} /\ given' = given \cup {j}
  /\ idle' = idle - 1
  /\ dispatched' = dispatched + 1 /\ served' = [served EXCEPT ![o] = dispatched + 1]
  /\ overtaken' = [q \in Owners |-> [p \in Owners |->
       IF q = o \/ OfO(q) = {} THEN 0 ELSE IF p = o THEN overtaken[q][p] + 1 ELSE overtaken[q][p]]]
  /\ UNCHANGED <<owner, retried, locked>>

Return ==
  /\ locked /\ (idle = 0 \/ waiting = {}) /\ locked' = FALSE
  /\ UNCHANGED <<queue, idle, served, dispatched, overtaken>>

Next ==
  \/ \E o \in Owners : Submit(o)
  \/ \E j \in Jobs : Leave(j) \/ Attach(j) \/ PutBack(j) \/ Finish(j, TRUE) \/ Finish(j, FALSE)
  \/ Ready \/ Gone \/ Begin \/ Return

Spec == Init /\ [][Next]_vars
-----------------------------------------------------------------------------
TypeOK ==
  /\ owner \in [Jobs -> Owners \cup {NoOwner}]
  /\ waiting \in SUBSET Jobs /\ running \in SUBSET Jobs
  /\ retried \in SUBSET Jobs /\ given \in SUBSET Jobs
  /\ idle \in Nat /\ served \in [Owners -> Nat] /\ dispatched \in Nat /\ locked \in BOOLEAN
  /\ overtaken \in [Owners -> [Owners -> Nat]]

(* "so one owner's queue cannot take every child ahead of another owner's  *)
(* job": while an owner has a job waiting, each other owner gets at most   *)
(* one child before it does, whatever leaves, dies or is put back.         *)
TakesTurns == \A o, p \in Owners : o # p => overtaken[o][p] <= 1

(* The jobs of one owner reach a child in the order of their submission;   *)
(* only a job put back can be found waiting behind a younger one.          *)
OldestFirst ==
  \A i, j \in Jobs : i < j /\ owner[i] = owner[j] /\ i \in waiting /\ j \in given => i \in given
-----------------------------------------------------------------------------
(* The inductive invariant: who has overtaken was served later.            *)
Later ==
  \A o, p \in Owners :
    /\ served[o] <= dispatched
    /\ OfO(o) = {} => overtaken[o][p] = 0
    /\ overtaken[o][p] > 0 => served[p] > served[o]

(* Submissions are numbered without gaps, and nothing is where it cannot   *)
(* be.                                                                     *)
Placed ==
  /\ \A i, j \in Jobs : i < j /\ owner[i] = NoOwner => owner[j] = NoOwner
  /\ waiting \cup running \cup given \subseteq {j \in Jobs : owner[j] # NoOwner}
  /\ running \subseteq given

TurnsInv == TypeOK /\ Later /\ TakesTurns /\ Placed /\ OldestFirst
=============================================================================
