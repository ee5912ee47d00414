-------------------------- MODULE OwnerTurnsProofs --------------------------
(***************************************************************************)
(* OwnerTurns for any owners, jobs and children: the turns are taken.      *)
(***************************************************************************)
EXTENDS OwnerTurns, TLAPS

(* At first nothing is queued and nobody has been served.                  *)
LEMMA TurnsInit == Init => TurnsInv
<1> SUFFICES ASSUME Init PROVE TurnsInv
  OBVIOUS
<1> USE SizeAssumption DEF Init
<1>1. TypeOK /\ Placed
  BY DEF TypeOK, Placed, Jobs
<1>2. Later /\ TakesTurns /\ OldestFirst
  BY DEF Later, TakesTurns, OldestFirst
<1> QED BY <1>1, <1>2 DEF TurnsInv

(* A submission takes the next number, which is the youngest.              *)
LEMMA SubmitKeeps == ASSUME TurnsInv, NEW o \in Owners, Submit(o) PROVE TurnsInv'
<1> USE SizeAssumption DEF TurnsInv, Submit
<1>1. TypeOK'
  BY DEF TypeOK
<1>2. ASSUME NEW p \in Owners, OfO(p)' = {} PROVE OfO(p) = {}
  <2>1. \A i \in waiting : owner'[i] = owner[i] /\ i \in waiting'
    BY DEF TypeOK, Placed
  <2> QED BY <1>2, <2>1 DEF OfO
<1>5. Later' /\ TakesTurns'
  BY <1>2 DEF Later, TakesTurns
<1>3. Placed'
  BY DEF TypeOK, Placed, Jobs
<1>4. OldestFirst'
  BY DEF TypeOK, Placed, OldestFirst, Jobs
<1> QED BY <1>1, <1>3, <1>4, <1>5

(* Only an owner that has nothing left to wait for starts anew.            *)
LEMMA LeaveKeeps == ASSUME TurnsInv, NEW j \in Jobs, Leave(j) PROVE TurnsInv'
<1> USE DEF TurnsInv, Leave
<1>1. TypeOK' /\ \A o, p \in Owners : overtaken'[o][p] = IF OfO(o)' = {} THEN 0 ELSE overtaken[o][p]
  BY DEF TypeOK, Passed, OfO
<1>2. Later' /\ TakesTurns'
  <2> SUFFICES ASSUME NEW o \in Owners, NEW p \in Owners PROVE
        /\ served'[o] <= dispatched'
        /\ OfO(o)' = {} => overtaken'[o][p] = 0
        /\ overtaken'[o][p] > 0 => served'[p] > served'[o]
        /\ o # p => overtaken'[o][p] <= 1
    BY DEF Later, TakesTurns
  <2>1. overtaken'[o][p] \in {0, overtaken[o][p]} /\ (OfO(o)' = {} => overtaken'[o][p] = 0)
    BY <1>1
  <2> QED BY <2>1 DEF TypeOK, Later, TakesTurns
<1>3. Placed' /\ OldestFirst'
  BY DEF Placed, OldestFirst
<1> QED BY <1>1, <1>2, <1>3

(* A job put back had a child, so a younger one may be there before it.    *)
LEMMA PutBackKeeps == ASSUME TurnsInv, NEW j \in Jobs, PutBack(j) PROVE TurnsInv'
<1> USE DEF TurnsInv, PutBack
<1>1. TypeOK'
  BY DEF TypeOK
<1>2. Later' /\ TakesTurns'
  BY DEF TypeOK, Later, TakesTurns, OfO
<1>3. Placed' /\ OldestFirst'
  BY DEF Placed, OldestFirst
<1> QED BY <1>1, <1>2, <1>3

(* Who gets a child was served before every owner that it overtakes, so it *)
(* has not overtaken them yet; and it is now the last one served.          *)
LEMMA AttachKeeps == ASSUME TurnsInv, NEW j \in Jobs, Attach(j) PROVE TurnsInv'
<1> DEFINE o == owner[j]
<1> USE DEF TurnsInv
<1>1. o \in Owners /\ j \in waiting
  BY DEF Attach, TypeOK, Placed
<1>2. TypeOK'
  BY <1>1 DEF TypeOK, Attach
<1>3. ASSUME NEW q \in Owners, NEW p \in Owners PROVE
        /\ q = o \/ OfO(q) = {} => overtaken'[q][p] = 0
        /\ q # o /\ OfO(q) # {} /\ p = o => overtaken'[q][p] = overtaken[q][p] + 1
        /\ q # o /\ OfO(q) # {} /\ p # o => overtaken'[q][p] = overtaken[q][p]
  BY DEF Attach
<1>4. ASSUME NEW q \in Owners, OfO(q) # {} PROVE served[o] <= served[q]
  <2>1. PICK i \in waiting : owner[i] = q
    BY <1>4 DEF OfO
  <2> QED BY <1>1, <2>1 DEF Attach, Turn, TypeOK
<1>5. ASSUME NEW q \in Owners, q # o, OfO(q) # {} PROVE overtaken[q][o] = 0
  BY <1>1, <1>4, <1>5 DEF Later, TypeOK
<1>6. \A q \in Owners : served'[q] = IF q = o THEN dispatched + 1 ELSE served[q]
  BY <1>1 DEF Attach, TypeOK
<1>8. TakesTurns'
  <2> SUFFICES ASSUME NEW q \in Owners, NEW p \in Owners, q # p PROVE overtaken'[q][p] <= 1
    BY DEF TakesTurns
  <2>1. CASE q = o \/ OfO(q) = {}
    BY <1>3, <2>1
  <2>2. CASE q # o /\ OfO(q) # {} /\ p = o
    BY <1>3, <1>5, <2>2
  <2>3. CASE q # o /\ OfO(q) # {} /\ p # o
    BY <1>3, <2>3 DEF TakesTurns
  <2> QED BY <2>1, <2>2, <2>3
<1>9. Later'
  <2> SUFFICES ASSUME NEW q \in Owners, NEW p \in Owners PROVE
        /\ served'[q] <= dispatched'
        /\ OfO(q)' = {} => overtaken'[q][p] = 0
        /\ overtaken'[q][p] > 0 => served'[p] > served'[q]
    BY DEF Later
  <2>1. dispatched' = dispatched + 1 /\ served[q] <= dispatched /\ served[p] <= dispatched
    BY DEF Attach, Later
  <2>2. served'[q] <= dispatched'
    BY <1>6, <2>1 DEF TypeOK
  <2>3. overtaken'[q][p] > 0 => served'[p] > served'[q]
    BY <1>3, <1>6, <2>1 DEF TypeOK, Later
  <2>4. OfO(q)' = {} => overtaken'[q][p] = 0
    <3>1. CASE q = o
      BY <3>1, <1>3
    <3>2. CASE q # o
      BY <3>2, <1>3 DEF OfO, Attach
    <3> QED BY <3>1, <3>2
  <2> QED BY <2>2, <2>3, <2>4
<1>10. Placed'
  BY <1>1, SizeAssumption DEF Placed, Attach, TypeOK
<1>11. OldestFirst'
  <2> SUFFICES ASSUME NEW i \in Jobs, NEW k \in Jobs, i < k, owner[i] = owner[k],
                      i \in waiting', k \in given' PROVE i \in given'
    BY DEF OldestFirst, Attach
  <2>1. i \in waiting /\ (k \in given \/ k = j) /\ given \subseteq given'
    BY DEF Attach
  <2>2. CASE k \in given
    BY <2>1, <2>2 DEF OldestFirst
  <2>3. CASE k = j
    BY <2>1, <2>3, <1>1 DEF Attach, Turn, TypeOK, Jobs
  <2> QED BY <2>1, <2>2, <2>3
<1> QED BY <1>2, <1>8, <1>9, <1>10, <1>11

(* The other operations leave the queue and the turns alone.               *)
LEMMA TurnsStep == TurnsInv /\ [Next]_vars => TurnsInv'
<1> SUFFICES ASSUME TurnsInv, [Next]_vars PROVE TurnsInv'
  OBVIOUS
<1>1. CASE UNCHANGED vars
  BY <1>1 DEF vars, queue, TurnsInv, TypeOK, Later, TakesTurns, Placed, OldestFirst, OfO
<1>2. ASSUME NEW j \in Jobs, NEW stays \in BOOLEAN, Finish(j, stays) PROVE TurnsInv'
  BY <1>2 DEF Finish, TurnsInv, TypeOK, Later, TakesTurns, Placed, OldestFirst, OfO
<1>3. CASE Ready \/ Gone
  BY <1>3 DEF Ready, Gone, queue, TurnsInv, TypeOK, Later, TakesTurns, Placed, OldestFirst, OfO
<1>4. CASE Begin \/ Return
  <2>1. locked' \in BOOLEAN /\ UNCHANGED <<queue, idle, served, dispatched, overtaken>>
    BY <1>4 DEF Begin, Return
  <2> QED BY <2>1 DEF queue, TurnsInv, TypeOK, Later, TakesTurns, Placed, OldestFirst, OfO
<1>5. ASSUME NEW o \in Owners, Submit(o) PROVE TurnsInv'
  BY <1>5, SubmitKeeps
<1>6. ASSUME NEW j \in Jobs, Leave(j) \/ Attach(j) \/ PutBack(j) PROVE TurnsInv'
  BY <1>6, LeaveKeeps, AttachKeeps, PutBackKeeps
<1>7. CASE Next
  <2>1. \/ \E o \in Owners : Submit(o)
        \/ \E j \in Jobs : Leave(j) \/ Attach(j) \/ PutBack(j)
        \/ \E j \in Jobs : \E stays \in BOOLEAN : Finish(j, stays)
        \/ Ready \/ Gone \/ Begin \/ Return
    BY <1>7 DEF Next
  <2> QED BY <2>1, <1>2, <1>3, <1>4, <1>5, <1>6
<1> QED BY <1>1, <1>7

(* The inductive invariant holds in every behaviour of _dispatch.          *)
THEOREM TurnsAlways == Spec => []TurnsInv
BY TurnsInit, TurnsStep, PTL DEF Spec

(* No owner's queue takes every child: an owner with a job waiting sees    *)
(* each other owner served at most once before it is.                      *)
THEOREM OwnersTakeTurns == Spec => []TakesTurns
<1>1. TurnsInv => TakesTurns
  BY DEF TurnsInv
<1> QED BY TurnsAlways, <1>1, PTL

(* Within an owner, a job reaches its first child in submission order.     *)
THEOREM OwnersOldestFirst == Spec => []OldestFirst
<1>1. TurnsInv => OldestFirst
  BY DEF TurnsInv
<1> QED BY TurnsAlways, <1>1, PTL
=============================================================================
