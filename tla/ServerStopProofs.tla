-------------------------- MODULE ServerStopProofs --------------------------
(***************************************************************************)
(* ServerStop for any number of signals and any length of the log's queue. *)
(***************************************************************************)
EXTENDS ServerStop, FiniteSetTheorems, SequenceTheorems, TLAPS

Closed == {"jobs", "stop", "log", "end", "join", "exited"}
Quiet  == {"end", "join", "exited"}
Went   == {"starting", "serving", "closing", "write"} \cup Closed
Says   == [running : BOOLEAN, interrupted : BOOLEAN]
Early  == {"none", "drain", "loop", "count", "some", "none left"}
Past   == {"publish", "write", "shutdown", "done"}
Began(d) == drainer[d] # "none"

Places == main \in Went /\ drainer \in [Drainers -> Early \cup Past] /\ emitter \in {"request", End}
Spoken ==
  /\ interrupted \in BOOLEAN
  /\ drainLine \in {NoLine} \cup Says /\ said \in {NoLine} \cup Says
Queues == offered \in Seq(Lines) /\ lines \in Seq(Lines \cup {End})
Stack  == frames \in Seq({"checked", "set"})

(* What has been closed says how far main() is.                            *)
Phases ==
  /\ drainClosed <=> main \in Closed
  /\ active <=> main \notin Quiet
  /\ stopped <=> main \in Quiet

(* Serving ends for a signal only, and a signal starts a drain thread      *)
(* before main() goes on.                                                  *)
Signals ==
  /\ asked => signalled
  /\ \A d \in Drainers : Began(d) => signalled
  /\ \A i \in DOMAIN frames : frames[i] = "set" => signalled
  /\ signalled => (frames # <<>> /\ Top = "set") \/ \E d \in Drainers : Began(d)
  /\ main \notin {"starting", "serving"} => signalled

Base == Places /\ Spoken /\ Queues /\ Stack /\ Phases /\ Signals
-----------------------------------------------------------------------------
LEMMA Names == "drain" \in Lines /\ "stop" \in Lines /\ "request" \in Lines /\ End \notin Lines
               /\ QueueLines \in Nat
BY LineAssumption, LogAssumption

LEMMA BaseInit == Init => Base
<1> SUFFICES ASSUME Init PROVE Base OBVIOUS
<1>1. Places BY DEF Init, LogInit, Places, Went, Early
<1>4. Spoken BY DEF Init, Spoken
<1>5. Queues /\ Stack BY DEF Init, LogInit, Queues, Stack
<1>2. Phases BY DEF Init, LogInit, Phases, Closed, Quiet
<1>3. Signals BY DEF Init, Signals, Began
<1> QED BY <1>1, <1>2, <1>3, <1>4, <1>5 DEF Base

(* What putting a line, or offering one, does to the sequences.            *)
LEMMA PutQueue ==
  ASSUME Queues, NEW l \in Lines, Put(l) PROVE lines' \in Seq(Lines \cup {End})
BY DEF Queues, Put

LEMMA GetQueue ==
  ASSUME Queues, Writer PROVE Queues'
<1>1. offered' = offered /\ (lines' = lines \/ (lines # <<>> /\ lines' = Tail(lines)))
  BY DEF Writer, Get, Write
<1>2. lines # <<>> => Tail(lines) \in Seq(Lines \cup {End}) BY HeadTailProperties DEF Queues
<1> QED BY <1>1, <1>2 DEF Queues

LEMMA EventQueue ==
  ASSUME Queues, NEW l \in Lines, Event(l) PROVE Queues'
<1>1. CASE active
  <2>1. Put(l) /\ offered' = Append(offered, l) BY <1>1 DEF Event
  <2>2. offered' \in Seq(Lines) BY <2>1, AppendProperties DEF Queues
  <2> QED BY <2>1, <2>2, PutQueue DEF Queues
<1>2. CASE ~active BY <1>2 DEF Event, Queues
<1> QED BY <1>1, <1>2

LEMMA BaseStep ==
  ASSUME Base, [Next]_vars PROVE Base'
<1>1. CASE Signal
  <2>1. Spoken' BY <1>1 DEF Base, Spoken, Says, Signal, Asks, drain, jobs, log
  <2>2. Stack' BY <1>1 DEF Base, Stack, Signal, Asks, drain, jobs, log
  <2>3. Signals' BY <1>1 DEF Base, Signals, Places, Stack, Began, Top, Signal, Asks, drain, jobs, log
  <2>4. Places' /\ Queues' /\ Phases'
    BY <1>1 DEF Base, Places, Queues, Phases, Signal, Asks, drain, jobs, log
  <2> QED BY <2>1, <2>2, <2>3, <2>4 DEF Base
<1>2. CASE SetsTime
  <2>1. Stack' BY <1>2 DEF Base, Stack, SetsTime, Top, drain, jobs, log
  <2>2. Signals' BY <1>2 DEF Base, Signals, Places, Stack, Began, Top, SetsTime, drain, jobs, log
  <2>3. Places' /\ Spoken' /\ Queues' /\ Phases'
    BY <1>2 DEF Base, Places, Spoken, Queues, Phases, SetsTime, Top, drain, jobs, log
  <2> QED BY <2>1, <2>2, <2>3 DEF Base
<1>3. ASSUME NEW d \in Drainers, StartsDrain(d) PROVE Base'
  <2>1. Places'
    BY <1>3 DEF Base, Places, Went, Closed, Quiet, Early, Past, StartsDrain, Top, drain, jobs, log
  <2>2. Stack' BY <1>3 DEF Base, Stack, StartsDrain, Top, drain, jobs, log
  <2>3. Signals' BY <1>3 DEF Base, Signals, Places, Stack, Began, Top, StartsDrain, drain, jobs, log
  <2>4. Spoken' /\ Queues' /\ Phases'
    BY <1>3 DEF Base, Spoken, Queues, Phases, StartsDrain, Top, drain, jobs, log
  <2> QED BY <2>1, <2>2, <2>3, <2>4 DEF Base
<1>4. CASE Job
  BY <1>4
  DEF Base, Places, Spoken, Queues, Stack, Phases, Signals, Began, Top, Job, JobStarts, JobEnds, Deadline,
      signal, drain, log
<1>5. CASE Others
  <2>1. Places'
    BY <1>5
    DEF Base, Places, Went, Closed, Quiet, Early, Past, Others, Check, Emit, Put, signal, drain, jobs,
        states
  <2>2. Queues'
    BY <1>5, Names, PutQueue DEF Base, Queues, Places, Others, Check, Emit, signal, drain, jobs, states
  <2>3. Spoken' /\ Stack' /\ Phases' /\ Signals'
    BY <1>5
    DEF Base, Spoken, Stack, Phases, Signals, Began, Top, Others, Check, Emit, Put, signal, drain, jobs,
        states
  <2> QED BY <2>1, <2>2, <2>3 DEF Base
<1>6. ASSUME NEW d \in Drainers, Drains(d) PROVE Base'
  <2>1. Places' BY <1>6 DEF Base, Places, Went, Closed, Quiet, Early, Past, Drains, signal, drain, log
  <2>2. Signals' BY <1>6 DEF Base, Signals, Places, Stack, Began, Top, Drains, signal, drain, log
  <2>3. Spoken' /\ Queues' /\ Stack' /\ Phases'
    BY <1>6 DEF Base, Spoken, Queues, Stack, Phases, Drains, signal, drain, log
  <2> QED BY <2>1, <2>2, <2>3 DEF Base
<1>7. ASSUME NEW d \in Drainers, LoopEnds(d) PROVE Base'
  <2>1. Places' BY <1>7 DEF Base, Places, Went, Closed, Quiet, Early, Past, LoopEnds, signal, jobs, log
  <2>2. Signals' BY <1>7 DEF Base, Signals, Places, Stack, Began, Top, LoopEnds, signal, jobs, log
  <2>3. Spoken' /\ Queues' /\ Stack' /\ Phases'
    BY <1>7 DEF Base, Spoken, Queues, Stack, Phases, LoopEnds, signal, jobs, log
  <2> QED BY <2>1, <2>2, <2>3 DEF Base
<1>8. ASSUME NEW d \in Drainers, Counts(d) PROVE Base'
  <2>1. Places' BY <1>8 DEF Base, Places, Went, Closed, Quiet, Early, Past, Counts, signal, jobs, log
  <2>2. Signals' BY <1>8 DEF Base, Signals, Places, Stack, Began, Top, Counts, signal, jobs, log
  <2>3. Spoken' /\ Queues' /\ Stack' /\ Phases'
    BY <1>8 DEF Base, Spoken, Queues, Stack, Phases, Counts, signal, jobs, log
  <2> QED BY <2>1, <2>2, <2>3 DEF Base
<1>9. ASSUME NEW d \in Drainers, Publishes(d) PROVE Base'
  <2>1. Places'
    BY <1>9 DEF Base, Places, Went, Closed, Quiet, Early, Past, Publishes, Fields, signal, jobs, log
  <2>2. Spoken' BY <1>9 DEF Base, Spoken, Says, Publishes, Fields, signal, jobs, log
  <2>3. Signals' BY <1>9 DEF Base, Signals, Places, Stack, Began, Top, Publishes, Fields, signal, jobs, log
  <2>4. Queues' /\ Stack' /\ Phases'
    BY <1>9 DEF Base, Queues, Stack, Phases, Publishes, Fields, signal, jobs, log
  <2> QED BY <2>1, <2>2, <2>3, <2>4 DEF Base
<1>10. ASSUME NEW d \in Drainers, Drained(d) PROVE Base'
  <2>1. Places' BY <1>10 DEF Base, Places, Went, Closed, Quiet, Early, Past, Drained, signal, jobs, log
  <2>2. Signals' BY <1>10 DEF Base, Signals, Places, Stack, Began, Top, Drained, signal, jobs, log
  <2>3. Spoken' /\ Queues' /\ Stack' /\ Phases'
    BY <1>10 DEF Base, Spoken, Queues, Stack, Phases, Drained, signal, jobs, log
  <2> QED BY <2>1, <2>2, <2>3 DEF Base
<1>11. ASSUME NEW d \in Drainers, WritesDrain(d) PROVE Base'
  <2>1. Places'
    BY <1>11
    DEF Base, Places, Went, Closed, Quiet, Early, Past, WritesDrain, WriteDrain, OpenYet, Gone, Event, Put,
        signal, drain, jobs, log, states
  <2>2. Spoken'
    BY <1>11
    DEF Base, Spoken, Says, WritesDrain, WriteDrain, OpenYet, Gone, Event, Put, signal, drain, jobs, log,
        states
  <2>3. Queues'
    BY <1>11, EventQueue, Names
    DEF Base, Queues, WritesDrain, WriteDrain, OpenYet, Gone, signal, drain, jobs, log, states
  <2>4. Phases'
    BY <1>11
    DEF Base, Phases, Closed, Quiet, WritesDrain, WriteDrain, OpenYet, Gone, Event, Put, signal, drain,
        jobs, log, states
  <2>5. Signals'
    BY <1>11
    DEF Base, Signals, Places, Stack, Began, Top, WritesDrain, WriteDrain, OpenYet, Gone, Event, Put,
        signal, drain, jobs, log, states
  <2>6. Stack'
    BY <1>11
    DEF Base, Stack, WritesDrain, WriteDrain, OpenYet, Gone, Event, Put, signal, drain, jobs, log, states
  <2> QED BY <2>1, <2>2, <2>3, <2>4, <2>5, <2>6 DEF Base
<1>12. ASSUME NEW d \in Drainers, AsksEnd(d) PROVE Base'
  <2>1. Places' BY <1>12 DEF Base, Places, Went, Closed, Quiet, Early, Past, AsksEnd, signal, jobs, log
  <2>2. Signals' BY <1>12 DEF Base, Signals, Places, Stack, Began, Top, AsksEnd, signal, jobs, log
  <2>3. Spoken' /\ Queues' /\ Stack' /\ Phases'
    BY <1>12 DEF Base, Spoken, Queues, Stack, Phases, AsksEnd, signal, jobs, log
  <2> QED BY <2>1, <2>2, <2>3 DEF Base
<1>13. CASE Serves \/ ServingEnds
  <2>1. Places'
    BY <1>13
    DEF Base, Places, Went, Closed, Quiet, Early, Past, Serves, ServingEnds, signal, drain, jobs, log,
        Rest, Goes
  <2>2. Phases'
    BY <1>13 DEF Base, Phases, Closed, Quiet, Serves, ServingEnds, signal, drain, jobs, log, Rest, Goes
  <2>3. Signals'
    BY <1>13
    DEF Base, Signals, Places, Stack, Began, Top, Serves, ServingEnds, signal, drain, jobs, log, Rest, Goes
  <2>4. Spoken' /\ Queues' /\ Stack'
    BY <1>13 DEF Base, Spoken, Queues, Stack, Serves, ServingEnds, signal, drain, jobs, log, Rest, Goes
  <2> QED BY <2>1, <2>2, <2>3, <2>4 DEF Base
<1>14. CASE Waits
  <2>1. Places'
    BY <1>14 DEF Base, Places, Went, Closed, Quiet, Early, Past, Waits, signal, drain, jobs, log, Goes
  <2>2. Phases' BY <1>14 DEF Base, Phases, Closed, Quiet, Waits, signal, drain, jobs, log, Goes
  <2>3. Signals'
    BY <1>14 DEF Base, Signals, Places, Stack, Began, Top, Waits, signal, drain, jobs, log, Goes
  <2>4. Spoken' /\ Queues' /\ Stack'
    BY <1>14 DEF Base, Spoken, Queues, Stack, Waits, signal, drain, jobs, log, Goes
  <2> QED BY <2>1, <2>2, <2>3, <2>4 DEF Base
<1>15. CASE WritesLast
  <2>1. Places'
    BY <1>15
    DEF Base, Places, Went, Closed, Quiet, Early, Past, WritesLast, WriteDrain, OpenYet, Gone, Event, Put,
        signal, drain, jobs, log, states, Goes
  <2>2. Spoken'
    BY <1>15
    DEF Base, Spoken, Says, WritesLast, WriteDrain, OpenYet, Gone, Event, Put, signal, drain, jobs, log,
        states, Goes
  <2>3. Queues'
    BY <1>15, EventQueue, Names
    DEF Base, Queues, WritesLast, WriteDrain, OpenYet, Gone, signal, drain, jobs, log, states, Goes
  <2>4. Phases'
    BY <1>15
    DEF Base, Phases, Closed, Quiet, WritesLast, WriteDrain, OpenYet, Gone, Event, Put, signal, drain,
        jobs, log, states, Goes
  <2>5. Signals'
    BY <1>15
    DEF Base, Signals, Places, Stack, Began, Top, WritesLast, WriteDrain, OpenYet, Gone, Event, Put,
        signal, drain, jobs, log, states, Goes
  <2>6. Stack'
    BY <1>15
    DEF Base, Stack, WritesLast, WriteDrain, OpenYet, Gone, Event, Put, signal, drain, jobs, log, states,
        Goes
  <2> QED BY <2>1, <2>2, <2>3, <2>4, <2>5, <2>6 DEF Base
<1>16. CASE ClosesJobs
  <2>1. Places'
    BY <1>16 DEF Base, Places, Went, Closed, Quiet, Early, Past, ClosesJobs, signal, drain, jobs, log, Goes
  <2>2. Phases' BY <1>16 DEF Base, Phases, Closed, Quiet, ClosesJobs, signal, drain, jobs, log, Goes
  <2>3. Signals'
    BY <1>16 DEF Base, Signals, Places, Stack, Began, Top, ClosesJobs, signal, drain, jobs, log, Goes
  <2>4. Spoken' /\ Queues' /\ Stack'
    BY <1>16 DEF Base, Spoken, Queues, Stack, ClosesJobs, signal, drain, jobs, log, Goes
  <2> QED BY <2>1, <2>2, <2>3, <2>4 DEF Base
<1>17. CASE WritesStop
  <2>1. Places'
    BY <1>17
    DEF Base, Places, Went, Closed, Quiet, Early, Past, WritesStop, Event, Put, signal, drain, jobs, log,
        states, Goes
  <2>2. Queues'
    BY <1>17, EventQueue, Names DEF Base, Queues, WritesStop, signal, drain, jobs, log, states, Goes
  <2>3. Phases'
    BY <1>17 DEF Base, Phases, Closed, Quiet, WritesStop, Event, Put, signal, drain, jobs, log, states, Goes
  <2>4. Signals'
    BY <1>17
    DEF Base, Signals, Places, Stack, Began, Top, WritesStop, Event, Put, signal, drain, jobs, log, states,
        Goes
  <2>5. Spoken' /\ Stack'
    BY <1>17 DEF Base, Spoken, Stack, WritesStop, Event, Put, signal, drain, jobs, log, states, Goes
  <2> QED BY <2>1, <2>2, <2>3, <2>4, <2>5 DEF Base
<1>18. CASE ClosesLog
  <2>1. Places'
    BY <1>18
    DEF Base, Places, Went, Closed, Quiet, Early, Past, ClosesLog, Deactivate, signal, drain, jobs, log,
        states, Goes
  <2>2. Phases'
    BY <1>18 DEF Base, Phases, Closed, Quiet, ClosesLog, Deactivate, signal, drain, jobs, log, states, Goes
  <2>3. Signals'
    BY <1>18
    DEF Base, Signals, Places, Stack, Began, Top, ClosesLog, Deactivate, signal, drain, jobs, log, states,
        Goes
  <2>4. Spoken' /\ Queues' /\ Stack'
    BY <1>18 DEF Base, Spoken, Queues, Stack, ClosesLog, Deactivate, signal, drain, jobs, log, states, Goes
  <2> QED BY <2>1, <2>2, <2>3, <2>4 DEF Base
<1>19. CASE PutsEnd
  <2>1. Places'
    BY <1>19
    DEF Base, Places, Went, Closed, Quiet, Early, Past, PutsEnd, PutEnd, signal, drain, jobs, states, Goes
  <2>2. Queues' BY <1>19 DEF Base, Queues, PutsEnd, PutEnd, signal, drain, jobs, states, Goes
  <2>3. Phases' BY <1>19 DEF Base, Phases, Closed, Quiet, PutsEnd, PutEnd, signal, drain, jobs, states, Goes
  <2>4. Signals'
    BY <1>19
    DEF Base, Signals, Places, Stack, Began, Top, PutsEnd, PutEnd, signal, drain, jobs, states, Goes
  <2>5. Spoken' /\ Stack'
    BY <1>19 DEF Base, Spoken, Stack, PutsEnd, PutEnd, signal, drain, jobs, states, Goes
  <2> QED BY <2>1, <2>2, <2>3, <2>4, <2>5 DEF Base
<1>20. CASE GivesUpEnd \/ Joins
  <2>1. Places'
    BY <1>20
    DEF Base, Places, Went, Closed, Quiet, Early, Past, GivesUpEnd, Joins, QueueFull, signal, drain, jobs,
        log, Goes
  <2>2. Phases'
    BY <1>20 DEF Base, Phases, Closed, Quiet, GivesUpEnd, Joins, QueueFull, signal, drain, jobs, log, Goes
  <2>3. Signals'
    BY <1>20
    DEF Base, Signals, Places, Stack, Began, Top, GivesUpEnd, Joins, QueueFull, signal, drain, jobs, log,
        Goes
  <2>4. Spoken' /\ Queues' /\ Stack'
    BY <1>20 DEF Base, Spoken, Queues, Stack, GivesUpEnd, Joins, QueueFull, signal, drain, jobs, log, Goes
  <2> QED BY <2>1, <2>2, <2>3, <2>4 DEF Base
<1>21. CASE Logs
  <2>1. Queues' BY <1>21, GetQueue DEF Base, Queues, Logs, signal, drain, jobs
  <2>2. Places' /\ Spoken' /\ Stack' /\ Phases' /\ Signals'
    BY <1>21
    DEF Base, Places, Spoken, Stack, Phases, Signals, Began, Top, Logs, Writer, Get, Write, MayEnd, signal,
        drain, jobs
  <2> QED BY <2>1, <2>2 DEF Base
<1>22. CASE UNCHANGED vars
  BY <1>22
  DEF Base, Places, Spoken, Queues, Stack, Phases, Signals, Began, Top, vars, signal, drain, jobs, log
<1> QED
  BY <1>1, <1>2, <1>3, <1>4, <1>5, <1>6, <1>7, <1>8, <1>9, <1>10, <1>11, <1>12,
     <1>13, <1>14, <1>15, <1>16, <1>17, <1>18, <1>19, <1>20, <1>21, <1>22
  DEF Next, Main, DrainThread
-----------------------------------------------------------------------------
(* The drain line and the stop line, in the order they were offered.       *)
Ordered ==
  /\ Offers("stop") # {} => main \in {"log"} \cup Quiet
  /\ \A i \in Offers("drain"), k \in Offers("stop") : i < k

(* A drain thread that is past its loop has left a line to be written, or  *)
(* it is written already; main() writes it before it goes on to close().   *)
Kept ==
  /\ main \notin Closed /\ (drained \/ \E d \in Drainers : drainer[d] \in Past) =>
       drainLine # NoLine \/ Offers("drain") # {}
  /\ main = "write" /\ ~gaveUp => drained
  /\ main \in Closed /\ ~gaveUp => Offers("drain") # {}

(* A drain thread alone publishes one line, which is taken by whoever      *)
(* writes it.                                                              *)
Lone == \A d, e \in Drainers : Began(d) /\ Began(e) => d = e
Alone ==
  Lone =>
    /\ (\A d \in Drainers : drainer[d] \in Early) => Offers("drain") = {} /\ drainLine = NoLine
    /\ drainLine # NoLine => Offers("drain") = {}
    /\ \A i, k \in Offers("drain") : i = k

(* A loop that ends before the deadline and without an interruption has    *)
(* seen no job, and the store starts none while it drains.                 *)
OnTime(f) == f # NoLine /\ f.running /\ ~f.interrupted => late
Honest ==
  /\ \A d \in Drainers : drainer[d] \notin {"none", "drain"} => draining
  /\ \A d \in Drainers : drainer[d] = "count" => interrupted \/ late \/ ~running
  /\ \A d \in Drainers : drainer[d] = "some" => interrupted \/ late
  /\ OnTime(drainLine) /\ OnTime(said)

DrainInv == Ordered /\ Kept /\ Alone /\ Honest

LEMMA OffersStep ==
  ASSUME Queues, NEW l \in Lines, NEW m \in Lines, Event(m)
  PROVE  /\ Len(offered) \in Nat /\ Offers(l) \subseteq 1..Len(offered)
         /\ Offers(l)' = IF active /\ m = l THEN Offers(l) \cup {Len(offered) + 1} ELSE Offers(l)
<1>1. Len(offered) \in Nat /\ DOMAIN offered = 1..Len(offered) BY DEF Queues
<1>2. CASE active
  <2>1. offered' = Append(offered, m) BY <1>2 DEF Event
  <2>2. /\ Len(offered') = Len(offered) + 1 /\ DOMAIN offered' = 1..(Len(offered) + 1)
        /\ \A i \in 1..Len(offered) : offered'[i] = offered[i]
        /\ offered'[Len(offered) + 1] = m
    BY <2>1, AppendProperties DEF Queues
  <2> QED BY <1>1, <1>2, <2>2 DEF Offers
<1>3. CASE ~active
  <2>1. offered' = offered BY <1>3 DEF Event
  <2> QED BY <1>1, <1>3, <2>1 DEF Offers
<1> QED BY <1>2, <1>3

(* Drain threads begin and go on.                                          *)
Onward == \A d \in Drainers : (drainer'[d] \in Early => drainer[d] \in Early) /\ (Began(d) => Began(d)')

LEMMA AloneStays ==
  ASSUME Alone, Onward, offered' = offered, drainLine' = drainLine PROVE Alone'
<1>1. Lone' => Lone BY DEF Lone, Onward
<1>2. Offers("drain")' = Offers("drain") BY DEF Offers
<1>3. (\A d \in Drainers : drainer'[d] \in Early) => \A d \in Drainers : drainer[d] \in Early BY DEF Onward
<1> QED BY <1>1, <1>2, <1>3 DEF Alone

LEMMA DrainInit == Init => DrainInv
<1> SUFFICES ASSUME Init PROVE DrainInv OBVIOUS
<1>1. Offers("drain") = {} /\ Offers("stop") = {} BY DEF Init, LogInit, Offers
<1>2. Ordered BY <1>1 DEF Ordered
<1>3. Kept BY DEF Init, Kept, Closed, Past
<1>4. Alone BY <1>1 DEF Init, Alone
<1>5. Honest BY DEF Init, Honest, OnTime
<1> QED BY <1>2, <1>3, <1>4, <1>5 DEF DrainInv

LEMMA DrainStep ==
  ASSUME Base, DrainInv, [Next]_vars PROVE DrainInv'
<1>1. CASE Signal
  <2>1. Honest' BY <1>1 DEF Base, DrainInv, Honest, OnTime, Places, Began, Signal, Asks, drain, jobs, log
  <2>2. Ordered' /\ Kept' /\ Alone'
    BY <1>1 DEF DrainInv, Ordered, Offers, Kept, Alone, Lone, Began, Signal, Asks, drain, jobs, log
  <2> QED BY <2>1, <2>2 DEF DrainInv
<1>2. CASE SetsTime
  BY <1>2
  DEF DrainInv, Ordered, Offers, Kept, Alone, Lone, Began, Honest, OnTime, SetsTime, Top, drain, jobs, log
<1>3. ASSUME NEW d \in Drainers, StartsDrain(d) PROVE DrainInv'
  <2>1. Kept'
    BY <1>3
    DEF Base, DrainInv, Kept, Phases, Signals, Places, Offers, Closed, Quiet, Past, Early, Went, Began,
        StartsDrain, Top, drain, jobs, log
  <2>2. Alone'
    <3>1. offered' = offered /\ drainLine' = drainLine BY <1>3 DEF StartsDrain, Top, drain, jobs, log
    <3>2. Onward BY <1>3 DEF Onward, Began, Base, Places, Early, Past, StartsDrain, Top, drain, jobs, log
    <3> QED BY <3>1, <3>2, AloneStays DEF DrainInv
  <2>3. Honest'
    BY <1>3 DEF Base, DrainInv, Honest, OnTime, Places, Began, StartsDrain, Top, drain, jobs, log
  <2>4. Ordered' BY <1>3 DEF DrainInv, Ordered, Offers, StartsDrain, Top, drain, jobs, log
  <2> QED BY <2>1, <2>2, <2>3, <2>4 DEF DrainInv
<1>4. CASE Job
  <2>1. Honest'
    BY <1>4
    DEF Base, DrainInv, Honest, OnTime, Places, Began, Job, JobStarts, JobEnds, Deadline, signal, drain, log
  <2>2. Ordered' /\ Kept' /\ Alone'
    BY <1>4
    DEF DrainInv, Ordered, Offers, Kept, Alone, Lone, Began, Job, JobStarts, JobEnds, Deadline, signal,
        drain, log
  <2> QED BY <2>1, <2>2 DEF DrainInv
<1>5. CASE Others
  BY <1>5
  DEF DrainInv, Ordered, Offers, Kept, Alone, Lone, Began, Honest, OnTime, Others, Check, Emit, Put,
      signal, drain, jobs, states
<1>6. ASSUME NEW d \in Drainers, Drains(d) PROVE DrainInv'
  <2>1. Kept'
    BY <1>6
    DEF Base, DrainInv, Kept, Phases, Signals, Places, Offers, Closed, Quiet, Past, Early, Went, Began,
        Drains, signal, drain, log
  <2>2. Alone'
    <3>1. offered' = offered /\ drainLine' = drainLine BY <1>6 DEF Drains, signal, drain, log
    <3>2. Onward BY <1>6 DEF Onward, Began, Base, Places, Early, Past, Drains, signal, drain, log
    <3> QED BY <3>1, <3>2, AloneStays DEF DrainInv
  <2>3. Honest' BY <1>6 DEF Base, DrainInv, Honest, OnTime, Places, Began, Drains, signal, drain, log
  <2>4. Ordered' BY <1>6 DEF DrainInv, Ordered, Offers, Drains, signal, drain, log
  <2> QED BY <2>1, <2>2, <2>3, <2>4 DEF DrainInv
<1>7. ASSUME NEW d \in Drainers, LoopEnds(d) PROVE DrainInv'
  <2>1. Kept'
    BY <1>7
    DEF Base, DrainInv, Kept, Phases, Signals, Places, Offers, Closed, Quiet, Past, Early, Went, Began,
        LoopEnds, signal, jobs, log
  <2>2. Alone'
    <3>1. offered' = offered /\ drainLine' = drainLine BY <1>7 DEF LoopEnds, signal, jobs, log
    <3>2. Onward BY <1>7 DEF Onward, Began, Base, Places, Early, Past, LoopEnds, signal, jobs, log
    <3> QED BY <3>1, <3>2, AloneStays DEF DrainInv
  <2>3. Honest' BY <1>7 DEF Base, DrainInv, Honest, OnTime, Places, Began, LoopEnds, signal, jobs, log
  <2>4. Ordered' BY <1>7 DEF DrainInv, Ordered, Offers, LoopEnds, signal, jobs, log
  <2> QED BY <2>1, <2>2, <2>3, <2>4 DEF DrainInv
<1>8. ASSUME NEW d \in Drainers, Counts(d) PROVE DrainInv'
  <2>1. Kept'
    BY <1>8
    DEF Base, DrainInv, Kept, Phases, Signals, Places, Offers, Closed, Quiet, Past, Early, Went, Began,
        Counts, signal, jobs, log
  <2>2. Alone'
    <3>1. offered' = offered /\ drainLine' = drainLine BY <1>8 DEF Counts, signal, jobs, log
    <3>2. Onward BY <1>8 DEF Onward, Began, Base, Places, Early, Past, Counts, signal, jobs, log
    <3> QED BY <3>1, <3>2, AloneStays DEF DrainInv
  <2>3. Honest' BY <1>8 DEF Base, DrainInv, Honest, OnTime, Places, Began, Counts, signal, jobs, log
  <2>4. Ordered' BY <1>8 DEF DrainInv, Ordered, Offers, Counts, signal, jobs, log
  <2> QED BY <2>1, <2>2, <2>3, <2>4 DEF DrainInv
<1>9. ASSUME NEW d \in Drainers, Publishes(d) PROVE DrainInv'
  <2>1. Kept'
    <3>1. drainLine' # NoLine
      <4>1. drainLine' \in Says BY <1>9 DEF Publishes, Fields, Says, Base, Spoken
      <4> QED BY <4>1, DrainAssumption DEF Says
    <3>2. UNCHANGED <<main, offered, gaveUp, drained>> BY <1>9 DEF Publishes, log
    <3>3. Offers("drain")' = Offers("drain") BY <3>2 DEF Offers
    <3> QED BY <3>1, <3>2, <3>3 DEF Kept, DrainInv
  <2>2. Alone'
    <3>1. /\ offered' = offered /\ d \in Drainers /\ drainer[d] \in {"some", "none left"}
          /\ drainer' = [drainer EXCEPT ![d] = "publish"] /\ drainer'[d] \notin Early
      BY <1>9 DEF Publishes, log, Base, Places, Early
    <3>2. Lone' => Lone BY <3>1 DEF Lone, Began, Base, Places
    <3>3. Lone => \A e \in Drainers : drainer[e] \in Early BY <3>1 DEF Lone, Began, Early
    <3>4. Offers("drain")' = Offers("drain") BY <3>1 DEF Offers
    <3> QED BY <3>1, <3>2, <3>3, <3>4 DEF Alone, DrainInv
  <2>3. Honest'
    BY <1>9 DEF Base, DrainInv, Honest, OnTime, Places, Began, Publishes, Fields, signal, jobs, log
  <2>4. Ordered' BY <1>9 DEF DrainInv, Ordered, Offers, Publishes, Fields, signal, jobs, log
  <2> QED BY <2>1, <2>2, <2>3, <2>4 DEF DrainInv
<1>10. ASSUME NEW d \in Drainers, Drained(d) PROVE DrainInv'
  <2>1. Kept'
    BY <1>10
    DEF Base, DrainInv, Kept, Phases, Signals, Places, Offers, Closed, Quiet, Past, Early, Went, Began,
        Drained, signal, jobs, log
  <2>2. Alone'
    <3>1. offered' = offered /\ drainLine' = drainLine BY <1>10 DEF Drained, signal, jobs, log
    <3>2. Onward BY <1>10 DEF Onward, Began, Base, Places, Early, Past, Drained, signal, jobs, log
    <3> QED BY <3>1, <3>2, AloneStays DEF DrainInv
  <2>3. Honest' BY <1>10 DEF Base, DrainInv, Honest, OnTime, Places, Began, Drained, signal, jobs, log
  <2>4. Ordered' BY <1>10 DEF DrainInv, Ordered, Offers, Drained, signal, jobs, log
  <2> QED BY <2>1, <2>2, <2>3, <2>4 DEF DrainInv
<1>11. ASSUME NEW d \in Drainers, WritesDrain(d) PROVE DrainInv'
  <2>1. Ordered'
    BY <1>11, Names, OffersStep
    DEF Base, DrainInv, Ordered, Phases, Offers, Quiet, Closed, WritesDrain, WriteDrain, OpenYet, Gone,
        signal, drain, jobs, log, states
  <2>2. Kept'
    BY <1>11, Names, OffersStep
    DEF Base, DrainInv, Kept, Phases, Signals, Places, Offers, Closed, Quiet, Past, Early, Went, Began,
        WritesDrain, WriteDrain, OpenYet, Gone, signal, drain, jobs, log, states
  <2>3. Alone'
    <3>1. /\ d \in Drainers /\ drainer' = [drainer EXCEPT ![d] = "shutdown"] 
          /\ drainer[d] = "write" /\ drainer'[d] \notin Early
      BY <1>11 DEF WritesDrain, Base, Places, Early
    <3>2. /\ drainLine' = NoLine
          /\ \/ drainLine # NoLine /\ Event("drain")
             \/ offered' = offered
      BY <1>11 DEF WritesDrain, WriteDrain, Gone, log
    <3>3. Queues BY DEF Base
    <3>4. Lone => \A i, k \in Offers("drain")' : i = k
      <4>1. CASE offered' = offered
        <5>1. Offers("drain")' = Offers("drain") BY <4>1 DEF Offers
        <5> QED BY <5>1 DEF Alone, DrainInv
      <4>2. CASE drainLine # NoLine /\ Event("drain")
        <5>1. Lone => Offers("drain") = {} BY <4>2 DEF Alone, DrainInv
        <5> QED BY <4>2, <5>1, <3>3, Names, OffersStep
      <4> QED BY <3>2, <4>1, <4>2
    <3>5. Lone' => Lone BY <3>1 DEF Lone, Began, Base, Places
    <3> QED BY <3>1, <3>2, <3>4, <3>5 DEF Alone
  <2>4. Honest'
    BY <1>11, OffersStep
    DEF Base, DrainInv, Honest, OnTime, Places, Began, WritesDrain, WriteDrain, OpenYet, Gone, signal,
        drain, jobs, log, states
  <2> QED BY <2>1, <2>2, <2>3, <2>4 DEF DrainInv
<1>12. ASSUME NEW d \in Drainers, AsksEnd(d) PROVE DrainInv'
  <2>1. Kept'
    BY <1>12
    DEF Base, DrainInv, Kept, Phases, Signals, Places, Offers, Closed, Quiet, Past, Early, Went, Began,
        AsksEnd, signal, jobs, log
  <2>2. Alone'
    <3>1. offered' = offered /\ drainLine' = drainLine BY <1>12 DEF AsksEnd, signal, jobs, log
    <3>2. Onward BY <1>12 DEF Onward, Began, Base, Places, Early, Past, AsksEnd, signal, jobs, log
    <3> QED BY <3>1, <3>2, AloneStays DEF DrainInv
  <2>3. Honest' BY <1>12 DEF Base, DrainInv, Honest, OnTime, Places, Began, AsksEnd, signal, jobs, log
  <2>4. Ordered' BY <1>12 DEF DrainInv, Ordered, Offers, AsksEnd, signal, jobs, log
  <2> QED BY <2>1, <2>2, <2>3, <2>4 DEF DrainInv
<1>13. CASE Serves \/ ServingEnds
  <2>1. Ordered'
    BY <1>13
    DEF Base, DrainInv, Ordered, Phases, Offers, Quiet, Closed, Serves, ServingEnds, signal, drain, jobs,
        log, Rest, Goes
  <2>2. Kept'
    <3>1. UNCHANGED <<offered, gaveUp, drained, drainer, drainLine>> /\ main \in {"starting", "serving"}
          /\ main' \in {"serving", "closing"}
      BY <1>13 DEF Serves, ServingEnds, Goes, Rest, drain, log
    <3>2. Offers("drain")' = Offers("drain") BY <3>1 DEF Offers
    <3> QED BY <3>1, <3>2 DEF Kept, DrainInv, Closed
  <2>3. Alone' /\ Honest'
    BY <1>13
    DEF DrainInv, Alone, Lone, Began, Offers, Honest, OnTime, Serves, ServingEnds, signal, drain, jobs,
        log, Rest, Goes
  <2> QED BY <2>1, <2>2, <2>3 DEF DrainInv
<1>14. CASE Waits
  <2>1. Ordered'
    BY <1>14
    DEF Base, DrainInv, Ordered, Phases, Offers, Quiet, Closed, Waits, signal, drain, jobs, log, Goes
  <2>2. Kept'
    BY <1>14
    DEF Base, DrainInv, Kept, Phases, Signals, Places, Offers, Closed, Quiet, Past, Early, Went, Began,
        Waits, signal, drain, jobs, log, Goes
  <2>3. Alone' /\ Honest'
    BY <1>14 DEF DrainInv, Alone, Lone, Began, Offers, Honest, OnTime, Waits, signal, drain, jobs, log, Goes
  <2> QED BY <2>1, <2>2, <2>3 DEF DrainInv
<1>15. CASE WritesLast
  <2>1. Ordered'
    BY <1>15, Names, OffersStep
    DEF Base, DrainInv, Ordered, Phases, Offers, Quiet, Closed, WritesLast, WriteDrain, OpenYet, Gone,
        signal, drain, jobs, log, states, Goes
  <2>2. Kept'
    BY <1>15, Names, OffersStep
    DEF Base, DrainInv, Kept, Phases, Signals, Places, Offers, Closed, Quiet, Past, Early, Went, Began,
        WritesLast, WriteDrain, OpenYet, Gone, signal, drain, jobs, log, states, Goes
  <2>3. Alone'
    <3>1. drainer' = drainer BY <1>15 DEF WritesLast
    <3>2. /\ drainLine' = NoLine
          /\ \/ drainLine # NoLine /\ Event("drain")
             \/ offered' = offered
      BY <1>15 DEF WritesLast, WriteDrain, Gone, log
    <3>3. Queues BY DEF Base
    <3>4. Lone => \A i, k \in Offers("drain")' : i = k
      <4>1. CASE offered' = offered
        <5>1. Offers("drain")' = Offers("drain") BY <4>1 DEF Offers
        <5> QED BY <5>1 DEF Alone, DrainInv
      <4>2. CASE drainLine # NoLine /\ Event("drain")
        <5>1. Lone => Offers("drain") = {} BY <4>2 DEF Alone, DrainInv
        <5> QED BY <4>2, <5>1, <3>3, Names, OffersStep
      <4> QED BY <3>2, <4>1, <4>2
    <3>5. Lone' => Lone BY <3>1 DEF Lone, Began
    <3>6. Lone /\ (\A d \in Drainers : drainer[d] \in Early) => Offers("drain") = {} /\ drainLine = NoLine
      BY DEF Alone, DrainInv
    <3>7. drainLine = NoLine => Offers("drain")' = Offers("drain")
      <4>1. drainLine = NoLine => offered' = offered BY <3>2
      <4> QED BY <4>1 DEF Offers
    <3> QED BY <3>1, <3>2, <3>4, <3>5, <3>6, <3>7 DEF Alone
  <2>4. Honest'
    BY <1>15, OffersStep
    DEF Base, DrainInv, Honest, OnTime, Places, Began, WritesLast, WriteDrain, OpenYet, Gone, signal,
        drain, jobs, log, states, Goes
  <2> QED BY <2>1, <2>2, <2>3, <2>4 DEF DrainInv
<1>16. CASE ClosesJobs
  <2>1. Ordered'
    BY <1>16
    DEF Base, DrainInv, Ordered, Phases, Offers, Quiet, Closed, ClosesJobs, signal, drain, jobs, log, Goes
  <2>2. Kept'
    BY <1>16
    DEF Base, DrainInv, Kept, Phases, Signals, Places, Offers, Closed, Quiet, Past, Early, Went, Began,
        ClosesJobs, signal, drain, jobs, log, Goes
  <2>3. Honest'
    BY <1>16 DEF Base, DrainInv, Honest, OnTime, Places, Began, ClosesJobs, signal, drain, jobs, log, Goes
  <2>4. Alone' BY <1>16 DEF DrainInv, Alone, Lone, Began, Offers, ClosesJobs, signal, drain, jobs, log, Goes
  <2> QED BY <2>1, <2>2, <2>3, <2>4 DEF DrainInv
<1>17. CASE WritesStop
  <2>1. Ordered'
    BY <1>17, Names, OffersStep
    DEF Base, DrainInv, Ordered, Phases, Offers, Quiet, Closed, WritesStop, signal, drain, jobs, log,
        states, Goes
  <2>2. Kept'
    BY <1>17, Names, OffersStep
    DEF Base, DrainInv, Kept, Phases, Signals, Places, Offers, Closed, Quiet, Past, Early, Went, Began,
        WritesStop, signal, drain, jobs, log, states, Goes
  <2>3. Alone'
    <3>1. Event("stop") /\ drainLine' = drainLine /\ drainer' = drainer /\ Queues
      BY <1>17 DEF WritesStop, drain, Base
    <3>2. Offers("drain")' = Offers("drain") BY <3>1, Names, OffersStep
    <3>3. Lone' => Lone BY <3>1 DEF Lone, Began
    <3> QED BY <3>1, <3>2, <3>3 DEF Alone, DrainInv
  <2>4. Honest'
    BY <1>17, OffersStep
    DEF Base, DrainInv, Honest, OnTime, Places, Began, WritesStop, signal, drain, jobs, log, states, Goes
  <2> QED BY <2>1, <2>2, <2>3, <2>4 DEF DrainInv
<1>18. CASE ClosesLog
  <2>1. Ordered'
    BY <1>18
    DEF Base, DrainInv, Ordered, Phases, Offers, Quiet, Closed, ClosesLog, Deactivate, signal, drain, jobs,
        log, states, Goes
  <2>2. Kept'
    BY <1>18
    DEF Base, DrainInv, Kept, Phases, Signals, Places, Offers, Closed, Quiet, Past, Early, Went, Began,
        ClosesLog, Deactivate, signal, drain, jobs, log, states, Goes
  <2>3. Alone' /\ Honest'
    BY <1>18
    DEF DrainInv, Alone, Lone, Began, Offers, Honest, OnTime, ClosesLog, Deactivate, signal, drain, jobs,
        log, states, Goes
  <2> QED BY <2>1, <2>2, <2>3 DEF DrainInv
<1>19. CASE PutsEnd
  <2>1. Ordered'
    BY <1>19
    DEF Base, DrainInv, Ordered, Phases, Offers, Quiet, Closed, PutsEnd, PutEnd, signal, drain, jobs,
        states, Goes
  <2>2. Kept'
    BY <1>19
    DEF Base, DrainInv, Kept, Phases, Signals, Places, Offers, Closed, Quiet, Past, Early, Went, Began,
        PutsEnd, PutEnd, signal, drain, jobs, states, Goes
  <2>3. Alone' /\ Honest'
    BY <1>19
    DEF DrainInv, Alone, Lone, Began, Offers, Honest, OnTime, PutsEnd, PutEnd, signal, drain, jobs, states,
        Goes
  <2> QED BY <2>1, <2>2, <2>3 DEF DrainInv
<1>20. CASE GivesUpEnd \/ Joins
  <2>1. Ordered'
    BY <1>20
    DEF Base, DrainInv, Ordered, Phases, Offers, Quiet, Closed, GivesUpEnd, Joins, QueueFull, signal,
        drain, jobs, log, Goes
  <2>2. Kept'
    BY <1>20
    DEF Base, DrainInv, Kept, Phases, Signals, Places, Offers, Closed, Quiet, Past, Early, Went, Began,
        GivesUpEnd, Joins, QueueFull, signal, drain, jobs, log, Goes
  <2>3. Alone' /\ Honest'
    BY <1>20
    DEF DrainInv, Alone, Lone, Began, Offers, Honest, OnTime, GivesUpEnd, Joins, QueueFull, signal, drain,
        jobs, log, Goes
  <2> QED BY <2>1, <2>2, <2>3 DEF DrainInv
<1>21. CASE Logs
  BY <1>21
  DEF DrainInv, Ordered, Offers, Kept, Alone, Lone, Began, Honest, OnTime, Logs, Writer, Get, Write,
      MayEnd, signal, drain, jobs
<1>22. CASE UNCHANGED vars
  BY <1>22
  DEF DrainInv, Ordered, Offers, Kept, Alone, Lone, Began, Honest, OnTime, vars, signal, drain, jobs, log
<1> QED
  BY <1>1, <1>2, <1>3, <1>4, <1>5, <1>6, <1>7, <1>8, <1>9, <1>10, <1>11, <1>12,
     <1>13, <1>14, <1>15, <1>16, <1>17, <1>18, <1>19, <1>20, <1>21, <1>22
  DEF Next, Main, DrainThread
-----------------------------------------------------------------------------
(* The drain line and the stop line in the log: on their way from the      *)
(* queue to the stream, and never behind the end marker.                   *)
Marks == {"drain", "stop"}
In(l) == \E i \in DOMAIN lines : lines[i] = l
LastInv ==
  /\ \A l \in Marks : l \in accepted => l \in written \/ (writer = "write" /\ line = l) \/ In(l)
  /\ \A i, k \in DOMAIN lines : lines[i] = End /\ i < k => lines[k] \notin Marks
  /\ In(End) => main \in {"join", "exited"}
  /\ writer = "ended" => stopped /\ \A l \in Marks : ~In(l)
  /\ joined => writer = "ended"

(* What is in a queue after a line is put at its end, or taken.            *)
LEMMA Appended ==
  ASSUME Queues, NEW l \in Lines \cup {End}, lines' = Append(lines, l)
  PROVE  /\ Len(lines) \in Nat /\ DOMAIN lines = 1..Len(lines) /\ DOMAIN lines' = 1..(Len(lines) + 1)
         /\ \A i \in 1..Len(lines) : lines'[i] = lines[i]
         /\ lines'[Len(lines) + 1] = l
BY AppendProperties DEF Queues

LEMMA Taken ==
  ASSUME Queues, lines # <<>>, lines' = Tail(lines)
  PROVE  /\ Len(lines) \in Nat \ {0} /\ DOMAIN lines = 1..Len(lines) /\ DOMAIN lines' = 1..(Len(lines) - 1)
         /\ \A i \in 1..(Len(lines) - 1) : lines'[i] = lines[i + 1]
         /\ Head(lines) = lines[1]
BY HeadTailProperties DEF Queues

(* Steps that leave the log alone, or only close it.                       *)
LEMMA LastStays ==
  ASSUME LastInv, UNCHANGED <<lines, accepted, written, writer, line>>, stopped => stopped',
         main \in {"join", "exited"} => main' \in {"join", "exited"}, joined' => joined \/ writer = "ended"
  PROVE  LastInv'
BY DEF LastInv, In

(* A line is put: not one of the two, or before the log is closed.         *)
LEMMA LastPut ==
  ASSUME LastInv, Queues, NEW l \in Lines, Put(l), UNCHANGED <<written, writer, line, stopped, joined>>,
         main \in {"join", "exited"} => main' \in {"join", "exited"},
         l \notin Marks \/ (~stopped /\ main \notin Quiet)
  PROVE  LastInv'
<1>1. CASE Len(lines) < QueueLines
  <2>1. lines' = Append(lines, l) /\ accepted' = accepted \cup {l} BY <1>1 DEF Put
  <2>2. /\ Len(lines) \in Nat /\ DOMAIN lines = 1..Len(lines) /\ DOMAIN lines' = 1..(Len(lines) + 1)
        /\ \A i \in 1..Len(lines) : lines'[i] = lines[i]
        /\ lines'[Len(lines) + 1] = l
    BY <2>1, Appended
  <2>3. \A m : In(m)' <=> In(m) \/ m = l BY <2>2 DEF In
  <2>4. \A m \in Marks : m \in accepted' => m \in written' \/ (writer' = "write" /\ line' = m) \/ In(m)'
    BY <2>1, <2>3 DEF LastInv
  <2>5. ASSUME NEW i \in DOMAIN lines', NEW k \in DOMAIN lines', lines'[i] = End, i < k PROVE lines'[k] \notin Marks
    <3>1. i \in DOMAIN lines /\ lines[i] = End BY <2>2, <2>5
    <3>2. CASE k \in DOMAIN lines BY <2>2, <2>5, <3>1, <3>2 DEF LastInv
    <3>3. CASE k = Len(lines) + 1
      <4>1. In(End) BY <3>1 DEF In
      <4>2. main \in Quiet BY <4>1 DEF LastInv, Quiet
      <4> QED BY <2>2, <3>3, <4>2
    <3> QED BY <2>2, <3>2, <3>3
  <2>6. In(End)' => main' \in {"join", "exited"} BY <2>3, Names DEF LastInv
  <2>7. writer' = "ended" => stopped' /\ \A m \in Marks : ~In(m)' BY <2>3 DEF LastInv
  <2> QED BY <2>4, <2>5, <2>6, <2>7 DEF LastInv
<1>2. CASE ~(Len(lines) < QueueLines)
  <2>1. UNCHANGED <<lines, accepted>> BY <1>2 DEF Put
  <2> QED BY <2>1, LastStays
<1> QED BY <1>1, <1>2

LEMMA LastEvent ==
  ASSUME LastInv, Base, NEW l \in Lines, Event(l), joined' = joined,
         main \in {"join", "exited"} => main' \in {"join", "exited"}
  PROVE  LastInv'
<1>1. UNCHANGED <<written, writer, line, stopped>> BY DEF Event, states
<1>2. CASE active
  <2>1. Put(l) BY <1>2 DEF Event
  <2>2. ~stopped /\ main \notin Quiet BY <1>2 DEF Base, Phases
  <2> QED BY <1>1, <2>1, <2>2, LastPut DEF Base
<1>3. CASE ~active
  <2>1. UNCHANGED <<lines, accepted>> BY <1>3 DEF Event
  <2> QED BY <1>1, <2>1, LastStays
<1> QED BY <1>2, <1>3

LEMMA LastEnd ==
  ASSUME LastInv, Queues, PutEnd, joined' = joined, main' = "join" PROVE LastInv'
<1>1. lines' = Append(lines, End) /\ UNCHANGED <<accepted, written, writer, line, stopped>>
  BY DEF PutEnd, states
<1>2. /\ Len(lines) \in Nat /\ DOMAIN lines = 1..Len(lines) /\ DOMAIN lines' = 1..(Len(lines) + 1)
      /\ \A i \in 1..Len(lines) : lines'[i] = lines[i]
      /\ lines'[Len(lines) + 1] = End
  BY <1>1, Appended
<1>3. \A m \in Marks : m # End BY Names DEF Marks
<1>4. \A m \in Marks : In(m)' <=> In(m) BY <1>2, <1>3 DEF In
<1>5. ASSUME NEW i \in DOMAIN lines', NEW k \in DOMAIN lines', lines'[i] = End, i < k PROVE lines'[k] \notin Marks
  <2>1. i \in DOMAIN lines BY <1>2, <1>5
  <2> QED BY <1>2, <1>3, <1>5, <2>1 DEF LastInv
<1> QED BY <1>1, <1>4, <1>5 DEF LastInv

LEMMA LastWriter ==
  ASSUME LastInv, Base, Writer, joined' = joined, main' = main PROVE LastInv'
<1>1. Queues BY DEF Base
<1>2. CASE Write
  <2>1. /\ writer = "write" /\ writer' = "get" /\ written' = written \cup {line}
        /\ UNCHANGED <<lines, accepted, stopped>>
    BY <1>2 DEF Write
  <2>2. \A m : In(m)' <=> In(m) BY <2>1 DEF In
  <2>3. ~joined BY <2>1 DEF LastInv
  <2> QED BY <2>1, <2>2, <2>3 DEF LastInv
<1>3. CASE Get
  <2>1. writer = "get" /\ UNCHANGED <<accepted, written, stopped>> BY <1>3 DEF Get
  <2>2. ~joined BY <2>1 DEF LastInv
  <2>3. CASE stopped /\ lines = <<>> /\ writer' = "ended" /\ UNCHANGED <<line, lines>>
    <3>1. \A m : ~In(m) /\ ~In(m)' BY <2>3 DEF In
    <3> QED BY <2>1, <2>2, <2>3, <3>1 DEF LastInv, In
  <2>4. CASE /\ lines # <<>> /\ lines' = Tail(lines)
             /\ (Head(lines) = End => writer' = "ended")
             /\ (Head(lines) # End => writer' = "write" /\ line' = Head(lines))
    <3>1. /\ Len(lines) \in Nat \ {0} /\ DOMAIN lines = 1..Len(lines) /\ DOMAIN lines' = 1..(Len(lines) - 1)
          /\ \A i \in 1..(Len(lines) - 1) : lines'[i] = lines[i + 1]
          /\ Head(lines) = lines[1]
      BY <1>1, <2>4, Taken
    <3>2. \A m : In(m)' => In(m)
      <4>1. \A i \in DOMAIN lines' : i + 1 \in DOMAIN lines /\ lines'[i] = lines[i + 1] BY <3>1
      <4> QED BY <4>1 DEF In
    <3>3. \A m : In(m) => In(m)' \/ m = Head(lines)
      <4>1. \A i \in DOMAIN lines : i = 1 \/ (i - 1 \in DOMAIN lines' /\ lines'[i - 1] = lines[i]) BY <3>1
      <4> QED BY <3>1, <4>1 DEF In
    <3>4. ASSUME NEW i \in DOMAIN lines', NEW k \in DOMAIN lines', lines'[i] = End, i < k PROVE lines'[k] \notin Marks
      <4>1. i + 1 \in DOMAIN lines /\ k + 1 \in DOMAIN lines /\ i + 1 < k + 1 BY <3>1, <3>4
      <4>2. lines[i + 1] = End /\ lines'[k] = lines[k + 1] BY <3>1, <3>4
      <4> QED BY <4>1, <4>2 DEF LastInv
    <3>5. CASE Head(lines) = End
      <4>1. In(End) BY <3>1, <3>5 DEF In
      <4>2. stopped BY <4>1 DEF LastInv, Base, Phases, Quiet
      <4>3. ASSUME NEW m \in Marks, In(m)' PROVE FALSE
        <5>1. PICK k \in DOMAIN lines' : lines'[k] = m BY <4>3 DEF In
        <5>2. 1 \in DOMAIN lines /\ k + 1 \in DOMAIN lines /\ 1 < k + 1 /\ lines[k + 1] = m BY <3>1, <5>1
        <5> QED BY <3>1, <3>5, <5>2 DEF LastInv
      <4>4. writer' = "ended" BY <2>4, <3>5
      <4>5. \A m \in Marks : m \in accepted => m \in written
        <5>1. \A m \in Marks : m # Head(lines) BY <3>5, Names DEF Marks
        <5> QED BY <2>1, <3>3, <4>3, <5>1 DEF LastInv
      <4>6. In(End)' => main' \in {"join", "exited"} BY <3>2 DEF LastInv
      <4> QED BY <2>1, <2>2, <3>4, <4>2, <4>3, <4>4, <4>5, <4>6 DEF LastInv
    <3>6. CASE Head(lines) # End
      <4>1. writer' = "write" /\ line' = Head(lines) BY <2>4, <3>6
      <4>2. \A m \in Marks : m \in accepted => m \in written \/ (writer' = "write" /\ line' = m) \/ In(m)'
        BY <2>1, <3>3, <4>1 DEF LastInv
      <4>3. In(End)' => main' \in {"join", "exited"} BY <3>2 DEF LastInv
      <4> QED BY <2>1, <2>2, <3>4, <4>1, <4>2, <4>3 DEF LastInv
    <3> QED BY <3>5, <3>6
  <2> QED BY <1>3, <2>3, <2>4 DEF Get, MayEnd
<1> QED BY <1>2, <1>3 DEF Writer

LEMMA LastStep ==
  ASSUME Base, LastInv, [Next]_vars PROVE LastInv'
<1>1. CASE Signal
  BY <1>1, LastStays DEF Signal, Asks, drain, jobs, log
<1>2. CASE SetsTime
  BY <1>2, LastStays DEF SetsTime, Top, drain, jobs, log
<1>3. ASSUME NEW d \in Drainers, StartsDrain(d) PROVE LastInv'
  BY <1>3, LastStays DEF StartsDrain, Top, drain, jobs, log
<1>4. CASE Job
  BY <1>4, LastStays DEF Job, JobStarts, JobEnds, Deadline, signal, drain, log
<1>5. CASE Others
  <2>1. UNCHANGED <<main, joined, stopped, written, writer, line>> /\ Queues
    BY <1>5 DEF Others, Check, Emit, states, Base
  <2>2. CASE Check("request") BY <2>1, <2>2, LastStays DEF Check
  <2>3. CASE Emit
    <3>1. emitter = "request" /\ Put(emitter) BY <2>3 DEF Emit, Base, Places
    <3>2. emitter \in Lines /\ emitter \notin Marks BY <3>1, Names DEF Marks
    <3> QED BY <2>1, <3>1, <3>2, LastPut
  <2> QED BY <1>5, <2>2, <2>3 DEF Others
<1>6. ASSUME NEW d \in Drainers, Drains(d) PROVE LastInv'
  BY <1>6, LastStays DEF Drains, signal, drain, log
<1>7. ASSUME NEW d \in Drainers, LoopEnds(d) PROVE LastInv'
  BY <1>7, LastStays DEF LoopEnds, signal, jobs, log
<1>8. ASSUME NEW d \in Drainers, Counts(d) PROVE LastInv'
  BY <1>8, LastStays DEF Counts, signal, jobs, log
<1>9. ASSUME NEW d \in Drainers, Publishes(d) PROVE LastInv'
  BY <1>9, LastStays DEF Publishes, Fields, signal, jobs, log
<1>10. ASSUME NEW d \in Drainers, Drained(d) PROVE LastInv'
  BY <1>10, LastStays DEF Drained, signal, jobs, log
<1>11. ASSUME NEW d \in Drainers, WritesDrain(d) PROVE LastInv'
  <2>1. joined' = joined /\ (main \notin {"join", "exited"} \/ main' = main)
    BY <1>11 DEF WritesDrain, Goes
  <2>2. Event("drain") \/ UNCHANGED log BY <1>11 DEF WritesDrain, WriteDrain
  <2>3. CASE UNCHANGED log BY <2>1, <2>3, LastStays DEF log
  <2>4. CASE Event("drain") BY <2>1, <2>4, Names, LastEvent
  <2> QED BY <2>2, <2>3, <2>4
<1>12. ASSUME NEW d \in Drainers, AsksEnd(d) PROVE LastInv'
  BY <1>12, LastStays DEF AsksEnd, signal, jobs, log
<1>13. CASE Serves \/ ServingEnds
  BY <1>13, LastStays DEF Serves, ServingEnds, signal, drain, jobs, log, Rest, Goes
<1>14. CASE Waits
  BY <1>14, LastStays DEF Waits, signal, drain, jobs, log, Goes
<1>15. CASE WritesLast
  <2>1. joined' = joined /\ (main \notin {"join", "exited"} \/ main' = main)
    BY <1>15 DEF WritesLast, Goes
  <2>2. Event("drain") \/ UNCHANGED log BY <1>15 DEF WritesLast, WriteDrain
  <2>3. CASE UNCHANGED log BY <2>1, <2>3, LastStays DEF log
  <2>4. CASE Event("drain") BY <2>1, <2>4, Names, LastEvent
  <2> QED BY <2>2, <2>3, <2>4
<1>16. CASE ClosesJobs
  BY <1>16, LastStays DEF ClosesJobs, signal, drain, jobs, log, Goes
<1>17. CASE WritesStop
  <2>1. joined' = joined /\ (main \notin {"join", "exited"} \/ main' = main)
    BY <1>17 DEF WritesStop, Goes
  <2>2. Event("stop") \/ UNCHANGED log BY <1>17 DEF WritesStop
  <2>3. CASE UNCHANGED log BY <2>1, <2>3, LastStays DEF log
  <2>4. CASE Event("stop") BY <2>1, <2>4, Names, LastEvent
  <2> QED BY <2>2, <2>3, <2>4
<1>18. CASE ClosesLog
  BY <1>18, LastStays DEF ClosesLog, Deactivate, signal, drain, jobs, log, states, Goes
<1>19. CASE PutsEnd
  BY <1>19, LastEnd DEF PutsEnd, Goes, Base
<1>20. CASE GivesUpEnd \/ Joins
  <2>1. UNCHANGED log /\ (joined' => joined \/ writer = "ended")
    <3>1. CASE GivesUpEnd BY <3>1 DEF GivesUpEnd, QueueFull
    <3>2. CASE Joins BY <3>2 DEF Joins
    <3> QED BY <1>20, <3>1, <3>2
  <2>2. main \notin {"join", "exited"} \/ main' = "exited" BY <1>20 DEF GivesUpEnd, Joins, Goes
  <2> QED BY <2>1, <2>2, LastStays DEF log
<1>21. CASE Logs
  BY <1>21, LastWriter DEF Logs
<1>22. CASE UNCHANGED vars
  BY <1>22, LastStays DEF vars, signal, drain, jobs, log
<1> QED
  BY <1>1, <1>2, <1>3, <1>4, <1>5, <1>6, <1>7, <1>8, <1>9, <1>10, <1>11, <1>12,
     <1>13, <1>14, <1>15, <1>16, <1>17, <1>18, <1>19, <1>20, <1>21, <1>22
  DEF Next, Main, DrainThread

LEMMA LastInit == Init => LastInv
BY DEF Init, LogInit, LastInv, In, Marks

THEOREM StopInvariant == Spec => [](Base /\ DrainInv /\ LastInv)
<1>1. Init => Base /\ DrainInv /\ LastInv BY BaseInit, DrainInit, LastInit
<1>2. Base /\ DrainInv /\ LastInv /\ [Next]_vars => (Base /\ DrainInv /\ LastInv)'
  BY BaseStep, DrainStep, LastStep
<1> QED BY <1>1, <1>2, PTL DEF Spec

(* Whichever thread writes it, the drain line comes before the stop line,  *)
(* once, and it is not lost unless server_close gave up waiting for it.    *)
THEOREM OneDrainLine == Spec => []DrainLineOnce
<1>1. ASSUME DrainInv
      PROVE  DrainLineOnce
  <2>1. \A i \in Offers("drain"), k \in Offers("stop") : i < k
    BY <1>1 DEF DrainInv, Ordered
  <2>2. ASSUME Offers("stop") # {}, ~gaveUp
        PROVE  Offers("drain") # {}
    BY <1>1, <2>2 DEF DrainInv, Ordered, Kept, Closed, Quiet
  <2>3. ASSUME Cardinality({d \in Drainers : drainer[d] # "none"}) = 1
        PROVE  Cardinality(Offers("drain")) <= 1
    <3> DEFINE D == {d \in Drainers : drainer[d] # "none"}
    <3>1. IsFiniteSet(D)
      BY DrainAssumption, FS_Subset
    <3>2. \E d : D = {d}
      BY <2>3, <3>1, FS_Singleton
    <3>3. Lone
      BY <3>2 DEF Lone, Began
    <3>4. \A i, k \in Offers("drain") : i = k
      BY <1>1, <3>3 DEF DrainInv, Alone
    <3>5. Offers("drain") = {} \/ \E i : Offers("drain") = {i}
      BY <3>4
    <3> HIDE DEF D
    <3> QED
      BY <3>5, FS_EmptySet, FS_Singleton
  <2> QED
    BY <2>1, <2>2, <2>3 DEF DrainLineOnce
<1> QED
  BY <1>1, StopInvariant, PTL

(* A drain line that counts jobs uninterrupted is the deadline's.          *)
THEOREM DrainLineIsHonest == Spec => []HonestDrainLine
<1>1. DrainInv => HonestDrainLine
  BY DEF DrainInv, Honest, OnTime, HonestDrainLine
<1> QED
  BY <1>1, StopInvariant, PTL

(* Once close() has seen the writer end, the two last lines are written if *)
(* the queue ever took them.                                               *)
THEOREM LastLinesAreWritten == Spec => []LastLinesWritten
<1>1. LastInv => LastLinesWritten
  BY DEF LastInv, Marks, LastLinesWritten
<1> QED
  BY <1>1, StopInvariant, PTL
=============================================================================
