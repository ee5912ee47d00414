----------------------------- MODULE ServerStop -----------------------------
(***************************************************************************)
(* How worker/ai_bridge/server.py stops: the signal handler, which runs on *)
(* the main thread in the midst of whatever it does, the drain thread, the *)
(* drain line that either of two threads writes, server_close and the end  *)
(* of main().  The log is LogQueue's; of the jobs only whether one runs.   *)
(***************************************************************************)
EXTENDS LogQueue, FiniteSets

CONSTANTS
  Drainers,     \* drain threads (another for each signal in the handler of the first; a bound)
  MaxSignals,   \* signals sent, a bound of the model
  NoLine        \* None, in _drain_line

ASSUME LineAssumption == {"drain", "stop", "request"} \subseteq Lines
ASSUME DrainAssumption == IsFiniteSet(Drainers) /\ NoLine \notin [running : BOOLEAN, interrupted : BOOLEAN]

VARIABLES
  main,          \* where main() is
  frames,        \* of the signal handlers on its stack, the innermost last
  signals,       \* signals so far
  signalled, interrupted,   \* _signalled_at is set; _interrupted
  asked,         \* serve_forever is asked to end
  drainer,       \* where each drain thread is
  drained, drainLine, drainClosed,   \* _drained, _drain_line, _drain_closed
  late,          \* whether the deadline of the drain has passed
  draining, running   \* JobStore: _draining; whether a job runs

(* For the properties: what the drain line said; whether the wait for it   *)
(* in server_close ended by its timeout; how close() ended.                *)
VARIABLES said, gaveUp, joined

jobs   == <<late, draining, running>>
signal == <<frames, signals, signalled, interrupted>>
drain  == <<drainer, drained, drainLine, drainClosed, said>>
vars   == <<main, signal, asked, drain, jobs, gaveUp, joined, log>>

Init ==
  /\ main = "starting" /\ frames = <<>> /\ signals = 0
  /\ signalled = FALSE /\ interrupted = FALSE /\ asked = FALSE
  /\ drainer = [d \in Drainers |-> "none"]
  /\ drained = FALSE /\ drainLine = NoLine /\ drainClosed = FALSE
  /\ late = FALSE /\ draining = FALSE /\ running \in BOOLEAN
  /\ said = NoLine /\ gaveUp = FALSE /\ joined = FALSE
  /\ LogInit
-----------------------------------------------------------------------------
(* stop(), called at any moment of main(), in stop() too.  The first       *)
(* signal goes on to Starts; a second asks serve_forever to end, from a    *)
(* thread of its own.  Mutant of Asks: only the drain thread asks.         *)
AsksNot == asked
Asks    == TRUE
Signal ==
  /\ main # "exited" /\ signals < MaxSignals /\ signals' = signals + 1
  /\ IF signalled
       THEN interrupted' = TRUE /\ asked' = Asks /\ UNCHANGED frames
       ELSE Len(frames) < Cardinality(Drainers) /\ frames' = Append(frames, "checked") /\ UNCHANGED <<interrupted, asked>>
  /\ UNCHANGED <<main, signalled, drain, jobs, gaveUp, joined, log>>

Top == frames[Len(frames)]
SetsTime ==
  /\ frames # <<>> /\ Top = "checked" /\ signalled' = TRUE
  /\ frames' = [frames EXCEPT ![Len(frames)] = "set"]
  /\ UNCHANGED <<main, signals, interrupted, asked, drain, jobs, gaveUp, joined, log>>
StartsDrain(d) ==
  /\ frames # <<>> /\ Top = "set" /\ drainer[d] = "none"
  /\ frames' = SubSeq(frames, 1, Len(frames) - 1) /\ drainer' = [drainer EXCEPT ![d] = "drain"]
  /\ UNCHANGED <<main, signals, signalled, interrupted, asked, drained, drainLine, drainClosed, said, jobs, gaveUp, joined, log>>
-----------------------------------------------------------------------------
(* Jobs start unless the store drains, and end; the deadline passes; other *)
(* threads log.                                                            *)
JobStarts == ~draining /\ ~running /\ main # "exited" /\ running' = TRUE /\ UNCHANGED <<late, draining>>
JobEnds   == running /\ running' = FALSE /\ UNCHANGED <<late, draining>>
Deadline  == signalled /\ ~late /\ late' = TRUE /\ UNCHANGED <<draining, running>>
Job == (JobStarts \/ JobEnds \/ Deadline) /\ UNCHANGED <<main, signal, asked, drain, gaveUp, joined, log>>
Others == (Check("request") \/ Emit) /\ UNCHANGED <<main, signal, asked, drain, jobs, gaveUp, joined>>

(* jobs.drain(), with the store's lock; it may take any time.              *)
Drains(d) ==
  /\ drainer[d] = "drain" /\ drainer' = [drainer EXCEPT ![d] = "loop"] /\ draining' = TRUE
  /\ UNCHANGED <<main, signal, asked, drained, drainLine, drainClosed, said, late, running, gaveUp, joined, log>>

(* The loop ends.                                                          *)
LoopEnds(d) ==
  /\ drainer[d] = "loop" /\ (interrupted \/ ~running \/ late)
  /\ drainer' = [drainer EXCEPT ![d] = IF active THEN "count" ELSE "publish"]
  /\ UNCHANGED <<main, signal, asked, drained, drainLine, drainClosed, said, jobs, gaveUp, joined, log>>

(* The snapshot, and with it the fields, published under the lock.         *)
(* Mutant: whether it was interrupted is not read again.                   *)
FieldsStale(r) == [running |-> r, interrupted |-> FALSE]
Fields(r)      == [running |-> r, interrupted |-> interrupted]
Counts(d) ==
  /\ drainer[d] = "count" /\ drainer' = [drainer EXCEPT ![d] = IF running THEN "some" ELSE "none left"]
  /\ UNCHANGED <<main, signal, asked, drained, drainLine, drainClosed, said, jobs, gaveUp, joined, log>>
Publishes(d) ==
  /\ drainer[d] \in {"some", "none left"} /\ drainer' = [drainer EXCEPT ![d] = "publish"]
  /\ drainLine' = Fields(drainer[d] = "some")
  /\ UNCHANGED <<main, signal, asked, drained, drainClosed, said, jobs, gaveUp, joined, log>>
Drained(d) ==
  /\ drainer[d] = "publish" /\ drainer' = [drainer EXCEPT ![d] = "write"] /\ drained' = TRUE
  /\ UNCHANGED <<main, signal, asked, drainLine, drainClosed, said, jobs, gaveUp, joined, log>>

(* _write_drain, under its lock.  Mutant: the fields stay.                 *)
StillThere == drainLine
Gone       == NoLine
OpenYet    == ~drainClosed
WriteDrain(last) ==
  /\ drainLine' = Gone /\ drainClosed' = (drainClosed \/ last)
  /\ IF drainLine # NoLine /\ OpenYet
       THEN Event("drain") /\ said' = drainLine
       ELSE UNCHANGED <<log, said>>
WritesDrain(d) ==
  /\ drainer[d] = "write" /\ drainer' = [drainer EXCEPT ![d] = "shutdown"] /\ WriteDrain(FALSE)
  /\ UNCHANGED <<main, signal, asked, drained, jobs, gaveUp, joined>>

(* shutdown() asks, and waits for serve_forever to have ended.             *)
AsksEnd(d) ==
  /\ drainer[d] = "shutdown" /\ drainer' = [drainer EXCEPT ![d] = "done"] /\ asked' = TRUE
  /\ UNCHANGED <<main, signal, drained, drainLine, drainClosed, said, jobs, gaveUp, joined, log>>
-----------------------------------------------------------------------------
(* main(), while no handler runs on its stack.                             *)
Goes(from, to) == frames = <<>> /\ main = from /\ main' = to /\ UNCHANGED <<signal, asked>>
Rest == <<drain, jobs, gaveUp, joined, log>>

Serves     == Goes("starting", "serving") /\ UNCHANGED Rest
ServingEnds == asked /\ Goes("serving", "closing") /\ UNCHANGED Rest

(* server_close: the listening socket and the busy drain, then the wait    *)
(* for the drain thread, if there is one.                                  *)
Waits ==
  /\ Goes("closing", "write")
  /\ \/ (drained \/ \A d \in Drainers : drainer[d] = "none") /\ UNCHANGED gaveUp
     \/ ~drained /\ (\E d \in Drainers : drainer[d] # "none") /\ gaveUp' = TRUE
  /\ UNCHANGED <<drain, jobs, joined, log>>
WritesLast == Goes("write", "jobs") /\ WriteDrain(TRUE) /\ UNCHANGED <<drainer, drained, jobs, gaveUp, joined>>

(* jobs.close() needs the store's lock.                                    *)
ClosesJobs ==
  /\ Goes("jobs", "stop") /\ \A d \in Drainers : drainer[d] # "drain"
  /\ running' = FALSE /\ UNCHANGED <<late, draining, drain, gaveUp, joined, log>>
WritesStop == Goes("stop", "log") /\ Event("stop") /\ UNCHANGED <<drain, jobs, gaveUp, joined>>
ClosesLog  == Goes("log", "end") /\ Deactivate /\ UNCHANGED <<drain, jobs, gaveUp, joined>>
PutsEnd ==
  /\ Goes("end", "join") /\ PutEnd /\ UNCHANGED <<drain, jobs, gaveUp, joined>>
GivesUpEnd ==
  /\ Goes("end", "exited") /\ QueueFull /\ UNCHANGED <<drain, jobs, gaveUp, joined>>
Joins ==
  /\ Goes("join", "exited") /\ joined' = (writer = "ended") /\ UNCHANGED <<drain, jobs, gaveUp, log>>

Main ==
  \/ SetsTime \/ \E d \in Drainers : StartsDrain(d)
  \/ Serves \/ ServingEnds \/ Waits \/ WritesLast \/ ClosesJobs \/ WritesStop
  \/ ClosesLog \/ PutsEnd \/ GivesUpEnd \/ Joins
DrainThread(d) == LoopEnds(d) \/ Counts(d) \/ Publishes(d) \/ Drained(d) \/ WritesDrain(d) \/ AsksEnd(d)
Logs == Writer /\ UNCHANGED <<main, signal, asked, drain, jobs, gaveUp, joined>>

Next ==
  \/ Signal \/ Job \/ Others \/ Main \/ Logs
  \/ \E d \in Drainers : Drains(d) \/ DrainThread(d)

(* The main thread, the writer and the drain threads outside of drain()    *)
(* are scheduled, and time passes; drain() may be held for ever.           *)
Fairness ==
  /\ WF_vars(Main) /\ WF_vars(Logs)
  /\ WF_vars(Deadline /\ Job) /\ \A d \in Drainers : WF_vars(DrainThread(d))

Spec == Init /\ [][Next]_vars /\ Fairness
-----------------------------------------------------------------------------
TypeOK ==
  /\ main \in {"starting", "serving", "closing", "write", "jobs", "stop", "log", "end", "join", "exited"}
  /\ frames \in Seq({"checked", "set"}) /\ signals \in 0..MaxSignals
  /\ {signalled, interrupted, asked, drained, drainClosed, late, draining, running, gaveUp, joined} \subseteq BOOLEAN
  /\ drainer \in [Drainers -> {"none", "drain", "loop", "count", "some", "none left", "publish", "write", "shutdown", "done"}]
  /\ {drainLine, said} \subseteq {NoLine} \cup [running : BOOLEAN, interrupted : BOOLEAN]
  /\ active \in BOOLEAN /\ stopped \in BOOLEAN /\ writer \in {"get", "write", "ended"}
  /\ Len(lines) <= QueueLines

(* Where a line was offered.                                               *)
Offers(l) == {i \in DOMAIN offered : offered[i] = l}

(* The drain line, whoever writes it: never after the stop line; once, if  *)
(* no signal came in the handler of the first; and there, before the stop  *)
(* line, unless server_close gave up waiting for it.                       *)
DrainLineOnce ==
  /\ \A i \in Offers("drain"), k \in Offers("stop") : i < k
  /\ Cardinality({d \in Drainers : drainer[d] # "none"}) = 1 => Cardinality(Offers("drain")) <= 1
  /\ Offers("stop") # {} /\ ~gaveUp => Offers("drain") # {}

(* A drain line that says jobs still run and that nobody interrupted it is *)
(* the deadline's.                                                         *)
HonestDrainLine == said # NoLine /\ said.running /\ ~said.interrupted => late

(* What the queue took of the stop line and the drain line is in the       *)
(* stream once close() has seen the writer end.                            *)
LastLinesWritten == joined => accepted \cap {"drain", "stop"} \subseteq written

(* A second signal ends serving even while drain() is held, and once it    *)
(* returns the process exits.                                              *)
SecondSignalStops ==
  /\ interrupted ~> main \notin {"starting", "serving"}
  /\ draining ~> main = "exited" \/ \E d \in Drainers : drainer[d] = "drain"
=============================================================================
