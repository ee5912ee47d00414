------------------------------ MODULE LogQueue ------------------------------
(***************************************************************************)
(* worker/ai_bridge/log.py: lines are put in a bounded queue without       *)
(* waiting, and one daemon thread writes them to the stream.  Who puts     *)
(* which line, and when close() is called, is left to the module that      *)
(* extends this one.                                                       *)
(***************************************************************************)
EXTENDS Integers, Sequences

CONSTANTS
  Lines,        \* the lines told apart
  End,          \* None, the end marker in the queue
  QueueLines    \* QUEUE_LINES

ASSUME LogAssumption == End \notin Lines /\ QueueLines \in Nat \ {0}

VARIABLES
  active,    \* _active is set, the handler attached: before close()
  lines,     \* the queue
  stopped,   \* the event close() sets
  writer,    \* "get", "write" or "ended"
  line,      \* what the writer has taken
  blocked,   \* whether the stream takes nothing any more
  emitter    \* the line of a thread past the check of _active, or End

(* For the properties: lines offered, taken by the queue, and written.     *)
VARIABLES offered, accepted, written

log    == <<active, lines, stopped, writer, line, blocked, emitter, offered, accepted, written>>
states == <<writer, line, blocked, written>>

LogInit ==
  /\ active = TRUE /\ lines = <<>> /\ stopped = FALSE /\ writer = "get" /\ line = End
  /\ blocked \in BOOLEAN /\ emitter = End
  /\ offered = <<>> /\ accepted = {} /\ written = {}

(* put_nowait: a full queue drops the line.                                *)
Put(l) ==
  /\ lines' = IF Len(lines) < QueueLines THEN Append(lines, l) ELSE lines
  /\ accepted' = IF Len(lines) < QueueLines THEN accepted \cup {l} ELSE accepted

(* event(), by a thread that close() cannot overtake.                      *)
Event(l) ==
  /\ IF active THEN Put(l) /\ offered' = Append(offered, l) ELSE UNCHANGED <<lines, accepted, offered>>
  /\ UNCHANGED <<active, stopped, emitter, states>>

(* event(), by one that it can: the check, then the put.                   *)
Check(l) ==
  /\ active /\ emitter = End /\ emitter' = l
  /\ UNCHANGED <<active, lines, stopped, offered, accepted, states>>
Emit ==
  /\ emitter # End /\ emitter' = End /\ Put(emitter)
  /\ UNCHANGED <<active, stopped, offered, states>>

(* close(): no more events; the end marker, for which a full queue is      *)
(* waited for a second.                                                    *)
Deactivate == active' = FALSE /\ stopped' = TRUE /\ UNCHANGED <<lines, emitter, offered, accepted, states>>
PutEnd ==
  /\ Len(lines) < QueueLines /\ lines' = Append(lines, End)
  /\ UNCHANGED <<active, stopped, emitter, offered, accepted, states>>
QueueFull == Len(lines) = QueueLines /\ UNCHANGED log

(* _write.  "close() could not queue the end when the queue was full: it   *)
(* ends here once the queue is empty."  Mutants: it ends before the queue  *)
(* is empty; only the marker ends it.                                      *)
MayEndEarly == stopped
MayEndNever == FALSE
MayEnd      == stopped /\ lines = <<>>
Get ==
  /\ writer = "get"
  /\ \/ /\ MayEnd /\ writer' = "ended" /\ UNCHANGED <<line, lines>>
     \/ /\ lines # <<>> /\ lines' = Tail(lines)
        /\ IF Head(lines) = End THEN writer' = "ended" /\ UNCHANGED line
                                ELSE writer' = "write" /\ line' = Head(lines)
  /\ UNCHANGED <<active, stopped, blocked, emitter, offered, accepted, written>>
Write ==
  /\ writer = "write" /\ ~blocked /\ writer' = "get" /\ line' = End /\ written' = written \cup {line}
  /\ UNCHANGED <<active, lines, stopped, blocked, emitter, offered, accepted>>

Writer == Get \/ Write

(* A queue too full for the marker still ends the writer, when the stream  *)
(* takes what is in it, so configure() can start another.                  *)
WriterEnds == stopped /\ ~blocked ~> writer = "ended"
=============================================================================
