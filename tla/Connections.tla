---------------------------- MODULE Connections ----------------------------
(***************************************************************************)
(* The connections of worker/ai_bridge/server.py: the slots, the handler   *)
(* of one request, and the thread that drains connections refused for want *)
(* of a slot.  What a request says is an outcome of reading it; what the   *)
(* store says of it, an outcome of Act.                                    *)
(*                                                                         *)
(* Time is a budget per deadline, counted down by Tick(c).  Connections    *)
(* share nothing that depends on the time, so each has its own clock.      *)
(***************************************************************************)
EXTENDS Integers, FiniteSets

CONSTANTS
  Conns,                  \* connections; one that ends may come again
  Slots, BusyCap,         \* BoundedSemaphore(32), BUSY_DRAIN_CAP
  Read, Linger, BusyRead, \* READ_SECONDS, LINGER_SECONDS, BUSY_DRAIN_SECONDS, in ticks
  Room                    \* how much is read of a head, a body or while lingering

ASSUME BudgetAssumption ==
  /\ {Slots, BusyCap, Read, Linger, BusyRead, Room} \subseteq Nat \ {0}
  /\ Linger <= Read

VARIABLES
  conn,      \* of each connection, the fields below
  slots,     \* self.slots
  busySlots, queue, pending, stopped,   \* _BusyDrain: _slots, _queue, _run's pending, _stopped
  thread, ready      \* where its thread is; what its selector found readable

(* at: where the connection is.  read: until _Head._deadline, or until the *)
(* deadline of the busy drain.  send: what is left of the time of a send.  *)
(* room: bytes until the limit, the end of the body or LINGER_BYTES.       *)
(* unread: _unread_input.  replies: replies begun; _replying says whether  *)
(* there is one.  reply: what it says.  within: whether it is written in   *)
(* the try of do_POST.  whole: whether _status is set.  For the properties *)
(* only: accepted, whether the store took a job of this request; held, for *)
(* how long it has had its slot.                                           *)
Away == [at |-> "away", read |-> 0, send |-> 0, room |-> 0, unread |-> FALSE, replies |-> 0,
         reply |-> "none", within |-> FALSE, whole |-> FALSE, accepted |-> FALSE, held |-> 0]

busy == <<busySlots, queue, pending, stopped, thread, ready>>
vars == <<conn, slots, busy>>

Reading  == {"head", "body", "linger"}
Writing  == {"headers", "content"}
Handled  == Reading \cup Writing \cup {"starting", "get", "post", "finish", "closed"}
In(S)    == {c \in Conns : conn[c].at \in S}
Least(a, b) == IF a <= b THEN a ELSE b

Init ==
  /\ conn = [c \in Conns |-> Away] /\ slots = Slots
  /\ busySlots = BusyCap /\ queue = {} /\ pending = {} /\ stopped = FALSE
  /\ thread = "take" /\ ready = {}

(* A step of the thread that handles c, which leaves c as r.               *)
Becomes(c, r) == conn' = [conn EXCEPT ![c] = r] /\ UNCHANGED <<slots, busy>>
-----------------------------------------------------------------------------
(* process_request: a slot, and a thread for the connection, which the     *)
(* system may refuse; process_request_thread closes it, then lets go of    *)
(* the slot.  No accept follows the end of serve_forever.                  *)
Accept(c) ==
  /\ ~stopped /\ conn[c].at = "away" /\ slots > 0
  /\ slots' = slots - 1 /\ conn' = [conn EXCEPT ![c].at = "starting"] /\ UNCHANGED busy

StartFails(c) ==
  /\ conn[c].at = "starting" /\ conn' = [conn EXCEPT ![c] = Away] /\ slots' = slots + 1
  /\ UNCHANGED busy

Release(c) ==
  /\ conn[c].at = "closed" /\ conn' = [conn EXCEPT ![c] = Away] /\ slots' = slots + 1
  /\ UNCHANGED busy

(* setup() and the start of handle_one_request.                            *)
Start(c) ==
  /\ conn[c].at = "starting"
  /\ Becomes(c, [conn[c] EXCEPT !.at = "head", !.read = Read, !.room = Room, !.unread = TRUE])

(* A unit of time, for what c waits for.  At 0 the deadline is near: what  *)
(* is waited for may still come before it.                                 *)
Tick(c) ==
  LET r == conn[c] IN
  /\ \/ r.at \in Reading \cup {"refused"} /\ r.read > 0
     \/ r.at \in Writing /\ r.send > 0
  /\ Becomes(c, [r EXCEPT !.read = IF @ > 0 THEN @ - 1 ELSE 0,
                          !.send = IF r.at \in Writing THEN @ - 1 ELSE @,
                          !.held = IF r.at \in Handled THEN @ + 1 ELSE @])

(* _pull: some bytes arrive; the deadline stays where it was.  Mutant: it  *)
(* moves, as a timeout per receive would.                                  *)
LeftAnew(c) == Read
Left(c)     == conn[c].read
Pull(c) ==
  /\ conn[c].at \in Reading /\ conn[c].room > 0
  /\ Becomes(c, [conn[c] EXCEPT !.room = @ - 1, !.read = Left(c)])

(* _send up to its first write, of r; r once all is written or given up.   *)
(* What nothing reads any more is 0.                                       *)
Replying(r, says, within) ==
  [r EXCEPT !.at = "headers", !.send = Read, !.replies = @ + 1, !.reply = says, !.within = within,
            !.read = IF r.unread THEN @ ELSE 0, !.room = 0]
Finishing(r) == [r EXCEPT !.at = "finish", !.send = 0, !.within = FALSE, !.read = IF r.whole /\ r.unread THEN @ ELSE 0, !.room = 0]
Ended == [Away EXCEPT !.at = "closed"]

(* The head is read: it is too large, malformed, not allowed, or what it   *)
(* asks for needs no body; parse_request says whether one was announced.   *)
Head(c) ==
  /\ conn[c].at = "head"
  /\ \E announced \in BOOLEAN : LET r == [conn[c] EXCEPT !.unread = announced] IN
       \/ announced /\ conn[c].room = 0 /\ Becomes(c, Replying(r, "other", FALSE))
       \/ conn[c].room > 0 /\ \E next \in {[r EXCEPT !.at = "get"], Replying(r, "other", FALSE)} : Becomes(c, next)

(* _body accepts the length: the reader's deadline starts anew.            *)
StartBody(c) ==
  /\ conn[c].at = "head" /\ conn[c].room > 0
  /\ Becomes(c, [conn[c] EXCEPT !.at = "body", !.read = Read, !.room = Room])

(* The body is all there; it may not be JSON, or not the contract's.       *)
Body(c) ==
  LET r == [conn[c] EXCEPT !.unread = FALSE] IN
  /\ conn[c].at = "body" /\ conn[c].room = 0
  /\ \E next \in {[r EXCEPT !.at = "post"], Replying(r, "other", FALSE)} : Becomes(c, next)

(* do_GET, and do_POST once it has its body.  What its except clauses      *)
(* reply is outside of the try; 404 is within.                             *)
Act(c) ==
  LET r == conn[c] IN
  \/ r.at = "get" /\ Becomes(c, Replying(r, "other", FALSE))
  \/ r.at = "post" /\ \E within \in BOOLEAN : Becomes(c, Replying(r, "other", within))
  \/ r.at = "post" /\ Becomes(c, Replying([r EXCEPT !.accepted = TRUE], "accepted", TRUE))

(* A write ends; the reply is whole after the second.                      *)
Written(c) ==
  LET r == conn[c] IN
  /\ r.at \in Writing
  /\ Becomes(c, IF r.at = "headers" THEN [r EXCEPT !.at = "content", !.send = Read]
                                    ELSE Finishing([r EXCEPT !.whole = TRUE]))

(* "A reply that timed out while being written already began; a second     *)
(* response would corrupt it."  Mutant: the check is not there.            *)
MayAlways(r) == TRUE
MayReply(r)  == r.replies = 0
TimedOut(c) ==
  LET r == conn[c] IN
  /\ \/ r.at \in Reading /\ r.read = 0
     \/ r.at \in Writing /\ r.send = 0
  /\ Becomes(c, IF (r.at = "body" \/ (r.at \in Writing /\ r.within)) /\ MayReply(r) THEN Replying(r, "other", FALSE)
                ELSE IF r.at = "linger" THEN Ended ELSE Finishing(r))

(* The peer ends or resets the connection: only a body cut short gets a    *)
(* reply.                                                                  *)
PeerGone(c) ==
  LET r == conn[c] IN
  \/ r.at = "body" /\ Becomes(c, Replying(r, "other", FALSE))
  \/ r.at \in Reading \cup Writing /\ Becomes(c, IF r.at = "linger" THEN Ended ELSE Finishing(r))

(* finish(): a whole reply is delivered before unread input would reset    *)
(* the connection; lingering ends by the reader's deadline at the latest.  *)
(* Mutant: by a deadline of its own.                                       *)
LingerFrom(c) == Linger
LingerLeft(c) == Least(conn[c].read, Linger)
Finish(c) ==
  LET r == conn[c] IN
  /\ r.at = "finish"
  /\ \/ r.whole /\ r.unread /\ Becomes(c, [r EXCEPT !.at = "linger", !.read = LingerLeft(c), !.room = Room])
     \/ Becomes(c, Ended)

LingerDone(c) == conn[c].at = "linger" /\ conn[c].room = 0 /\ Becomes(c, Ended)
-----------------------------------------------------------------------------
(* Without a slot: one send that does not block.  If all of it went out    *)
(* and add() takes it, the drain thread reads what still comes; otherwise  *)
(* the connection is closed here.                                          *)
Admits == busySlots > 0 /\ ~stopped
Refuse(c) ==
  /\ conn[c].at = "away" /\ slots = 0 /\ Admits
  /\ conn' = [conn EXCEPT ![c] = [Away EXCEPT !.at = "refused", !.read = BusyRead, !.room = Room]]
  /\ queue' = queue \cup {c} /\ busySlots' = busySlots - 1
  /\ UNCHANGED <<slots, pending, stopped, thread, ready>>

(* _close for each of S; what is left pending then.                        *)
Closed(S, rest) ==
  /\ conn' = [c \in Conns |-> IF c \in S THEN Away ELSE conn[c]]
  /\ pending' = rest /\ busySlots' = busySlots + Cardinality(S)

Take ==
  /\ thread = "take" /\ ~stopped /\ queue \cup pending # {}
  /\ pending' = pending \cup queue /\ queue' = {} /\ thread' = "select"
  /\ UNCHANGED <<conn, slots, busySlots, stopped, ready>>

(* Some cannot be registered; of the others some become readable.          *)
Select(bad, found) ==
  /\ thread = "select" /\ Closed(bad, pending \ bad) /\ ready' = found
  /\ thread' = IF pending' = {} THEN "sweep" ELSE "receive"
  /\ UNCHANGED <<queue, slots, stopped>>

(* One readable connection: more to come, nothing after all, or its end.   *)
Receive(c) ==
  /\ thread = "receive" /\ c \in ready /\ ready' = ready \ {c}
  /\ \/ Closed({c}, pending \ {c})
     \/ /\ conn[c].read > 0 /\ \E left \in 1..conn[c].room : conn' = [conn EXCEPT ![c].room = left]
        /\ UNCHANGED <<pending, busySlots>>
  /\ UNCHANGED <<queue, thread, slots, stopped>>

Received ==
  /\ thread = "receive" /\ ready = {} /\ thread' = "sweep"
  /\ UNCHANGED <<conn, slots, queue, pending, busySlots, stopped, ready>>

(* "An unattributed selector failure must not leave sockets on a dead      *)
(* drain thread."  Mutant: pending is not cleared, so sweep closes it and  *)
(* releases its slots again.                                               *)
Uncleared == pending
Cleared   == {}
SelectorFails ==
  /\ thread \in {"select", "receive"} /\ thread' = "sweep" /\ ready' = {}
  /\ Closed(pending, Cleared)
  /\ UNCHANGED <<queue, slots, stopped>>

(* The finally clause: what is past its deadline goes.  Mutant: none.      *)
NoneLate == {}
Late     == {c \in pending : conn[c].read = 0}
Sweep ==
  /\ thread = "sweep" /\ thread' = "take" /\ Closed(Late, pending \ Late)
  /\ UNCHANGED <<queue, ready, slots, stopped>>

End ==
  /\ thread = "take" /\ stopped /\ thread' = "ended" /\ queue' = {}
  /\ Closed(pending \cup queue, {}) /\ UNCHANGED <<ready, slots, stopped>>

(* shutdown() and server_close(), once serve_forever accepts no more.      *)
StopBusy == ~stopped /\ stopped' = TRUE /\ UNCHANGED <<conn, slots, busySlots, queue, pending, thread, ready>>

(* What the handler of c does once it has what it reads, and what its peer *)
(* does.                                                                   *)
Handle(c) ==
  \/ Start(c) \/ Act(c) \/ TimedOut(c) \/ Finish(c) \/ LingerDone(c) \/ Release(c) \/ Body(c)
  \/ conn[c].room = 0 /\ Head(c)
Peer(c) == Pull(c) \/ Head(c) \/ StartBody(c) \/ Written(c) \/ PeerGone(c)
Drain ==
  \/ Take \/ Received \/ SelectorFails \/ Sweep \/ End
  \/ \E bad \in SUBSET pending : \E found \in SUBSET (pending \ bad) : Select(bad, found)
  \/ \E c \in Conns : Receive(c)

Next ==
  \/ \E c \in Conns : Accept(c) \/ StartFails(c) \/ Refuse(c) \/ Tick(c) \/ Handle(c) \/ Peer(c)
  \/ Drain \/ StopBusy

Fairness ==
  /\ WF_vars(Drain)
  /\ \A c \in Conns : WF_vars(Handle(c) \/ Tick(c))

Spec == Init /\ [][Next]_vars /\ Fairness
-----------------------------------------------------------------------------
TypeOK ==
  /\ conn \in [Conns -> [at : Handled \cup {"away", "refused"}, read : 0..(Read + BusyRead), send : 0..Read, room : 0..Room,
                         unread : BOOLEAN, replies : Nat, reply : {"none", "accepted", "other"},
                         within : BOOLEAN, whole : BOOLEAN, accepted : BOOLEAN, held : Nat]]
  /\ slots \in 0..Slots /\ busySlots \in 0..BusyCap /\ stopped \in BOOLEAN
  /\ queue \subseteq Conns /\ pending \subseteq Conns /\ ready \subseteq pending
  /\ thread \in {"take", "select", "receive", "sweep", "ended"}

(* Each slot is held by exactly one open connection, on every path: a      *)
(* thread that does not start, a drain whose selector fails or that stops  *)
(* while connections are on their way to it.  A slot lost stays lost.      *)
SlotsBalance ==
  /\ slots + Cardinality(In(Handled)) = Slots
  /\ busySlots + Cardinality(In({"refused"})) = BusyCap
  /\ In({"refused"}) = queue \cup pending /\ queue \cap pending = {}
  /\ thread = "ended" => queue = {}

(* A connection gets at most one reply, and no refusal of a job the store  *)
(* has taken, even when the reply that says so times out half written.     *)
HonestReplies ==
  \A c \in Conns : conn[c].replies <= 1 /\ (conn[c].accepted => conn[c].reply = "accepted")

(* However slowly a peer sends and reads, and though lingering comes last, *)
(* it holds a slot for the head, the body and two writes and no longer.    *)
BoundedHold == \A c \in Conns : conn[c].held <= 4 * Read

(* Every connection accepted or refused is closed in the end.              *)
SocketsClose == \A c \in Conns : conn[c].at # "away" ~> conn[c].at = "away"
=============================================================================
