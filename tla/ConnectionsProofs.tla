------------------------- MODULE ConnectionsProofs --------------------------
(***************************************************************************)
(* Connections for any number of peers, any slots and any budgets.         *)
(***************************************************************************)
EXTENDS Connections, FiniteSetTheorems, TLAPS

Record == [at : Handled \cup {"away", "refused"}, read : Nat, send : Nat, room : Nat, unread : BOOLEAN,
           replies : Nat, reply : {"none", "accepted", "other"}, within : BOOLEAN, whole : BOOLEAN,
           accepted : BOOLEAN, held : Nat]

(* What a connection has been told: nothing before its reply.              *)
Told(r) ==
  /\ r.replies <= 1
  /\ r.accepted => r.reply = "accepted"
  /\ r.at \in {"away", "refused", "starting", "head", "get", "body", "post"} => r.replies = 0 /\ ~r.accepted
  /\ r.at \in {"headers", "content"} => r.replies = 1

(* How long it has held its slot, and how much longer it may: the time it  *)
(* still has for reading is all it had for that and has not used.          *)
Spent(r) ==
  /\ r.at \in {"away", "refused", "starting", "closed"} => r.held = 0
  /\ r.at \in {"head", "get"} => r.held + r.read <= Read
  /\ r.at \in {"body", "post"} => r.held + r.read <= 2 * Read
  /\ r.at = "headers" => r.held + r.send <= 3 * Read
  /\ r.at = "content" => r.held + r.send <= 4 * Read
  /\ r.at = "finish" => r.held <= 4 * Read
  /\ r.at = "linger" => r.held + r.read <= 4 * Read
  /\ r.at \in {"headers", "content", "finish"} /\ r.read > 0 => r.held + r.read <= 2 * Read

Good(r)  == r \in Record /\ Told(r) /\ Spent(r)
ConnInv  == conn \in [Conns -> Record] /\ \A c \in Conns : Good(conn[c])

(* Who holds the slots, and where the drain thread's connections are.      *)
SlotsInv ==
  /\ IsFiniteSet(In(Handled)) /\ IsFiniteSet(In({"refused"}))
  /\ slots \in Int /\ busySlots \in Int
  /\ SlotsBalance
  /\ ready \subseteq pending /\ (thread # "receive" => ready = {})
  /\ thread = "ended" => stopped /\ pending = {}
-----------------------------------------------------------------------------
(* The thread that handles c leaves it as r, and neither takes nor returns *)
(* a slot.                                                                 *)
Stays(c, r) ==
  /\ Becomes(c, r) /\ Good(r)
  /\ r.at \in Handled <=> conn[c].at \in Handled
  /\ r.at = "refused" <=> conn[c].at = "refused"

LEMMA Budgets == /\ Slots \in Nat /\ BusyCap \in Nat /\ Read \in Nat /\ Linger \in Nat
                 /\ BusyRead \in Nat /\ Room \in Nat /\ Linger <= Read
<1>1. \A x \in {Slots, BusyCap, Read, Linger, BusyRead, Room} : x \in Nat BY BudgetAssumption
<1> QED BY <1>1, BudgetAssumption

(* What a reply leaves: the time for the first write begins.               *)
LEMMA ReplyingIsGood ==
  ASSUME NEW r, r \in Record, NEW says \in {"accepted", "other"}, NEW within \in BOOLEAN,
         r.replies = 0, r.accepted => says = "accepted", r.held + r.read <= 2 * Read
  PROVE  Good(Replying(r, says, within)) /\ Replying(r, says, within).at = "headers"
<1>1. Read \in Nat BY Budgets
<1> DEFINE t == Replying(r, says, within)
<1>21. r.replies + 1 \in Nat /\ r.read \in Nat BY DEF Record
<1>22. "headers" \in Handled BY DEF Handled, Writing
<1> DEFINE x == IF r.unread THEN r.read ELSE 0
<1> DEFINE u == [r EXCEPT !.at = "headers", !.send = Read, !.replies = r.replies + 1, !.reply = says]
<1>23. u \in Record BY <1>1, <1>21, <1>22 DEF Record
<1>24. [u EXCEPT !.within = within, !.read = x, !.room = 0] \in Record
  <2>1. x \in Nat BY <1>21
  <2> HIDE DEF x, u
  <2> QED BY <1>23, <2>1 DEF Record
<1>25. t = [u EXCEPT !.within = within, !.read = x, !.room = 0] BY DEF Replying, Record
<1>2. t \in Record BY <1>24, <1>25
<1>3. /\ t.at = "headers" /\ t.send = Read /\ t.replies = 1 /\ t.reply = says /\ t.held = r.held
      /\ t.accepted = r.accepted /\ (t.read = r.read \/ t.read = 0)
  BY DEF Replying, Record
<1>4. r.held \in Nat /\ r.read \in Nat BY DEF Record
<1>5. Told(t) BY <1>3 DEF Told
<1>6. Spent(t) BY <1>1, <1>3, <1>4 DEF Spent
<1> QED BY <1>2, <1>3, <1>5, <1>6 DEF Good

(* What giving up or having written all leaves.                            *)
LEMMA FinishingIsGood ==
  ASSUME NEW r, r \in Record, r.replies <= 1, r.accepted => r.reply = "accepted", r.held <= 4 * Read,
         r.whole /\ r.read > 0 => r.held + r.read <= 2 * Read
  PROVE  Good(Finishing(r)) /\ Finishing(r).at = "finish"
<1>1. Read \in Nat BY Budgets
<1> DEFINE t == Finishing(r)
<1>2. t \in Record BY <1>1 DEF Finishing, Record, Handled, Reading, Writing
<1>3. /\ t.at = "finish" /\ t.replies = r.replies /\ t.reply = r.reply /\ t.held = r.held
      /\ t.accepted = r.accepted /\ (t.read = 0 \/ (r.whole /\ t.read = r.read))
  BY DEF Finishing, Record
<1>4. r.held \in Nat /\ r.read \in Nat BY DEF Record
<1>5. Told(t) BY <1>3 DEF Told
<1>6. Spent(t) BY <1>1, <1>3, <1>4 DEF Spent
<1> QED BY <1>2, <1>3, <1>5, <1>6 DEF Good

LEMMA EndedIsGood == Good(Ended) /\ Ended.at = "closed" /\ Good(Away) /\ Away.at = "away"
<1>1. Read \in Nat BY Budgets
<1>2. Away \in Record /\ Away.at = "away" /\ Told(Away) /\ Spent(Away)
  BY <1>1 DEF Told, Spent, Away, Record
<1>3. "closed" \in Handled BY DEF Handled
<1>4. Ended \in Record /\ Ended.at = "closed" BY <1>2, <1>3 DEF Ended, Record
<1>5. Told(Ended) /\ Spent(Ended) BY <1>1 DEF Told, Spent, Ended, Away
<1> QED BY <1>2, <1>4, <1>5 DEF Good
-----------------------------------------------------------------------------
(* Each step of the thread that handles c, or of time.                     *)
LEMMA Reached ==
  ASSUME NEW c \in Conns, ConnInv
  PROVE  /\ conn[c] \in Record /\ Told(conn[c]) /\ Spent(conn[c])
         /\ conn[c].held \in Nat /\ conn[c].read \in Nat /\ conn[c].send \in Nat /\ conn[c].room \in Nat
         /\ conn[c].replies \in Nat
<1>1. Good(conn[c]) BY DEF ConnInv
<1>2. conn[c] \in Record BY <1>1 DEF Good
<1> QED BY <1>1, <1>2 DEF Good, Record

LEMMA StartStays ==
  ASSUME NEW c \in Conns, ConnInv, Start(c) PROVE \E r : Stays(c, r)
<1> DEFINE r == conn[c]  t == [r EXCEPT !.at = "head", !.read = Read, !.room = Room, !.unread = TRUE]
<1>1. r \in Record /\ Told(r) /\ Spent(r) BY Reached
<1>2. "head" \in Handled BY DEF Handled, Reading
<1>3. Becomes(c, t) /\ r.at = "starting" BY DEF Start
<1>4. t \in Record BY <1>1, <1>2, Budgets DEF Record
<1>5. t.at = "head" /\ t.read = Read /\ t.held = r.held /\ t.replies = r.replies /\ t.accepted = r.accepted
  BY <1>1 DEF Record
<1>6. Told(t) BY <1>1, <1>3, <1>5 DEF Told
<1>7. Spent(t) BY <1>1, <1>3, <1>5, Budgets DEF Spent
<1>8. r.at \in Handled BY <1>3 DEF Handled
<1> QED BY <1>2, <1>3, <1>4, <1>5, <1>6, <1>7, <1>8 DEF Stays, Good

LEMMA StartBodyStays ==
  ASSUME NEW c \in Conns, ConnInv, StartBody(c) PROVE \E r : Stays(c, r)
<1> DEFINE r == conn[c]  t == [r EXCEPT !.at = "body", !.read = Read, !.room = Room]
<1>1. r \in Record /\ Told(r) /\ Spent(r) /\ r.held \in Nat /\ r.read \in Nat BY Reached
<1>2. "body" \in Handled BY DEF Handled, Reading
<1>3. Becomes(c, t) /\ r.at = "head" BY DEF StartBody
<1>4. t \in Record BY <1>1, <1>2, Budgets DEF Record
<1>5. t.at = "body" /\ t.read = Read /\ t.held = r.held /\ t.replies = r.replies /\ t.accepted = r.accepted
  BY <1>1 DEF Record
<1>6. Told(t) BY <1>1, <1>3, <1>5 DEF Told
<1>7. Spent(t) BY <1>1, <1>3, <1>5, Budgets DEF Spent
<1>8. r.at \in Handled BY <1>3 DEF Handled, Reading
<1> QED BY <1>2, <1>3, <1>4, <1>5, <1>6, <1>7, <1>8 DEF Stays, Good

LEMMA PullStays ==
  ASSUME NEW c \in Conns, ConnInv, Pull(c) PROVE \E r : Stays(c, r)
<1> DEFINE r == conn[c]  t == [r EXCEPT !.room = r.room - 1, !.read = r.read]
<1>1. r \in Record /\ Told(r) /\ Spent(r) /\ r.read \in Nat /\ r.room \in Nat BY Reached
<1>2. Becomes(c, t) /\ r.at \in Reading /\ r.room > 0 BY DEF Pull, Left
<1>3. r.room - 1 \in Nat BY <1>1, <1>2
<1>4. t \in Record BY <1>1, <1>3 DEF Record
<1>5. /\ t.at = r.at /\ t.read = r.read /\ t.send = r.send /\ t.held = r.held /\ t.replies = r.replies
      /\ t.accepted = r.accepted /\ t.reply = r.reply
  BY <1>1 DEF Record
<1>6. Told(t) BY <1>1, <1>5 DEF Told
<1>7. Spent(t) BY <1>1, <1>5 DEF Spent
<1> QED BY <1>2, <1>4, <1>5, <1>6, <1>7 DEF Stays, Good

LEMMA TickStays ==
  ASSUME NEW c \in Conns, ConnInv, Tick(c) PROVE \E r : Stays(c, r)
<1> DEFINE r == conn[c]
           read == IF r.read > 0 THEN r.read - 1 ELSE 0
           send == IF r.at \in Writing THEN r.send - 1 ELSE r.send
           held == IF r.at \in Handled THEN r.held + 1 ELSE r.held
           t == [r EXCEPT !.read = read, !.send = send, !.held = held]
<1>1. r \in Record /\ Told(r) /\ Spent(r) /\ r.read \in Nat /\ r.send \in Nat /\ r.held \in Nat BY Reached
<1>2. Becomes(c, t) BY DEF Tick
<1>3. (r.at \in Reading \cup {"refused"} /\ r.read > 0) \/ (r.at \in Writing /\ r.send > 0) BY DEF Tick
<1>4. read \in Nat /\ send \in Nat /\ held \in Nat BY <1>1, <1>3 DEF Reading, Writing
<1>5. /\ (r.read > 0 => read = r.read - 1) /\ (r.read = 0 => read = 0)
      /\ (r.at \in Writing => send = r.send - 1) /\ (r.at \in Reading \cup Writing => held = r.held + 1)
      /\ (r.at = "refused" => held = r.held)
  BY <1>1 DEF Handled, Reading, Writing
<1> HIDE DEF read, send, held
<1>6. t \in Record BY <1>1, <1>4 DEF Record
<1>7. /\ t.at = r.at /\ t.read = read /\ t.send = send /\ t.held = held /\ t.replies = r.replies
      /\ t.accepted = r.accepted /\ t.reply = r.reply
  BY <1>1 DEF Record
<1> HIDE DEF t
<1>8. Told(t) BY <1>1, <1>7 DEF Told
<1>9. Spent(t)
  <2>1. CASE r.at = "refused" BY <1>1, <1>5, <1>7, <2>1 DEF Spent
  <2>2. CASE r.at \in Reading /\ r.read > 0
    BY <1>1, <1>4, <1>5, <1>7, <2>2, Budgets DEF Spent, Reading
  <2>3. CASE r.at \in Writing /\ r.send > 0
    <3>1. send = r.send - 1 /\ held = r.held + 1 BY <1>5, <2>3
    <3>2. read > 0 => r.read > 0 /\ read = r.read - 1 BY <1>1, <1>5
    <3>3. CASE r.at = "headers"
      BY <1>1, <1>4, <1>7, <3>1, <3>2, <3>3, Budgets DEF Spent
    <3>4. CASE r.at = "content"
      BY <1>1, <1>4, <1>7, <3>1, <3>2, <3>4, Budgets DEF Spent
    <3> QED BY <2>3, <3>3, <3>4 DEF Writing
  <2> QED BY <1>3, <2>1, <2>2, <2>3
<1> QED BY <1>2, <1>6, <1>7, <1>8, <1>9 DEF Stays, Good, t

LEMMA HeadStays ==
  ASSUME NEW c \in Conns, ConnInv, Head(c) PROVE \E r : Stays(c, r)
<1>1. /\ conn[c] \in Record /\ Told(conn[c]) /\ Spent(conn[c])
      /\ conn[c].held \in Nat /\ conn[c].read \in Nat
  BY Reached
<1>2. conn[c].at = "head" /\ conn[c].at \in Handled BY DEF Head, Handled, Reading
<1>3. PICK announced \in BOOLEAN :
        \/ Becomes(c, Replying([conn[c] EXCEPT !.unread = announced], "other", FALSE))
        \/ Becomes(c, [conn[c] EXCEPT !.unread = announced, !.at = "get"])
  BY DEF Head
<1> DEFINE r == [conn[c] EXCEPT !.unread = announced]
           t == [conn[c] EXCEPT !.unread = announced, !.at = "get"]
<1>4. /\ r \in Record /\ r.replies = 0 /\ ~r.accepted /\ r.held = conn[c].held /\ r.read = conn[c].read
  BY <1>1, <1>2 DEF Told, Record
<1>5. CASE Becomes(c, Replying(r, "other", FALSE))
  <2>1. r.held + r.read <= 2 * Read BY <1>1, <1>2, <1>4, Budgets DEF Spent
  <2> HIDE DEF r
  <2>2. Good(Replying(r, "other", FALSE)) /\ Replying(r, "other", FALSE).at = "headers"
    BY <1>4, <2>1, ReplyingIsGood
  <2> QED BY <1>2, <1>5, <2>2 DEF Stays, Handled, Writing
<1>6. CASE Becomes(c, t)
  <2>1. "get" \in Handled BY DEF Handled
  <2>2. t \in Record BY <1>1, <2>1 DEF Record
  <2>3. t.at = "get" /\ t.held = conn[c].held /\ t.read = conn[c].read /\ t.replies = 0 /\ ~t.accepted
    BY <1>1, <1>2 DEF Record, Told
  <2>4. Told(t) BY <2>3 DEF Told
  <2>5. Spent(t) BY <1>1, <1>2, <2>3 DEF Spent
  <2> QED BY <1>2, <1>6, <2>1, <2>2, <2>3, <2>4, <2>5 DEF Stays, Good
<1> QED BY <1>3, <1>5, <1>6

LEMMA BodyStays ==
  ASSUME NEW c \in Conns, ConnInv, Body(c) PROVE \E r : Stays(c, r)
<1>1. /\ conn[c] \in Record /\ Told(conn[c]) /\ Spent(conn[c])
      /\ conn[c].held \in Nat /\ conn[c].read \in Nat
  BY Reached
<1>2. conn[c].at = "body" /\ conn[c].at \in Handled BY DEF Body, Handled, Reading
<1> DEFINE r == [conn[c] EXCEPT !.unread = FALSE]
           t == [conn[c] EXCEPT !.unread = FALSE, !.at = "post"]
<1>3. Becomes(c, Replying(r, "other", FALSE)) \/ Becomes(c, t) BY DEF Body
<1>4. /\ r \in Record /\ r.replies = 0 /\ ~r.accepted /\ r.held = conn[c].held /\ r.read = conn[c].read
  BY <1>1, <1>2 DEF Told, Record
<1>5. CASE Becomes(c, Replying(r, "other", FALSE))
  <2>1. r.held + r.read <= 2 * Read BY <1>1, <1>2, <1>4, Budgets DEF Spent
  <2> HIDE DEF r
  <2>2. Good(Replying(r, "other", FALSE)) /\ Replying(r, "other", FALSE).at = "headers"
    BY <1>4, <2>1, ReplyingIsGood
  <2> QED BY <1>2, <1>5, <2>2 DEF Stays, Handled, Writing
<1>6. CASE Becomes(c, t)
  <2>1. "post" \in Handled BY DEF Handled
  <2>2. t \in Record BY <1>1, <2>1 DEF Record
  <2>3. t.at = "post" /\ t.held = conn[c].held /\ t.read = conn[c].read /\ t.replies = 0 /\ ~t.accepted
    BY <1>1, <1>2 DEF Record, Told
  <2>4. Told(t) BY <2>3 DEF Told
  <2>5. Spent(t) BY <1>1, <1>2, <2>3 DEF Spent
  <2> QED BY <1>2, <1>6, <2>1, <2>2, <2>3, <2>4, <2>5 DEF Stays, Good
<1> QED BY <1>3, <1>5, <1>6

LEMMA ActStays ==
  ASSUME NEW c \in Conns, ConnInv, Act(c) PROVE \E r : Stays(c, r)
<1>1. /\ conn[c] \in Record /\ Told(conn[c]) /\ Spent(conn[c])
      /\ conn[c].held \in Nat /\ conn[c].read \in Nat
  BY Reached
<1>2. conn[c].at \in {"get", "post"} /\ conn[c].at \in Handled BY DEF Act, Handled
<1>3. conn[c].held + conn[c].read <= 2 * Read BY <1>1, <1>2, Budgets DEF Spent
<1>4. conn[c].replies = 0 /\ ~conn[c].accepted BY <1>1, <1>2 DEF Told
<1> DEFINE a == [conn[c] EXCEPT !.accepted = TRUE]
<1>5. \/ \E within \in BOOLEAN : Becomes(c, Replying(conn[c], "other", within))
      \/ Becomes(c, Replying(a, "accepted", TRUE))
  BY DEF Act
<1>6. ASSUME NEW within \in BOOLEAN, Becomes(c, Replying(conn[c], "other", within)) PROVE \E r : Stays(c, r)
  <2>1. Good(Replying(conn[c], "other", within)) /\ Replying(conn[c], "other", within).at = "headers"
    BY <1>1, <1>3, <1>4, ReplyingIsGood
  <2> QED BY <1>2, <1>6, <2>1 DEF Stays, Handled, Writing
<1>7. CASE Becomes(c, Replying(a, "accepted", TRUE))
  <2>1. a \in Record /\ a.replies = 0 /\ a.held = conn[c].held /\ a.read = conn[c].read
    BY <1>1, <1>4 DEF Record
  <2>2. a.held + a.read <= 2 * Read BY <1>3, <2>1
  <2> HIDE DEF a
  <2>3. Good(Replying(a, "accepted", TRUE)) /\ Replying(a, "accepted", TRUE).at = "headers"
    BY <2>1, <2>2, ReplyingIsGood
  <2> QED BY <1>2, <1>7, <2>3 DEF Stays, Handled, Writing
<1> QED BY <1>5, <1>6, <1>7

(* What the three ways out of reading and writing come to.                 *)
LEMMA EndStays ==
  ASSUME NEW c \in Conns, ConnInv, conn[c].at \in Handled, Becomes(c, Ended) PROVE \E r : Stays(c, r)
BY EndedIsGood DEF Stays, Handled, Reading, Writing

LEMMA GiveUpStays ==
  ASSUME NEW c \in Conns, ConnInv, conn[c].at \in {"head", "body", "headers", "content"},
         Becomes(c, Finishing(conn[c]))
  PROVE  \E r : Stays(c, r)
<1>1. /\ conn[c] \in Record /\ Told(conn[c]) /\ Spent(conn[c])
      /\ conn[c].held \in Nat /\ conn[c].read \in Nat /\ conn[c].send \in Nat
  BY Reached
<1>2. conn[c].at \in Handled BY DEF Handled, Reading, Writing
<1>3. conn[c].held <= 4 * Read /\ (conn[c].read > 0 => conn[c].held + conn[c].read <= 2 * Read)
  BY <1>1, Budgets DEF Spent
<1>4. Good(Finishing(conn[c])) /\ Finishing(conn[c]).at = "finish"
  BY <1>1, <1>3, FinishingIsGood DEF Told
<1> QED BY <1>2, <1>4 DEF Stays, Handled

LEMMA BadBodyStays ==
  ASSUME NEW c \in Conns, ConnInv, conn[c].at = "body", Becomes(c, Replying(conn[c], "other", FALSE))
  PROVE  \E r : Stays(c, r)
<1>1. /\ conn[c] \in Record /\ Told(conn[c]) /\ Spent(conn[c])
      /\ conn[c].held \in Nat /\ conn[c].read \in Nat
  BY Reached
<1>2. conn[c].at \in Handled BY DEF Handled, Reading
<1>3. conn[c].held + conn[c].read <= 2 * Read /\ conn[c].replies = 0 /\ ~conn[c].accepted
  BY <1>1 DEF Spent, Told
<1>4. /\ Good(Replying(conn[c], "other", FALSE))
      /\ Replying(conn[c], "other", FALSE).at = "headers"
  BY <1>1, <1>3, ReplyingIsGood
<1> QED BY <1>2, <1>4 DEF Stays, Handled, Writing

LEMMA PeerGoneStays ==
  ASSUME NEW c \in Conns, ConnInv, PeerGone(c) PROVE \E r : Stays(c, r)
<1>1. CASE conn[c].at = "body" /\ Becomes(c, Replying(conn[c], "other", FALSE)) BY <1>1, BadBodyStays
<1>2. CASE conn[c].at = "linger" /\ Becomes(c, Ended)
  BY <1>2, EndStays DEF Handled, Reading
<1>3. CASE conn[c].at \in {"head", "body", "headers", "content"} /\ Becomes(c, Finishing(conn[c]))
  BY <1>3, GiveUpStays
<1> QED BY <1>1, <1>2, <1>3 DEF PeerGone, Reading, Writing

LEMMA TimedOutStays ==
  ASSUME NEW c \in Conns, ConnInv, TimedOut(c) PROVE \E r : Stays(c, r)
<1>1. CASE conn[c].at = "body" /\ Becomes(c, Replying(conn[c], "other", FALSE)) BY <1>1, BadBodyStays
<1>2. CASE conn[c].at = "linger" /\ Becomes(c, Ended)
  BY <1>2, EndStays DEF Handled, Reading
<1>3. CASE conn[c].at \in {"head", "body", "headers", "content"} /\ Becomes(c, Finishing(conn[c]))
  BY <1>3, GiveUpStays
<1>4. CASE conn[c].at \in Writing /\ MayReply(conn[c]) /\ Becomes(c, Replying(conn[c], "other", FALSE))
  <2>1. conn[c].at \in Handled BY <1>4 DEF Handled
  <2>2. /\ conn[c] \in Record /\ Told(conn[c]) /\ Spent(conn[c])
        /\ conn[c].held \in Nat /\ conn[c].read \in Nat
    BY Reached
  <2>3. ~MayReply(conn[c]) BY <1>4, <2>2 DEF MayReply, Told, Writing
  <2> QED BY <1>4, <2>3
<1> QED BY <1>1, <1>2, <1>3, <1>4 DEF TimedOut, Reading, Writing

LEMMA FinishStays ==
  ASSUME NEW c \in Conns, ConnInv, Finish(c) PROVE \E r : Stays(c, r)
<1> DEFINE r == conn[c]  left == LingerLeft(c)
           t == [r EXCEPT !.at = "linger", !.read = left, !.room = Room]
<1>1. r \in Record /\ Told(r) /\ Spent(r) /\ r.held \in Nat /\ r.read \in Nat BY Reached
<1>2. r.at = "finish" /\ r.at \in Handled BY DEF Finish, Handled
<1>3. CASE Becomes(c, Ended) BY <1>2, <1>3, EndStays
<1>4. CASE Becomes(c, t)
  <2>1. left \in Nat /\ left <= r.read BY <1>1, Budgets DEF LingerLeft, Least
  <2> HIDE DEF left
  <2>2. "linger" \in Handled BY DEF Handled, Reading
  <2>3. t \in Record BY <1>1, <2>1, <2>2, Budgets DEF Record
  <2>4. /\ t.at = "linger" /\ t.read = left /\ t.held = r.held /\ t.replies = r.replies
        /\ t.accepted = r.accepted /\ t.reply = r.reply
    BY <1>1 DEF Record
  <2>5. Told(t) BY <1>1, <2>4 DEF Told
  <2>6. Spent(t) BY <1>1, <1>2, <2>1, <2>4, Budgets DEF Spent
  <2> QED BY <1>2, <1>4, <2>2, <2>3, <2>4, <2>5, <2>6 DEF Stays, Good
<1> QED BY <1>3, <1>4 DEF Finish

LEMMA WrittenStays ==
  ASSUME NEW c \in Conns, ConnInv, Written(c) PROVE \E r : Stays(c, r)
<1> DEFINE r == conn[c]  t == [r EXCEPT !.at = "content", !.send = Read]  w == [r EXCEPT !.whole = TRUE]
<1>1. r \in Record /\ Told(r) /\ Spent(r) /\ r.held \in Nat /\ r.read \in Nat /\ r.send \in Nat
  BY Reached
<1>2. r.at \in Writing /\ r.at \in Handled BY DEF Written, Handled
<1>3. CASE r.at = "headers" /\ Becomes(c, t)
  <2>1. "content" \in Handled BY DEF Handled, Writing
  <2>2. t \in Record BY <1>1, <2>1, Budgets DEF Record
  <2>3. /\ t.at = "content" /\ t.send = Read /\ t.read = r.read /\ t.held = r.held
        /\ t.replies = r.replies /\ t.accepted = r.accepted /\ t.reply = r.reply
    BY <1>1 DEF Record
  <2>4. Told(t) BY <1>1, <1>3, <2>3 DEF Told
  <2>5. Spent(t) BY <1>1, <1>3, <2>3, Budgets DEF Spent
  <2> QED BY <1>2, <1>3, <2>1, <2>2, <2>3, <2>4, <2>5 DEF Stays, Good
<1>4. CASE r.at = "content" /\ Becomes(c, Finishing(w))
  <2>1. /\ w \in Record /\ w.held = r.held /\ w.read = r.read /\ w.replies = r.replies
        /\ w.accepted = r.accepted /\ w.reply = r.reply
    BY <1>1 DEF Record
  <2>2. w.held <= 4 * Read /\ (w.read > 0 => w.held + w.read <= 2 * Read)
    BY <1>1, <1>4, <2>1, Budgets DEF Spent
  <2>3. w.replies <= 1 /\ (w.accepted => w.reply = "accepted") BY <1>1, <2>1 DEF Told
  <2> HIDE DEF w
  <2>4. Good(Finishing(w)) /\ Finishing(w).at = "finish" BY <2>1, <2>2, <2>3, FinishingIsGood
  <2> QED BY <1>2, <1>4, <2>4 DEF Stays, Handled
<1> QED BY <1>2, <1>3, <1>4 DEF Written, Writing
-----------------------------------------------------------------------------
(* What a step does to the records, whoever takes it: some connections get *)
(* a record that is Good, the others keep theirs.                          *)
LEMMA ConnStep ==
  ASSUME ConnInv, conn' \in [Conns -> Record], \A c \in Conns : Good(conn'[c]) PROVE ConnInv'
BY DEF ConnInv, Good, Told, Spent, Record, Handled, Reading, Writing

LEMMA StaysConn ==
  ASSUME ConnInv, NEW c \in Conns, NEW r, Stays(c, r) PROVE ConnInv'
<1>1. conn' = [conn EXCEPT ![c] = r] /\ Good(r) /\ r \in Record BY DEF Stays, Becomes, Good
<1>2. conn' \in [Conns -> Record] BY <1>1 DEF ConnInv
<1>3. \A d \in Conns : Good(conn'[d]) BY <1>1 DEF ConnInv
<1> QED BY <1>2, <1>3, ConnStep

(* The connections of a set are closed without a thread of their own.      *)
LEMMA ClosedConn ==
  ASSUME ConnInv, NEW S, conn' = [c \in Conns |-> IF c \in S THEN Away ELSE conn[c]] PROVE ConnInv'
<1>1. \A c \in Conns : conn'[c] = Away \/ conn'[c] = conn[c] OBVIOUS
<1>2. \A c \in Conns : Good(conn'[c]) BY <1>1, EndedIsGood DEF ConnInv
<1>3. conn' \in [Conns -> Record] BY EndedIsGood DEF ConnInv, Good
<1> QED BY <1>2, <1>3, ConnStep
-----------------------------------------------------------------------------
Held    == In(Handled)
Refused == In({"refused"})

(* Only Accept, StartFails, Release and Refuse change who has a slot one   *)
(* connection at a time.                                                   *)
LEMMA InvInit == Init => ConnInv /\ SlotsInv
<1> SUFFICES ASSUME Init PROVE ConnInv /\ SlotsInv OBVIOUS
<1>1. ConnInv BY EndedIsGood DEF Init, ConnInv, Good
<1>2. Held = {} /\ Refused = {}
  BY DEF Init, Away, Held, Refused, In, Handled, Reading, Writing
<1>3. IsFiniteSet({}) /\ Cardinality({}) = 0 BY FS_EmptySet
<1>4. IsFiniteSet(Held) /\ IsFiniteSet(Refused) /\ Cardinality(Held) = 0 /\ Cardinality(Refused) = 0
  BY <1>2, <1>3
<1>5. slots = Slots /\ busySlots = BusyCap /\ queue = {} /\ pending = {} /\ ready = {} /\ thread = "take"
  BY DEF Init
<1>6. SlotsInv
  <2> USE DEF Held, Refused
  <2>1. In({"refused"}) = queue \cup pending BY <1>2, <1>5
  <2> QED BY <1>4, <1>5, <2>1, Budgets DEF SlotsInv, SlotsBalance
<1> QED BY <1>1, <1>6

(* Nobody's place changes between holding a slot, refused and away.        *)
LEMMA SamePlaces ==
  ASSUME SlotsInv, Held' = Held, Refused' = Refused, UNCHANGED <<slots, busy>>
  PROVE  SlotsInv'
<1>1. UNCHANGED <<busySlots, queue, pending, stopped, thread, ready>> BY DEF busy
<1> QED BY <1>1 DEF SlotsInv, SlotsBalance, Held, Refused

LEMMA StaysSlots ==
  ASSUME ConnInv, SlotsInv, NEW c \in Conns, NEW r, Stays(c, r) PROVE SlotsInv'
<1>1. /\ conn' = [conn EXCEPT ![c] = r] /\ UNCHANGED <<slots, busy>>
      /\ r.at \in Handled <=> conn[c].at \in Handled
      /\ r.at = "refused" <=> conn[c].at = "refused"
  BY DEF Stays, Becomes
<1>2. \A d \in Conns : /\ conn'[d].at \in Handled <=> conn[d].at \in Handled
                       /\ conn'[d].at = "refused" <=> conn[d].at = "refused"
  BY <1>1 DEF ConnInv
<1>3. Held' = Held /\ Refused' = Refused BY <1>2 DEF Held, Refused, In, Handled, Reading, Writing
<1> QED BY <1>1, <1>3, SamePlaces

(* A connection takes a slot, or lets go of it.                            *)
LEMMA AcceptInv ==
  ASSUME ConnInv, SlotsInv, NEW c \in Conns, Accept(c) PROVE ConnInv' /\ SlotsInv'
<1> DEFINE r == [conn[c] EXCEPT !.at = "starting"]
<1>1. /\ conn[c].at = "away" /\ slots > 0 /\ slots' = slots - 1 /\ conn' = [conn EXCEPT ![c] = r]
      /\ UNCHANGED <<busySlots, queue, pending, stopped, thread, ready>>
  BY DEF Accept, busy, ConnInv
<1>2. conn[c] \in Record /\ Told(conn[c]) /\ Spent(conn[c]) BY Reached
<1>3. r \in Record BY <1>2 DEF Record, Handled
<1>4. r.at = "starting" /\ r.held = conn[c].held /\ r.replies = conn[c].replies /\ r.accepted = conn[c].accepted
  BY <1>2 DEF Record
<1>5. Good(r) BY <1>1, <1>2, <1>3, <1>4 DEF Good, Told, Spent
<1> HIDE DEF r
<1>6. ConnInv'
  <2>1. conn' \in [Conns -> Record] BY <1>1, <1>3 DEF ConnInv
  <2>2. \A d \in Conns : Good(conn'[d]) BY <1>1, <1>5 DEF ConnInv
  <2> QED BY <2>1, <2>2, ConnStep
<1>7. \A d \in Conns : conn'[d] = IF d = c THEN r ELSE conn[d] BY <1>1 DEF ConnInv
<1>8. c \notin Held /\ Held' = Held \cup {c} /\ Refused' = Refused
  BY <1>1, <1>4, <1>7 DEF Held, Refused, In, Handled, Reading, Writing
<1>9. /\ IsFiniteSet(Held') /\ Cardinality(Held') = Cardinality(Held) + 1
      /\ Cardinality(Held) \in Nat
  BY <1>8, FS_AddElement, FS_CardinalityType DEF SlotsInv, Held
<1>10. SlotsInv' BY <1>1, <1>8, <1>9, Budgets DEF SlotsInv, SlotsBalance, Held, Refused
<1> QED BY <1>6, <1>10

LEMMA LeaveInv ==
  ASSUME ConnInv, SlotsInv, NEW c \in Conns, StartFails(c) \/ Release(c) PROVE ConnInv' /\ SlotsInv'
<1>1. /\ conn[c].at \in Handled /\ conn[c].at # "refused"
      /\ conn' = [conn EXCEPT ![c] = Away] /\ slots' = slots + 1
      /\ UNCHANGED <<busySlots, queue, pending, stopped, thread, ready>>
  BY DEF StartFails, Release, busy, Handled
<1>2. ConnInv'
  <2>1. conn' = [d \in Conns |-> IF d \in {c} THEN Away ELSE conn[d]] BY <1>1 DEF ConnInv
  <2> QED BY <2>1, ClosedConn
<1>3. \A d \in Conns : conn'[d] = IF d = c THEN Away ELSE conn[d] BY <1>1 DEF ConnInv
<1>4. c \in Held /\ Held' = Held \ {c} /\ Refused' = Refused
  BY <1>1, <1>3, EndedIsGood DEF Held, Refused, In, Handled, Reading, Writing
<1>5. /\ IsFiniteSet(Held') /\ Cardinality(Held') = Cardinality(Held) - 1
      /\ Cardinality(Held) \in Nat
  BY <1>4, FS_RemoveElement, FS_CardinalityType DEF SlotsInv, Held
<1>6. SlotsInv' BY <1>1, <1>4, <1>5, Budgets DEF SlotsInv, SlotsBalance, Held, Refused
<1> QED BY <1>2, <1>6

LEMMA RefuseInv ==
  ASSUME ConnInv, SlotsInv, NEW c \in Conns, Refuse(c) PROVE ConnInv' /\ SlotsInv'
<1> DEFINE r == [Away EXCEPT !.at = "refused", !.read = BusyRead, !.room = Room]
<1>1. /\ conn[c].at = "away" /\ ~stopped /\ busySlots' = busySlots - 1 /\ queue' = queue \cup {c}
      /\ conn' = [conn EXCEPT ![c] = r] /\ UNCHANGED <<slots, pending, stopped, thread, ready>>
  BY DEF Refuse, Admits
<1>2. r \in Record BY Budgets DEF Away, Record
<1>3. r.at = "refused" /\ r.held = 0 /\ r.replies = 0 /\ ~r.accepted BY DEF Away
<1>4. Good(r) BY <1>2, <1>3 DEF Good, Told, Spent
<1> HIDE DEF r
<1>5. ConnInv'
  <2>1. conn' \in [Conns -> Record] BY <1>1, <1>2 DEF ConnInv
  <2>2. \A d \in Conns : Good(conn'[d]) BY <1>1, <1>4 DEF ConnInv
  <2> QED BY <2>1, <2>2, ConnStep
<1>6. \A d \in Conns : conn'[d] = IF d = c THEN r ELSE conn[d] BY <1>1 DEF ConnInv
<1>7. c \notin Refused /\ Refused' = Refused \cup {c} /\ Held' = Held
  BY <1>1, <1>3, <1>6 DEF Held, Refused, In, Handled, Reading, Writing
<1>8. /\ IsFiniteSet(Refused') /\ Cardinality(Refused') = Cardinality(Refused) + 1
      /\ Cardinality(Refused) \in Nat
  BY <1>7, FS_AddElement, FS_CardinalityType DEF SlotsInv, Refused
<1>9. thread # "ended" BY <1>1 DEF SlotsInv
<1>10. SlotsInv' BY <1>1, <1>7, <1>8, <1>9, Budgets DEF SlotsInv, SlotsBalance, Held, Refused
<1> QED BY <1>5, <1>10
-----------------------------------------------------------------------------
(* The drain thread closes refused connections and gives back as many      *)
(* slots of the busy drain.                                                *)
LEMMA ClosedPlaces ==
  ASSUME ConnInv, SlotsInv, NEW S, NEW rest, S \subseteq pending \cup queue, Closed(S, rest)
  PROVE  /\ ConnInv' /\ pending' = rest
         /\ Held' = Held /\ Refused' = Refused \ S
         /\ IsFiniteSet(Held') /\ IsFiniteSet(Refused')
         /\ busySlots' \in Int /\ busySlots' + Cardinality(Refused') = BusyCap
<1>1. /\ conn' = [c \in Conns |-> IF c \in S THEN Away ELSE conn[c]]
      /\ pending' = rest /\ busySlots' = busySlots + Cardinality(S)
  BY DEF Closed
<1>2. ConnInv' BY <1>1, ClosedConn
<1>3. S \subseteq Refused BY DEF SlotsInv, SlotsBalance, Refused
<1>4. Held' = Held /\ Refused' = Refused \ S
  BY <1>1, <1>3, EndedIsGood DEF Held, Refused, In, Handled, Reading, Writing
<1>5. IsFiniteSet(Refused) /\ IsFiniteSet(Held) /\ busySlots + Cardinality(Refused) = BusyCap
  BY DEF SlotsInv, SlotsBalance, Held, Refused
<1>6. IsFiniteSet(S) /\ Cardinality(S) \in Nat
  <2>1. IsFiniteSet(S) BY <1>3, <1>5, FS_Subset
  <2> QED BY <2>1, FS_CardinalityType
<1>7. Cardinality(Refused) \in Nat BY <1>5, FS_CardinalityType
<1>8. IsFiniteSet(Refused \ S) /\ Cardinality(Refused \ S) = Cardinality(Refused) - Cardinality(S)
  <2>1. Refused \cap S = S BY <1>3
  <2> QED BY <1>5, <2>1, FS_Difference
<1>9. busySlots \in Int BY DEF SlotsInv
<1>10. busySlots' \in Int /\ busySlots' + Cardinality(Refused') = BusyCap
  BY <1>1, <1>4, <1>5, <1>6, <1>7, <1>8, <1>9
<1> QED BY <1>1, <1>2, <1>4, <1>5, <1>8, <1>10

(* What is left to say of a step that closes some connections: where the   *)
(* others of the drain are.                                                *)
LEMMA ClosedInv ==
  ASSUME ConnInv, SlotsInv, NEW S, NEW rest, S \subseteq pending \cup queue, Closed(S, rest),
         UNCHANGED <<slots, stopped>>, rest \cup queue' = (pending \cup queue) \ S, queue' \cap rest = {},
         ready' \subseteq rest, thread' # "receive" => ready' = {},
         thread' = "ended" => stopped /\ rest = {} /\ queue' = {}
  PROVE  ConnInv' /\ SlotsInv'
<1>1. /\ ConnInv' /\ pending' = rest /\ Held' = Held /\ Refused' = Refused \ S
      /\ IsFiniteSet(Held') /\ IsFiniteSet(Refused')
      /\ busySlots' \in Int /\ busySlots' + Cardinality(Refused') = BusyCap
  BY ClosedPlaces
<1>2. Refused = queue \cup pending BY DEF SlotsInv, SlotsBalance, Refused
<1>3. Refused' = queue' \cup pending' /\ queue' \cap pending' = {} BY <1>1, <1>2
<1>4. slots \in Int /\ slots + Cardinality(Held) = Slots BY DEF SlotsInv, SlotsBalance, Held
<1>5. slots' \in Int /\ slots' + Cardinality(Held') = Slots BY <1>1, <1>4
<1>6. SlotsBalance' BY <1>1, <1>3, <1>5 DEF SlotsBalance, Held, Refused
<1> QED BY <1>1, <1>5, <1>6 DEF SlotsInv, Held, Refused

LEMMA SelectInv ==
  ASSUME ConnInv, SlotsInv, NEW bad \in SUBSET pending, NEW found \in SUBSET (pending \ bad), Select(bad, found)
  PROVE  ConnInv' /\ SlotsInv'
<1>1. /\ thread = "select" /\ Closed(bad, pending \ bad) /\ ready' = found
      /\ thread' = (IF pending' = {} THEN "sweep" ELSE "receive")
      /\ queue' = queue /\ UNCHANGED <<slots, stopped>>
  BY DEF Select
<1>2. pending' = pending \ bad BY <1>1 DEF Closed
<1>3. queue \cap pending = {} BY DEF SlotsInv, SlotsBalance
<1>4. (pending \ bad) \cup queue' = (pending \cup queue) \ bad /\ queue' \cap (pending \ bad) = {}
  BY <1>1, <1>3
<1>5. thread' # "receive" => ready' = {} BY <1>1, <1>2
<1>6. thread' # "ended" BY <1>1
<1> QED BY <1>1, <1>4, <1>5, <1>6, ClosedInv

LEMMA ReceiveInv ==
  ASSUME ConnInv, SlotsInv, NEW c \in Conns, Receive(c) PROVE ConnInv' /\ SlotsInv'
<1>1. /\ thread = "receive" /\ c \in ready /\ ready' = ready \ {c} /\ queue' = queue /\ thread' = thread
      /\ UNCHANGED <<slots, stopped>>
  BY DEF Receive
<1>2. c \in pending /\ ready \subseteq pending /\ queue \cap pending = {}
  BY <1>1 DEF SlotsInv, SlotsBalance
<1>3. CASE Closed({c}, pending \ {c})
  <2>1. {c} \subseteq pending \cup queue BY <1>2
  <2>2. (pending \ {c}) \cup queue' = (pending \cup queue) \ {c} /\ queue' \cap (pending \ {c}) = {}
    BY <1>1, <1>2
  <2>3. ready' \subseteq pending \ {c} BY <1>1, <1>2
  <2>4. thread' = "receive" BY <1>1
  <2> QED BY <1>1, <1>3, <2>1, <2>2, <2>3, <2>4, ClosedInv
<1>4. ASSUME NEW left \in 1..conn[c].room, conn' = [conn EXCEPT ![c].room = left], UNCHANGED <<pending, busySlots>>
      PROVE  ConnInv' /\ SlotsInv'
  <2> DEFINE r == [conn[c] EXCEPT !.room = left]
  <2>1. conn[c] \in Record /\ Told(conn[c]) /\ Spent(conn[c]) /\ conn[c].room \in Nat BY Reached
  <2>2. left \in Nat BY <2>1
  <2>3. r \in Record BY <2>1, <2>2 DEF Record
  <2>4. /\ r.at = conn[c].at /\ r.read = conn[c].read /\ r.send = conn[c].send /\ r.held = conn[c].held
        /\ r.replies = conn[c].replies /\ r.accepted = conn[c].accepted /\ r.reply = conn[c].reply
    BY <2>1 DEF Record
  <2>5. Told(r) BY <2>1, <2>4 DEF Told
  <2>6. Spent(r) BY <2>1, <2>4 DEF Spent
  <2>7. conn' = [conn EXCEPT ![c] = r] BY <1>4 DEF ConnInv
  <2> HIDE DEF r
  <2>8. ConnInv'
    <3>1. conn' \in [Conns -> Record] BY <2>3, <2>7 DEF ConnInv
    <3>2. \A d \in Conns : Good(conn'[d]) BY <2>3, <2>5, <2>6, <2>7 DEF ConnInv, Good
    <3> QED BY <3>1, <3>2, ConnStep
  <2>9. \A d \in Conns : conn'[d].at = conn[d].at BY <2>4, <2>7 DEF ConnInv
  <2>10. Held' = Held /\ Refused' = Refused BY <2>9 DEF Held, Refused, In, Handled, Reading, Writing
  <2>11. ready' \subseteq pending BY <1>1, <1>2
  <2>12. SlotsInv' BY <1>1, <1>4, <2>10, <2>11 DEF SlotsInv, SlotsBalance, Held, Refused
  <2> QED BY <2>8, <2>12
<1> QED BY <1>3, <1>4 DEF Receive

(* Take, Received and the thread that stops the drain move no connection.  *)
LEMMA StillInv ==
  ASSUME ConnInv, SlotsInv, Take \/ Received \/ StopBusy PROVE ConnInv' /\ SlotsInv'
<1>1. UNCHANGED <<conn, slots, busySlots>> BY DEF Take, Received, StopBusy
<1>2. Held' = Held /\ Refused' = Refused BY <1>1 DEF Held, Refused, In
<1>3. ConnInv' BY <1>1 DEF ConnInv, Good, Told, Spent
<1>4. CASE Take
  <2>1. /\ pending' = pending \cup queue /\ queue' = {} /\ thread' = "select" /\ thread = "take"
        /\ UNCHANGED <<stopped, ready>>
    BY <1>4 DEF Take
  <2>2. ready' = {} BY <2>1 DEF SlotsInv
  <2>3. SlotsInv' BY <1>1, <1>2, <2>1, <2>2 DEF SlotsInv, SlotsBalance, Held, Refused
  <2> QED BY <1>3, <2>3
<1>5. CASE Received
  <2>1. ready = {} /\ thread' = "sweep" /\ UNCHANGED <<pending, queue, stopped, ready>> BY <1>5 DEF Received
  <2>2. SlotsInv' BY <1>1, <1>2, <2>1 DEF SlotsInv, SlotsBalance, Held, Refused
  <2> QED BY <1>3, <2>2
<1>6. CASE StopBusy
  <2>1. ~stopped /\ stopped' = TRUE /\ UNCHANGED <<pending, queue, ready, thread>> BY <1>6 DEF StopBusy
  <2>2. SlotsInv' BY <1>1, <1>2, <2>1 DEF SlotsInv, SlotsBalance, Held, Refused
  <2> QED BY <1>3, <2>2
<1> QED BY <1>4, <1>5, <1>6

LEMMA DrainInv ==
  ASSUME ConnInv, SlotsInv, Drain PROVE ConnInv' /\ SlotsInv'
<1>1. queue \cap pending = {} /\ ready \subseteq pending /\ (thread # "receive" => ready = {})
  BY DEF SlotsInv, SlotsBalance
<1>2. CASE Take \/ Received BY <1>2, StillInv
<1>3. CASE SelectorFails
  <2>1. /\ Closed(pending, {}) /\ ready' = {} /\ thread' = "sweep" /\ queue' = queue /\ UNCHANGED <<slots, stopped>>
    BY <1>3 DEF SelectorFails, Cleared
  <2>2. {} \cup queue' = (pending \cup queue) \ pending /\ queue' \cap {} = {} BY <1>1, <2>1
  <2> QED BY <2>1, <2>2, ClosedInv
<1>4. CASE Sweep
  <2>1. /\ thread = "sweep" /\ thread' = "take" /\ Closed(Late, pending \ Late) /\ queue' = queue /\ ready' = ready
        /\ UNCHANGED <<slots, stopped>>
    BY <1>4 DEF Sweep
  <2>2. Late \subseteq pending BY DEF Late
  <2>3. (pending \ Late) \cup queue' = (pending \cup queue) \ Late /\ queue' \cap (pending \ Late) = {}
    BY <1>1, <2>1, <2>2
  <2>4. ready' = {} BY <1>1, <2>1
  <2> QED BY <2>1, <2>2, <2>3, <2>4, ClosedInv
<1>5. CASE End
  <2>1. /\ thread = "take" /\ stopped /\ queue' = {} /\ Closed(pending \cup queue, {}) /\ ready' = ready
        /\ UNCHANGED <<slots, stopped>>
    BY <1>5 DEF End
  <2>2. {} \cup queue' = (pending \cup queue) \ (pending \cup queue) /\ queue' \cap {} = {} BY <2>1
  <2>3. ready' = {} BY <1>1, <2>1
  <2> QED BY <2>1, <2>2, <2>3, ClosedInv
<1>6. CASE \E bad \in SUBSET pending : \E found \in SUBSET (pending \ bad) : Select(bad, found)
  BY <1>6, SelectInv
<1>7. CASE \E c \in Conns : Receive(c) BY <1>7, ReceiveInv
<1> QED BY <1>2, <1>3, <1>4, <1>5, <1>6, <1>7 DEF Drain

LEMMA HandlerInv ==
  ASSUME ConnInv, SlotsInv, NEW c \in Conns, Tick(c) \/ Handle(c) \/ Peer(c) PROVE ConnInv' /\ SlotsInv'
<1>1. ASSUME \E r : Stays(c, r) PROVE ConnInv' /\ SlotsInv' BY <1>1, StaysConn, StaysSlots
<1>2. CASE Tick(c) BY <1>1, <1>2, TickStays
<1>3. CASE Start(c) BY <1>1, <1>3, StartStays
<1>4. CASE Act(c) BY <1>1, <1>4, ActStays
<1>5. CASE TimedOut(c) BY <1>1, <1>5, TimedOutStays
<1>6. CASE Finish(c) BY <1>1, <1>6, FinishStays
<1>7. CASE LingerDone(c)
  <2>1. conn[c].at \in Handled /\ Becomes(c, Ended) BY <1>7 DEF LingerDone, Handled, Reading
  <2> QED BY <1>1, <2>1, EndStays
<1>8. CASE Release(c) BY <1>8, LeaveInv
<1>9. CASE Body(c) BY <1>1, <1>9, BodyStays
<1>10. CASE Head(c) BY <1>1, <1>10, HeadStays
<1>11. CASE Pull(c) BY <1>1, <1>11, PullStays
<1>12. CASE StartBody(c) BY <1>1, <1>12, StartBodyStays
<1>13. CASE Written(c) BY <1>1, <1>13, WrittenStays
<1>14. CASE PeerGone(c) BY <1>1, <1>14, PeerGoneStays
<1> QED
  BY <1>2, <1>3, <1>4, <1>5, <1>6, <1>7, <1>8, <1>9, <1>10, <1>11, <1>12, <1>13, <1>14 DEF Handle, Peer

LEMMA InvNext == ConnInv /\ SlotsInv /\ [Next]_vars => ConnInv' /\ SlotsInv'
<1> SUFFICES ASSUME ConnInv, SlotsInv, [Next]_vars PROVE ConnInv' /\ SlotsInv' OBVIOUS
<1>1. CASE UNCHANGED vars
  <2>1. UNCHANGED <<conn, slots, busy>> BY <1>1 DEF vars
  <2>2. Held' = Held /\ Refused' = Refused BY <2>1 DEF Held, Refused, In
  <2>3. ConnInv' BY <2>1 DEF ConnInv, Good, Told, Spent
  <2> QED BY <2>1, <2>2, <2>3, SamePlaces
<1>2. ASSUME NEW c \in Conns, Accept(c) \/ StartFails(c) \/ Refuse(c) \/ Tick(c) \/ Handle(c) \/ Peer(c)
      PROVE  ConnInv' /\ SlotsInv'
  BY <1>2, AcceptInv, LeaveInv, RefuseInv, HandlerInv
<1>3. CASE Drain \/ StopBusy BY <1>3, DrainInv, StillInv
<1> QED BY <1>1, <1>2, <1>3 DEF Next

THEOREM Invariant == Spec => [](ConnInv /\ SlotsInv)
<1>1. Init => ConnInv /\ SlotsInv BY InvInit
<1>2. ConnInv /\ SlotsInv /\ [Next]_vars => (ConnInv /\ SlotsInv)' BY InvNext
<1> QED BY <1>1, <1>2, PTL DEF Spec

(* For any number of connections and any number of slots, each slot, of    *)
(* the server and of the busy drain, is held by exactly one connection.    *)
THEOREM SlotsAreBalanced == Spec => []SlotsBalance
<1>1. SlotsInv => SlotsBalance BY DEF SlotsInv
<1> QED BY <1>1, Invariant, PTL

(* A connection gets at most one reply, and none that refuses a job the    *)
(* store has taken.                                                        *)
THEOREM RepliesAreHonest == Spec => []HonestReplies
<1>1. ConnInv => HonestReplies BY DEF ConnInv, Good, Told, HonestReplies
<1> QED BY <1>1, Invariant, PTL

(* Whatever the budgets are, a peer holds a slot for four times Read and   *)
(* no longer.                                                              *)
THEOREM HoldIsBounded == Spec => []BoundedHold
<1>1. ASSUME ConnInv, NEW c \in Conns PROVE conn[c].held <= 4 * Read
  <2>1. conn[c] \in Record /\ Spent(conn[c]) /\ conn[c].held \in Nat /\ conn[c].read \in Nat /\ conn[c].send \in Nat
    BY <1>1, Reached
  <2>2. conn[c].at \in {"away", "refused", "starting", "closed", "head", "get", "body", "post", "headers",
                       "content", "finish", "linger"}
    BY <2>1 DEF Record, Handled, Reading, Writing
  <2> QED BY <2>1, <2>2, Budgets DEF Spent
<1>2. ConnInv => BoundedHold BY <1>1 DEF BoundedHold
<1> QED BY <1>2, Invariant, PTL
=============================================================================
