----------------------------- MODULE ClientCall -----------------------------
(***************************************************************************)
(* One client of the protocol and the worker: a tool call of the MCP       *)
(* server (run in bridge_mcp/tools.py over Bridge.run in protocol.py), or  *)
(* a PHP application with an idempotency key (Client.php over              *)
(* CurlTransport.php).  A request may reach the worker after the client    *)
(* gave it up, or never; so may its answer.  The other callers show in     *)
(* that a submission may find the worker full.                             *)
(*                                                                         *)
(* Time is a coarse clock.  Timers are exact: none is passed unfired.  The *)
(* PHP client's runs over a whole request, the Python client's over one    *)
(* operation of the socket: a connect, a send or a receive.                *)
(***************************************************************************)
EXTENDS Integers, Sequences, FiniteSets

CONSTANTS
  Budget, Request, Ahead, LastS, Pause,  \* a tool call: timeout_ms, request_timeout_s, the worker's
                                         \* two seconds more, CAPACITY_LAST_S, the pause after a 429
  Operations,          \* of the socket, in one of its requests: as many as the answer comes in pieces
  Wait, AppRequest,    \* an application: the wait timeout and the request timeout
  Poll,
  Tries,               \* how often an application submits
  MaxTime, None

ASSUME ClientAssumption ==
  /\ {Budget, Request, Operations, LastS, Pause, Wait, AppRequest, Poll, Tries, MaxTime} \subseteq Nat \ {0}
  /\ Ahead \in Nat /\ None \notin [is : {"job", "full", "open", "over", "gone"}, job : Nat]

VARIABLES
  is,                  \* "tool" or "app"
  now,
  jobs,                \* the worker's jobs for this client, in the order it took them
  late,                \* submissions and cancellations given up that are still on their way
  req, answer,         \* the request the client waits for, and what has come back
  pc, mine,            \* where the client is, and the job it knows of (0: none)
  due, left,           \* a tool call's deadline, and what was left of it at the last submit
  ends, wake,          \* the deadline of the wait, and the end of a sleep
  tries,
  outcome              \* what the client was last told

VARIABLE uncancelled   \* for a property: a cancellation got no answer

client == <<is, req, answer, pc, mine, due, left, ends, wake, tries, outcome, uncancelled>>
vars   == <<now, jobs, late, client>>

Idle  == [kind |-> "none", left |-> 0, until |-> 0, ops |-> 0]
Least(a, b) == IF a < b THEN a ELSE b

Init ==
  /\ is \in {"tool", "app"} /\ now = 0 /\ jobs = <<>> /\ late = {} /\ req = Idle /\ answer = None
  /\ pc = "idle" /\ mine = 0 /\ due = 0 /\ left = 0 /\ ends = 0 /\ wake = 0 /\ tries = 0
  /\ outcome = None /\ uncancelled = FALSE
-----------------------------------------------------------------------------
(* The worker: submit with its limits and keys, get and cancel.  Others    *)
(* may have taken every place.                                             *)
Open(j)  == jobs[j].status = "open"
Known    == {j \in DOMAIN jobs : jobs[j].status # "gone"}
Same     == IF is = "app" THEN Known ELSE {}

(* What a request does, with whether the worker is full.                   *)
Becomes(r, full) ==
  CASE r.kind = "submit" /\ Same = {} /\ ~full -> Append(jobs, [due |-> now + r.left, status |-> "open"])
    [] r.kind = "cancel" /\ Open(mine) -> [jobs EXCEPT ![mine].status = "over"]
    [] OTHER -> jobs
Says(r, full) ==
  IF r.kind # "submit" THEN [is |-> jobs'[mine].status, job |-> mine]
  ELSE IF Same = {} /\ full THEN [is |-> "full", job |-> 0]
  ELSE [is |-> "job", job |-> IF Same = {} THEN Len(jobs') ELSE CHOOSE j \in Same : TRUE]

Handle ==
  /\ req # Idle /\ answer = None
  /\ \E full \in BOOLEAN : jobs' = Becomes(req, full) /\ answer' = Says(req, full)
  /\ UNCHANGED <<is, now, late, req, pc, mine, due, left, ends, wake, tries, outcome, uncancelled>>
HandleLate ==
  /\ \E r \in late, full \in BOOLEAN : late' = late \ {r} /\ jobs' = Becomes(r, full)
  /\ UNCHANGED <<now, client>>
End(j) ==
  /\ \/ Open(j) /\ jobs' = [jobs EXCEPT ![j].status = "over"]
     \/ jobs[j].status = "over" /\ jobs' = [jobs EXCEPT ![j].status = "gone"]
  /\ UNCHANGED <<now, late, client>>

Tick ==
  /\ now < MaxTime /\ now' = now + 1
  /\ (req # Idle => req.until > now) /\ (pc \in {"pause", "sleep"} => wake > now)
  /\ \A j \in DOMAIN jobs : Open(j) => jobs[j].due > now
  /\ UNCHANGED <<jobs, late, client>>
-----------------------------------------------------------------------------
(* The client's own steps.                                                 *)
Quiet == req' = Idle /\ answer' = None
Send(kind, timeout, lefts) ==
  /\ req' = [kind |-> kind, left |-> lefts, until |-> now + timeout, ops |-> IF is = "tool" THEN Operations ELSE 1]
  /\ answer' = None
Finishes(p, what) == pc' = p /\ Quiet /\ outcome' = what
Sleep(p, time)    == pc' = p /\ Quiet /\ wake' = now + time
Answered(p, what) == pc = p /\ answer # None /\ answer.is = what

(* It stops waiting for its request: the connection failed, or the timer   *)
(* fired.  The request is lost, was handled, or is still on its way; two   *)
(* that are alike count once.                                              *)
GivesUp(p) ==
  /\ pc = p /\ req # Idle
  /\ late' \in IF answer = None /\ req.kind # "get" THEN {late, late \cup {[req EXCEPT !.until = 0, !.ops = 0]}} ELSE {late}

(* An operation of the tool's socket is over in time, and the next has the *)
(* whole timeout again.                                                    *)
NextOperation ==
  /\ is = "tool" /\ req.ops > 1 /\ req' = [req EXCEPT !.until = now + Request, !.ops = @ - 1]
  /\ UNCHANGED <<is, now, jobs, late, answer, pc, mine, due, left, ends, wake, tries, outcome, uncancelled>>

(* A tool call: run, with what is left of the call's budget.               *)
Submit(remaining) == pc' = "submit" /\ left' = remaining /\ Send("submit", Request, remaining + Ahead)
Begin ==
  /\ is = "tool" /\ pc = "idle" /\ due' = now + Budget /\ Submit(Budget)
  /\ UNCHANGED <<is, now, jobs, late, mine, ends, wake, tries, outcome, uncancelled>>

(* Bridge.run: its deadline starts when the submission is answered.        *)
Submitted ==
  /\ is = "tool" /\ Answered("submit", "job") /\ mine' = answer.job /\ ends' = now + left
  /\ pc' = "poll" /\ Send("get", Request, 0)
  /\ UNCHANGED <<is, now, jobs, late, due, left, wake, tries, outcome, uncancelled>>

(* A pause that leaves the job LastS of the call, or the call is over.     *)
PauseOr(wanted, what) ==
  LET wait == Least(wanted, due - now - LastS) IN
  IF wait > 0 THEN Sleep("pause", wait) /\ UNCHANGED outcome ELSE Finishes("done", what) /\ UNCHANGED wake

(* 429, with or without a Retry-After; then the next attempt.              *)
Refused ==
  /\ is = "tool" /\ Answered("submit", "full") /\ \E wanted \in Pause .. 2 * Pause : PauseOr(wanted, "full")
  /\ UNCHANGED <<is, now, jobs, late, mine, due, left, ends, tries, uncancelled>>
TryAgain ==
  /\ pc = "pause" /\ wake = now /\ Submit(due - now)
  /\ UNCHANGED <<is, now, jobs, late, mine, due, ends, wake, tries, outcome, uncancelled>>

(* Nothing else is submitted again.  Mutant: what got no answer is.        *)
UnansweredAgain == PauseOr(Pause, "transport_error")
Unanswered      == Finishes("done", "transport_error") /\ UNCHANGED wake
SubmitFails ==
  /\ is = "tool" /\ GivesUp("submit") /\ Unanswered
  /\ UNCHANGED <<is, now, jobs, mine, due, left, ends, tries, uncancelled>>

(* except BaseException: whatever interrupted the wait, the job is         *)
(* cancelled.  Mutant: a poll that fails ends the call.                    *)
AbandonsWithout(why) ==
  IF why = "transport_error" THEN Finishes("done", why) ELSE pc' = "cancel" /\ Send("cancel", Request, 0) /\ outcome' = why
Abandons(why) == pc' = "cancel" /\ Send("cancel", Request, 0) /\ outcome' = why
PollAnswered ==
  /\ is = "tool" /\ pc = "poll" /\ answer # None
  /\ CASE answer.is = "over" -> Finishes("done", "result") /\ UNCHANGED wake
       [] answer.is = "open" /\ now < ends -> Sleep("sleep", Poll) /\ UNCHANGED outcome
       [] answer.is = "open" /\ now >= ends -> Abandons("wait_timeout") /\ UNCHANGED wake
       [] OTHER -> Abandons("http_error") /\ UNCHANGED wake
  /\ UNCHANGED <<is, now, jobs, late, mine, due, left, ends, tries, uncancelled>>
PollFails ==
  /\ is = "tool" /\ GivesUp("poll") /\ Abandons("transport_error")
  /\ UNCHANGED <<is, now, jobs, mine, due, left, ends, wake, tries, uncancelled>>

(* on_progress raises, or the thread is interrupted in its sleep.          *)
Interrupted ==
  /\ is = "tool" /\ (pc = "sleep" \/ (pc = "poll" /\ answer # None)) /\ Abandons("interrupted")
  /\ UNCHANGED <<is, now, jobs, late, mine, due, left, ends, wake, tries, uncancelled>>
PollAgain ==
  /\ is = "tool" /\ pc = "sleep" /\ wake = now /\ pc' = "poll" /\ Send("get", Request, 0)
  /\ UNCHANGED <<is, now, jobs, late, mine, due, left, ends, wake, tries, outcome, uncancelled>>

(* For either client: cancel() is answered or fails.                       *)
Cancelled ==
  /\ \/ pc = "cancel" /\ answer # None /\ UNCHANGED <<late, uncancelled>>
     \/ GivesUp("cancel") /\ uncancelled' = TRUE
  /\ pc' = (IF is = "tool" THEN "done" ELSE "have") /\ Quiet
  /\ UNCHANGED <<is, now, jobs, mine, due, left, ends, wake, tries, outcome>>
-----------------------------------------------------------------------------
(* An application submits, with its key, and submits again when it was     *)
(* refused or got no answer.                                               *)
AppSubmit ==
  /\ is = "app" /\ pc = "idle" /\ tries < Tries /\ tries' = tries + 1
  /\ pc' = "submit" /\ Send("submit", AppRequest, Wait)
  /\ UNCHANGED <<is, now, jobs, late, mine, due, left, ends, wake, outcome, uncancelled>>
AppSubmitted ==
  /\ is = "app" /\ Quiet
  /\ \/ Answered("submit", "job") /\ pc' = "have" /\ mine' = answer.job /\ UNCHANGED late
     \/ Answered("submit", "full") /\ pc' = "idle" /\ UNCHANGED <<mine, late>>
     \/ GivesUp("submit") /\ pc' = "idle" /\ UNCHANGED mine
  /\ UNCHANGED <<is, now, jobs, due, left, ends, wake, tries, outcome, uncancelled>>

(* wait(): its first poll, and the head of its loop after a sleep.         *)
NextPoll ==
  IF ends - now < 1 THEN Finishes("have", "wait_timeout")
  ELSE pc' = "poll" /\ Send("get", Least(ends - now, AppRequest), 0) /\ UNCHANGED outcome
AppWaits ==
  /\ is = "app" /\ pc = "have" /\ ends' = now + Wait /\ pc' = "poll" /\ Send("get", Least(Wait, AppRequest), 0) /\ outcome' = None
  /\ UNCHANGED <<is, now, jobs, late, mine, due, left, wake, tries, uncancelled>>
AppCancels ==
  /\ is = "app" /\ pc = "have" /\ pc' = "cancel" /\ Send("cancel", AppRequest, 0)
  /\ UNCHANGED <<is, now, jobs, late, mine, due, left, ends, wake, tries, outcome, uncancelled>>

(* Mutant: the sleep between two polls is not cut at the deadline.         *)
NapWhole == Poll
Nap      == Least(Poll, IF ends > now THEN ends - now ELSE 0)
AppAnswered ==
  /\ is = "app" /\ pc = "poll" /\ answer # None
  /\ IF answer.is = "open" THEN Sleep("sleep", Nap) /\ UNCHANGED outcome
                           ELSE Finishes("have", answer.is) /\ UNCHANGED wake
  /\ UNCHANGED <<is, now, jobs, late, mine, due, left, ends, tries, uncancelled>>

(* A failed connection, or the timer of the whole request, which is told   *)
(* apart: deadlineCapped, it was the wait's own deadline that set it.      *)
Capped == req.until = ends
AppPollFails ==
  /\ is = "app" /\ GivesUp("poll")
  /\ \/ Finishes("have", "transport_error")
     \/ req.until = now /\ Finishes("have", IF Capped THEN "wait_timeout" ELSE "timeout")
  /\ UNCHANGED <<is, now, jobs, mine, due, left, ends, wake, tries, uncancelled>>
AppPollAgain ==
  /\ is = "app" /\ pc = "sleep" /\ wake = now /\ NextPoll
  /\ UNCHANGED <<is, now, jobs, late, mine, due, left, ends, wake, tries, uncancelled>>

Worker == Handle \/ HandleLate \/ \E j \in DOMAIN jobs : End(j)
Tool   == Begin \/ NextOperation \/ Submitted \/ Refused \/ TryAgain \/ SubmitFails \/ PollAnswered \/ PollFails \/ Interrupted \/ PollAgain
App    == AppSubmit \/ AppSubmitted \/ AppWaits \/ AppCancels \/ AppAnswered \/ AppPollFails \/ AppPollAgain

Next == Tick \/ Worker \/ Tool \/ App \/ Cancelled
Spec == Init /\ [][Next]_vars
-----------------------------------------------------------------------------
(* Whatever is lost, late or refused, a tool call starts at most one job,  *)
(* and an application at most one that the worker has not forgotten, the   *)
(* submissions it gave up included (Client.php, submit).                   *)
OneJobPerCall == Cardinality(IF is = "app" THEN Known ELSE DOMAIN jobs) <= 1

(* A tool call that is over has left no unfinished job behind, unless its  *)
(* submission or its cancellation got no answer (protocol.py, run: nobody  *)
(* will come back for this job).                                           *)
AbandonedIsCancelled ==
  is = "tool" /\ pc = "done" /\ (\E j \in DOMAIN jobs : Open(j)) => mine = 0 \/ uncancelled

Longest == Operations * Request
Waiting == pc \in {"poll", "sleep"}
OnTime  ==
  IF is = "app"
  THEN Waiting => now' <= ends /\ (pc' = "have" /\ outcome' = "wait_timeout" => now = ends)
                               /\ (pc' = "have" /\ outcome' = "timeout" => now < ends)
  ELSE pc \notin {"idle", "done"} => now' <= due + Poll + 3 * Longest

(* wait() never outlasts its deadline by a request or a sleep, and says    *)
(* wait_timeout only when that deadline ended it; a tool call ends within  *)
(* its budget, a sleep and three requests, each as long as its operations  *)
(* may take.                                                               *)
CallsEndOnTime == [][OnTime]_vars
=============================================================================
