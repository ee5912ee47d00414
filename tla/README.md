# php-python-ai-bridge in TLA+

The bridge lets PHP programs and MCP hosts run text tasks (rerank, embed, redact) in Python. A
worker service accepts jobs over HTTP, runs each in one of a few child processes, and keeps the
results for a while; callers submit, poll and cancel. The heart of it is the job store
(`worker/ai_bridge/jobs.py`): threads, processes, pipes, signals and deadlines meet there. Around it
are a server that bounds what a peer can hold and stops in an orderly way, two clients, an index on
disk for searches, and the calculations of the tasks.

Sources are named as in the repository; `TLC` checks the modules on small instances, `TLAPS` proves
their invariants and action properties for all values of the constants. What stays with TLC is
liveness (`EveryJobEnds`, `CloseReturns`, `RetiredGo`, `SocketsClose`, `SecondSignalStops`,
`WriterEnds`), for which the prover has no backend.

## 1. Inventory

| Component (source) | State it keeps | Operations | Talks to |
| --- | --- | --- | --- |
| Job pool (`worker/ai_bridge/jobs.py`, `JobStore`, `_Worker`, `_serve`) | `_jobs`, `_active`, `_pool`, `_retiring`, `_backoff_until`, `_draining`, `_stopping`; per child `ready`, `job_id`, `sending`, `served`, `retired_at`, `killed` | `submit`, `get`, `cancel`, `drain`, `close`; the coordinator thread's pass; a child's `_serve` loop | HTTP handlers call it; it exchanges messages with the children over pipes and signals them |
| Job table (same file) | `_jobs`, `_keys`, the SQLite file | `_accept`, `_expire`, `_finish`, `_write`, `_open_db` | the pool, through the same lock |
| Dispatch between owners (same file) | `_served`, `_dispatched` | `_dispatch` | the pool |
| Server stop (`worker/ai_bridge/server.py`) | `_signalled_at`, `_interrupted`, `_drained`, `_drain_line`, `_drain_closed` | `stop`, `_drain_then_stop`, `_write_drain`, `server_close`, `shutdown` | `drain`, `busy`, `close` of the store; the log |
| Connection slots and busy drain (same file) | 32 slots; `_BusyDrain`'s queue, pending sockets and 64 slots | `process_request`, `add`, `_run`, `close` | the accept loop |
| HTTP handler (same file) | per connection: budgets and the reply under way | `do_GET`, `do_POST` | the store |
| Log queue (`worker/ai_bridge/log.py`) | bounded queue, writer thread, end event | `event`, `configure`, `close` | everyone |
| Metrics (`worker/ai_bridge/metrics.py`) | none of its own | `render`, `observe` | `snapshot` |
| Tasks (`worker/ai_bridge/tasks.py`) | loaded models | `validate`, `execute`, `_redact`, `_merge`, `_cards` | run inside a child |
| MCP index files (`mcp_server/bridge_mcp/index.py`) | `index.json`, `vectors.f32`; the cache | `build`, `write_index`, `load_index`, `IndexCache.get`, `search` | another process may rebuild the files |
| MCP client and tools (`mcp_server/bridge_mcp/protocol.py`, `tools.py`) | one call's deadline and pauses | `Bridge.run`, `tools.run` | the service, over HTTP |
| PHP client (`src/Client.php`, `Job.php`, transports) | one call's deadline | `submit`, `get`, `cancel`, `wait` | the service, over HTTP |

What is hard in each of them, and at which line, is the `hazards` list of `PROJECT.json`. What
makes each component correct:

- *Pool*: no job is executed twice, lost, or counted twice; what the store believes about a child
  agrees with what the child does; drain ends exactly the jobs nobody has started; nothing outlives
  close; every job ends although a child may hang; a retired child goes.
- *Table*: the three limits hold at admission; a key names the same job for as long as that job is
  retained; the file after a crash says what callers were told, or says so.
- *Dispatch*: no owner with a waiting job is overtaken twice by the same other owner.
- *Server stop*: the store is closed once, after serving has stopped; at most one drain line, before
  the stop line; a second signal always ends the drain.
- *Slots, log queue*: bounded, and every slot taken is given back once; nothing waits on a peer.
- *Index*: a reader gets one build's index or an error, never a mixture, and the cache never
  answers with an index older than the files at the time of the call.
- *Clients*: an abandoned call leaves no job behind it; a submission that is repeated starts no
  second job; a call ends within its budget.
- *Tasks*: nothing that a rule found stays visible; no part of a text is skipped; what one program
  writes, the checks of the other accept.

## 2. The modules

| Module | Part | Section |
| --- | --- | --- |
| `JobLifecycle` | what a caller may observe of a job: the abstract specification | 3 |
| `JobPool`, `MCJobPool` | coordinator, children, drain and close; implements `JobLifecycle` | 3 |
| `JobDrain`, `MCJobDrain` | `JobPool` with a memory of what had begun when `drain()` took the lock | 3 |
| `JobPoolInv`, `JobPoolProofs` | its inductive invariant and proofs | 4 |
| `JobTable`, `MCJobTable`, `JobTableProofs` | admission, keys, retention, the SQLite file | 5, 6 |
| `OwnerTurns`, `MCOwnerTurns`, `OwnerTurnsProofs` | whose job a child gets | 7 |
| `Connections`, `MCConnections`, `ConnectionsProofs` | slots, one request's handler, the busy drain | 8 |
| `LogQueue`, `ServerStop`, `MCServerStop`, `ServerStopProofs` | the log, and the stop of the server that uses it | 9 |
| `IndexFiles`, `MCIndexFiles`, `IndexFilesProofs` | builds, the cache, and the two index steps of a search | 10 |
| `ClientCall`, `MCClientCall`, `ClientCallProofs` | both clients against a worker they reach unreliably | 11 |
| `Redaction`, `Chunking`, `Ranking`, `TaskRules`, `MCTaskRules`, `TaskRulesProofs` | the calculations | 12 |

`OwnerTurns` refines the choice `JobPool` leaves open in `Attach`. `ServerStop` extends `LogQueue`
and adds who writes to it. `TaskRules` extends the three modules of operators and starts each on
every input of a bounded set. Everything that concerns a job on its way through the store is in
`JobPool` and `JobTable`, which share the interface "a job is accepted, starts, ends": `JobTable`
lets a known job start and end at any time, `JobPool` lets a finished job expire at any call.

Possible extensions: a restart of the worker with smaller limits, a child that stops reading its
pipe.

## 3. The pool: `JobPool`

### State and code

| Variables | Code |
| --- | --- |
| `state` | a job's `status`; a failed job is told apart by its error code, an expired one is no longer in `_jobs` |
| `retried`, `active` | `_retried`, `_active` |
| `ended` | the sum of a job's contributions to `_ended`, the jobs metric |
| `ran` | how often a child's `_serve` got as far as sending "started" for a job (a property's counter) |
| `pool`, `retiring`, `backoff` | `_pool`, `_retiring`, whether `_backoff_until` lies ahead |
| `job_id`, `ready`, `sending`, `served` | the fields of `_Worker`; `sending` also names the job being sent |
| `closed`, `asked` | whether the parent closed the pipe, and how the child was told to go |
| `child`, `task`, `inbox`, `outbox` | the process, what it executes, and the two directions of its pipe |
| `pc`, `cur`, `polling`, `reapable` | where the coordinator is, its loop variable and its copies of lists |
| `drain`, `stopping`, `closing` | `_draining` and the thread in `drain()`, `_stopping`, the thread in `close()` |

One step is one hold of the store's lock, with two exceptions that make the model finer: while the
coordinator or `drain()` holds the lock and reads pipes, each message is a step, because children
go on writing, dying and being seen as dead meanwhile (`LockFree` keeps every other user of the
lock out); and each system call made without the lock (a send, a process start, a discard, a reap)
is a step of its own, between the two holds around it.

Actions are named for the code: `Submit`, `Get`, `Cancel`; the coordinator's `CoordBegin`,
`PickWorker`, `CoordReceive`, `PollEmpty`, `CoordEOF`, `CheckDead`/`CheckAlive`/`CheckSlow` (the
`is_alive()` and `READY_SECONDS` tests after the poll), `JobsStep` (deadlines and leftovers),
`Attach` (`_dispatch`), `SendMessage`/`SendDone` (`_send`), `Replenish`/`StartWorker`/
`StartRefused`/`JoinPool`/`StartFailed`/`Discard` (`_replenish`), `Reap`; `Drain...`, `Close...`;
and the children's `Child...`. The helpers `Settle`, `Retire`, `Abort`, `Lose`, `Stranded` and
`Receive` are `_finish` with `_expire`, `_retire`, `_abort`, `_retire` of a child in service,
`_start_failed` and `_drain_message`.

### What is abstracted

- Time. A job's deadline may pass at any pass of the coordinator (`JobsStep(late)` for any set
  `late`), a ready timeout at any check of a child that is not ready, a grace period at any reap,
  a backoff at any moment, a retention at any call that runs `_expire`. This is coarser than the
  code: whatever the code does with real clocks is among the model's behaviours.
- Payloads, results, owners, metrics other than `ended`. Progress and "loaded" messages change
  nothing another step reads, except `readiness()`, and are left out.
- A child's name is free again once its process is reaped, so a few names stand for any number of
  children; likewise a retired child's flags and unread messages, which nobody reads again, are
  dropped when it is retired.
- A send to a child that is gone always fails, and one to a child that is alive succeeds and
  returns. The second half leaves out a child that is stopped from outside while a job larger than
  its pipe is being sent (see the hazard at jobs.py:620).
- The coordinator's test of `_stopping` before it reaps and the reaping are one step: `close()`
  waits for a coordinator that is in it.

### Properties

`CountedOnce`, `NoStrayWork`, `PipeOwnership`, `HonestOutcome`, `AtMostOnce`,
`DrainedQueue`, `NothingOutlivesClose`, the refinement
`RefinesLifecycle` and the liveness properties `EveryJobEnds`, `CloseReturns` and `RetiredGo` are
stated with their meaning at the end of the module. `DrainedQueue` has a consequence for the code:
the branch of `_coordinate` that ends queued jobs while draining ("Back in the queue after its
child died before starting it") is never taken for a job that was attached, since `drain()` retires
every child that holds a job it has not started; it is a second line of defence.

`DrainSparesBegun` needs to know what a child has begun, which the store's own books do not say: a
job whose "started" is still unread in a pipe is queued in them, and `drain()` fails queued jobs.
`JobDrain` therefore adds a history variable, `begun`, to `JobPool`: the jobs whose child had sent
"started" when `drain()` took the lock. None of those is failed, because `drain()` reads every pipe
to its end first; without that pass (the mutant `DrainBeginBlind`) it is. The promise stops at that
moment: a job that a child begins after `drain()` has read that child's pipe, and before it has read
the others', is still queued and is failed, and the child retired.

### Runs

| Run | Instance | Shows | Size |
| --- | --- | --- | --- |
| `pool` | 2 jobs, 2 children, concurrency 2, 2 jobs per child; never drained or closed | the books of store and children agree, outcomes are honest, the lifecycle is refined | about 964 000 states (with symmetry), 130 s |
| `stop` | 1 job, 2 children, concurrency 1, 1 job per child; drain and close at every point | execution at most once, pipes, drain and close | about 458 000 states, 30 s |
| `live` | 1 job, 1 child, with fairness | every job ends, close returns, retired children go | about 24 000 states, 30 s |

Why the bounds are enough. Two jobs are needed for one job's message to reach the other's child and
for `_start_failed` to choose between jobs; two children for a retry on another child and for
"nobody is up" to differ from "my child died"; two jobs per child for a second job on the same
child, and one for the retirement after `max_jobs`. Drain and close double the depth and are
explored with one job, where every half-done operation they can meet exists; two children are
needed there for a replacement to be under way. The bound of `pool` is the constraint `InService`.
`served` and the two counters are bounded by the code itself (`max_jobs`, and by `AtMostOnce` and
`CountedOnce`). Deadlock is checked in every run: the children's processes, `Get` and a closed
store with nothing to do are steps or stutters of `Next`.

### Fairness

`Fairness` assumes of the threads only what they do: the coordinator, `drain()` and `close()` go
on when they can (weak fairness; the lock is held briefly by everyone). Deadlines are absolute, so
if passes of the coordinator keep coming, one of them finds every unfinished job late (strong
fairness of `JobsStep(Live)`), and likewise a reap that finds every retired child past its grace.
SIGKILL is obeyed. Nothing is assumed of HTTP threads, and nothing of a child: it may load, run a
task, or ignore SIGTERM and its pipe's end, for ever.

## 4. Proofs about the pool: `JobPoolInv`, `JobPoolProofs`

Assumptions: `SentinelAssumption` (the two "none" values are not a job and not a child),
`LimitAssumption` (both limits are positive, as the constructor demands), `WorkersAssumption`
(finitely many children's names). The theorems hold for any number of jobs and children, and any
limits. Every safety property of the pool's runs is proved, the refinement included, and two
invariants beside them: that `_active` and `job_id` always name each other (`Attached`), and that
the pool and the jobs a child serves are bounded (`PoolBound`).

The inductive invariant `IInv` is layered, so that each layer is proved from itself and those
before it:

1. `TypeOK` (theorem `TypeCorrect`).
2. `Books`: `Attached` and `CountedOnce` (theorems `JobsAttached`, `JobsCountedOnce`). Inductive
   together: that a finished job is counted once needs that `_retire` finds no finished job on a
   child, which is `Attached`; and `Attached` speaks of unfinished jobs only because every end of a
   job also detaches it.
3. `Threads`: `Control` (which thread holds the lock, who owns the coordinator's `cur`, when sends
   are outstanding) and `Membership` (each process is in the pool, retired or about to join, and in
   one of these only; lemma `ThreadsStep`). Needed because a name is reused after a reap: the
   coordinator's copies (`polling`, `reapable`, `cur`) must not name a child that has been let go.
4. `Work`: `Pipes` (what a pipe can hold, given the status of the job its child holds),
   `Beginnings` (in how many places a job may still begin), `AtMostOnce` and `HonestOutcome`
   (lemma `WorkStep`). Each alone is not inductive. `AtMostOnce` says that a job
   that has begun does not begin again, so every place it could still begin in - an inbox, a
   message not sent yet, the queue - must hold a job with `ran = 0`; and a retry puts a job back in
   the queue only while its status is "queued", which means that it has not begun only because
   `Pipes` relates "queued" to a pipe whose "started" has not been lost.
5. `Closing`, `DrainedQueue`, `Owned`, `Bounded`, each from the layers above:
   no start survives the event `_stopping`; no status returns to "queued" after a drain; a pipe
   belongs to the sending thread until it gives it up; a free child has jobs left to serve, and a
   start under way has room.

The lemmas about `Settle`, `Detach`, `Retire`, `Abort`, `Lose`, `Receive` and `Forget` say once
what each helper does to a layer; a step's proof then has one case per action and cites them. Two
predicates on pairs of states are proved of every step and serve several theorems: `Moved` step moves a job; from it the refinement and `DrainedQueue`) and `Placed`
(how a step changes the pool; from it `Closing` and `Bounded`). `DrainSparesBegun` is proved of
`Marked`, the specification with the history variable: while `drain()` works, a job that had begun and
is still queued has its "started" unread in the pipe of a child that `drain()` has yet to read
(`UnreadStart`).

| Theorem | Property |
| --- | --- |
| `Invariance` | `IInv` |
| `JobsRunAtMostOnce`, `OutcomesAreHonest`, `WorkIsOwned` | `AtMostOnce`, `HonestOutcome`, `NoStrayWork` |
| `Refinement` | `RefinesLifecycle`: `JobPool!Safety` implements `JobLifecycle!Safety` |
| `DrainLeavesNoQueue`, `DrainLetsBegunJobsEnd` | `DrainedQueue`, `DrainSparesBegun` |
| `PipesHaveOneOwner`, `PoolIsBounded`, `CloseLeavesNothing` | `PipeOwnership`, `PoolBound`, `NothingOutlivesClose` |

Only model-checked: the liveness properties `EveryJobEnds`, `CloseReturns` and `RetiredGo`.
Liveness and everything about `ENABLED` stays with TLC, since the prover has no backend for it.

## 5. The table: `JobTable`

### State and code

| Variables | Code |
| --- | --- |
| `phase` | no process; a process with an open file; one whose `close()` has let go of it (`_db` is None) |
| `status`, `finished` | a job's `status` and `_finished` in `_jobs`; "none" when it is not there |
| `tag` | its `_owner` and `_key`, in memory and in its row: neither ever changes |
| `keys` | `_keys` |
| `row`, `stamp` | `status` and `finished_at` of its row in jobs.sqlite; "none" without a row |
| `now`, `skew` | `time.monotonic()`, and how far `time.time()` is ahead of it |
| `submitted`, `outcome`, `ended` | what a caller has been told: for the properties only |
| `missed`, `forgotten` | the jobs whose end could not be written, and those expired while the file was open: for the properties only |

`Expire`, `Submit`, `Start`, `End`, `Close` and `Open` are `_expire`, `_accept`, the "started"
branch of `_drain_message`, `_finish`, the part of `close()` under the lock, and `_open_db`; `Exit`
is the end of the process, orderly or not, at any moment. All of them hold the store's lock
throughout, so one action is one operation. What can split an operation is a crash between two of
its transactions, and that leaves the same file as the operation without the second one followed by
`Exit`: memory is gone either way. Each transaction fails by itself (`worked`, `written`); a
submission whose insert fails is refused, which is `Expire`. An error in `_open_db` ends the process
with the file as it was.

A terminal status is one of "ended" (whichever `_finish` was given), "cancelled" (only for what
`close()` ends) and "service_restarted" (only for what `_open_db` fails). The properties tell these
three apart and no others. When jobs run, and why they end, is `JobPool`'s: here a known unfinished
job may start and end at any time, which covers it.

Time is in ticks. The monotonic clock goes on across processes, as it does on one machine until it
is rebooted; only differences of its values are used. The wall clock is ahead of it by `skew`, which
`SetClock` changes at will within `0..MaxSkew`: `MaxSkew = 0` is a wall clock nobody sets.
`submitted_at` is written and never read, so it is left out.

### Properties

`RowsCoverMemory`, `EndsAreKept`,
`KeptForRetention`, `NoDuplicateWork`, `ForgottenStays`, `NotFromTheFuture`, `NamesAgree` and
`WithinLimits` are stated with their meaning in the module; `TableInv` is the inductive invariant of
section 6. Three of them say something a reader of
the code would not expect at once:

- `RowsCoverMemory` holds although `INSERT OR REPLACE` may delete any row with the same owner and
  key: the row it deletes never belongs to a job that is still known.
- `NoDuplicateWork` is what idempotency keys are for: a caller that resubmits after a crash, a lost
  answer or a failed write gets the job that was cut off, and the work is not started twice until
  the first is over for a whole retention. It needs a wall clock that is not set forward across a
  restart, as `_open_db` deletes by wall-clock age.
- `ForgottenStays` holds for a failed delete, as the comment in `_expire` says, but only for jobs
  whose end was written.

The properties leave out (`missed`) the jobs whose end could not be written, about which the code is
deliberately lenient and docs/protocol.md is silent or says otherwise. "Terminal states do not
change" is true of a process, but if the write of an end fails (a full disk), this process answers
"succeeded" and the next one "failed, service_restarted"; the comment in `_write` accepts that. If
the delete of such a job fails too, the next start gives it a finish time and serves it again for a
retention. And the table is not written through on every status change: "queued" to "running" is
not, since a restart fails both alike.

### Runs

| Run | Instance | Shows | Size |
| --- | --- | --- | --- |
| `table_keys` | 3 jobs, 3 owners of one place each, 1 key, 2 unfinished, 1 retained, retention 2, 3 ticks, steady clock | limits, ends, ages, resubmission, what is forgotten | about 268 000 states (with symmetry), 40 s |
| `table_clock` | 2 jobs, 2 owners, 1 key, wall clock up to 1 ahead, set at any time | rows, keys, no age is negative | about 921 000 states, 40 s |

Why the bounds are enough. A key's history takes three jobs: one that is forgotten with its row
left behind, one that replaces it, and a third without the key or after the second. A retention of
two lets a finished job be one tick old when the worker starts again, so that the age `_open_db`
carries over is not zero, and three ticks let it expire after that. Each of the three limits of
`_accept` is the one that refuses in some state of `table_keys`: a second job of one owner, a third
unfinished job, and a third job beside a retained result; leaving out any one of the guards violates
`WithinLimits` there. The wall clock enters through `Old` and `Age` only, which
compare: one tick either way decides each comparison. Symmetry exchanges ids and owners, and no
definition chooses between them. `MaxTime` is the only bound of the model; deadlock is checked
(`SetClock` is always a step).

## 6. Proofs about the table: `JobTableProofs`

Assumptions: `LimitsAssumption` and `ClockAssumption` (positive limits, sentinels that are no time),
`NameAssumption` (`NoId` is no job, `NoKey` no key, the ids are finitely many). The theorems hold for
any number of ids, owners and keys, any limits, any retention and any bound on time.

The inductive invariant `TableInv` has four layers:

1. `Core`: `TypeOK`, `Unborn` (an id not given out is nowhere), `Dated` (finish times exactly where
   something ended), `UniqueRows` (the unique index), `NamesAgree`, `RowsCoverMemory`, and that no
   process knows nothing. None of the middle ones is inductive alone. That an insert replaces no
   known job's row (`RowsCoverMemory`) needs that a key that names no job is nobody's (`NamesAgree`,
   lemma `KeyFree`); and that `_keys` is rebuilt rightly from the file (`NamesAgree` after `Open`)
   needs `UniqueRows`, for the rows of forgotten jobs too.
2. `RowsTruthful` and `EndsAreKept`: how rows speak of ended jobs, so that what `Open` reads is true
   of what callers were told.
3. `NotFromTheFuture`, by itself.
4. Where the wall clock is never set: `Steady`, `NoDuplicateWork` and `Recorded`. `Steady` says that
   no time in
   memory or file is before the end a caller saw, and that a job that is gone has been over for its
   retention (`LongOver`); it ties the two clocks together through a restart, where a finish time
   becomes an age and a time again. `Recorded` says that memory and file date an end alike, so what
   expired in memory is too old for the next open (`ForgottenStays`).

| Theorem | Property |
| --- | --- |
| `TableInductive` | `TableInv` |
| `KeysNameKnownJobs`, `KnownJobsHaveRows`, `EndsSurviveRestarts` | `NamesAgree`, `RowsCoverMemory`, `EndsAreKept` |
| `AgesAreNatural` | `NotFromTheFuture` |
| `RetentionIsHonoured`, `NoKeyRunsTwice`, `ForgottenIsForgotten` | `KeptForRetention`, `NoDuplicateWork`, `ForgottenStays`, each for `MaxSkew = 0` |
| `TableIsBounded` | `WithinLimits`, for `MaxSkew = 0` |

`WithinLimits` is not inductive, since an open may bring back what memory has forgotten. `Limits`
counts, beside the known jobs, the rows that the next open would not find too old (`Counted`), and
says that a process that is up knows all of those. The latter is `Recorded`: a row is too old as soon
as memory lets go of the job, even when the delete failed. Then no open adds to what is counted, and
a submission counts in memory what it adds. The argument needs a steady wall clock, since the age of
a row is the wall clock's and the age of a job in memory is not.

## 7. Turns: `OwnerTurns`, `OwnerTurnsProofs`

`_dispatch` gives an idle child the oldest waiting job of the owner that was served longest ago.
Jobs are numbered as submitted, which is the order of the dict `_jobs`; a job put back in the queue
after its child died keeps its number. `served` and `dispatched` are `_served` and `_dispatched`,
`idle` counts the ready children without a job. `Begin`, `Attach` and `Return` are the loop, under
the store's lock (`locked`); everything else that changes the queue or the children happens between
two passes: `Submit`, `Leave` (cancelled, overdue, drained), `Ready`, `Gone`, `Finish`, `PutBack`.

`TakesTurns` is the promise of the code's comment: while an owner has a job waiting, each other owner
gets at most one child before it does. `overtaken` counts that and nothing in the model reads it. It
is not obvious that counting dispatches keeps the promise, because an owner's count survives its
absence, and a job may leave the queue without being served or return to it after being served.

Run `turns`: 3 owners (symmetric), 4 jobs, 2 children; about 302 000 states, 10 s. Three owners let
one be overtaken by each of two others; four jobs let one of them come twice. `MaxJobs` is the only
bound. Deadlock is checked.

Proved for any owners, number of jobs and children (`TurnsAlways`, `OwnersTakeTurns`,
`OwnersOldestFirst`). The strengthening is `Later`: whoever has overtaken a waiting owner has been
served later than it. Then it is not chosen before it again, since `Turn` takes the least `served`.
`OldestFirst` (an owner's jobs first reach a child in order) needs that submissions are numbered
without gaps (`Placed`).

## 8. Connections: `Connections`

One record per connection: where its thread is (`at`), the time left for reading (`read`, the one
deadline of `_Head`, which `_body` starts anew and `linger` may only shorten) and for the write under
way (`send`), the bytes that may still be read (`room`), and the flags `_unread_input`, `_replying`
(as the number of replies begun) and `_status` (`whole`). `within` tells whether a reply is written
inside the `try` of `do_POST`, since only there a timeout reaches an `except` that may reply again.
What a head or a body says is an outcome of reading it; what the store says is an outcome of `Act`.

`Accept`, `StartFails`, `Release` and `Refuse` are `process_request`; `Take`, `Select`, `Receive`,
`SelectorFails`, `Sweep` and `End` are the thread of `_BusyDrain`, at the granularity of its lock and
its system calls; `StopBusy` is its `close`. A registration may fail for any set of sockets and the
selector itself at any time.

`Tick(c)` takes a unit from the budgets of one connection. Connections share nothing that depends on
the time, so clocks of their own reorder nothing. At zero the deadline is near: what was awaited may
still come first.

| Property | Says |
| --- | --- |
| `SlotsBalance` | each slot, of the server and of the busy drain, is held by exactly one open connection |
| `HonestReplies` | at most one reply per connection, and never a refusal of a job the store took |
| `BoundedHold` | a peer holds a slot for the head, the body and two writes (`4 * Read`) and no longer |
| `SocketsClose` | every connection, accepted or refused, is closed in the end |

Run `connections`: 3 connections, 1 slot, 2 places in the drain, budgets of 2 and 1; about 197 000
states, 115 s. Two refused connections are needed beside an accepted one for a failing registration
to leave another pending; two units of `Read` make a deadline that is half over differ from a new
one. `CHECK_DEADLOCK FALSE`: after `StopBusy` nothing is accepted and the model ends.

Fairness: the drain thread goes on, and each handler goes on or its time passes. Nothing is assumed
of a peer, so a connection is closed by deadlines alone.

Proved for any connections, slots and budgets (`BudgetAssumption`: all positive, and the time for
lingering no longer than that for reading): `SlotsAreBalanced`, `RepliesAreHonest`, `HoldIsBounded`.
The first rests on `SlotsInv`: a step that moves a connection in or out of the places that hold a slot
changes the counter by one, and the drain thread's copies (`ready`) name only what is pending. The
others rest on `ConnInv`, a statement about each record: `Told` says where a reply can have been
begun, and `Spent` that the time a peer has held its slot and the time it has left together stay
within a bound for its phase. `BoundedHold` alone would not do: it says nothing of the time left. Only
model-checked: `SocketsClose`.

## 9. The stop: `LogQueue`, `ServerStop`

`LogQueue` is `log.py`: `Put` (`put_nowait`, which drops the line when the queue is full), the check
of `_active` and the put as two steps for a thread that `close()` can overtake, the writer thread,
and `close()` in steps (no more events, the end marker if there is room within its second). The
stream may block for ever (`blocked`).

`ServerStop` is `BridgeServer.stop`, `_drain_then_stop`, `_write_drain`, `server_close` and the end
of `main()`. Signal handlers run on the main thread's stack, so they are frames: while there is one
`main` does not move (`Goes`), and a signal may come in the midst of `stop()` itself, between its
check of `_signalled_at` and the assignment. Then two drain threads exist; `Drainers` bounds how many.
`drain()` may take for ever (it needs the store's lock); of the jobs only whether one runs matters.

| Property | Says |
| --- | --- |
| `DrainLineOnce` | the drain line is never after the stop line, at most once when one drain thread exists, and there unless `server_close` gave up waiting |
| `HonestDrainLine` | a line that says jobs still run and nobody interrupted was written because the deadline passed |
| `LastLinesWritten` | what the queue took of the last two lines is in the stream once `close()` saw the writer end |
| `SecondSignalStops` | a second signal ends serving although `drain()` hangs, and once `drain()` returns the process exits |
| `WriterEnds` | a queue too full for the end marker still ends the writer, if the stream takes what is in it |

`DrainLineOnce` carries its condition on purpose: with two drain threads the model has two drain
lines, each with its own fields. That needs two signals within the first handler's first statements;
the code does not exclude it, and its only effect is the second line.

Run `server`: 2 drain threads, 2 signals, a queue of 2 lines; about 391 000 states, 120 s. A queue
of two holds the drain and the stop line or neither, with one line of another thread; two signals
give both the second signal and the nested one. `CHECK_DEADLOCK FALSE`: the process ends.

Fairness: main thread, writer and drain threads are scheduled and the deadline passes; `drain()` and
the stream are not assumed to return, and no signal is assumed to come.

Proved for any finite number of drain threads, any number of signals, and any length of the queue
(`LogAssumption`, `LineAssumption`, `DrainAssumption`): `OneDrainLine`, `DrainLineIsHonest`,
`LastLinesAreWritten`. The invariant has three layers. `Base` says how far `main()` is from what it has
closed, and that serving ends only with a signal whose drain thread exists or is about to. `DrainInv`
has a part for each half of the argument: a line that was published is written or on its way (`Kept`),
a lone drain thread publishes once and whoever writes the line takes it (`Alone`), the stop line comes
after `main()` has closed the drain line (`Ordered`), and the loop of a drain thread ends without an
interruption or the deadline only when no job runs (`Honest`). `LastInv` follows the two last lines: an
accepted one is in the queue, in the writer's hand or in the stream, and never behind the end marker.
Only model-checked: `SecondSignalStops`, `WriterEnds`.

## 10. The index: `IndexFiles`

`Build(b)` is `write_index` in its system calls: both temporary files are opened, written and
renamed, any of these may fail (`Fails`: an open file, the guard on the written sidecar, either rename),
and the `finally` removes what is left. A file is named for the build that created it and
holds a whole build's output or `Part`, which is also what remains when two builds wrote into one
file; that such a file does not parse or match its checksum is assumed. `vtime` and `stime` stand for
`st_mtime_ns`, and every write changes it: a file system whose clock is too coarse to tell two
writes apart is outside the model. Nothing in the code keeps two builds into one directory apart, so
they overlap here.

`Enter`, `StatSidecar`, `StatVectors`, `Clear`, `OpenIndexJson`, `ReadSidecar`, `Parse`, `OpenIndexed`,
`ReadVectors`, `Store` and `Return` are `IndexCache.get` over `load_index`, which opens each file and takes its
stamp in one step and reads it in another, with an I/O error (`Errs`) tried once more. A search enters an index step twice (`facts`, `select`) with an embed job between; the step
lock is held until the index is let go (`pinned`), also by a call that timed out meanwhile.

| Property | Says |
| --- | --- |
| `GotIsCurrent` | an index step gets one build's whole output, whose vectors were in place at some moment of the step, and both of whose files were at one moment unless three builds have run at once |
| `OneIndexInMemory` | at most one index is cached, loaded or still worked with |
| `BuildsReplaceWhole` | builds that do not overlap, whatever died or failed before them: the vectors are replaced only when the sidecar that follows them is written, the sidecar only onto its own vectors, a file in place is never written to, and a build that ends well leaves its own two files |
| `OneModel` | a query vector is compared only with vectors of the same model |

Run `index`: 3 builds, one with another model, and 2 searches (symmetric); about 1 572 000 states, 90 s.
Two builds overlap in every way, one after the other too, with every fault; two searches let one load
while the other holds. Three builds are what the last part of `GotIsCurrent` is about, and too many to
explore with all that: the constraints `First` and `Orderly` let the third begin only while both
others run and before any search, and then there is no I/O error, no build that dies or fails, and one
first step of one search that begins while all three run. Deadlock is checked: a search may always be made again.

Proved for any builds, searches and models (`IndexAssumption`): `StepsGetCurrent`, `OneIndexAtATime`,
`ModelsAgree`, `BuildsAreWhole`. The last three each have an invariant of their own. `MemoryInv`: what
a search works with is the cached index, and a load begins only when nothing is cached. `ModelsInv`: a
search has scored only when it is over. `FilesInv`: as long as no two builds have overlapped, the build
that runs has the temporary files to itself, they hold what it wrote, and neither is a file already in
place (`Apart`), also after a build that died between its two renames. `BuildsReplaceWhole` is an action
property; each of its parts follows from `Apart` for the action that could break it.

`StepsGetCurrent` has two halves.

- That the index is one build's, and its vectors were in place during the step (`CurrentInv`): a time of
  modification names a file and what it held, so equal stamps before and after mean that it is still
  in place; and what was read agrees with the checksum in a sidecar only if both are whole and of one
  build.
- That both files were in place at one moment (`TogetherInv`), which depends on what overlapping builds
  can make of each other's files. With at most two builds at once (`Two`), a build whose sidecar was
  there has had its vectors there with it, or they are in the temporary file and its sidecar is still in
  place, or they never will be (`Possible`). An open sidecar may still be written to by the other build,
  that lost the file to the first one's rename; when a later build takes that file's place, the vectors
  of that writer are gone (`Reading`, and the last part of `Two`).

With three builds at once the second half is false, in two ways. One build renames the temporary
sidecar another has written; a third writes over it where it now lies, after a search has read it; and
only then are the vectors of the second put in place. Or: a build renames the temporary sidecar while a
second is still writing it, a search opens it there, a third renames the second's vectors into place and
its own sidecar over `index.json`, and only then does the second finish what the search has open. The
search still gets one build's output, whole and newer than the call, but its two files never lay there
together, and in the second case its whole sidecar was never `index.json` at all. `crowded` states the
condition, and the third build of the run, in which both cases occur, checks the rest of the property.

## 11. The clients: `ClientCall`

A tool call of the MCP server is `run` over `Bridge.run`: submit with the rest of the budget, pause
after a 429 while enough of it is left, poll, and cancel on whatever interrupts the wait. A PHP
application submits with a key, submits again when it was refused or got no answer, waits with
`Client::wait` and cancels as it likes. Which of the two a behaviour is about is chosen in `Init`.
A request given up (the connection failed or its timer fired) is lost, was handled, or is still on
its way (`late`) and handled later. The worker is reduced to its answers: a job is open until it ends
or its deadline, and known until it expires.

Timers are exact: `Tick` does not pass one that has not fired, as the real ones fire promptly. What they
cover differs. `CurlTransport` sets one timer on the whole request. The Python client gives
`http.client` a timeout for each operation of the socket, so that a connect, a send and every receive
have the whole of it again: a request is a number of operations (`req.ops`, at most `Operations`), and
`NextOperation` is the end of one of them in time. The number is a bound of the model; how many receives
an answer takes is up to the peer. The look-up of the host's name has no timer in either client and is
left out. A "tool call" here is one `run`: one task with its pauses.

| Property | Says |
| --- | --- |
| `OneJobPerCall` | a tool call starts at most one job; an application at most one that the worker still knows, late submissions included |
| `AbandonedIsCancelled` | a tool call that is over left no unfinished job, unless its submission or cancellation got no answer |
| `CallsEndOnTime` | `wait` never outlasts its deadline and says `wait_timeout` only when that deadline ended it; a tool call ends within its budget, one sleep and three requests, each as long as its operations may take together |

Run `calls`: a budget and a wait of 3, requests of 1 and 2, a poll interval of 2 (so that it does not
divide the wait), 2 operations of a tool's socket, 2 tries, 12 ticks; about 3 570 000 states, 50 s. The clock ends at `MaxTime`, after
every deadline of a first call; `CHECK_DEADLOCK FALSE` for that.

Proved (`ClientCallProofs`) for any positive timers and any numbers of operations and tries: `OneJob`, `NothingLeftBehind`,
`WaitsEndOnTime`. `ClientAssumption` says the timers are positive, as both clients demand of theirs, and
that `None` is no answer. One inductive invariant, `Inv`, has four parts:

1. `ClientInv`: types, that the client knows its job from the submission's answer on (`Knows`), and that
   it waits for a request of the kind its place says and gets an answer of that kind (`Asks`).
2. `OnceInv`: a tool call's submission is under way, was given up and may still arrive, or has become
   its only job, and it submits again only after a 429, which left nothing. For an application the key
   does it: any two jobs the worker knows are one, whenever a late submission arrives.
3. `OverInv`: once the client was told that a job is over or cancelled it is not open; the worker's steps
   never open a job again (`Kept`).
4. `TimeInv`: when each of the client's waits ends. `CallsEndOnTime` speaks of one step, and that the
   step starts early enough is this part; for instance, a pause ends at least `LastS` before the
   deadline, so the submission after it has something left of the budget.

## 12. The calculations: `Redaction`, `Chunking`, `Ranking`, `TaskRules`

These modules hold the sequential algorithms as operators. Inputs are what the algorithm tells
apart: a run of digits is its groups, a text is whitespace and word characters, a document is its
length in characters and bytes, a score is a small number. `Redaction`: card ranges and `_cards`,
IBAN trimming, entity pieces, `_merge` and masking. `Chunking`: `chunk_text`, the embed batches, the
snippet. `Ranking`: `validate` against both clients' checks, progress reports, ranking, the hashed
vector, the shape of a job. `TaskRules` starts each on every input of its set and takes one step.

`ResultsAccepted` is about rules written twice: whatever the worker or the index builder produces,
the checks of the PHP and Python readers accept, and what a tool submits the worker accepts.
`NothingLost` is about cutting and masking: every character of every candidate is masked and no
other, each word is in a chunk and each chunk in one batch, an entity sure enough stays one when its
pieces are joined, the matching word is shown, reports of progress go from nothing to all, at most 65
of them (docs/protocol.md promises 66).

Runs `texts` and `cards`: limits scaled down (card numbers of 2 to 4 digits, IBANs of 2 to 4
characters, fields of 3), all inputs up to 3 groups, 3 words, 3 candidates in 4 characters, 9
characters of text, 5 sizes, 3 documents, 200 documents of progress; about 86 000 states, 10 s.
`CHECK_DEADLOCK FALSE`: a calculation ends.

### Proofs: `TaskRulesProofs`

`AlwaysAccepted` and `NothingEverLost` state the two properties for inputs of any length and any
limits. `InputAssumption` is what they assume, and TLC evaluates it on the bounded inputs:

- the shape of each input, as its producer makes it: words in the order of the text and not
  overlapping, candidates inside the text, at least one document, a chunk size and a batch of at
  least one, a bucket and a sign for each feature, a progress that the worker has reported;
- two relations between limits: two texts that `validate` accepts fit the total of characters, and
  into one request's bytes (8192 characters of at most 4 bytes, against 200 000 characters and a
  request's limit);
- a snippet has room for at least four characters, its two ellipses among them.

The overlap of two chunks may be longer than a chunk, scores may tie, groups may be empty: nothing
is assumed there.

Such a proof is an induction over the data, and the library's induction theorems take an operator as
a parameter, which no backend instantiates. `Induction` takes the *set* of the numbers at which a
statement holds instead; it rests on `LeastNumber`, which follows from the library's theorem that
finite sets are well founded under strict inclusion. On it stand, in this order:

1. what the community modules' folds compute: `FoldSteps` (a fold is defined, and each step is
   what one expects) and, for a calculation, a lemma named `...Steps`. Recursive functions over an interval
   are handled by `DownExists` (there is such a function) and `DownTo`;
2. for each calculation an operator that says what holds after `n` steps, the invariant of the loop
   in the code: `Cut` (where the next chunk starts, and what lies before it), `Batched`, `Reported`,
   `Merged` (spans apart and in order, together covering just the candidates seen), `MaskedTo`,
   `PiecesTo`, `NamesTo`; it holds at the beginning, and every step keeps it;
3. for the two sorts, that an order exists at all (`SortExists`), so that what `InTextOrder` and
   `Rankings` choose is sorted; nothing else about the chosen order is used.

What each rests on in the code: `Merged` says that the last span begins no later than the candidate
just seen, so, with the candidates sorted, none still to come begins left of it. `NamesTo` holds
because a name never gets less sure when it absorbs a piece: the code takes the maximum, where a mean
would hide a sure piece among unsure ones. And the recursion of `ChunkText` ends because the next
chunk starts behind the start of the last one, however long the overlap is (`Follows`).

A mean is rounded down to sixths in the model, which is exact for up to three words; for longer pieces
the theorem speaks of the rounded mean, in the threshold and in the property alike.

### Finding: a card number beside a longer match stays visible

docs/protocol.md says of `CARD` "any 13–19 digit window of a digit run that passes Luhn, longest
first". `_cards` takes the longest range of whole groups that passes and moves its cursor behind it;
every range that begins to the left of the cursor is skipped from then on, also one that ends before
the range just taken. Run `cards` finds such a run of digits. With the worker's own limits:
`_redact` turns "4111 1111 1111 1111 6304 0000 0000 0000 000" into "4111 1111 1111 1111 [CARD]".
`CardsMasked` asks only that a range of whole groups that passes overlaps a masked one.

IBANs have a relative of this: the pattern is greedy and the search goes on behind what it took, so
one IBAN directly after another in the same run is trimmed away with the trailing groups. `Ibans`
models it; no document says otherwise.

## 13. Not modelled

- Text and bytes: HTTP parsing and routes, tokens and their comparison, JSON guards and memory
  estimates, the wording of errors, the text of metrics and log lines. Sequential, and best tested.
- What the regular expressions match, phone numbers and IPv6 forms, recasing and the windows of the
  named-entity models, model inference and tokenisers: data and numerics.
- Metrics: `ended` of `JobPool` is what `_finish` adds to its counter; the rest is formatting.
- Collecting files and roots for the MCP tools, health, the evaluation of answers.
- `Psr18Transport`, which leaves the request timeout to the client it wraps; the Laravel and Symfony
  glue, which registers services; `EmbedResult`'s shape checks.
- Scripts, containers, examples: operational tooling around the service.
- In `JobPool`: a child stopped from outside that does not read its pipe (the hazard at
  jobs.py:620). In `JobTable`: a restart with other limits, and the migration of an old file.
