# Verification of goapp

TLA+ modules, TLC configurations and TLAPS proofs for `romapres2010/goapp`, a
template of a Go backend: an HTTP service that processes requests through a
worker pool. The pool (`src/pkg/common/workerpool`) is the part with most of the
logic that is hard to test and has the most detailed models; the process around
it, what is behind the HTTP router, and the library's packages for outgoing HTTP
and SQL are modelled at the points where steps of several actors meet.

## 1. The system

| Component | State | Operations | Interacts with |
|---|---|---|---|
| `workerpool/pool.go` Pool | life-cycle state, `mx`, queue channel, channel of worker errors, stop channel, contexts, map of workers | `NewPool`, `AddTask`, `RunBG`, `RunOnline`, `Stop`, `shutdownUnsafe` | spawns and restarts workers, called by the service |
| `workerpool/worker.go` Worker | state, stop channel, task in process, `mx` | `run`, `Stop` | receives from the queue, runs tasks, reports panics to RunBG |
| `workerpool/task.go` Task | state, channels, timer, error, responses, `mx` | `NewTask`, `process`, `Stop`, `DeleteUnsafe` | runs the handler, notifies the submitter |
| `workerpool/taskpool.go` | global `sync.Pool` of tasks | `getTask`, `putTask` | shared by all pools of the process |
| `workerpoolservice` | pool, timeouts | `AddTask`, `RunTasksGroupWG`, `RunTasksGroupCh`, `Run`, `Shutdown` | groups of tasks over the pool |
| `daemon`, `cmd/app` | services, error channel, contexts | `New`, `Run`, `Shutdown` | starts and stops everything |
| `httpserver` | listener, `http.Server` | `Run`, `Shutdown` | net/http |
| `httpservice` | handlers, request ids, buffers | `Process`, `recoverWrap`, `processError`, authentication | handlers, JWT, logs |
| `httphandler` | none | factorial through the pool or in a loop, echo, health, ready | worker pool service |
| `logger`, `httplog` | global logger and configuration | `SetGlobalConfig`, `CloseLogger`, `SetConfig` | every component |
| `httpclient` | none | `Process` with retries | other services |
| `jwt`, `bytespool` | key; `sync.Pool` of arrays | `CreateJWTCookie`, `CheckJWT`; `GetBuf`, `PutBuf` | HTTP service |
| `sqlxx` | connection pool, map of statements, transactions | `New`, `PreparexAddSql`, `Beginx`, `Select`, `Exec`, `Commit`, `Rollback` | PostgreSQL |
| `config`, `error`, `ctx`, `recover`, `metrics`, `version` | small or none | | |

`src/vendor`, `src/lib`, `src/deploy`, `src/db` hold no logic of this program.

How they interact: an HTTP handler makes one task per number of the request
(`NewTask`), hands them to the service as a group, the service calls `AddTask`
for each and waits on a `WaitGroup` for the worker that processes the task to
call `Done`; then the handler reads error and response out of each task and puts
the task into the cache. The daemon starts the pool's `RunBG` in a goroutine of
its own and calls `Stop` when it shuts down; `RunBG` shuts the pool down by
itself when the daemon's context closes.

What is hard in it:

- the pool's shutdown runs against callers of `AddTask`, workers that panic and
  are being restarted, and `RunBG`, over channels that are closed and fields that
  are read without locks;
- a worker's stop channel is made anew on each start, the pool's stop channel and
  queue only by `RunBG`;
- a handler that is given up on a timeout goes on running and writes into the
  task object, which is shared through a cache;
- a shutdown may run out of time and then leaves everything running;
- `RunOnline` fills its pool without the lock while it may be shut down, and its
  result is written by the goroutine that watches the parent context, too;
- the daemon stops the pool before the HTTP server, on a signal or an error that
  may come while it is still starting;
- a request may replace the global logger while others log through it;
- pooled buffers, tokens that expire between two steps, attempts whose answer is
  lost, transactions whose commit may have happened.

What makes each component correct:

- *pool and worker*: an accepted task is in one place; a worker that panics is
  started again, exactly once; when the channel of errors is closed nobody can
  send on it; Stop, AddTask and RunBG return; the modes keep what they say about
  queued and running tasks;
- *task and cache*: a submitter is notified once and reads the answer of its own
  handler; what is cached is clean; a late handler touches nobody else's task;
- *service*: a group returns, and without an error only if all of its tasks were
  processed;
- *daemon*: the first error stops everything, each service once, in an order in
  which requests underway can still be answered;
- *HTTP service*: each request is answered once, as far as a panic of the logger lets
  it, and buffers come back once;
- *tokens*: a request is let in only while a password vouches for it;
- *logger*: whatever configuration is set or rejected, no file stays open that
  nobody can close;
- *HTTP client*: a request is performed once, and there are as many attempts as
  configured;
- *SQL access*: what `Commit` and `Rollback` tell is what happened.

`PROJECT.json` lists the hazards with their lines.

## 2. The modules

| Module | Models |
|---|---|
| `WorkerPool` | `pool.go` in background mode and `worker.go` |
| `PoolPromise` | what the pool promises the callers of `AddTask`, abstractly |
| `Task` | `task.go`, `taskpool.go` and how a handler reads its answer |
| `TaskGroup` | the groups of tasks of `workerpool_service.go`, over `PoolPromise` |
| `OnlinePool` | `pool.go` in online mode: `RunOnline`, its shutdown and its workers |
| `Daemon` | `cmd/app`, `daemon`, `config`, `httpserver`, `workerpoolservice` from start to exit, over `PoolPromise` |
| `HttpService` | `httpservice` with `jwt` and `bytespool`: requests at the same time |
| `Logging` | `logger` and `httplog` |
| `Factorial` | `WpHandlerFactorial` and what it computes |
| `HttpClient` | `httpclient` |
| `SqlTx` | `sqlxx` |
| `WorkerPoolProofs`, `PoolPromiseProofs` | theorems of `WorkerPool`: workers and errors; tasks, shutdown and the refinement of `PoolPromise` |
| `TaskProofs`, `TaskGroupProofs`, `OnlinePoolProofs`, `DaemonProofs` | theorems of the module each is named after |
| `HttpProofs` | theorems of `HttpService`, `Logging` and `Factorial` |
| `LibraryProofs` | theorems of `HttpClient` and `SqlTx` |
| `MCWorkerPool`, `MCTask`, `MCTaskGroup`, `MCDaemon` | sets of model values for TLC |
| `MCHttp`, `MCLibrary` | several modules that share no state, for one run |

### WorkerPool

A step is what one goroutine does between two points at which another one can
see or disturb it. Sections under a mutex whose effects nobody can see
unlocked are one step (`RunBG` up to `p.mx.Unlock`); everything else is cut at
channel operations and at the accesses to `Worker.state`, `Worker.stopCh` and
`Worker.taskInProcess`, which the code reads without a lock.

- A channel is its status (`nil`, `open`, `closed`) and, for the queue and the
  errors, the sequence it buffers. A send on a full channel is not enabled, a
  send on a closed one panics: in `AddTask` that is recovered (`SendOnClosed`);
  in a worker it would end the process, so there is no step, and
  `ClosedAfterWorkers` says that it cannot happen. A receive from a nil channel
  is never enabled (`DrainQueue` of a pool that was never started).
- A stop channel has capacity one; the signal and the close that follows it are
  one step (`signalled`), as a receiver gets the signal first in any case.
- `mx` is the goroutine that holds the write lock across several steps: a caller
  of `Stop` or `RunBG`. `AddTask` looks at the state under the read lock in a
  step and sends in another one.
- `calls[w]` counts the goroutines spawned as `worker.run` (by `RunBG` at its
  start and for each error) which have not got as far as `TryLock`; `pc[w]` is
  the place of the goroutine that holds `Worker.mx`.
- `Panic` is a panic outside of `Task.process` (metrics, bookkeeping), at the two
  places where the loop runs such code. Panics of handlers are recovered in
  `Task.process` and belong to `Task`.
- `EndTask` is the return of `Task.process`, with either of the two outcomes the
  pool can tell apart.
- Worker identity, error values, names, metrics and logging are left out. The
  state `RECOVER_ERR` of the pool is not reached: none of the code RunBG runs
  after it is initialised panics. `overran` is a history variable: some shutdown did
  not wait for the workers to the end.
- `Signalled` are the tasks whose object the cache gave out with the stop signal of an
  earlier use, which `task_cache` finds to happen. Their channel is closed from the
  start. A HARD shutdown that sends on it panics (`StopPanics`): the workers that come
  after are not signalled, and the deferred function of `shutdownUnsafe`
  (`RecoverShutdown`) makes the error that Stop returns; `workerErrCh` stays open.
  `StopSentOnce` says of all other channels that they are signalled once.

`PoolPromise` sees only what became of each task (`new`, `offered`, `rejected`,
`queued`, `held`, `finished`, `lost`) and the phase of the pool. `KeepsPromise`
is the refinement: `TaskView` reads the first off the call of AddTask, the queue,
the workers' hands and Task.state, `Phase` the second off Pool.state.

### Task

A job is one use of a task object: a submitter, a worker in `process` and, for a
long task, the handler goroutine. An object is in the cache, unused or in the
hands of a job; a job whose object is not given back leaves it to the garbage
collector. `kind` stands for the timeout: `short` (negative), `long` (positive),
`unlimited` (zero in the task and in the worker). The deferred functions of
`process` run in their order: notify, recover, unlock. A handler that returns
writes the error, then the responses; the two are not ordered against a
submitter that was notified of a timeout. `ReadTaskInProcess`, `Stop` and
`SendStop` are a HARD shutdown that holds a pointer which may be stale by the
time it is used. `GiveUp` is a submitter that stops waiting because its group
failed while tasks were being added.

### TaskGroup

The calls of `RunTasksGroupWG` and `RunTasksGroupCh` that share a pool. The pool
is an instance of `PoolPromise`: as `KeepsPromise` shows that `WorkerPool`
implements it, what is safe over the promise is safe over the pool; what the pool
must eventually do is stated as fairness (section 3). Each
step of a task is a step of `PoolPromise` conjoined with what the service or the
task does at that point: `AddTask` counts the task before it is offered to the
queue, `FinishTask` calls `wg.Done` or sends on `doneCh`, `DropTask` and `FailTask`
notify nobody.

- `group[g]` is the goroutine of the call, `collector[g]` the goroutine that
  `RunTasksGroupCh` starts when all tasks are sent. `err` is the result variable
  that the two share: the collector may write it between the last `wg.Done` and
  the moment the call reads it.
- The loop of `wg.Done` in a release is one step: `err` is set before it and
  nobody but the waiting call sees the counter, which it leaves at zero. As in
  the code, a release does not end the collector, and a closed context is
  taken again and again until `doneCh` is closed.
- A task that sends on a closed `doneCh` panics and is recovered in
  `Task.process`; its message is dropped.
- Nil tasks are left out, and the order in which a group adds its tasks is left
  open. A timeout can be found exceeded before any task. `TotalTimeout` FALSE is
  a configuration without one, whose timer of many years may still fire but is
  not assumed to.

### OnlinePool

The same cuts as in `WorkerPool`, for a pool that lives as long as one call.
`RunOnline` sets the fields and starts its workers after it has released `p.mx`
(`MakeChannels`, `SpawnWorker`), so that a `Stop` may meet a pool without a
queue or with some of its workers; and Go's map of workers may be written while
`stopWorkersUnsafe` ranges over it, which is a fatal error if the runtime notices
(`MapRace`, `crashed`). `hung` is the range over the nil
queue. `watcher` is the goroutine that watches the parent context and writes
RunOnline's result `err`. A worker that panics reports it and is not
started again; the `WaitGroup` is read off `pc`. `AllDone` overwrites the state
that a shutdown has left, after which a second shutdown passes the guard of
`shutdownUnsafe` and its send on the closed `stopCh` panics out of `Stop`.
`overran` and `early` are history variables: a shutdown gave up waiting, a
shutdown began before all workers were started.

### Daemon

`main` is the main goroutine, from the configuration to the exit code; each
service's goroutine is a step of its own. A signal is buffered in `signalCh` once
Run has called `signal.Notify` and ends the process before that. The pool is an
instance of `PoolPromise`, in which each request has one task, as in `TaskGroup`.
`Shutdown` stops the pool first: `Pool.Stop` with the service's timeout
(`Clamp`, where 0 means to wait without limit), then the server with the
daemon's, then the log. A request that arrives in between is answered with the
refusal of `AddTask`. Pool.Stop before RunBG has made the queue never returns
(`hung`, the finding of `pool_stop_new`). `PoolPanics` is the HARD Stop after an error
that meets a task with a signal from the cache (`Signalled` of `WorkerPool`); it is no
step that fairness forces. A failed ServeTLS leaves the listener open, and the
server's shutdown closes only one that Serve has got hold of: then the process exits
with the listener open, but serves nobody. The exits of `--help` and `--version`,
before anything is started, are left out. `jwtKey` is the source of the key that
ends up in `HttpServiceCfg.JwtKey`: the file's `args_jwt_key` is read into the
variable that holds the command line's.

### HttpService, Logging, Factorial

`HttpService` has one handler per connection, which brings one request after
another. `Arrive` chooses the kind of handler; `Check` is what `Process` and its
callers check (password, token, renewals), `Handle` the handler of the application
with any of its outcomes, `SetErrorLog` the one that changes how errors are answered,
`WriteStatus` and `Write` the two halves of the answer, between which the client may go
away, and `Finish` the return to `recoverWrap` and net/http. The logger and the metrics
are called between all of these, and the logger may panic when it is being reconfigured
(`logger.go:500`), so `Panic` may come at each of them: before the header the answer is
an error; behind the header of a response, or behind all of it, the error follows what
was written (`late`); and when `recoverWrap` or `processError` panic themselves, no
status is written and net/http closes the connection (`lost`). `broken` is the history
variable of that, and of a client that went away (`client`). Byte
arrays have identities: an array is in the pool, in a request's `buf`, or in the
`response`, and `PutBuf` is deferred from the moment the code defers it.
`Collect` is the garbage collector emptying the `sync.Pool`. No handler of the
application answers in `buf` today; that it may is what Process' comment
(`httpservice.go:380`) promises it. A token is its expiry time; `vouched` is a
history variable, the time until which a sign-in and unbroken renewals stand for
the client. The limits of the body are left to net/http: `cfg.MaxBodyBytes` is
never used.

`Logging` has the sinks (files) of the loggers. A configurer closes the old
closers, resets them, sets the configuration, adds the cores of the new logger
one by one, any of which may fail (`Abort`), and sets the logger;
`LoggerSetConfigHandler` and `HTTPLogHandler` are the handlers that begin a
configuration. `SetHttp` turns the HTTP log on or off; a configuration without a file's
parameters panics then, with the log already on and no file. A writer reads the logger in one step and writes in another; a lumberjack sink
opens its file on a write, also after its close.

`Factorial` is `calculateFactorialFn` with the loop, width and start value of the
code, the tasks in any order, and the addition of `sum_factorial`, which in the
mode "bg" starts from the value that the request carries. A nil array panics in
the handler, and `HttpService` has the answer. `n = 2^Width - 1` makes the
loop counter wrap and the loop endless; `WidthAssumption` of
`MCHttp` excludes it.

### HttpClient, SqlTx

`HttpClient` is one call of `Process`: the attempts, the pause between them, the
timeout of an attempt and the caller's context, against a service that performs
the request or refuses it with 404 or 405 and whose answer may be lost. The
context does not interrupt the pause. A second attempt whose body was consumed by
the first may be refused by the transport (`refused`). What `http.Transport`
repeats by itself is outside.

`SqlTx` has a map of prepared statements that is written without a lock (`MapRace`),
transactions that occupy a connection each, and calls whose effect and whose
report may disagree: a change is made and its error reported, a commit is stored
and its answer lost. The limit `MaxOpen` makes a call without a transaction wait for
one with; a waiting call is one that has not been made.

### MCHttp and MCLibrary

Both conjoin modules that share no state. A variable `part` says which of them a
behaviour is about, and the others stay at their initial states: their
interleavings are of no interest, as no property speaks of two of them. Each
property is the instance's.

## 3. The runs

| Run | Instance | Shows |
|---|---|---|
| `pool_safety` | 2 workers, 2 tasks, 1 caller of Stop in any mode, queue of 1, 1 panic, timeout possible, one task with a signal from the cache, symmetry in workers | type correctness, one error per worker with room for it, nothing runs when the errors are closed, one holder per task, an empty queue after SOFT/HARD, stop channels signalled once, refinement of `PoolPromise` |
| `pool_live` | 1 worker, 2 tasks, one with a signal from the cache, 1 caller of Stop in any mode, no timeout, 1 panic | Stop, AddTask and RunBG return, queued tasks are served |
| `task_safety` | 2 jobs, 1 object, all kinds, 2 calls of Task.Stop | late handlers, own answers, clean cache, notification |
| `group` | a group of 1 task with a `WaitGroup`, a group of 2 with a channel, queue of 1, 1 task lost by a panic, total timeout | what a group without an error had done, the counter of its `WaitGroup`, that groups return and collectors end |
| `library` | RunOnline: 2 workers, 1 task, 1 caller of Stop, LIGHT or HARD, timeout possible or not, 1 panic; client: up to 4 attempts, limits 0, 1, 2; SQL: 2 users, 1 statement, 1 connection, 2 changes | what RunOnline's nil means, that the errors' channel closes under no sender, that RunOnline, Stop and the watcher end; the client's attempts and their effect, and its return; what Commit tells |
| `daemon` | 2 requests, queue of 1, 1 lost task, four pairs of timeouts, all sets of sources of the key | no request left behind, exit code, key, termination |
| `http` | logs: 3 sinks, 2 of them rotated, 2 configurers, 1 writer; requests: 2 connections, 3 arrays, tokens of life 1 on a clock up to 4; sums: arrays of up to 3 numbers up to 5, 4 bits; symmetry in configurers and connections | no file left open, a response's array is nobody else's, one answer each or what a panic leaves of it, tokens, the sum |
| `group_drop` | 1 group of 2 tasks with a `WaitGroup`; expects a violation of `ConsumersAnswered` | a drained task leaves its group waiting forever |
| `pool_stop_new` | expects a violation of `StopOfNewPoolReturns` | Stop before RunBG waits forever |
| `pool_light` | expects a violation of `LightFinishesQueue` | LIGHT drops queued tasks |
| `task_crash` | expects a violation of `HandlerSendIsSafe` | a late handler ends the process |
| `task_cache` | expects a violation of `CachedStopChIsOpen` | a stop signal survives in the cache |

Why the bounds are enough. Two workers give the races between a worker and a
worker being restarted, and a shutdown that has stopped one but not the other;
workers do not refer to one another beyond that. A queue of one is full and empty
within two tasks, so that a caller blocked in AddTask meets the shutdown. One
panic makes RunBG restart a worker while the lock is still held, the restart be
rejected and retried, and any of it meet the shutdown; the theorems hold for any
number. One of the two tasks is `Signalled`, in `pool_safety` and `pool_live`, and the
other is not; the two runs that expect a violation do without. One caller of Stop and RunBG are the two that can shut the pool down;
a second call of Stop is the same guard again. Two jobs and one object give the
reuse of an object that a late handler, a late Task.Stop or the deferred functions
of the first job still refer to; a second object would only run independently.

Groups share nothing but the pool: one of each kind with a queue of one is enough
for a group to wait for the other one's task; two tasks in the group with a
channel let the timeout come between their messages, and the message that is one
too many follow a release; `TaskGroupProofs` holds for any number of them.

For RunOnline one task is enough to be lost in the queue, in a hand or by a drain,
and two workers to be stopped before and after they are started; the watcher and a
caller of Stop are two shutdowns, of which the second may come after AllDone has
overwritten the first one's state. The same properties hold with two tasks and two
callers of Stop (1.2 million states), and `OnlinePoolProofs` proves the safe ones for
any number. Two configurers overlap and follow one another; with three sinks
each of them has one to add while the old one is open. Two requests are enough to
get each other's array; the third array is the one the allocator makes when the
pool is empty. A life of 1 and a clock up to 4 let a token expire, be renewed at
its last moment and too late. Four bits overflow with `Fact[4]`.

Bounds in the guards: `MaxPanics` (panics of workers), `MaxStops` (calls of
Task.Stop), `MaxFails` (tasks lost by a worker's panic), `MaxTries` (attempts
counted), `MaxTime` (the clock), `MaxExecs` (changes of a transaction). The runs
switch deadlock checking off: a pool that is shut down, a process that has exited,
and jobs, groups, calls and sums that are done, stop. The type invariants of
`HttpService`, `Logging`, `HttpClient`, `Daemon` and `SqlTx` are not among the
runs' properties; they are a part of the inductive invariants that section 4 names.

The liveness runs use no symmetry. `StopReturns` and `QueueServed` except one
thing, `RestartLost`: RunBG has taken the parent context's branch and a worker
has panicked; nobody starts it again, and the shutdown, which waits for it to be
TERMINATED, has only its timeout. `Notified` excepts jobs without any timeout:
their handler may run forever, and `process` itself gets stuck in the read of a
timer that was never started (`stuck`).

### Fairness

Weak fairness of goroutines that can go on, which is what the Go scheduler gives:
`RunBG`, the holder of `mx`, a caller blocked in AddTask, a spawned `worker.run`,
the goroutine in a worker. That `Task.process` returns is assumed in `WorkerPool`;
in `Task` it is what `Notified` shows, from short handlers that return and timers
that fire, and with no assumption about long handlers. Nothing is assumed about
panics, calls of Stop, the parent context or the submission of tasks.

In `TaskGroup`: a call goes on when it can, a collector takes a message or sees
`doneCh` closed if it can for ever (its `select` chooses among ready cases at
random, so that the closed context cannot starve them), its timer fires if there
is a total timeout, and the pool takes and finishes tasks, which is
`QueueServed` of `WorkerPool` and `Notified` of `Task`. Nothing is assumed about
the shutdown or the context. `GroupReturns` excepts what the code does not answer: a
`WaitGroup` whose task a worker's panic lost, a shutdown drained, or a closed pool
left in its queue.

In `OnlinePool`: RunOnline, the watcher, the holder of `mx` and each worker go on
when they can, and `task.process` returns. `StuckShutdown` and `crashed` are
what its properties except: a range over the nil queue, a wait without a limit for
a worker that panicked (it never becomes TERMINATED), and the end of the process.
In `Daemon` the main goroutine goes on, with the timers of its shutdown, and so do
the goroutines of the services and the reading of the queue; nothing is assumed of
tasks, so `StopsInTime` needs both timeouts. In `HttpClient` Process goes on and
`client.Do` ends at its timeout or the context; nothing is assumed of the service. `HttpService`, `Logging`,
`Factorial` and `SqlTx` state no fairness: their properties are safety.

## 4. What is proved

`WorkerPoolProofs`, for every number of workers (finite, at least one), tasks,
callers of Stop, queue size and bound on panics (`PoolAssumption`):

- `TypeCorrect`: `Spec => []TypeOK`. Inductive as it stands; the proof has a step
  per action.
- `OneError`: `Spec => []OneErrorPerWorker`. A worker's right to run is a token:
  a spawned call, the goroutine in `run` or an error in the channel. RunBG turns
  an error into a call, a rejected start a call into an error, a panic the
  goroutine into an error.
- `ErrorsFit`: `Spec => []RoomForErrors`. By the pigeonhole principle: were the
  channel full, the errors in it, all of different workers and none of the sender,
  would be more than there are other workers.
- `WorkersEnded`: `Spec => []ClosedAfterWorkers`.

The inductive invariant `Inv` adds to `TypeOK` and `OneErrorPerWorker`: `Fresh`
(before RunBG nothing runs, so that RunBG gives each worker its first token),
`EndedForGood` (a TERMINATED worker has no token, so it stays TERMINATED),
`HandsEmpty` (a task is held only between its receipt and its end) and
`WaitedFor` (a shutdown that gets past the polling in time has seen all workers
TERMINATED). Without `EndedForGood` what the polling saw could be undone by a
restart.

`TaskGroupProofs`, for every number of groups and tasks (finitely many tasks), any
queue and bound on failures (`GroupAssumption`):

- `GroupType`: `Spec => []TypeOK`, in which the capacity of `doneCh` and the
  bound of the collector's count are the interesting part.
- `OkIsDone`: `Spec => []OkMeansDone`.
- `NeverBelowZero`: `Spec => []NeverNegative`.

Its invariant counts. For a `WaitGroup`, the counter is the number of tasks counted
and not notified, so that zero means all finished. With a channel, the counter and
`doneCnt` add up to the tasks of the group, but for the one message too many that
ends the collector; and unless a release made up for messages (`err`), `doneCnt`
and the messages in the channel add up to the tasks finished. `Frame` and
`Elsewhere` keep one group's step from the others, `OneMore` moves a task between
the counted sets.

`OnlinePoolProofs`, for every number of workers (finite, at least one), of tasks
(finite), callers of Stop and panics, any modes and timeouts (`OnlineAssumption`):

- `OnlineTypes`: `Spec => []TypeOK`. What is interesting in it are the bounds of
  the two buffers, from `Room`: each error is of a worker that is over and stays
  so, and the queue with what is still to send is no more than the tasks.
- `OnlineErrors`: `Spec => []ErrorsOpenForWorkers`.
- `OnlineSettled`: `Spec => []NilMeansSettled`.

The inductive invariant `Inv` follows a shutdown against RunOnline. `Started` and
`LateShutdown` say how far RunOnline is when a shutdown or its traces are seen;
`ClosesAfterWorkers` that a shutdown in time has seen all workers over.
`NothingLost` finds each task in one of its places as long as no worker panicked
and nothing is drained; `SignalMeansShutdown` and `WhyOver` say that without a
shutdown a worker ends only by the empty, closed queue: together they give that all
is processed when `wg.Wait` returns, which `DoneIsSettled` keeps. `LeftInQueue` is
about the race of RunOnline's return with a shutdown of a pool that is done: the
one way in which nil is returned over a queue that is not empty. Most parts are
kept by each step for themselves, so that the proof has one leaf for most of the
actions.

`PoolPromiseProofs` goes on from `Inv` of `WorkerPoolProofs`, for the same constants:

- `HeldOnce`: `Spec => []OneHolder`.
- `QueueDrained`: `Spec => []QueueLeftEmpty`.
- `StoppedOnce`: `Spec => []StopSentOnce`.
- `Promised`: `Spec => KeepsPromise`, the refinement of `PoolPromise`.

`Phases` ties the lock, the state and the status of the channels to how far a
shutdown is. `Holders` strengthens `OneHolder` by what is true of a task before it
is in anybody's hands (nobody has touched it) and by the worker's `taskInProcess`.
`DrainedOnce` says of the end of the range over the closed queue what
`QueueLeftEmpty` says of the end of the shutdown: nothing comes in between, as every
later send panics. `StopsLeft` says that what a shutdown has not got to was not
signalled, and that a task that was stopped has begun, so that no worker can take it
into its hands afterwards, but for those `Signalled` from the start. The refinement goes action by action: the steps of
goroutines that the promise does not see (`QuietSteps`), those that change the phase
(`PhaseSteps`; the pool is `closed` only with empty hands, by `WaitedFor`), and those
that change one task, for which `OneMoves` shows that the view of all other tasks
stays. A panic with a task in hand is `Fail`; a drain takes the head of the queue, and
as a task is in the queue once (`Holders`), what it was is `lost`.

`TaskProofs`, for every number of jobs and objects and any bound on stops:

- `TypeCorrect`, `LateHandlerHarmless`, `AnswersOwn`, `CacheStaysClean`: `TypeOK`,
  `LateHandlerIsAlone`, `AnswerIsOwn` and `CacheIsClean` are invariants of `Spec`.
- `TakenUp`: the early returns of `process`, which notify nobody, are not taken by a
  task of `NewTask`: it is unlocked and READY when its worker takes it up.

The heart of the invariant is `Alone`: no two jobs *use* the same object, where a
job uses its object as long as its submitter, its worker or its handler goroutine
has something to do with it. To keep it, one must know when an object comes back to
the cache, so the invariant follows the object's state (`Steps`), its lock (`Locks`)
and its channel and timer (`Channels`) as the worker of its job sees them: only
DONE_SUCCESS leads to the cache, and a handler that was given up leaves another
state behind. `Results` follows the response to its reader.

`DaemonProofs`, for every set of requests, queue, bound on failures
(`DaemonAssumption`) and pairs of timeouts:

- `ExitsGracefully`, `ExitCodeTells`, `KeyIsValid`: `GracefulExit`,
  `ExitTellsCause` and `KeyInForce` are invariants of `Spec`.
- `AsksOnlyThePromise`: `Spec => Pool!Spec`. With `Promised`, what the daemon
  relies on is what the pool keeps.

`InOrder` says how far the pool is for each place of the main goroutine; `Drained`
that a pool which closed in time left nothing; `ServerDown` that the server's
shutdown saw no request in flight or gave up, that nothing is served after it, and that
the daemon's context, which would end requests, is closed only after it; `Causes` that the cause is known before
the exit code is.

`HttpProofs`, for any connections, arrays, sinks, configurers, writers, times, and
for any width and bounds of numbers (`SinksAssumption`, `HttpAssumption`,
`WidthAssumption`: 2^Width leaves room for the largest number, the case in which
the code's loop ends):

- `BuffersAlone`, `AnsweredOnce`: `BufferAlone` and `AnswerIsOne` are invariants of
  `HttpService`; `OnlyWhileVouched` is its action property `LetInWhileVouched`.
  `ArraysApart` is what is inductive: an array is in the pool or in one request's
  hands, whether as its buffer or in its response, the same array in both included.
  `InHand` and `Unanswered` say which of them a request can have at each of its
  steps, `Unanswered` also that nothing is written behind a header, and nothing has gone
  wrong, before the handler is over; `TokensVouched` that every token was signed for a client vouched for as long.
- `NoFileLeaks`: `NoFileLeft` is an invariant of `Logging`. `Accounted` says, for
  each step of a configuration that no other one overlaps, where the open files are:
  closed with the old closers, or in the hands of the new logger; `Made` that a file
  is made before it is written to, so that a new one is never confused with an old.
- `SumCorrect`: `SumIsRight` is an invariant of `Factorial`. `Gathered` follows the
  tasks' results, in any order; `AddedSoFar` says that the sum is, to the width of a
  word, that of the values before `next`. It rests on what the recursive functions
  compute for every input: `TimesIsFactorial` (the loop of `calculateFactorialFn`
  returns the factorial) and `TotalExtends`. The library's induction theorems cannot
  be used with the provers at hand; `Least` (every set of numbers has a least
  element, from `WFMin`), `Induction` over sets instead of predicates, and
  `Recursion` (a recursive equation over an initial segment of the numbers has a
  solution) take their place, `WrapProduct` and `WrapSum` are the arithmetic modulo
  2^Width.

`LibraryProofs`, for any limits of attempts, users, statements and connections
(`LibraryAssumption`):

- `PerformedOnce`, `AsManyAttempts`: `PerformedAtMostOnce` and
  `AttemptsAsConfigured` are invariants of `HttpClient`. `Attempt` says that a new
  attempt is made only after an answer that nothing was performed.
- `CommitsTell`: `CommitTells` is an invariant of `SqlTx`, with `Over`: a
  transaction is over exactly when its outcome was told.

The theorems about `HttpService`, `Factorial`, `HttpClient` and `SqlTx` are about
the specifications of those modules, of which a run of `MCHttp` or `MCLibrary` takes
one part at a time.

Proved are thus all the safety properties of the passing runs, each for every value
of the constants. Only model-checked are the liveness properties (`pool_live`,
`Notified`, `GroupReturns`, `CollectorEnds`, `OnlineReturns`, `StopReturns`,
`WatcherEnds`, `CallReturns`, `StopsInTime`): liveness under fairness, and ENABLED with
it, is out of the prover's reach. Of the mode "online" of `Factorial` no property is
stated (section 5).

Proving has changed the model where it was wrong or said too little: the order in
which the sources of the key override one another was a CASE whose guards overlap
(`Daemon`, `Effective`), of which TLC takes the first and the semantics any;
`None` was not said to differ from a sink or an array; and the sum of a sequence is
a recursive function instead of a fold (`Factorial`, `Total`), so that it can be
reasoned about.

## 5. Disagreements found

The five violation runs, each with its quotation in `PROJECT.json`. Further ones
met while modelling, without a run of their own:

- Pool: `Stop` returns no error when it ran out of time, and `TERMINATE_TIMEOUT` is
  overwritten before the lock is released; "Soft + timeout"
  (`workerpool/README.md:63`) is not continued as HARD; the error of a panicking
  short handler is set after its submitter was notified (`task.go:178-196`), which
  `AnswerIsOwn` has to except.
- RunOnline: it returns nil though tasks were drained by a shutdown, and so
  unprocessed (the comments at `pool.go:273` and `pool.go:289` mean the error to
  tell); the watcher may replace the error for tasks that panics left; a second
  shutdown panics out of `Stop`; a LIGHT `Stop` during the initialisation closes
  the channel of errors under workers that are still to start (`early`).
- Daemon: a `Stop` before `RunBG` hangs it; the file's `args_jwt_key`
  overrides the command line, which is said to have priority (`config.go:154`); a key
  that is only in the environment is rejected by the validation.
- Pool and cache: a HARD shutdown that meets a task with a signal from the cache gives
  up its workers (`StopPanics`).
- HTTP service: a panic of the logger behind the header of a response puts an error
  behind a status 200, and one in `processError` leaves no answer; with `AuthType` NONE every sign-in fails; `JWTExpiresAt` 0 makes
  tokens that have expired already, against the comment at `httpservice.go:112`;
  `MaxBodyBytes` has no effect.
- Logger: the closers of URL sinks are thrown away (`logger.go:297`); a
  configuration that fails after the old logger was closed leaves `gZapLogger` nil;
  `Enable: false` keeps the default logger. A configurer that another one overlaps,
  or that overtakes a writer, may leave a file open (`lapped`, `reopened`).
- Factorial: the mode "online" does not begin anew with each number (its result is
  not stated as a property), and "bg" adds to the sum that the request brings.
- SQL: `New` leaves its connections open when a statement cannot be prepared;
  the map of statements is written without a lock.

Some hazards of `PROJECT.json` are caught by no property, because the code does meet
them and the property has to except exactly that:

| Hazard | Excepted by |
|---|---|
| a restart is lost when the parent context closes (`pool.go:382`) | `StopReturns`, `QueueServed` of `WorkerPool`: `RestartLost` |
| the submitter is notified before the error of a panic is set (`task.go:178`), or the error is overwritten (`task.go:222`) | `AnswerIsOwn` |
| a shutdown timeout of 0 waits without limit (`workerpool_service.go:265`) | `StopsInTime` |
| a message under way opens the HTTP log's file again (`httplog.go:75`) | `NoFileLeft`: `reopened` |
| `JWTExpiresAt` 0 (`jwt.go:77`) | nothing; `LetInWhileVouched` holds, as nobody is let in later |
| the product overflows, or the number is 2^64-1 (`handler_wp.go:135`) | `SumIsRight` is modulo the width; `WidthAssumption` |

Nor does a property say that a HARD shutdown stops the right job (`worker.go:235`): it
may not, and what holds nevertheless is `CacheIsClean`, `LateHandlerIsAlone` and
`Notified`.

## 6. Plan

Done: the pool in both modes, tasks and their cache, groups, the daemon, what is
behind the router, the client, SQL; the safety properties of all of them proved. Left,
in this order:

1. Proofs: what a state of the pool may follow as action properties, of `WorkerPool`
   and `OnlinePool` (a state of the pool that a later step overwrites is among the
   hazards), and what the liveness properties rest on that is safe: that no lock is
   held and no counter left behind where somebody waits.
2. The daemon with a group of tasks per request (`TaskGroup` under `Daemon`), which
   multiplies the states of the two.

## 7. Not modelled

- Metrics: counters for Prometheus, written atomically and read by no other part.
- Formatting of errors and of logged messages, headers, dumps of requests, names,
  versions: no property is about them.
- The other parameters of the configuration: choices of the constants.
- The router's table, TLS, profiling, health and ready: they keep no state.
- `src/deploy`, `src/db`, `src/lib`, `src/vendor`: scripts, descriptions and
  code of others. The generated files in `src/lib` are vendored with the metrics
  server, which no part of the program calls.
- Out of reach of the tools used: liveness for every value of the constants; TLC
  checks it on the instances above.
