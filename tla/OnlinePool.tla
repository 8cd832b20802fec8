----------------------------- MODULE OnlinePool -----------------------------
(***************************************************************************)
(* Pool.RunOnline of pkg/common/workerpool: a pool made for one list of    *)
(* tasks. RunOnline initialises the pool after it has released p.mx, fills *)
(* and closes the queue and waits for the workers, while callers of Stop   *)
(* and a goroutine that watches the parent context may shut the pool down. *)
(* A worker that panics is not started again.                              *)
(*                                                                         *)
(* Steps are cut as in WorkerPool. The recover of RunOnline is left out:   *)
(* nothing of what RunOnline itself calls panics. Task.Stop only makes     *)
(* task.process, which may return at any time here, return sooner.         *)
(***************************************************************************)
EXTENDS Naturals, Sequences, FiniteSets

CONSTANTS
  Workers,     \* p.workerConcurrency of them
  Tasks,       \* the tasks RunOnline is called with
  Stoppers,    \* the goroutines that call Pool.Stop, once each
  MaxPanics,   \* bound on the panics of workers
  Modes,       \* the shutdown modes Stop is called with
  Timed,       \* is shutdownTimeout # 0: the values a shutdown may see
  NoTask       \* a nil *Task

ASSUME OnlineAssumption ==
  /\ IsFiniteSet(Workers) /\ Workers # {}
  /\ IsFiniteSet(Tasks) /\ Tasks # {}
  /\ Stoppers \cap {"free", "watcher"} = {}
  /\ MaxPanics \in Nat
  /\ Modes \subseteq {"LIGHT", "SOFT", "HARD"}
  /\ Timed \subseteq BOOLEAN
  /\ NoTask \notin Tasks

VARIABLES
  state,        \* Pool.state
  mx,           \* the goroutine that holds Pool.mx across steps, or "free"
  run,          \* where RunOnline is
  err,          \* its named result err is not nil
  parentDone,   \* parentCtx is closed
  ctxDone,      \* Pool.ctx is closed
  watcher,      \* where the goroutine that watches parentCtx is
  stopCh,       \* Pool.stopCh
  workers,      \* the keys of Pool.workers
  taskQueueCh,  \* status of the queue channel
  queue,        \* tasks buffered in it
  workerErrCh,  \* status of the channel of worker errors
  errors,       \* how many errors are buffered in it
  shutdown,     \* where the holder of mx is in Stop or shutdownUnsafe
  mode, timed,  \* its shutdownMode, its shutdownTimeout # 0
  toStop,       \* workers stopWorkersUnsafe has still to call Stop on
  failed,       \* the result of shutdownUnsafe is an error
  stopper,      \* where each caller of Stop is
  wstate,       \* Worker.state
  wstopCh,      \* Worker.stopCh
  pc,           \* where the goroutine of the worker is
  hand,         \* its local variable task
  panics,       \* panics of workers so far
  toSend,       \* tasks RunOnline has still to send
  processed,    \* tasks whose task.process has returned
  crashed,      \* the process has ended: an unrecovered panic or a fatal error
  overran,      \* history: a shutdown gave up waiting for the workers
  early         \* history: a shutdown began before all workers were started

runVars    == <<run, err, parentDone, ctxDone, watcher, toSend>>
chanVars   == <<stopCh, taskQueueCh, queue, workerErrCh, errors>>
shutVars   == <<shutdown, mode, timed, toStop, failed, stopper, overran, early>>
workerVars == <<wstate, wstopCh, pc, hand, panics, processed>>
\* All but the variables of the workers.
elsewhere  == <<state, mx, workers, runVars, chanVars, shutVars, crashed>>
vars == <<elsewhere, workerVars>>

-----------------------------------------------------------------------------

PoolState == {"NEW", "ONLINE_RUNNING", "ONLINE_DONE", "INCOMPLETE_DONE",
              "SHUTTING_DOWN", "TERMINATE_TIMEOUT", "SHUTDOWN"}
WorkerState == {"NEW", "WORKING", "IDLE", "TERMINATING_PARENT_CTX_CLOSED",
                "TERMINATING_STOP_SIGNAL", "TERMINATING_TASK_CH_CLOSED",
                "TERMINATED", "RECOVER_ERR"}
Chan == {"nil", "open", "closed"}
StopChan == {"nil", "open", "signalled", "closed"}

RunTypeOK ==
  /\ state \in PoolState
  /\ mx \in Stoppers \cup {"free", "watcher"}
  /\ run \in {"idle", "init", "spawn", "send", "wait", "done", "returned"}
  /\ err \in BOOLEAN /\ parentDone \in BOOLEAN /\ ctxDone \in BOOLEAN
  /\ watcher \in {"off", "watching", "ctx", "ended"}
  /\ workers \in SUBSET Workers
  /\ toSend \in SUBSET Tasks /\ processed \in SUBSET Tasks
  /\ crashed \in BOOLEAN

ChanTypeOK ==
  /\ stopCh \in StopChan
  /\ taskQueueCh \in Chan
  /\ queue \in Seq(Tasks) /\ Len(queue) <= Cardinality(Tasks)
  /\ workerErrCh \in Chan
  /\ errors \in 0..Cardinality(Workers)

ShutTypeOK ==
  /\ shutdown \in {"off", "hung", "drain", "signal", "poll", "close",
                   "stopCh"}
  /\ mode \in {"LIGHT", "SOFT", "HARD"}
  /\ timed \in BOOLEAN /\ failed \in BOOLEAN
  /\ toStop \in SUBSET Workers
  /\ stopper \in [Stoppers -> {"idle", "stopping", "ok", "err", "panicked"}]
  /\ overran \in BOOLEAN /\ early \in BOOLEAN

WorkerTypeOK ==
  /\ wstate \in [Workers -> WorkerState]
  /\ wstopCh \in [Workers -> StopChan]
  /\ pc \in [Workers -> {"none", "spawned", "locked", "check", "select",
                         "received", "process", "after", "exit", "report",
                         "over"}]
  /\ hand \in [Workers -> Tasks \cup {NoTask}]
  /\ panics \in 0..MaxPanics

\* Every field keeps a value of its type. The queue has room for all tasks
\* (pool.go:234) and the errors for one error of each worker (pool.go:233), so
\* neither RunOnline nor a worker ever waits for room.
TypeOK == RunTypeOK /\ ChanTypeOK /\ ShutTypeOK /\ WorkerTypeOK

\* NewPool: what RunOnline makes is still nil.
Init ==
  /\ state = "NEW" /\ mx = "free" /\ workers = {} /\ crashed = FALSE
  /\ run = "idle" /\ err = FALSE /\ watcher = "off" /\ toSend = Tasks
  /\ parentDone = FALSE /\ ctxDone = FALSE
  /\ stopCh = "nil" /\ taskQueueCh = "nil" /\ queue = << >>
  /\ workerErrCh = "nil" /\ errors = 0
  /\ shutdown = "off" /\ mode = "HARD" /\ timed = FALSE
  /\ toStop = {} /\ failed = FALSE
  /\ stopper = [s \in Stoppers |-> "idle"]
  /\ overran = FALSE /\ early = FALSE
  /\ wstate = [w \in Workers |-> "NEW"]
  /\ wstopCh = [w \in Workers |-> "nil"]
  /\ pc = [w \in Workers |-> "none"]
  /\ hand = [w \in Workers |-> NoTask]
  /\ panics = 0 /\ processed = {}

-----------------------------------------------------------------------------
(* RunOnline                                                               *)

\* Only a new pool is run; isBackground is set, so nobody else closes the queue.
RunOnline ==
  /\ run = "idle" /\ mx = "free"
  /\ IF state = "NEW"
       THEN state' = "ONLINE_RUNNING" /\ run' = "init" /\ UNCHANGED err
       ELSE run' = "returned" /\ err' = TRUE /\ UNCHANGED state
  /\ UNCHANGED <<mx, workers, parentDone, ctxDone, watcher, toSend, chanVars,
                 shutVars, crashed, workerVars>>

\* The fields are set without mx, one by one; Stop reads each of them once, in
\* the opposite order, so it cannot tell their assignments apart.
MakeChannels ==
  /\ run = "init"
  /\ run' = "spawn"
  /\ stopCh' = "open" /\ taskQueueCh' = "open" /\ workerErrCh' = "open"
  /\ UNCHANGED <<state, mx, workers, err, parentDone, ctxDone, watcher, toSend,
                 queue, errors, shutVars, crashed, workerVars>>

\* A range over the map that is under way may or may not produce the new worker.
SpawnWorker(w) ==
  /\ run = "spawn" /\ w \notin workers
  /\ workers' = workers \cup {w}
  /\ pc' = [pc EXCEPT ![w] = "spawned"]
  /\ \/ UNCHANGED toStop
     \/ shutdown = "signal" /\ toStop' = toStop \cup {w}
  /\ run' = IF workers \cup {w} = Workers THEN "send" ELSE "spawn"
  /\ UNCHANGED <<state, mx, err, parentDone, ctxDone, watcher, toSend, chanVars,
                 shutdown, mode, timed, failed, stopper, overran, early,
                 crashed, wstate, wstopCh, hand, panics, processed>>

\* A write of the map while Stop ranges over it is a fatal error of the Go
\* runtime if the runtime notices it.
MapRace ==
  /\ run = "spawn" /\ shutdown \in {"signal", "poll"}
  /\ crashed' = TRUE
  /\ UNCHANGED <<state, mx, workers, runVars, chanVars, shutVars, workerVars>>

\* The buffer has room for all tasks.
SendTask(t) ==
  /\ run = "send" /\ t \in toSend
  /\ toSend' = toSend \ {t}
  /\ queue' = Append(queue, t)
  /\ UNCHANGED <<state, mx, workers, run, err, parentDone, ctxDone, watcher,
                 stopCh, taskQueueCh, workerErrCh, errors, shutVars, crashed,
                 workerVars>>

MutCloseQueue == UNCHANGED taskQueueCh
CloseQueue == taskQueueCh' = "closed"

\* The queue is closed and the parent context watched from here on.
WatchParent ==
  /\ run = "send" /\ toSend = {}
  /\ CloseQueue
  /\ run' = "wait" /\ watcher' = "watching"
  /\ UNCHANGED <<state, mx, workers, err, parentDone, ctxDone, toSend, stopCh,
                 queue, workerErrCh, errors, shutVars, crashed, workerVars>>

MutIncomplete == FALSE
Incomplete == queue # << >>

\* wg.Wait returns and mx is free. A shutdown's state is overwritten.
AllDone ==
  /\ run = "wait" /\ \A w \in Workers : pc[w] = "over"
  /\ mx = "free"
  /\ state' = IF Incomplete THEN "INCOMPLETE_DONE" ELSE "ONLINE_DONE"
  /\ err' = (err \/ Incomplete)
  /\ run' = "done"
  /\ UNCHANGED <<mx, workers, parentDone, ctxDone, watcher, toSend, chanVars,
                 shutVars, crashed, workerVars>>

MutCancel == UNCHANGED ctxDone
Cancel == ctxDone' = TRUE

Return ==
  /\ run = "done"
  /\ run' = "returned"
  /\ Cancel
  /\ UNCHANGED <<state, mx, workers, err, parentDone, watcher, toSend, chanVars,
                 shutVars, crashed, workerVars>>

CloseParent ==
  /\ run # "idle" /\ ~parentDone
  /\ parentDone' = TRUE
  /\ UNCHANGED <<state, mx, workers, run, err, ctxDone, watcher, toSend,
                 chanVars, shutVars, crashed, workerVars>>

\* The three cases of the watcher's select.
WatcherStops ==
  /\ watcher = "watching"
  /\ \/ stopCh = "signalled" /\ stopCh' = "closed"
     \/ ctxDone /\ UNCHANGED stopCh
  /\ watcher' = "ended"
  /\ UNCHANGED <<state, mx, workers, run, err, parentDone, ctxDone, toSend,
                 taskQueueCh, queue, workerErrCh, errors, shutVars, crashed,
                 workerVars>>

WatcherSeesParent ==
  /\ watcher = "watching" /\ parentDone
  /\ watcher' = "ctx"
  /\ UNCHANGED <<state, mx, workers, run, err, parentDone, ctxDone, toSend,
                 chanVars, shutVars, crashed, workerVars>>

-----------------------------------------------------------------------------
(* Stop and shutdownUnsafe, under mx from the first step to the last       *)
(* (a range over the nil queue waits for ever, also when it is made later) *)

Stoppable == state \notin {"SHUTTING_DOWN", "SHUTDOWN"}

\* Written after RunOnline has returned, err is nobody's result any more.
SetErr(e) == err' = IF run = "returned" THEN err ELSE e

BeginShutdown(p, m, d) ==
  /\ mx' = p
  /\ state' = "SHUTTING_DOWN"
  /\ mode' = m /\ timed' = d /\ failed' = FALSE
  /\ early' = (early \/ run \in {"idle", "init", "spawn"})
  /\ IF m = "LIGHT"
       THEN shutdown' = "signal" /\ toStop' = workers
       ELSE /\ shutdown' = IF taskQueueCh = "nil" THEN "hung" ELSE "drain"
            /\ UNCHANGED toStop

Stop(s, m, d) ==
  /\ stopper[s] = "idle" /\ mx = "free"
  /\ IF Stoppable
       THEN /\ BeginShutdown(s, m, d)
            /\ stopper' = [stopper EXCEPT ![s] = "stopping"]
       ELSE /\ stopper' = [stopper EXCEPT ![s] = "ok"]
            /\ UNCHANGED <<state, mx, shutdown, mode, timed, toStop, failed,
                           early>>
  /\ UNCHANGED <<workers, runVars, chanVars, overran, crashed, workerVars>>

\* shutdownUnsafe of a pool that was stopped returns nil, and so err becomes nil.
ShutdownByParent(d) ==
  /\ watcher = "ctx" /\ mx = "free"
  /\ IF Stoppable
       THEN BeginShutdown("watcher", "HARD", d) /\ UNCHANGED <<watcher, err>>
       ELSE /\ watcher' = "ended" /\ SetErr(FALSE)
            /\ UNCHANGED <<state, mx, shutdown, mode, timed, toStop, failed,
                           early>>
  /\ UNCHANGED <<workers, run, parentDone, ctxDone, toSend, chanVars, stopper,
                 overran, crashed, workerVars>>

\* SOFT and HARD: the queue is read until it is closed and empty.
DrainTask ==
  /\ shutdown = "drain" /\ queue # << >>
  /\ queue' = Tail(queue)
  /\ UNCHANGED <<state, mx, workers, runVars, stopCh, taskQueueCh, workerErrCh,
                 errors, shutVars, crashed, workerVars>>

Drained ==
  /\ shutdown = "drain" /\ queue = << >> /\ taskQueueCh = "closed"
  /\ shutdown' = "signal" /\ toStop' = workers
  /\ UNCHANGED <<state, mx, workers, runVars, chanVars, mode, timed, failed,
                 stopper, overran, early, crashed, workerVars>>

\* A worker that has not made its stopCh yet misses the signal.
StopWorker(w) ==
  /\ shutdown = "signal" /\ w \in toStop
  /\ toStop' = toStop \ {w}
  /\ wstopCh' = IF wstate[w] \in {"NEW", "WORKING", "IDLE"} /\ wstopCh[w] = "open"
                  THEN [wstopCh EXCEPT ![w] = "signalled"] ELSE wstopCh
  /\ UNCHANGED <<state, mx, workers, runVars, chanVars, shutdown, mode, timed,
                 failed, stopper, overran, early, crashed, wstate, pc, hand,
                 panics, processed>>

PollWorkers ==
  /\ shutdown = "signal" /\ toStop = {}
  /\ shutdown' = "poll"
  /\ UNCHANGED <<state, mx, workers, runVars, chanVars, mode, timed, toStop,
                 failed, stopper, overran, early, crashed, workerVars>>

MutEnded(w) == wstate[w] # "WORKING"
Ended(w) == wstate[w] = "TERMINATED"

WorkersStopped ==
  /\ shutdown = "poll" /\ \A w \in workers : Ended(w)
  /\ shutdown' = "close"
  /\ UNCHANGED <<state, mx, workers, runVars, chanVars, mode, timed, toStop,
                 failed, stopper, overran, early, crashed, workerVars>>

ShutdownTimeout ==
  /\ shutdown = "poll" /\ timed
  /\ state' = "TERMINATE_TIMEOUT" /\ overran' = TRUE
  /\ shutdown' = "close"
  /\ UNCHANGED <<mx, workers, runVars, chanVars, mode, timed, toStop, failed,
                 stopper, early, crashed, workerVars>>

\* To close a nil channel, or one that an earlier shutdown has closed, panics and
\* is recovered. Then the watcher has its result, Stop goes on to stopCh.
CloseErrors ==
  /\ shutdown = "close"
  /\ state' = "SHUTDOWN"
  /\ IF workerErrCh = "open"
       THEN workerErrCh' = "closed" /\ errors' = 0 /\ failed' = (errors # 0)
       ELSE failed' = TRUE /\ UNCHANGED <<workerErrCh, errors>>
  /\ IF mx = "watcher"
       THEN /\ watcher' = "ended" /\ SetErr(failed')
            /\ shutdown' = "off" /\ mx' = "free"
       ELSE shutdown' = "stopCh" /\ UNCHANGED <<watcher, err, mx>>
  /\ UNCHANGED <<workers, run, parentDone, ctxDone, toSend, stopCh, taskQueueCh,
                 queue, mode, timed, toStop, stopper, overran, early, crashed,
                 workerVars>>

\* A second shutdown, after RunOnline has overwritten SHUTDOWN, sends on the
\* closed stopCh: that panic leaves Stop, mx is released.
SignalRunOnline ==
  /\ shutdown = "stopCh"
  /\ shutdown' = "off" /\ mx' = "free"
  /\ stopCh' = IF stopCh = "open" THEN "signalled" ELSE stopCh
  /\ stopper' = [stopper EXCEPT ![mx] =
                   IF stopCh \in {"signalled", "closed"} THEN "panicked"
                   ELSE IF failed THEN "err" ELSE "ok"]
  /\ UNCHANGED <<state, workers, runVars, taskQueueCh, queue, workerErrCh,
                 errors, mode, timed, toStop, failed, overran, early, crashed,
                 workerVars>>

-----------------------------------------------------------------------------
(* Worker.run with a WaitGroup, which it counts down when it is over       *)

Goto(w, to) == pc' = [pc EXCEPT ![w] = to]

StartWorker(w) ==
  /\ pc[w] = "spawned"
  /\ wstate' = [wstate EXCEPT ![w] = "IDLE"]
  /\ Goto(w, "locked")
  /\ UNCHANGED <<elsewhere, wstopCh, hand, panics, processed>>

MakeStopCh(w) ==
  /\ pc[w] = "locked"
  /\ wstopCh' = [wstopCh EXCEPT ![w] = "open"]
  /\ Goto(w, "check")
  /\ UNCHANGED <<elsewhere, wstate, hand, panics, processed>>

ReceiveStop(w) ==
  /\ pc[w] \in {"check", "select"} /\ wstopCh[w] = "signalled"
  /\ wstopCh' = [wstopCh EXCEPT ![w] = "closed"]
  /\ wstate' = [wstate EXCEPT ![w] = "TERMINATING_STOP_SIGNAL"]
  /\ Goto(w, "exit")
  /\ UNCHANGED <<elsewhere, hand, panics, processed>>

\* The pool's context is closed only after all workers are over.
NotStopped(w) ==
  /\ pc[w] = "check" /\ wstopCh[w] # "signalled" /\ ~ctxDone
  /\ Goto(w, "select")
  /\ UNCHANGED <<elsewhere, wstate, wstopCh, hand, panics, processed>>

ReceiveTask(w) ==
  /\ pc[w] = "select" /\ queue # << >>
  /\ hand' = [hand EXCEPT ![w] = Head(queue)]
  /\ queue' = Tail(queue)
  /\ Goto(w, "received")
  /\ UNCHANGED <<state, mx, workers, runVars, stopCh, taskQueueCh, workerErrCh,
                 errors, shutVars, crashed, wstate, wstopCh, panics, processed>>

QueueClosed(w) ==
  /\ pc[w] = "select" /\ queue = << >> /\ taskQueueCh = "closed"
  /\ wstate' = [wstate EXCEPT ![w] = "TERMINATING_TASK_CH_CLOSED"]
  /\ Goto(w, "exit")
  /\ UNCHANGED <<elsewhere, wstopCh, hand, panics, processed>>

BeginTask(w) ==
  /\ pc[w] = "received"
  /\ wstate' = [wstate EXCEPT ![w] = "WORKING"]
  /\ Goto(w, "process")
  /\ UNCHANGED <<elsewhere, wstopCh, hand, panics, processed>>

EndTask(w) ==
  /\ pc[w] = "process"
  /\ processed' = processed \cup {hand[w]}
  /\ hand' = [hand EXCEPT ![w] = NoTask]
  /\ wstate' = [wstate EXCEPT ![w] = "IDLE"]
  /\ Goto(w, "after")
  /\ UNCHANGED <<elsewhere, wstopCh, panics>>

NextTask(w) ==
  /\ pc[w] = "after"
  /\ Goto(w, "check")
  /\ UNCHANGED <<elsewhere, wstate, wstopCh, hand, panics, processed>>

\* In the bookkeeping before or after task.process: the task at hand is lost.
Panic(w) ==
  /\ pc[w] \in {"received", "after"} /\ panics < MaxPanics
  /\ panics' = panics + 1
  /\ hand' = [hand EXCEPT ![w] = NoTask]
  /\ wstate' = [wstate EXCEPT ![w] = "RECOVER_ERR"]
  /\ Goto(w, "report")
  /\ UNCHANGED <<elsewhere, wstopCh, processed>>

\* A send on the closed channel of errors is not recovered.
ReportPanic(w) ==
  /\ pc[w] = "report"
  /\ IF workerErrCh = "closed"
       THEN crashed' = TRUE /\ UNCHANGED <<errors, pc>>
       ELSE errors' = errors + 1 /\ Goto(w, "over") /\ UNCHANGED crashed
  /\ UNCHANGED <<state, mx, workers, runVars, stopCh, taskQueueCh, queue,
                 workerErrCh, shutVars, wstate, wstopCh, hand, panics,
                 processed>>

ExitWorker(w) ==
  /\ pc[w] = "exit"
  /\ wstate' = [wstate EXCEPT ![w] = "TERMINATED"]
  /\ Goto(w, "over")
  /\ UNCHANGED <<elsewhere, wstopCh, hand, panics, processed>>

-----------------------------------------------------------------------------

Runner ==
  \/ MakeChannels \/ WatchParent \/ AllDone \/ Return
  \/ \E w \in Workers : SpawnWorker(w)
  \/ \E t \in Tasks : SendTask(t)

Watcher == WatcherStops \/ WatcherSeesParent \/ \E d \in Timed : ShutdownByParent(d)

Shutdown ==
  \/ DrainTask \/ Drained \/ PollWorkers \/ WorkersStopped \/ ShutdownTimeout
  \/ CloseErrors \/ SignalRunOnline
  \/ \E w \in Workers : StopWorker(w)

Worker(w) ==
  \/ StartWorker(w) \/ MakeStopCh(w) \/ ReceiveStop(w) \/ NotStopped(w)
  \/ ReceiveTask(w) \/ QueueClosed(w) \/ BeginTask(w) \/ EndTask(w)
  \/ NextTask(w) \/ ReportPanic(w) \/ ExitWorker(w)

Next ==
  /\ ~crashed
  /\ \/ RunOnline \/ CloseParent \/ MapRace
     \/ Runner \/ Watcher \/ Shutdown
     \/ \E s \in Stoppers, m \in Modes, d \in Timed : Stop(s, m, d)
     \/ \E w \in Workers : Worker(w) \/ Panic(w)

Spec == Init /\ [][Next]_vars

\* Every goroutine that can take a step goes on; task.process returns. Nothing
\* is assumed of panics, of calls of RunOnline and Stop and of the parent context.
Fairness ==
  /\ WF_vars(~crashed /\ Runner)
  /\ WF_vars(~crashed /\ Watcher)
  /\ WF_vars(~crashed /\ Shutdown)
  /\ \A w \in Workers : WF_vars(~crashed /\ Worker(w))

FairSpec == Spec /\ Fairness

-----------------------------------------------------------------------------
(* Properties                                                              *)

\* pool.go:284-302: when RunOnline returns no error nothing of its work is left
\* behind: no worker runs or holds a task and the queue is empty; and unless a
\* worker panicked or a shutdown found the pool initialised, all is processed.
\* Excepted is a queue that panics left and whose error the watcher has replaced
\* by the nil of a second shutdown, after a LIGHT one, just before the return.
NilMeansSettled ==
  run = "returned" /\ ~err =>
    /\ \A w \in Workers : pc[w] = "over" /\ hand[w] = NoTask
    /\ toSend = {}
    /\ queue = << >> \/ (parentDone /\ mode = "LIGHT")
    /\ panics = 0 /\ workerErrCh = "open" => processed = Tasks

\* pool.go:454: the channel of errors is closed under no worker that could still
\* send on it, unless a shutdown gave up waiting or one began (LIGHT) before
\* RunOnline had started all of its workers.
ErrorsOpenForWorkers ==
  workerErrCh = "closed" /\ ~overran /\ ~early =>
    \A w \in Workers : pc[w] = "over"

\* A shutdown that ranges over the nil queue, or waits without a limit for a worker
\* that panicked, never returns.
StuckShutdown ==
  \/ shutdown = "hung"
  \/ shutdown = "poll" /\ ~timed /\ \E w \in workers : wstate[w] = "RECOVER_ERR"

\* pool.go:183-303: RunOnline returns, whoever shuts the pool down meanwhile,
\* unless a shutdown is stuck with mx in its hands or the process has ended.
OnlineReturns == run # "idle" ~> run = "returned" \/ StuckShutdown \/ crashed

\* pool.go:395-417: so does Stop.
StopReturns ==
  \A s \in Stoppers :
    stopper[s] = "stopping" ~> stopper[s] # "stopping" \/ StuckShutdown \/ crashed

\* pool.go:277-279, "no goroutines may be left hanging": once RunOnline has returned
\* the goroutine that watches the parent context ends.
WatcherEnds ==
  run = "returned" ~> watcher \in {"off", "ended"} \/ StuckShutdown \/ crashed
=============================================================================
