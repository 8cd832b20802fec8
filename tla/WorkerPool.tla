----------------------------- MODULE WorkerPool -----------------------------
(***************************************************************************)
(* The background worker pool of pkg/common/workerpool (pool.go and        *)
(* worker.go): callers of AddTask, the bounded queue channel, the worker   *)
(* goroutines, the RunBG loop that restarts a worker that panicked, and    *)
(* Stop / shutdownUnsafe.                                                  *)
(*                                                                         *)
(* A step of the model is what one goroutine does between two points where *)
(* another one can observe or disturb it: a channel operation, a lock, or  *)
(* an access to one of the fields the code reads without a lock            *)
(* (Worker.state, Worker.stopCh, Worker.taskInProcess).                    *)
(***************************************************************************)
EXTENDS Naturals, Sequences, FiniteSets

CONSTANTS
  Workers,     \* the pool's workers (cfg.WorkerConcurrency of them)
  Tasks,       \* the tasks submitted, each by a caller of its own
  Stoppers,    \* the goroutines that call Pool.Stop, once each
  QueueSize,   \* cfg.TaskQueueSize: capacity of taskQueueCh
  MaxPanics,   \* bound on the panics of worker goroutines
  Modes,       \* the shutdown modes Stop is called with
  Timed,       \* is shutdownTimeout # 0: the values a shutdown may see
  Signalled,   \* tasks whose object the cache gave out with the stop signal of
               \* an earlier use (taskpool.go:63)
  NoTask       \* a nil *Task

ASSUME PoolAssumption ==
  /\ IsFiniteSet(Workers) /\ Workers # {}
  /\ Stoppers \cap {"free", "RunBG"} = {}
  /\ QueueSize \in Nat \ {0}
  /\ MaxPanics \in Nat
  /\ Modes \subseteq {"LIGHT", "SOFT", "HARD"}
  /\ Timed \subseteq BOOLEAN /\ Signalled \subseteq Tasks
  /\ NoTask \notin Tasks

VARIABLES
  state,         \* Pool.state
  mx,            \* the goroutine that holds Pool.mx for writing, or "free"
  parentDone,    \* parentCtx is closed
  ctxDone,       \* Pool.ctx is closed
  runBG,         \* where RunBG is
  stopCh,        \* Pool.stopCh
  taskQueueCh,   \* status of the queue channel
  queue,         \* tasks buffered in it
  workerErrCh,   \* status of the channel of worker errors
  errors,        \* workers whose error is buffered in it
  shutdown,      \* where the holder of mx is in shutdownUnsafe
  mode,          \* its shutdownMode
  timed,         \* its shutdownTimeout # 0
  toStop,        \* workers stopWorkersUnsafe has still to call Stop on
  stopTaskOf,    \* the worker whose Stop is past its signal (HARD), if any
  stopper,       \* where each caller of Stop is
  caller,        \* where each caller of AddTask is
  wstate,        \* Worker.state
  wstopCh,       \* Worker.stopCh
  inProcess,     \* Worker.taskInProcess
  hand,          \* the local variable task of Worker.run
  pc,            \* where the goroutine that holds Worker.mx is
  calls,         \* goroutines spawned as worker.run that have not run yet
  panics,        \* panics of workers so far
  tstate,        \* Task.state
  stopped,       \* tasks whose stop channel has had its signal and is closed
  overran        \* history: a shutdown did not wait for the workers to the end

poolVars   == <<state, mx, runBG, stopCh, ctxDone, parentDone>>
chanVars   == <<taskQueueCh, queue, workerErrCh, errors>>
shutVars   == <<shutdown, mode, timed, toStop, stopTaskOf, stopper, overran>>
workerVars == <<wstate, wstopCh, inProcess, hand, pc, calls, panics>>
taskVars   == <<caller, tstate, stopped>>
\* All but the variables of the workers.
elsewhere  == <<poolVars, chanVars, shutVars, taskVars>>
vars == <<elsewhere, workerVars>>

-----------------------------------------------------------------------------

PoolState == {"NEW", "BG_RUNNING", "SHUTTING_DOWN", "TERMINATE_TIMEOUT",
              "SHUTDOWN"}
WorkerState == {"NEW", "WORKING", "IDLE", "TERMINATING_PARENT_CTX_CLOSED",
                "TERMINATING_STOP_SIGNAL", "TERMINATING_TASK_CH_CLOSED",
                "TERMINATED", "RECOVER_ERR"}
\* A Go channel variable: nil, open, or closed by its only closer.
Chan == {"nil", "open", "closed"}
\* A stop channel (capacity 1): the signal is sent and the channel closed at once.
StopChan == {"nil", "open", "signalled", "closed"}

\* Where the goroutine in Worker.run is; "out" is outside of wr.mx.
WorkerPc == {"out", "locked", "check", "select", "received", "process",
             "after", "exit", "report", "unlock"}

\* Every field keeps a value of its type; the two buffered channels (pool.go:329,
\* 330) never hold more than their capacity.
PoolTypeOK ==
  /\ state \in PoolState
  /\ mx \in Stoppers \cup {"free", "RunBG"}
  /\ runBG \in {"idle", "loop", "ctx", "returned"}
  /\ stopCh \in StopChan
  /\ ctxDone \in BOOLEAN /\ parentDone \in BOOLEAN

ChanTypeOK ==
  /\ taskQueueCh \in Chan
  /\ queue \in Seq(Tasks) /\ Len(queue) <= QueueSize
  /\ workerErrCh \in Chan
  /\ errors \in Seq(Workers) /\ Len(errors) <= Cardinality(Workers)

ShutTypeOK ==
  /\ shutdown \in {"off", "drain", "signal", "poll", "close", "errors", "recover"}
  /\ mode \in {"LIGHT", "SOFT", "HARD"}
  /\ timed \in BOOLEAN /\ overran \in BOOLEAN
  /\ toStop \in SUBSET Workers /\ stopTaskOf \in SUBSET Workers
  /\ stopper \in [Stoppers -> {"idle", "stopping", "ok", "err"}]

WorkerTypeOK ==
  /\ wstate \in [Workers -> WorkerState]
  /\ wstopCh \in [Workers -> StopChan]
  /\ inProcess \in [Workers -> Tasks \cup {NoTask}]
  /\ hand \in [Workers -> Tasks \cup {NoTask}]
  /\ pc \in [Workers -> WorkerPc]
  /\ calls \in [Workers -> Nat]
  /\ panics \in 0..MaxPanics

TaskTypeOK ==
  /\ caller \in [Tasks -> {"idle", "sending", "accepted", "refused", "recovered"}]
  /\ tstate \in [Tasks -> {"READY", "IN_PROCESS", "DONE_SUCCESS", "TERMINATED"}]
  /\ stopped \in SUBSET Tasks

TypeOK ==
  /\ PoolTypeOK /\ ChanTypeOK /\ ShutTypeOK /\ WorkerTypeOK /\ TaskTypeOK

\* NewPool: everything RunBG makes is still nil.
Init ==
  /\ state = "NEW" /\ mx = "free" /\ runBG = "idle"
  /\ parentDone = FALSE /\ ctxDone = FALSE
  /\ stopCh = "nil"
  /\ taskQueueCh = "nil" /\ queue = << >>
  /\ workerErrCh = "nil" /\ errors = << >>
  /\ shutdown = "off" /\ mode = "HARD" /\ timed = FALSE
  /\ toStop = {} /\ stopTaskOf = {}
  /\ stopper = [s \in Stoppers |-> "idle"]
  /\ caller = [t \in Tasks |-> "idle"]
  /\ wstate = [w \in Workers |-> "NEW"]
  /\ wstopCh = [w \in Workers |-> "nil"]
  /\ inProcess = [w \in Workers |-> NoTask]
  /\ hand = [w \in Workers |-> NoTask]
  /\ pc = [w \in Workers |-> "out"]
  /\ calls = [w \in Workers |-> 0]
  /\ panics = 0
  /\ tstate = [t \in Tasks |-> "READY"]
  /\ stopped = Signalled
  /\ overran = FALSE

-----------------------------------------------------------------------------
(* AddTask: the state is checked under mx.RLock, the task is sent after it *)
(* is released. A send waits while the buffer is full.                     *)

MutRoom == Len(queue) <= QueueSize
Room == Len(queue) < QueueSize

AddTask(t) ==
  /\ caller[t] = "idle" /\ mx = "free"
  /\ caller' = [caller EXCEPT ![t] =
                  IF state = "BG_RUNNING" THEN "sending" ELSE "refused"]
  /\ UNCHANGED <<poolVars, chanVars, shutVars, workerVars, tstate, stopped>>

SendTask(t) ==
  /\ caller[t] = "sending"
  /\ taskQueueCh = "open" /\ Room
  /\ queue' = Append(queue, t)
  /\ caller' = [caller EXCEPT ![t] = "accepted"]
  /\ UNCHANGED <<poolVars, shutVars, workerVars, taskQueueCh, workerErrCh,
                 errors, tstate, stopped>>

\* A send on the closed channel panics, waiting or not; AddTask recovers.
SendOnClosed(t) ==
  /\ caller[t] = "sending"
  /\ taskQueueCh = "closed"
  /\ caller' = [caller EXCEPT ![t] = "recovered"]
  /\ UNCHANGED <<poolVars, chanVars, shutVars, workerVars, tstate, stopped>>

-----------------------------------------------------------------------------
(* RunBG                                                                   *)

\* The pool is initialised and its workers spawned under mx.
RunBG ==
  /\ runBG = "idle" /\ mx = "free"
  /\ IF state = "NEW"
       THEN /\ state' = "BG_RUNNING"
            /\ runBG' = "loop"
            /\ stopCh' = "open" /\ taskQueueCh' = "open" /\ workerErrCh' = "open"
            /\ calls' = [w \in Workers |-> 1]
       ELSE /\ runBG' = "returned"
            /\ UNCHANGED <<state, stopCh, taskQueueCh, workerErrCh, calls>>
  /\ UNCHANGED <<shutVars, taskVars, mx, ctxDone, parentDone, queue, errors,
                 wstate, wstopCh, inProcess, hand, pc, panics>>

\* The deferred p.cancel() closes Pool.ctx.
MutReturnRunBG ==
  /\ runBG' = "loop"
  /\ ctxDone' = TRUE

ReturnRunBG ==
  /\ runBG' = "returned"
  /\ ctxDone' = TRUE

MutTakeError == UNCHANGED errors
TakeError == errors' = Tail(errors)

\* An error of a worker: start it again.
RestartWorker ==
  /\ runBG = "loop" /\ errors # << >>
  /\ TakeError
  /\ calls' = [calls EXCEPT ![Head(errors)] = @ + 1]
  /\ UNCHANGED <<poolVars, shutVars, taskVars, taskQueueCh, queue, workerErrCh,
                 wstate, wstopCh, inProcess, hand, pc, panics>>

\* workerErrCh is closed and empty, or stopCh was signalled.
StopRunBG ==
  /\ runBG = "loop"
  /\ \/ workerErrCh = "closed" /\ errors = << >>
     \/ stopCh = "signalled"
  /\ ReturnRunBG
  /\ UNCHANGED <<chanVars, shutVars, workerVars, taskVars, state, mx, stopCh,
                 parentDone>>

\* The select took parentCtx.Done(): from here RunBG reads no more errors.
ParentClosed ==
  /\ runBG = "loop" /\ parentDone
  /\ runBG' = "ctx"
  /\ UNCHANGED <<chanVars, shutVars, workerVars, taskVars, state, mx, stopCh,
                 ctxDone, parentDone>>

CloseParent ==
  /\ ~parentDone
  /\ parentDone' = TRUE
  /\ UNCHANGED <<chanVars, shutVars, workerVars, taskVars, state, mx, runBG,
                 stopCh, ctxDone>>

-----------------------------------------------------------------------------
(* shutdownUnsafe, under mx from its first step to its last                *)

\* isBackground is set once RunBG has made the queue; only then is it closed.
MutQueueAtShutdown == taskQueueCh
QueueAtShutdown == IF taskQueueCh = "open" THEN "closed" ELSE taskQueueCh

BeginShutdown(p, m, d) ==
  /\ mx' = p
  /\ state' = "SHUTTING_DOWN"
  /\ taskQueueCh' = QueueAtShutdown
  /\ mode' = m /\ timed' = d
  /\ shutdown' = IF m = "LIGHT" THEN "signal" ELSE "drain"
  /\ toStop' = IF workerErrCh = "nil" THEN {} ELSE Workers

MutStoppable == state # "SHUTTING_DOWN"
Stoppable == state \notin {"SHUTTING_DOWN", "SHUTDOWN"}

Stop(s, m, d) ==
  /\ stopper[s] = "idle" /\ mx = "free"
  /\ IF Stoppable
       THEN /\ BeginShutdown(s, m, d)
            /\ stopper' = [stopper EXCEPT ![s] = "stopping"]
       ELSE /\ stopper' = [stopper EXCEPT ![s] = "ok"]
            /\ UNCHANGED <<state, mx, taskQueueCh, shutdown, mode, timed,
                           toStop>>
  /\ UNCHANGED <<workerVars, taskVars, runBG, stopCh, ctxDone, parentDone,
                 queue, workerErrCh, errors, stopTaskOf, overran>>

\* RunBG after ParentClosed; a pool already stopped is left alone.
ShutdownByParent(d) ==
  /\ runBG = "ctx" /\ mx = "free"
  /\ IF Stoppable
       THEN /\ BeginShutdown("RunBG", "HARD", d)
            /\ UNCHANGED <<runBG, ctxDone>>
       ELSE /\ ReturnRunBG
            /\ UNCHANGED <<state, mx, taskQueueCh, shutdown, mode, timed,
                           toStop>>
  /\ UNCHANGED <<workerVars, taskVars, stopCh, parentDone, queue, workerErrCh,
                 errors, stopTaskOf, stopper, overran>>

MutDrained == Len(queue) < 2
Drained == queue = << >>

\* Task.Stop leaves a READY task as it is. Ranging over a nil channel waits.
DrainQueue ==
  /\ shutdown = "drain" /\ taskQueueCh = "closed"
  /\ IF Drained
       THEN shutdown' = "signal" /\ UNCHANGED queue
       ELSE queue' = Tail(queue) /\ UNCHANGED shutdown
  /\ UNCHANGED <<poolVars, workerVars, taskVars, taskQueueCh, workerErrCh,
                 errors, mode, timed, toStop, stopTaskOf, stopper, overran>>

\* Worker.Stop: the signal, and in HARD mode then Task.Stop (StopTask).
StopWorker(w) ==
  /\ shutdown = "signal" /\ stopTaskOf = {} /\ w \in toStop
  /\ toStop' = toStop \ {w}
  /\ IF wstate[w] \in {"NEW", "WORKING", "IDLE"}
       THEN /\ wstopCh' = [wstopCh EXCEPT ![w] =
                             IF @ = "open" THEN "signalled" ELSE @]
            /\ stopTaskOf' = IF mode = "HARD" THEN {w} ELSE {}
       ELSE UNCHANGED <<stopTaskOf, wstopCh>>
  /\ UNCHANGED <<poolVars, chanVars, taskVars, shutdown, mode, timed, stopper,
                 overran, wstate, inProcess, hand, pc, calls, panics>>

\* Task.Stop of the task the worker has in process by now.
StopTask(w) ==
  /\ w \in stopTaskOf /\ inProcess[w] \notin stopped
  /\ stopTaskOf' = {}
  /\ stopped' = IF inProcess[w] = NoTask THEN stopped ELSE stopped \cup {inProcess[w]}
  /\ UNCHANGED <<poolVars, chanVars, workerVars, shutdown, mode, timed, toStop,
                 stopper, overran, caller, tstate>>

\* Its send on a stop channel that is closed panics: the workers that come after have
\* no signal, and none is waited for.
StopPanics(w) ==
  /\ w \in stopTaskOf /\ inProcess[w] \in stopped
  /\ stopTaskOf' = {} /\ toStop' = {}
  /\ shutdown' = "recover" /\ overran' = TRUE
  /\ UNCHANGED <<poolVars, chanVars, workerVars, taskVars, mode, timed, stopper>>

PollWorkers ==
  /\ shutdown = "signal" /\ toStop = {} /\ stopTaskOf = {}
  /\ shutdown' = "poll"
  /\ UNCHANGED <<poolVars, chanVars, workerVars, taskVars, mode, timed, toStop,
                 stopTaskOf, stopper, overran>>

MutEnded(w) == wstate[w] \in {"TERMINATED", "RECOVER_ERR"}
Ended(w) == wstate[w] = "TERMINATED"

\* p.workers is empty in a pool that was never started.
WorkersStopped ==
  /\ shutdown = "poll"
  /\ workerErrCh = "nil" \/ \A w \in Workers : Ended(w)
  /\ shutdown' = "close"
  /\ UNCHANGED <<poolVars, chanVars, workerVars, taskVars, mode, timed, toStop,
                 stopTaskOf, stopper, overran>>

ShutdownTimeout ==
  /\ shutdown = "poll" /\ timed
  /\ state' = "TERMINATE_TIMEOUT" /\ overran' = TRUE
  /\ shutdown' = "close"
  /\ UNCHANGED <<chanVars, workerVars, taskVars, mx, runBG, stopCh, ctxDone,
                 parentDone, mode, timed, toStop, stopTaskOf, stopper>>

\* The deferred end of shutdownUnsafe and what its two callers do after it.
EndShutdown(failed) ==
  /\ shutdown' = "off"
  /\ state' = "SHUTDOWN"
  /\ mx' = "free"
  /\ IF mx = "RunBG"
       THEN ReturnRunBG /\ UNCHANGED <<stopCh, stopper>>
       ELSE /\ stopCh' = IF stopCh = "nil" THEN "nil" ELSE "signalled"
            /\ stopper' = [stopper EXCEPT ![mx] = IF failed THEN "err" ELSE "ok"]
            /\ UNCHANGED <<runBG, ctxDone>>

\* Closing the nil workerErrCh of a pool that was never started panics; the
\* deferred function recovers.
CloseErrors ==
  /\ shutdown = "close"
  /\ IF workerErrCh = "nil"
       THEN EndShutdown(TRUE) /\ UNCHANGED workerErrCh
       ELSE /\ workerErrCh' = "closed" /\ shutdown' = "errors"
            /\ UNCHANGED <<state, mx, runBG, stopCh, ctxDone, stopper>>
  /\ UNCHANGED <<workerVars, taskVars, parentDone, taskQueueCh, queue, errors,
                 mode, timed, toStop, stopTaskOf, overran>>

ReadErrors ==
  /\ shutdown = "errors"
  /\ errors' = << >>
  /\ EndShutdown(errors # << >>)
  /\ UNCHANGED <<workerVars, taskVars, parentDone, taskQueueCh, queue,
                 workerErrCh, mode, timed, toStop, stopTaskOf, overran>>

\* The deferred function of shutdownUnsafe; workerErrCh stays open.
RecoverShutdown ==
  /\ shutdown = "recover"
  /\ EndShutdown(TRUE)
  /\ UNCHANGED <<chanVars, workerVars, taskVars, parentDone, mode, timed, toStop,
                 stopTaskOf, overran>>

-----------------------------------------------------------------------------
(* Worker.run. A send on workerErrCh waits while it is full; on the closed *)
(* channel it panics outside of any recover and ends the process: no step. *)

SendError(w) ==
  /\ workerErrCh = "open" /\ Len(errors) < Cardinality(Workers)
  /\ errors' = Append(errors, w)

Goto(w, to) == pc' = [pc EXCEPT ![w] = to]

MutStartable(w) == wstate[w] = "NEW"
Startable(w) == wstate[w] \in {"NEW", "RECOVER_ERR"}

\* TryLock succeeds in a worker that may be started.
StartWorker(w) ==
  /\ calls[w] > 0 /\ pc[w] = "out"
  /\ Startable(w)
  /\ calls' = [calls EXCEPT ![w] = @ - 1]
  /\ wstate' = [wstate EXCEPT ![w] = "IDLE"]
  /\ Goto(w, "locked")
  /\ UNCHANGED <<elsewhere, wstopCh, inProcess, hand, panics>>

\* TryLock fails, or the state does not allow a start.
RejectStart(w) ==
  /\ calls[w] > 0
  /\ pc[w] # "out" \/ ~Startable(w)
  /\ SendError(w)
  /\ calls' = [calls EXCEPT ![w] = @ - 1]
  /\ UNCHANGED <<poolVars, shutVars, taskVars, taskQueueCh, queue, workerErrCh,
                 wstate, wstopCh, inProcess, hand, pc, panics>>

MakeStopCh(w) ==
  /\ pc[w] = "locked"
  /\ wstopCh' = [wstopCh EXCEPT ![w] = "open"]
  /\ Goto(w, "check")
  /\ UNCHANGED <<elsewhere, wstate, inProcess, hand, calls, panics>>

\* The stop signal is received in either of the two selects of the loop.
ReceiveStop(w) ==
  /\ pc[w] \in {"check", "select"} /\ wstopCh[w] = "signalled"
  /\ wstopCh' = [wstopCh EXCEPT ![w] = "closed"]
  /\ wstate' = [wstate EXCEPT ![w] = "TERMINATING_STOP_SIGNAL"]
  /\ Goto(w, "exit")
  /\ UNCHANGED <<elsewhere, inProcess, hand, calls, panics>>

\* The pool's context is looked at in the first select only.
ContextClosed(w) ==
  /\ pc[w] = "check" /\ ctxDone
  /\ wstate' = [wstate EXCEPT ![w] = "TERMINATING_PARENT_CTX_CLOSED"]
  /\ Goto(w, "exit")
  /\ UNCHANGED <<elsewhere, wstopCh, inProcess, hand, calls, panics>>

\* The default case: neither is ready.
NotStopped(w) ==
  /\ pc[w] = "check" /\ wstopCh[w] # "signalled" /\ ~ctxDone
  /\ Goto(w, "select")
  /\ UNCHANGED <<elsewhere, wstate, wstopCh, inProcess, hand, calls, panics>>

MutTakeTask == UNCHANGED queue
TakeTask == queue' = Tail(queue)

ReceiveTask(w) ==
  /\ pc[w] = "select" /\ queue # << >>
  /\ hand' = [hand EXCEPT ![w] = Head(queue)]
  /\ TakeTask
  /\ Goto(w, "received")
  /\ UNCHANGED <<poolVars, shutVars, taskVars, taskQueueCh, workerErrCh,
                 errors, wstate, wstopCh, inProcess, calls, panics>>

QueueClosed(w) ==
  /\ pc[w] = "select" /\ queue = << >> /\ taskQueueCh = "closed"
  /\ wstate' = [wstate EXCEPT ![w] = "TERMINATING_TASK_CH_CLOSED"]
  /\ Goto(w, "exit")
  /\ UNCHANGED <<elsewhere, wstopCh, inProcess, hand, calls, panics>>

\* The task becomes taskInProcess and task.process is entered.
BeginTask(w) ==
  /\ pc[w] = "received"
  /\ wstate' = [wstate EXCEPT ![w] = "WORKING"]
  /\ inProcess' = [inProcess EXCEPT ![w] = hand[w]]
  /\ tstate' = [tstate EXCEPT ![hand[w]] = "IN_PROCESS"]
  /\ Goto(w, "process")
  /\ UNCHANGED <<poolVars, chanVars, shutVars, caller, stopped, wstopCh, hand,
                 calls, panics>>

\* task.process returns: the handler is done, or it was given up on a stop
\* signal or on the task's timeout.
EndTask(w, outcome) ==
  /\ pc[w] = "process"
  /\ tstate' = [tstate EXCEPT ![hand[w]] = outcome]
  /\ inProcess' = [inProcess EXCEPT ![w] = NoTask]
  /\ hand' = [hand EXCEPT ![w] = NoTask]
  /\ wstate' = [wstate EXCEPT ![w] = "IDLE"]
  /\ Goto(w, "after")
  /\ UNCHANGED <<poolVars, chanVars, shutVars, caller, stopped, wstopCh, calls,
                 panics>>

NextTask(w) ==
  /\ pc[w] = "after"
  /\ Goto(w, "check")
  /\ UNCHANGED <<elsewhere, wstate, wstopCh, inProcess, hand, calls, panics>>

\* A panic outside of task.process, in the bookkeeping before or after it.
Panic(w) ==
  /\ pc[w] \in {"received", "after"} /\ panics < MaxPanics
  /\ panics' = panics + 1
  /\ hand' = [hand EXCEPT ![w] = NoTask]
  /\ wstate' = [wstate EXCEPT ![w] = "RECOVER_ERR"]
  /\ Goto(w, "report")
  /\ UNCHANGED <<elsewhere, wstopCh, inProcess, calls>>

\* The deferred function sends the error while wr.mx is still held.
ReportPanic(w) ==
  /\ pc[w] = "report"
  /\ SendError(w)
  /\ Goto(w, "unlock")
  /\ UNCHANGED <<poolVars, shutVars, taskVars, taskQueueCh, queue, workerErrCh,
                 wstate, wstopCh, inProcess, hand, calls, panics>>

Unlock(w) ==
  /\ pc[w] = "unlock"
  /\ Goto(w, "out")
  /\ UNCHANGED <<elsewhere, wstate, wstopCh, inProcess, hand, calls, panics>>

ExitWorker(w) ==
  /\ pc[w] = "exit"
  /\ wstate' = [wstate EXCEPT ![w] = "TERMINATED"]
  /\ Goto(w, "out")
  /\ UNCHANGED <<elsewhere, wstopCh, inProcess, hand, calls, panics>>

-----------------------------------------------------------------------------

Submit(t) == AddTask(t) \/ SendTask(t) \/ SendOnClosed(t)

RunLoop == RunBG \/ RestartWorker \/ StopRunBG \/ ParentClosed

Shutdown ==
  \/ DrainQueue \/ PollWorkers \/ WorkersStopped \/ ShutdownTimeout
  \/ CloseErrors \/ ReadErrors \/ RecoverShutdown
  \/ \E w \in Workers : StopWorker(w) \/ StopTask(w) \/ StopPanics(w)

RunWorker(w) ==
  \/ StartWorker(w) \/ RejectStart(w) \/ MakeStopCh(w)
  \/ ReceiveStop(w) \/ ContextClosed(w) \/ NotStopped(w)
  \/ ReceiveTask(w) \/ QueueClosed(w) \/ BeginTask(w)
  \/ \E outcome \in {"DONE_SUCCESS", "TERMINATED"} : EndTask(w, outcome)
  \/ NextTask(w) \/ Panic(w) \/ ReportPanic(w) \/ Unlock(w) \/ ExitWorker(w)

Next ==
  \/ CloseParent
  \/ RunLoop
  \/ Shutdown
  \/ \E d \in Timed : ShutdownByParent(d)
  \/ \E s \in Stoppers, m \in Modes, d \in Timed : Stop(s, m, d)
  \/ \E t \in Tasks : Submit(t)
  \/ \E w \in Workers : RunWorker(w)

Spec == Init /\ [][Next]_vars

\* Every goroutine that can take a step goes on: the one that holds wr.mx, a
\* spawned worker.run, RunBG, the holder of mx, a caller inside AddTask. That
\* task.process returns (a handler ends or is given up) is part of it; that a
\* worker panics, that Stop is called or the parent context closed is not.
Holder(w) ==
  \/ MakeStopCh(w) \/ ReceiveStop(w) \/ ContextClosed(w) \/ NotStopped(w)
  \/ ReceiveTask(w) \/ QueueClosed(w) \/ BeginTask(w)
  \/ \E outcome \in {"DONE_SUCCESS", "TERMINATED"} : EndTask(w, outcome)
  \/ NextTask(w) \/ ReportPanic(w) \/ Unlock(w) \/ ExitWorker(w)

Fairness ==
  /\ WF_vars(RunLoop)
  /\ WF_vars(Shutdown)
  /\ WF_vars(\E d \in Timed : ShutdownByParent(d))
  /\ \A t \in Tasks : WF_vars(SendTask(t) \/ SendOnClosed(t))
  /\ \A w \in Workers : WF_vars(Holder(w)) /\ WF_vars(StartWorker(w) \/ RejectStart(w))

FairSpec == Spec /\ Fairness

-----------------------------------------------------------------------------
(* Properties                                                              *)

\* pool.go:329, "one error per worker is enough": a worker never has two errors
\* underway (buffered, or about to be sent by a goroutine that runs it), nor an
\* error underway while it runs.
OneErrorPerWorker ==
  /\ \A i, j \in DOMAIN errors : errors[i] = errors[j] => i = j
  /\ \A i \in DOMAIN errors : calls[errors[i]] = 0 /\ pc[errors[i]] \in {"out", "unlock"}
  /\ \A w \in Workers : calls[w] # 0 => calls[w] = 1 /\ pc[w] \in {"out", "unlock"}

\* pool.go:329, worker.go:99-135: so no worker that sends its error waits for
\* room in workerErrCh, with wr.mx in its hands and whoever reads the channel.
RoomForErrors ==
  \A w \in Workers : calls[w] > 0 \/ pc[w] = "report" =>
    Len(errors) < Cardinality(Workers)

\* pool.go:454-456: when the channel of errors is closed and the shutdown has
\* not run out of time, every worker has ended for good: no goroutine can send
\* on the closed channel, start a worker again or still hold a task.
ClosedAfterWorkers ==
  workerErrCh = "closed" /\ ~overran =>
    /\ errors = << >>
    /\ \A w \in Workers : /\ wstate[w] = "TERMINATED" /\ pc[w] = "out"
                          /\ calls[w] = 0 /\ hand[w] = NoTask

\* A task AddTask accepted is in one place: once in the queue, or in the hands
\* of one worker, which alone has it in process (worker.go:172-186).
OneHolder ==
  /\ \A i, j \in DOMAIN queue : queue[i] = queue[j] => i = j
  /\ \A i \in DOMAIN queue : /\ caller[queue[i]] = "accepted"
                             /\ tstate[queue[i]] = "READY"
                             /\ \A w \in Workers : hand[w] # queue[i]
  /\ \A v, w \in Workers : hand[v] = hand[w] /\ hand[v] # NoTask => v = w
  /\ \A t \in Tasks : tstate[t] = "IN_PROCESS" <=>
                        \E w \in Workers : pc[w] = "process" /\ hand[w] = t

\* pool.go:442-449: a SOFT or HARD shutdown leaves no task in the queue, whatever
\* callers of AddTask were waiting for room in it.
QueueLeftEmpty ==
  state = "SHUTDOWN" /\ taskQueueCh = "closed" /\ mode # "LIGHT" => queue = << >>

\* worker.go:228-236, task.go:302-307: shutdown never sends on a stop channel that was
\* signalled before, which would panic and leave the other workers running, unless the
\* cache gave the task out with such a channel.
StopSentOnce ==
  shutdown = "signal" =>
    /\ \A w \in toStop : wstate[w] \in {"NEW", "WORKING", "IDLE"} =>
         wstopCh[w] \in {"nil", "open"}
    /\ \A w \in toStop \cup stopTaskOf : inProcess[w] \in stopped =>
         inProcess[w] \in Signalled

-----------------------------------------------------------------------------

\* RunBG has turned to the parent context and will not start a worker that
\* panicked again (pool.go:382-389): that worker is never TERMINATED.
RestartLost == runBG = "ctx" /\ \E w \in Workers : wstate[w] = "RECOVER_ERR"

\* pool.go:404-414: a Stop that has begun to shut a started pool down returns,
\* unless a restart is lost.
StopReturns ==
  \A s \in Stoppers :
    stopper[s] = "stopping" /\ taskQueueCh # "nil"
      ~> stopper[s] \in {"ok", "err"} \/ RestartLost

\* pool.go:166-177: no caller stays blocked in AddTask, in a running pool or in
\* one that is stopped under it.
CallersReleased == \A t \in Tasks : caller[t] = "sending" ~> caller[t] # "sending"

\* No task waits forever in the queue of a pool that is not shut down, unless a
\* restart is lost.
QueueServed ==
  \A t \in Tasks :
    (\E i \in DOMAIN queue : queue[i] = t)
      ~> \/ \A i \in DOMAIN queue : queue[i] # t
         \/ state = "SHUTDOWN" \/ RestartLost

\* Once the pool is shut down RunBG returns and closes the pool's context.
RunBGReturns == state = "SHUTDOWN" ~> runBG = "returned"

-----------------------------------------------------------------------------

\* What the pool promises its callers (PoolPromise), with the state of a task
\* read off the call of AddTask, the queue, the workers' hands and Task.state.
Queued(t) == \E i \in DOMAIN queue : queue[i] = t
Held(t) == \E w \in Workers : hand[w] = t

TaskView(t) ==
  CASE caller[t] = "idle" -> "new"
    [] caller[t] = "sending" -> "offered"
    [] caller[t] \in {"refused", "recovered"} -> "rejected"
    [] Queued(t) -> "queued"
    [] Held(t) -> "held"
    [] tstate[t] \in {"DONE_SUCCESS", "TERMINATED"} -> "finished"
    [] OTHER -> "lost"

Phase ==
  CASE state = "NEW" -> "new"
    [] state = "BG_RUNNING" -> "open"
    [] state = "SHUTDOWN" -> "closed"
    [] OTHER -> "closing"

Promise == INSTANCE PoolPromise WITH
  task <- [t \in Tasks |-> TaskView(t)], phase <- Phase, late <- overran

\* Every step of the pool is a step of PoolPromise or leaves it unchanged.
KeepsPromise == Promise!Spec

-----------------------------------------------------------------------------
\* What the repository says of the pool and its runs refute.

\* pool.go:408, "if the pool was never started, p.stopCh is nil": Stop of such a
\* pool is foreseen, and should return.
StopOfNewPoolReturns ==
  \A s \in Stoppers : stopper[s] = "stopping" ~> stopper[s] \in {"ok", "err"}

\* pool.go:35, LIGHT: "all tasks whose processing began and all tasks taken into
\* the queue must be completed".
LightFinishesQueue ==
  state = "SHUTDOWN" /\ mode = "LIGHT" /\ ~overran =>
    \A t \in Tasks : caller[t] = "accepted" => tstate[t] # "READY"
=============================================================================
