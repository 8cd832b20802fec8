------------------------- MODULE PoolPromiseProofs --------------------------
(***************************************************************************)
(* What happens to the tasks of WorkerPool: each is held once, a shutdown  *)
(* drains the queue and stops each worker and task once, and the pool      *)
(* keeps what PoolPromise says its callers are promised.                   *)
(***************************************************************************)
EXTENDS WorkerPoolProofs

-----------------------------------------------------------------------------
(* The inductive invariant, on top of Inv of WorkerPoolProofs              *)

\* Who holds Pool.mx shuts down (pool.go:400-405); the channels are made by RunBG
\* (pool.go:329-331), the queue is closed when a shutdown begins and workerErrCh
\* when it has waited for the workers; a shutdown that panics leaves it open.
Phases ==
  /\ mx = "free" <=> shutdown = "off"
  /\ shutdown = "off" => state \in {"NEW", "BG_RUNNING", "SHUTDOWN"}
  /\ shutdown # "off" => state \in {"SHUTTING_DOWN", "TERMINATE_TIMEOUT"}
  /\ state = "NEW" => taskQueueCh = "nil"
  /\ taskQueueCh = "open" <=> state = "BG_RUNNING"
  /\ taskQueueCh = "nil" <=> workerErrCh = "nil"
  /\ workerErrCh = "closed" =>
       taskQueueCh = "closed" /\ (shutdown = "errors" \/ state = "SHUTDOWN")
  /\ \/ shutdown = "errors"
     \/ state = "SHUTDOWN" /\ taskQueueCh = "closed" /\ ~overran
     => workerErrCh = "closed"
  /\ shutdown = "recover" => overran

\* A task AddTask has not sent was never touched; a task in the queue was not
\* begun and is in no hand; a task is in one hand at most, READY when it was
\* received and IN_PROCESS in task.process, where it is taskInProcess as well.
Holders ==
  /\ \A t \in Tasks : caller[t] # "accepted" => tstate[t] = "READY"
  /\ taskQueueCh = "nil" =>
       \A t \in Tasks : caller[t] \in {"idle", "refused"}
  /\ \A i, j \in DOMAIN queue : queue[i] = queue[j] => i = j
  /\ \A i \in DOMAIN queue : /\ caller[queue[i]] = "accepted"
                             /\ tstate[queue[i]] = "READY"
                             /\ \A w \in Workers : hand[w] # queue[i]
  /\ \A v, w \in Workers : hand[v] = hand[w] /\ hand[v] # NoTask => v = w
  /\ \A w \in Workers :
       /\ hand[w] # NoTask => caller[hand[w]] = "accepted"
       /\ pc[w] = "received" => hand[w] # NoTask /\ tstate[hand[w]] = "READY"
       /\ pc[w] = "process" => hand[w] # NoTask /\ tstate[hand[w]] = "IN_PROCESS"
       /\ inProcess[w] = IF pc[w] = "process" THEN hand[w] ELSE NoTask
  /\ \A t \in Tasks : tstate[t] = "IN_PROCESS" =>
       \E w \in Workers : pc[w] = "process" /\ hand[w] = t

\* Once the range over the closed queue of a SOFT or HARD shutdown is done
\* (pool.go:442-449) nothing can be sent any more.
DrainedOnce ==
  taskQueueCh = "closed" /\ mode # "LIGHT" /\ shutdown # "drain" => queue = << >>

\* stopWorkersUnsafe has not sent anything yet to the workers in toStop, nor
\* Task.Stop to what they or the worker in stopTaskOf have in process; a task
\* this pool stopped has begun.
StopsLeft ==
  /\ shutdown \notin {"drain", "signal"} => toStop = {}
  /\ shutdown # "signal" => stopTaskOf = {}
  /\ toStop \cap stopTaskOf = {}
  /\ state \in {"NEW", "BG_RUNNING"} \/ shutdown = "drain" =>
       stopped = Signalled /\ \A w \in Workers : wstopCh[w] \in {"nil", "open"}
  /\ \A w \in toStop : wstopCh[w] \in {"nil", "open"}
  /\ \A w \in toStop \cup stopTaskOf : inProcess[w] \in stopped =>
       inProcess[w] \in Signalled
  /\ \A t \in stopped \ Signalled : tstate[t] # "READY"

TaskInv == Inv /\ Phases /\ Holders /\ DrainedOnce /\ StopsLeft

-----------------------------------------------------------------------------
(* The queue                                                               *)

\* A receive from the channel takes its first task and leaves the others in
\* their order.
LEMMA QueueTail ==
  ASSUME NEW q \in Seq(Tasks), q # << >>
  PROVE  /\ Tail(q) \in Seq(Tasks) /\ Head(q) \in Tasks
         /\ 1 \in DOMAIN q /\ q[1] = Head(q)
         /\ DOMAIN q \subseteq Nat
         /\ \A i \in DOMAIN Tail(q) : /\ i \in Nat /\ i + 1 \in DOMAIN q
                                      /\ i + 1 # 1 /\ Tail(q)[i] = q[i + 1]
         /\ \A i \in DOMAIN q : i # 1 => /\ i - 1 \in DOMAIN Tail(q)
                                         /\ Tail(q)[i - 1] = q[i]
  OBVIOUS

-----------------------------------------------------------------------------
(* Every step keeps the invariant                                          *)

\* Only RunBG and the steps of a shutdown touch the pool's phase and the status of
\* its channels.
LEMMA NextPhases == TaskInv /\ [Next]_vars => Phases'
<1>. SUFFICES ASSUME TaskInv, [Next]_vars PROVE Phases'
  OBVIOUS
<1>. USE PoolAssumption DEF TaskInv, Phases, Inv, Fresh, TypeOK, PoolTypeOK,
     ChanTypeOK, ShutTypeOK, Chan, PoolState, elsewhere, poolVars, chanVars,
     shutVars, workerVars, taskVars
<1>1. ASSUME \/ CloseParent \/ RestartWorker \/ StopRunBG \/ ParentClosed
             \/ DrainQueue \/ PollWorkers \/ WorkersStopped
      PROVE  Phases'
  BY <1>1 DEF CloseParent, RestartWorker, TakeError, StopRunBG, ReturnRunBG,
     ParentClosed, DrainQueue, Drained, PollWorkers, WorkersStopped, Ended
<1>2. ASSUME NEW t \in Tasks,
             \/ AddTask(t) \/ SendTask(t) \/ SendOnClosed(t)
      PROVE  Phases'
  BY <1>2 DEF AddTask, SendTask, Room, SendOnClosed
<1>3. ASSUME NEW w \in Workers,
             \/ StopWorker(w) \/ StopTask(w) \/ StartWorker(w)
             \/ RejectStart(w) \/ MakeStopCh(w) \/ ReceiveStop(w)
             \/ ContextClosed(w) \/ NotStopped(w) \/ ReceiveTask(w)
             \/ QueueClosed(w) \/ BeginTask(w) \/ NextTask(w) \/ Panic(w)
             \/ ReportPanic(w) \/ Unlock(w) \/ ExitWorker(w)
      PROVE  Phases'
  BY <1>3 DEF StopWorker, StopTask, StartWorker, Startable, RejectStart,
     MakeStopCh, ReceiveStop, ContextClosed, NotStopped, ReceiveTask,
     TakeTask, QueueClosed, BeginTask, NextTask, Panic, ReportPanic, Unlock,
     ExitWorker, Goto, SendError
<1>4. ASSUME RunBG PROVE Phases'
  BY <1>4 DEF RunBG
<1>5. ASSUME ShutdownTimeout PROVE Phases'
  BY <1>5 DEF ShutdownTimeout
<1>6. ASSUME CloseErrors PROVE Phases'
  BY <1>6 DEF CloseErrors, EndShutdown, ReturnRunBG
<1>7. ASSUME ReadErrors PROVE Phases'
  BY <1>7 DEF ReadErrors, EndShutdown, ReturnRunBG
<1>8. ASSUME NEW d \in Timed, ShutdownByParent(d) PROVE Phases'
  BY <1>8 DEF ShutdownByParent, Stoppable, BeginShutdown, QueueAtShutdown,
     ReturnRunBG
<1>9. ASSUME NEW s \in Stoppers, NEW m \in Modes, NEW d \in Timed,
             Stop(s, m, d)
      PROVE  Phases'
  BY <1>9 DEF Stop, Stoppable, BeginShutdown, QueueAtShutdown
<1>10. ASSUME NEW w \in Workers, NEW o \in {"DONE_SUCCESS", "TERMINATED"},
              EndTask(w, o)
       PROVE  Phases'
  BY <1>10 DEF EndTask, Goto
<1>11. ASSUME UNCHANGED vars PROVE Phases'
  BY <1>11 DEF vars
<1>12. ASSUME RecoverShutdown PROVE Phases'
  BY <1>12 DEF RecoverShutdown, EndShutdown, ReturnRunBG
<1>13. ASSUME NEW w \in Workers, StopPanics(w) PROVE Phases'
  BY <1>13 DEF StopPanics, StopsLeft
<1>. QED
  BY <1>1, <1>2, <1>3, <1>4, <1>5, <1>6, <1>7, <1>8, <1>9, <1>10, <1>11,
     <1>12, <1>13 DEF Next, Submit, RunLoop, Shutdown, RunWorker

\* A task moves from its caller to the queue, to the hand that received it and
\* through task.process, and is never in two of these places.
LEMMA NextHolders == TaskInv /\ [Next]_vars => Holders'
<1>. SUFFICES ASSUME TaskInv, [Next]_vars PROVE Holders'
  OBVIOUS
<1>. USE PoolAssumption DEF TaskInv, Phases, Holders, Inv, HandsEmpty, TypeOK,
     ChanTypeOK, WorkerTypeOK, TaskTypeOK, WorkerPc, elsewhere, poolVars,
     chanVars, shutVars, workerVars, taskVars
<1>1. ASSUME \/ CloseParent \/ RestartWorker \/ StopRunBG \/ ParentClosed
             \/ PollWorkers \/ WorkersStopped \/ ShutdownTimeout
             \/ CloseErrors \/ ReadErrors \/ RecoverShutdown
      PROVE  Holders'
  BY <1>1 DEF CloseParent, RestartWorker, TakeError, StopRunBG, ReturnRunBG,
     ParentClosed, PollWorkers, WorkersStopped, Ended, ShutdownTimeout,
     CloseErrors, EndShutdown, ReadErrors, RecoverShutdown
<1>2. ASSUME NEW w \in Workers,
             \/ StopWorker(w) \/ StopTask(w) \/ StopPanics(w)
      PROVE  Holders'
  BY <1>2 DEF StopWorker, StopTask, StopPanics
<1>3. ASSUME NEW t \in Tasks, AddTask(t) PROVE Holders'
  BY <1>3 DEF AddTask
<1>4. ASSUME NEW t \in Tasks, SendOnClosed(t) PROVE Holders'
  BY <1>4 DEF SendOnClosed
<1>5. ASSUME RunBG PROVE Holders'
  BY <1>5 DEF RunBG
<1>6. ASSUME DrainQueue PROVE Holders'
  <2>1. CASE Drained
    BY <1>6, <2>1 DEF DrainQueue, Drained
  <2>2. CASE ~Drained
    BY <1>6, <2>2, QueueTail DEF DrainQueue, Drained
  <2>. QED
    BY <2>1, <2>2
<1>7. ASSUME NEW d \in Timed, ShutdownByParent(d) PROVE Holders'
  BY <1>7 DEF ShutdownByParent, Stoppable, BeginShutdown, QueueAtShutdown,
     ReturnRunBG
<1>8. ASSUME NEW s \in Stoppers, NEW m \in Modes, NEW d \in Timed,
             Stop(s, m, d)
      PROVE  Holders'
  BY <1>8 DEF Stop, Stoppable, BeginShutdown, QueueAtShutdown
<1>9. ASSUME NEW t \in Tasks, SendTask(t) PROVE Holders'
  BY <1>9 DEF SendTask, Room
<1>10. ASSUME NEW w \in Workers, StartWorker(w) PROVE Holders'
  BY <1>10 DEF StartWorker, Startable, Goto
<1>11. ASSUME NEW w \in Workers, RejectStart(w) PROVE Holders'
  BY <1>11 DEF RejectStart, SendError
<1>12. ASSUME NEW w \in Workers, MakeStopCh(w) PROVE Holders'
  BY <1>12 DEF MakeStopCh, Goto
<1>13. ASSUME NEW w \in Workers, ReceiveStop(w) PROVE Holders'
  BY <1>13 DEF ReceiveStop, Goto
<1>14. ASSUME NEW w \in Workers, ContextClosed(w) PROVE Holders'
  BY <1>14 DEF ContextClosed, Goto
<1>15. ASSUME NEW w \in Workers, NotStopped(w) PROVE Holders'
  BY <1>15 DEF NotStopped, Goto
<1>16. ASSUME NEW w \in Workers, ReceiveTask(w) PROVE Holders'
  BY <1>16, QueueTail DEF ReceiveTask, TakeTask, Goto
<1>17. ASSUME NEW w \in Workers, QueueClosed(w) PROVE Holders'
  BY <1>17 DEF QueueClosed, Goto
<1>18. ASSUME NEW w \in Workers, BeginTask(w) PROVE Holders'
  BY <1>18 DEF BeginTask, Goto
<1>19. ASSUME NEW w \in Workers, NextTask(w) PROVE Holders'
  BY <1>19 DEF NextTask, Goto
<1>20. ASSUME NEW w \in Workers, Panic(w) PROVE Holders'
  BY <1>20 DEF Panic, Goto
<1>21. ASSUME NEW w \in Workers, ReportPanic(w) PROVE Holders'
  BY <1>21 DEF ReportPanic, SendError, Goto
<1>22. ASSUME NEW w \in Workers, Unlock(w) PROVE Holders'
  BY <1>22 DEF Unlock, Goto
<1>23. ASSUME NEW w \in Workers, ExitWorker(w) PROVE Holders'
  BY <1>23 DEF ExitWorker, Goto
<1>24. ASSUME NEW w \in Workers, NEW o \in {"DONE_SUCCESS", "TERMINATED"},
              EndTask(w, o)
       PROVE  Holders'
  BY <1>24 DEF EndTask, Goto
<1>25. ASSUME UNCHANGED vars PROVE Holders'
  BY <1>25 DEF vars
<1>. QED
  BY <1>1, <1>2, <1>3, <1>4, <1>5, <1>6, <1>7, <1>8, <1>9, <1>10, <1>11,
     <1>12, <1>13, <1>14, <1>15, <1>16, <1>17, <1>18, <1>19, <1>20, <1>21,
     <1>22, <1>23, <1>24, <1>25 DEF Next, Submit, RunLoop, Shutdown, RunWorker

\* Nothing is sent on a closed queue, and a shutdown leaves its range over the
\* queue only when it is empty.
LEMMA NextDrained == TaskInv /\ [Next]_vars => DrainedOnce'
<1>. SUFFICES ASSUME TaskInv, [Next]_vars PROVE DrainedOnce'
  OBVIOUS
<1>. USE PoolAssumption DEF TaskInv, Phases, DrainedOnce, Inv, TypeOK,
     ChanTypeOK, elsewhere, poolVars, chanVars, shutVars, workerVars, taskVars
<1>1. ASSUME \/ CloseParent \/ RestartWorker \/ StopRunBG \/ ParentClosed
             \/ PollWorkers \/ WorkersStopped \/ ShutdownTimeout
      PROVE  DrainedOnce'
  BY <1>1 DEF CloseParent, RestartWorker, TakeError, StopRunBG, ReturnRunBG,
     ParentClosed, PollWorkers, WorkersStopped, Ended, ShutdownTimeout
<1>2. ASSUME NEW t \in Tasks,
             \/ AddTask(t) \/ SendTask(t) \/ SendOnClosed(t)
      PROVE  DrainedOnce'
  BY <1>2 DEF AddTask, SendTask, Room, SendOnClosed
<1>3. ASSUME NEW w \in Workers,
             \/ StopWorker(w) \/ StopTask(w) \/ StartWorker(w)
             \/ RejectStart(w) \/ MakeStopCh(w) \/ ReceiveStop(w)
             \/ ContextClosed(w) \/ NotStopped(w) \/ QueueClosed(w)
             \/ BeginTask(w) \/ NextTask(w) \/ Panic(w) \/ ReportPanic(w)
             \/ Unlock(w) \/ ExitWorker(w)
      PROVE  DrainedOnce'
  BY <1>3 DEF StopWorker, StopTask, StartWorker, Startable, RejectStart,
     MakeStopCh, ReceiveStop, ContextClosed, NotStopped, QueueClosed,
     BeginTask, NextTask, Panic, ReportPanic, Unlock, ExitWorker, Goto,
     SendError
<1>4. ASSUME RunBG PROVE DrainedOnce'
  BY <1>4 DEF RunBG
<1>5. ASSUME DrainQueue PROVE DrainedOnce'
  BY <1>5 DEF DrainQueue, Drained
<1>6. ASSUME CloseErrors PROVE DrainedOnce'
  BY <1>6 DEF CloseErrors, EndShutdown, ReturnRunBG
<1>7. ASSUME ReadErrors \/ RecoverShutdown PROVE DrainedOnce'
  BY <1>7 DEF ReadErrors, RecoverShutdown, EndShutdown, ReturnRunBG
<1>8. ASSUME NEW d \in Timed, ShutdownByParent(d) PROVE DrainedOnce'
  BY <1>8 DEF ShutdownByParent, Stoppable, BeginShutdown, QueueAtShutdown,
     ReturnRunBG
<1>9. ASSUME NEW s \in Stoppers, NEW m \in Modes, NEW d \in Timed,
             Stop(s, m, d)
      PROVE  DrainedOnce'
  BY <1>9 DEF Stop, Stoppable, BeginShutdown, QueueAtShutdown
<1>10. ASSUME NEW w \in Workers, ReceiveTask(w) PROVE DrainedOnce'
  BY <1>10 DEF ReceiveTask, TakeTask, Goto
<1>11. ASSUME NEW w \in Workers, NEW o \in {"DONE_SUCCESS", "TERMINATED"},
              EndTask(w, o)
       PROVE  DrainedOnce'
  BY <1>11 DEF EndTask, Goto
<1>12. ASSUME UNCHANGED vars PROVE DrainedOnce'
  BY <1>12 DEF vars
<1>13. ASSUME NEW w \in Workers, StopPanics(w) PROVE DrainedOnce'
  BY <1>13 DEF StopPanics, StopsLeft
<1>. QED
  BY <1>1, <1>2, <1>3, <1>4, <1>5, <1>6, <1>7, <1>8, <1>9, <1>10, <1>11, <1>12,
     <1>13 DEF Next, Submit, RunLoop, Shutdown, RunWorker

\* A worker leaves toStop when its signal is sent, and its task is in process of
\* no other worker when it is stopped.
LEMMA NextStops == TaskInv /\ [Next]_vars => StopsLeft'
<1>. SUFFICES ASSUME TaskInv, [Next]_vars PROVE StopsLeft'
  OBVIOUS
<1>. USE PoolAssumption DEF TaskInv, Phases, Holders, StopsLeft, Inv,
     HandsEmpty, TypeOK, WorkerTypeOK, TaskTypeOK, ShutTypeOK, StopChan,
     WorkerPc, elsewhere, poolVars, chanVars, shutVars, workerVars, taskVars
<1>1. ASSUME \/ CloseParent \/ RestartWorker \/ StopRunBG \/ ParentClosed
             \/ DrainQueue \/ PollWorkers \/ WorkersStopped \/ ShutdownTimeout
      PROVE  StopsLeft'
  BY <1>1 DEF CloseParent, RestartWorker, TakeError, StopRunBG, ReturnRunBG,
     ParentClosed, DrainQueue, Drained, PollWorkers, WorkersStopped, Ended,
     ShutdownTimeout
<1>2. ASSUME NEW t \in Tasks,
             \/ AddTask(t) \/ SendTask(t) \/ SendOnClosed(t)
      PROVE  StopsLeft'
  BY <1>2 DEF AddTask, SendTask, Room, SendOnClosed
<1>3. ASSUME NEW w \in Workers,
             \/ StartWorker(w) \/ RejectStart(w) \/ ContextClosed(w)
             \/ NotStopped(w) \/ ReceiveTask(w) \/ QueueClosed(w)
             \/ NextTask(w) \/ Panic(w) \/ ReportPanic(w) \/ Unlock(w)
             \/ ExitWorker(w)
      PROVE  StopsLeft'
  BY <1>3 DEF StartWorker, Startable, RejectStart, ContextClosed, NotStopped,
     ReceiveTask, TakeTask, QueueClosed, NextTask, Panic, ReportPanic, Unlock,
     ExitWorker, Goto, SendError
<1>4. ASSUME RunBG PROVE StopsLeft'
  BY <1>4 DEF RunBG
<1>5. ASSUME CloseErrors PROVE StopsLeft'
  BY <1>5 DEF CloseErrors, EndShutdown, ReturnRunBG
<1>6. ASSUME ReadErrors \/ RecoverShutdown PROVE StopsLeft'
  BY <1>6 DEF ReadErrors, RecoverShutdown, EndShutdown, ReturnRunBG
<1>7. ASSUME NEW w \in Workers, StopWorker(w) PROVE StopsLeft'
  BY <1>7 DEF StopWorker
<1>8. ASSUME NEW w \in Workers, StopTask(w) \/ StopPanics(w) PROVE StopsLeft'
  BY <1>8 DEF StopTask, StopPanics
<1>9. ASSUME NEW d \in Timed, ShutdownByParent(d) PROVE StopsLeft'
  BY <1>9 DEF ShutdownByParent, Stoppable, BeginShutdown, QueueAtShutdown,
     ReturnRunBG
<1>10. ASSUME NEW s \in Stoppers, NEW m \in Modes, NEW d \in Timed,
              Stop(s, m, d)
       PROVE  StopsLeft'
  BY <1>10 DEF Stop, Stoppable, BeginShutdown, QueueAtShutdown
<1>11. ASSUME NEW w \in Workers, MakeStopCh(w) PROVE StopsLeft'
  BY <1>11 DEF MakeStopCh, Goto
<1>12. ASSUME NEW w \in Workers, ReceiveStop(w) PROVE StopsLeft'
  BY <1>12 DEF ReceiveStop, Goto
<1>13. ASSUME NEW w \in Workers, BeginTask(w) PROVE StopsLeft'
  BY <1>13 DEF BeginTask, Goto
<1>14. ASSUME NEW w \in Workers, NEW o \in {"DONE_SUCCESS", "TERMINATED"},
              EndTask(w, o)
       PROVE  StopsLeft'
  BY <1>14 DEF EndTask, Goto
<1>15. ASSUME UNCHANGED vars PROVE StopsLeft'
  BY <1>15 DEF vars
<1>. QED
  BY <1>1, <1>2, <1>3, <1>4, <1>5, <1>6, <1>7, <1>8, <1>9, <1>10, <1>11,
     <1>12, <1>13, <1>14, <1>15 DEF Next, Submit, RunLoop, Shutdown, RunWorker

\* NewPool: no task, no queue and no shutdown.
LEMMA InitTaskInv == Init => TaskInv
<1>. SUFFICES ASSUME Init PROVE TaskInv
  OBVIOUS
<1>1. Inv
  BY InitInv
<1>2. Phases /\ Holders
  BY PoolAssumption DEF Init, Phases, Holders
<1>3. DrainedOnce /\ StopsLeft
  BY DEF Init, DrainedOnce, StopsLeft
<1>. QED
  BY <1>1, <1>2, <1>3 DEF TaskInv

\* The invariant holds in every run of the pool.
LEMMA SpecTaskInv == Spec => []TaskInv
<1>1. TaskInv /\ [Next]_vars => TaskInv'
  BY NextInv, NextPhases, NextHolders, NextDrained, NextStops DEF TaskInv
<1>. QED
  BY InitTaskInv, <1>1, PTL DEF Spec

-----------------------------------------------------------------------------
(* The safety properties of tasks and shutdown                             *)

\* worker.go:172-186: a task in process is in process of one worker, which holds
\* it, and a task in the queue of nobody.
THEOREM HeldOnce == Spec => []OneHolder
<1>1. TaskInv => OneHolder
  BY DEF TaskInv, Inv, TypeOK, WorkerTypeOK, Holders, OneHolder
<1>. QED
  BY SpecTaskInv, <1>1, PTL

\* pool.go:442-449: whatever callers of AddTask were waiting for room, a SOFT or
\* HARD shutdown that has ended has left no task in the queue.
THEOREM QueueDrained == Spec => []QueueLeftEmpty
<1>1. TaskInv => QueueLeftEmpty
  BY DEF TaskInv, Phases, DrainedOnce, QueueLeftEmpty
<1>. QED
  BY SpecTaskInv, <1>1, PTL

\* worker.go:228-236, task.go:302-307: no stop channel is sent to twice, but that of
\* a task the cache gave out with its signal.
THEOREM StoppedOnce == Spec => []StopSentOnce
<1>1. TaskInv => StopSentOnce
  BY DEF TaskInv, StopsLeft, StopSentOnce
<1>. QED
  BY SpecTaskInv, <1>1, PTL

-----------------------------------------------------------------------------
(* The pool implements PoolPromise                                         *)

View == [t \in Tasks |-> TaskView(t)]

\* A task whose call, place and state stay is seen as before.
LEMMA SameView ==
  ASSUME NEW t \in Tasks, caller'[t] = caller[t], tstate'[t] = tstate[t],
         Queued(t)' <=> Queued(t), Held(t)' <=> Held(t)
  PROVE  TaskView(t)' = TaskView(t)
  BY DEF TaskView

\* A step that leaves the tasks and the pool's phase alone is not seen at all.
LEMMA NotSeen ==
  ASSUME UNCHANGED <<caller, queue, hand, tstate>>
  PROVE  View' = View
<1>1. ASSUME NEW t \in Tasks PROVE TaskView(t)' = TaskView(t)
  BY SameView DEF Queued, Held
<1>. QED
  BY <1>1 DEF View

\* One task is seen to move when the others stay.
LEMMA OneMoves ==
  ASSUME NEW t \in Tasks, NEW from, NEW to,
         TaskView(t) = from, TaskView(t)' = to,
         UNCHANGED <<Phase, overran>>,
         \A u \in Tasks \ {t} : /\ caller'[u] = caller[u]
                                /\ tstate'[u] = tstate[u]
                                /\ Queued(u)' <=> Queued(u)
                                /\ Held(u)' <=> Held(u)
  PROVE  Promise!Become(t, from, to)
<1>1. \A u \in Tasks \ {t} : TaskView(u)' = TaskView(u)
  BY SameView
<1>. QED
  BY <1>1 DEF Promise!Become, View

\* AddTask has not sent the task: it is nowhere and was not begun.
LEMMA Untouched ==
  ASSUME TaskInv, NEW t \in Tasks, caller[t] # "accepted"
  PROVE  ~Queued(t) /\ ~Held(t) /\ tstate[t] = "READY"
BY PoolAssumption DEF TaskInv, Holders, Queued, Held

\* The task is in the queue: it is in no hand and was not begun.
LEMMA QueuedAlone ==
  ASSUME TaskInv, NEW t \in Tasks, Queued(t)
  PROVE  caller[t] = "accepted" /\ ~Held(t) /\ tstate[t] = "READY"
BY DEF TaskInv, Holders, Queued, Held

\* The task is in a worker's hand: in this one only, and not in the queue.
LEMMA HeldAlone ==
  ASSUME TaskInv, NEW w \in Workers, hand[w] # NoTask
  PROVE  /\ hand[w] \in Tasks /\ caller[hand[w]] = "accepted"
         /\ Held(hand[w]) /\ ~Queued(hand[w])
         /\ tstate[hand[w]] \in {"READY", "IN_PROCESS"}
         /\ \A v \in Workers \ {w} : hand[v] # hand[w]
<1>1. hand[w] \in Tasks
  BY DEF TaskInv, Inv, TypeOK, WorkerTypeOK
<1>2. pc[w] \in {"received", "process"}
  BY DEF TaskInv, Inv, HandsEmpty
<1>. QED
  BY <1>1, <1>2 DEF TaskInv, Holders, Queued, Held

\* Only a task in the queue is seen there.
LEMMA QueuedView ==
  ASSUME TaskInv, NEW t \in Tasks, TaskView(t) = "queued"
  PROVE  Queued(t)
<1>1. caller[t] \in {"idle", "sending", "accepted", "refused", "recovered"}
  BY DEF TaskInv, Inv, TypeOK, TaskTypeOK
<1>. QED
  BY <1>1, Untouched DEF TaskView

\* PoolPromise counts with the same operator.
LEMMA SameCardinality == \A S : Promise!Cardinality(S) = Cardinality(S)
BY DEF Promise!Cardinality, Cardinality

\* A queue has no more different tasks in it than its length.
LEMMA QueueHolds ==
  ASSUME NEW q \in Seq(Tasks), NEW T \in SUBSET {q[i] : i \in DOMAIN q}
  PROVE  Cardinality(T) \in Nat /\ Cardinality(T) <= Len(q)
<1>. DEFINE S == 1..Len(q)
            R == {q[i] : i \in DOMAIN q}
<1>1. Len(q) \in Nat /\ DOMAIN q = S
  OBVIOUS
<1>2. IsFiniteSet(S) /\ Cardinality(S) = Len(q)
  BY <1>1, FS_Interval
<1>3. [i \in S |-> q[i]] \in Surjection(S, R)
  BY <1>1 DEF Surjection
<1>4. IsFiniteSet(R) /\ Cardinality(R) <= Len(q)
  <2>. HIDE DEF S, R
  <2>. QED
    BY <1>2, <1>3, FS_Surjection
<1>5. IsFiniteSet(T) /\ Cardinality(T) <= Cardinality(R)
  BY <1>4, FS_Subset
<1>. QED
  BY <1>1, <1>4, <1>5, FS_CardinalityType

\* pool.go: the steps of a worker between tasks, of RunBG and of a shutdown that
\* move no task and do not end a phase.
LEMMA QuietSteps ==
  ASSUME \/ CloseParent \/ RestartWorker \/ StopRunBG \/ ParentClosed
         \/ PollWorkers \/ WorkersStopped
         \/ \E w \in Workers :
              \/ StopWorker(w) \/ StopTask(w)
              \/ StartWorker(w) \/ RejectStart(w) \/ MakeStopCh(w)
              \/ ReceiveStop(w) \/ ContextClosed(w) \/ NotStopped(w)
              \/ QueueClosed(w) \/ NextTask(w) \/ ReportPanic(w)
              \/ Unlock(w) \/ ExitWorker(w)
         \/ UNCHANGED vars
  PROVE  UNCHANGED <<View, Phase, overran>>
<1>1. UNCHANGED <<caller, queue, hand, tstate, state, overran>>
  BY DEF CloseParent, RestartWorker, StopRunBG, ReturnRunBG, ParentClosed,
     PollWorkers, WorkersStopped, StopWorker, StopTask, StartWorker,
     RejectStart, SendError, MakeStopCh, ReceiveStop, ContextClosed,
     NotStopped, QueueClosed, NextTask, ReportPanic, Unlock, ExitWorker, vars,
     elsewhere, poolVars, chanVars, shutVars, workerVars, taskVars
<1>. QED
  BY <1>1, NotSeen DEF Phase

\* pool.go:309-331, 421-456: RunBG opens the pool, shutdownUnsafe closes it, and
\* holds no task when it has waited for the workers.
LEMMA PhaseSteps ==
  ASSUME TaskInv,
         \/ RunBG \/ ShutdownTimeout \/ CloseErrors \/ ReadErrors
         \/ RecoverShutdown \/ \E w \in Workers : StopPanics(w)
         \/ \E d \in Timed : ShutdownByParent(d)
         \/ \E s \in Stoppers, m \in Modes, d \in Timed : Stop(s, m, d)
  PROVE  [Promise!Next]_<<View, Phase, overran>>
<1>. USE PoolAssumption DEF TaskInv, Phases, poolVars, chanVars, shutVars,
     workerVars, taskVars
<1>v. View' = View
  BY NotSeen DEF RunBG, ShutdownTimeout, CloseErrors, ReadErrors,
     RecoverShutdown, StopPanics, ShutdownByParent, Stop
<1>h. ASSUME ~overran, workerErrCh # "open"
      PROVE  Promise!In("held") = {}
  <2>1. \A w \in Workers : hand[w] = NoTask
    <3>1. CASE workerErrCh = "nil"
      BY <3>1 DEF Holders, Inv, TypeOK, WorkerTypeOK
    <3>2. CASE workerErrCh = "closed"
      BY <1>h, <3>2 DEF Inv, WaitedFor, EndedForGood, HandsEmpty
    <3>. QED
      BY <1>h, <3>1, <3>2 DEF Inv, TypeOK, ChanTypeOK, Chan
  <2>2. \A t \in Tasks : ~Held(t)
    BY <2>1 DEF Held
  <2>3. \A t \in Tasks : TaskView(t) # "held"
    BY <2>2 DEF TaskView
  <2>. QED
    BY <2>3 DEF Promise!In, View
<1>1. CASE RunBG
  BY <1>1, <1>v DEF RunBG, Phase, View, Promise!Next, Promise!Open
<1>2. CASE ShutdownTimeout
  BY <1>2, <1>v DEF ShutdownTimeout, Phase, View, Promise!Next,
     Promise!GiveUp
<1>3. CASE CloseErrors
  BY <1>3, <1>v, <1>h DEF CloseErrors, EndShutdown, Phase, View,
     Promise!Next, Promise!Closed
<1>4. CASE ReadErrors
  <2>1. /\ shutdown = "errors" /\ state' = "SHUTDOWN" /\ UNCHANGED overran
    BY <1>4 DEF ReadErrors, EndShutdown
  <2>2. workerErrCh # "open"
    BY <2>1 DEF Inv, TypeOK, ChanTypeOK, Chan
  <2>3. Phase = "closing" /\ Phase' = "closed"
    BY <2>1 DEF Phase
  <2>4. overran \/ Promise!In("held") = {}
    BY <1>h, <2>2
  <2>5. Promise!Closed
    BY <1>v, <2>1, <2>3, <2>4 DEF View, Promise!Closed
  <2>. QED
    BY <2>5 DEF Promise!Next
<1>5. ASSUME NEW d \in Timed, ShutdownByParent(d)
      PROVE  [Promise!Next]_<<View, Phase, overran>>
  BY <1>5, <1>v DEF ShutdownByParent, Stoppable, BeginShutdown, Phase, View,
     Promise!Next, Promise!Close
<1>6. ASSUME NEW s \in Stoppers, NEW m \in Modes, NEW d \in Timed, Stop(s, m, d)
      PROVE  [Promise!Next]_<<View, Phase, overran>>
  BY <1>6, <1>v DEF Stop, Stoppable, BeginShutdown, Phase, View,
     Promise!Next, Promise!Close
<1>7. CASE RecoverShutdown
  BY <1>7, <1>v DEF RecoverShutdown, EndShutdown, Phase, View, Promise!Next,
     Promise!Closed
<1>8. ASSUME NEW w \in Workers, StopPanics(w)
      PROVE  [Promise!Next]_<<View, Phase, overran>>
  <2>1. /\ state \in {"SHUTTING_DOWN", "TERMINATE_TIMEOUT"}
        /\ state' = state /\ overran' = TRUE
    BY <1>8 DEF StopPanics, StopsLeft
  <2>. QED
    BY <1>v, <2>1 DEF Phase, View, Promise!Next, Promise!GiveUp
<1>. QED
  BY <1>1, <1>2, <1>3, <1>4, <1>5, <1>6, <1>7, <1>8

\* pool.go:152-177: AddTask offers the task to an open pool or is refused; a send
\* finds room in the queue, or the queue closed.
LEMMA CallerSteps ==
  ASSUME TaskInv, NEW t \in Tasks, Submit(t)
  PROVE  Promise!Next
<1>. USE DEF poolVars, chanVars, shutVars, workerVars, taskVars
<1>t. caller \in [Tasks -> {"idle", "sending", "accepted", "refused", "recovered"}]
  BY DEF TaskInv, Inv, TypeOK, TaskTypeOK
<1>s. state \in PoolState
  BY DEF TaskInv, Inv, TypeOK, PoolTypeOK
<1>q. queue \in Seq(Tasks)
  BY DEF TaskInv, Inv, TypeOK, ChanTypeOK
<1>u. Submit(t) => ~Queued(t) /\ ~Held(t) /\ tstate[t] = "READY"
  BY Untouched DEF Submit, AddTask, SendTask, SendOnClosed
<1>f. UNCHANGED <<hand, tstate, state, overran, Phase>>
  BY DEF Submit, AddTask, SendTask, SendOnClosed, Phase
<1>h. \A u \in Tasks : Held(u)' <=> Held(u)
  BY <1>f DEF Held
<1>1. ASSUME AddTask(t) PROVE Promise!Next
  <2>. DEFINE to == IF state = "BG_RUNNING" THEN "offered" ELSE "rejected"
  <2>1. /\ caller[t] = "idle"
        /\ caller'[t] = IF state = "BG_RUNNING" THEN "sending" ELSE "refused"
        /\ \A u \in Tasks \ {t} : caller'[u] = caller[u]
        /\ UNCHANGED queue
    BY <1>t, <1>1 DEF AddTask
  <2>2. \A u \in Tasks : Queued(u)' <=> Queued(u)
    BY <2>1 DEF Queued
  <2>3. TaskView(t) = "new"
    BY <1>u, <2>1 DEF TaskView
  <2>4. TaskView(t)' = to
    BY <1>u, <1>f, <1>h, <2>1, <2>2 DEF TaskView
  <2>5. Promise!Become(t, "new", to)
    BY <1>f, <1>h, <2>1, <2>2, <2>3, <2>4, OneMoves
  <2>6. Promise!Offer(t) \/ Promise!Refuse(t)
    BY <1>s, <2>5 DEF Promise!Offer, Promise!Refuse, Phase, PoolState
  <2>. QED
    BY <2>6 DEF Promise!Next
<1>2. ASSUME SendTask(t) PROVE Promise!Next
  <2>1. /\ caller[t] = "sending" /\ caller'[t] = "accepted"
        /\ \A u \in Tasks \ {t} : caller'[u] = caller[u]
        /\ taskQueueCh = "open" /\ Len(queue) < QueueSize
        /\ queue' = Append(queue, t)
    BY <1>t, <1>2 DEF SendTask, Room
  <2>2. /\ DOMAIN queue' = DOMAIN queue \cup {Len(queue) + 1}
        /\ queue'[Len(queue) + 1] = t
        /\ \A i \in DOMAIN queue : queue'[i] = queue[i]
    BY <1>q, <2>1
  <2>3. Queued(t)' /\ \A u \in Tasks \ {t} : Queued(u)' <=> Queued(u)
    BY <2>2 DEF Queued
  <2>4. TaskView(t) = "offered" /\ TaskView(t)' = "queued"
    BY <1>u, <1>f, <1>h, <2>1, <2>3 DEF TaskView
  <2>5. Promise!Become(t, "offered", "queued")
    BY <1>f, <1>h, <2>1, <2>3, <2>4, OneMoves
  <2>6. \A u \in Promise!In("queued") : Queued(u)
    BY QueuedView DEF Promise!In
  <2>7. Promise!In("queued") \subseteq {queue[i] : i \in DOMAIN queue}
    BY <2>6 DEF Queued
  <2>8. /\ Cardinality(Promise!In("queued")) \in Nat
        /\ Cardinality(Promise!In("queued")) <= Len(queue)
    BY <1>q, <2>7, QueueHolds
  <2>9. Cardinality(Promise!In("queued")) < QueueSize
    BY <1>q, <2>1, <2>8, PoolAssumption
  <2>10. Phase = "open"
    BY <2>1 DEF TaskInv, Phases, Phase
  <2>11. Promise!Accept(t)
    BY <2>5, <2>9, <2>10, SameCardinality DEF Promise!Accept
  <2>. QED
    BY <2>11 DEF Promise!Next
<1>3. ASSUME SendOnClosed(t) PROVE Promise!Next
  <2>1. /\ caller[t] = "sending" /\ caller'[t] = "recovered"
        /\ \A u \in Tasks \ {t} : caller'[u] = caller[u]
        /\ taskQueueCh = "closed" /\ UNCHANGED queue
    BY <1>t, <1>3 DEF SendOnClosed
  <2>2. \A u \in Tasks : Queued(u)' <=> Queued(u)
    BY <2>1 DEF Queued
  <2>3. TaskView(t) = "offered"
    BY <1>u, <2>1 DEF TaskView
  <2>4. TaskView(t)' = "rejected"
    BY <1>u, <1>f, <1>h, <2>1, <2>2 DEF TaskView
  <2>5. Promise!Become(t, "offered", "rejected")
    BY <1>f, <1>h, <2>1, <2>2, <2>3, <2>4, OneMoves
  <2>6. Phase \in {"closing", "closed"}
    BY <1>s, <2>1 DEF TaskInv, Phases, Phase, PoolState
  <2>7. Promise!Reject(t)
    BY <2>5, <2>6 DEF Promise!Reject
  <2>. QED
    BY <2>7 DEF Promise!Next
<1>. QED
  BY <1>1, <1>2, <1>3 DEF Submit

\* pool.go:442-449, worker.go:172: what a worker or the drain takes from the
\* queue is its first task.
LEMMA HeadLeaves ==
  ASSUME TaskInv, queue # << >>, queue' = Tail(queue), NEW t, t = Head(queue)
  PROVE  /\ t \in Tasks /\ Queued(t) /\ ~Queued(t)'
         /\ \A u \in Tasks \ {t} : Queued(u)' <=> Queued(u)
<1>. DEFINE q == queue
            r == Tail(queue)
<1>1. /\ t \in Tasks /\ 1 \in DOMAIN q /\ q[1] = t
      /\ DOMAIN q \subseteq Nat
      /\ \A i \in DOMAIN r : /\ i \in Nat /\ i + 1 \in DOMAIN q
                             /\ i + 1 # 1 /\ r[i] = q[i + 1]
      /\ \A i \in DOMAIN q : i # 1 => i - 1 \in DOMAIN r /\ r[i - 1] = q[i]
  BY QueueTail DEF TaskInv, Inv, TypeOK, ChanTypeOK
<1>2. \A i, j \in DOMAIN q : q[i] = q[j] => i = j
  BY DEF TaskInv, Holders
<1>3. \A u : Queued(u)' <=> \E i \in DOMAIN r : r[i] = u
  BY DEF Queued
<1>4. \A u : Queued(u) <=> \E i \in DOMAIN q : q[i] = u
  BY DEF Queued
<1>. HIDE DEF q, r
<1>5. Queued(t) /\ ~Queued(t)'
  BY <1>1, <1>2, <1>3, <1>4
<1>6. \A u \in Tasks \ {t} : Queued(u)' <=> Queued(u)
  BY <1>1, <1>3, <1>4
<1>. QED
  BY <1>1, <1>5, <1>6

\* pool.go:442-449: a task drained from the queue gets lost, while the pool closes.
LEMMA DrainSteps ==
  ASSUME TaskInv, DrainQueue
  PROVE  [Promise!Next]_<<View, Phase, overran>>
<1>1. UNCHANGED <<caller, hand, tstate, state, overran, Phase>>
  BY DEF DrainQueue, Phase, poolVars, workerVars, taskVars
<1>2. CASE queue = << >>
  BY <1>1, <1>2, NotSeen DEF DrainQueue, Drained
<1>3. ASSUME queue # << >> PROVE Promise!Next
  <2>. PICK t : t = Head(queue)
    OBVIOUS
  <2>1. queue' = Tail(queue)
    BY <1>3 DEF DrainQueue, Drained
  <2>2. /\ t \in Tasks /\ Queued(t) /\ ~Queued(t)'
        /\ \A u \in Tasks \ {t} : Queued(u)' <=> Queued(u)
    BY <1>3, <2>1, HeadLeaves
  <2>3. \A u \in Tasks : Held(u)' <=> Held(u)
    BY <1>1 DEF Held
  <2>4. caller[t] = "accepted" /\ ~Held(t) /\ tstate[t] = "READY"
    BY <2>2, QueuedAlone
  <2>5. TaskView(t) = "queued"
    BY <2>2, <2>4 DEF TaskView
  <2>6. TaskView(t)' = "lost"
    BY <1>1, <2>2, <2>3, <2>4 DEF TaskView
  <2>7. Promise!Become(t, "queued", "lost")
    BY <1>1, <2>2, <2>3, <2>5, <2>6, OneMoves
  <2>8. Phase = "closing"
    BY DEF TaskInv, Phases, DrainQueue, Phase
  <2>. QED
    BY <2>2, <2>7, <2>8 DEF Promise!Next, Promise!Drop
<1>. QED
  BY <1>2, <1>3

\* pool.go:454-456: a worker that takes a step at its task does so before the pool
\* has closed in time.
LEMMA WorkerWorks ==
  ASSUME TaskInv, NEW w \in Workers, pc[w] # "out",
         queue # << >> \/ hand[w] # NoTask
  PROVE  Promise!Working
<1>1. taskQueueCh # "nil"
  <2>1. ASSUME queue # << >> PROVE \E t \in Tasks : caller[t] = "accepted"
    BY <2>1, QueueTail DEF TaskInv, Inv, TypeOK, ChanTypeOK, Holders
  <2>2. ASSUME hand[w] # NoTask PROVE \E t \in Tasks : caller[t] = "accepted"
    BY <2>2, HeldAlone
  <2>. QED
    BY <2>1, <2>2 DEF TaskInv, Holders
<1>2. state = "SHUTDOWN" => workerErrCh = "closed" \/ overran
  BY <1>1 DEF TaskInv, Inv, TypeOK, ChanTypeOK, Chan, Phases
<1>3. workerErrCh = "closed" => overran
  BY DEF TaskInv, Inv, TypeOK, ShutTypeOK, WaitedFor, EndedForGood
<1>4. Phase = "closed" => state = "SHUTDOWN"
  BY DEF Phase
<1>. QED
  BY <1>2, <1>3, <1>4 DEF Promise!Working

\* worker.go:172-174: a worker receives the first task of the queue.
LEMMA ReceiveStep ==
  ASSUME TaskInv, NEW w \in Workers, ReceiveTask(w)
  PROVE  Promise!Next
<1>. PICK t : t = Head(queue)
  OBVIOUS
<1>1. UNCHANGED <<caller, tstate, state, overran, Phase>>
  BY DEF ReceiveTask, Phase, poolVars, shutVars, taskVars
<1>2. /\ queue # << >> /\ queue' = Tail(queue)
      /\ pc[w] = "select" /\ hand' = [hand EXCEPT ![w] = t]
  BY DEF ReceiveTask, TakeTask
<1>3. /\ t \in Tasks /\ Queued(t) /\ ~Queued(t)'
      /\ \A u \in Tasks \ {t} : Queued(u)' <=> Queued(u)
  BY <1>2, HeadLeaves
<1>4. hand \in [Workers -> Tasks \cup {NoTask}] /\ hand[w] = NoTask
  BY <1>2 DEF TaskInv, Inv, TypeOK, WorkerTypeOK, HandsEmpty
<1>5. Held(t)' /\ \A u \in Tasks \ {t} : Held(u)' <=> Held(u)
  BY <1>2, <1>3, <1>4, PoolAssumption DEF Held
<1>6. caller[t] = "accepted" /\ ~Held(t) /\ tstate[t] = "READY"
  BY <1>3, QueuedAlone
<1>7. TaskView(t) = "queued" /\ TaskView(t)' = "held"
  BY <1>1, <1>3, <1>5, <1>6 DEF TaskView
<1>8. Promise!Become(t, "queued", "held")
  BY <1>1, <1>3, <1>5, <1>7, OneMoves
<1>9. Promise!Working
  BY <1>2, WorkerWorks
<1>. QED
  BY <1>3, <1>8, <1>9 DEF Promise!Next, Promise!Take

\* worker.go:179-183: that a task begins is not seen, it is held already.
LEMMA BeginStep ==
  ASSUME TaskInv, NEW w \in Workers, BeginTask(w)
  PROVE  UNCHANGED <<View, Phase, overran>>
<1>. PICK t : t = hand[w]
  OBVIOUS
<1>1. UNCHANGED <<caller, queue, hand, state, overran, Phase>>
  BY DEF BeginTask, Phase, poolVars, chanVars, shutVars
<1>2. /\ pc[w] = "received" /\ t # NoTask
      /\ tstate' = [tstate EXCEPT ![t] = "IN_PROCESS"]
  BY DEF BeginTask, TaskInv, Holders
<1>3. /\ t \in Tasks /\ caller[t] = "accepted" /\ Held(t) /\ ~Queued(t)
      /\ tstate[t] \in {"READY", "IN_PROCESS"}
  BY <1>2, HeldAlone
<1>t. tstate \in [Tasks -> {"READY", "IN_PROCESS", "DONE_SUCCESS", "TERMINATED"}]
  BY DEF TaskInv, Inv, TypeOK, TaskTypeOK
<1>4. \A u \in Tasks : (Queued(u)' <=> Queued(u)) /\ (Held(u)' <=> Held(u))
  BY <1>1 DEF Queued, Held
<1>5. TaskView(t)' = TaskView(t)
  BY <1>1, <1>2, <1>3, <1>4, <1>t DEF TaskView
<1>6. \A u \in Tasks \ {t} : TaskView(u)' = TaskView(u)
  BY <1>1, <1>2, <1>4, <1>t, SameView
<1>. QED
  BY <1>1, <1>5, <1>6 DEF View

\* worker.go:126-137, 185: a task leaves its worker's hand when it has ended or when the
\* worker panics before it has begun.
LEMMA ReleaseStep ==
  ASSUME TaskInv, NEW w \in Workers, NEW t, t = hand[w], t # NoTask, pc[w] # "out",
         hand' = [hand EXCEPT ![w] = NoTask],
         UNCHANGED <<caller, queue, state, overran>>,
         \A u \in Tasks \ {t} : tstate'[u] = tstate[u], NEW to,
         \/ tstate'[t] \in {"DONE_SUCCESS", "TERMINATED"} /\ to = "finished"
         \/ tstate'[t] = "READY" /\ to = "lost"
  PROVE  Promise!Become(t, "held", to) /\ Promise!Working
<1>1. /\ t \in Tasks /\ caller[t] = "accepted" /\ Held(t) /\ ~Queued(t)
      /\ tstate[t] \in {"READY", "IN_PROCESS"}
      /\ \A v \in Workers \ {w} : hand[v] # t
  BY HeldAlone
<1>2. \A u \in Tasks : Queued(u)' <=> Queued(u)
  BY DEF Queued
<1>3. ~Held(t)' /\ \A u \in Tasks \ {t} : Held(u)' <=> Held(u)
  BY <1>1, PoolAssumption DEF Held, TaskInv, Inv, TypeOK, WorkerTypeOK
<1>4. TaskView(t) = "held"
  BY <1>1 DEF TaskView
<1>5. TaskView(t)' = to
  BY <1>1, <1>2, <1>3 DEF TaskView
<1>6. Promise!Working
  BY WorkerWorks
<1>7. UNCHANGED <<Phase, overran>>
  BY DEF Phase
<1>8. Promise!Become(t, "held", to)
  BY <1>1, <1>2, <1>3, <1>4, <1>5, <1>7, OneMoves
<1>. QED
  BY <1>6, <1>8

\* worker.go:183-186: a task has ended.
LEMMA EndStep ==
  ASSUME TaskInv, NEW w \in Workers, NEW o \in {"DONE_SUCCESS", "TERMINATED"},
         EndTask(w, o)
  PROVE  Promise!Next
<1>. PICK t : t = hand[w]
  OBVIOUS
<1>1. /\ pc[w] = "process" /\ hand' = [hand EXCEPT ![w] = NoTask]
      /\ tstate' = [tstate EXCEPT ![t] = o]
      /\ UNCHANGED <<caller, queue, state, overran>>
  BY DEF EndTask, poolVars, chanVars, shutVars
<1>2. t # NoTask
  BY <1>1 DEF TaskInv, Holders
<1>3. t \in Tasks
  BY <1>2, HeldAlone
<1>4. /\ tstate'[t] = o
      /\ \A u \in Tasks \ {t} : tstate'[u] = tstate[u]
  BY <1>1, <1>3 DEF TaskInv, Inv, TypeOK, TaskTypeOK
<1>5. Promise!Become(t, "held", "finished") /\ Promise!Working
  BY <1>1, <1>2, <1>4, ReleaseStep
<1>. QED
  BY <1>3, <1>5 DEF Promise!Next, Promise!Finish

\* worker.go:126-137: a worker that panics loses the task it has received.
LEMMA PanicStep ==
  ASSUME TaskInv, NEW w \in Workers, Panic(w)
  PROVE  [Promise!Next]_<<View, Phase, overran>>
<1>1. /\ pc[w] \in {"received", "after"} /\ hand' = [hand EXCEPT ![w] = NoTask]
      /\ UNCHANGED <<caller, queue, tstate, state, overran, Phase>>
  BY DEF Panic, Phase, elsewhere, poolVars, chanVars, shutVars, taskVars
<1>2. CASE pc[w] = "after"
  <2>1. hand' = hand
    BY <1>1, <1>2 DEF TaskInv, Inv, TypeOK, WorkerTypeOK, HandsEmpty
  <2>. QED
    BY <1>1, <2>1, NotSeen
<1>3. CASE pc[w] = "received"
  <2>. PICK t : t = hand[w]
    OBVIOUS
  <2>1. t # NoTask /\ tstate[t] = "READY"
    BY <1>3 DEF TaskInv, Holders
  <2>2. t \in Tasks
    BY <2>1, HeldAlone
  <2>3. Promise!Become(t, "held", "lost") /\ Promise!Working
    BY <1>1, <1>3, <2>1, ReleaseStep
  <2>. QED
    BY <2>2, <2>3 DEF Promise!Next, Promise!Fail
<1>. QED
  BY <1>1, <1>2, <1>3

\* Every step of the pool is one of these.
LEMMA PromiseNext ==
  TaskInv /\ [Next]_vars => [Promise!Next]_<<View, Phase, overran>>
<1>. SUFFICES ASSUME TaskInv, [Next]_vars
              PROVE  [Promise!Next]_<<View, Phase, overran>>
  OBVIOUS
<1>1. CASE \E t \in Tasks : Submit(t)
  BY <1>1, CallerSteps
<1>2. CASE CloseParent \/ UNCHANGED vars
  BY <1>2, QuietSteps
<1>3. CASE RunLoop
  BY <1>3, QuietSteps, PhaseSteps DEF RunLoop
<1>4. CASE Shutdown
  BY <1>4, QuietSteps, PhaseSteps, DrainSteps DEF Shutdown
<1>5. CASE (\E d \in Timed : ShutdownByParent(d))
           \/ (\E s \in Stoppers, m \in Modes, d \in Timed : Stop(s, m, d))
  BY <1>5, PhaseSteps
<1>6. ASSUME NEW w \in Workers, RunWorker(w)
      PROVE  [Promise!Next]_<<View, Phase, overran>>
  BY <1>6, QuietSteps, ReceiveStep, BeginStep, EndStep, PanicStep DEF RunWorker
<1>. QED
  BY <1>1, <1>2, <1>3, <1>4, <1>5, <1>6 DEF Next

\* The pool of NewPool has no task yet.
LEMMA PromiseInit == Init => Promise!Init
<1>. SUFFICES ASSUME Init PROVE Promise!Init
  OBVIOUS
<1>1. \A t \in Tasks : TaskView(t) = "new"
  BY PoolAssumption DEF Init, TaskView, Queued, Held
<1>. QED
  BY <1>1 DEF Init, Promise!Init, Phase, View

\* PoolPromise, of every pool: a task begins only once an open pool accepted it, is
\* held once and finishes at most once; an accepted task gets lost only while the
\* pool closes or with a worker that panics; a pool that closed in time holds
\* nothing and begins nothing again (pool.go, worker.go).
THEOREM Promised == Spec => KeepsPromise
<1>1. Spec => [][Promise!Next]_<<View, Phase, overran>>
  BY SpecTaskInv, PromiseNext, PTL DEF Spec
<1>2. Spec => Promise!Init
  BY PromiseInit, PTL DEF Spec
<1>. QED
  BY <1>1, <1>2, PTL DEF KeepsPromise, Promise!Spec, View

=============================================================================
