-------------------------- MODULE WorkerPoolProofs --------------------------
(***************************************************************************)
(* What holds of WorkerPool for every number of workers, tasks, callers of *)
(* Stop, queue size and bound on panics: its type invariant, one error per *)
(* worker, and workers that have ended when the channel of errors closes.  *)
(***************************************************************************)
EXTENDS WorkerPool, FiniteSetTheorems, TLAPS

USE DEF elsewhere

\* The capacity of workerErrCh (pool.go:329) is a number.
LEMMA WorkersCounted == Cardinality(Workers) \in Nat
BY PoolAssumption, FS_CardinalityType

-----------------------------------------------------------------------------
(* Type correctness                                                        *)

\* NewPool (pool.go:104-137) leaves every field with a value of its type.
LEMMA InitTypeOK == Init => TypeOK
<1>. SUFFICES ASSUME Init PROVE TypeOK
  OBVIOUS
<1>1. PoolTypeOK
  BY DEF Init, PoolTypeOK, PoolState, StopChan
<1>2. ChanTypeOK
  BY PoolAssumption, WorkersCounted DEF Init, ChanTypeOK, Chan
<1>3. ShutTypeOK
  BY DEF Init, ShutTypeOK
<1>4. WorkerTypeOK
  BY PoolAssumption DEF Init, WorkerTypeOK, WorkerState, StopChan, WorkerPc
<1>5. TaskTypeOK
  BY PoolAssumption DEF Init, TaskTypeOK
<1>. QED
  BY <1>1, <1>2, <1>3, <1>4, <1>5 DEF TypeOK

\* Every step of the pool keeps every field's type.
LEMMA NextTypeOK == TypeOK /\ [Next]_vars => TypeOK'
<1>. SUFFICES ASSUME TypeOK, [Next]_vars PROVE TypeOK'
  OBVIOUS
<1>. USE DEF TypeOK

<1>1. ASSUME CloseParent PROVE TypeOK'
  BY <1>1 DEF CloseParent, poolVars, chanVars, shutVars, workerVars,
     taskVars, PoolTypeOK, PoolState, StopChan, ChanTypeOK, Chan,
     ShutTypeOK, WorkerTypeOK, WorkerState, WorkerPc, TaskTypeOK
<1>2. ASSUME RunBG PROVE TypeOK'
  BY <1>2 DEF RunBG, poolVars, chanVars, shutVars, workerVars, taskVars,
     PoolTypeOK, PoolState, StopChan, ChanTypeOK, Chan, ShutTypeOK,
     WorkerTypeOK, WorkerState, WorkerPc, TaskTypeOK
<1>3. ASSUME RestartWorker PROVE TypeOK'
  BY <1>3, WorkersCounted DEF RestartWorker, TakeError, poolVars, chanVars,
     shutVars, workerVars, taskVars, PoolTypeOK, PoolState, StopChan,
     ChanTypeOK, Chan, ShutTypeOK, WorkerTypeOK, WorkerState, WorkerPc,
     TaskTypeOK
<1>4. ASSUME StopRunBG PROVE TypeOK'
  BY <1>4 DEF StopRunBG, ReturnRunBG, poolVars, chanVars, shutVars,
     workerVars, taskVars, PoolTypeOK, PoolState, StopChan, ChanTypeOK,
     Chan, ShutTypeOK, WorkerTypeOK, WorkerState, WorkerPc, TaskTypeOK
<1>5. ASSUME ParentClosed PROVE TypeOK'
  BY <1>5 DEF ParentClosed, poolVars, chanVars, shutVars, workerVars,
     taskVars, PoolTypeOK, PoolState, StopChan, ChanTypeOK, Chan,
     ShutTypeOK, WorkerTypeOK, WorkerState, WorkerPc, TaskTypeOK
<1>6. ASSUME DrainQueue PROVE TypeOK'
  <2>1. PoolTypeOK'
    BY <1>6, PoolAssumption DEF DrainQueue, Drained, poolVars, PoolTypeOK,
       PoolState, StopChan
  <2>2. ChanTypeOK'
    BY <1>6, PoolAssumption DEF DrainQueue, Drained, chanVars, ChanTypeOK,
       Chan
  <2>3. ShutTypeOK'
    BY <1>6, PoolAssumption DEF DrainQueue, Drained, shutVars, ShutTypeOK
  <2>4. WorkerTypeOK'
    BY <1>6, PoolAssumption DEF DrainQueue, Drained, workerVars,
       WorkerTypeOK, WorkerState, StopChan, WorkerPc
  <2>5. TaskTypeOK'
    BY <1>6, PoolAssumption DEF DrainQueue, Drained, taskVars, TaskTypeOK
  <2>. QED
    BY <2>1, <2>2, <2>3, <2>4, <2>5
<1>7. ASSUME PollWorkers PROVE TypeOK'
  BY <1>7 DEF PollWorkers, poolVars, chanVars, shutVars, workerVars,
     taskVars, PoolTypeOK, PoolState, StopChan, ChanTypeOK, Chan,
     ShutTypeOK, WorkerTypeOK, WorkerState, WorkerPc, TaskTypeOK
<1>8. ASSUME WorkersStopped PROVE TypeOK'
  BY <1>8 DEF WorkersStopped, poolVars, chanVars, shutVars, workerVars,
     taskVars, PoolTypeOK, PoolState, StopChan, ChanTypeOK, Chan,
     ShutTypeOK, WorkerTypeOK, WorkerState, WorkerPc, TaskTypeOK
<1>9. ASSUME ShutdownTimeout PROVE TypeOK'
  BY <1>9 DEF ShutdownTimeout, poolVars, chanVars, shutVars, workerVars,
     taskVars, PoolTypeOK, PoolState, StopChan, ChanTypeOK, Chan,
     ShutTypeOK, WorkerTypeOK, WorkerState, WorkerPc, TaskTypeOK
<1>10. ASSUME CloseErrors PROVE TypeOK'
  <2>1. PoolTypeOK'
    BY <1>10 DEF CloseErrors, EndShutdown, ReturnRunBG, poolVars,
       PoolTypeOK, PoolState, StopChan
  <2>2. ChanTypeOK'
    BY <1>10 DEF CloseErrors, EndShutdown, ReturnRunBG, chanVars,
       ChanTypeOK, Chan
  <2>3. ShutTypeOK'
    BY <1>10 DEF CloseErrors, EndShutdown, ReturnRunBG, shutVars, ShutTypeOK
  <2>4. WorkerTypeOK'
    BY <1>10 DEF CloseErrors, EndShutdown, ReturnRunBG, workerVars,
       WorkerTypeOK, WorkerState, StopChan, WorkerPc
  <2>5. TaskTypeOK'
    BY <1>10 DEF CloseErrors, EndShutdown, ReturnRunBG, taskVars, TaskTypeOK
  <2>. QED
    BY <2>1, <2>2, <2>3, <2>4, <2>5
<1>11. ASSUME ReadErrors PROVE TypeOK'
  <2>1. PoolTypeOK'
    BY <1>11, WorkersCounted DEF ReadErrors, EndShutdown, ReturnRunBG,
       poolVars, PoolTypeOK, PoolState, StopChan
  <2>2. ChanTypeOK'
    BY <1>11, WorkersCounted DEF ReadErrors, EndShutdown, ReturnRunBG,
       chanVars, ChanTypeOK, Chan
  <2>3. ShutTypeOK'
    BY <1>11, WorkersCounted DEF ReadErrors, EndShutdown, ReturnRunBG,
       shutVars, ShutTypeOK
  <2>4. WorkerTypeOK'
    BY <1>11, WorkersCounted DEF ReadErrors, EndShutdown, ReturnRunBG,
       workerVars, WorkerTypeOK, WorkerState, StopChan, WorkerPc
  <2>5. TaskTypeOK'
    BY <1>11, WorkersCounted DEF ReadErrors, EndShutdown, ReturnRunBG,
       taskVars, TaskTypeOK
  <2>. QED
    BY <2>1, <2>2, <2>3, <2>4, <2>5
<1>12. ASSUME NEW w \in Workers, StopWorker(w) PROVE TypeOK'
  BY <1>12 DEF StopWorker, poolVars, chanVars, shutVars, workerVars,
     taskVars, PoolTypeOK, PoolState, StopChan, ChanTypeOK, Chan,
     ShutTypeOK, WorkerTypeOK, WorkerState, WorkerPc, TaskTypeOK
<1>13. ASSUME NEW w \in Workers, StopTask(w) PROVE TypeOK'
  BY <1>13 DEF StopTask, poolVars, chanVars, shutVars, workerVars, taskVars,
     PoolTypeOK, PoolState, StopChan, ChanTypeOK, Chan, ShutTypeOK,
     WorkerTypeOK, WorkerState, WorkerPc, TaskTypeOK
<1>14. ASSUME NEW d \in Timed, ShutdownByParent(d) PROVE TypeOK'
  <2>1. PoolTypeOK'
    BY <1>14, PoolAssumption DEF ShutdownByParent, Stoppable, BeginShutdown,
       QueueAtShutdown, ReturnRunBG, poolVars, PoolTypeOK, PoolState,
       StopChan
  <2>2. ChanTypeOK'
    BY <1>14, PoolAssumption DEF ShutdownByParent, Stoppable, BeginShutdown,
       QueueAtShutdown, ReturnRunBG, chanVars, ChanTypeOK, Chan
  <2>3. ShutTypeOK'
    BY <1>14, PoolAssumption DEF ShutdownByParent, Stoppable, BeginShutdown,
       QueueAtShutdown, ReturnRunBG, shutVars, ShutTypeOK
  <2>4. WorkerTypeOK'
    BY <1>14, PoolAssumption DEF ShutdownByParent, Stoppable, BeginShutdown,
       QueueAtShutdown, ReturnRunBG, workerVars, WorkerTypeOK, WorkerState,
       StopChan, WorkerPc
  <2>5. TaskTypeOK'
    BY <1>14, PoolAssumption DEF ShutdownByParent, Stoppable, BeginShutdown,
       QueueAtShutdown, ReturnRunBG, taskVars, TaskTypeOK
  <2>. QED
    BY <2>1, <2>2, <2>3, <2>4, <2>5
<1>15. ASSUME NEW s \in Stoppers, NEW m \in Modes, NEW d \in Timed, Stop(s, m, d) PROVE TypeOK'
  <2>1. PoolTypeOK'
    BY <1>15, PoolAssumption DEF Stop, Stoppable, BeginShutdown,
       QueueAtShutdown, poolVars, PoolTypeOK, PoolState, StopChan
  <2>2. ChanTypeOK'
    BY <1>15, PoolAssumption DEF Stop, Stoppable, BeginShutdown,
       QueueAtShutdown, chanVars, ChanTypeOK, Chan
  <2>3. ShutTypeOK'
    BY <1>15, PoolAssumption DEF Stop, Stoppable, BeginShutdown,
       QueueAtShutdown, shutVars, ShutTypeOK
  <2>4. WorkerTypeOK'
    BY <1>15, PoolAssumption DEF Stop, Stoppable, BeginShutdown,
       QueueAtShutdown, workerVars, WorkerTypeOK, WorkerState, StopChan,
       WorkerPc
  <2>5. TaskTypeOK'
    BY <1>15, PoolAssumption DEF Stop, Stoppable, BeginShutdown,
       QueueAtShutdown, taskVars, TaskTypeOK
  <2>. QED
    BY <2>1, <2>2, <2>3, <2>4, <2>5
<1>16. ASSUME NEW t \in Tasks, AddTask(t) PROVE TypeOK'
  BY <1>16 DEF AddTask, poolVars, chanVars, shutVars, workerVars, taskVars,
     PoolTypeOK, PoolState, StopChan, ChanTypeOK, Chan, ShutTypeOK,
     WorkerTypeOK, WorkerState, WorkerPc, TaskTypeOK
<1>17. ASSUME NEW t \in Tasks, SendTask(t) PROVE TypeOK'
  BY <1>17, PoolAssumption DEF SendTask, Room, poolVars, chanVars, shutVars,
     workerVars, taskVars, PoolTypeOK, PoolState, StopChan, ChanTypeOK,
     Chan, ShutTypeOK, WorkerTypeOK, WorkerState, WorkerPc, TaskTypeOK
<1>18. ASSUME NEW t \in Tasks, SendOnClosed(t) PROVE TypeOK'
  BY <1>18 DEF SendOnClosed, poolVars, chanVars, shutVars, workerVars,
     taskVars, PoolTypeOK, PoolState, StopChan, ChanTypeOK, Chan,
     ShutTypeOK, WorkerTypeOK, WorkerState, WorkerPc, TaskTypeOK
<1>19. ASSUME NEW w \in Workers, StartWorker(w) PROVE TypeOK'
  BY <1>19 DEF StartWorker, Startable, Goto, poolVars, chanVars, shutVars,
     workerVars, taskVars, PoolTypeOK, PoolState, StopChan, ChanTypeOK,
     Chan, ShutTypeOK, WorkerTypeOK, WorkerState, WorkerPc, TaskTypeOK
<1>20. ASSUME NEW w \in Workers, RejectStart(w) PROVE TypeOK'
  BY <1>20, WorkersCounted DEF RejectStart, SendError, Goto, poolVars,
     chanVars, shutVars, workerVars, taskVars, PoolTypeOK, PoolState,
     StopChan, ChanTypeOK, Chan, ShutTypeOK, WorkerTypeOK, WorkerState,
     WorkerPc, TaskTypeOK
<1>21. ASSUME NEW w \in Workers, MakeStopCh(w) PROVE TypeOK'
  BY <1>21 DEF MakeStopCh, Goto, poolVars, chanVars, shutVars, workerVars,
     taskVars, PoolTypeOK, PoolState, StopChan, ChanTypeOK, Chan,
     ShutTypeOK, WorkerTypeOK, WorkerState, WorkerPc, TaskTypeOK
<1>22. ASSUME NEW w \in Workers, ReceiveStop(w) PROVE TypeOK'
  BY <1>22 DEF ReceiveStop, Goto, poolVars, chanVars, shutVars, workerVars,
     taskVars, PoolTypeOK, PoolState, StopChan, ChanTypeOK, Chan,
     ShutTypeOK, WorkerTypeOK, WorkerState, WorkerPc, TaskTypeOK
<1>23. ASSUME NEW w \in Workers, ContextClosed(w) PROVE TypeOK'
  BY <1>23 DEF ContextClosed, Goto, poolVars, chanVars, shutVars,
     workerVars, taskVars, PoolTypeOK, PoolState, StopChan, ChanTypeOK,
     Chan, ShutTypeOK, WorkerTypeOK, WorkerState, WorkerPc, TaskTypeOK
<1>24. ASSUME NEW w \in Workers, NotStopped(w) PROVE TypeOK'
  BY <1>24 DEF NotStopped, Goto, poolVars, chanVars, shutVars, workerVars,
     taskVars, PoolTypeOK, PoolState, StopChan, ChanTypeOK, Chan,
     ShutTypeOK, WorkerTypeOK, WorkerState, WorkerPc, TaskTypeOK
<1>25. ASSUME NEW w \in Workers, ReceiveTask(w) PROVE TypeOK'
  BY <1>25, PoolAssumption DEF ReceiveTask, TakeTask, Goto, poolVars,
     chanVars, shutVars, workerVars, taskVars, PoolTypeOK, PoolState,
     StopChan, ChanTypeOK, Chan, ShutTypeOK, WorkerTypeOK, WorkerState,
     WorkerPc, TaskTypeOK
<1>26. ASSUME NEW w \in Workers, QueueClosed(w) PROVE TypeOK'
  BY <1>26 DEF QueueClosed, Goto, poolVars, chanVars, shutVars, workerVars,
     taskVars, PoolTypeOK, PoolState, StopChan, ChanTypeOK, Chan,
     ShutTypeOK, WorkerTypeOK, WorkerState, WorkerPc, TaskTypeOK
<1>27. ASSUME NEW w \in Workers, BeginTask(w) PROVE TypeOK'
  <2>1. PoolTypeOK'
    BY <1>27 DEF BeginTask, Goto, poolVars, PoolTypeOK, PoolState, StopChan
  <2>2. ChanTypeOK'
    BY <1>27 DEF BeginTask, Goto, chanVars, ChanTypeOK, Chan
  <2>3. ShutTypeOK'
    BY <1>27 DEF BeginTask, Goto, shutVars, ShutTypeOK
  <2>4. WorkerTypeOK'
    BY <1>27 DEF BeginTask, Goto, workerVars, WorkerTypeOK, WorkerState,
       StopChan, WorkerPc
  <2>5. TaskTypeOK'
    BY <1>27 DEF BeginTask, Goto, taskVars, TaskTypeOK
  <2>. QED
    BY <2>1, <2>2, <2>3, <2>4, <2>5
<1>28. ASSUME NEW w \in Workers, NextTask(w) PROVE TypeOK'
  BY <1>28 DEF NextTask, Goto, poolVars, chanVars, shutVars, workerVars,
     taskVars, PoolTypeOK, PoolState, StopChan, ChanTypeOK, Chan,
     ShutTypeOK, WorkerTypeOK, WorkerState, WorkerPc, TaskTypeOK
<1>29. ASSUME NEW w \in Workers, Panic(w) PROVE TypeOK'
  BY <1>29, PoolAssumption DEF Panic, Goto, poolVars, chanVars, shutVars,
     workerVars, taskVars, PoolTypeOK, PoolState, StopChan, ChanTypeOK,
     Chan, ShutTypeOK, WorkerTypeOK, WorkerState, WorkerPc, TaskTypeOK
<1>30. ASSUME NEW w \in Workers, ReportPanic(w) PROVE TypeOK'
  BY <1>30, WorkersCounted DEF ReportPanic, SendError, Goto, poolVars,
     chanVars, shutVars, workerVars, taskVars, PoolTypeOK, PoolState,
     StopChan, ChanTypeOK, Chan, ShutTypeOK, WorkerTypeOK, WorkerState,
     WorkerPc, TaskTypeOK
<1>31. ASSUME NEW w \in Workers, Unlock(w) PROVE TypeOK'
  BY <1>31 DEF Unlock, Goto, poolVars, chanVars, shutVars, workerVars,
     taskVars, PoolTypeOK, PoolState, StopChan, ChanTypeOK, Chan,
     ShutTypeOK, WorkerTypeOK, WorkerState, WorkerPc, TaskTypeOK
<1>32. ASSUME NEW w \in Workers, ExitWorker(w) PROVE TypeOK'
  BY <1>32 DEF ExitWorker, Goto, poolVars, chanVars, shutVars, workerVars,
     taskVars, PoolTypeOK, PoolState, StopChan, ChanTypeOK, Chan,
     ShutTypeOK, WorkerTypeOK, WorkerState, WorkerPc, TaskTypeOK
<1>33. ASSUME NEW w \in Workers, NEW outcome \in {"DONE_SUCCESS", "TERMINATED"}, EndTask(w, outcome) PROVE TypeOK'
  <2>1. PoolTypeOK'
    BY <1>33 DEF EndTask, Goto, poolVars, PoolTypeOK, PoolState, StopChan
  <2>2. ChanTypeOK'
    BY <1>33 DEF EndTask, Goto, chanVars, ChanTypeOK, Chan
  <2>3. ShutTypeOK'
    BY <1>33 DEF EndTask, Goto, shutVars, ShutTypeOK
  <2>4. WorkerTypeOK'
    BY <1>33 DEF EndTask, Goto, workerVars, WorkerTypeOK, WorkerState,
       StopChan, WorkerPc
  <2>5. TaskTypeOK'
    BY <1>33 DEF EndTask, Goto, taskVars, TaskTypeOK
  <2>. QED
    BY <2>1, <2>2, <2>3, <2>4, <2>5
<1>34. ASSUME NEW w \in Workers, StopPanics(w) PROVE TypeOK'
  BY <1>34 DEF StopPanics, poolVars, chanVars, workerVars, taskVars,
     PoolTypeOK, PoolState, StopChan, ChanTypeOK, Chan, ShutTypeOK,
     WorkerTypeOK, WorkerState, WorkerPc, TaskTypeOK
<1>35. ASSUME RecoverShutdown PROVE TypeOK'
  <2>1. PoolTypeOK'
    BY <1>35 DEF RecoverShutdown, EndShutdown, ReturnRunBG, PoolTypeOK,
       PoolState, StopChan
  <2>2. ChanTypeOK' /\ WorkerTypeOK' /\ TaskTypeOK'
    BY <1>35 DEF RecoverShutdown, chanVars, workerVars, taskVars, ChanTypeOK,
       Chan, WorkerTypeOK, WorkerState, StopChan, WorkerPc, TaskTypeOK
  <2>3. ShutTypeOK'
    BY <1>35 DEF RecoverShutdown, EndShutdown, ReturnRunBG, ShutTypeOK
  <2>. QED
    BY <2>1, <2>2, <2>3
<1>36. CASE UNCHANGED vars
  BY <1>36 DEF vars, poolVars, chanVars, shutVars, workerVars, taskVars,
     PoolTypeOK, PoolState, StopChan, ChanTypeOK, Chan, ShutTypeOK,
     WorkerTypeOK, WorkerState, WorkerPc, TaskTypeOK
<1>. QED
  BY <1>1, <1>2, <1>3, <1>4, <1>5, <1>6, <1>7, <1>8, <1>9, <1>10, <1>11,
     <1>12, <1>13, <1>14, <1>15, <1>16, <1>17, <1>18, <1>19, <1>20, <1>21,
     <1>22, <1>23, <1>24, <1>25, <1>26, <1>27, <1>28, <1>29, <1>30, <1>31,
     <1>32, <1>33, <1>34, <1>35, <1>36 DEF Next, Submit, RunLoop, Shutdown, RunWorker

\* Fields and channels keep their types and capacities in every run of the pool.
THEOREM TypeCorrect == Spec => []TypeOK
BY InitTypeOK, NextTypeOK, PTL DEF Spec

-----------------------------------------------------------------------------
(* One error per worker, and workers that end for good                     *)

\* Before RunBG nothing runs and nothing is shut down.
Fresh ==
  state = "NEW" =>
    /\ workerErrCh = "nil" /\ errors = << >>
    /\ shutdown = "off" /\ stopTaskOf = {}
    /\ \A w \in Workers : wstate[w] = "NEW" /\ pc[w] = "out" /\ calls[w] = 0

\* A worker that has ended is not run again and has no error underway that
\* would make RunBG run it again.
EndedForGood ==
  \A w \in Workers : wstate[w] = "TERMINATED" =>
    /\ pc[w] = "out" /\ calls[w] = 0
    /\ \A i \in DOMAIN errors : errors[i] # w

\* A worker has a task in its hand only between its receipt and its end.
HandsEmpty ==
  \A w \in Workers : pc[w] \notin {"received", "process"} => hand[w] = NoTask

\* stopWorkersUnsafe has seen every worker TERMINATED, or has run out of time.
WaitedFor ==
  /\ ~overran
  /\ workerErrCh = "closed" \/ (workerErrCh = "open" /\ shutdown = "close")
  => \A w \in Workers : wstate[w] = "TERMINATED"

\* The inductive invariant.
Inv ==
  /\ TypeOK /\ Fresh /\ OneErrorPerWorker /\ EndedForGood /\ HandsEmpty
  /\ WaitedFor

\* NewPool: no worker, no error and no shutdown.
LEMMA InitInv == Init => Inv
<1>. SUFFICES ASSUME Init PROVE Inv
  OBVIOUS
<1>1. TypeOK
  BY InitTypeOK
<1>2. Fresh /\ OneErrorPerWorker
  BY DEF Init, Fresh, OneErrorPerWorker
<1>3. EndedForGood /\ HandsEmpty /\ WaitedFor
  BY DEF Init, EndedForGood, HandsEmpty, WaitedFor
<1>. QED
  BY <1>1, <1>2, <1>3 DEF Inv

\* Every step of a worker, of RunBG and of a shutdown keeps the parts together.
LEMMA NextInv == Inv /\ [Next]_vars => Inv'
<1>. SUFFICES ASSUME Inv, [Next]_vars PROVE Inv'
  OBVIOUS
<1>. DEFINE Rest == /\ Fresh /\ OneErrorPerWorker /\ EndedForGood /\ HandsEmpty
                   /\ WaitedFor
<1>a. TypeOK'
  BY NextTypeOK DEF Inv
<1>b. /\ TypeOK /\ Rest /\ errors \in Seq(Workers) /\ WorkerTypeOK
  BY DEF Inv, TypeOK, ChanTypeOK

<1>1. ASSUME CloseParent PROVE Rest'
  BY <1>b, <1>1 DEF CloseParent, poolVars, chanVars, shutVars, workerVars,
     taskVars, Fresh, OneErrorPerWorker, EndedForGood, HandsEmpty,
     WaitedFor, WorkerTypeOK, WorkerPc
<1>2. ASSUME RunBG PROVE Rest'
  BY <1>b, <1>2 DEF RunBG, poolVars, chanVars, shutVars, workerVars,
     taskVars, Fresh, OneErrorPerWorker, EndedForGood, HandsEmpty,
     WaitedFor, WorkerTypeOK, WorkerPc
<1>3. ASSUME RestartWorker PROVE Rest'
  BY <1>b, <1>3 DEF RestartWorker, TakeError, poolVars, chanVars, shutVars,
     workerVars, taskVars, Fresh, OneErrorPerWorker, EndedForGood,
     HandsEmpty, WaitedFor, WorkerTypeOK, WorkerPc
<1>4. ASSUME StopRunBG PROVE Rest'
  BY <1>b, <1>4 DEF StopRunBG, ReturnRunBG, poolVars, chanVars, shutVars,
     workerVars, taskVars, Fresh, OneErrorPerWorker, EndedForGood,
     HandsEmpty, WaitedFor, WorkerTypeOK, WorkerPc
<1>5. ASSUME ParentClosed PROVE Rest'
  BY <1>b, <1>5 DEF ParentClosed, poolVars, chanVars, shutVars, workerVars,
     taskVars, Fresh, OneErrorPerWorker, EndedForGood, HandsEmpty,
     WaitedFor, WorkerTypeOK, WorkerPc
<1>6. ASSUME DrainQueue PROVE Rest'
  BY <1>b, <1>6 DEF DrainQueue, Drained, poolVars, chanVars, shutVars,
     workerVars, taskVars, Fresh, OneErrorPerWorker, EndedForGood,
     HandsEmpty, WaitedFor, WorkerTypeOK, WorkerPc
<1>7. ASSUME PollWorkers PROVE Rest'
  BY <1>b, <1>7 DEF PollWorkers, poolVars, chanVars, shutVars, workerVars,
     taskVars, Fresh, OneErrorPerWorker, EndedForGood, HandsEmpty,
     WaitedFor, WorkerTypeOK, WorkerPc
<1>8. ASSUME WorkersStopped PROVE Rest'
  BY <1>b, <1>8 DEF WorkersStopped, Ended, poolVars, chanVars, shutVars,
     workerVars, taskVars, Fresh, OneErrorPerWorker, EndedForGood,
     HandsEmpty, WaitedFor, WorkerTypeOK, WorkerPc
<1>9. ASSUME ShutdownTimeout PROVE Rest'
  BY <1>b, <1>9 DEF ShutdownTimeout, poolVars, chanVars, shutVars,
     workerVars, taskVars, Fresh, OneErrorPerWorker, EndedForGood,
     HandsEmpty, WaitedFor, WorkerTypeOK, WorkerPc
<1>10. ASSUME CloseErrors PROVE Rest'
  <2>1. Fresh'
    BY <1>b, <1>10 DEF CloseErrors, EndShutdown, ReturnRunBG, poolVars,
       chanVars, shutVars, workerVars, taskVars, Fresh, WorkerTypeOK,
       WorkerPc
  <2>2. OneErrorPerWorker'
    BY <1>b, <1>10 DEF CloseErrors, EndShutdown, ReturnRunBG, poolVars,
       chanVars, shutVars, workerVars, taskVars, OneErrorPerWorker,
       WorkerTypeOK, WorkerPc
  <2>3. EndedForGood'
    BY <1>b, <1>10 DEF CloseErrors, EndShutdown, ReturnRunBG, poolVars,
       chanVars, shutVars, workerVars, taskVars, OneErrorPerWorker,
       EndedForGood, WorkerTypeOK, WorkerPc
  <2>4. HandsEmpty'
    BY <1>b, <1>10 DEF CloseErrors, EndShutdown, ReturnRunBG, poolVars,
       chanVars, shutVars, workerVars, taskVars, HandsEmpty, WorkerTypeOK,
       WorkerPc
  <2>5. WaitedFor'
    BY <1>b, <1>10 DEF CloseErrors, EndShutdown, ReturnRunBG, poolVars,
       chanVars, shutVars, workerVars, taskVars, WaitedFor, TypeOK,
       ChanTypeOK, Chan, WorkerTypeOK, WorkerPc
  <2>. QED
    BY <2>1, <2>2, <2>3, <2>4, <2>5
<1>11. ASSUME ReadErrors PROVE Rest'
  BY <1>b, <1>11 DEF ReadErrors, EndShutdown, ReturnRunBG, poolVars,
     chanVars, shutVars, workerVars, taskVars, Fresh, OneErrorPerWorker,
     EndedForGood, HandsEmpty, WaitedFor, WorkerTypeOK, WorkerPc
<1>12. ASSUME NEW w \in Workers, StopWorker(w) PROVE Rest'
  BY <1>b, <1>12 DEF StopWorker, poolVars, chanVars, shutVars, workerVars,
     taskVars, Fresh, OneErrorPerWorker, EndedForGood, HandsEmpty,
     WaitedFor, WorkerTypeOK, WorkerPc
<1>13. ASSUME NEW w \in Workers, StopTask(w) PROVE Rest'
  BY <1>b, <1>13 DEF StopTask, poolVars, chanVars, shutVars, workerVars,
     taskVars, Fresh, OneErrorPerWorker, EndedForGood, HandsEmpty,
     WaitedFor, WorkerTypeOK, WorkerPc
<1>14. ASSUME NEW d \in Timed, ShutdownByParent(d) PROVE Rest'
  BY <1>b, <1>14 DEF ShutdownByParent, Stoppable, BeginShutdown,
     QueueAtShutdown, ReturnRunBG, poolVars, chanVars, shutVars, workerVars,
     taskVars, Fresh, OneErrorPerWorker, EndedForGood, HandsEmpty,
     WaitedFor, WorkerTypeOK, WorkerPc
<1>15. ASSUME NEW s \in Stoppers, NEW m \in Modes, NEW d \in Timed, Stop(s, m, d) PROVE Rest'
  BY <1>b, <1>15 DEF Stop, Stoppable, BeginShutdown, QueueAtShutdown,
     poolVars, chanVars, shutVars, workerVars, taskVars, Fresh,
     OneErrorPerWorker, EndedForGood, HandsEmpty, WaitedFor, WorkerTypeOK,
     WorkerPc
<1>16. ASSUME NEW t \in Tasks, AddTask(t) PROVE Rest'
  BY <1>b, <1>16 DEF AddTask, poolVars, chanVars, shutVars, workerVars,
     taskVars, Fresh, OneErrorPerWorker, EndedForGood, HandsEmpty,
     WaitedFor, WorkerTypeOK, WorkerPc
<1>17. ASSUME NEW t \in Tasks, SendTask(t) PROVE Rest'
  BY <1>b, <1>17 DEF SendTask, Room, poolVars, chanVars, shutVars,
     workerVars, taskVars, Fresh, OneErrorPerWorker, EndedForGood,
     HandsEmpty, WaitedFor, WorkerTypeOK, WorkerPc
<1>18. ASSUME NEW t \in Tasks, SendOnClosed(t) PROVE Rest'
  BY <1>b, <1>18 DEF SendOnClosed, poolVars, chanVars, shutVars, workerVars,
     taskVars, Fresh, OneErrorPerWorker, EndedForGood, HandsEmpty,
     WaitedFor, WorkerTypeOK, WorkerPc
<1>19. ASSUME NEW w \in Workers, StartWorker(w) PROVE Rest'
  BY <1>b, <1>19 DEF StartWorker, Startable, Goto, poolVars, chanVars,
     shutVars, workerVars, taskVars, Fresh, OneErrorPerWorker, EndedForGood,
     HandsEmpty, WaitedFor, WorkerTypeOK, WorkerPc
<1>20. ASSUME NEW w \in Workers, RejectStart(w) PROVE Rest'
  BY <1>b, <1>20 DEF RejectStart, SendError, Goto, poolVars, chanVars,
     shutVars, workerVars, taskVars, Fresh, OneErrorPerWorker, EndedForGood,
     HandsEmpty, WaitedFor, WorkerTypeOK, WorkerPc
<1>21. ASSUME NEW w \in Workers, MakeStopCh(w) PROVE Rest'
  BY <1>b, <1>21 DEF MakeStopCh, Goto, poolVars, chanVars, shutVars,
     workerVars, taskVars, Fresh, OneErrorPerWorker, EndedForGood,
     HandsEmpty, WaitedFor, WorkerTypeOK, WorkerPc
<1>22. ASSUME NEW w \in Workers, ReceiveStop(w) PROVE Rest'
  BY <1>b, <1>22 DEF ReceiveStop, Goto, poolVars, chanVars, shutVars,
     workerVars, taskVars, Fresh, OneErrorPerWorker, EndedForGood,
     HandsEmpty, WaitedFor, WorkerTypeOK, WorkerPc
<1>23. ASSUME NEW w \in Workers, ContextClosed(w) PROVE Rest'
  BY <1>b, <1>23 DEF ContextClosed, Goto, poolVars, chanVars, shutVars,
     workerVars, taskVars, Fresh, OneErrorPerWorker, EndedForGood,
     HandsEmpty, WaitedFor, WorkerTypeOK, WorkerPc
<1>24. ASSUME NEW w \in Workers, NotStopped(w) PROVE Rest'
  BY <1>b, <1>24 DEF NotStopped, Goto, poolVars, chanVars, shutVars,
     workerVars, taskVars, Fresh, OneErrorPerWorker, EndedForGood,
     HandsEmpty, WaitedFor, WorkerTypeOK, WorkerPc
<1>25. ASSUME NEW w \in Workers, ReceiveTask(w) PROVE Rest'
  BY <1>b, <1>25 DEF ReceiveTask, TakeTask, Goto, poolVars, chanVars,
     shutVars, workerVars, taskVars, Fresh, OneErrorPerWorker, EndedForGood,
     HandsEmpty, WaitedFor, WorkerTypeOK, WorkerPc
<1>26. ASSUME NEW w \in Workers, QueueClosed(w) PROVE Rest'
  BY <1>b, <1>26 DEF QueueClosed, Goto, poolVars, chanVars, shutVars,
     workerVars, taskVars, Fresh, OneErrorPerWorker, EndedForGood,
     HandsEmpty, WaitedFor, WorkerTypeOK, WorkerPc
<1>27. ASSUME NEW w \in Workers, BeginTask(w) PROVE Rest'
  BY <1>b, <1>27 DEF BeginTask, Goto, poolVars, chanVars, shutVars,
     workerVars, taskVars, Fresh, OneErrorPerWorker, EndedForGood,
     HandsEmpty, WaitedFor, WorkerTypeOK, WorkerPc
<1>28. ASSUME NEW w \in Workers, NextTask(w) PROVE Rest'
  BY <1>b, <1>28 DEF NextTask, Goto, poolVars, chanVars, shutVars,
     workerVars, taskVars, Fresh, OneErrorPerWorker, EndedForGood,
     HandsEmpty, WaitedFor, WorkerTypeOK, WorkerPc
<1>29. ASSUME NEW w \in Workers, Panic(w) PROVE Rest'
  BY <1>b, <1>29 DEF Panic, Goto, poolVars, chanVars, shutVars, workerVars,
     taskVars, Fresh, OneErrorPerWorker, EndedForGood, HandsEmpty,
     WaitedFor, WorkerTypeOK, WorkerPc
<1>30. ASSUME NEW w \in Workers, ReportPanic(w) PROVE Rest'
  <2>1. Fresh'
    BY <1>b, <1>30 DEF ReportPanic, SendError, Goto, poolVars, chanVars,
       shutVars, workerVars, taskVars, Fresh, WorkerTypeOK, WorkerPc
  <2>2. OneErrorPerWorker'
    <3>1. errors' = Append(errors, w) /\ errors \in Seq(Workers) /\ calls' = calls
      BY <1>b, <1>30 DEF ReportPanic, SendError, shutVars
    <3>2. pc[w] = "report" /\ pc' = [pc EXCEPT ![w] = "unlock"]
      BY <1>30 DEF ReportPanic, Goto
    <3>3. /\ DOMAIN errors' = DOMAIN errors \cup {Len(errors) + 1}
          /\ \A i \in DOMAIN errors : errors'[i] = errors[i]
          /\ errors'[Len(errors) + 1] = w
          /\ Len(errors) + 1 \notin DOMAIN errors
      BY <3>1
    <3>4. calls[w] = 0 /\ \A i \in DOMAIN errors : errors[i] # w
      BY <1>b, <3>2 DEF OneErrorPerWorker, WorkerTypeOK
    <3>5. \A i, j \in DOMAIN errors' : errors'[i] = errors'[j] => i = j
      BY <1>b, <3>3, <3>4 DEF OneErrorPerWorker
    <3>6. \A i \in DOMAIN errors' :
            calls'[errors'[i]] = 0 /\ pc'[errors'[i]] \in {"out", "unlock"}
      BY <1>b, <3>1, <3>2, <3>3, <3>4 DEF OneErrorPerWorker, WorkerTypeOK
    <3>7. \A v \in Workers : calls'[v] # 0 =>
            calls'[v] = 1 /\ pc'[v] \in {"out", "unlock"}
      BY <1>b, <3>1, <3>2 DEF OneErrorPerWorker, WorkerTypeOK
    <3>. QED
      BY <3>5, <3>6, <3>7 DEF OneErrorPerWorker
  <2>3. EndedForGood'
    BY <1>b, <1>30 DEF ReportPanic, SendError, Goto, poolVars, chanVars,
       shutVars, workerVars, taskVars, OneErrorPerWorker, EndedForGood,
       WorkerTypeOK, WorkerPc
  <2>4. HandsEmpty'
    BY <1>b, <1>30 DEF ReportPanic, SendError, Goto, poolVars, chanVars,
       shutVars, workerVars, taskVars, HandsEmpty, WorkerTypeOK, WorkerPc
  <2>5. WaitedFor'
    BY <1>b, <1>30 DEF ReportPanic, SendError, Goto, poolVars, chanVars,
       shutVars, workerVars, taskVars, WaitedFor, WorkerTypeOK, WorkerPc
  <2>. QED
    BY <2>1, <2>2, <2>3, <2>4, <2>5
<1>31. ASSUME NEW w \in Workers, Unlock(w) PROVE Rest'
  BY <1>b, <1>31 DEF Unlock, Goto, poolVars, chanVars, shutVars, workerVars,
     taskVars, Fresh, OneErrorPerWorker, EndedForGood, HandsEmpty,
     WaitedFor, WorkerTypeOK, WorkerPc
<1>32. ASSUME NEW w \in Workers, ExitWorker(w) PROVE Rest'
  BY <1>b, <1>32 DEF ExitWorker, Goto, poolVars, chanVars, shutVars,
     workerVars, taskVars, Fresh, OneErrorPerWorker, EndedForGood,
     HandsEmpty, WaitedFor, WorkerTypeOK, WorkerPc
<1>33. ASSUME NEW w \in Workers, NEW outcome \in {"DONE_SUCCESS", "TERMINATED"}, EndTask(w, outcome) PROVE Rest'
  BY <1>b, <1>33 DEF EndTask, Goto, poolVars, chanVars, shutVars,
     workerVars, taskVars, Fresh, OneErrorPerWorker, EndedForGood,
     HandsEmpty, WaitedFor, WorkerTypeOK, WorkerPc
<1>34. ASSUME NEW w \in Workers, StopPanics(w) PROVE Rest'
  BY <1>b, <1>34 DEF StopPanics, poolVars, chanVars, shutVars, workerVars,
     taskVars, Fresh, OneErrorPerWorker, EndedForGood, HandsEmpty,
     WaitedFor, ShutTypeOK, WorkerTypeOK, WorkerPc
<1>35. ASSUME RecoverShutdown PROVE Rest'
  BY <1>b, <1>35 DEF RecoverShutdown, EndShutdown, ReturnRunBG, poolVars,
     chanVars, shutVars, workerVars, taskVars, Fresh, OneErrorPerWorker,
     EndedForGood, HandsEmpty, WaitedFor, WorkerTypeOK, WorkerPc
<1>36. ASSUME UNCHANGED vars PROVE Rest'
  <2>1. Fresh'
    BY <1>b, <1>36 DEF vars, poolVars, chanVars, shutVars, workerVars,
       taskVars, Fresh
  <2>2. OneErrorPerWorker'
    BY <1>b, <1>36 DEF vars, poolVars, chanVars, shutVars, workerVars,
       taskVars, OneErrorPerWorker
  <2>3. EndedForGood'
    BY <1>b, <1>36 DEF vars, poolVars, chanVars, shutVars, workerVars,
       taskVars, OneErrorPerWorker, EndedForGood
  <2>4. HandsEmpty'
    BY <1>b, <1>36 DEF vars, poolVars, chanVars, shutVars, workerVars,
       taskVars, HandsEmpty
  <2>5. WaitedFor'
    BY <1>b, <1>36 DEF vars, poolVars, chanVars, shutVars, workerVars,
       taskVars, WaitedFor
  <2>. QED
    BY <2>1, <2>2, <2>3, <2>4, <2>5
<1>. QED
  BY <1>a, <1>1, <1>2, <1>3, <1>4, <1>5, <1>6, <1>7, <1>8, <1>9, <1>10,
     <1>11, <1>12, <1>13, <1>14, <1>15, <1>16, <1>17, <1>18, <1>19, <1>20,
     <1>21, <1>22, <1>23, <1>24, <1>25, <1>26, <1>27, <1>28, <1>29, <1>30,
     <1>31, <1>32, <1>33, <1>34, <1>35, <1>36 DEF Inv, Next, Submit, RunLoop,
     Shutdown, RunWorker

\* The inductive invariant holds in every run of the pool.
LEMMA SpecInv == Spec => []Inv
BY InitInv, NextInv, PTL DEF Spec

\* When the shutdown closes workerErrCh in time (pool.go:456) no error is left to
\* be read or to be sent and no worker runs or will run.
LEMMA InvClosed == Inv => ClosedAfterWorkers
<1>. SUFFICES ASSUME Inv, workerErrCh = "closed", ~overran
     PROVE  /\ errors = << >>
            /\ \A w \in Workers : /\ wstate[w] = "TERMINATED" /\ pc[w] = "out"
                                  /\ calls[w] = 0 /\ hand[w] = NoTask
  BY DEF ClosedAfterWorkers
<1>1. \A w \in Workers : wstate[w] = "TERMINATED"
  BY DEF Inv, WaitedFor
<1>2. \A w \in Workers : pc[w] = "out" /\ calls[w] = 0 /\ hand[w] = NoTask
  BY <1>1 DEF Inv, EndedForGood, HandsEmpty
<1>3. errors = << >>
  <2>1. errors \in Seq(Workers)
    BY DEF Inv, TypeOK, ChanTypeOK
  <2>2. \A i \in DOMAIN errors : errors[i] \in Workers
    BY <2>1
  <2>3. DOMAIN errors = {}
    BY <1>1, <2>2 DEF Inv, EndedForGood
  <2>. QED
    BY <2>1, <2>3
<1>. QED
  BY <1>1, <1>2, <1>3

\* pool.go:329: a worker never has two errors underway, nor an error underway
\* while it runs.
THEOREM OneError == Spec => []OneErrorPerWorker
<1>1. Inv => OneErrorPerWorker
  BY DEF Inv
<1>. QED
  BY SpecInv, <1>1, PTL

\* Were the channel full while w has an error to send, the errors in it would be
\* those of the other workers, of which there are too few.
LEMMA InvRoom == Inv => RoomForErrors
<1>. SUFFICES ASSUME Inv, NEW w \in Workers, calls[w] > 0 \/ pc[w] = "report",
                     Len(errors) >= Cardinality(Workers)
     PROVE  FALSE
  <2>1. Len(errors) \in Nat /\ Cardinality(Workers) \in Nat
    BY WorkersCounted DEF Inv, TypeOK, ChanTypeOK
  <2>. QED
    BY <2>1 DEF RoomForErrors
<1>. DEFINE S == 1..Len(errors)
            T == Workers \ {w}
<1>1. errors \in Seq(Workers) /\ Len(errors) \in Nat
  BY DEF Inv, TypeOK, ChanTypeOK
<1>2. \A i \in S : errors[i] # w
  BY <1>1 DEF Inv, TypeOK, WorkerTypeOK, OneErrorPerWorker
<1>3. errors \in [S -> T]
  BY <1>1, <1>2
<1>4. IsFiniteSet(S) /\ Cardinality(S) = Len(errors)
  BY <1>1, FS_Interval
<1>5. IsFiniteSet(T) /\ Cardinality(T) = Cardinality(Workers) - 1
  BY PoolAssumption, FS_RemoveElement
<1>6. Cardinality(T) < Cardinality(S)
  BY <1>1, <1>4, <1>5, WorkersCounted
<1>7. \E i, j \in S : i # j /\ errors[i] = errors[j]
  <2>. HIDE DEF S, T
  <2>. QED
    BY <1>3, <1>4, <1>5, <1>6, FS_PigeonHole
<1>. QED
  BY <1>1, <1>7 DEF Inv, OneErrorPerWorker

\* pool.go:329: the capacity of workerErrCh is enough, however many workers there
\* are and however often they panic.
THEOREM ErrorsFit == Spec => []RoomForErrors
BY SpecInv, InvRoom, PTL

\* pool.go:454-456: once workerErrCh is closed in time every worker has ended
\* and stays so.
THEOREM WorkersEnded == Spec => []ClosedAfterWorkers
BY SpecInv, InvClosed, PTL

=============================================================================
