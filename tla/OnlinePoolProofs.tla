-------------------------- MODULE OnlinePoolProofs --------------------------
(***************************************************************************)
(* What holds of OnlinePool for every number of workers, tasks, callers of *)
(* Stop and bound on panics: its type invariant, which says that neither   *)
(* RunOnline nor a worker ever waits for room in a channel; workers that   *)
(* are over when the channel of errors closes; and nothing left behind     *)
(* when RunOnline returns no error.                                        *)
(***************************************************************************)
EXTENDS OnlinePool, FiniteSetTheorems, TLAPS

USE DEF elsewhere, runVars, chanVars, shutVars, workerVars

\* Where RunOnline is once it has started its workers.
Late == {"send", "wait", "done", "returned"}

\* The workers whose goroutine has ended.
Over == {w \in Workers : pc[w] = "over"}

\* Each error was sent by a worker that is over, each task in the queue was sent
\* by RunOnline: both fit in their buffers.
Room ==
  /\ errors <= Cardinality(Over)
  /\ Len(queue) + Cardinality(toSend) <= Cardinality(Tasks)

\* mx is held from the first step of a shutdown to the last, and the watcher's
\* shutdown is a HARD one.
MxHeld ==
  /\ mx = "free" <=> shutdown = "off"
  /\ mx = "watcher" => mode = "HARD"
  /\ watcher = "ctx" => parentDone

\* RunOnline makes the channels, then all workers, then sends and closes. It leaves
\* without that only if it fails because a shutdown came first.
Started ==
  /\ \A w \in Workers \ workers : pc[w] = "none"
  /\ run = "idle" => state = "NEW" \/ early
  /\ run \in {"idle", "init"} => workerErrCh = "nil"
  /\ workerErrCh = "nil" => workers = {} /\ run \in {"idle", "init", "returned"}
  /\ run \in {"send", "wait", "done"} => workers = Workers
  /\ run = "returned" /\ (~early \/ ~err) => workers = Workers
  /\ taskQueueCh = "closed" => run \in {"wait", "done", "returned"}
  /\ taskQueueCh = "nil" <=> workerErrCh = "nil"
  /\ run \in {"wait", "done"} \/ (run = "returned" /\ ~err) =>
       toSend = {} /\ taskQueueCh = "closed"

\* A shutdown that is not early finds all workers started.
LateShutdown == ~early /\ (shutdown # "off" \/ workerErrCh = "closed") => run \in Late

\* What the phase of a worker says of the rest of its state.
WorkerPhase ==
  \A w \in Workers :
    /\ wstate[w] = "TERMINATED" => pc[w] = "over"
    /\ hand[w] # NoTask <=> pc[w] \in {"received", "process"}
    /\ pc[w] = "none" => wstopCh[w] = "nil"

\* A shutdown that has seen all workers end closes the channel of errors.
ClosesAfterWorkers ==
  shutdown = "close" /\ ~overran /\ ~early => Over = Workers

\* While the channel of errors is open a worker has got the stop signal only from
\* the shutdown under way.
SignalMeansShutdown ==
  (\E w \in Workers : wstopCh[w] \in {"signalled", "closed"}) =>
    workerErrCh = "closed" \/ shutdown \in {"signal", "poll", "close"}

\* A worker ends for the signal, for a panic or because the queue is closed and
\* empty, which it then stays.
WhyOver ==
  \A w \in Workers : pc[w] \in {"exit", "report", "over"} =>
    \/ wstopCh[w] = "closed"
    \/ panics # 0
    \/ queue = << >> /\ taskQueueCh = "closed"

\* A shutdown that drains the queue finds the channel of errors made.
Draining ==
  \/ shutdown = "drain"
  \/ shutdown \in {"signal", "poll", "close"} /\ mode # "LIGHT"

DrainsWhatIsMade ==
  /\ Draining => workerErrCh # "nil"
  /\ shutdown = "drain" => mode # "LIGHT"

\* No task is lost but to a panic or to a shutdown.
NothingLost ==
  panics = 0 /\ workerErrCh # "closed" /\ ~Draining =>
    \A t \in Tasks :
      \/ t \in toSend
      \/ \E i \in 1..Len(queue) : queue[i] = t
      \/ \E w \in Workers : hand[w] = t
      \/ t \in processed

\* RunOnline past wg.Wait, with no error yet to return.
Settled == run = "done" \/ (run = "returned" /\ ~err)

\* What AllDone has seen lasts.
DoneIsSettled ==
  Settled =>
    /\ Over = Workers
    /\ panics = 0 /\ workerErrCh = "open" => processed = Tasks

\* The state of a shut down pool, which no shutdown and no RunOnline changes.
Down == state \in {"SHUTTING_DOWN", "TERMINATE_TIMEOUT", "SHUTDOWN"}

\* Once RunOnline is past wg.Wait a shutdown leaves a task in the queue only when
\* it is LIGHT; until then the tasks left are an error, unless the watcher has
\* replaced it because of that shutdown.
LeftInQueue ==
  /\ Down <=> (shutdown # "off" \/ state = "SHUTDOWN")
  /\ shutdown = "stopCh" => state = "SHUTDOWN"
  /\ run = "done" => shutdown # "hung"
  /\ run = "done" /\ Down /\ queue # << >> => shutdown = "drain" \/ mode = "LIGHT"
  /\ Settled /\ ~err /\ queue # << >> => Down /\ parentDone /\ mode = "LIGHT"

\* The inductive invariant.
Inv ==
  /\ MxHeld /\ Started /\ LateShutdown /\ WorkerPhase
  /\ ClosesAfterWorkers /\ ErrorsOpenForWorkers
  /\ SignalMeansShutdown /\ WhyOver /\ DrainsWhatIsMade /\ NothingLost
  /\ DoneIsSettled /\ LeftInQueue

\* Inv with the types.
IInv == TypeOK /\ Room /\ Inv

-----------------------------------------------------------------------------
(* The initial states                                                      *)

\* Sets of workers and of tasks are finite and no larger than all of them.
LEMMA Sizes ==
  /\ Cardinality(Workers) \in Nat /\ Cardinality(Tasks) \in Nat
  /\ \A S \in SUBSET Workers :
       IsFiniteSet(S) /\ Cardinality(S) \in 0..Cardinality(Workers)
  /\ \A S \in SUBSET Tasks :
       IsFiniteSet(S) /\ Cardinality(S) \in 0..Cardinality(Tasks)
<1>1. Cardinality(Workers) \in Nat /\ Cardinality(Tasks) \in Nat
  BY OnlineAssumption, FS_CardinalityType
<1>2. ASSUME NEW S \in SUBSET Workers
      PROVE  IsFiniteSet(S) /\ Cardinality(S) \in 0..Cardinality(Workers)
  BY <1>1, OnlineAssumption, FS_Subset, FS_CardinalityType
<1>3. ASSUME NEW S \in SUBSET Tasks
      PROVE  IsFiniteSet(S) /\ Cardinality(S) \in 0..Cardinality(Tasks)
  BY <1>1, OnlineAssumption, FS_Subset, FS_CardinalityType
<1>. QED
  BY <1>1, <1>2, <1>3

\* NewPool has all fields typed, nothing sent and nothing reported.
LEMMA InitInv == Init => IInv
<1>. SUFFICES ASSUME Init PROVE IInv
  OBVIOUS
<1>1. TypeOK
  <2>1. RunTypeOK
    BY DEF Init, RunTypeOK, PoolState
  <2>2. ChanTypeOK
    BY Sizes DEF Init, ChanTypeOK, Chan, StopChan
  <2>3. ShutTypeOK
    BY DEF Init, ShutTypeOK
  <2>4. WorkerTypeOK
    BY OnlineAssumption DEF Init, WorkerTypeOK, WorkerState, StopChan
  <2>. QED
    BY <2>1, <2>2, <2>3, <2>4 DEF TypeOK
<1>2. Room
  <2>1. Over = {}
    BY DEF Init, Over
  <2>. QED
    BY <2>1, Sizes, FS_EmptySet DEF Init, Room
<1>3. Inv
  BY OnlineAssumption
  DEF Init, Inv, MxHeld, Started, LateShutdown, WorkerPhase, ClosesAfterWorkers,
      ErrorsOpenForWorkers, SignalMeansShutdown, WhyOver, DrainsWhatIsMade,
      NothingLost, DoneIsSettled, LeftInQueue, Late, Settled, Draining, Down
<1>. QED
  BY <1>1, <1>2, <1>3 DEF IInv

-----------------------------------------------------------------------------
(* Types                                                                   *)

\* A step sends a task to the queue, takes one from it or leaves it alone.
LEMMA NextQueue ==
  ASSUME [Next]_vars
  PROVE  \/ \E t \in Tasks : SendTask(t)
         \/ queue # << >> /\ queue' = Tail(queue) /\ toSend' = toSend
         \/ UNCHANGED <<queue, toSend>>
BY DEF Next, Runner, Watcher, Shutdown, Worker, vars, RunOnline, CloseParent,
   MapRace, MakeChannels, WatchParent, CloseQueue, AllDone, Incomplete,
   Return, Cancel, SpawnWorker, SendTask, WatcherStops, WatcherSeesParent,
   ShutdownByParent, Stoppable, BeginShutdown, SetErr, DrainTask, Drained,
   PollWorkers, WorkersStopped, Ended, ShutdownTimeout, CloseErrors,
   SignalRunOnline, StopWorker, Stop, StartWorker, Goto, MakeStopCh,
   ReceiveStop, NotStopped, ReceiveTask, QueueClosed, BeginTask, EndTask,
   NextTask, ReportPanic, ExitWorker, Panic

\* A worker that is over stays so: none is started twice.
LEMMA NextOver ==
  ASSUME TypeOK, Started, [Next]_vars
  PROVE  Over \subseteq Over'
<1>. SUFFICES ASSUME NEW v \in Workers, pc[v] = "over" PROVE pc'[v] = "over"
  BY DEF Over
<1>1. ASSUME NEW w \in Workers, SpawnWorker(w) PROVE pc'[v] = "over"
  BY <1>1 DEF SpawnWorker, Started, TypeOK, WorkerTypeOK
<1>2. ASSUME NEW w \in Workers, Worker(w) \/ Panic(w) PROVE pc'[v] = "over"
  BY <1>2 DEF TypeOK, WorkerTypeOK, Worker, StartWorker, MakeStopCh,
   ReceiveStop, NotStopped, ReceiveTask, QueueClosed, BeginTask, EndTask,
   NextTask, ReportPanic, ExitWorker, Panic, Goto
<1>3. ASSUME UNCHANGED pc PROVE pc'[v] = "over"
  BY <1>3
<1>4. \/ UNCHANGED pc
      \/ \E w \in Workers : SpawnWorker(w) \/ Worker(w) \/ Panic(w)
  BY DEF Next, Runner, Watcher, Shutdown, vars, RunOnline, CloseParent,
   MapRace, MakeChannels, WatchParent, CloseQueue, AllDone, Incomplete,
   Return, Cancel, SendTask, WatcherStops, WatcherSeesParent,
   ShutdownByParent, Stoppable, BeginShutdown, SetErr, DrainTask, Drained,
   PollWorkers, WorkersStopped, Ended, ShutdownTimeout, CloseErrors,
   SignalRunOnline, StopWorker, Stop
<1>. QED
  BY <1>1, <1>2, <1>3, <1>4

\* A step takes all errors away, leaves them or adds one, and with that a worker is
\* over.
LEMMA NextErrors ==
  ASSUME TypeOK, [Next]_vars
  PROVE  \/ \E w \in Workers :
              pc[w] = "report" /\ pc'[w] = "over" /\ errors' = errors + 1
         \/ errors' = errors \/ errors' = 0
BY DEF TypeOK, WorkerTypeOK, Next, Runner, Watcher, Shutdown, Worker, vars,
   RunOnline, CloseParent, MapRace, MakeChannels, WatchParent, CloseQueue,
   AllDone, Incomplete, Return, Cancel, SpawnWorker, SendTask, WatcherStops,
   WatcherSeesParent, ShutdownByParent, Stoppable, BeginShutdown, SetErr,
   DrainTask, Drained, PollWorkers, WorkersStopped, Ended, ShutdownTimeout,
   CloseErrors, SignalRunOnline, StopWorker, Stop, StartWorker, Goto,
   MakeStopCh, ReceiveStop, NotStopped, ReceiveTask, QueueClosed, BeginTask,
   EndTask, NextTask, ReportPanic, ExitWorker, Panic

\* A step sends at most one error, of a worker that is over with it, and moves a
\* task from toSend to the queue.
LEMMA NextRoom == TypeOK /\ Room /\ Started /\ [Next]_vars => Room'
<1>. SUFFICES ASSUME TypeOK, Room, Started, [Next]_vars PROVE Room'
  OBVIOUS
<1>. USE DEF TypeOK, RunTypeOK, ChanTypeOK, WorkerTypeOK
<1>1. Len(queue') + Cardinality(toSend') <= Cardinality(Tasks)
  <2>1. ASSUME NEW t \in Tasks, SendTask(t)
        PROVE  Len(queue') + Cardinality(toSend') <= Cardinality(Tasks)
    <3>1. Cardinality(toSend') = Cardinality(toSend) - 1
      BY <2>1, Sizes, FS_RemoveElement DEF SendTask
    <3>2. Len(queue') = Len(queue) + 1
      BY <2>1 DEF SendTask
    <3>. QED
      BY <3>1, <3>2, Sizes DEF Room
  <2>2. ASSUME queue # << >>, queue' = Tail(queue), toSend' = toSend
        PROVE  Len(queue') + Cardinality(toSend') <= Cardinality(Tasks)
    <3>1. Len(queue') = Len(queue) - 1
      BY <2>2
    <3>. QED
      BY <2>2, <3>1, Sizes DEF Room
  <2>3. ASSUME UNCHANGED <<queue, toSend>>
        PROVE  Len(queue') + Cardinality(toSend') <= Cardinality(Tasks)
    BY <2>3 DEF Room
  <2>. QED
    BY <2>1, <2>2, <2>3, NextQueue
<1>2. errors' <= Cardinality(Over')
  <2>1. Over \subseteq Over'
    BY NextOver
  <2>2. Over' \in SUBSET Workers
    BY DEF Over
  <2>3. IsFiniteSet(Over') /\ Cardinality(Over') \in Nat
    BY <2>2, Sizes
  <2>4. Cardinality(Over) \in Nat /\ Cardinality(Over) <= Cardinality(Over')
    BY <2>1, <2>2, <2>3, Sizes, FS_Subset DEF Over
  <2>5. ASSUME NEW w \in Workers, pc[w] = "report", pc'[w] = "over",
               errors' = errors + 1
        PROVE  errors' <= Cardinality(Over')
    <3>1. w \in Over' /\ w \notin Over
      BY <2>5 DEF Over
    <3>2. Over \cup {w} \in SUBSET Over' /\ Over \in SUBSET Workers
      BY <2>1, <3>1 DEF Over
    <3>3. Cardinality(Over \cup {w}) = Cardinality(Over) + 1
      BY <3>1, <3>2, Sizes, FS_AddElement
    <3>4. Cardinality(Over \cup {w}) <= Cardinality(Over')
      BY <2>3, <3>2, FS_Subset
    <3>. QED
      BY <2>3, <2>4, <2>5, <3>3, <3>4, Sizes DEF Room
  <2>6. ASSUME errors' = errors \/ errors' = 0
        PROVE  errors' <= Cardinality(Over')
    BY <2>3, <2>4, <2>6, Sizes DEF Room
  <2>. QED
    BY <2>5, <2>6, NextErrors
<1>. QED
  BY <1>1, <1>2 DEF Room

\* Every step keeps every field's type.
LEMMA NextTypeOK ==
  TypeOK /\ WorkerPhase /\ Room' /\ [Next]_vars => TypeOK'
<1>. SUFFICES ASSUME TypeOK, WorkerPhase, Room', [Next]_vars PROVE TypeOK'
  OBVIOUS
<1>. USE OnlineAssumption
     DEF TypeOK, RunTypeOK, ChanTypeOK, ShutTypeOK, WorkerTypeOK, PoolState,
         WorkerState, Chan, StopChan, WorkerPhase
<1>1. ASSUME RunOnline PROVE TypeOK'
  <2>1. CASE state = "NEW"
    BY <1>1, <2>1 DEF RunOnline
  <2>2. CASE state # "NEW"
    BY <1>1, <2>2 DEF RunOnline
  <2>. QED
    BY <2>1, <2>2
<1>2. ASSUME CloseParent PROVE TypeOK'
  BY <1>2 DEF CloseParent
<1>3. ASSUME MapRace PROVE TypeOK'
  BY <1>3 DEF MapRace
<1>4. ASSUME MakeChannels PROVE TypeOK'
  BY <1>4 DEF MakeChannels
<1>5. ASSUME WatchParent PROVE TypeOK'
  BY <1>5 DEF WatchParent, CloseQueue
<1>6. ASSUME AllDone PROVE TypeOK'
  BY <1>6 DEF AllDone, Incomplete
<1>7. ASSUME Return PROVE TypeOK'
  BY <1>7 DEF Return, Cancel
<1>8. ASSUME NEW w \in Workers, SpawnWorker(w) PROVE TypeOK'
  BY <1>8 DEF SpawnWorker
<1>9. ASSUME NEW t \in Tasks, SendTask(t) PROVE TypeOK'
  <2>1. queue' \in Seq(Tasks) /\ Len(queue') <= Cardinality(Tasks)
    <3>1. queue' \in Seq(Tasks) /\ toSend' \in SUBSET Tasks
      BY <1>9 DEF SendTask
    <3>. QED
      BY <3>1, Sizes DEF Room
  <2>. QED
    BY <1>9, <2>1 DEF SendTask
<1>10. ASSUME WatcherStops PROVE TypeOK'
  BY <1>10 DEF WatcherStops
<1>11. ASSUME WatcherSeesParent PROVE TypeOK'
  BY <1>11 DEF WatcherSeesParent
<1>12. ASSUME NEW d \in Timed, ShutdownByParent(d) PROVE TypeOK'
  <2>1. d \in BOOLEAN
    OBVIOUS
  <2>2. CASE Stoppable
    <3>1. early' \in BOOLEAN /\ timed' \in BOOLEAN /\ failed' \in BOOLEAN
      BY <1>12, <2>1, <2>2, Zenon DEF ShutdownByParent, BeginShutdown
    <3>. QED
      BY <1>12, <2>2, <3>1 DEF ShutdownByParent, BeginShutdown
  <2>3. CASE ~Stoppable
    <3>1. err' \in BOOLEAN
      BY <1>12, <2>3, Zenon DEF ShutdownByParent, SetErr
    <3>. QED
      BY <1>12, <2>3, <3>1 DEF ShutdownByParent
  <2>. QED
    BY <2>2, <2>3
<1>13. ASSUME DrainTask PROVE TypeOK'
  <2>1. queue' \in Seq(Tasks) /\ Len(queue') <= Cardinality(Tasks)
    BY <1>13, Sizes DEF DrainTask
  <2>. QED
    BY <1>13, <2>1 DEF DrainTask
<1>14. ASSUME Drained PROVE TypeOK'
  BY <1>14 DEF Drained
<1>15. ASSUME PollWorkers PROVE TypeOK'
  BY <1>15 DEF PollWorkers
<1>16. ASSUME WorkersStopped PROVE TypeOK'
  BY <1>16 DEF WorkersStopped, Ended
<1>17. ASSUME ShutdownTimeout PROVE TypeOK'
  BY <1>17 DEF ShutdownTimeout
<1>18. ASSUME CloseErrors PROVE TypeOK'
  <2>1. /\ failed' \in BOOLEAN
        /\ err' \in BOOLEAN
        /\ errors' \in 0..Cardinality(Workers)
    <3>1. CASE workerErrCh = "open"
      <4>1. failed' \in BOOLEAN /\ errors' = 0
        BY <1>18, <3>1, Zenon DEF CloseErrors
      <4>2. err' \in BOOLEAN
        BY <1>18, <4>1, Zenon DEF CloseErrors, SetErr
      <4>. QED
        BY <4>1, <4>2, Sizes
    <3>2. CASE workerErrCh # "open"
      BY <1>18, <3>2 DEF CloseErrors, SetErr
    <3>. QED
      BY <3>1, <3>2
  <2>. QED
    BY <1>18, <2>1 DEF CloseErrors
<1>19. ASSUME SignalRunOnline PROVE TypeOK'
  <2>1. stopper' \in [Stoppers -> {"idle", "stopping", "ok", "err", "panicked"}]
    BY <1>19 DEF SignalRunOnline
  <2>. QED
    BY <1>19, <2>1 DEF SignalRunOnline
<1>20. ASSUME NEW w \in Workers, StopWorker(w) PROVE TypeOK'
  BY <1>20 DEF StopWorker
<1>21. ASSUME NEW s \in Stoppers, NEW m \in Modes, NEW d \in Timed,
              Stop(s, m, d)
       PROVE  TypeOK'
  <2>1. d \in BOOLEAN
    OBVIOUS
  <2>2. CASE Stoppable
    <3>1. early' \in BOOLEAN /\ timed' \in BOOLEAN /\ failed' \in BOOLEAN
      BY <1>21, <2>1, <2>2, Zenon DEF Stop, BeginShutdown
    <3>. QED
      BY <1>21, <2>2, <3>1 DEF Stop, BeginShutdown
  <2>3. CASE ~Stoppable
    BY <1>21, <2>3 DEF Stop
  <2>. QED
    BY <2>2, <2>3
<1>22. ASSUME NEW w \in Workers, StartWorker(w) PROVE TypeOK'
  BY <1>22 DEF StartWorker, Goto
<1>23. ASSUME NEW w \in Workers, MakeStopCh(w) PROVE TypeOK'
  BY <1>23 DEF MakeStopCh, Goto
<1>24. ASSUME NEW w \in Workers, ReceiveStop(w) PROVE TypeOK'
  BY <1>24 DEF ReceiveStop, Goto
<1>25. ASSUME NEW w \in Workers, NotStopped(w) PROVE TypeOK'
  BY <1>25 DEF NotStopped, Goto
<1>26. ASSUME NEW w \in Workers, ReceiveTask(w) PROVE TypeOK'
  <2>1. queue' \in Seq(Tasks) /\ Len(queue') <= Cardinality(Tasks)
    BY <1>26, Sizes DEF ReceiveTask
  <2>2. Head(queue) \in Tasks
    BY <1>26 DEF ReceiveTask
  <2>. QED
    BY <1>26, <2>1, <2>2 DEF ReceiveTask, Goto
<1>27. ASSUME NEW w \in Workers, QueueClosed(w) PROVE TypeOK'
  BY <1>27 DEF QueueClosed, Goto
<1>28. ASSUME NEW w \in Workers, BeginTask(w) PROVE TypeOK'
  BY <1>28 DEF BeginTask, Goto
<1>29. ASSUME NEW w \in Workers, EndTask(w) PROVE TypeOK'
  BY <1>29 DEF EndTask, Goto
<1>30. ASSUME NEW w \in Workers, NextTask(w) PROVE TypeOK'
  BY <1>30 DEF NextTask, Goto
<1>31. ASSUME NEW w \in Workers, ReportPanic(w) PROVE TypeOK'
  <2>1. errors' \in 0..Cardinality(Workers)
    <3>1. errors' \in Nat
      BY <1>31, Sizes DEF ReportPanic
    <3>2. Over' \in SUBSET Workers
      BY DEF Over
    <3>. QED
      BY <3>1, <3>2, Sizes DEF Room
  <2>2. crashed' \in BOOLEAN
    BY <1>31, Zenon DEF ReportPanic
  <2>. QED
    BY <1>31, <2>1, <2>2 DEF ReportPanic, Goto
<1>32. ASSUME NEW w \in Workers, ExitWorker(w) PROVE TypeOK'
  BY <1>32 DEF ExitWorker, Goto
<1>33. ASSUME NEW w \in Workers, Panic(w) PROVE TypeOK'
  BY <1>33 DEF Panic, Goto
<1>34. CASE UNCHANGED vars
  BY <1>34 DEF vars
<1>. QED
  BY <1>1, <1>2, <1>3, <1>4, <1>5, <1>6, <1>7, <1>8, <1>9, <1>10, <1>11,
     <1>12, <1>13, <1>14, <1>15, <1>16, <1>17, <1>18, <1>19, <1>20, <1>21,
     <1>22, <1>23, <1>24, <1>25, <1>26, <1>27, <1>28, <1>29, <1>30, <1>31,
     <1>32, <1>33, <1>34
  DEF Next, Runner, Watcher, Shutdown, Worker

-----------------------------------------------------------------------------
(* The invariant                                                           *)

\* Every step keeps Inv: most parts are kept by each step for themselves.
LEMMA NextInv == TypeOK /\ Inv /\ [Next]_vars => Inv'
<1>. SUFFICES ASSUME TypeOK, Inv, [Next]_vars PROVE Inv'
  OBVIOUS
<1>. USE OnlineAssumption
     DEF TypeOK, RunTypeOK, ChanTypeOK, ShutTypeOK, WorkerTypeOK, Inv, MxHeld,
         Started, LateShutdown, WorkerPhase, ClosesAfterWorkers,
         ErrorsOpenForWorkers, SignalMeansShutdown, WhyOver, DrainsWhatIsMade,
         NothingLost, DoneIsSettled, LeftInQueue, Late, Over, Settled, Draining,
         Down
<1>1. ASSUME RunOnline PROVE Inv'
  BY <1>1 DEF RunOnline
<1>2. ASSUME CloseParent PROVE Inv'
  BY <1>2 DEF CloseParent
<1>3. ASSUME MapRace PROVE Inv'
  BY <1>3 DEF MapRace
<1>4. ASSUME MakeChannels PROVE Inv'
  BY <1>4 DEF MakeChannels
<1>5. ASSUME WatchParent PROVE Inv'
  BY <1>5 DEF WatchParent, CloseQueue
<1>6. ASSUME AllDone PROVE Inv'
  <2>1. DoneIsSettled'
    <3>1. Over' = Workers
      BY <1>6 DEF AllDone
    <3>2. ASSUME panics' = 0, workerErrCh' = "open" PROVE processed' = Tasks
      <4>1. panics = 0 /\ workerErrCh = "open" /\ shutdown = "off" /\ toSend = {}
        BY <1>6, <3>2 DEF AllDone
      <4>2. \A w \in Workers : wstopCh[w] # "closed" /\ hand[w] = NoTask
        BY <1>6, <4>1 DEF AllDone
      <4>3. queue = << >>
        BY <1>6, <4>1, <4>2 DEF AllDone
      <4>4. \A t \in Tasks : t \in processed
        BY <4>1, <4>2, <4>3
      <4>. QED
        BY <1>6, <4>4 DEF AllDone
    <3>. QED
      BY <3>1, <3>2
  <2>. QED
    BY <1>6, <2>1 DEF AllDone, Incomplete
<1>7. ASSUME Return PROVE Inv'
  BY <1>7 DEF Return, Cancel
<1>8. ASSUME NEW w \in Workers, SpawnWorker(w) PROVE Inv'
  BY <1>8 DEF SpawnWorker
<1>9. ASSUME NEW t \in Tasks, SendTask(t) PROVE Inv'
  BY <1>9 DEF SendTask
<1>10. ASSUME WatcherStops PROVE Inv'
  BY <1>10 DEF WatcherStops
<1>11. ASSUME WatcherSeesParent PROVE Inv'
  BY <1>11 DEF WatcherSeesParent
<1>12. ASSUME NEW d \in Timed, ShutdownByParent(d) PROVE Inv'
  <2>1. CASE Stoppable
    BY <1>12, <2>1 DEF ShutdownByParent, BeginShutdown, Stoppable
  <2>2. CASE ~Stoppable
    BY <1>12, <2>2 DEF ShutdownByParent, Stoppable, SetErr
  <2>. QED
    BY <2>1, <2>2
<1>13. ASSUME DrainTask PROVE Inv'
  BY <1>13 DEF DrainTask
<1>14. ASSUME Drained PROVE Inv'
  BY <1>14 DEF Drained
<1>15. ASSUME PollWorkers PROVE Inv'
  BY <1>15 DEF PollWorkers
<1>16. ASSUME WorkersStopped PROVE Inv'
  BY <1>16 DEF WorkersStopped, Ended
<1>17. ASSUME ShutdownTimeout PROVE Inv'
  BY <1>17 DEF ShutdownTimeout
<1>18. ASSUME CloseErrors PROVE Inv'
  <2>1. SignalMeansShutdown'
    <3>1. CASE workerErrCh = "open"
      BY <1>18, <3>1 DEF CloseErrors
    <3>2. CASE workerErrCh = "closed"
      BY <1>18, <3>2 DEF CloseErrors
    <3>3. CASE workerErrCh = "nil"
      <4>1. \A w \in Workers : wstopCh[w] = "nil"
        BY <3>3
      <4>. QED
        BY <1>18, <3>3, <4>1 DEF CloseErrors
    <3>. QED
      BY <3>1, <3>2, <3>3 DEF Chan
  <2>2. NothingLost'
    <3>1. CASE workerErrCh = "open"
      BY <1>18, <3>1 DEF CloseErrors
    <3>2. CASE workerErrCh = "closed"
      BY <1>18, <3>2 DEF CloseErrors
    <3>3. CASE workerErrCh = "nil"
      <4>1. ~Draining
        BY <3>3
      <4>. QED
        BY <1>18, <3>3, <4>1 DEF CloseErrors
    <3>. QED
      BY <3>1, <3>2, <3>3 DEF Chan
  <2>. QED
    BY <1>18, <2>1, <2>2 DEF CloseErrors, SetErr
<1>19. ASSUME SignalRunOnline PROVE Inv'
  BY <1>19 DEF SignalRunOnline
<1>20. ASSUME NEW w \in Workers, StopWorker(w) PROVE Inv'
  BY <1>20 DEF StopWorker
<1>21. ASSUME NEW s \in Stoppers, NEW m \in Modes, NEW d \in Timed,
              Stop(s, m, d)
       PROVE  Inv'
  <2>1. s # "free" /\ s # "watcher" /\ d \in BOOLEAN
    OBVIOUS
  <2>2. CASE Stoppable
    <3>1. MxHeld' /\ Started'
      BY <1>21, <2>1, <2>2 DEF Stop, BeginShutdown, Stoppable
    <3>2. LateShutdown' /\ LeftInQueue'
      BY <1>21, <2>1, <2>2 DEF Stop, BeginShutdown, Stoppable
    <3>3. WorkerPhase' /\ ClosesAfterWorkers' /\ ErrorsOpenForWorkers'
      BY <1>21, <2>1, <2>2 DEF Stop, BeginShutdown, Stoppable
    <3>4. SignalMeansShutdown' /\ WhyOver'
      BY <1>21, <2>1, <2>2 DEF Stop, BeginShutdown, Stoppable
    <3>5. DrainsWhatIsMade' /\ NothingLost' /\ DoneIsSettled'
      BY <1>21, <2>1, <2>2 DEF Stop, BeginShutdown, Stoppable
    <3>. QED
      BY <3>1, <3>2, <3>3, <3>4, <3>5
  <2>3. CASE ~Stoppable
    BY <1>21, <2>3 DEF Stop, Stoppable
  <2>. QED
    BY <2>2, <2>3
<1>22. ASSUME NEW w \in Workers, StartWorker(w) PROVE Inv'
  BY <1>22 DEF StartWorker, Goto
<1>23. ASSUME NEW w \in Workers, MakeStopCh(w) PROVE Inv'
  BY <1>23 DEF MakeStopCh, Goto
<1>24. ASSUME NEW w \in Workers, ReceiveStop(w) PROVE Inv'
  BY <1>24 DEF ReceiveStop, Goto
<1>25. ASSUME NEW w \in Workers, NotStopped(w) PROVE Inv'
  BY <1>25 DEF NotStopped, Goto
<1>26. ASSUME NEW w \in Workers, ReceiveTask(w) PROVE Inv'
  <2>1. NothingLost'
    <3>. SUFFICES ASSUME panics' = 0, workerErrCh' # "closed", ~Draining',
                         NEW t \in Tasks
         PROVE  \/ t \in toSend'
                \/ \E i \in 1..Len(queue') : queue'[i] = t
                \/ \E v \in Workers : hand'[v] = t
                \/ t \in processed'
      BY DEF NothingLost
    <3>1. /\ Len(queue') = Len(queue) - 1 /\ Len(queue) \in Nat
          /\ \A i \in 1..Len(queue') : queue'[i] = queue[i + 1]
          /\ hand'[w] = queue[1]
      BY <1>26 DEF ReceiveTask
    <3>2. CASE \E i \in 1..Len(queue) : queue[i] = t
      <4>1. PICK i \in 1..Len(queue) : queue[i] = t
        BY <3>2
      <4>2. CASE i = 1
        BY <3>1, <4>1, <4>2
      <4>3. CASE i # 1
        <5>1. i - 1 \in 1..Len(queue') /\ queue'[i - 1] = t
          BY <3>1, <4>1, <4>3
        <5>. QED
          BY <5>1
      <4>. QED
        BY <4>2, <4>3
    <3>3. CASE \E v \in Workers : hand[v] = t
      <4>1. PICK v \in Workers : hand[v] = t
        BY <3>3
      <4>2. v # w
        BY <1>26, <4>1 DEF ReceiveTask
      <4>3. hand'[v] = t
        BY <1>26, <4>1, <4>2 DEF ReceiveTask
      <4>. QED
        BY <4>3
    <3>. QED
      BY <1>26, <3>2, <3>3 DEF ReceiveTask
  <2>. QED
    BY <1>26, <2>1 DEF ReceiveTask, Goto
<1>27. ASSUME NEW w \in Workers, QueueClosed(w) PROVE Inv'
  BY <1>27 DEF QueueClosed, Goto
<1>28. ASSUME NEW w \in Workers, BeginTask(w) PROVE Inv'
  BY <1>28 DEF BeginTask, Goto
<1>29. ASSUME NEW w \in Workers, EndTask(w) PROVE Inv'
  BY <1>29 DEF EndTask, Goto
<1>30. ASSUME NEW w \in Workers, NextTask(w) PROVE Inv'
  BY <1>30 DEF NextTask, Goto
<1>31. ASSUME NEW w \in Workers, ReportPanic(w) PROVE Inv'
  BY <1>31 DEF ReportPanic, Goto
<1>32. ASSUME NEW w \in Workers, ExitWorker(w) PROVE Inv'
  BY <1>32 DEF ExitWorker, Goto
<1>33. ASSUME NEW w \in Workers, Panic(w) PROVE Inv'
  BY <1>33 DEF Panic, Goto
<1>34. CASE UNCHANGED vars
  BY <1>34 DEF vars
<1>. QED
  BY <1>1, <1>2, <1>3, <1>4, <1>5, <1>6, <1>7, <1>8, <1>9, <1>10, <1>11,
     <1>12, <1>13, <1>14, <1>15, <1>16, <1>17, <1>18, <1>19, <1>20, <1>21,
     <1>22, <1>23, <1>24, <1>25, <1>26, <1>27, <1>28, <1>29, <1>30, <1>31,
     <1>32, <1>33, <1>34
  DEF Next, Runner, Watcher, Shutdown, Worker

\* The invariant holds of every behaviour of the pool.
LEMMA SpecInv == Spec => []IInv
<1>1. IInv /\ [Next]_vars => IInv'
  BY NextRoom, NextTypeOK, NextInv DEF IInv, Inv
<1>. QED
  BY InitInv, <1>1, PTL DEF Spec

-----------------------------------------------------------------------------
(* Theorems                                                                *)

\* pool.go:233-234: every field keeps its type, and the buffers made for one error
\* of each worker and for all tasks are never full when one is sent.
THEOREM OnlineTypes == Spec => []TypeOK
<1>1. IInv => TypeOK
  BY DEF IInv
<1>. QED
  BY SpecInv, <1>1, PTL

\* pool.go:454: the channel of errors is closed under no worker that could still
\* send on it, but after a shutdown that timed out or came too early.
THEOREM OnlineErrors == Spec => []ErrorsOpenForWorkers
<1>1. IInv => ErrorsOpenForWorkers
  BY DEF IInv, Inv
<1>. QED
  BY SpecInv, <1>1, PTL

\* Without an error to return, RunOnline has nothing left behind it.
LEMMA InvSettled == IInv => NilMeansSettled
<1>. SUFFICES ASSUME IInv, run = "returned", ~err
     PROVE  /\ \A w \in Workers : pc[w] = "over" /\ hand[w] = NoTask
            /\ toSend = {}
            /\ queue = << >> \/ (parentDone /\ mode = "LIGHT")
            /\ panics = 0 /\ workerErrCh = "open" => processed = Tasks
  BY DEF NilMeansSettled
<1>1. \A w \in Workers : pc[w] = "over"
  BY DEF IInv, Inv, DoneIsSettled, Settled, Over
<1>2. \A w \in Workers : hand[w] = NoTask
  BY <1>1 DEF IInv, Inv, WorkerPhase
<1>3. toSend = {}
  BY DEF IInv, Inv, Started
<1>4. queue = << >> \/ (parentDone /\ mode = "LIGHT")
  BY DEF IInv, Inv, LeftInQueue, Settled
<1>5. panics = 0 /\ workerErrCh = "open" => processed = Tasks
  BY DEF IInv, Inv, DoneIsSettled, Settled
<1>. QED
  BY <1>1, <1>2, <1>3, <1>4, <1>5

\* pool.go:284-302: RunOnline returns no error only with its workers over, their
\* hands and the queue empty, and every task processed unless a worker panicked
\* or a shutdown has closed the channel of errors.
THEOREM OnlineSettled == Spec => []NilMeansSettled
BY SpecInv, InvSettled, PTL

=============================================================================
