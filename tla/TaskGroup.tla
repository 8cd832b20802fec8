------------------------------ MODULE TaskGroup ------------------------------
(***************************************************************************)
(* Groups of tasks run through the worker pool service                     *)
(* (pkg/common/workerpoolservice): RunTasksGroupWG waits on a WaitGroup    *)
(* that the tasks count down, RunTasksGroupCh on one that a collecting     *)
(* goroutine counts down for the messages of the tasks, a timeout or the   *)
(* service's context.                                                      *)
(*                                                                         *)
(* The pool under the groups is PoolPromise, which WorkerPool implements:  *)
(* a step of a group or of a worker is a step of PoolPromise together with *)
(* what the service does at that point.                                    *)
(***************************************************************************)
EXTENDS Integers, FiniteSets

CONSTANTS
  Groups,        \* the calls of RunTasksGroupWG and RunTasksGroupCh
  WithChannel,   \* those of RunTasksGroupCh
  Tasks,
  GroupOf,       \* the group of each task; nil tasks are left out
  QueueSize,     \* cfg.WPCfg.TaskQueueSize
  TotalTimeout,  \* is cfg.TotalTimeout > 0
  MaxFails       \* bound on the tasks that a worker's panic loses

ASSUME GroupAssumption ==
  /\ WithChannel \subseteq Groups
  /\ IsFiniteSet(Tasks)
  /\ GroupOf \in [Tasks -> Groups]
  /\ QueueSize \in Nat \ {0}
  /\ TotalTimeout \in BOOLEAN
  /\ MaxFails \in Nat

VARIABLES
  task, phase, late,  \* the pool (PoolPromise)
  fails,      \* tasks lost by a worker's panic
  ctxClosed,  \* Service.ctx is closed
  group,      \* where the goroutine in RunTasksGroup... is, or what it returned
  wg,         \* the counter of the group's WaitGroup
  err,        \* the result err of RunTasksGroupCh is not nil
  doneCh,     \* is doneCh closed
  messages,   \* messages buffered in it
  doneCnt,    \* messages collected or made up for
  timer,      \* the timer of the collecting goroutine
  collector   \* where the collecting goroutine is

poolVars == <<task, phase, late>>
collectorVars == <<err, doneCnt, timer, collector>>
vars == <<poolVars, fails, ctxClosed, group, wg, doneCh, messages, collectorVars>>

Pool == INSTANCE PoolPromise

Of(g) == {t \in Tasks : GroupOf[t] = g}
Now(g, s) == Of(g) \cap Pool!In(s)

\* doneCh holds one message of each task, and at most one more is counted.
TypeOK ==
  /\ task \in [Tasks -> {"new", "offered", "rejected", "queued", "held",
                         "finished", "lost"}]
  /\ phase \in {"new", "open", "closing", "closed"}
  /\ late \in BOOLEAN /\ ctxClosed \in BOOLEAN
  /\ fails \in 0..MaxFails
  /\ group \in [Groups -> {"idle", "adding", "waiting", "ok", "err"}]
  /\ wg \in [Groups -> Int]
  /\ err \in [Groups -> BOOLEAN]
  /\ doneCh \in [Groups -> {"open", "closed"}]
  /\ messages \in [Groups -> Nat]
  /\ doneCnt \in [Groups -> Nat]
  /\ \A g \in Groups : /\ messages[g] <= Cardinality(Of(g))
                        /\ doneCnt[g] <= Cardinality(Of(g)) + 1
  /\ timer \in [Groups -> {"armed", "fired"}]
  /\ collector \in [Groups -> {"none", "loop", "end"}]

Init ==
  /\ Pool!Init
  /\ fails = 0 /\ ctxClosed = FALSE
  /\ group = [g \in Groups |-> "idle"]
  /\ wg = [g \in Groups |-> 0]
  /\ err = [g \in Groups |-> FALSE]
  /\ doneCh = [g \in Groups |-> "open"]
  /\ messages = [g \in Groups |-> 0]
  /\ doneCnt = [g \in Groups |-> 0]
  /\ timer = [g \in Groups |-> "armed"]
  /\ collector = [g \in Groups |-> "none"]

-----------------------------------------------------------------------------
(* The goroutine that runs the group                                       *)

GotoG(g, to) == group' = [group EXCEPT ![g] = to]

\* The deferred close(doneCh).
Return(g, failed) ==
  /\ GotoG(g, IF failed THEN "err" ELSE "ok")
  /\ doneCh' = IF g \in WithChannel THEN [doneCh EXCEPT ![g] = "closed"] ELSE doneCh

StartGroup(g) ==
  /\ group[g] = "idle"
  /\ GotoG(g, "adding")
  /\ UNCHANGED <<poolVars, collectorVars, fails, ctxClosed, wg, doneCh, messages>>

\* The goroutine is between two tasks.
Between(g) == group[g] = "adding" /\ Now(g, "offered") = {}

\* The total timeout is looked at before each task.
AddingTimesOut(g) ==
  /\ Between(g) /\ TotalTimeout /\ Now(g, "new") # {}
  /\ Return(g, TRUE)
  /\ UNCHANGED <<poolVars, collectorVars, fails, ctxClosed, wg, messages>>

MutCount(g) == wg
Count(g) == [wg EXCEPT ![g] = @ + 1]

\* Both kinds of groups count the task before it is sent to the queue.
AddTask(t) ==
  LET g == GroupOf[t] IN
  /\ Between(g)
  /\ \/ /\ Pool!Offer(t)
        /\ wg' = Count(g)
        /\ UNCHANGED <<group, doneCh>>
     \/ Pool!Refuse(t) /\ Return(g, TRUE) /\ UNCHANGED wg
  /\ UNCHANGED <<collectorVars, fails, ctxClosed, messages>>

SendTask(t) ==
  /\ Pool!Accept(t)
  /\ UNCHANGED <<collectorVars, fails, ctxClosed, group, wg, doneCh, messages>>

\* The queue was closed under the send: AddTask returns the recovered panic.
SendPanics(t) ==
  /\ Pool!Reject(t)
  /\ Return(GroupOf[t], TRUE)
  /\ UNCHANGED <<collectorVars, fails, ctxClosed, wg, messages>>

\* All tasks are added: wg.Wait, and for a channel the collector beside it.
Wait(g) ==
  /\ Between(g) /\ Now(g, "new") = {}
  /\ GotoG(g, "waiting")
  /\ collector' = IF g \in WithChannel
                    THEN [collector EXCEPT ![g] = "loop"] ELSE collector
  /\ UNCHANGED <<poolVars, fails, ctxClosed, wg, err, doneCh, messages, doneCnt,
                 timer>>

WaitReturns(g) ==
  /\ group[g] = "waiting" /\ wg[g] = 0
  /\ Return(g, err[g])
  /\ UNCHANGED <<poolVars, collectorVars, fails, ctxClosed, wg, messages>>

-----------------------------------------------------------------------------
(* The collecting goroutine of RunTasksGroupCh                             *)

\* wgCnt: when the collector runs all tasks of the group were sent.
WgCnt(g) == Cardinality(Of(g))

MutSpare(g) == TRUE
Spare(g) == doneCnt[g] < WgCnt(g)

\* One message: count it, or find that there is one too many and end.
Collect(g) ==
  /\ collector[g] = "loop" /\ messages[g] > 0
  /\ messages' = [messages EXCEPT ![g] = @ - 1]
  /\ doneCnt' = [doneCnt EXCEPT ![g] = @ + 1]
  /\ IF Spare(g)
       THEN wg' = [wg EXCEPT ![g] = @ - 1] /\ UNCHANGED <<err, collector>>
       ELSE /\ err' = [err EXCEPT ![g] = TRUE]
            /\ collector' = [collector EXCEPT ![g] = "end"]
            /\ UNCHANGED wg
  /\ UNCHANGED <<poolVars, fails, ctxClosed, group, doneCh, timer>>

MutDoneClosed(g) == group[g] = "ok"
DoneClosed(g) == doneCh[g] = "closed"

EndCollector(g) ==
  /\ collector[g] = "loop" /\ messages[g] = 0 /\ DoneClosed(g)
  /\ collector' = [collector EXCEPT ![g] = "end"]
  /\ UNCHANGED <<poolVars, fails, ctxClosed, group, wg, err, doneCh, messages,
                 doneCnt, timer>>

\* Make up for all the messages that are missing and go on.
Release(g) ==
  /\ collector[g] = "loop"
  /\ err' = [err EXCEPT ![g] = TRUE]
  /\ wg' = [wg EXCEPT ![g] = @ - (WgCnt(g) - doneCnt[g])]
  /\ doneCnt' = [doneCnt EXCEPT ![g] = WgCnt(g)]
  /\ UNCHANGED <<poolVars, fails, ctxClosed, group, doneCh, messages, collector>>

ReleaseOnContext(g) == ctxClosed /\ Release(g) /\ UNCHANGED timer

MutTimerFires(g) ==
  /\ timer[g] = "armed" /\ timer' = [timer EXCEPT ![g] = "fired"]
  /\ collector[g] = "loop" /\ err' = [err EXCEPT ![g] = TRUE]
  /\ UNCHANGED <<poolVars, fails, ctxClosed, group, wg, doneCh, messages, doneCnt,
                 collector>>

TimerFires(g) ==
  timer[g] = "armed" /\ Release(g) /\ timer' = [timer EXCEPT ![g] = "fired"]

-----------------------------------------------------------------------------
(* The pool, its workers and the service                                   *)

\* Task.process notifies the group: wg.Done, or a message in doneCh, which has
\* room for one of each task; if it is closed the panic is recovered there.
Notify(g) ==
  \/ /\ g \notin WithChannel
     /\ wg' = [wg EXCEPT ![g] = @ - 1]
     /\ UNCHANGED messages
  \/ /\ g \in WithChannel
     /\ messages' = IF doneCh[g] = "open"
                      THEN [messages EXCEPT ![g] = @ + 1] ELSE messages
     /\ UNCHANGED wg

FinishTask(t) ==
  /\ Pool!Finish(t)
  /\ Notify(GroupOf[t])
  /\ UNCHANGED <<collectorVars, fails, ctxClosed, group, doneCh>>

\* A worker panics with a task in its hands: nobody is notified.
FailTask(t) ==
  /\ fails < MaxFails /\ Pool!Fail(t)
  /\ fails' = fails + 1
  /\ UNCHANGED <<collectorVars, ctxClosed, group, wg, doneCh, messages>>

\* A shutdown drains the queue; Task.Stop does nothing to a READY task.
DropTask(t) ==
  /\ Pool!Drop(t)
  /\ UNCHANGED <<collectorVars, fails, ctxClosed, group, wg, doneCh, messages>>

TakeTask(t) ==
  /\ Pool!Take(t)
  /\ UNCHANGED <<collectorVars, fails, ctxClosed, group, wg, doneCh, messages>>

\* Service.Run opens the pool, Service.Shutdown closes it, as does RunBG when
\* the parent context closes.
OpenOrClose ==
  /\ Pool!Open \/ Pool!Close \/ Pool!GiveUp \/ Pool!Closed
  /\ UNCHANGED <<collectorVars, fails, ctxClosed, group, wg, doneCh, messages>>

\* The deferred cancel of Service.Shutdown, or the parent context.
CloseContext ==
  /\ ctxClosed' = TRUE
  /\ UNCHANGED <<poolVars, collectorVars, fails, group, wg, doneCh, messages>>

-----------------------------------------------------------------------------

RunGroup(g) ==
  \/ AddingTimesOut(g) \/ Wait(g) \/ WaitReturns(g)
  \/ \E t \in Of(g) : AddTask(t) \/ SendTask(t) \/ SendPanics(t)

RunCollector(g) == Collect(g) \/ EndCollector(g)

Serve(t) == TakeTask(t) \/ FinishTask(t)

Next ==
  \/ OpenOrClose \/ CloseContext
  \/ \E g \in Groups :
       \/ StartGroup(g) \/ RunGroup(g) \/ RunCollector(g)
       \/ ReleaseOnContext(g) \/ TimerFires(g)
  \/ \E t \in Tasks : Serve(t) \/ FailTask(t) \/ DropTask(t)

Spec == Init /\ [][Next]_vars

\* A group and its collector go on (a select takes a case that stays ready some
\* time), the timer of a total timeout fires, and the pool serves what is queued
\* (QueueServed of WorkerPool). Nothing makes the pool or the context close.
Fairness ==
  /\ \A g \in Groups :
       /\ WF_vars(RunGroup(g)) /\ WF_vars(RunCollector(g))
       /\ TotalTimeout => WF_vars(TimerFires(g))
  /\ \A t \in Tasks : WF_vars(Serve(t))

FairSpec == Spec /\ Fairness

-----------------------------------------------------------------------------
(* Properties                                                              *)

\* handler_wp.go:91-106: a group that returns no error had all of its tasks
\* processed and notified, so that their answers can be read.
OkMeansDone ==
  \A g \in Groups : group[g] = "ok" => Now(g, "finished") = Of(g)

\* workerpool_service.go:199-205: a WaitGroup is never counted below zero (a
\* panic outside of any recover in the collecting goroutine), however messages,
\* the timeout and the close of the context meet.
NeverNegative == \A g \in Groups : wg[g] >= 0

\* workerpool_service.go:183-241: a group with a channel and a total timeout
\* returns, whatever becomes of its tasks; a WaitGroup's does unless a task of
\* it is lost or stays in the queue of a closed pool.
GroupReturns ==
  \A g \in Groups :
    group[g] \in {"adding", "waiting"} ~>
      \/ group[g] \in {"ok", "err"}
      \/ g \notin WithChannel /\ Now(g, "lost") # {}
      \/ g \notin WithChannel /\ phase = "closed" /\ Now(g, "queued") # {}

\* workerpool_service.go:193-240: no collecting goroutine is left behind.
CollectorEnds == \A g \in Groups : collector[g] = "loop" ~> collector[g] = "end"

-----------------------------------------------------------------------------
\* What the repository says of groups and a run refutes.

\* README.md:62 of the package: in a soft shutdown the tasks left in the queue
\* are stopped with an error and their consumers are refused: every group returns.
ConsumersAnswered ==
  \A g \in Groups :
    group[g] \in {"adding", "waiting"} ~> group[g] \in {"ok", "err"}
=============================================================================
