-------------------------------- MODULE Task --------------------------------
(***************************************************************************)
(* The life of the task objects of pkg/common/workerpool (task.go and      *)
(* taskpool.go): NewTask takes one from the global cache, a worker runs    *)
(* Task.process on it, for a long task with a handler goroutine of its own *)
(* against a timer and a stop signal, the submitter waits for it, reads    *)
(* the answer and puts the object back, and a HARD shutdown calls          *)
(* Task.Stop through a pointer it read from a worker.                      *)
(*                                                                         *)
(* A job is one use of an object: a submitter, the worker that processes   *)
(* it and, for a long job, the handler goroutine.                          *)
(***************************************************************************)
EXTENDS Naturals, FiniteSets

CONSTANTS
  Jobs,      \* the uses of task objects
  Objs,      \* the task objects
  Kinds,     \* the kinds of jobs submitted, a subset of JobKinds
  MaxStops,  \* bound on the calls of Task.Stop
  None       \* no object, no job

\* timeout < 0; an effective timeout > 0; no timeout at all (task.go:198-237).
JobKinds == {"short", "long", "unlimited"}

ASSUME TaskAssumption ==
  /\ Kinds \subseteq JobKinds
  /\ MaxStops \in Nat
  /\ None \notin Objs \cup Jobs

VARIABLES
  \* fields of an object
  state,       \* Task.state
  locked,      \* the job whose process holds Task.mx, or None
  stopCh,      \* Task.stopCh
  localDoneCh, \* Task.localDoneCh
  timer,       \* Task.timer
  err,         \* Task.err # nil
  response,    \* the job whose handler wrote Task.responses, or None
  cache,       \* the objects in the global cache
  \* of a job
  obj,         \* its object
  kind,
  submitter,   \* where its submitter is
  worker,      \* where the worker is in Task.process
  handler,     \* where the handler goroutine is
  panicked,    \* history: its handler panicked
  done,        \* how often the submitter was notified (wg.Done, doneCh)
  answer,      \* what the submitter read
  \* of the shutdown
  target,      \* the pointer read from Worker.taskInProcess
  sendStop,    \* Task.Stop on it has found a state that it stops
  stops        \* calls of Task.Stop so far

chanVars   == <<stopCh, localDoneCh, timer>>
resultVars == <<err, response>>
objVars    == <<state, locked, chanVars, resultVars, cache>>
useVars    == <<obj, kind, submitter, done, answer>>
runVars    == <<handler, panicked>>
stopVars   == <<target, sendStop, stops>>
vars == <<objVars, useVars, worker, runVars, stopVars>>

TaskState == {"NEW", "POOL_GET", "POOL_PUT", "READY", "IN_PROCESS",
              "DONE_SUCCESS", "RECOVER_ERR", "TERMINATED_STOP_SIGNAL",
              "TERMINATED_TIMEOUT"}

TypeOK ==
  /\ state \in [Objs -> TaskState]
  /\ locked \in [Objs -> Jobs \cup {None}]
  /\ stopCh \in [Objs -> {"open", "signalled", "closed"}]
  /\ localDoneCh \in [Objs -> {"open", "sent", "closed"}]
  /\ timer \in [Objs -> {"stopped", "armed", "fired"}]
  /\ err \in [Objs -> BOOLEAN]
  /\ response \in [Objs -> Jobs \cup {None}]
  /\ cache \in SUBSET Objs
  /\ obj \in [Jobs -> Objs \cup {None}]
  /\ kind \in [Jobs -> JobKinds]
  /\ submitter \in [Jobs -> {"idle", "waiting", "delete", "put", "end"}]
  /\ worker \in [Jobs -> {"idle", "queued", "short", "select", "stuck",
                          "notify", "recover", "unlock", "end"}]
  /\ handler \in [Jobs -> {"none", "running", "writing", "sending", "end"}]
  /\ panicked \in [Jobs -> BOOLEAN]
  /\ done \in [Jobs -> 0..1]
  /\ answer \in [Jobs -> Jobs \cup {None, "error", "nothing"}]
  /\ target \in Objs \cup {None}
  /\ sendStop \in BOOLEAN
  /\ stops \in 0..MaxStops

\* taskpool.go:26-43: what the New function of the cache makes.
Init ==
  /\ state = [o \in Objs |-> "NEW"]
  /\ locked = [o \in Objs |-> None]
  /\ stopCh = [o \in Objs |-> "open"]
  /\ localDoneCh = [o \in Objs |-> "open"]
  /\ timer = [o \in Objs |-> "stopped"]
  /\ err = [o \in Objs |-> FALSE]
  /\ response = [o \in Objs |-> None]
  /\ cache = {}
  /\ obj = [j \in Jobs |-> None]
  /\ kind = [j \in Jobs |-> "short"]
  /\ submitter = [j \in Jobs |-> "idle"]
  /\ worker = [j \in Jobs |-> "idle"]
  /\ handler = [j \in Jobs |-> "none"]
  /\ panicked = [j \in Jobs |-> FALSE]
  /\ done = [j \in Jobs |-> 0]
  /\ answer = [j \in Jobs |-> None]
  /\ target = None /\ sendStop = FALSE /\ stops = 0

-----------------------------------------------------------------------------
(* NewTask and DeleteUnsafe                                                *)

\* sync.Pool hands out a cached object or a new one.
Available == cache \cup {o \in Objs : state[o] = "NEW"}

\* The channels and the timer are taken as the cache left them.
NewTask(j, k, o) ==
  /\ submitter[j] = "idle" /\ o \in Available
  /\ cache' = cache \ {o}
  /\ obj' = [obj EXCEPT ![j] = o]
  /\ kind' = [kind EXCEPT ![j] = k]
  /\ state' = [state EXCEPT ![o] = "READY"]
  /\ err' = [err EXCEPT ![o] = FALSE]
  /\ response' = [response EXCEPT ![o] = None]
  /\ submitter' = [submitter EXCEPT ![j] = "waiting"]
  /\ worker' = [worker EXCEPT ![j] = "queued"]
  /\ UNCHANGED <<chanVars, runVars, stopVars, locked, done, answer>>

\* Notified, the submitter reads GetError() and then GetResponses()[0].
ReadAnswer(j) ==
  /\ submitter[j] = "waiting" /\ done[j] > 0
  /\ answer' = [answer EXCEPT ![j] =
                  CASE err[obj[j]] -> "error"
                    [] ~err[obj[j]] /\ response[obj[j]] = None -> "nothing"
                    [] OTHER -> response[obj[j]]]
  /\ submitter' = [submitter EXCEPT ![j] = "delete"]
  /\ UNCHANGED <<objVars, runVars, stopVars, obj, kind, done, worker>>

\* The group was given up before this task was waited for (an error of AddTask
\* or of the total timeout); the tasks are deleted all the same.
GiveUp(j) ==
  /\ submitter[j] = "waiting"
  /\ submitter' = [submitter EXCEPT ![j] = "delete"]
  /\ UNCHANGED <<objVars, runVars, stopVars, obj, kind, done, answer, worker>>

MutReusable(o) == state[o] \in {"NEW", "DONE_SUCCESS", "POOL_GET", "TERMINATED_TIMEOUT"}
Reusable(o) == state[o] \in {"NEW", "DONE_SUCCESS", "POOL_GET"}

\* putTask looks at the state without the lock.
DeleteUnsafe(j) ==
  /\ submitter[j] = "delete"
  /\ IF Reusable(obj[j])
       THEN /\ response' = [response EXCEPT ![obj[j]] = None]
            /\ submitter' = [submitter EXCEPT ![j] = "put"]
       ELSE /\ submitter' = [submitter EXCEPT ![j] = "end"]
            /\ UNCHANGED response
  /\ UNCHANGED <<chanVars, runVars, stopVars, state, locked, err, cache, obj,
                 kind, done, answer, worker>>

MutUnlocked(o) == TRUE
Unlocked(o) == locked[o] = None

\* setState waits for the lock, then the object goes into the cache.
PutTask(j) ==
  /\ submitter[j] = "put" /\ Unlocked(obj[j])
  /\ state' = [state EXCEPT ![obj[j]] = "POOL_PUT"]
  /\ cache' = cache \cup {obj[j]}
  /\ submitter' = [submitter EXCEPT ![j] = "end"]
  /\ UNCHANGED <<chanVars, resultVars, runVars, stopVars, locked, obj, kind,
                 done, answer, worker>>

-----------------------------------------------------------------------------
(* Task.process                                                            *)

GotoW(j, to) == worker' = [worker EXCEPT ![j] = to]

\* A long task gets its handler goroutine, and its timer if there is a timeout.
Begin(j) ==
  LET o == obj[j]
      long == kind[j] # "short"
  IN
  /\ worker[j] = "queued"
  /\ IF locked[o] = None /\ state[o] = "READY"
       THEN /\ locked' = [locked EXCEPT ![o] = j]
            /\ state' = [state EXCEPT ![o] = "IN_PROCESS"]
            /\ GotoW(j, IF long THEN "select" ELSE "short")
            /\ handler' = [handler EXCEPT ![j] = IF long THEN "running" ELSE "none"]
            /\ timer' = IF kind[j] = "long" THEN [timer EXCEPT ![o] = "armed"] ELSE timer
            /\ UNCHANGED err
       ELSE /\ err' = [err EXCEPT ![o] = TRUE]
            /\ GotoW(j, "end")
            /\ UNCHANGED <<state, locked, timer, handler>>
  /\ UNCHANGED <<useVars, stopVars, stopCh, localDoneCh, response, cache,
                 panicked>>

SetErr(j, e) == err' = [err EXCEPT ![obj[j]] = e]
SetResponse(j, r) == response' = [response EXCEPT ![obj[j]] = r]

\* The handler of a short task runs in the goroutine of the worker.
ShortReturns(j, failed) ==
  /\ worker[j] = "short"
  /\ SetErr(j, failed) /\ SetResponse(j, IF failed THEN None ELSE j)
  /\ state' = [state EXCEPT ![obj[j]] = "DONE_SUCCESS"]
  /\ GotoW(j, "notify")
  /\ UNCHANGED <<chanVars, useVars, runVars, stopVars, locked, cache>>

ShortPanics(j) ==
  /\ worker[j] = "short"
  /\ panicked' = [panicked EXCEPT ![j] = TRUE]
  /\ GotoW(j, "notify")
  /\ UNCHANGED <<objVars, useVars, stopVars, handler>>

\* The handler goroutine of a long task; its recover sets only the error.
HandlerReturns(j, failed) ==
  /\ handler[j] = "running"
  /\ SetErr(j, failed)
  /\ handler' = [handler EXCEPT ![j] = IF failed THEN "sending" ELSE "writing"]
  /\ UNCHANGED <<chanVars, useVars, stopVars, state, locked, response, cache,
                 panicked, worker>>

\* The responses are written after the error: a submitter that does not wait for
\* them, the task having been given up, may come between.
HandlerWrites(j) ==
  /\ handler[j] = "writing"
  /\ SetResponse(j, j)
  /\ handler' = [handler EXCEPT ![j] = "sending"]
  /\ UNCHANGED <<chanVars, useVars, stopVars, state, locked, err, cache,
                 panicked, worker>>

HandlerPanics(j) ==
  /\ handler[j] = "running"
  /\ SetErr(j, TRUE)
  /\ panicked' = [panicked EXCEPT ![j] = TRUE]
  /\ handler' = [handler EXCEPT ![j] = "sending"]
  /\ UNCHANGED <<chanVars, useVars, stopVars, state, locked, response, cache,
                 worker>>

\* On the closed channel this send panics and nothing recovers: no step.
HandlerSends(j) ==
  /\ handler[j] = "sending" /\ localDoneCh[obj[j]] = "open"
  /\ localDoneCh' = [localDoneCh EXCEPT ![obj[j]] = "sent"]
  /\ handler' = [handler EXCEPT ![j] = "end"]
  /\ UNCHANGED <<resultVars, useVars, stopVars, state, locked, stopCh, timer,
                 cache, panicked, worker>>

TimerFires(o) ==
  /\ timer[o] = "armed"
  /\ timer' = [timer EXCEPT ![o] = "fired"]
  /\ UNCHANGED <<resultVars, useVars, runVars, stopVars, state, locked, stopCh,
                 localDoneCh, cache, worker>>

\* timer.Stop, and its channel read if it had fired.
MutTimerAfterDone(o) == IF timer[o] = "armed" THEN "stopped" ELSE timer[o]
TimerAfterDone(o) == "stopped"

\* timer.Stop is false for a timer that was never started, and the read of its
\* channel then waits forever.
SelectDone(j) ==
  LET o == obj[j] IN
  /\ worker[j] = "select" /\ localDoneCh[o] = "sent"
  /\ localDoneCh' = [localDoneCh EXCEPT ![o] = "open"]
  /\ IF timer[o] = "stopped"
       THEN GotoW(j, "stuck") /\ UNCHANGED <<state, timer>>
       ELSE /\ timer' = [timer EXCEPT ![o] = TimerAfterDone(o)]
            /\ state' = [state EXCEPT ![o] = "DONE_SUCCESS"]
            /\ GotoW(j, "notify")
  /\ UNCHANGED <<resultVars, useVars, runVars, stopVars, locked, stopCh, cache>>

MutGivenUp(j, s) ==
  /\ state' = [state EXCEPT ![obj[j]] = s]
  /\ SetErr(j, TRUE)
  /\ localDoneCh' = [localDoneCh EXCEPT ![obj[j]] = "closed"]
  /\ GotoW(j, "unlock")

\* The task is given up: its context is cancelled, its local channel closed.
GivenUp(j, s) ==
  /\ state' = [state EXCEPT ![obj[j]] = s]
  /\ SetErr(j, TRUE)
  /\ localDoneCh' = [localDoneCh EXCEPT ![obj[j]] = "closed"]
  /\ GotoW(j, "notify")

SelectStop(j) ==
  /\ worker[j] = "select" /\ stopCh[obj[j]] = "signalled"
  /\ stopCh' = [stopCh EXCEPT ![obj[j]] = "closed"]
  /\ GivenUp(j, "TERMINATED_STOP_SIGNAL")
  /\ UNCHANGED <<useVars, runVars, stopVars, locked, timer, response, cache>>

SelectTimeout(j) ==
  /\ worker[j] = "select" /\ timer[obj[j]] = "fired"
  /\ timer' = [timer EXCEPT ![obj[j]] = "stopped"]
  /\ GivenUp(j, "TERMINATED_TIMEOUT")
  /\ UNCHANGED <<useVars, runVars, stopVars, locked, stopCh, response, cache>>

MutAfterNotify(j) == IF kind[j] = "short" /\ panicked[j] THEN "notify" ELSE "unlock"
AfterNotify(j) == IF kind[j] = "short" /\ panicked[j] THEN "recover" ELSE "unlock"

\* The deferred functions in their order: notify, recover, unlock.
Notify(j) ==
  /\ worker[j] = "notify"
  /\ done' = [done EXCEPT ![j] = @ + 1]
  /\ GotoW(j, AfterNotify(j))
  /\ UNCHANGED <<objVars, runVars, stopVars, obj, kind, submitter, answer>>

Recover(j) ==
  /\ worker[j] = "recover"
  /\ SetErr(j, TRUE)
  /\ state' = [state EXCEPT ![obj[j]] = "RECOVER_ERR"]
  /\ GotoW(j, "unlock")
  /\ UNCHANGED <<chanVars, useVars, runVars, stopVars, locked, response, cache>>

Unlock(j) ==
  /\ worker[j] = "unlock"
  /\ locked' = [locked EXCEPT ![obj[j]] = None]
  /\ GotoW(j, "end")
  /\ UNCHANGED <<chanVars, resultVars, useVars, runVars, stopVars, state,
                 cache>>

-----------------------------------------------------------------------------
(* Worker.Stop in HARD mode reads taskInProcess and calls Task.Stop on it. *)

ReadTaskInProcess(j) ==
  /\ target = None /\ stops < MaxStops
  /\ worker[j] \notin {"idle", "queued", "end"}
  /\ target' = obj[j]
  /\ stops' = stops + 1
  /\ UNCHANGED <<objVars, useVars, runVars, sendStop, worker>>

\* The state is looked at without the lock, then the signal is sent.
Stop ==
  /\ target # None /\ ~sendStop
  /\ IF state[target] \in {"NEW", "IN_PROCESS", "DONE_SUCCESS"}
       THEN sendStop' = TRUE /\ UNCHANGED target
       ELSE target' = None /\ UNCHANGED sendStop
  /\ UNCHANGED <<objVars, useVars, runVars, stops, worker>>

\* Sending on the closed channel panics; shutdownUnsafe recovers.
SendStop ==
  /\ sendStop
  /\ stopCh' = [stopCh EXCEPT ![target] = IF @ = "open" THEN "signalled" ELSE @]
  /\ sendStop' = FALSE /\ target' = None
  /\ UNCHANGED <<resultVars, useVars, runVars, state, locked, localDoneCh,
                 timer, cache, stops, worker>>

-----------------------------------------------------------------------------

Submitter(j) ==
  \/ \E k \in Kinds, o \in Objs : NewTask(j, k, o)
  \/ ReadAnswer(j) \/ GiveUp(j) \/ DeleteUnsafe(j) \/ PutTask(j)

Select(j) == SelectDone(j) \/ SelectStop(j) \/ SelectTimeout(j)

Short(j) == ShortPanics(j) \/ \E failed \in BOOLEAN : ShortReturns(j, failed)

Handler(j) ==
  \/ HandlerPanics(j) \/ HandlerWrites(j) \/ HandlerSends(j)
  \/ \E failed \in BOOLEAN : HandlerReturns(j, failed)

Process(j) ==
  Begin(j) \/ Short(j) \/ Select(j) \/ Notify(j) \/ Recover(j) \/ Unlock(j)

Next ==
  \/ \E j \in Jobs : Submitter(j) \/ Process(j) \/ Handler(j) \/ ReadTaskInProcess(j)
  \/ \E o \in Objs : TimerFires(o)
  \/ Stop \/ SendStop

Spec == Init /\ [][Next]_vars

\* A submitted task is taken by a worker, a worker goes on and a running timer
\* fires. Of a short handler it is assumed that it returns, of a long one not.
Fairness ==
  /\ \A j \in Jobs : WF_vars(Process(j))
  /\ \A j \in Jobs : WF_vars(HandlerWrites(j) \/ HandlerSends(j))
  /\ \A o \in Objs : WF_vars(TimerFires(o))

FairSpec == Spec /\ Fairness

-----------------------------------------------------------------------------
(* Properties                                                              *)

\* task.go:208-223, taskpool.go:56-65: a handler that answers late, after its
\* task was given up, never writes into an object that serves another job.
LateHandlerIsAlone ==
  \A i, j \in Jobs :
    i # j /\ handler[i] \in {"running", "writing", "sending"} =>
      /\ obj[i] \notin cache
      /\ obj[j] = obj[i] => submitter[j] = "end" /\ worker[j] = "end"

\* handler_wp.go:99-106: what a submitter reads is an error or the response of
\* its own handler, whatever objects and late handlers do. It may read neither
\* (and then index an empty slice) only of a short handler that panicked, whose
\* error is set after the notification (task.go:178-196), or of a task that was
\* given up and whose handler overwrites the error (task.go:222).
AnswerIsOwn ==
  \A j \in Jobs :
    \/ answer[j] \in {None, "error", j}
    \/ /\ answer[j] = "nothing"
       /\ \/ kind[j] = "short" /\ panicked[j]
          \/ kind[j] # "short" /\ localDoneCh[obj[j]] = "closed"

\* taskpool.go:57: what is put back was neither given up nor is it still in
\* use: its local channel is open and empty, its timer stopped and drained.
CacheIsClean ==
  \A o \in cache :
    /\ localDoneCh[o] = "open" /\ timer[o] = "stopped" /\ locked[o] = None
    /\ \A j \in Jobs : obj[j] = o =>
         submitter[j] = "end" /\ worker[j] = "end" /\ handler[j] \in {"none", "end"}

\* task.go:186-196: every task a worker takes up is notified, whether its handler
\* returns or not and whether it is stopped, if it has a timeout or is short.
Notified ==
  \A j \in Jobs :
    worker[j] = "queued" /\ kind[j] # "unlimited" ~> done[j] = 1

-----------------------------------------------------------------------------
\* What the repository says of tasks and its runs refute.

\* README.md:80-85 of the package: a task controls its timeout and the command
\* to stop and recovers the panic of its handler. When the handler returns after
\* that, its send must not panic on the closed localDoneCh outside of a recover.
HandlerSendIsSafe ==
  \A j \in Jobs : handler[j] = "sending" => localDoneCh[obj[j]] # "closed"

\* README.md:832 of the package: "if a task was successful its channels stayed
\* open": no object of the cache carries the stop signal of an earlier job.
CachedStopChIsOpen == \A o \in cache : stopCh[o] = "open"
=============================================================================
