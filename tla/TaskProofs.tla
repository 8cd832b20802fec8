----------------------------- MODULE TaskProofs -----------------------------
(***************************************************************************)
(* What holds of Task for every number of jobs, task objects and calls of  *)
(* Task.Stop: objects are never shared by two jobs, so a late handler      *)
(* harms nobody, a submitter reads its own answer, and what goes back to   *)
(* the cache is clean.                                                     *)
(***************************************************************************)
EXTENDS Task, TLAPS

-----------------------------------------------------------------------------
(* The inductive invariant                                                 *)

\* The job's handler goroutine is still there.
Late(j) == handler[j] \in {"running", "writing", "sending"}

\* Somebody of the job still uses its object.
Uses(j) ==
  obj[j] # None /\ (submitter[j] # "end" \/ worker[j] # "end" \/ Late(j))

\* The worker is in Task.process, which holds Task.mx (task.go:163-196).
InProcess(j) ==
  worker[j] \in {"short", "select", "stuck", "notify", "recover", "unlock"}

GivenUpState == {"TERMINATED_STOP_SIGNAL", "TERMINATED_TIMEOUT"}

\* NewTask is the first step of a job.
Started ==
  \A j \in Jobs :
    /\ submitter[j] = "idle" <=> obj[j] = None
    /\ submitter[j] = "idle" <=> worker[j] = "idle"
    /\ worker[j] \in {"idle", "queued", "short"} =>
         handler[j] = "none" /\ ~panicked[j]
    /\ worker[j] \notin {"recover", "unlock", "end"} => done[j] = 0
    /\ submitter[j] \in {"idle", "waiting"} => answer[j] = None

\* Two jobs never use the same object, nor a job one that NewTask may hand out.
Alone ==
  /\ \A i, j \in Jobs : i # j /\ obj[i] = obj[j] /\ Uses(i) => ~Uses(j)
  /\ \A j \in Jobs : Uses(j) =>
       obj[j] \notin cache /\ state[obj[j]] \notin {"NEW", "POOL_PUT"}
  /\ \A o \in cache : state[o] = "POOL_PUT"

\* Task.mx is held by the job whose worker is in Task.process.
Locks ==
  /\ \A o \in Objs : locked[o] # None =>
       obj[locked[o]] = o /\ InProcess(locked[o])
  /\ \A j \in Jobs : InProcess(j) => locked[obj[j]] = j

\* The state of the object as its worker sees it.
Steps ==
  \A j \in Jobs :
    /\ worker[j] = "queued" => state[obj[j]] = "READY"
    /\ worker[j] \in {"short", "select", "stuck", "recover"} =>
         state[obj[j]] = "IN_PROCESS"
    /\ worker[j] = "short" => kind[j] = "short"
    /\ worker[j] \in {"select", "stuck"} \/ Late(j) => kind[j] # "short"
    /\ worker[j] = "notify" =>
         /\ state[obj[j]] \in {"IN_PROCESS", "DONE_SUCCESS"} \cup GivenUpState
         /\ state[obj[j]] = "IN_PROCESS" <=> kind[j] = "short" /\ panicked[j]
    /\ worker[j] = "unlock" \/ (worker[j] = "end" /\ Uses(j)) =>
         state[obj[j]] \in {"DONE_SUCCESS", "RECOVER_ERR"} \cup GivenUpState
    /\ submitter[j] = "put" =>
         state[obj[j]] = "DONE_SUCCESS" /\ worker[j] \in {"notify", "unlock", "end"}

\* The channel of a handler goroutine: open while the worker waits for it, sent
\* when it has answered, closed once it was given up. Only then may it be late.
Channels ==
  /\ \A o \in Objs :
       /\ state[o] \in {"NEW", "READY", "DONE_SUCCESS", "POOL_PUT"} =>
            localDoneCh[o] = "open" /\ timer[o] = "stopped"
       /\ localDoneCh[o] = "closed" => state[o] \in GivenUpState
  /\ \A j \in Jobs :
       /\ worker[j] = "short" =>
            localDoneCh[obj[j]] = "open" /\ timer[obj[j]] = "stopped"
       /\ worker[j] = "stuck" => localDoneCh[obj[j]] = "open"
       /\ worker[j] = "select" =>
            \/ localDoneCh[obj[j]] = "open" /\ Late(j)
            \/ localDoneCh[obj[j]] = "sent" /\ handler[j] = "end"
       /\ Late(j) => worker[j] = "select" \/ localDoneCh[obj[j]] = "closed"

\* Responses are the job's own; a handler that has answered has left an error or
\* a response, until the submitter has read it.
Results ==
  /\ \A j \in Jobs : Uses(j) => response[obj[j]] \in {None, j}
  /\ \A j \in Jobs :
       /\ submitter[j] \in {"waiting", "delete"} /\ worker[j] = "select"
            /\ handler[j] \in {"sending", "end"} =>
              err[obj[j]] \/ response[obj[j]] = j
       /\ submitter[j] = "waiting" /\ worker[j] \in {"notify", "recover", "unlock", "end"} =>
            \/ err[obj[j]] \/ response[obj[j]] = j
            \/ kind[j] = "short" /\ panicked[j]
            \/ kind[j] # "short" /\ localDoneCh[obj[j]] = "closed"

Inv ==
  /\ TypeOK /\ Started /\ Alone /\ Locks /\ Steps /\ Channels /\ Results
  /\ AnswerIsOwn

-----------------------------------------------------------------------------
(* Every step keeps the invariant                                          *)

\* task.go:163-180: the worker that takes a task from the queue finds it unlocked
\* and READY, so it never returns without telling the submitter.
LEMMA BeginTakes ==
  ASSUME Inv, NEW j \in Jobs, worker[j] = "queued"
  PROVE  locked[obj[j]] = None /\ state[obj[j]] = "READY"
<1>1. obj[j] \in Objs /\ state[obj[j]] = "READY" /\ Uses(j)
  BY TaskAssumption DEF Inv, TypeOK, Started, Steps, Uses
<1>2. ASSUME locked[obj[j]] # None PROVE FALSE
  <2>. PICK i \in Jobs : i = locked[obj[j]]
    BY <1>1, <1>2 DEF Inv, TypeOK
  <2>1. obj[i] = obj[j] /\ InProcess(i) /\ Uses(i)
    BY <1>1, <1>2, TaskAssumption DEF Inv, Locks, InProcess, Uses
  <2>2. i # j
    BY <2>1 DEF InProcess
  <2>. QED
    BY <1>1, <2>1, <2>2 DEF Inv, Alone
<1>. QED
  BY <1>1, <1>2

\* Every step of a job or a shutdown keeps the types.
LEMMA NextTypeOK == Inv /\ [Next]_vars => TypeOK'
<1>. SUFFICES ASSUME Inv, [Next]_vars PROVE TypeOK'
  OBVIOUS
<1>. USE TaskAssumption DEF Inv, Started, TypeOK, TaskState, objVars,
     chanVars, resultVars, useVars, runVars, stopVars
<1>1. ASSUME NEW j \in Jobs, NEW k \in Kinds, NEW o \in Objs,
             NewTask(j, k, o)
      PROVE  TypeOK'
  BY <1>1 DEF NewTask, Available
<1>2. ASSUME NEW j \in Jobs, ReadAnswer(j) PROVE TypeOK'
  BY <1>2 DEF ReadAnswer
<1>3. ASSUME NEW j \in Jobs, GiveUp(j) PROVE TypeOK'
  BY <1>3 DEF GiveUp
<1>4. ASSUME NEW j \in Jobs, DeleteUnsafe(j) PROVE TypeOK'
  BY <1>4 DEF DeleteUnsafe, Reusable
<1>5. ASSUME NEW j \in Jobs, PutTask(j) PROVE TypeOK'
  BY <1>5 DEF PutTask, Unlocked
<1>6. ASSUME NEW j \in Jobs, Begin(j) PROVE TypeOK'
  <2>1. CASE locked[obj[j]] = None /\ state[obj[j]] = "READY"
    BY <1>6, <2>1 DEF Begin, GotoW
  <2>2. CASE ~(locked[obj[j]] = None /\ state[obj[j]] = "READY")
    <3>1. err' = [err EXCEPT ![obj[j]] = TRUE] /\ worker' = [worker EXCEPT ![j] = "end"]
      BY <1>6, <2>2 DEF Begin, GotoW
    <3>2. err' \in [Objs -> BOOLEAN]
      BY <3>1
    <3>. QED
      BY <1>6, <2>2, <3>2 DEF Begin, GotoW
  <2>. QED
    BY <2>1, <2>2
<1>7. ASSUME NEW j \in Jobs, NEW failed \in BOOLEAN,
             ShortReturns(j, failed)
      PROVE  TypeOK'
  BY <1>7 DEF ShortReturns, SetErr, SetResponse, GotoW
<1>8. ASSUME NEW j \in Jobs, ShortPanics(j) PROVE TypeOK'
  BY <1>8 DEF ShortPanics, GotoW
<1>9. ASSUME NEW j \in Jobs, NEW failed \in BOOLEAN,
             HandlerReturns(j, failed)
      PROVE  TypeOK'
  BY <1>9 DEF HandlerReturns, SetErr
<1>10. ASSUME NEW j \in Jobs, HandlerWrites(j) PROVE TypeOK'
  BY <1>10 DEF HandlerWrites, SetResponse
<1>11. ASSUME NEW j \in Jobs, HandlerPanics(j) PROVE TypeOK'
  BY <1>11 DEF HandlerPanics, SetErr
<1>12. ASSUME NEW j \in Jobs, HandlerSends(j) PROVE TypeOK'
  BY <1>12 DEF HandlerSends
<1>13. ASSUME NEW o \in Objs, TimerFires(o) PROVE TypeOK'
  BY <1>13 DEF TimerFires
<1>14. ASSUME NEW j \in Jobs, SelectDone(j) PROVE TypeOK'
  BY <1>14 DEF SelectDone, TimerAfterDone, GotoW
<1>15. ASSUME NEW j \in Jobs, SelectStop(j) PROVE TypeOK'
  BY <1>15 DEF SelectStop, GivenUp, SetErr, GotoW
<1>16. ASSUME NEW j \in Jobs, SelectTimeout(j) PROVE TypeOK'
  BY <1>16 DEF SelectTimeout, GivenUp, SetErr, GotoW
<1>17. ASSUME NEW j \in Jobs, Notify(j) PROVE TypeOK'
  BY <1>17 DEF Notify, AfterNotify, GotoW
<1>18. ASSUME NEW j \in Jobs, Recover(j) PROVE TypeOK'
  BY <1>18 DEF Recover, SetErr, GotoW
<1>19. ASSUME NEW j \in Jobs, Unlock(j) PROVE TypeOK'
  BY <1>19 DEF Unlock, GotoW
<1>20. ASSUME NEW j \in Jobs, ReadTaskInProcess(j) PROVE TypeOK'
  BY <1>20 DEF ReadTaskInProcess
<1>21. ASSUME Stop PROVE TypeOK'
  BY <1>21 DEF Stop
<1>22. ASSUME SendStop PROVE TypeOK'
  BY <1>22 DEF SendStop
<1>23. ASSUME UNCHANGED vars PROVE TypeOK'
  BY <1>23 DEF vars
<1>. HIDE DEF TypeOK
<1>. QED
  BY <1>1, <1>2, <1>3, <1>4, <1>5, <1>6, <1>7, <1>8, <1>9, <1>10, <1>11,
     <1>12, <1>13, <1>14, <1>15, <1>16, <1>17, <1>18, <1>19, <1>20, <1>21,
     <1>22, <1>23 DEF Next, Submitter, Select, Short, Handler, Process

\* A job starts with NewTask and notifies once, at the end of Task.process.
LEMMA NextStarted == Inv /\ [Next]_vars => Started'
<1>. SUFFICES ASSUME Inv, [Next]_vars PROVE Started'
  OBVIOUS
<1>. USE TaskAssumption DEF Inv, TypeOK, Started, TaskState, objVars,
     chanVars, resultVars, useVars, runVars, stopVars
<1>1. ASSUME NEW j \in Jobs,
             \/ DeleteUnsafe(j) \/ PutTask(j) \/ HandlerWrites(j)
             \/ HandlerPanics(j) \/ HandlerSends(j) \/ ReadTaskInProcess(j)
      PROVE  Started'
  BY <1>1 DEF DeleteUnsafe, Reusable, PutTask, Unlocked, HandlerWrites,
     SetResponse, HandlerPanics, SetErr, HandlerSends, ReadTaskInProcess
<1>2. ASSUME NEW j \in Jobs,
             \/ SelectDone(j) \/ SelectStop(j) \/ SelectTimeout(j)
             \/ Recover(j) \/ Unlock(j)
      PROVE  Started'
  BY <1>2 DEF SelectDone, TimerAfterDone, SelectStop, GivenUp, SetErr,
     SelectTimeout, Recover, Unlock, GotoW
<1>3. ASSUME \/ Stop \/ SendStop
      PROVE  Started'
  BY <1>3 DEF Stop, SendStop
<1>4. ASSUME NEW j \in Jobs, NEW k \in Kinds, NEW o \in Objs,
             NewTask(j, k, o)
      PROVE  Started'
  BY <1>4 DEF NewTask, Available
<1>5. ASSUME NEW j \in Jobs, ReadAnswer(j) PROVE Started'
  BY <1>5 DEF ReadAnswer
<1>6. ASSUME NEW j \in Jobs, GiveUp(j) PROVE Started'
  BY <1>6 DEF GiveUp
<1>7. ASSUME NEW j \in Jobs, Begin(j) PROVE Started'
  BY <1>7 DEF Begin, GotoW
<1>8. ASSUME NEW j \in Jobs, NEW failed \in BOOLEAN,
             ShortReturns(j, failed)
      PROVE  Started'
  BY <1>8 DEF ShortReturns, SetErr, SetResponse, GotoW
<1>9. ASSUME NEW j \in Jobs, ShortPanics(j) PROVE Started'
  BY <1>9 DEF ShortPanics, GotoW
<1>10. ASSUME NEW j \in Jobs, NEW failed \in BOOLEAN,
              HandlerReturns(j, failed)
       PROVE  Started'
  BY <1>10 DEF HandlerReturns, SetErr
<1>11. ASSUME NEW o \in Objs, TimerFires(o) PROVE Started'
  BY <1>11 DEF TimerFires
<1>12. ASSUME NEW j \in Jobs, Notify(j) PROVE Started'
  BY <1>12 DEF Notify, AfterNotify, GotoW
<1>13. ASSUME UNCHANGED vars PROVE Started'
  BY <1>13 DEF vars
<1>. QED
  BY <1>1, <1>2, <1>3, <1>4, <1>5, <1>6, <1>7, <1>8, <1>9, <1>10, <1>11,
     <1>12, <1>13 DEF Next, Submitter, Select, Short, Handler, Process

\* An object goes back to the cache when its job has ended, and NewTask takes what
\* nobody uses.
LEMMA NextAlone == Inv /\ [Next]_vars => Alone'
<1>. SUFFICES ASSUME Inv, [Next]_vars PROVE Alone'
  OBVIOUS
<1>. USE TaskAssumption DEF Inv, TypeOK, Started, Alone, Locks, Steps,
     Channels, Uses, Late, InProcess, GivenUpState, objVars, chanVars,
     resultVars, useVars, runVars, stopVars
<1>1. ASSUME NEW j \in Jobs,
             \/ ReadAnswer(j) \/ GiveUp(j) \/ DeleteUnsafe(j)
             \/ ReadTaskInProcess(j)
      PROVE  Alone'
  BY <1>1 DEF ReadAnswer, GiveUp, DeleteUnsafe, Reusable, ReadTaskInProcess
<1>2. ASSUME NEW j \in Jobs,
             \/ HandlerWrites(j) \/ HandlerPanics(j) \/ HandlerSends(j)
      PROVE  Alone'
  BY <1>2 DEF HandlerWrites, SetResponse, HandlerPanics, SetErr, HandlerSends
<1>3. ASSUME NEW j \in Jobs,
             \/ SelectDone(j) \/ SelectStop(j) \/ SelectTimeout(j)
      PROVE  Alone'
  BY <1>3 DEF SelectDone, TimerAfterDone, SelectStop, GivenUp, SetErr,
     SelectTimeout, GotoW
<1>4. ASSUME NEW j \in Jobs,
             \/ Notify(j) \/ Recover(j) \/ Unlock(j)
      PROVE  Alone'
  BY <1>4 DEF Notify, AfterNotify, Recover, SetErr, Unlock, GotoW
<1>5. ASSUME \/ Stop \/ SendStop
      PROVE  Alone'
  BY <1>5 DEF Stop, SendStop
<1>6. ASSUME NEW j \in Jobs, NEW k \in Kinds, NEW o \in Objs,
             NewTask(j, k, o)
      PROVE  Alone'
  BY <1>6 DEF NewTask, Available
<1>7. ASSUME NEW j \in Jobs, PutTask(j) PROVE Alone'
  BY <1>7 DEF PutTask, Unlocked
<1>8. ASSUME NEW j \in Jobs, Begin(j) PROVE Alone'
  BY <1>8 DEF Begin, GotoW
<1>9. ASSUME NEW j \in Jobs, NEW failed \in BOOLEAN,
             ShortReturns(j, failed)
      PROVE  Alone'
  BY <1>9 DEF ShortReturns, SetErr, SetResponse, GotoW
<1>10. ASSUME NEW j \in Jobs, ShortPanics(j) PROVE Alone'
  BY <1>10 DEF ShortPanics, GotoW
<1>11. ASSUME NEW j \in Jobs, NEW failed \in BOOLEAN,
              HandlerReturns(j, failed)
       PROVE  Alone'
  BY <1>11 DEF HandlerReturns, SetErr
<1>12. ASSUME NEW o \in Objs, TimerFires(o) PROVE Alone'
  BY <1>12 DEF TimerFires
<1>13. ASSUME UNCHANGED vars PROVE Alone'
  BY <1>13 DEF vars
<1>. QED
  BY <1>1, <1>2, <1>3, <1>4, <1>5, <1>6, <1>7, <1>8, <1>9, <1>10, <1>11,
     <1>12, <1>13 DEF Next, Submitter, Select, Short, Handler, Process

\* Task.mx is taken by Begin and released by Unlock only.
LEMMA NextLocks == Inv /\ [Next]_vars => Locks'
<1>. SUFFICES ASSUME Inv, [Next]_vars PROVE Locks'
  OBVIOUS
<1>. USE TaskAssumption DEF Inv, TypeOK, Started, Alone, Locks, Steps, Uses,
     InProcess, objVars, chanVars, resultVars, useVars, runVars, stopVars
<1>1. ASSUME NEW j \in Jobs,
             \/ ReadAnswer(j) \/ GiveUp(j) \/ DeleteUnsafe(j)
             \/ ReadTaskInProcess(j)
      PROVE  Locks'
  BY <1>1 DEF ReadAnswer, GiveUp, DeleteUnsafe, Reusable, ReadTaskInProcess
<1>2. ASSUME NEW j \in Jobs,
             \/ HandlerWrites(j) \/ HandlerPanics(j) \/ HandlerSends(j)
      PROVE  Locks'
  BY <1>2 DEF HandlerWrites, SetResponse, HandlerPanics, SetErr, HandlerSends
<1>3. ASSUME NEW j \in Jobs,
             \/ Notify(j) \/ Recover(j)
      PROVE  Locks'
  BY <1>3 DEF Notify, AfterNotify, Recover, SetErr, GotoW
<1>4. ASSUME \/ Stop \/ SendStop
      PROVE  Locks'
  BY <1>4 DEF Stop, SendStop
<1>5. ASSUME NEW j \in Jobs, NEW k \in Kinds, NEW o \in Objs,
             NewTask(j, k, o)
      PROVE  Locks'
  BY <1>5 DEF NewTask, Available
<1>6. ASSUME NEW j \in Jobs, PutTask(j) PROVE Locks'
  BY <1>6 DEF PutTask, Unlocked
<1>7. ASSUME NEW j \in Jobs, Begin(j) PROVE Locks'
  <2>1. locked[obj[j]] = None /\ state[obj[j]] = "READY"
    BY <1>7, BeginTakes DEF Begin
  <2>2. locked' = [locked EXCEPT ![obj[j]] = j] /\ obj[j] \in Objs
    BY <1>7, <2>1 DEF Begin
  <2>3. /\ worker' = [worker EXCEPT ![j] = worker'[j]]
        /\ worker'[j] \in {"select", "short"}
    BY <1>7, <2>1 DEF Begin, GotoW
  <2>4. UNCHANGED obj
    BY <1>7 DEF Begin
  <2>. QED
    BY <2>1, <2>2, <2>3, <2>4
<1>8. ASSUME NEW j \in Jobs, NEW failed \in BOOLEAN,
             ShortReturns(j, failed)
      PROVE  Locks'
  BY <1>8 DEF ShortReturns, SetErr, SetResponse, GotoW
<1>9. ASSUME NEW j \in Jobs, ShortPanics(j) PROVE Locks'
  BY <1>9 DEF ShortPanics, GotoW
<1>10. ASSUME NEW j \in Jobs, NEW failed \in BOOLEAN,
              HandlerReturns(j, failed)
       PROVE  Locks'
  BY <1>10 DEF HandlerReturns, SetErr
<1>11. ASSUME NEW o \in Objs, TimerFires(o) PROVE Locks'
  BY <1>11 DEF TimerFires
<1>12. ASSUME NEW j \in Jobs, SelectDone(j) PROVE Locks'
  BY <1>12 DEF SelectDone, TimerAfterDone, GotoW
<1>13. ASSUME NEW j \in Jobs, SelectStop(j) PROVE Locks'
  BY <1>13 DEF SelectStop, GivenUp, SetErr, GotoW
<1>14. ASSUME NEW j \in Jobs, SelectTimeout(j) PROVE Locks'
  BY <1>14 DEF SelectTimeout, GivenUp, SetErr, GotoW
<1>15. ASSUME NEW j \in Jobs, Unlock(j) PROVE Locks'
  BY <1>15 DEF Unlock, GotoW
<1>16. ASSUME UNCHANGED vars PROVE Locks'
  BY <1>16 DEF vars
<1>. QED
  BY <1>1, <1>2, <1>3, <1>4, <1>5, <1>6, <1>7, <1>8, <1>9, <1>10, <1>11,
     <1>12, <1>13, <1>14, <1>15, <1>16 DEF Next, Submitter, Select, Short,
     Handler, Process

\* Only the job that uses an object changes its state.
LEMMA NextSteps == Inv /\ [Next]_vars => Steps'
<1>. SUFFICES ASSUME Inv, [Next]_vars PROVE Steps'
  OBVIOUS
<1>. USE TaskAssumption DEF Inv, TypeOK, Started, Alone, Locks, Steps,
     Channels, Uses, Late, InProcess, GivenUpState, objVars, chanVars,
     resultVars, useVars, runVars, stopVars
<1>1. ASSUME NEW j \in Jobs,
             \/ HandlerWrites(j) \/ HandlerSends(j) \/ ReadTaskInProcess(j)
      PROVE  Steps'
  BY <1>1 DEF HandlerWrites, SetResponse, HandlerSends, ReadTaskInProcess
<1>2. ASSUME \/ Stop \/ SendStop
      PROVE  Steps'
  BY <1>2 DEF Stop, SendStop
<1>3. ASSUME NEW j \in Jobs, NEW k \in Kinds, NEW o \in Objs,
             NewTask(j, k, o)
      PROVE  Steps'
  BY <1>3 DEF NewTask, Available
<1>4. ASSUME NEW j \in Jobs, ReadAnswer(j) PROVE Steps'
  BY <1>4 DEF ReadAnswer
<1>5. ASSUME NEW j \in Jobs, GiveUp(j) PROVE Steps'
  BY <1>5 DEF GiveUp
<1>6. ASSUME NEW j \in Jobs, DeleteUnsafe(j) PROVE Steps'
  BY <1>6 DEF DeleteUnsafe, Reusable
<1>7. ASSUME NEW j \in Jobs, PutTask(j) PROVE Steps'
  BY <1>7 DEF PutTask, Unlocked
<1>8. ASSUME NEW j \in Jobs, Begin(j) PROVE Steps'
  BY <1>8 DEF Begin, GotoW
<1>9. ASSUME NEW j \in Jobs, NEW failed \in BOOLEAN,
             ShortReturns(j, failed)
      PROVE  Steps'
  BY <1>9 DEF ShortReturns, SetErr, SetResponse, GotoW
<1>10. ASSUME NEW j \in Jobs, ShortPanics(j) PROVE Steps'
  BY <1>10 DEF ShortPanics, GotoW
<1>11. ASSUME NEW j \in Jobs, NEW failed \in BOOLEAN,
              HandlerReturns(j, failed)
       PROVE  Steps'
  BY <1>11 DEF HandlerReturns, SetErr
<1>12. ASSUME NEW j \in Jobs, HandlerPanics(j) PROVE Steps'
  BY <1>12 DEF HandlerPanics, SetErr
<1>13. ASSUME NEW o \in Objs, TimerFires(o) PROVE Steps'
  BY <1>13 DEF TimerFires
<1>14. ASSUME NEW j \in Jobs, SelectDone(j) PROVE Steps'
  BY <1>14 DEF SelectDone, TimerAfterDone, GotoW
<1>15. ASSUME NEW j \in Jobs, SelectStop(j) PROVE Steps'
  BY <1>15 DEF SelectStop, GivenUp, SetErr, GotoW
<1>16. ASSUME NEW j \in Jobs, SelectTimeout(j) PROVE Steps'
  BY <1>16 DEF SelectTimeout, GivenUp, SetErr, GotoW
<1>17. ASSUME NEW j \in Jobs, Notify(j) PROVE Steps'
  BY <1>17 DEF Notify, AfterNotify, GotoW
<1>18. ASSUME NEW j \in Jobs, Recover(j) PROVE Steps'
  BY <1>18 DEF Recover, SetErr, GotoW
<1>19. ASSUME NEW j \in Jobs, Unlock(j) PROVE Steps'
  BY <1>19 DEF Unlock, GotoW
<1>20. ASSUME UNCHANGED vars PROVE Steps'
  BY <1>20 DEF vars
<1>. QED
  BY <1>1, <1>2, <1>3, <1>4, <1>5, <1>6, <1>7, <1>8, <1>9, <1>10, <1>11,
     <1>12, <1>13, <1>14, <1>15, <1>16, <1>17, <1>18, <1>19, <1>20 DEF Next,
     Submitter, Select, Short, Handler, Process

\* The channel and the timer are left open and stopped but by a task given up.
LEMMA NextChannels == Inv /\ [Next]_vars => Channels'
<1>. SUFFICES ASSUME Inv, [Next]_vars PROVE Channels'
  OBVIOUS
<1>. USE TaskAssumption DEF Inv, TypeOK, Started, Alone, Locks, Steps,
     Channels, Uses, Late, GivenUpState, objVars, chanVars, resultVars,
     useVars, runVars, stopVars
<1>1. ASSUME NEW j \in Jobs,
             \/ ReadAnswer(j) \/ GiveUp(j) \/ DeleteUnsafe(j)
             \/ ReadTaskInProcess(j)
      PROVE  Channels'
  BY <1>1 DEF ReadAnswer, GiveUp, DeleteUnsafe, Reusable, ReadTaskInProcess
<1>2. ASSUME NEW j \in Jobs,
             \/ HandlerWrites(j) \/ HandlerPanics(j)
      PROVE  Channels'
  BY <1>2 DEF HandlerWrites, SetResponse, HandlerPanics, SetErr
<1>3. ASSUME NEW j \in Jobs,
             \/ Notify(j) \/ Unlock(j)
      PROVE  Channels'
  BY <1>3 DEF Notify, AfterNotify, Unlock, GotoW
<1>4. ASSUME \/ Stop \/ SendStop
      PROVE  Channels'
  BY <1>4 DEF Stop, SendStop
<1>5. ASSUME NEW j \in Jobs, NEW k \in Kinds, NEW o \in Objs,
             NewTask(j, k, o)
      PROVE  Channels'
  BY <1>5 DEF NewTask, Available
<1>6. ASSUME NEW j \in Jobs, PutTask(j) PROVE Channels'
  BY <1>6 DEF PutTask, Unlocked
<1>7. ASSUME NEW j \in Jobs, Begin(j) PROVE Channels'
  BY <1>7 DEF Begin, GotoW
<1>8. ASSUME NEW j \in Jobs, NEW failed \in BOOLEAN,
             ShortReturns(j, failed)
      PROVE  Channels'
  BY <1>8 DEF ShortReturns, SetErr, SetResponse, GotoW
<1>9. ASSUME NEW j \in Jobs, ShortPanics(j) PROVE Channels'
  BY <1>9 DEF ShortPanics, GotoW
<1>10. ASSUME NEW j \in Jobs, NEW failed \in BOOLEAN,
              HandlerReturns(j, failed)
       PROVE  Channels'
  BY <1>10 DEF HandlerReturns, SetErr
<1>11. ASSUME NEW j \in Jobs, HandlerSends(j) PROVE Channels'
  BY <1>11 DEF HandlerSends
<1>12. ASSUME NEW o \in Objs, TimerFires(o) PROVE Channels'
  BY <1>12 DEF TimerFires
<1>13. ASSUME NEW j \in Jobs, SelectDone(j) PROVE Channels'
  BY <1>13 DEF SelectDone, TimerAfterDone, GotoW
<1>14. ASSUME NEW j \in Jobs, SelectStop(j) PROVE Channels'
  BY <1>14 DEF SelectStop, GivenUp, SetErr, GotoW
<1>15. ASSUME NEW j \in Jobs, SelectTimeout(j) PROVE Channels'
  BY <1>15 DEF SelectTimeout, GivenUp, SetErr, GotoW
<1>16. ASSUME NEW j \in Jobs, Recover(j) PROVE Channels'
  BY <1>16 DEF Recover, SetErr, GotoW
<1>17. ASSUME UNCHANGED vars PROVE Channels'
  BY <1>17 DEF vars
<1>. QED
  BY <1>1, <1>2, <1>3, <1>4, <1>5, <1>6, <1>7, <1>8, <1>9, <1>10, <1>11,
     <1>12, <1>13, <1>14, <1>15, <1>16, <1>17 DEF Next, Submitter, Select,
     Short, Handler, Process

\* A response or an error is left before the worker notifies.
LEMMA NextResults == Inv /\ [Next]_vars => Results'
<1>. SUFFICES ASSUME Inv, [Next]_vars PROVE Results'
  OBVIOUS
<1>. USE TaskAssumption DEF Inv, TypeOK, Started, Alone, Steps, Channels,
     Results, Uses, Late, GivenUpState, objVars, chanVars, resultVars,
     useVars, runVars, stopVars
<1>1. ASSUME NEW j \in Jobs,
             \/ HandlerSends(j) \/ ReadTaskInProcess(j)
      PROVE  Results'
  BY <1>1 DEF HandlerSends, ReadTaskInProcess
<1>2. ASSUME NEW j \in Jobs,
             \/ SelectDone(j) \/ SelectStop(j) \/ SelectTimeout(j)
      PROVE  Results'
  BY <1>2 DEF SelectDone, TimerAfterDone, SelectStop, GivenUp, SetErr,
     SelectTimeout, GotoW
<1>3. ASSUME \/ Stop \/ SendStop
      PROVE  Results'
  BY <1>3 DEF Stop, SendStop
<1>4. ASSUME NEW j \in Jobs, NEW k \in Kinds, NEW o \in Objs,
             NewTask(j, k, o)
      PROVE  Results'
  BY <1>4 DEF NewTask, Available
<1>5. ASSUME NEW j \in Jobs, ReadAnswer(j) PROVE Results'
  BY <1>5 DEF ReadAnswer
<1>6. ASSUME NEW j \in Jobs, GiveUp(j) PROVE Results'
  BY <1>6 DEF GiveUp
<1>7. ASSUME NEW j \in Jobs, DeleteUnsafe(j) PROVE Results'
  BY <1>7 DEF DeleteUnsafe, Reusable
<1>8. ASSUME NEW j \in Jobs, PutTask(j) PROVE Results'
  BY <1>8 DEF PutTask, Unlocked
<1>9. ASSUME NEW j \in Jobs, Begin(j) PROVE Results'
  BY <1>9 DEF Begin, GotoW
<1>10. ASSUME NEW j \in Jobs, NEW failed \in BOOLEAN,
              ShortReturns(j, failed)
       PROVE  Results'
  BY <1>10 DEF ShortReturns, SetErr, SetResponse, GotoW
<1>11. ASSUME NEW j \in Jobs, ShortPanics(j) PROVE Results'
  BY <1>11 DEF ShortPanics, GotoW
<1>12. ASSUME NEW j \in Jobs, NEW failed \in BOOLEAN,
              HandlerReturns(j, failed)
       PROVE  Results'
  <2>1. obj[j] \in Objs /\ Uses(j)
    BY <1>12 DEF HandlerReturns
  <2>2. \A i \in Jobs : Uses(i)' <=> Uses(i)
    BY <1>12 DEF HandlerReturns
  <2>3. \A i \in Jobs \ {j} : Uses(i) => obj[i] # obj[j]
    BY <2>1
  <2>4. failed => err'[obj[j]]
    BY <1>12, <2>1 DEF HandlerReturns, SetErr
  <2>5. \A i \in Jobs \ {j} : Uses(i) => err'[obj[i]] = err[obj[i]]
    BY <1>12, <2>1, <2>3 DEF HandlerReturns, SetErr
  <2>6. handler' = [handler EXCEPT ![j] = IF failed THEN "sending" ELSE "writing"]
    BY <1>12 DEF HandlerReturns
  <2>7. worker[j] = "select" \/ localDoneCh[obj[j]] = "closed"
    BY <1>12 DEF HandlerReturns
  <2>8. UNCHANGED <<obj, kind, submitter, worker, panicked, response, localDoneCh>>
    BY <1>12 DEF HandlerReturns
  <2>9. \A i \in Jobs : Uses(i)' => response'[obj'[i]] \in {None, i}
    BY <2>2, <2>8
  <2>10. \A i \in Jobs \ {j} : handler'[i] = handler[i] /\ (submitter[i] # "end" /\ obj[i] # None => Uses(i))
    BY <2>6
  <2>11. \A i \in Jobs \ {j} : submitter[i] \in {"waiting", "delete"} => Uses(i)
    BY <2>10
  <2>12. handler[j] = "running" /\ handler'[j] = IF failed THEN "sending" ELSE "writing"
    BY <1>12, <2>6 DEF HandlerReturns
  <2>. HIDE DEF Inv, Uses
  <2>13. \A i \in Jobs :
          /\ submitter'[i] \in {"waiting", "delete"} /\ worker'[i] = "select"
               /\ handler'[i] \in {"sending", "end"} =>
                 err'[obj'[i]] \/ response'[obj'[i]] = i
          /\ submitter'[i] = "waiting" /\ worker'[i] \in {"notify", "recover", "unlock", "end"} =>
               \/ err'[obj'[i]] \/ response'[obj'[i]] = i
               \/ kind'[i] = "short" /\ panicked'[i]
               \/ kind'[i] # "short" /\ localDoneCh'[obj'[i]] = "closed"
    <3>1. Results /\ Steps
      BY DEF Inv
    <3>. QED
      BY <2>4, <2>5, <2>7, <2>8, <2>10, <2>11, <2>12, <3>1
  <2>. QED
    BY <2>9, <2>13
<1>13. ASSUME NEW j \in Jobs, HandlerWrites(j) PROVE Results'
  BY <1>13 DEF HandlerWrites, SetResponse
<1>14. ASSUME NEW j \in Jobs, HandlerPanics(j) PROVE Results'
  BY <1>14 DEF HandlerPanics, SetErr
<1>15. ASSUME NEW o \in Objs, TimerFires(o) PROVE Results'
  BY <1>15 DEF TimerFires
<1>16. ASSUME NEW j \in Jobs, Notify(j) PROVE Results'
  BY <1>16 DEF Notify, AfterNotify, GotoW
<1>17. ASSUME NEW j \in Jobs, Recover(j) PROVE Results'
  BY <1>17 DEF Recover, SetErr, GotoW
<1>18. ASSUME NEW j \in Jobs, Unlock(j) PROVE Results'
  BY <1>18 DEF Unlock, GotoW
<1>19. ASSUME UNCHANGED vars PROVE Results'
  BY <1>19 DEF vars
<1>. QED
  BY <1>1, <1>2, <1>3, <1>4, <1>5, <1>6, <1>7, <1>8, <1>9, <1>10, <1>11,
     <1>12, <1>13, <1>14, <1>15, <1>16, <1>17, <1>18, <1>19 DEF Next,
     Submitter, Select, Short, Handler, Process

\* What a submitter has read stays its own.
LEMMA NextAnswers == Inv /\ [Next]_vars => AnswerIsOwn'
<1>. SUFFICES ASSUME Inv, [Next]_vars PROVE AnswerIsOwn'
  OBVIOUS
<1>. USE TaskAssumption DEF Inv, TypeOK, Started, Channels, Results, Uses,
     AnswerIsOwn, objVars, chanVars, resultVars, useVars, runVars, stopVars
<1>1. ASSUME NEW j \in Jobs,
             \/ GiveUp(j) \/ DeleteUnsafe(j) \/ PutTask(j) \/ Begin(j)
             \/ HandlerWrites(j) \/ HandlerPanics(j) \/ HandlerSends(j)
             \/ ReadTaskInProcess(j)
      PROVE  AnswerIsOwn'
  BY <1>1 DEF GiveUp, DeleteUnsafe, Reusable, PutTask, Unlocked, Begin,
     HandlerWrites, SetResponse, HandlerPanics, SetErr, HandlerSends,
     ReadTaskInProcess, GotoW
<1>2. ASSUME NEW j \in Jobs,
             \/ SelectDone(j) \/ SelectStop(j) \/ SelectTimeout(j)
             \/ Notify(j) \/ Recover(j) \/ Unlock(j)
      PROVE  AnswerIsOwn'
  BY <1>2 DEF SelectDone, TimerAfterDone, SelectStop, GivenUp, SetErr,
     SelectTimeout, Notify, AfterNotify, Recover, Unlock, GotoW
<1>3. ASSUME NEW j \in Jobs, NEW failed \in BOOLEAN,
             \/ ShortReturns(j, failed) \/ HandlerReturns(j, failed)
      PROVE  AnswerIsOwn'
  BY <1>3 DEF ShortReturns, SetErr, SetResponse, HandlerReturns, GotoW
<1>4. ASSUME \/ Stop \/ SendStop
      PROVE  AnswerIsOwn'
  BY <1>4 DEF Stop, SendStop
<1>5. ASSUME NEW j \in Jobs, NEW k \in Kinds, NEW o \in Objs,
             NewTask(j, k, o)
      PROVE  AnswerIsOwn'
  BY <1>5 DEF NewTask, Available
<1>6. ASSUME NEW j \in Jobs, ReadAnswer(j) PROVE AnswerIsOwn'
  BY <1>6 DEF ReadAnswer
<1>7. ASSUME NEW j \in Jobs, ShortPanics(j) PROVE AnswerIsOwn'
  BY <1>7 DEF ShortPanics, GotoW
<1>8. ASSUME NEW o \in Objs, TimerFires(o) PROVE AnswerIsOwn'
  BY <1>8 DEF TimerFires
<1>9. ASSUME UNCHANGED vars PROVE AnswerIsOwn'
  BY <1>9 DEF vars
<1>. QED
  BY <1>1, <1>2, <1>3, <1>4, <1>5, <1>6, <1>7, <1>8, <1>9 DEF Next, Submitter,
     Select, Short, Handler, Process

\* The objects that New of the cache makes (taskpool.go:26-43) serve no job yet.
LEMMA InitInv == Init => Inv
<1>. SUFFICES ASSUME Init PROVE Inv
  OBVIOUS
<1>. USE TaskAssumption DEF Init
<1>1. TypeOK
  <2>1. err \in [Objs -> BOOLEAN] /\ panicked \in [Jobs -> BOOLEAN] /\ sendStop \in BOOLEAN
    OBVIOUS
  <2>2. /\ state \in [Objs -> TaskState] /\ locked \in [Objs -> Jobs \cup {None}]
        /\ response \in [Objs -> Jobs \cup {None}] /\ cache \in SUBSET Objs
        /\ obj \in [Jobs -> Objs \cup {None}] /\ kind \in [Jobs -> JobKinds]
    BY DEF TaskState, JobKinds
  <2>3. done \in [Jobs -> 0..1] /\ stops \in 0..MaxStops
    OBVIOUS
  <2>. QED
    BY <2>1, <2>2, <2>3 DEF TypeOK
<1>2. Started /\ Alone
  BY DEF Started, Alone, Uses
<1>3. Locks /\ Steps
  BY DEF Locks, Steps, InProcess, Uses, Late
<1>4. Channels /\ Results /\ AnswerIsOwn
  BY DEF Channels, Results, AnswerIsOwn, Uses, Late
<1>. QED
  BY <1>1, <1>2, <1>3, <1>4 DEF Inv

\* The invariant holds whatever submitters, workers, handlers and a shutdown do.
LEMMA SpecInv == Spec => []Inv
<1>1. Inv /\ [Next]_vars => Inv'
  BY NextTypeOK, NextStarted, NextAlone, NextLocks, NextSteps, NextChannels,
     NextResults, NextAnswers DEF Inv
<1>. QED
  BY InitInv, <1>1, PTL DEF Spec

-----------------------------------------------------------------------------
(* The properties                                                          *)

\* Fields, channels and counters of tasks keep their types; no submitter is ever
\* notified twice (task.go:190-201).
THEOREM TypeCorrect == Spec => []TypeOK
<1>1. Inv => TypeOK
  BY DEF Inv
<1>. QED
  BY SpecInv, <1>1, PTL

\* task.go:208-223, taskpool.go:56-65: however late a handler answers, its object is
\* neither in the cache nor used by another job.
THEOREM LateHandlerHarmless == Spec => []LateHandlerIsAlone
<1>1. ASSUME Inv PROVE LateHandlerIsAlone
  <2>. SUFFICES ASSUME NEW i \in Jobs, NEW j \in Jobs, i # j, Late(i)
                PROVE  /\ obj[i] \notin cache
                       /\ obj[j] = obj[i] => submitter[j] = "end" /\ worker[j] = "end"
    BY DEF LateHandlerIsAlone, Late
  <2>1. Uses(i)
    BY <1>1, TaskAssumption DEF Inv, Started, Uses, Late
  <2>. QED
    BY <1>1, <2>1 DEF Inv, Alone, Uses
<1>. QED
  BY SpecInv, <1>1, PTL

\* handler_wp.go:99-106: no submitter ever reads the response of another job.
THEOREM AnswersOwn == Spec => []AnswerIsOwn
<1>1. Inv => AnswerIsOwn
  BY DEF Inv
<1>. QED
  BY SpecInv, <1>1, PTL

\* taskpool.go:57: what the cache hands out was given back whole: nobody uses it,
\* its channel is open and empty and its timer stopped.
THEOREM CacheStaysClean == Spec => []CacheIsClean
<1>1. ASSUME Inv PROVE CacheIsClean
  <2>. SUFFICES ASSUME NEW o \in cache
                PROVE  /\ localDoneCh[o] = "open" /\ timer[o] = "stopped"
                       /\ locked[o] = None
                       /\ \A j \in Jobs : obj[j] = o =>
                            /\ submitter[j] = "end" /\ worker[j] = "end"
                            /\ handler[j] \in {"none", "end"}
    BY DEF CacheIsClean
  <2>1. o \in Objs /\ o # None /\ state[o] = "POOL_PUT"
    BY <1>1, TaskAssumption DEF Inv, TypeOK, Alone
  <2>2. ASSUME NEW j \in Jobs, obj[j] = o PROVE ~Uses(j)
    BY <1>1, <2>2 DEF Inv, Alone
  <2>3. localDoneCh[o] = "open" /\ timer[o] = "stopped"
    BY <1>1, <2>1 DEF Inv, Channels
  <2>4. locked[o] = None
    BY <1>1, <2>1, <2>2 DEF Inv, TypeOK, Locks, InProcess, Uses
  <2>5. ASSUME NEW j \in Jobs, obj[j] = o
        PROVE  /\ submitter[j] = "end" /\ worker[j] = "end"
               /\ handler[j] \in {"none", "end"}
    BY <1>1, <2>1, <2>2, <2>5 DEF Inv, TypeOK, Uses, Late
  <2>. QED
    BY <2>3, <2>4, <2>5
<1>. QED
  BY SpecInv, <1>1, PTL

\* The early returns of process, without a notification of the submitter.
NeverTurnedAway ==
  \A j \in Jobs : worker[j] = "queued" =>
    locked[obj[j]] = None /\ state[obj[j]] = "READY"

\* task.go:158-175: a task made by NewTask is never found locked or in another state
\* than READY when its worker takes it up, so that no submitter waits in vain.
THEOREM TakenUp == Spec => []NeverTurnedAway
<1>1. Inv => NeverTurnedAway
  BY BeginTakes DEF NeverTurnedAway
<1>. QED
  BY SpecInv, <1>1, PTL

=============================================================================
