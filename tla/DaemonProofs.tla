---------------------------- MODULE DaemonProofs ----------------------------
(***************************************************************************)
(* What holds of Daemon for every set of requests, every bound on failures *)
(* and every pair of timeouts: what a process that exits leaves behind,    *)
(* what its exit code tells, and which key for tokens is in force.         *)
(***************************************************************************)
EXTENDS Daemon, TLAPS

-----------------------------------------------------------------------------
(* The inductive invariant                                                 *)

\* The pool's variables, which PoolPromise does not type.
PoolTypeOK ==
  /\ task \in [Requests -> {"new", "offered", "queued", "held", "finished",
                            "lost", "rejected"}]
  /\ phase \in {"new", "open", "closing", "closed"} /\ late \in BOOLEAN

\* main has come to Run of the daemon, or an error at the start has kept it from it.
Started == server # "none"

\* The main goroutine and the pool go on together: Shutdown of the daemon stops the
\* pool before the server (daemon.go:150-177), and New stops nothing on an error.
InOrder ==
  /\ main \in Starting \ {"notify"} => ~Started
  /\ main \in {"notify", "loop"} \cup (Stopping \ {"closeLog"}) => Started
  /\ ~Started => phase = "new"
  /\ main \in {"notify", "loop", "stopPool", "killed"} => phase \in {"new", "open"}
  /\ main = "waitPool" => phase = "closing"
  /\ main \in {"stopServer", "waitServer"} => phase = "closed"
  /\ main \in {"closeLog", "exited"} /\ Started => phase = "closed"

\* Shutdown of the server has closed the listener if it was served, and Serve does not
\* begin any more, so that no request comes; it was not cut short by the daemon's
\* context, which is closed only after it.
ServerDown ==
  /\ ctxDone => main \in {"closeLog", "exited"}
  /\ main = "waitServer" => ~(server = "serving" /\ listening)
  /\ main \in {"closeLog", "exited"} /\ Started =>
       ~(server = "serving" /\ listening) /\ (gaveUp \/ InFlight = {})

\* The queue was read empty before the pool closed, and its workers were waited for.
Drained ==
  phase = "closed" =>
    /\ Pool!In("queued") = {} \/ late
    /\ Pool!In("held") = {} \/ late

\* The cause is set when main leaves its loop or fails, and decides the exit code.
Causes ==
  /\ main \in {"closeLog", "exited"} => cause # "none"
  /\ main \in Stopping \ {"closeLog"} => cause # "none"
  /\ cause = "signal" => Started
  /\ main \in {"closeLog", "exited"} /\ cause = "error" => exitCode = 1

Inv ==
  /\ TypeOK /\ PoolTypeOK /\ InOrder /\ ServerDown /\ Drained /\ Causes
  /\ KeyInForce

-----------------------------------------------------------------------------
(* Every step keeps the invariant                                          *)

\* LoadYamlConfig and ValidateConfig (config.go:84, 170-174): what passes the check is
\* the key that is used.
LEMMA EffectiveKey ==
  ASSUME NEW given
  PROVE  /\ Effective(given) \in {"none", "file", "env", "args"}
         /\ Valid(TRUE, given) => Effective(given) \in {"args", "file"}
<1>1. Effective(given) \in {"none", "file", "env", "args"}
  BY DEF Effective
<1>2. ASSUME Valid(TRUE, given) PROVE "args" \in given \/ "file" \in given
  BY <1>2 DEF Valid
<1>3. ASSUME "args" \in given \/ "file" \in given
      PROVE  Effective(given) \in {"args", "file"}
  BY <1>3 DEF Effective
<1>. QED
  BY <1>1, <1>2, <1>3

\* Every step of the process keeps the types.
LEMMA NextTypeOK == Inv /\ [Next]_vars => (TypeOK /\ PoolTypeOK)'
<1>. SUFFICES ASSUME Inv, [Next]_vars PROVE (TypeOK /\ PoolTypeOK)'
  OBVIOUS
<1>. USE DaemonAssumption DEF Inv, TypeOK, PoolTypeOK, Starting, Stopping,
     Alive, configVars, exitVars, serverVars, requestVars, poolVars
<1>1. ASSUME LoadConfig PROVE (TypeOK /\ PoolTypeOK)'
  <2>1. CASE Fail /\ UNCHANGED <<useJWT, jwtKey>>
    BY <1>1, <2>1 DEF LoadConfig, Fail
  <2>2. CASE \E jwt \in BOOLEAN, given \in Secrets :
               /\ useJWT' = jwt /\ jwtKey' = Effective(given)
               /\ Goto("logger")
    <3>1. useJWT' \in BOOLEAN /\ jwtKey' \in {"none", "file", "env", "args"}
      BY <2>2, EffectiveKey
    <3>. QED
      BY <1>1, <2>2, <3>1 DEF LoadConfig, Goto
  <2>. QED
    BY <1>1, <2>1, <2>2 DEF LoadConfig
<1>2. ASSUME SetLogger PROVE (TypeOK /\ PoolTypeOK)'
  BY <1>2 DEF SetLogger, Fail, Goto
<1>3. ASSUME NewServices PROVE (TypeOK /\ PoolTypeOK)'
  BY <1>3 DEF NewServices, Fail, Goto
<1>4. ASSUME NewServer PROVE (TypeOK /\ PoolTypeOK)'
  <2>1. listening' \in BOOLEAN
    BY <1>4 DEF NewServer, Fail, Goto
  <2>. QED
    BY <1>4, <2>1 DEF NewServer, Fail, Goto
<1>5. ASSUME Run PROVE (TypeOK /\ PoolTypeOK)'
  BY <1>5 DEF Run, Goto
<1>6. ASSUME Notify PROVE (TypeOK /\ PoolTypeOK)'
  BY <1>6 DEF Notify, Goto
<1>7. ASSUME GotSignal PROVE (TypeOK /\ PoolTypeOK)'
  BY <1>7 DEF GotSignal, Context
<1>8. ASSUME GotError PROVE (TypeOK /\ PoolTypeOK)'
  <2>1. serverErrCh' \in BOOLEAN
    BY <1>8 DEF GotError, OnError, Context
  <2>. QED
    BY <1>8, <2>1 DEF GotError, OnError, Context
<1>9. ASSUME StopPool PROVE (TypeOK /\ PoolTypeOK)'
  BY <1>9 DEF StopPool, Goto, Pool!Close
<1>10. ASSUME PoolTimeout \/ PoolPanics PROVE (TypeOK /\ PoolTypeOK)'
  <2>1. /\ Pool!GiveUp
        /\ UNCHANGED <<main, configVars, exitVars, signalCh, serverVars, ctxDone,
                       hung, requestVars>>
    BY <1>10 DEF PoolTimeout, PoolPanics
  <2>. QED
    BY <2>1 DEF Pool!GiveUp
<1>11. ASSUME PoolStopped PROVE (TypeOK /\ PoolTypeOK)'
  BY <1>11 DEF PoolStopped, QueueRead, Pool!Closed, Goto
<1>12. ASSUME StopServer PROVE (TypeOK /\ PoolTypeOK)'
  <2>1. listening' \in BOOLEAN
    BY <1>12 DEF StopServer, Goto
  <2>. QED
    BY <1>12, <2>1 DEF StopServer, Goto
<1>13. ASSUME ServerStopped PROVE (TypeOK /\ PoolTypeOK)'
  BY <1>13 DEF ServerStopped
<1>14. ASSUME ServerTimeout PROVE (TypeOK /\ PoolTypeOK)'
  BY <1>14 DEF ServerTimeout
<1>15. ASSUME Exit PROVE (TypeOK /\ PoolTypeOK)'
  BY <1>15 DEF Exit
<1>16. ASSUME Signal PROVE (TypeOK /\ PoolTypeOK)'
  <2>1. signalCh' \in BOOLEAN
    BY <1>16 DEF Signal
  <2>. QED
    BY <1>16, <2>1 DEF Signal
<1>17. ASSUME Serve PROVE (TypeOK /\ PoolTypeOK)'
  <2>1. listening' \in BOOLEAN
    BY <1>17 DEF Serve
  <2>. QED
    BY <1>17, <2>1 DEF Serve
<1>18. ASSUME ServeFails PROVE (TypeOK /\ PoolTypeOK)'
  <2>1. serverErrCh' \in BOOLEAN /\ listening' \in BOOLEAN
    BY <1>18 DEF ServeFails
  <2>. QED
    BY <1>18, <2>1 DEF ServeFails
<1>19. ASSUME PoolRuns PROVE (TypeOK /\ PoolTypeOK)'
  BY <1>19 DEF PoolRuns, PoolOnly, Pool!Open
<1>20. ASSUME NEW r \in Requests, Request(r) PROVE (TypeOK /\ PoolTypeOK)'
  BY <1>20 DEF Request
<1>21. ASSUME NEW r \in Requests, AddTask(r) PROVE (TypeOK /\ PoolTypeOK)'
  BY <1>21 DEF AddTask, PoolOnly, Become, Pool!Refuse, Pool!Offer,
     Pool!Accept, Pool!Reject, Pool!Become
<1>22. ASSUME NEW r \in Requests, Answer(r) PROVE (TypeOK /\ PoolTypeOK)'
  BY <1>22 DEF Answer, PoolOnly, Become
<1>23. ASSUME NEW r \in Requests, DropTask(r) PROVE (TypeOK /\ PoolTypeOK)'
  BY <1>23 DEF DropTask, PoolOnly, Pool!Drop, Pool!Become
<1>24. ASSUME NEW r \in Requests, Work(r) PROVE (TypeOK /\ PoolTypeOK)'
  BY <1>24 DEF Work, PoolOnly, Pool!Take, Pool!Finish, Pool!Working,
     Pool!Become
<1>25. ASSUME NEW r \in Requests,
              WorkerPanics(r)
       PROVE  (TypeOK /\ PoolTypeOK)'
  BY <1>25 DEF WorkerPanics, PoolOnly, Pool!Fail, Pool!Working, Pool!Become
<1>26. ASSUME UNCHANGED vars PROVE (TypeOK /\ PoolTypeOK)'
  BY <1>26 DEF vars
<1>. QED
  BY <1>1, <1>2, <1>3, <1>4, <1>5, <1>6, <1>7, <1>8, <1>9, <1>10, <1>11,
     <1>12, <1>13, <1>14, <1>15, <1>16, <1>17, <1>18, <1>19, <1>20, <1>21,
     <1>22, <1>23, <1>24, <1>25, <1>26 DEF Next, Main

\* main stops the pool before the server, and RunBG opens it only before that.
LEMMA NextInOrder == Inv /\ [Next]_vars => InOrder'
<1>. SUFFICES ASSUME Inv, [Next]_vars PROVE InOrder'
  OBVIOUS
<1>. USE DaemonAssumption DEF Inv, TypeOK, PoolTypeOK, Starting, Stopping,
     Alive, InOrder, Started, configVars, exitVars, serverVars, requestVars,
     poolVars
<1>1. ASSUME LoadConfig PROVE InOrder'
  BY <1>1 DEF LoadConfig, Fail, Goto
<1>2. ASSUME SetLogger PROVE InOrder'
  BY <1>2 DEF SetLogger, Fail, Goto
<1>3. ASSUME NewServices PROVE InOrder'
  BY <1>3 DEF NewServices, Fail, Goto
<1>4. ASSUME NewServer PROVE InOrder'
  BY <1>4 DEF NewServer, Fail, Goto
<1>5. ASSUME Run PROVE InOrder'
  BY <1>5 DEF Run, Goto
<1>6. ASSUME Notify PROVE InOrder'
  BY <1>6 DEF Notify, Goto
<1>7. ASSUME GotSignal PROVE InOrder'
  BY <1>7 DEF GotSignal, Context
<1>8. ASSUME GotError PROVE InOrder'
  BY <1>8 DEF GotError, OnError, Context
<1>9. ASSUME StopPool PROVE InOrder'
  BY <1>9 DEF StopPool, Goto, Pool!Close
<1>10. ASSUME PoolTimeout \/ PoolPanics PROVE InOrder'
  BY <1>10 DEF PoolTimeout, PoolPanics, QueueRead, Pool!GiveUp
<1>11. ASSUME PoolStopped PROVE InOrder'
  BY <1>11 DEF PoolStopped, QueueRead, Pool!Closed, Goto
<1>12. ASSUME StopServer PROVE InOrder'
  BY <1>12 DEF StopServer, Goto
<1>13. ASSUME ServerStopped PROVE InOrder'
  BY <1>13 DEF ServerStopped
<1>14. ASSUME ServerTimeout PROVE InOrder'
  BY <1>14 DEF ServerTimeout
<1>15. ASSUME Exit PROVE InOrder'
  BY <1>15 DEF Exit
<1>16. ASSUME Signal PROVE InOrder'
  BY <1>16 DEF Signal
<1>17. ASSUME Serve PROVE InOrder'
  BY <1>17 DEF Serve
<1>18. ASSUME ServeFails PROVE InOrder'
  BY <1>18 DEF ServeFails
<1>19. ASSUME PoolRuns PROVE InOrder'
  BY <1>19 DEF PoolRuns, PoolOnly, Pool!Open
<1>20. ASSUME NEW r \in Requests, Request(r) PROVE InOrder'
  BY <1>20 DEF Request
<1>21. ASSUME NEW r \in Requests, AddTask(r) PROVE InOrder'
  BY <1>21 DEF AddTask, PoolOnly, Become, Pool!Refuse, Pool!Offer,
     Pool!Accept, Pool!Reject, Pool!Become
<1>22. ASSUME NEW r \in Requests, Answer(r) PROVE InOrder'
  BY <1>22 DEF Answer, PoolOnly, Become
<1>23. ASSUME NEW r \in Requests, DropTask(r) PROVE InOrder'
  BY <1>23 DEF DropTask, PoolOnly, Pool!Drop, Pool!Become
<1>24. ASSUME NEW r \in Requests, Work(r) PROVE InOrder'
  BY <1>24 DEF Work, PoolOnly, Pool!Take, Pool!Finish, Pool!Working,
     Pool!Become
<1>25. ASSUME NEW r \in Requests, WorkerPanics(r) PROVE InOrder'
  BY <1>25 DEF WorkerPanics, PoolOnly, Pool!Fail, Pool!Working, Pool!Become
<1>26. ASSUME UNCHANGED vars PROVE InOrder'
  BY <1>26 DEF vars
<1>. QED
  BY <1>1, <1>2, <1>3, <1>4, <1>5, <1>6, <1>7, <1>8, <1>9, <1>10, <1>11,
     <1>12, <1>13, <1>14, <1>15, <1>16, <1>17, <1>18, <1>19, <1>20, <1>21,
     <1>22, <1>23, <1>24, <1>25, <1>26 DEF Next, Main

\* Requests come only through the listener, and only main closes the context.
LEMMA NextServerDown == Inv /\ [Next]_vars => ServerDown'
<1>. SUFFICES ASSUME Inv, [Next]_vars PROVE ServerDown'
  OBVIOUS
<1>. USE DaemonAssumption DEF Inv, TypeOK, PoolTypeOK, Starting, Stopping,
     Alive, InOrder, Started, ServerDown, InFlight, configVars, exitVars,
     serverVars, requestVars, poolVars
<1>1. ASSUME LoadConfig PROVE ServerDown'
  BY <1>1 DEF LoadConfig, Fail, Goto
<1>2. ASSUME SetLogger PROVE ServerDown'
  BY <1>2 DEF SetLogger, Fail, Goto
<1>3. ASSUME NewServices PROVE ServerDown'
  BY <1>3 DEF NewServices, Fail, Goto
<1>4. ASSUME NewServer PROVE ServerDown'
  BY <1>4 DEF NewServer, Fail, Goto
<1>5. ASSUME Run PROVE ServerDown'
  BY <1>5 DEF Run, Goto
<1>6. ASSUME Notify PROVE ServerDown'
  BY <1>6 DEF Notify, Goto
<1>7. ASSUME GotSignal PROVE ServerDown'
  BY <1>7 DEF GotSignal, Context
<1>8. ASSUME GotError PROVE ServerDown'
  BY <1>8 DEF GotError, OnError, Context
<1>9. ASSUME StopPool PROVE ServerDown'
  BY <1>9 DEF StopPool, Goto, Pool!Close
<1>10. ASSUME PoolTimeout \/ PoolPanics PROVE ServerDown'
  BY <1>10 DEF PoolTimeout, PoolPanics, QueueRead, Pool!GiveUp
<1>11. ASSUME PoolStopped PROVE ServerDown'
  BY <1>11 DEF PoolStopped, QueueRead, Pool!Closed, Goto
<1>12. ASSUME StopServer PROVE ServerDown'
  BY <1>12 DEF StopServer, Goto
<1>13. ASSUME ServerStopped PROVE ServerDown'
  BY <1>13 DEF ServerStopped
<1>14. ASSUME ServerTimeout PROVE ServerDown'
  BY <1>14 DEF ServerTimeout
<1>15. ASSUME Exit PROVE ServerDown'
  BY <1>15 DEF Exit
<1>16. ASSUME Signal PROVE ServerDown'
  BY <1>16 DEF Signal
<1>17. ASSUME Serve PROVE ServerDown'
  BY <1>17 DEF Serve
<1>18. ASSUME ServeFails PROVE ServerDown'
  BY <1>18 DEF ServeFails
<1>19. ASSUME PoolRuns PROVE ServerDown'
  BY <1>19 DEF PoolRuns, PoolOnly, Pool!Open
<1>20. ASSUME NEW r \in Requests, Request(r) PROVE ServerDown'
  BY <1>20 DEF Request
<1>21. ASSUME NEW r \in Requests, AddTask(r) PROVE ServerDown'
  BY <1>21 DEF AddTask, PoolOnly, Become, Pool!Refuse, Pool!Offer,
     Pool!Accept, Pool!Reject, Pool!Become
<1>22. ASSUME NEW r \in Requests, Answer(r) PROVE ServerDown'
  BY <1>22 DEF Answer, PoolOnly, Become
<1>23. ASSUME NEW r \in Requests, DropTask(r) PROVE ServerDown'
  BY <1>23 DEF DropTask, PoolOnly, Pool!Drop, Pool!Become
<1>24. ASSUME NEW r \in Requests, Work(r) PROVE ServerDown'
  BY <1>24 DEF Work, PoolOnly, Pool!Take, Pool!Finish, Pool!Working,
     Pool!Become
<1>25. ASSUME NEW r \in Requests, WorkerPanics(r) PROVE ServerDown'
  BY <1>25 DEF WorkerPanics, PoolOnly, Pool!Fail, Pool!Working, Pool!Become
<1>26. ASSUME UNCHANGED vars PROVE ServerDown'
  BY <1>26 DEF vars
<1>. QED
  BY <1>1, <1>2, <1>3, <1>4, <1>5, <1>6, <1>7, <1>8, <1>9, <1>10, <1>11,
     <1>12, <1>13, <1>14, <1>15, <1>16, <1>17, <1>18, <1>19, <1>20, <1>21,
     <1>22, <1>23, <1>24, <1>25, <1>26 DEF Next, Main

\* In a closed pool a worker takes a task only if the shutdown has given up.
LEMMA NextDrained == Inv /\ [Next]_vars => Drained'
<1>. SUFFICES ASSUME Inv, [Next]_vars PROVE Drained'
  OBVIOUS
<1>. USE DaemonAssumption DEF Inv, TypeOK, PoolTypeOK, Starting, Stopping,
     Alive, InOrder, Started, Drained, Pool!In, configVars, exitVars,
     serverVars, requestVars, poolVars
<1>1. ASSUME LoadConfig PROVE Drained'
  BY <1>1 DEF LoadConfig, Fail, Goto
<1>2. ASSUME SetLogger PROVE Drained'
  BY <1>2 DEF SetLogger, Fail, Goto
<1>3. ASSUME NewServices PROVE Drained'
  BY <1>3 DEF NewServices, Fail, Goto
<1>4. ASSUME NewServer PROVE Drained'
  BY <1>4 DEF NewServer, Fail, Goto
<1>5. ASSUME Run PROVE Drained'
  BY <1>5 DEF Run, Goto
<1>6. ASSUME Notify PROVE Drained'
  BY <1>6 DEF Notify, Goto
<1>7. ASSUME GotSignal PROVE Drained'
  BY <1>7 DEF GotSignal, Context
<1>8. ASSUME GotError PROVE Drained'
  BY <1>8 DEF GotError, OnError, Context
<1>9. ASSUME StopPool PROVE Drained'
  BY <1>9 DEF StopPool, Goto, Pool!Close
<1>10. ASSUME PoolTimeout \/ PoolPanics PROVE Drained'
  BY <1>10 DEF PoolTimeout, PoolPanics, QueueRead, Pool!GiveUp
<1>11. ASSUME PoolStopped PROVE Drained'
  BY <1>11 DEF PoolStopped, QueueRead, Pool!Closed, Goto
<1>12. ASSUME StopServer PROVE Drained'
  BY <1>12 DEF StopServer, Goto
<1>13. ASSUME ServerStopped PROVE Drained'
  BY <1>13 DEF ServerStopped
<1>14. ASSUME ServerTimeout PROVE Drained'
  BY <1>14 DEF ServerTimeout
<1>15. ASSUME Exit PROVE Drained'
  BY <1>15 DEF Exit
<1>16. ASSUME Signal PROVE Drained'
  BY <1>16 DEF Signal
<1>17. ASSUME Serve PROVE Drained'
  BY <1>17 DEF Serve
<1>18. ASSUME ServeFails PROVE Drained'
  BY <1>18 DEF ServeFails
<1>19. ASSUME PoolRuns PROVE Drained'
  BY <1>19 DEF PoolRuns, PoolOnly, Pool!Open
<1>20. ASSUME NEW r \in Requests, Request(r) PROVE Drained'
  BY <1>20 DEF Request
<1>21. ASSUME NEW r \in Requests, AddTask(r) PROVE Drained'
  BY <1>21 DEF AddTask, PoolOnly, Become, Pool!Refuse, Pool!Offer,
     Pool!Accept, Pool!Reject, Pool!Become
<1>22. ASSUME NEW r \in Requests, Answer(r) PROVE Drained'
  BY <1>22 DEF Answer, PoolOnly, Become
<1>23. ASSUME NEW r \in Requests, DropTask(r) PROVE Drained'
  BY <1>23 DEF DropTask, PoolOnly, Pool!Drop, Pool!Become
<1>24. ASSUME NEW r \in Requests, Work(r) PROVE Drained'
  BY <1>24 DEF Work, PoolOnly, Pool!Take, Pool!Finish, Pool!Working,
     Pool!Become
<1>25. ASSUME NEW r \in Requests, WorkerPanics(r) PROVE Drained'
  BY <1>25 DEF WorkerPanics, PoolOnly, Pool!Fail, Pool!Working, Pool!Become
<1>26. ASSUME UNCHANGED vars PROVE Drained'
  BY <1>26 DEF vars
<1>. QED
  BY <1>1, <1>2, <1>3, <1>4, <1>5, <1>6, <1>7, <1>8, <1>9, <1>10, <1>11,
     <1>12, <1>13, <1>14, <1>15, <1>16, <1>17, <1>18, <1>19, <1>20, <1>21,
     <1>22, <1>23, <1>24, <1>25, <1>26 DEF Next, Main

\* The cause is written with the step out of the loop or into CloseLogger.
LEMMA NextCauses == Inv /\ [Next]_vars => Causes'
<1>. SUFFICES ASSUME Inv, [Next]_vars PROVE Causes'
  OBVIOUS
<1>. USE DaemonAssumption DEF Inv, TypeOK, PoolTypeOK, Starting, Stopping,
     Alive, InOrder, Started, Causes, configVars, exitVars, serverVars,
     requestVars, poolVars
<1>1. ASSUME LoadConfig PROVE Causes'
  BY <1>1 DEF LoadConfig, Fail, Goto
<1>2. ASSUME SetLogger PROVE Causes'
  BY <1>2 DEF SetLogger, Fail, Goto
<1>3. ASSUME NewServices PROVE Causes'
  BY <1>3 DEF NewServices, Fail, Goto
<1>4. ASSUME NewServer PROVE Causes'
  BY <1>4 DEF NewServer, Fail, Goto
<1>5. ASSUME Run PROVE Causes'
  BY <1>5 DEF Run, Goto
<1>6. ASSUME Notify PROVE Causes'
  BY <1>6 DEF Notify, Goto
<1>7. ASSUME GotSignal PROVE Causes'
  BY <1>7 DEF GotSignal, Context
<1>8. ASSUME GotError PROVE Causes'
  BY <1>8 DEF GotError, OnError, Context
<1>9. ASSUME StopPool PROVE Causes'
  BY <1>9 DEF StopPool, Goto, Pool!Close
<1>10. ASSUME PoolTimeout \/ PoolPanics PROVE Causes'
  BY <1>10 DEF PoolTimeout, PoolPanics, QueueRead, Pool!GiveUp
<1>11. ASSUME PoolStopped PROVE Causes'
  BY <1>11 DEF PoolStopped, QueueRead, Pool!Closed, Goto
<1>12. ASSUME StopServer PROVE Causes'
  BY <1>12 DEF StopServer, Goto
<1>13. ASSUME ServerStopped PROVE Causes'
  BY <1>13 DEF ServerStopped
<1>14. ASSUME ServerTimeout PROVE Causes'
  BY <1>14 DEF ServerTimeout
<1>15. ASSUME Exit PROVE Causes'
  BY <1>15 DEF Exit
<1>16. ASSUME Signal PROVE Causes'
  BY <1>16 DEF Signal
<1>17. ASSUME Serve PROVE Causes'
  BY <1>17 DEF Serve
<1>18. ASSUME ServeFails PROVE Causes'
  BY <1>18 DEF ServeFails
<1>19. ASSUME PoolRuns PROVE Causes'
  BY <1>19 DEF PoolRuns, PoolOnly, Pool!Open
<1>20. ASSUME NEW r \in Requests, Request(r) PROVE Causes'
  BY <1>20 DEF Request
<1>21. ASSUME NEW r \in Requests, AddTask(r) PROVE Causes'
  BY <1>21 DEF AddTask, PoolOnly, Become, Pool!Refuse, Pool!Offer,
     Pool!Accept, Pool!Reject, Pool!Become
<1>22. ASSUME NEW r \in Requests, Answer(r) PROVE Causes'
  BY <1>22 DEF Answer, PoolOnly, Become
<1>23. ASSUME NEW r \in Requests, DropTask(r) PROVE Causes'
  BY <1>23 DEF DropTask, PoolOnly, Pool!Drop, Pool!Become
<1>24. ASSUME NEW r \in Requests, Work(r) PROVE Causes'
  BY <1>24 DEF Work, PoolOnly, Pool!Take, Pool!Finish, Pool!Working,
     Pool!Become
<1>25. ASSUME NEW r \in Requests, WorkerPanics(r) PROVE Causes'
  BY <1>25 DEF WorkerPanics, PoolOnly, Pool!Fail, Pool!Working, Pool!Become
<1>26. ASSUME UNCHANGED vars PROVE Causes'
  BY <1>26 DEF vars
<1>. QED
  BY <1>1, <1>2, <1>3, <1>4, <1>5, <1>6, <1>7, <1>8, <1>9, <1>10, <1>11,
     <1>12, <1>13, <1>14, <1>15, <1>16, <1>17, <1>18, <1>19, <1>20, <1>21,
     <1>22, <1>23, <1>24, <1>25, <1>26 DEF Next, Main

\* Only LoadConfig sets the key.
LEMMA NextKey == Inv /\ [Next]_vars => KeyInForce'
<1>. SUFFICES ASSUME Inv, [Next]_vars PROVE KeyInForce'
  OBVIOUS
<1>. USE DaemonAssumption DEF Inv, TypeOK, PoolTypeOK, Starting, Stopping,
     Alive, KeyInForce, configVars, exitVars, serverVars, requestVars,
     poolVars
<1>1. ASSUME LoadConfig PROVE KeyInForce'
  BY <1>1, EffectiveKey DEF LoadConfig, Fail, Goto
<1>2. ASSUME SetLogger PROVE KeyInForce'
  BY <1>2 DEF SetLogger, Fail, Goto
<1>3. ASSUME NewServices PROVE KeyInForce'
  BY <1>3 DEF NewServices, Fail, Goto
<1>4. ASSUME NewServer PROVE KeyInForce'
  BY <1>4 DEF NewServer, Fail, Goto
<1>5. ASSUME Run PROVE KeyInForce'
  BY <1>5 DEF Run, Goto
<1>6. ASSUME Notify PROVE KeyInForce'
  BY <1>6 DEF Notify, Goto
<1>7. ASSUME GotSignal PROVE KeyInForce'
  BY <1>7 DEF GotSignal, Context
<1>8. ASSUME GotError PROVE KeyInForce'
  BY <1>8 DEF GotError, OnError, Context
<1>9. ASSUME StopPool PROVE KeyInForce'
  BY <1>9 DEF StopPool, Goto, Pool!Close
<1>10. ASSUME PoolTimeout \/ PoolPanics PROVE KeyInForce'
  BY <1>10 DEF PoolTimeout, PoolPanics, QueueRead, Pool!GiveUp
<1>11. ASSUME PoolStopped PROVE KeyInForce'
  BY <1>11 DEF PoolStopped, QueueRead, Pool!Closed, Goto
<1>12. ASSUME StopServer PROVE KeyInForce'
  BY <1>12 DEF StopServer, Goto
<1>13. ASSUME ServerStopped PROVE KeyInForce'
  BY <1>13 DEF ServerStopped
<1>14. ASSUME ServerTimeout PROVE KeyInForce'
  BY <1>14 DEF ServerTimeout
<1>15. ASSUME Exit PROVE KeyInForce'
  BY <1>15 DEF Exit
<1>16. ASSUME Signal PROVE KeyInForce'
  BY <1>16 DEF Signal
<1>17. ASSUME Serve PROVE KeyInForce'
  BY <1>17 DEF Serve
<1>18. ASSUME ServeFails PROVE KeyInForce'
  BY <1>18 DEF ServeFails
<1>19. ASSUME PoolRuns PROVE KeyInForce'
  BY <1>19 DEF PoolRuns, PoolOnly, Pool!Open
<1>20. ASSUME NEW r \in Requests, Request(r) PROVE KeyInForce'
  BY <1>20 DEF Request
<1>21. ASSUME NEW r \in Requests, AddTask(r) PROVE KeyInForce'
  BY <1>21 DEF AddTask, PoolOnly, Become, Pool!Refuse, Pool!Offer,
     Pool!Accept, Pool!Reject, Pool!Become
<1>22. ASSUME NEW r \in Requests, Answer(r) PROVE KeyInForce'
  BY <1>22 DEF Answer, PoolOnly, Become
<1>23. ASSUME NEW r \in Requests, DropTask(r) PROVE KeyInForce'
  BY <1>23 DEF DropTask, PoolOnly, Pool!Drop, Pool!Become
<1>24. ASSUME NEW r \in Requests, Work(r) PROVE KeyInForce'
  BY <1>24 DEF Work, PoolOnly, Pool!Take, Pool!Finish, Pool!Working,
     Pool!Become
<1>25. ASSUME NEW r \in Requests, WorkerPanics(r) PROVE KeyInForce'
  BY <1>25 DEF WorkerPanics, PoolOnly, Pool!Fail, Pool!Working, Pool!Become
<1>26. ASSUME UNCHANGED vars PROVE KeyInForce'
  BY <1>26 DEF vars
<1>. QED
  BY <1>1, <1>2, <1>3, <1>4, <1>5, <1>6, <1>7, <1>8, <1>9, <1>10, <1>11,
     <1>12, <1>13, <1>14, <1>15, <1>16, <1>17, <1>18, <1>19, <1>20, <1>21,
     <1>22, <1>23, <1>24, <1>25, <1>26 DEF Next, Main

\* The process begins with neither server nor pool.
LEMMA InitInv == Init => Inv
<1>. SUFFICES ASSUME Init PROVE Inv
  OBVIOUS
<1>. USE DaemonAssumption DEF Init, Pool!Init, Starting, Stopping
<1>1. TypeOK
  <2>1. /\ useJWT \in BOOLEAN /\ signalCh \in BOOLEAN /\ serverErrCh \in BOOLEAN
        /\ listening \in BOOLEAN /\ ctxDone \in BOOLEAN
        /\ gaveUp \in BOOLEAN /\ hung \in BOOLEAN
    OBVIOUS
  <2>. QED
    BY <2>1 DEF TypeOK
<1>2. PoolTypeOK
  BY DEF PoolTypeOK
<1>3. InOrder /\ ServerDown /\ Drained /\ Causes /\ KeyInForce
  BY DEF InOrder, ServerDown, Drained, Causes, KeyInForce, Started
<1>. QED
  BY <1>1, <1>2, <1>3 DEF Inv

\* The invariant holds whatever signals, errors and requests come, and when.
LEMMA SpecInv == Spec => []Inv
<1>1. Inv /\ [Next]_vars => Inv'
  BY NextTypeOK, NextInOrder, NextServerDown, NextDrained, NextCauses, NextKey
     DEF Inv
<1>. QED
  BY InitInv, <1>1, PTL DEF Spec

-----------------------------------------------------------------------------
(* The properties                                                          *)

\* daemon.go:150-177, httpserver.go:240-262: whatever signals and errors come while
\* requests are underway, a process that has run its services and exits by itself
\* has stopped the pool, serves no more, and leaves requests behind only if
\* the server's shutdown ran out of time.
THEOREM ExitsGracefully == Spec => []GracefulExit
<1>1. ASSUME Inv PROVE GracefulExit
  BY <1>1 DEF Inv, InOrder, ServerDown, Drained, Started, GracefulExit
<1>. QED
  BY SpecInv, <1>1, PTL

\* main.go:226-244: the exit code 0 tells of a signal and of a shutdown that was gone
\* through; after an error it is never 0.
THEOREM ExitCodeTells == Spec => []ExitTellsCause
<1>1. ASSUME Inv PROVE ExitTellsCause
  BY <1>1 DEF Inv, TypeOK, InOrder, Causes, Started, ExitTellsCause
<1>. QED
  BY SpecInv, <1>1, PTL

\* config.go:84, 170-174: with tokens on, main gets past LoadConfig only with a key
\* that ValidateConfig has seen.
THEOREM KeyIsValid == Spec => []KeyInForce
<1>1. Inv => KeyInForce
  BY DEF Inv
<1>. QED
  BY SpecInv, <1>1, PTL

-----------------------------------------------------------------------------
(* The daemon and the promise of the pool                                  *)

\* What main and Shutdown do to the pool, and the handlers of requests with AddTask, are
\* steps of PoolPromise, which the pool keeps (PoolPromiseProofs): nothing in this
\* module asks the pool for more than it promises, and neither a signal nor an error
\* in the middle of a start or a shutdown does.
THEOREM AsksOnlyThePromise == Spec => Pool!Spec
<1>1. Init => Pool!Init
  BY DEF Init
<1>2. [Next]_vars => [Pool!Next]_<<task, phase, late>>
  <2>1. ASSUME \/ StopPool \/ PoolTimeout \/ PoolPanics \/ PoolStopped
               \/ PoolRuns
        PROVE  Pool!Next
    BY <2>1 DEF StopPool, PoolTimeout, PoolPanics, PoolStopped, PoolRuns,
       Pool!Next
  <2>2. ASSUME NEW r \in Requests,
               AddTask(r) \/ DropTask(r) \/ Work(r) \/ WorkerPanics(r)
        PROVE  Pool!Next
    BY <2>2 DEF AddTask, DropTask, Work, WorkerPanics, Pool!Next
  <2>3. ASSUME \/ LoadConfig \/ SetLogger \/ NewServices \/ NewServer \/ Run
               \/ Notify \/ GotSignal \/ GotError \/ StopServer \/ ServerStopped
               \/ ServerTimeout \/ Exit \/ Signal \/ Serve \/ ServeFails
               \/ \E r \in Requests : Request(r) \/ Answer(r)
        PROVE  UNCHANGED <<task, phase, late>>
    BY <2>3
       DEF LoadConfig, SetLogger, NewServices, NewServer, Run, Notify, GotSignal,
           GotError, StopServer, ServerStopped, ServerTimeout, Exit, Signal, Serve,
           ServeFails, Request, Answer, poolVars
  <2>4. ASSUME UNCHANGED vars PROVE UNCHANGED <<task, phase, late>>
    BY <2>4 DEF vars, poolVars
  <2>. QED
    BY <2>1, <2>2, <2>3, <2>4 DEF Next, Main
<1>. QED
  BY <1>1, <1>2, PTL DEF Spec, Pool!Spec

=============================================================================
