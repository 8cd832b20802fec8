------------------------------- MODULE Daemon -------------------------------
(***************************************************************************)
(* The process: main (cmd/app), the daemon (app/daemon), the configuration *)
(* (app/config), the HTTP server (common/httpserver) and the worker pool   *)
(* service (common/workerpoolservice) from start to exit, and the requests *)
(* that are underway meanwhile. Each request is one task of the pool, which *)
(* is PoolPromise: every step of the pool is one of its steps.             *)
(***************************************************************************)
EXTENDS Naturals, FiniteSets

CONSTANTS
  Requests,
  QueueSize,   \* WorkerPoolServiceCfg.WPCfg.TaskQueueSize
  MaxFails,    \* bound on the tasks that a worker's panic loses
  Timeouts,    \* pairs of shutdown timeouts: of the daemon, of the service
  Secrets      \* where the JWT key may be given: sets of "file", "env", "args"

ASSUME DaemonAssumption == MaxFails \in Nat

VARIABLES
  main,         \* where the main goroutine is
  useJWT,       \* HttpServiceCfg.UseJWT
  jwtKey,       \* the source of HttpServiceCfg.JwtKey
  timeouts,     \* the two shutdown timeouts
  cause,        \* why the daemon stops
  exitCode,
  signalCh,     \* a signal is buffered in Run's signalCh
  server,       \* where the goroutine in httpServer.Run is
  serverErrCh,  \* an error is buffered in httpServerErrCh
  listening,    \* the TCP listener is open
  ctxDone,      \* the daemon's context is closed
  gaveUp,       \* history: httpServer.Shutdown ran out of time
  hung,         \* Pool.Stop ranges over the queue that RunBG has not made
  request,      \* where the handler of each request is
  fails,        \* tasks lost by a worker's panic
  task, phase, late  \* the pool (PoolPromise)

poolVars    == <<task, phase, late>>
configVars  == <<useJWT, jwtKey, timeouts>>
serverVars  == <<server, serverErrCh, listening, gaveUp>>
requestVars == <<request, fails>>
exitVars    == <<cause, exitCode>>
vars == <<main, configVars, exitVars, signalCh, serverVars, ctxDone, hung,
          requestVars, poolVars>>

Pool == INSTANCE PoolPromise WITH Tasks <- Requests

Starting == {"config", "logger", "services", "listen", "run", "notify"}
Stopping == {"stopPool", "waitPool", "stopServer", "waitServer", "closeLog"}
Alive == main \notin {"exited", "killed"}

TypeOK ==
  /\ main \in Starting \cup Stopping \cup {"loop", "exited", "killed"}
  /\ useJWT \in BOOLEAN
  /\ jwtKey \in {"none", "file", "env", "args"}
  /\ timeouts \in Timeouts
  /\ cause \in {"none", "signal", "error"} /\ exitCode \in {0, 1}
  /\ signalCh \in BOOLEAN /\ serverErrCh \in BOOLEAN
  /\ server \in {"none", "spawned", "serving", "returned"}
  /\ listening \in BOOLEAN /\ ctxDone \in BOOLEAN
  /\ gaveUp \in BOOLEAN /\ hung \in BOOLEAN
  /\ request \in [Requests -> {"none", "handling", "waiting", "answered", "failed"}]
  /\ fails \in 0..MaxFails

Init ==
  /\ main = "config" /\ useJWT = FALSE /\ jwtKey = "none"
  /\ timeouts \in Timeouts
  /\ cause = "none" /\ exitCode = 0 /\ signalCh = FALSE
  /\ server = "none" /\ serverErrCh = FALSE /\ listening = FALSE
  /\ ctxDone = FALSE /\ gaveUp = FALSE /\ hung = FALSE
  /\ request = [r \in Requests |-> "none"] /\ fails = 0
  /\ Pool!Init

-----------------------------------------------------------------------------
(* Start                                                                   *)

MutFail == main' = "closeLog" /\ cause' = "error" /\ exitCode' = 0
\* An error of app.Action: it is logged, and main goes on to close the log.
Fail == main' = "closeLog" /\ cause' = "error" /\ exitCode' = 1

Goto(to) == main' = to /\ UNCHANGED exitVars

MutEffective(given) ==
  IF "env" \in given THEN "env"
  ELSE IF "file" \in given THEN "file" ELSE IF "args" \in given THEN "args" ELSE "none"
\* What the key is after LoadYamlConfig: ArgsJwtKey goes first, the argument of the
\* command line unless the file has overwritten it (args_jwt_key).
Effective(given) ==
  IF "file" \in given THEN "file"
  ELSE IF "args" \in given THEN "args" ELSE IF "env" \in given THEN "env" ELSE "none"

\* ValidateConfig looks at ArgsJwtKey only.
Valid(jwt, given) == jwt => given \cap {"args", "file"} # {}

\* The file is missing or wrong, or a parameter is not valid; else it is in force.
LoadConfig ==
  /\ main = "config"
  /\ \/ Fail /\ UNCHANGED <<useJWT, jwtKey>>
     \/ \E jwt \in BOOLEAN, given \in Secrets :
          /\ Valid(jwt, given)
          /\ useJWT' = jwt /\ jwtKey' = Effective(given)
          /\ Goto("logger")
  /\ UNCHANGED <<timeouts, signalCh, serverVars, ctxDone, hung, requestVars,
                 poolVars>>

\* The global logger, then the metrics and the memory limit.
SetLogger ==
  /\ main = "logger"
  /\ Fail \/ Goto("services")
  /\ UNCHANGED <<configVars, signalCh, serverVars, ctxDone, hung, requestVars,
                 poolVars>>

\* daemon.New up to the handlers, and the pool of the service, which is new.
NewServices ==
  /\ main = "services"
  /\ Fail \/ Goto("listen")
  /\ UNCHANGED <<configVars, signalCh, serverVars, ctxDone, hung, requestVars,
                 poolVars>>

\* The listener is opened; connections wait in it until the server accepts them.
NewServer ==
  /\ main = "listen"
  /\ \/ Fail /\ UNCHANGED listening
     \/ Goto("run") /\ listening' = TRUE
  /\ UNCHANGED <<configVars, signalCh, server, serverErrCh, gaveUp, ctxDone,
                 hung, requestVars, poolVars>>

\* The goroutines of the two services; the pool opens in PoolRuns.
Run ==
  /\ main = "run"
  /\ Goto("notify") /\ server' = "spawned"
  /\ UNCHANGED <<configVars, signalCh, serverErrCh, listening, gaveUp, ctxDone,
                 hung, requestVars, poolVars>>

Notify ==
  /\ main = "notify"
  /\ Goto("loop")
  /\ UNCHANGED <<configVars, signalCh, serverVars, ctxDone, hung, requestVars,
                 poolVars>>

\* SIGINT or SIGTERM: before signal.Notify the process ends at once, later the
\* channel holds one signal, and what comes after it is dropped.
Signal ==
  /\ Alive
  /\ IF main \in Starting
       THEN main' = "killed" /\ UNCHANGED signalCh
       ELSE signalCh' = TRUE /\ UNCHANGED main
  /\ UNCHANGED <<configVars, exitVars, serverVars, ctxDone, hung, requestVars,
                 poolVars>>

-----------------------------------------------------------------------------
(* The loop of Run, and Shutdown                                           *)

MutContext == ctxDone' = TRUE
\* d.cancel is deferred: the context lives until the services are stopped.
Context == UNCHANGED ctxDone

GotSignal ==
  /\ main = "loop" /\ signalCh
  /\ main' = "stopPool" /\ cause' = "signal"
  /\ Context
  /\ UNCHANGED <<configVars, exitCode, signalCh, serverVars, hung, requestVars,
                 poolVars>>

MutOnError == main' = "loop" /\ UNCHANGED <<cause, ctxDone>>
OnError == main' = "stopPool" /\ cause' = "error" /\ Context

\* The server's error. The worker pool service returns only when it is stopped.
GotError ==
  /\ main = "loop" /\ serverErrCh
  /\ OnError
  /\ serverErrCh' = FALSE
  /\ UNCHANGED <<configVars, exitCode, signalCh, server, listening, gaveUp,
                 hung, requestVars, poolVars>>

\* The timeout of Service.Shutdown; 0 is no limit, the configured one too.
Clamp(d, w) == IF d > w THEN w ELSE d
Timed == Clamp(timeouts[1], timeouts[2]) # 0

\* Pool.Stop, SOFT after a signal and HARD after an error, waits for ever in a
\* pool that RunBG has not started.
StopPool ==
  /\ main = "stopPool"
  /\ Goto("waitPool") /\ hung' = (phase = "new")
  /\ Pool!Close
  /\ UNCHANGED <<configVars, signalCh, serverVars, ctxDone, requestVars>>

\* Queued tasks are dropped first; then the workers are waited for.
QueueRead == ~hung /\ Pool!In("queued") = {}

PoolTimeout ==
  /\ main = "waitPool" /\ QueueRead /\ Timed /\ ~late
  /\ Pool!GiveUp
  /\ UNCHANGED <<main, configVars, exitVars, signalCh, serverVars, ctxDone, hung,
                 requestVars>>

\* The HARD Stop meets a task that the cache gave out with its stop signal: its send
\* panics, is recovered, and no worker is waited for.
PoolPanics ==
  /\ main = "waitPool" /\ QueueRead /\ cause = "error" /\ ~late
  /\ Pool!In("held") # {}
  /\ Pool!GiveUp
  /\ UNCHANGED <<main, configVars, exitVars, signalCh, serverVars, ctxDone, hung,
                 requestVars>>

\* Shutdown of the HTTP service closes a context that no request uses.
PoolStopped ==
  /\ main = "waitPool" /\ QueueRead
  /\ Pool!Closed
  /\ Goto("stopServer")
  /\ UNCHANGED <<configVars, signalCh, serverVars, ctxDone, hung, requestVars>>

InFlight == {r \in Requests : request[r] \in {"handling", "waiting"}}

\* httpServer.Shutdown closes the listener, if Serve has got hold of it ...
StopServer ==
  /\ main = "stopServer"
  /\ Goto("waitServer") /\ listening' = (listening /\ server # "serving")
  /\ UNCHANGED <<configVars, signalCh, server, serverErrCh, gaveUp, ctxDone,
                 hung, requestVars, poolVars>>

\* ... and waits for the connections in use, or for its context, which is a child
\* of the daemon's; then the deferred d.cancel.
ServerStopped ==
  /\ main = "waitServer"
  /\ InFlight = {} \/ ctxDone
  /\ main' = "closeLog" /\ ctxDone' = TRUE
  /\ exitCode' = IF cause = "error" THEN 1 ELSE 0
  /\ UNCHANGED <<configVars, cause, signalCh, serverVars, hung, requestVars,
                 poolVars>>

ServerTimeout ==
  /\ main = "waitServer" /\ InFlight # {}
  /\ gaveUp' = TRUE
  /\ main' = "closeLog" /\ ctxDone' = TRUE
  /\ exitCode' = IF cause = "error" THEN 1 ELSE 0
  /\ UNCHANGED <<configVars, cause, signalCh, server, serverErrCh, listening,
                 hung, requestVars, poolVars>>

\* CloseLogger, which may fail, and os.Exit.
Exit ==
  /\ main = "closeLog"
  /\ main' = "exited" /\ exitCode' \in {exitCode, 1}
  /\ UNCHANGED <<configVars, cause, signalCh, serverVars, ctxDone, hung,
                 requestVars, poolVars>>

-----------------------------------------------------------------------------
(* The HTTP server and the pool                                            *)

\* The goroutine of Server.Run calls Serve, which returns at once, and closes the
\* listener, when Shutdown has begun. (ErrServerClosed, for which nobody waits any
\* more, is left out.)
Serve ==
  /\ Alive /\ server = "spawned"
  /\ IF main \in {"waitServer", "closeLog"}
       THEN server' = "returned" /\ listening' = FALSE
       ELSE server' = "serving" /\ UNCHANGED listening
  /\ UNCHANGED <<main, configVars, exitVars, signalCh, serverErrCh, gaveUp,
                 ctxDone, hung, requestVars, poolVars>>

\* ServeTLS returns an error of the certificate and leaves the listener open; Serve
\* closes it when it returns an error or panics, while nobody has stopped the server.
ServeFails ==
  /\ Alive
  /\ \/ server = "spawned" /\ UNCHANGED listening
     \/ server = "serving" /\ listening /\ listening' = FALSE
  /\ server' = "returned" /\ serverErrCh' = TRUE
  /\ UNCHANGED <<main, configVars, exitVars, signalCh, gaveUp, ctxDone, hung,
                 requestVars, poolVars>>

Request(r) ==
  /\ Alive /\ request[r] = "none" /\ server = "serving" /\ listening
  /\ request' = [request EXCEPT ![r] = "handling"]
  /\ UNCHANGED <<main, configVars, exitVars, signalCh, serverVars, ctxDone, hung,
                 fails, poolVars>>

Become(r, to) == request' = [request EXCEPT ![r] = to]
PoolOnly == UNCHANGED <<main, configVars, exitVars, signalCh, serverVars,
                        ctxDone, hung>>

\* Pool.AddTask waits for mx, which the shutdown holds, and refuses, offers the task
\* to the queue, or sees the queue closed under it.
AddTask(r) ==
  /\ Alive /\ request[r] = "handling"
  /\ \/ phase # "closing" /\ Pool!Refuse(r) /\ Become(r, "failed")
     \/ Pool!Offer(r) /\ UNCHANGED request
     \/ Pool!Accept(r) /\ Become(r, "waiting")
     \/ ~hung /\ Pool!Reject(r) /\ Become(r, "failed")
  /\ PoolOnly /\ UNCHANGED fails

Answer(r) ==
  /\ Alive /\ request[r] = "waiting" /\ task[r] = "finished"
  /\ Become(r, "answered")
  /\ PoolOnly /\ UNCHANGED <<fails, poolVars>>

\* Service.Run in its goroutine.
PoolRuns ==
  /\ main \in {"notify", "loop"} \cup Stopping
  /\ server # "none"
  /\ Pool!Open
  /\ PoolOnly /\ UNCHANGED requestVars

DropTask(r) ==
  /\ main = "waitPool" /\ ~hung
  /\ Pool!Drop(r)
  /\ PoolOnly /\ UNCHANGED requestVars

Work(r) ==
  /\ Alive /\ (Pool!Take(r) \/ Pool!Finish(r))
  /\ PoolOnly /\ UNCHANGED requestVars

WorkerPanics(r) ==
  /\ Alive /\ fails < MaxFails
  /\ Pool!Fail(r) /\ fails' = fails + 1
  /\ PoolOnly /\ UNCHANGED request

-----------------------------------------------------------------------------

Main ==
  \/ LoadConfig \/ SetLogger \/ NewServices \/ NewServer \/ Run \/ Notify
  \/ GotSignal \/ GotError \/ StopPool \/ PoolTimeout \/ PoolStopped
  \/ StopServer \/ ServerStopped \/ ServerTimeout \/ Exit

Next ==
  \/ Main \/ Signal \/ Serve \/ ServeFails \/ PoolRuns \/ PoolPanics
  \/ \E r \in Requests :
       \/ Request(r) \/ AddTask(r) \/ Answer(r)
       \/ DropTask(r) \/ Work(r) \/ WorkerPanics(r)

\* The main goroutine goes on (the timers of the shutdown are part of it), and so
\* do the goroutines of the services and the shutdown's reading of the queue.
\* Nothing is assumed of tasks: a handler without a timeout may run for ever.
Fairness ==
  /\ WF_vars(Main)
  /\ WF_vars(Serve) /\ WF_vars(PoolRuns)
  /\ WF_vars(\E r \in Requests : DropTask(r))

Spec == Init /\ [][Next]_vars /\ Fairness

-----------------------------------------------------------------------------

\* daemon.go:150-177, httpserver.go:240-262, "wait for active connections to close":
\* a process that exits by itself leaves no request behind that it has accepted,
\* unless the server's shutdown ran out of time, and serves no more; by then the pool
\* has stopped.
GracefulExit ==
  main = "exited" /\ server # "none" =>
    /\ InFlight # {} => gaveUp
    /\ phase = "closed" /\ ~(server = "serving" /\ listening)
    /\ ~late => Pool!In("held") = {} /\ Pool!In("queued") = {}

\* main.go:226-244: a process exits with 0 only after a signal, and then all of
\* its services were started and stopped.
ExitTellsCause ==
  /\ main = "exited" /\ exitCode = 0 => cause = "signal" /\ phase = "closed"
  /\ main = "exited" /\ cause = "error" => exitCode = 1

\* config.go:84, 170-174: if the service needs a key, the one in force is the one that
\* ValidateConfig has seen, whatever the environment says.
KeyInForce ==
  main \notin {"config", "closeLog", "exited", "killed"} /\ useJWT =>
    jwtKey \in {"args", "file"}

\* daemon.go:122-145: a signal, or the error of the server, ends the process when both
\* shutdown timeouts are set, unless it came before RunBG made the queue.
StopsInTime ==
  (main \notin Starting /\ (signalCh \/ serverErrCh))
    ~> ~Alive \/ hung \/ timeouts[1] = 0 \/ timeouts[2] = 0
=============================================================================
