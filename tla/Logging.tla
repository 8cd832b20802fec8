------------------------------ MODULE Logging ------------------------------
(***************************************************************************)
(* The global logger (pkg/common/logger), which a request may replace      *)
(* while others log through it, and the log of HTTP traffic                *)
(* (pkg/common/httplog), whose file is closed by both. A sink is a file    *)
(* that a logger writes to; levels and formats of the messages are left    *)
(* out. A lumberjack sink opens its file when it is written to, also after *)
(* it was closed.                                                          *)
(***************************************************************************)
EXTENDS Naturals, FiniteSets

CONSTANTS
  Sinks,        \* each is made once
  Rotated,      \* those of lumberjack ...
  Urls,         \* ... and of zap.Open for a URL, whose closer is thrown away
  Configurers,  \* goroutines that set the configuration
  Writers,      \* goroutines that log
  None          \* nil

ASSUME SinksAssumption ==
  /\ Rotated \cap Urls = {} /\ Rotated \cup Urls \subseteq Sinks
  /\ None \notin Sinks /\ \A sinks \in SUBSET Sinks : sinks # None

VARIABLES
  zap,       \* gZapLogger: the sinks of its cores besides the console, or nil
  enabled,   \* gLogCfg.ZapConfig.Enable
  closers,   \* gClosers
  httpOn,    \* Logger.cfg.Enable of the HTTP log
  httpFile,  \* its fileLogger
  open,      \* the sinks whose file is open
  used,      \* the sinks made so far
  setter,    \* where each configurer is
  cores,     \* the sinks of the logger it is building
  writer,    \* where each writer is
  target,    \* the sinks of the logger it has read
  closed,    \* history: sinks that were closed
  reopened,  \* history: opened again by a writer that a configurer overtook
  lapped     \* history: two configurers were underway at the same time

vars == <<zap, enabled, closers, httpOn, httpFile, open, used, setter, cores,
          writer, target, closed, reopened, lapped>>

TypeOK ==
  /\ zap \in (SUBSET Sinks) \cup {None} /\ enabled \in BOOLEAN
  /\ closers \subseteq Sinks
  /\ httpOn \in BOOLEAN /\ httpFile \in Rotated \cup {None}
  /\ open \subseteq used /\ used \subseteq Sinks
  /\ setter \in [Configurers -> {"idle", "reset", "level", "build", "http"}]
  /\ cores \in [Configurers -> SUBSET Sinks]
  /\ writer \in [Writers -> {"idle", "checked", "write"}]
  /\ target \in [Writers -> SUBSET Sinks]
  /\ closed \subseteq used /\ reopened \subseteq used
  /\ lapped \in BOOLEAN

\* init of the package: the default logger writes to the console.
Init ==
  /\ zap = {} /\ enabled = TRUE /\ closers = {}
  /\ httpOn = FALSE /\ httpFile = None
  /\ open = {} /\ used = {}
  /\ setter = [c \in Configurers |-> "idle"] /\ cores = [c \in Configurers |-> {}]
  /\ writer = [w \in Writers |-> "idle"] /\ target = [w \in Writers |-> {}]
  /\ closed = {} /\ reopened = {} /\ lapped = FALSE

-----------------------------------------------------------------------------
(* Configuration                                                           *)

globalVars  == <<zap, enabled>>
httpVars    == <<httpOn, httpFile>>
writerVars  == <<writer, target>>

Goto(c, to) == setter' = [setter EXCEPT ![c] = to]

\* For the history only: who is between the first and the last step of a
\* configuration, and whether another begins meanwhile.
Underway == {c \in Configurers : setter[c] # "idle"}
Begin(c) == setter[c] = "idle" /\ lapped' = (lapped \/ Underway # {})

\* A file is closed; if it is open again later, that is somebody's doing.
Close(sinks) ==
  /\ open' = open \ sinks /\ reopened' = reopened \ sinks
  /\ closed' = closed \cup (sinks \cap used)

\* Every file that was registered; the loggers stay in use.
gClose == Close(closers)

\* SetGlobalConfig begins with CloseLogger, which closes the files ...
CloseLogger(c) ==
  /\ gClose /\ Goto(c, "reset")
  /\ UNCHANGED <<globalVars, closers, httpVars, used, cores, writerVars>>

\* A request with a configuration that can be read; any other changes nothing, and
\* what follows SetGlobalConfig keeps no state.
LoggerSetConfigHandler(c) == Begin(c) /\ CloseLogger(c)

\* ... and then takes up the default logger.
Reset(c) ==
  /\ setter[c] = "reset"
  /\ closers' = {} /\ zap' = {}
  /\ Goto(c, "level")
  /\ UNCHANGED <<enabled, httpVars, open, used, cores, writerVars, closed, reopened,
                 lapped>>

\* The configuration is in force before it has proved right. A wrong level, or
\* Enable = false, leaves the default logger; ZapConfig.Enable = false, none.
SetGlobalConfig(c) ==
  /\ setter[c] = "level"
  /\ enabled' \in BOOLEAN
  /\ \/ Goto(c, "idle") /\ UNCHANGED zap
     \/ ~enabled' /\ Goto(c, "idle") /\ zap' = None
     \/ enabled' /\ Goto(c, "build") /\ UNCHANGED zap
  /\ cores' = [cores EXCEPT ![c] = {}]
  /\ UNCHANGED <<closers, httpVars, open, used, writerVars, closed, reopened, lapped>>

\* newZapLogger: a core with a sink of its own (the others write to the console).
\* Only a sink of lumberjack is not opened yet.
AddCore(c, s) ==
  /\ setter[c] = "build" /\ s \notin used
  /\ used' = used \cup {s}
  /\ cores' = [cores EXCEPT ![c] = @ \cup {s}]
  /\ open' = IF s \in Rotated THEN open ELSE open \cup {s}
  /\ closers' = IF s \in Urls THEN closers ELSE closers \cup {s}
  /\ UNCHANGED <<globalVars, httpVars, setter, writerVars, closed, reopened, lapped>>

MutAbort(c) ==
  /\ setter[c] = "build"
  /\ UNCHANGED <<open, closed, reopened>>
  /\ zap' = None /\ Goto(c, "idle")
  /\ UNCHANGED <<enabled, closers, httpVars, used, cores, writerVars, lapped>>
\* A core is wrong: the files are closed, and there is no logger; nor if the level of
\* the stack traces is, before any core.
Abort(c) ==
  /\ setter[c] = "build"
  /\ gClose \/ (cores[c] = {} /\ UNCHANGED <<open, closed, reopened>>)
  /\ zap' = None /\ Goto(c, "idle")
  /\ UNCHANGED <<enabled, closers, httpVars, used, cores, writerVars, lapped>>

SetLogger(c) ==
  /\ setter[c] = "build"
  /\ zap' = cores[c] /\ Goto(c, "idle")
  /\ UNCHANGED <<enabled, closers, httpVars, open, used, cores, writerVars, closed,
                 reopened, lapped>>

\* SetConfig of the HTTP log: the old file is closed (an error leaves all as it was) ...
CloseHttp(c) ==
  /\ Close({httpFile} \ {None})
  /\ Goto(c, "http") \/ (httpFile # None /\ UNCHANGED setter)
  /\ UNCHANGED <<globalVars, closers, httpVars, used, cores, writerVars>>

\* A request with a correct header; any other changes nothing.
HTTPLogHandler(c) == Begin(c) /\ CloseHttp(c)

\* ... and a new one takes its place, if the log is on. A configuration that never had
\* a FileConfig panics then, with the log already on.
SetHttp(c) ==
  /\ setter[c] = "http"
  /\ \/ httpOn' = FALSE /\ UNCHANGED <<httpFile, closers, used>>
     \/ httpFile = None /\ httpOn' = TRUE /\ UNCHANGED <<httpFile, closers, used>>
     \/ \E s \in Rotated \ used :
          /\ httpOn' = TRUE /\ httpFile' = s
          /\ closers' = closers \cup {s} /\ used' = used \cup {s}
  /\ Goto(c, "idle")
  /\ UNCHANGED <<globalVars, open, cores, writerVars, closed, reopened, lapped>>

-----------------------------------------------------------------------------
(* Messages                                                                *)

configVars == <<globalVars, closers, httpVars, used, setter, cores, lapped>>

\* Log looks at the logger ...
Check(w) ==
  /\ writer[w] = "idle" /\ enabled /\ zap # None
  /\ writer' = [writer EXCEPT ![w] = "checked"]
  /\ UNCHANGED <<configVars, target, open, closed, reopened>>

\* ... and takes it; by now it may be nil, a panic for the callers to recover from.
Log(w) ==
  /\ writer[w] = "checked"
  /\ IF zap = None
       THEN writer' = [writer EXCEPT ![w] = "idle"] /\ UNCHANGED target
       ELSE /\ writer' = [writer EXCEPT ![w] = "write"]
            /\ target' = [target EXCEPT ![w] = zap]
  /\ UNCHANGED <<configVars, open, closed, reopened>>

\* LogHTTPInRequest and the other three.
LogHTTP(w) ==
  /\ writer[w] = "idle" /\ httpOn /\ httpFile # None
  /\ writer' = [writer EXCEPT ![w] = "write"]
  /\ target' = [target EXCEPT ![w] = {httpFile}]
  /\ UNCHANGED <<configVars, open, closed, reopened>>

InUse == (IF zap = None THEN {} ELSE zap) \cup ({httpFile} \ {None})

\* A closed lumberjack sink opens its file again, another refuses.
Write(w) ==
  /\ writer[w] = "write"
  /\ LET opens == (target[w] \cap Rotated) \ open IN
       /\ open' = open \cup opens
       /\ reopened' = reopened \cup
            {s \in opens : s \notin InUse \/ (s \in closed /\ Underway # {})}
  /\ writer' = [writer EXCEPT ![w] = "idle"] /\ target' = [target EXCEPT ![w] = {}]
  /\ UNCHANGED <<configVars, closed>>

-----------------------------------------------------------------------------

Next ==
  \/ \E c \in Configurers :
       \/ LoggerSetConfigHandler(c) \/ Reset(c) \/ SetGlobalConfig(c)
       \/ \E s \in Sinks : AddCore(c, s)
       \/ Abort(c) \/ SetLogger(c)
       \/ HTTPLogHandler(c) \/ SetHttp(c)
  \/ \E w \in Writers : Check(w) \/ Log(w) \/ LogHTTP(w) \/ Write(w)

Spec == Init /\ [][Next]_vars

-----------------------------------------------------------------------------

\* logger.go:183-322, 415-434, httplog.go:68-92: between two configurations, made one
\* after the other, no file stays open that no logger writes to, after a failed
\* configuration neither, and every open file can still be closed; save those of URLs
\* and those that a message opened after the configurer had closed them.
NoFileLeft ==
  Underway = {} /\ ~lapped =>
    /\ open \ (Urls \cup reopened) \subseteq InUse
    /\ open \ (Urls \cup reopened) \subseteq closers \cup {httpFile}
=============================================================================
