---------------------------- MODULE HttpService ----------------------------
(***************************************************************************)
(* pkg/common/httpservice with its tokens (pkg/common/jwt) and its pool of *)
(* buffers (pkg/common/bytespool): the handlers of several requests at the *)
(* same time, from the router to the last byte of the answer. What a       *)
(* handler of the application computes is left open: it may answer in the  *)
(* buffer it was given or in an array of its own, fail, or panic.          *)
(***************************************************************************)
EXTENDS Naturals, FiniteSets

CONSTANTS
  Conns,     \* connections: each brings one request after another
  Buffers,   \* identities of byte arrays
  None,      \* nil
  Configs,   \* values of cfg
  Life,      \* Config.JWTExpiresAt
  MaxTime    \* bound on the clock

VARIABLES
  cfg,       \* UseJWT, UseBufPool, and whether AuthType asks for a password
  errBody,   \* Config.HTTPErrorLogBody, which a handler changes
  now,
  tokens,    \* expiry times of the tokens signed so far
  vouched,   \* history: until when a sign-in and the renewals after it vouch
  legit,     \* history: the requests for a token that were vouched for
  pool,      \* the arrays in bytesPool
  pc,        \* where the handler of each request is
  buf,       \* the array from the pool
  response,  \* responseBuf
  putBack,   \* s.bytesPool.PutBuf(responseBuf) is deferred
  status,    \* of the answer, 0 before the header is written
  body,      \* what was written after the header
  broken     \* history: what cut the answer short, or came behind it

serverVars  == <<cfg, errBody>>
tokenVars   == <<now, tokens, vouched, legit>>
bufferVars  == <<pool, buf, response, putBack>>
answerVars  == <<status, body, broken>>
vars == <<serverVars, tokenVars, bufferVars, pc, answerVars>>

\* What the router calls: a handler that runs in Process, or one for tokens.
Handlers == {"process", "signIn", "refresh"}
\* In "end" the answer is given and the handler's last calls follow.
Open == Handlers \cup {"issue", "readBody", "handler", "respond", "write", "end"}

\* The client stopped taking the answer; a panic after the header of a response; a
\* panic in the recovery from a panic, after which net/http closes the connection.
Breaks == {"no", "client", "late", "lost"}

TypeOK ==
  /\ cfg \in Configs
  /\ errBody \in BOOLEAN
  /\ now \in 0..MaxTime
  /\ tokens \subseteq 0..(MaxTime + Life)
  /\ vouched \in 0..(MaxTime + Life)
  /\ legit \subseteq Conns
  /\ pool \subseteq Buffers
  /\ pc \in [Conns -> Open \cup {"none", "done"}]
  /\ buf \in [Conns -> Buffers \cup {None}]
  /\ response \in [Conns -> Buffers \cup {None}]
  /\ putBack \in [Conns -> BOOLEAN]
  /\ status \in [Conns -> {0, 200, 400, 401, 405, 500}]
  /\ body \in [Conns -> SUBSET {"response", "error"}]
  /\ broken \in [Conns -> Breaks]

Init ==
  /\ cfg \in Configs
  /\ errBody \in BOOLEAN
  /\ now = 1 /\ tokens = {} /\ vouched = 0 /\ legit = {}
  /\ pool = {}
  /\ pc = [r \in Conns |-> "none"]
  /\ buf = [r \in Conns |-> None] /\ response = [r \in Conns |-> None]
  /\ putBack = [r \in Conns |-> FALSE]
  /\ status = [r \in Conns |-> 0] /\ body = [r \in Conns |-> {}]
  /\ broken = [r \in Conns |-> "no"]

-----------------------------------------------------------------------------
(* Answers                                                                 *)

Goto(r, to) == pc' = [pc EXCEPT ![r] = to]

\* WriteHeader: the first status stays.
WriteHeader(r, code) ==
  status' = [status EXCEPT ![r] = IF @ = 0 THEN code ELSE @]

WriteBody(r, what) == body' = [body EXCEPT ![r] = @ \cup what]

\* processError: the status, and the error in the body when that mode is on.
ProcessError(r, code) ==
  /\ WriteHeader(r, code)
  /\ WriteBody(r, IF errBody THEN {"error"} ELSE {})

\* Process is over, with what it has deferred: the array goes to the pool.
Return(r, to) ==
  /\ Goto(r, to)
  /\ pool' = IF putBack[r] THEN pool \cup {response[r]} ELSE pool
  /\ buf' = [buf EXCEPT ![r] = None]
  /\ response' = [response EXCEPT ![r] = None]
  /\ putBack' = [putBack EXCEPT ![r] = FALSE]

MutReject(r, code) ==
  /\ ProcessError(r, code)
  /\ Goto(r, IF pc[r] = "process" THEN "readBody" ELSE "end")
  /\ UNCHANGED <<bufferVars, broken>>
\* An error answer while there is no response yet, and the return after it.
Reject(r, code) ==
  /\ ProcessError(r, code) /\ Return(r, "end")
  /\ UNCHANGED broken

Break(r, how) == broken' = [broken EXCEPT ![r] = how]

\* recoverWrap: a panic unwinds the deferred calls and is answered with an error, behind
\* what was written before; or the logger or the metrics, which are called first, panic
\* again.
Recover(r) ==
  /\ \/ /\ ProcessError(r, 500)
        /\ Break(r, IF status[r] = 200 THEN "late" ELSE broken[r])
     \/ /\ Break(r, IF broken[r] = "no" THEN "lost" ELSE broken[r])
        /\ UNCHANGED <<status, body>>
  /\ Return(r, "done")

-----------------------------------------------------------------------------
(* Requests                                                                *)

\* The router calls the handler.
Arrive(r, h) ==
  /\ pc[r] \in {"none", "done"}
  /\ Goto(r, h)
  /\ status' = [status EXCEPT ![r] = 0] /\ body' = [body EXCEPT ![r] = {}]
  /\ Break(r, "no") /\ legit' = legit \ {r}
  /\ UNCHANGED <<serverVars, now, tokens, vouched, bufferVars>>

MutCheckJWT(t) == t # None
\* The token in the cookie, if any, is not expired.
CheckJWT(t) == t # None /\ now <= t

\* Process up to the body: the method may be wrong, and the password without tokens;
\* with tokens, the cookie holds one that was signed here, or the request is refused.
Check(r) ==
  /\ pc[r] = "process"
  /\ \/ Reject(r, 405)
     \/ cfg.auth /\ ~cfg.useJWT /\ Reject(r, 401)
     \/ cfg.useJWT /\ (\E t \in tokens \cup {None} : ~CheckJWT(t)) /\ Reject(r, 401)
     \/ /\ cfg.useJWT => \E t \in tokens : CheckJWT(t)
        /\ Goto(r, "readBody") /\ UNCHANGED <<bufferVars, answerVars>>
  /\ UNCHANGED <<serverVars, tokenVars>>

Unused == Buffers \ (pool \cup {buf[r] : r \in Conns} \cup {response[r] : r \in Conns})

\* The body, and GetBuf: an array of the pool, or a new one, unless the handler said
\* ignoreBufPool.
ReadBody(r) ==
  /\ pc[r] = "readBody"
  /\ \/ Reject(r, 500)
     \/ /\ Goto(r, "handler")
        /\ \/ UNCHANGED <<buf, pool>>
           \/ /\ cfg.useBufPool
              /\ \E b \in pool \cup Unused :
                   buf' = [buf EXCEPT ![r] = b] /\ pool' = pool \ {b}
        /\ UNCHANGED <<response, putBack, answerVars>>
  /\ UNCHANGED <<serverVars, tokenVars>>

Pooled(r, b, fits) == fits /\ b # None /\ buf[r] # None

MutDefer(r, b, fits) ==
  /\ pool' = IF Pooled(r, b, fits) THEN pool \cup {b} ELSE pool
  /\ UNCHANGED putBack
\* A response of a good size is returned to the pool, but not before Process returns.
Defer(r, b, fits) ==
  /\ putBack' = [putBack EXCEPT ![r] = Pooled(r, b, fits)]
  /\ UNCHANGED pool

\* fn responds: in the array it was given, in another, or with no body at all.
Respond(r) ==
  /\ \E b \in {None, buf[r]} \cup Unused, fits \in BOOLEAN :
       /\ response' = [response EXCEPT ![r] = b]
       /\ Defer(r, b, fits)
  /\ Goto(r, "respond")
  /\ UNCHANGED <<buf, answerVars>>

\* HTTPErrorLogHandler sets the mode of the error log, before its own answer.
SetErrorLog(r) ==
  /\ pc[r] = "handler"
  /\ errBody' \in BOOLEAN
  /\ UNCHANGED <<cfg, tokenVars, bufferVars, pc, answerVars>>

Handle(r) ==
  /\ pc[r] = "handler"
  /\ Respond(r) \/ \E code \in {400, 500} : Reject(r, code)
  /\ UNCHANGED <<serverVars, tokenVars>>

\* The answer is logged, and its header is written.
WriteStatus(r) ==
  /\ pc[r] = "respond"
  /\ WriteHeader(r, 200) /\ Goto(r, "write")
  /\ UNCHANGED <<serverVars, tokenVars, bufferVars, body, broken>>

\* The body; when the client does not take it, the error follows.
Write(r) ==
  /\ pc[r] = "write"
  /\ \/ /\ WriteBody(r, IF response[r] = None THEN {} ELSE {"response"})
        /\ UNCHANGED <<status, broken>>
     \/ /\ response[r] # None
        /\ WriteHeader(r, 500)
        /\ WriteBody(r, {"response"} \cup IF errBody THEN {"error"} ELSE {})
        /\ Break(r, "client")
  /\ Return(r, "end")
  /\ UNCHANGED <<serverVars, tokenVars>>

\* The handler returns to recoverWrap and to net/http, which writes the header if
\* nobody has.
Finish(r) ==
  /\ pc[r] = "end"
  /\ WriteHeader(r, 200) /\ Goto(r, "done")
  /\ UNCHANGED <<serverVars, tokenVars, bufferVars, body, broken>>

\* A panic of the handler, or of the logger and the metrics, which are called between
\* all steps, also behind the header and the answer.
Panic(r) ==
  /\ pc[r] \in Open
  /\ Recover(r)
  /\ UNCHANGED <<serverVars, tokenVars>>

-----------------------------------------------------------------------------
(* Tokens                                                                  *)

\* These handlers leave the header to net/http.
Done(r) == Goto(r, "end") /\ UNCHANGED answerVars

\* SingingHandler: the password is right, or there is nobody to ask for it.
SignIn(r) ==
  /\ pc[r] = "signIn"
  /\ \/ Reject(r, 401) /\ UNCHANGED legit
     \/ /\ cfg.auth /\ cfg.useJWT
        /\ Goto(r, "issue") /\ legit' = legit \cup {r}
        /\ UNCHANGED <<bufferVars, answerVars>>
     \/ /\ cfg.auth /\ ~cfg.useJWT
        /\ Done(r) /\ UNCHANGED <<bufferVars, legit>>
  /\ UNCHANGED <<serverVars, now, tokens, vouched>>

\* JWTRefreshHandler: a token that is still good is renewed.
Refresh(r) ==
  /\ pc[r] = "refresh"
  /\ \/ /\ cfg.useJWT /\ \E t \in tokens \cup {None} : ~CheckJWT(t)
        /\ Reject(r, 401) /\ UNCHANGED legit
     \/ /\ cfg.useJWT /\ \E t \in tokens : CheckJWT(t)
        /\ Goto(r, "issue")
        /\ legit' = IF now <= vouched THEN legit \cup {r} ELSE legit
        /\ UNCHANGED <<bufferVars, answerVars>>
     \/ /\ ~cfg.useJWT
        /\ Done(r) /\ UNCHANGED <<bufferVars, legit>>
  /\ UNCHANGED <<serverVars, now, tokens, vouched>>

\* CreateJWTCookie: valid for Life from now on; signing may fail.
CreateJWTCookie(r) ==
  /\ pc[r] = "issue"
  /\ \/ Reject(r, 500) /\ UNCHANGED tokenVars
     \/ /\ tokens' = tokens \cup {now + Life}
        /\ vouched' = IF r \in legit /\ vouched < now + Life THEN now + Life ELSE vouched
        /\ Done(r)
        /\ UNCHANGED <<now, legit, bufferVars>>
  /\ UNCHANGED <<serverVars>>

Tick ==
  /\ now < MaxTime /\ now' = now + 1
  /\ UNCHANGED <<serverVars, tokens, vouched, legit, bufferVars, pc,
                 answerVars>>

\* sync.Pool may let go of what it holds.
Collect(b) ==
  /\ b \in pool /\ pool' = pool \ {b}
  /\ UNCHANGED <<serverVars, tokenVars, buf, response, putBack, pc,
                 answerVars>>

-----------------------------------------------------------------------------

Next ==
  \/ \E r \in Conns :
       \/ \E h \in Handlers : Arrive(r, h)
       \/ Check(r) \/ ReadBody(r) \/ SetErrorLog(r) \/ Handle(r)
       \/ WriteStatus(r) \/ Write(r) \/ Finish(r)
       \/ SignIn(r) \/ Refresh(r) \/ CreateJWTCookie(r)
       \/ Panic(r)
  \/ Tick
  \/ \E b \in Buffers : Collect(b)

Spec == Init /\ [][Next]_vars

-----------------------------------------------------------------------------

Answering(r) == pc[r] \in {"respond", "write"} /\ response[r] # None

\* httpservice.go:380-390: the array that a response is in stays out of the pool, and
\* out of the hands of every other request, until the answer is written.
BufferAlone ==
  \A r \in Conns : Answering(r) =>
    /\ response[r] \notin pool
    /\ \A q \in Conns \ {r} : response[r] \notin {buf[q], response[q]}

\* httpservice.go:246-275, 278-435, 463-544: a handler that is over has answered with a
\* status, unless the recovery of its panic panicked as well; the response comes with
\* its own status and nothing is written before the checks are passed; and an error is
\* written behind the status of a response only when the client stopped taking it or
\* a call after the header panicked.
AnswerIsOne ==
  \A r \in Conns :
    /\ pc[r] = "done" => status[r] # 0 \/ broken[r] = "lost"
    /\ status[r] # 0 => pc[r] \in {"write", "end", "done"}
    /\ "response" \in body[r] => status[r] = 200
    /\ "error" \in body[r] => /\ status[r] # 0
                              /\ status[r] = 200 => broken[r] \in {"client", "late"}

\* jwt.go:20-110, handler_auth.go:103-148: with tokens on, a request is let in only while
\* somebody's password, or an unbroken chain of renewals after it, vouches for it,
\* each of them made when the one before was still good.
LetInWhileVouched ==
  [][\A r \in Conns :
       cfg.useJWT /\ pc[r] = "process" /\ pc'[r] = "readBody" => now <= vouched]_vars

=============================================================================
