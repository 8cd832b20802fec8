----------------------------- MODULE HttpProofs -----------------------------
(***************************************************************************)
(* What holds behind the router for every number of connections, buffers,  *)
(* loggers and goroutines that log, for every clock, and for every array of *)
(* numbers and width of a word: of the requests of HttpService, of the     *)
(* files of Logging and of the sum of Factorial.                           *)
(***************************************************************************)
EXTENDS MCHttp, Integers, Sequences, SequenceTheorems, WellFoundedInduction, TLAPS

-----------------------------------------------------------------------------
(* HttpService: the inductive invariant                                    *)

\* A response is only there between the handler and the return of Process, and so is
\* an array of the pool; only then is anything deferred (httpservice.go:380-390).
InHand ==
  \A r \in Conns :
    /\ pc[r] \notin {"handler", "respond", "write"} => buf[r] = None
    /\ pc[r] \notin {"respond", "write"} => response[r] = None
    /\ putBack[r] => response[r] # None

\* No array is in the pool and in a handler's hands, nor in the hands of two.
ArraysApart ==
  \A r \in Conns :
    /\ buf[r] \notin pool /\ response[r] \notin pool
    /\ \A q \in Conns \ {r} :
         {buf[r], response[r]} \cap {buf[q], response[q]} \subseteq {None}

\* The header is written by the last steps only, and nothing before it; what cuts an
\* answer short comes behind it.
Unanswered ==
  \A r \in Conns :
    /\ pc[r] = "write" => status[r] = 200
    /\ pc[r] \notin {"end", "done"} => body[r] = {} /\ broken[r] = "no"
    /\ pc[r] = "end" /\ broken[r] # "no" => status[r] = 200

\* What is signed is vouched for: a renewal needs a token that is good and was itself
\* vouched for (handler_auth.go:103-148).
TokensVouched ==
  /\ \A t \in tokens : t <= vouched
  /\ \A r \in Conns : pc[r] = "issue" => r \in legit

HttpInv ==
  /\ Http!TypeOK /\ InHand /\ ArraysApart
  /\ Unanswered /\ AnswerIsOne /\ TokensVouched

\* Process and recoverWrap: a return gives an array of the program to the pool.
LEMMA ReturnTypes ==
  ASSUME HttpInv, NEW r \in Conns, NEW to, Http!Return(r, to)
  PROVE  /\ pc' = [pc EXCEPT ![r] = to] /\ pool' \subseteq Buffers
         /\ buf' \in [Conns -> Buffers \cup {None}]
         /\ response' \in [Conns -> Buffers \cup {None}]
         /\ putBack' \in [Conns -> BOOLEAN]
<1>1. pool' \subseteq Buffers
  <2>1. putBack[r] => response[r] \in Buffers
    BY DEF HttpInv, Http!TypeOK, InHand
  <2>. QED
    BY <2>1 DEF Http!Return, HttpInv, Http!TypeOK
<1>2. putBack' \in [Conns -> BOOLEAN]
  BY DEF Http!Return, HttpInv, Http!TypeOK
<1>. QED
  BY <1>1, <1>2 DEF Http!Return, Http!Goto, HttpInv, Http!TypeOK

\* processError writes a status of an error, if none was written, and the error.
LEMMA ErrorTypes ==
  ASSUME HttpInv, NEW r \in Conns, NEW code \in {400, 401, 405, 500},
         Http!ProcessError(r, code)
  PROVE  /\ status' \in [Conns -> {0, 200, 400, 401, 405, 500}]
         /\ body' \in [Conns -> SUBSET {"response", "error"}]
<1>1. body' \in [Conns -> SUBSET {"response", "error"}]
  BY DEF Http!ProcessError, Http!WriteBody, HttpInv, Http!TypeOK
<1>2. status' \in [Conns -> {0, 200, 400, 401, 405, 500}]
  BY DEF Http!ProcessError, Http!WriteHeader, HttpInv, Http!TypeOK
<1>. QED
  BY <1>1, <1>2

\* A handler that returns with an error keeps the types.
LEMMA RejectTypes ==
  ASSUME HttpInv, NEW r \in Conns, NEW code \in {400, 401, 405, 500},
         Http!Reject(r, code), UNCHANGED <<Http!serverVars, Http!tokenVars>>
  PROVE  Http!TypeOK'
<1>1. Http!Return(r, "end") /\ Http!ProcessError(r, code) /\ UNCHANGED broken
  BY DEF Http!Reject
<1>2. UNCHANGED <<cfg, errBody, now, tokens, vouched, legit>>
  BY DEF Http!serverVars, Http!tokenVars
<1>3. pc' \in [Conns -> Http!Open \cup {"none", "done"}]
  BY <1>1, ReturnTypes DEF HttpInv, Http!TypeOK, Http!Open
<1>. QED
  BY <1>1, <1>2, <1>3, ReturnTypes, ErrorTypes DEF HttpInv, Http!TypeOK

\* PutBuf gives back the handler's own array, after which it holds none.
LEMMA ReturnApart ==
  ASSUME HttpInv, NEW r \in Conns, NEW to, Http!Return(r, to)
  PROVE  ArraysApart'
<1>1. /\ buf' = [buf EXCEPT ![r] = None]
      /\ response' = [response EXCEPT ![r] = None]
      /\ buf \in [Conns -> Buffers \cup {None}]
      /\ response \in [Conns -> Buffers \cup {None}]
  BY DEF Http!Return, HttpInv, Http!TypeOK
<1>2. pool' \subseteq pool \cup ({response[r]} \ {None})
  BY DEF Http!Return, HttpInv, InHand
<1>3. None \notin pool
  BY HttpAssumption DEF HttpInv, Http!TypeOK
<1>4. ASSUME NEW q \in Conns PROVE buf'[q] \notin pool' /\ response'[q] \notin pool'
  <2>1. CASE q = r
    BY <1>1, <1>2, <1>3, <2>1
  <2>2. CASE q # r
    <3>1. /\ buf[q] \notin pool /\ response[q] \notin pool
          /\ {buf[r], response[r]} \cap {buf[q], response[q]} \subseteq {None}
      BY <2>2 DEF HttpInv, ArraysApart
    <3>. QED
      BY <1>1, <1>2, <2>2, <3>1
  <2>. QED
    BY <2>1, <2>2
<1>5. ASSUME NEW q \in Conns, NEW p \in Conns \ {q}
      PROVE  {buf'[q], response'[q]} \cap {buf'[p], response'[p]} \subseteq {None}
  BY <1>1 DEF HttpInv, ArraysApart
<1>. QED
  BY <1>4, <1>5 DEF ArraysApart

-----------------------------------------------------------------------------
(* Every step keeps the invariant                                          *)

\* Every step of a handler, the clock and the garbage collector keeps the types.
LEMMA NextHttpTypeOK == HttpInv /\ [Http!Next]_Http!vars => Http!TypeOK'
<1>. SUFFICES ASSUME HttpInv, [Http!Next]_Http!vars PROVE Http!TypeOK'
  OBVIOUS
<1>. USE HttpAssumption
<1>1. Http!TypeOK
  BY DEF HttpInv
<1>2. ASSUME NEW r \in Conns, NEW to \in Http!Open \cup {"done"}, Http!Goto(r, to)
      PROVE  pc' \in [Conns -> Http!Open \cup {"none", "done"}]
  BY <1>1, <1>2 DEF Http!TypeOK, Http!Goto
<1>3. {"readBody", "handler", "respond", "write", "issue", "end"} \subseteq Http!Open
  BY DEF Http!Open
<1>4. ASSUME NEW r \in Conns, NEW h \in Http!Handlers, Http!Arrive(r, h)
      PROVE  Http!TypeOK'
  <2>1. pc' \in [Conns -> Http!Open \cup {"none", "done"}]
    BY <1>2, <1>4 DEF Http!Arrive, Http!Open
  <2>2. broken' \in [Conns -> Http!Breaks]
    BY <1>1, <1>4 DEF Http!TypeOK, Http!Arrive, Http!Break, Http!Breaks
  <2>. QED
    BY <1>1, <1>4, <2>1, <2>2
       DEF Http!TypeOK, Http!Arrive, Http!serverVars, Http!bufferVars
<1>5. ASSUME NEW r \in Conns, Http!Check(r) PROVE Http!TypeOK'
  <2>1. CASE \E code \in {405, 401} : Http!Reject(r, code)
    BY <1>5, <2>1, RejectTypes DEF Http!Check
  <2>2. CASE Http!Goto(r, "readBody") /\ UNCHANGED <<Http!bufferVars, Http!answerVars>>
    BY <1>1, <1>2, <1>3, <1>5, <2>2
       DEF Http!TypeOK, Http!Check, Http!serverVars, Http!tokenVars,
           Http!bufferVars, Http!answerVars
  <2>. QED
    BY <1>5, <2>1, <2>2 DEF Http!Check
<1>6. ASSUME NEW r \in Conns, Http!ReadBody(r) PROVE Http!TypeOK'
  <2>1. CASE Http!Reject(r, 500)
    BY <1>6, <2>1, RejectTypes DEF Http!ReadBody
  <2>2. CASE /\ Http!Goto(r, "handler")
             /\ \/ UNCHANGED <<buf, pool>>
                \/ \E b \in pool \cup Http!Unused :
                     buf' = [buf EXCEPT ![r] = b] /\ pool' = pool \ {b}
             /\ UNCHANGED <<response, putBack, Http!answerVars>>
    <3>1. pool' \subseteq Buffers /\ buf' \in [Conns -> Buffers \cup {None}]
      BY <1>1, <2>2 DEF Http!TypeOK, Http!Unused
    <3>. QED
      BY <1>1, <1>2, <1>3, <1>6, <2>2, <3>1
         DEF Http!TypeOK, Http!ReadBody, Http!serverVars, Http!tokenVars,
             Http!answerVars
  <2>. QED
    BY <1>6, <2>1, <2>2 DEF Http!ReadBody
<1>7. ASSUME NEW r \in Conns, Http!Handle(r) PROVE Http!TypeOK'
  <2>1. CASE \E code \in {400, 500} : Http!Reject(r, code)
    BY <1>7, <2>1, RejectTypes DEF Http!Handle
  <2>2. CASE Http!Respond(r)
    <3>1. response' \in [Conns -> Buffers \cup {None}] /\ UNCHANGED pool
      BY <1>1, <2>2 DEF Http!TypeOK, Http!Respond, Http!Defer, Http!Unused
    <3>2. ASSUME NEW b, NEW fits \in BOOLEAN, Http!Defer(r, b, fits)
          PROVE  putBack' \in [Conns -> BOOLEAN]
      BY <1>1, <3>2 DEF Http!TypeOK, Http!Defer, Http!Pooled
    <3>3. putBack' \in [Conns -> BOOLEAN]
      BY <2>2, <3>2 DEF Http!Respond
    <3>. QED
      BY <1>1, <1>2, <1>3, <1>7, <2>2, <3>1, <3>3
         DEF Http!TypeOK, Http!Handle, Http!Respond, Http!serverVars,
             Http!tokenVars, Http!answerVars
  <2>. QED
    BY <1>7, <2>1, <2>2 DEF Http!Handle
<1>8. ASSUME NEW r \in Conns, Http!WriteStatus(r) PROVE Http!TypeOK'
  BY <1>1, <1>2, <1>3, <1>8
     DEF Http!TypeOK, Http!WriteStatus, Http!WriteHeader, Http!serverVars,
         Http!tokenVars, Http!bufferVars
<1>9. ASSUME NEW r \in Conns, Http!Write(r) PROVE Http!TypeOK'
  <2>1. ASSUME NEW what \in SUBSET {"response", "error"}, Http!WriteBody(r, what)
        PROVE  body' \in [Conns -> SUBSET {"response", "error"}]
    BY <1>1, <2>1 DEF Http!TypeOK, Http!WriteBody
  <2>2. body' \in [Conns -> SUBSET {"response", "error"}]
    BY <1>9, <2>1 DEF Http!Write
  <2>3. status' \in [Conns -> {0, 200, 400, 401, 405, 500}]
    BY <1>1, <1>9 DEF Http!TypeOK, Http!Write, Http!WriteHeader
  <2>4. broken' \in [Conns -> Http!Breaks]
    BY <1>1, <1>9 DEF Http!TypeOK, Http!Write, Http!Break, Http!Breaks
  <2>5. pc' \in [Conns -> Http!Open \cup {"none", "done"}]
    BY <1>2, <1>3, <1>9 DEF Http!Write, Http!Return
  <2>. QED
    BY <1>1, <1>9, <2>2, <2>3, <2>4, <2>5, ReturnTypes
       DEF Http!TypeOK, Http!Write, Http!serverVars, Http!tokenVars
<1>10. ASSUME NEW r \in Conns, Http!Finish(r) PROVE Http!TypeOK'
  BY <1>1, <1>2, <1>10
     DEF Http!TypeOK, Http!Finish, Http!WriteHeader, Http!serverVars,
         Http!tokenVars, Http!bufferVars
<1>11. ASSUME NEW r \in Conns, Http!Goto(r, "issue") \/ Http!Goto(r, "end"),
              UNCHANGED <<Http!answerVars, Http!bufferVars, Http!serverVars, now>>,
              tokens' \subseteq 0..(MaxTime + Life),
              vouched' \in 0..(MaxTime + Life), legit' \subseteq Conns
       PROVE  Http!TypeOK'
  BY <1>1, <1>2, <1>3, <1>11
     DEF Http!TypeOK, Http!serverVars, Http!bufferVars, Http!answerVars
<1>12. ASSUME NEW r \in Conns, Http!SignIn(r) PROVE Http!TypeOK'
  <2>1. CASE Http!Reject(r, 401) /\ UNCHANGED legit
    BY <1>12, <2>1, RejectTypes DEF Http!SignIn, Http!tokenVars
  <2>. QED
    BY <1>1, <1>11, <1>12, <2>1 DEF Http!TypeOK, Http!SignIn, Http!Done
<1>13. ASSUME NEW r \in Conns, Http!Refresh(r) PROVE Http!TypeOK'
  <2>1. CASE Http!Reject(r, 401) /\ UNCHANGED legit
    BY <1>13, <2>1, RejectTypes DEF Http!Refresh, Http!tokenVars
  <2>. QED
    BY <1>1, <1>11, <1>13, <2>1 DEF Http!TypeOK, Http!Refresh, Http!Done
<1>14. ASSUME NEW r \in Conns, Http!CreateJWTCookie(r) PROVE Http!TypeOK'
  <2>1. CASE Http!Reject(r, 500) /\ UNCHANGED Http!tokenVars
    BY <1>14, <2>1, RejectTypes DEF Http!CreateJWTCookie
  <2>2. CASE /\ tokens' = tokens \cup {now + Life}
             /\ vouched' = IF r \in legit /\ vouched < now + Life
                             THEN now + Life ELSE vouched
             /\ Http!Done(r)
             /\ UNCHANGED <<now, legit, Http!bufferVars>>
    <3>1. now + Life \in 0..(MaxTime + Life)
      BY <1>1 DEF Http!TypeOK
    <3>2. /\ tokens' \subseteq 0..(MaxTime + Life)
          /\ vouched' \in 0..(MaxTime + Life)
      BY <1>1, <2>2, <3>1 DEF Http!TypeOK
    <3>3. UNCHANGED Http!serverVars /\ legit' \subseteq Conns
      BY <1>1, <1>14, <2>2 DEF Http!TypeOK, Http!CreateJWTCookie
    <3>. QED
      BY <1>11, <2>2, <3>2, <3>3 DEF Http!Done
  <2>. QED
    BY <1>14, <2>1, <2>2 DEF Http!CreateJWTCookie
<1>15. ASSUME NEW r \in Conns, Http!Panic(r) PROVE Http!TypeOK'
  <2>1. /\ status' \in [Conns -> {0, 200, 400, 401, 405, 500}]
        /\ body' \in [Conns -> SUBSET {"response", "error"}]
    BY <1>1, <1>15, ErrorTypes DEF Http!TypeOK, Http!Panic, Http!Recover
  <2>2. broken' \in [Conns -> Http!Breaks]
    BY <1>1, <1>15 DEF Http!TypeOK, Http!Panic, Http!Recover, Http!Break, Http!Breaks
  <2>3. Http!Return(r, "done") /\ UNCHANGED <<Http!serverVars, Http!tokenVars>>
    BY <1>15 DEF Http!Panic, Http!Recover
  <2>4. pc' \in [Conns -> Http!Open \cup {"none", "done"}]
    BY <1>2, <2>3 DEF Http!Return
  <2>. QED
    BY <1>1, <2>1, <2>2, <2>3, <2>4, ReturnTypes
       DEF Http!TypeOK, Http!serverVars, Http!tokenVars
<1>16. ASSUME Http!Tick PROVE Http!TypeOK'
  BY <1>1, <1>16
     DEF Http!TypeOK, Http!Tick, Http!serverVars, Http!bufferVars, Http!answerVars
<1>17. ASSUME NEW b \in Buffers, Http!Collect(b) PROVE Http!TypeOK'
  BY <1>1, <1>17
     DEF Http!TypeOK, Http!Collect, Http!serverVars, Http!tokenVars,
         Http!answerVars
<1>18. ASSUME UNCHANGED Http!vars PROVE Http!TypeOK'
  BY <1>1, <1>18
     DEF Http!TypeOK, Http!vars, Http!serverVars, Http!tokenVars, Http!bufferVars,
         Http!answerVars
<1>19. ASSUME NEW r \in Conns, Http!SetErrorLog(r) PROVE Http!TypeOK'
  BY <1>1, <1>19
     DEF Http!TypeOK, Http!SetErrorLog, Http!tokenVars, Http!bufferVars,
         Http!answerVars
<1>. QED
  BY <1>4, <1>5, <1>6, <1>7, <1>8, <1>9, <1>10, <1>12, <1>13, <1>14, <1>15,
     <1>16, <1>17, <1>18, <1>19 DEF Http!Next

\* Return empties the hands of a handler, however it ends.
LEMMA NextInHand == HttpInv /\ [Http!Next]_Http!vars => InHand'
<1>. SUFFICES ASSUME HttpInv, [Http!Next]_Http!vars PROVE InHand'
  OBVIOUS
<1>. USE HttpAssumption DEF HttpInv, Http!TypeOK, Http!Open, Http!Handlers,
     InHand, Http!serverVars, Http!tokenVars, Http!bufferVars, Http!answerVars
<1>1. ASSUME NEW r \in Conns,
             \/ Http!Check(r) \/ Http!ReadBody(r)
      PROVE  InHand'
  BY <1>1 DEF Http!Check, Http!Goto, Http!Reject, Http!Return,
     Http!ProcessError, Http!WriteHeader, Http!WriteBody, Http!CheckJWT,
     Http!ReadBody, Http!Unused
<1>2. ASSUME NEW r \in Conns,
             \/ Http!SignIn(r) \/ Http!Refresh(r) \/ Http!CreateJWTCookie(r)
      PROVE  InHand'
  BY <1>2 DEF Http!SignIn, Http!Goto, Http!Reject, Http!Return,
     Http!ProcessError, Http!WriteHeader, Http!WriteBody, Http!Done,
     Http!Refresh, Http!CheckJWT, Http!CreateJWTCookie
<1>3. ASSUME NEW r \in Conns, NEW h \in Http!Handlers,
             Http!Arrive(r, h)
      PROVE  InHand'
  BY <1>3 DEF Http!Arrive, Http!Break, Http!Goto, Http!Handlers
<1>4. ASSUME NEW r \in Conns, Http!Handle(r) PROVE InHand'
  BY <1>4 DEF Http!Handle, Http!Goto, Http!Reject, Http!Return,
     Http!ProcessError, Http!WriteHeader, Http!WriteBody, Http!Respond,
     Http!Defer, Http!Pooled, Http!Unused
<1>5. ASSUME NEW r \in Conns, Http!WriteStatus(r) PROVE InHand'
  BY <1>5 DEF Http!WriteStatus, Http!Goto, Http!WriteHeader
<1>6. ASSUME NEW r \in Conns, Http!Write(r) PROVE InHand'
  BY <1>6 DEF Http!Write, Http!Break, Http!Goto, Http!Return, Http!WriteHeader,
     Http!WriteBody
<1>7. ASSUME NEW r \in Conns, Http!Panic(r) PROVE InHand'
  BY <1>7 DEF Http!Panic, Http!Goto, Http!Recover, Http!Break, Http!Return,
     Http!ProcessError, Http!WriteHeader, Http!WriteBody
<1>8. ASSUME Http!Tick PROVE InHand'
  BY <1>8 DEF Http!Tick
<1>9. ASSUME NEW b \in Buffers, Http!Collect(b) PROVE InHand'
  BY <1>9 DEF Http!Collect
<1>10. ASSUME UNCHANGED Http!vars PROVE InHand'
  BY <1>10 DEF Http!vars
<1>11. ASSUME NEW r \in Conns, Http!SetErrorLog(r) \/ Http!Finish(r)
      PROVE  InHand'
  BY <1>11 DEF Http!SetErrorLog, Http!Finish, Http!Goto, Http!WriteHeader
<1>. QED
  BY <1>1, <1>2, <1>3, <1>4, <1>5, <1>6, <1>7, <1>8, <1>9, <1>10,
     <1>11 DEF Http!Next

\* GetBuf takes an array out of the pool and PutBuf gives one back that no hand holds.
LEMMA NextArraysApart == HttpInv /\ [Http!Next]_Http!vars => ArraysApart'
<1>. SUFFICES ASSUME HttpInv, [Http!Next]_Http!vars PROVE ArraysApart'
  OBVIOUS
<1>. USE HttpAssumption DEF HttpInv, Http!TypeOK, Http!Open, Http!Handlers,
     InHand, ArraysApart, Http!serverVars, Http!tokenVars, Http!bufferVars,
     Http!answerVars
<1>1. ASSUME NEW r \in Conns, NEW h \in Http!Handlers,
             Http!Arrive(r, h)
      PROVE  ArraysApart'
  BY <1>1 DEF Http!Arrive, Http!Break, Http!Goto, Http!Handlers
<1>2. ASSUME NEW r \in Conns, Http!Check(r) PROVE ArraysApart'
  BY <1>2 DEF Http!Check, Http!Goto, Http!Reject, Http!Return,
     Http!ProcessError, Http!WriteHeader, Http!WriteBody, Http!CheckJWT
<1>3. ASSUME NEW r \in Conns, Http!ReadBody(r) PROVE ArraysApart'
  BY <1>3 DEF Http!ReadBody, Http!Goto, Http!Reject, Http!Return,
     Http!ProcessError, Http!WriteHeader, Http!WriteBody, Http!Unused
<1>4. ASSUME NEW r \in Conns, Http!Handle(r) PROVE ArraysApart'
  BY <1>4 DEF Http!Handle, Http!Goto, Http!Reject, Http!Return,
     Http!ProcessError, Http!WriteHeader, Http!WriteBody, Http!Respond,
     Http!Defer, Http!Pooled, Http!Unused
<1>5. ASSUME NEW r \in Conns, Http!WriteStatus(r) PROVE ArraysApart'
  BY <1>5 DEF Http!WriteStatus, Http!Goto, Http!WriteHeader
<1>6. ASSUME NEW r \in Conns, Http!Write(r) PROVE ArraysApart'
  BY <1>6, ReturnApart DEF Http!Write
<1>7. ASSUME NEW r \in Conns, Http!SignIn(r) PROVE ArraysApart'
  BY <1>7 DEF Http!SignIn, Http!Goto, Http!Reject, Http!Return,
     Http!ProcessError, Http!WriteHeader, Http!WriteBody, Http!Done
<1>8. ASSUME NEW r \in Conns, Http!Refresh(r) PROVE ArraysApart'
  BY <1>8 DEF Http!Refresh, Http!Goto, Http!Reject, Http!Return,
     Http!ProcessError, Http!WriteHeader, Http!WriteBody, Http!Done,
     Http!CheckJWT
<1>9. ASSUME NEW r \in Conns, Http!CreateJWTCookie(r) PROVE ArraysApart'
  BY <1>9 DEF Http!CreateJWTCookie, Http!Goto, Http!Reject, Http!Return,
     Http!ProcessError, Http!WriteHeader, Http!WriteBody, Http!Done
<1>10. ASSUME NEW r \in Conns, Http!Panic(r) PROVE ArraysApart'
  BY <1>10, ReturnApart DEF Http!Panic, Http!Recover
<1>11. ASSUME Http!Tick PROVE ArraysApart'
  BY <1>11 DEF Http!Tick
<1>12. ASSUME NEW b \in Buffers, Http!Collect(b) PROVE ArraysApart'
  BY <1>12 DEF Http!Collect
<1>13. ASSUME UNCHANGED Http!vars PROVE ArraysApart'
  BY <1>13 DEF Http!vars
<1>14. ASSUME NEW r \in Conns, Http!SetErrorLog(r) \/ Http!Finish(r)
      PROVE  ArraysApart'
  BY <1>14 DEF Http!SetErrorLog, Http!Finish, Http!Goto, Http!WriteHeader
<1>. QED
  BY <1>1, <1>2, <1>3, <1>4, <1>5, <1>6, <1>7, <1>8, <1>9, <1>10, <1>11, <1>12,
     <1>13, <1>14 DEF Http!Next

\* WriteHeader comes with the step to the body or with the return.
LEMMA NextUnanswered == HttpInv /\ [Http!Next]_Http!vars => Unanswered'
<1>. SUFFICES ASSUME HttpInv, [Http!Next]_Http!vars PROVE Unanswered'
  OBVIOUS
<1>. USE HttpAssumption DEF HttpInv, Http!TypeOK, Http!Open, Http!Handlers,
     Unanswered, Http!serverVars, Http!tokenVars, Http!bufferVars,
     Http!answerVars
<1>1. ASSUME NEW r \in Conns,
             \/ Http!Check(r) \/ Http!ReadBody(r)
      PROVE  Unanswered'
  BY <1>1 DEF Http!Check, Http!Goto, Http!Reject, Http!Return,
     Http!ProcessError, Http!WriteHeader, Http!WriteBody, Http!CheckJWT,
     Http!ReadBody, Http!Unused
<1>2. ASSUME NEW r \in Conns,
             \/ Http!SignIn(r) \/ Http!Refresh(r) \/ Http!CreateJWTCookie(r)
      PROVE  Unanswered'
  BY <1>2 DEF Http!SignIn, Http!Goto, Http!Reject, Http!Return,
     Http!ProcessError, Http!WriteHeader, Http!WriteBody, Http!Done,
     Http!Refresh, Http!CheckJWT, Http!CreateJWTCookie
<1>3. ASSUME NEW r \in Conns, NEW h \in Http!Handlers,
             Http!Arrive(r, h)
      PROVE  Unanswered'
  BY <1>3 DEF Http!Arrive, Http!Break, Http!Goto, Http!Handlers
<1>4. ASSUME NEW r \in Conns, Http!Handle(r) PROVE Unanswered'
  BY <1>4 DEF Http!Handle, Http!Goto, Http!Reject, Http!Return,
     Http!ProcessError, Http!WriteHeader, Http!WriteBody, Http!Respond,
     Http!Defer, Http!Pooled, Http!Unused
<1>5. ASSUME NEW r \in Conns, Http!WriteStatus(r) PROVE Unanswered'
  BY <1>5
     DEF AnswerIsOne, Http!AnswerIsOne, Http!WriteStatus, Http!Goto, Http!WriteHeader
<1>6. ASSUME NEW r \in Conns, Http!Write(r) PROVE Unanswered'
  BY <1>6 DEF Http!Write, Http!Break, Http!Goto, Http!Return, Http!WriteHeader,
     Http!WriteBody
<1>7. ASSUME NEW r \in Conns, Http!Panic(r) PROVE Unanswered'
  BY <1>7 DEF Http!Panic, Http!Goto, Http!Recover, Http!Break, Http!Return,
     Http!ProcessError, Http!WriteHeader, Http!WriteBody
<1>8. ASSUME Http!Tick PROVE Unanswered'
  BY <1>8 DEF Http!Tick
<1>9. ASSUME NEW b \in Buffers, Http!Collect(b) PROVE Unanswered'
  BY <1>9 DEF Http!Collect
<1>10. ASSUME UNCHANGED Http!vars PROVE Unanswered'
  BY <1>10 DEF Http!vars
<1>11. ASSUME NEW r \in Conns, Http!SetErrorLog(r) \/ Http!Finish(r)
      PROVE  Unanswered'
  BY <1>11 DEF Http!SetErrorLog, Http!Finish, Http!Goto, Http!WriteHeader
<1>. QED
  BY <1>1, <1>2, <1>3, <1>4, <1>5, <1>6, <1>7, <1>8, <1>9, <1>10,
     <1>11 DEF Http!Next

\* A handler returns with an error's status and body, or after its response.
LEMMA NextAnswerIsOne == HttpInv /\ [Http!Next]_Http!vars => AnswerIsOne'
<1>. SUFFICES ASSUME HttpInv, [Http!Next]_Http!vars PROVE AnswerIsOne'
  OBVIOUS
<1>. USE HttpAssumption DEF HttpInv, Http!TypeOK, Http!Open, Http!Handlers,
     Unanswered, AnswerIsOne, Http!AnswerIsOne, Http!serverVars,
     Http!tokenVars, Http!bufferVars, Http!answerVars
<1>1. ASSUME NEW r \in Conns,
             \/ Http!Check(r) \/ Http!ReadBody(r)
      PROVE  AnswerIsOne'
  BY <1>1 DEF Http!Check, Http!Goto, Http!Reject, Http!Return,
     Http!ProcessError, Http!WriteHeader, Http!WriteBody, Http!CheckJWT,
     Http!ReadBody, Http!Unused
<1>2. ASSUME NEW r \in Conns,
             \/ Http!SignIn(r) \/ Http!Refresh(r) \/ Http!CreateJWTCookie(r)
      PROVE  AnswerIsOne'
  BY <1>2 DEF Http!SignIn, Http!Goto, Http!Reject, Http!Return,
     Http!ProcessError, Http!WriteHeader, Http!WriteBody, Http!Done,
     Http!Refresh, Http!CheckJWT, Http!CreateJWTCookie
<1>3. ASSUME NEW r \in Conns, NEW h \in Http!Handlers,
             Http!Arrive(r, h)
      PROVE  AnswerIsOne'
  BY <1>3 DEF Http!Arrive, Http!Break, Http!Goto, Http!Handlers
<1>4. ASSUME NEW r \in Conns, Http!Handle(r) PROVE AnswerIsOne'
  BY <1>4 DEF Http!Handle, Http!Goto, Http!Reject, Http!Return,
     Http!ProcessError, Http!WriteHeader, Http!WriteBody, Http!Respond,
     Http!Defer, Http!Pooled, Http!Unused
<1>5. ASSUME NEW r \in Conns, Http!WriteStatus(r) PROVE AnswerIsOne'
  BY <1>5 DEF Http!WriteStatus, Http!Goto, Http!WriteHeader
<1>6. ASSUME NEW r \in Conns, Http!Write(r) PROVE AnswerIsOne'
  BY <1>6 DEF Http!Write, Http!Break, Http!Goto, Http!Return, Http!WriteHeader,
     Http!WriteBody
<1>7. ASSUME NEW r \in Conns, Http!Panic(r) PROVE AnswerIsOne'
  BY <1>7 DEF Http!Panic, Http!Goto, Http!Recover, Http!Break, Http!Return,
     Http!ProcessError, Http!WriteHeader, Http!WriteBody
<1>8. ASSUME Http!Tick PROVE AnswerIsOne'
  BY <1>8 DEF Http!Tick
<1>9. ASSUME NEW b \in Buffers, Http!Collect(b) PROVE AnswerIsOne'
  BY <1>9 DEF Http!Collect
<1>10. ASSUME UNCHANGED Http!vars PROVE AnswerIsOne'
  BY <1>10 DEF Http!vars
<1>11. ASSUME NEW r \in Conns, Http!SetErrorLog(r) \/ Http!Finish(r)
      PROVE  AnswerIsOne'
  BY <1>11 DEF Http!SetErrorLog, Http!Finish, Http!Goto, Http!WriteHeader
<1>. QED
  BY <1>1, <1>2, <1>3, <1>4, <1>5, <1>6, <1>7, <1>8, <1>9, <1>10,
     <1>11 DEF Http!Next

\* CreateJWTCookie moves the time of the voucher with that of the token.
LEMMA NextTokensVouched == HttpInv /\ [Http!Next]_Http!vars => TokensVouched'
<1>. SUFFICES ASSUME HttpInv, [Http!Next]_Http!vars PROVE TokensVouched'
  OBVIOUS
<1>. USE HttpAssumption DEF HttpInv, Http!TypeOK, Http!Open, Http!Handlers,
     TokensVouched, Http!serverVars, Http!tokenVars, Http!bufferVars,
     Http!answerVars
<1>1. ASSUME NEW r \in Conns,
             \/ Http!Check(r) \/ Http!ReadBody(r) \/ Http!Handle(r)
             \/ Http!WriteStatus(r)
      PROVE  TokensVouched'
  BY <1>1 DEF Http!Check, Http!Goto, Http!Reject, Http!Return,
     Http!ProcessError, Http!WriteHeader, Http!WriteBody, Http!CheckJWT,
     Http!ReadBody, Http!Unused, Http!Handle, Http!Respond, Http!Defer,
     Http!Pooled, Http!WriteStatus
<1>2. ASSUME NEW r \in Conns, NEW h \in Http!Handlers,
             Http!Arrive(r, h)
      PROVE  TokensVouched'
  BY <1>2 DEF Http!Arrive, Http!Break, Http!Goto, Http!Handlers
<1>3. ASSUME NEW r \in Conns, Http!Write(r) PROVE TokensVouched'
  BY <1>3 DEF Http!Write, Http!Break, Http!Goto, Http!Return, Http!WriteHeader,
     Http!WriteBody
<1>4. ASSUME NEW r \in Conns, Http!SignIn(r) PROVE TokensVouched'
  BY <1>4 DEF Http!SignIn, Http!Goto, Http!Reject, Http!Return,
     Http!ProcessError, Http!WriteHeader, Http!WriteBody, Http!Done
<1>5. ASSUME NEW r \in Conns, Http!Refresh(r) PROVE TokensVouched'
  BY <1>5 DEF Http!Refresh, Http!Goto, Http!Reject, Http!Return,
     Http!ProcessError, Http!WriteHeader, Http!WriteBody, Http!Done,
     Http!CheckJWT
<1>6. ASSUME NEW r \in Conns, Http!CreateJWTCookie(r) PROVE TokensVouched'
  <2>1. CASE UNCHANGED Http!tokenVars
    BY <1>6, <2>1 DEF Http!CreateJWTCookie, Http!Reject, Http!Return, Http!Done,
           Http!Goto
  <2>2. CASE /\ tokens' = tokens \cup {now + Life} /\ UNCHANGED legit
             /\ vouched' = IF r \in legit /\ vouched < now + Life
                             THEN now + Life ELSE vouched
             /\ Http!Goto(r, "end")
    <3>1. r \in legit
      BY <1>6 DEF Http!CreateJWTCookie
    <3>2. now + Life <= vouched' /\ vouched <= vouched' /\ vouched' \in Nat
      BY <2>2, <3>1
    <3>. QED
      BY <2>2, <3>1, <3>2 DEF Http!Goto
  <2>. QED
    BY <1>6, <2>1, <2>2 DEF Http!CreateJWTCookie, Http!Done
<1>7. ASSUME NEW r \in Conns, Http!Panic(r) PROVE TokensVouched'
  BY <1>7 DEF Http!Panic, Http!Goto, Http!Recover, Http!Break, Http!Return,
     Http!ProcessError, Http!WriteHeader, Http!WriteBody
<1>8. ASSUME Http!Tick PROVE TokensVouched'
  BY <1>8 DEF Http!Tick
<1>9. ASSUME NEW b \in Buffers, Http!Collect(b) PROVE TokensVouched'
  BY <1>9 DEF Http!Collect
<1>10. ASSUME UNCHANGED Http!vars PROVE TokensVouched'
  BY <1>10 DEF Http!vars
<1>11. ASSUME NEW r \in Conns, Http!SetErrorLog(r) \/ Http!Finish(r)
      PROVE  TokensVouched'
  <2>1. CASE Http!SetErrorLog(r)
    BY <2>1 DEF Http!SetErrorLog
  <2>2. CASE Http!Finish(r)
    BY <2>2 DEF Http!Finish, Http!Goto
  <2>. QED
    BY <1>11, <2>1, <2>2
<1>. QED
  BY <1>1, <1>2, <1>3, <1>4, <1>5, <1>6, <1>7, <1>8, <1>9, <1>10,
     <1>11 DEF Http!Next

\* The connections bring their first requests to a service with an empty pool.
LEMMA HttpInitInv == Http!Init => HttpInv
<1>. SUFFICES ASSUME Http!Init PROVE HttpInv
  OBVIOUS
<1>. USE HttpAssumption DEF Http!Init
<1>1. Http!TypeOK
  <2>1. broken \in [Conns -> Http!Breaks] /\ putBack \in [Conns -> BOOLEAN]
    BY DEF Http!Breaks
  <2>2. body \in [Conns -> SUBSET {"response", "error"}]
    OBVIOUS
  <2>. QED
    BY <2>1, <2>2 DEF Http!TypeOK
<1>2. InHand /\ ArraysApart
  BY DEF InHand, ArraysApart
<1>3. Unanswered /\ AnswerIsOne /\ TokensVouched
  BY DEF Unanswered, AnswerIsOne, Http!AnswerIsOne, TokensVouched
<1>. QED
  BY <1>1, <1>2, <1>3 DEF HttpInv

\* The invariant holds whatever requests come and however their handlers end.
LEMMA HttpSpecInv == Http!Spec => []HttpInv
<1>1. HttpInv /\ [Http!Next]_Http!vars => HttpInv'
  BY NextHttpTypeOK, NextInHand, NextArraysApart, NextUnanswered,
     NextAnswerIsOne, NextTokensVouched DEF HttpInv
<1>. QED
  BY HttpInitInv, <1>1, PTL DEF Http!Spec

-----------------------------------------------------------------------------
(* HttpService: the properties                                             *)

\* httpservice.go:380-390: whichever requests end, panic or take a buffer meanwhile,
\* the array of a response is neither in the pool nor in another request's hands.
THEOREM BuffersAlone == Http!Spec => []BufferAlone
<1>1. ASSUME HttpInv PROVE BufferAlone
  <2>. SUFFICES ASSUME NEW r \in Conns, response[r] # None
                PROVE  /\ response[r] \notin pool
                       /\ \A q \in Conns \ {r} : response[r] \notin {buf[q], response[q]}
    BY DEF BufferAlone, Http!BufferAlone, Http!Answering
  <2>. QED
    BY <1>1 DEF HttpInv, ArraysApart
<1>. QED
  BY HttpSpecInv, <1>1, PTL

\* httpservice.go:246-275, 278-435, 463-544: a request that is done has got a status,
\* unless the recovery of its panic panicked too; a response comes with its own status,
\* and an error behind it only when the client stopped or a call after the header
\* panicked, for every way through Process, the handlers of tokens and recoverWrap.
THEOREM AnsweredOnce == Http!Spec => []AnswerIsOne
<1>1. HttpInv => AnswerIsOne
  BY DEF HttpInv
<1>. QED
  BY HttpSpecInv, <1>1, PTL

\* jwt.go:20-110, handler_auth.go:103-148: an action property; no token opens the
\* service longer than a sign-in and the renewals after it vouch for.
THEOREM OnlyWhileVouched == Http!Spec => LetInWhileVouched
<1>1. ASSUME HttpInv, Http!Next
      PROVE  \A r \in Conns :
               cfg.useJWT /\ pc[r] = "process" /\ pc'[r] = "readBody" => now <= vouched
  <2>. SUFFICES ASSUME NEW r \in Conns, cfg.useJWT, pc[r] = "process",
                       pc'[r] = "readBody"
                PROVE  now <= vouched
    OBVIOUS
  <2>. USE HttpAssumption
  <2>1. pc \in [Conns -> Http!Open \cup {"none", "done"}]
    BY <1>1 DEF HttpInv, Http!TypeOK
  <2>2. ASSUME NEW q \in Conns, NEW to, Http!Goto(q, to), to # "readBody"
        PROVE  FALSE
    BY <2>1, <2>2 DEF Http!Goto
  <2>3. ~UNCHANGED pc
    OBVIOUS
  <2>4. ASSUME NEW q \in Conns, Http!Check(q) PROVE now <= vouched
    <3>1. Http!Goto(q, "readBody") /\ q = r
      BY <2>1, <2>2, <2>4 DEF Http!Check, Http!Reject, Http!Return, Http!Goto
    <3>2. PICK t \in tokens : Http!CheckJWT(t)
      BY <2>2, <2>4 DEF Http!Check, Http!Reject, Http!Return
    <3>. QED
      BY <1>1, <3>2 DEF HttpInv, Http!TypeOK, TokensVouched, Http!CheckJWT
  <2>5. ASSUME NEW q \in Conns,
               \/ \E h \in Http!Handlers : Http!Arrive(q, h)
               \/ Http!ReadBody(q) \/ Http!Handle(q) \/ Http!WriteStatus(q)
               \/ Http!Write(q) \/ Http!SignIn(q) \/ Http!Refresh(q)
               \/ Http!CreateJWTCookie(q) \/ Http!Panic(q) \/ Http!Finish(q)
        PROVE  FALSE
    BY <2>2, <2>5
       DEF Http!Arrive, Http!ReadBody, Http!Handle, Http!Respond, Http!WriteStatus,
           Http!Write, Http!SignIn, Http!Refresh, Http!CreateJWTCookie,
           Http!Panic, Http!Recover, Http!Reject, Http!Return, Http!Done,
           Http!Finish, Http!Handlers
  <2>6. /\ ~Http!Tick /\ \A b \in Buffers : ~Http!Collect(b)
        /\ \A q \in Conns : ~Http!SetErrorLog(q)
    BY <2>3 DEF Http!Tick, Http!Collect, Http!SetErrorLog
  <2>. QED
    BY <1>1, <2>4, <2>5, <2>6 DEF Http!Next
<1>2. ASSUME HttpInv, [Http!Next]_Http!vars
      PROVE  [\A r \in Conns :
                cfg.useJWT /\ pc[r] = "process" /\ pc'[r] = "readBody" =>
                  now <= vouched]_Http!vars
  BY <1>1, <1>2
<1>. QED
  BY HttpSpecInv, <1>2, PTL DEF Http!Spec, LetInWhileVouched, Http!LetInWhileVouched

-----------------------------------------------------------------------------
(* Logging: the inductive invariant                                        *)

\* The sinks of the global logger.
ZapSinks == IF zap = None THEN {} ELSE zap

\* What a logger writes to was made before.
Made ==
  /\ ZapSinks \cup closers \cup ({httpFile} \ {None}) \subseteq used
  /\ \A c \in Configurers : cores[c] \subseteq used
  /\ \A w \in Writers : target[w] \subseteq used

\* Configurations that do not overlap come one after the other.
OneByOne ==
  ~lapped => \A c, d \in Underway : c = d

\* The open files that the configurer has to account for.
Known == open \ (Urls \cup reopened)

\* Where they are while a configuration is under way (logger.go:183-322,
\* httplog.go:68-92): closed with the old loggers, or in the hands of the new one.
\* A message that comes in between opens nothing but what is in use.
Accounted ==
  ~lapped =>
    /\ ZapSinks \ Urls \subseteq closers
    /\ Underway = {} => Known \subseteq InUse /\ Known \subseteq closers \cup {httpFile}
    /\ \A c \in Configurers :
         /\ setter[c] = "reset" =>
              Known \subseteq {httpFile} /\ ZapSinks \ Urls \subseteq closed
         /\ setter[c] = "level" => ZapSinks = {} /\ Known \subseteq {httpFile}
         /\ setter[c] = "build" =>
              /\ ZapSinks = {} /\ cores[c] \ Urls \subseteq closers
              /\ Known \subseteq {httpFile} \cup (cores[c] \cap closers)
         /\ setter[c] = "http" =>
              /\ Known \subseteq ZapSinks
              /\ httpFile # None => httpFile \in closed

LogInv == TypeOK /\ Made /\ OneByOne /\ Accounted

-----------------------------------------------------------------------------
(* Every step keeps the invariant                                          *)

\* Every step of a configurer or a writer keeps the types.
LEMMA NextLogTypeOK == LogInv /\ [Next]_vars => TypeOK'
<1>. SUFFICES ASSUME LogInv, [Next]_vars PROVE TypeOK'
  OBVIOUS
<1>. USE SinksAssumption, HttpAssumption DEF LogInv, TypeOK, Made, ZapSinks,
     globalVars, httpVars, writerVars
<1>1. ASSUME NEW w \in Writers,
             \/ Check(w) \/ Log(w) \/ LogHTTP(w)
      PROVE  TypeOK'
  BY <1>1 DEF Check, configVars, Log, LogHTTP
<1>2. ASSUME NEW c \in Configurers, LoggerSetConfigHandler(c) PROVE TypeOK'
  BY <1>2 DEF LoggerSetConfigHandler, CloseLogger, gClose, Close, Begin, Goto
<1>3. ASSUME NEW c \in Configurers, Reset(c) PROVE TypeOK'
  BY <1>3 DEF Reset, Goto
<1>4. ASSUME NEW c \in Configurers, SetGlobalConfig(c) PROVE TypeOK'
  <2>1. enabled' \in BOOLEAN /\ cores' \in [Configurers -> SUBSET Sinks]
    BY <1>4 DEF SetGlobalConfig
  <2>2. zap' \in (SUBSET Sinks) \cup {None}
    BY <1>4 DEF SetGlobalConfig
  <2>3. \E to \in {"idle", "build"} : setter' = [setter EXCEPT ![c] = to]
    BY <1>4 DEF SetGlobalConfig, Goto
  <2>. QED
    BY <1>4, <2>1, <2>2, <2>3 DEF SetGlobalConfig
<1>5. ASSUME NEW c \in Configurers, NEW s \in Sinks,
             AddCore(c, s)
      PROVE  TypeOK'
  BY <1>5 DEF AddCore
<1>6. ASSUME NEW c \in Configurers, Abort(c) PROVE TypeOK'
  <2>1. open' \subseteq used' /\ closed' \subseteq used' /\ reopened' \subseteq used'
    BY <1>6 DEF Abort, gClose, Close
  <2>2. setter' \in [Configurers -> {"idle", "reset", "level", "build", "http"}]
    BY <1>6 DEF Abort, Goto
  <2>3. /\ zap' = None
        /\ UNCHANGED <<enabled, closers, httpOn, httpFile, used, cores, writer,
                       target, lapped>>
    BY <1>6 DEF Abort
  <2>4. enabled' \in BOOLEAN /\ httpOn' \in BOOLEAN /\ lapped' \in BOOLEAN
    BY <2>3
  <2>. QED
    BY <2>1, <2>2, <2>3, <2>4
<1>7. ASSUME NEW c \in Configurers, SetLogger(c) PROVE TypeOK'
  BY <1>7 DEF SetLogger, Goto
<1>8. ASSUME NEW c \in Configurers, HTTPLogHandler(c) PROVE TypeOK'
  BY <1>8 DEF HTTPLogHandler, CloseHttp, Close, Begin, Goto
<1>9. ASSUME NEW c \in Configurers, SetHttp(c) PROVE TypeOK'
  <2>1. httpOn' \in BOOLEAN /\ setter' = [setter EXCEPT ![c] = "idle"]
    BY <1>9 DEF SetHttp, Goto
  <2>2. /\ httpFile' \in Rotated \cup {None} /\ closers' \subseteq Sinks
        /\ used \subseteq used' /\ used' \subseteq Sinks
    BY <1>9 DEF SetHttp
  <2>. QED
    BY <1>9, <2>1, <2>2 DEF SetHttp
<1>10. ASSUME NEW w \in Writers, Write(w) PROVE TypeOK'
  BY <1>10 DEF Write, configVars
<1>11. ASSUME UNCHANGED vars PROVE TypeOK'
  BY <1>11 DEF vars
<1>. QED
  BY <1>1, <1>2, <1>3, <1>4, <1>5, <1>6, <1>7, <1>8, <1>9, <1>10, <1>11 DEF
     Next

\* Sinks are made by AddCore and SetHttp and never taken back.
LEMMA NextMade == LogInv /\ [Next]_vars => Made'
<1>. SUFFICES ASSUME LogInv, [Next]_vars PROVE Made'
  OBVIOUS
<1>. USE SinksAssumption, HttpAssumption DEF LogInv, TypeOK, Made, ZapSinks,
     globalVars, httpVars, writerVars
<1>1. ASSUME NEW c \in Configurers,
             \/ LoggerSetConfigHandler(c) \/ Reset(c) \/ Abort(c) \/ HTTPLogHandler(c)
      PROVE  Made'
  BY <1>1 DEF LoggerSetConfigHandler, CloseLogger, gClose, Close, Begin, Reset, Abort, HTTPLogHandler, CloseHttp,
     Goto
<1>2. ASSUME NEW w \in Writers,
             \/ Check(w) \/ Log(w) \/ LogHTTP(w)
      PROVE  Made'
  BY <1>2 DEF Check, configVars, Log, LogHTTP
<1>3. ASSUME NEW c \in Configurers, SetGlobalConfig(c) PROVE Made'
  BY <1>3 DEF SetGlobalConfig, Goto
<1>4. ASSUME NEW c \in Configurers, NEW s \in Sinks, AddCore(c, s) PROVE Made'
  BY <1>4 DEF AddCore
<1>5. ASSUME NEW c \in Configurers, SetLogger(c) PROVE Made'
  BY <1>5 DEF SetLogger, Goto
<1>6. ASSUME NEW c \in Configurers, SetHttp(c) PROVE Made'
  BY <1>6 DEF SetHttp, Goto
<1>7. ASSUME NEW w \in Writers, Write(w) PROVE Made'
  BY <1>7 DEF Write, configVars
<1>8. ASSUME UNCHANGED vars PROVE Made'
  BY <1>8 DEF vars
<1>. QED
  BY <1>1, <1>2, <1>3, <1>4, <1>5, <1>6, <1>7, <1>8 DEF Next

\* A second configurer that begins is a lap.
LEMMA NextOneByOne == LogInv /\ [Next]_vars => OneByOne'
<1>. SUFFICES ASSUME LogInv, [Next]_vars PROVE OneByOne'
  OBVIOUS
<1>. USE SinksAssumption, HttpAssumption DEF LogInv, TypeOK, OneByOne,
     Underway, globalVars, httpVars, writerVars
<1>1. ASSUME NEW c \in Configurers,
             \/ Reset(c) \/ SetGlobalConfig(c) \/ Abort(c) \/ SetLogger(c)
      PROVE  OneByOne'
  BY <1>1 DEF Reset, SetGlobalConfig, Abort, gClose, Close, SetLogger, Goto
<1>2. ASSUME NEW w \in Writers,
             \/ Check(w) \/ Log(w) \/ LogHTTP(w) \/ Write(w)
      PROVE  OneByOne'
  BY <1>2 DEF Check, configVars, Log, LogHTTP, Write
<1>3. ASSUME NEW c \in Configurers, LoggerSetConfigHandler(c) PROVE OneByOne'
  <2>. SUFFICES ASSUME ~lapped' PROVE OneByOne'
    OBVIOUS
  <2>1. \A d \in Configurers : setter[d] = "idle"
    BY <1>3 DEF LoggerSetConfigHandler, CloseLogger, Begin
  <2>2. setter' = [setter EXCEPT ![c] = "reset"]
    BY <1>3 DEF LoggerSetConfigHandler, CloseLogger, Goto
  <2>. QED
    BY <2>1, <2>2
<1>4. ASSUME NEW c \in Configurers, NEW s \in Sinks,
             AddCore(c, s)
      PROVE  OneByOne'
  BY <1>4 DEF AddCore
<1>5. ASSUME NEW c \in Configurers, HTTPLogHandler(c) PROVE OneByOne'
  <2>. SUFFICES ASSUME ~lapped' PROVE OneByOne'
    OBVIOUS
  <2>1. \A d \in Configurers : setter[d] = "idle"
    BY <1>5 DEF HTTPLogHandler, CloseHttp, Begin
  <2>2. UNCHANGED setter \/ setter' = [setter EXCEPT ![c] = "http"]
    BY <1>5 DEF HTTPLogHandler, CloseHttp, Goto
  <2>. QED
    BY <2>1, <2>2
<1>6. ASSUME NEW c \in Configurers, SetHttp(c) PROVE OneByOne'
  BY <1>6 DEF SetHttp, Goto
<1>7. ASSUME UNCHANGED vars PROVE OneByOne'
  BY <1>7 DEF vars
<1>. QED
  BY <1>1, <1>2, <1>3, <1>4, <1>5, <1>6, <1>7 DEF Next

\* No step loses sight of an open file.
LEMMA NextAccounted == LogInv /\ [Next]_vars => Accounted'
<1>. SUFFICES ASSUME LogInv, [Next]_vars PROVE Accounted'
  OBVIOUS
<1>. USE SinksAssumption, HttpAssumption DEF LogInv, TypeOK, Made, OneByOne,
     Accounted, ZapSinks, Known, InUse, Underway, globalVars, httpVars,
     writerVars
<1>1. ASSUME NEW w \in Writers,
             \/ Check(w) \/ Log(w) \/ LogHTTP(w)
      PROVE  Accounted'
  BY <1>1 DEF Check, configVars, Log, LogHTTP
<1>2. ASSUME NEW c \in Configurers, LoggerSetConfigHandler(c) PROVE Accounted'
  BY <1>2 DEF LoggerSetConfigHandler, CloseLogger, gClose, Close, Begin, Goto
<1>3. ASSUME NEW c \in Configurers, Reset(c) PROVE Accounted'
  BY <1>3 DEF Reset, Goto
<1>4. ASSUME NEW c \in Configurers, SetGlobalConfig(c) PROVE Accounted'
  BY <1>4 DEF SetGlobalConfig, Goto
<1>5. ASSUME NEW c \in Configurers, NEW s \in Sinks,
             AddCore(c, s)
      PROVE  Accounted'
  BY <1>5 DEF AddCore
<1>6. ASSUME NEW c \in Configurers, Abort(c) PROVE Accounted'
  BY <1>6 DEF Abort, gClose, Close, Goto
<1>7. ASSUME NEW c \in Configurers, SetLogger(c) PROVE Accounted'
  BY <1>7 DEF SetLogger, Goto
<1>8. ASSUME NEW c \in Configurers, HTTPLogHandler(c) PROVE Accounted'
  <2>. SUFFICES ASSUME ~lapped' PROVE Accounted'
    OBVIOUS
  <2>1. Underway = {} /\ ~lapped
    BY <1>8 DEF HTTPLogHandler, CloseHttp, Begin
  <2>2. /\ Known' = Known \ {httpFile} /\ UNCHANGED <<zap, closers, httpFile>>
        /\ httpFile # None => httpFile \in closed'
        /\ \A s \in closed : s \in closed'
    BY <1>8 DEF HTTPLogHandler, CloseHttp, Close
  <2>3. \A d \in Configurers : setter[d] = "idle"
    BY <2>1
  <2>4. CASE UNCHANGED setter
    BY <2>1, <2>2, <2>3, <2>4
  <2>5. CASE Goto(c, "http")
    <3>1. setter' = [setter EXCEPT ![c] = "http"]
      BY <2>5 DEF Goto
    <3>. QED
      BY <2>1, <2>2, <2>3, <3>1
  <2>. QED
    BY <1>8, <2>4, <2>5 DEF HTTPLogHandler, CloseHttp
<1>9. ASSUME NEW c \in Configurers, SetHttp(c) PROVE Accounted'
  BY <1>9 DEF SetHttp, Goto
<1>10. ASSUME NEW w \in Writers, Write(w) PROVE Accounted'
  BY <1>10 DEF Write, configVars
<1>11. ASSUME UNCHANGED vars PROVE Accounted'
  BY <1>11 DEF vars
<1>. QED
  BY <1>1, <1>2, <1>3, <1>4, <1>5, <1>6, <1>7, <1>8, <1>9, <1>10, <1>11 DEF
     Next

\* The package begins with the default logger and no file.
LEMMA LogInitInv == Init => LogInv
<1>. SUFFICES ASSUME Init PROVE LogInv
  OBVIOUS
<1>. USE SinksAssumption, HttpAssumption DEF Init
<1>1. TypeOK
  <2>1. enabled \in BOOLEAN /\ httpOn \in BOOLEAN /\ lapped \in BOOLEAN
    OBVIOUS
  <2>. QED
    BY <2>1 DEF TypeOK
<1>2. Made /\ OneByOne
  BY DEF Made, OneByOne, Underway, ZapSinks
<1>3. Accounted
  BY DEF Accounted, Underway, Known, ZapSinks
<1>. QED
  BY <1>1, <1>2, <1>3 DEF LogInv

\* The invariant holds however configurers and writers come between each other.
LEMMA LogSpecInv == Spec => []LogInv
<1>1. LogInv /\ [Next]_vars => LogInv'
  BY NextLogTypeOK, NextMade, NextOneByOne, NextAccounted DEF LogInv
<1>. QED
  BY LogInitInv, <1>1, PTL DEF Spec

-----------------------------------------------------------------------------
(* Logging: the properties                                                 *)

\* logger.go:183-322, 415-434, httplog.go:68-92: the replacement of a logger under the
\* messages of others, failed or not, leaves no file open that nobody writes to, and
\* none that CloseLogger and the HTTP log would not close.
THEOREM NoFileLeaks == Spec => []NoFileLeft
<1>1. LogInv => NoFileLeft
  BY DEF LogInv, Accounted, NoFileLeft, Known
<1>. QED
  BY LogSpecInv, <1>1, PTL

-----------------------------------------------------------------------------
(* Numbers and functions that are defined by recursion                     *)

\* A set of numbers that is not empty has a least one.
LEMMA Least ==
  ASSUME NEW T \in SUBSET Nat, T # {}
  PROVE  \E n \in T : \A m \in T : n <= m
<1>. DEFINE Below == {p \in Nat \X Nat : p[1] < p[2]}
<1>1. IsWellFoundedOn(Below, Nat)
  BY NatLessThanWellFounded DEF OpToRel
<1>2. PICK n \in T : \A m \in T : ~(<<m, n>> \in Below)
  <2>. HIDE DEF Below
  <2>. QED
    BY <1>1, WFMin
<1>3. ASSUME NEW m \in T PROVE n <= m
  <2>1. m \in Nat /\ n \in Nat /\ <<m, n>> \notin Below
    BY <1>2
  <2>2. m < n => <<m, n>> \in Below
    BY <2>1
  <2>. QED
    BY <2>1, <2>2
<1>. QED
  BY <1>3

\* Induction over an initial segment of the numbers, or all of them.
Segment(N) == N \in SUBSET Nat /\ \A i \in N : i # 0 => i - 1 \in N

LEMMA Induction ==
  ASSUME NEW N, Segment(N), NEW T,
         \A i \in N : (i # 0 => i - 1 \in T) => i \in T
  PROVE  N \subseteq T
<1>. SUFFICES ASSUME N \ T # {} PROVE FALSE
  OBVIOUS
<1>1. PICK n \in N \ T : \A m \in N \ T : n <= m
  <2>1. N \ T \in SUBSET Nat
    BY DEF Segment
  <2>. QED
    BY <2>1, Least
<1>2. n \in Nat /\ (n # 0 => n - 1 \in N /\ n - 1 \in Nat)
  BY <1>1 DEF Segment
<1>3. n # 0 => n - 1 \in T
  BY <1>1, <1>2
<1>. QED
  BY <1>1, <1>3

LEMMA Segments ==
  /\ Segment(Nat)
  /\ \A n \in Nat : Segment(0..n)
BY DEF Segment

\* What is recursive from 0 on.
Recursive(f, N, a, G) ==
  \A i \in N : f[i] = IF i = 0 THEN a ELSE G[<<i, f[i - 1]>>]

\* Two such functions agree where both are defined.
LEMMA RecursionUnique ==
  ASSUME NEW N, Segment(N), NEW a, NEW G, NEW f, NEW g,
         Recursive(f, N, a, G), Recursive(g, N, a, G)
  PROVE  \A i \in N : f[i] = g[i]
<1>. DEFINE T == {i \in N : f[i] = g[i]}
<1>1. ASSUME NEW i \in N, i # 0 => i - 1 \in T PROVE i \in T
  BY <1>1 DEF Recursive
<1>2. N \subseteq T
  <2>. HIDE DEF T
  <2>. QED
    BY <1>1, Induction
<1>. QED
  BY <1>2

\* There is one on each initial segment.
LEMMA RecursionUpTo ==
  ASSUME NEW S, NEW a \in S, NEW N, Segment(N), NEW G \in [N \X S -> S]
  PROVE  \A n \in N : \E f \in [0..n -> S] : Recursive(f, 0..n, a, G)
<1>. DEFINE T == {n \in N : \E f \in [0..n -> S] : Recursive(f, 0..n, a, G)}
<1>1. ASSUME NEW n \in N, n # 0 => n - 1 \in T PROVE n \in T
  <2>1. CASE n = 0
    <3>1. [i \in 0..n |-> a] \in [0..n -> S] /\ Recursive([i \in 0..n |-> a], 0..n, a, G)
      BY <2>1 DEF Recursive
    <3>. QED
      BY <3>1
  <2>2. CASE n # 0
    <3>1. n \in Nat /\ n - 1 \in Nat /\ n - 1 # n
      BY <2>2 DEF Segment
    <3>2. PICK f \in [0..(n - 1) -> S] : Recursive(f, 0..(n - 1), a, G)
      BY <1>1, <2>2
    <3>. DEFINE g == [i \in 0..n |-> IF i = n THEN G[<<n, f[n - 1]>>] ELSE f[i]]
    <3>3. f[n - 1] \in S /\ G[<<n, f[n - 1]>>] \in S
      BY <3>1
    <3>4. g \in [0..n -> S]
      BY <3>1, <3>3
    <3>5. ASSUME NEW i \in 0..n PROVE g[i] = IF i = 0 THEN a ELSE G[<<i, g[i - 1]>>]
      <4>1. CASE i = n
        <5>1. n - 1 \in 0..n
          BY <3>1
        <5>. QED
          BY <4>1, <5>1, <3>1, <2>2
      <4>2. CASE i # n
        <5>1. i \in 0..(n - 1)
          BY <4>2, <3>1
        <5>2. g[i] = f[i] /\ (i # 0 => g[i - 1] = f[i - 1])
          BY <5>1, <4>2, <3>1
        <5>. QED
          BY <5>1, <5>2, <3>2 DEF Recursive
      <4>. QED
        BY <4>1, <4>2
    <3>6. Recursive(g, 0..n, a, G)
      BY <3>5 DEF Recursive
    <3>. QED
      BY <3>4, <3>6
  <2>. QED
    BY <2>1, <2>2
<1>2. N \subseteq T
  <2>. HIDE DEF T
  <2>. QED
    BY <1>1, Induction
<1>. QED
  BY <1>2

\* There is one on the whole of the set.
LEMMA Recursion ==
  ASSUME NEW S, NEW a \in S, NEW N, Segment(N), NEW G \in [N \X S -> S]
  PROVE  \E f \in [N -> S] : Recursive(f, N, a, G)
<1>. DEFINE Is(f, n) == f \in [0..n -> S] /\ Recursive(f, 0..n, a, G)
            Part(n) == CHOOSE f : Is(f, n)
            F == [n \in N |-> Part(n)[n]]
<1>1. ASSUME NEW n \in N
      PROVE  Part(n) \in [0..n -> S] /\ Recursive(Part(n), 0..n, a, G)
  <2>1. \E f : Is(f, n)
    BY RecursionUpTo
  <2>2. Is(Part(n), n)
    <3>. HIDE DEF Is
    <3>. QED
      BY <2>1
  <2>. QED
    BY <2>2
<1>2. F \in [N -> S]
  <2>. HIDE DEF Part
  <2>1. ASSUME NEW n \in N PROVE Part(n)[n] \in S
    <3>1. n \in 0..n
      BY DEF Segment
    <3>. QED
      BY <1>1, <3>1
  <2>. QED
    BY <2>1
<1>3. ASSUME NEW n \in N PROVE F[n] = IF n = 0 THEN a ELSE G[<<n, F[n - 1]>>]
  <2>. HIDE DEF Part
  <2>1. n \in Nat /\ n \in 0..n
    BY DEF Segment
  <2>2. Part(n)[n] = IF n = 0 THEN a ELSE G[<<n, Part(n)[n - 1]>>]
    BY <1>1, <2>1 DEF Recursive
  <2>3. CASE n = 0
    BY <2>2, <2>3
  <2>4. CASE n # 0
    <3>1. n - 1 \in N /\ n - 1 \in Nat /\ n - 1 \in 0..(n - 1)
      BY <2>1, <2>4 DEF Segment
    <3>2. Part(n)[n - 1] = Part(n - 1)[n - 1]
      <4>1. Recursive(Part(n), 0..(n - 1), a, G)
        BY <1>1, <2>1 DEF Recursive
      <4>. QED
        BY <1>1, <3>1, <4>1, RecursionUnique, Segments
    <3>. QED
      BY <2>2, <2>4, <3>1, <3>2
  <2>. QED
    BY <2>3, <2>4
<1>. QED
  BY <1>2, <1>3 DEF Recursive

-----------------------------------------------------------------------------
(* Arithmetic of a fixed width                                             *)

\* The quotient and the rest of a division.
LEMMA Division ==
  ASSUME NEW a \in Nat, NEW M \in Nat \ {0}
  PROVE  \E q, r \in Nat : a = M * q + r /\ r < M /\ a % M = r
<1>1. a \div M \in Nat /\ a = M * (a \div M) + (a % M) /\ a % M \in 0..(M - 1)
  OBVIOUS
<1>. QED
  BY <1>1

\* The rest is the only one.
LEMMA OneRest ==
  ASSUME NEW M \in Nat \ {0}, NEW a \in Nat, NEW b \in Nat, NEW k \in Int, a = b + M * k
  PROVE  a % M = b % M
<1>1. PICK p, r \in Nat : a = M * p + r /\ r < M /\ a % M = r
  BY Division
<1>2. PICK q, t \in Nat : b = M * q + t /\ t < M /\ b % M = t
  BY Division
<1>. DEFINE d == q + k - p
<1>3. d \in Int /\ r - t = M * d
  <2>1. d \in Int /\ M * d = M * q + M * k - M * p
    OBVIOUS
  <2>2. M * p + r = M * q + t + M * k
    BY <1>1, <1>2
  <2>. HIDE DEF d
  <2>. QED
    BY <2>1, <2>2
<1>. HIDE DEF d
<1>4. CASE d >= 1
  <2>1. M * d >= M
    BY <1>3, <1>4
  <2>. QED
    BY <1>1, <1>2, <1>3, <2>1
<1>5. CASE d <= -1
  <2>1. M * d <= -M
    BY <1>3, <1>5
  <2>. QED
    BY <1>1, <1>2, <1>3, <2>1
<1>6. CASE d = 0
  BY <1>1, <1>2, <1>3, <1>6
<1>. QED
  BY <1>3, <1>4, <1>5, <1>6

LEMMA SmallRest ==
  ASSUME NEW M \in Nat \ {0}, NEW a \in Nat, a < M
  PROVE  a % M = a
OBVIOUS

\* Wrapping a factor or a summand first makes no difference.
LEMMA WrapProduct ==
  ASSUME NEW M \in Nat \ {0}, NEW a \in Nat, NEW b \in Nat
  PROVE  ((a % M) * b) % M = (a * b) % M
<1>1. PICK q, r \in Nat : a = M * q + r /\ r < M /\ a % M = r
  BY Division
<1>2. r * b \in Nat /\ a * b \in Nat /\ q * b \in Int
  OBVIOUS
<1>3. a * b = r * b + M * (q * b)
  <2>1. (M * q + r) * b = r * b + M * (q * b)
    OBVIOUS
  <2>. QED
    BY <1>1, <2>1
<1>4. (a * b) % M = (r * b) % M
  BY <1>2, <1>3, OneRest
<1>. QED
  BY <1>1, <1>4

LEMMA WrapSum ==
  ASSUME NEW M \in Nat \ {0}, NEW a \in Nat, NEW b \in Nat
  PROVE  ((a % M) + (b % M)) % M = (a + b) % M
<1>1. PICK p, r \in Nat : a = M * p + r /\ r < M /\ a % M = r
  BY Division
<1>2. PICK q, t \in Nat : b = M * q + t /\ t < M /\ b % M = t
  BY Division
<1>3. a + b = r + t + M * (p + q)
  <2>1. M * (p + q) = M * p + M * q
    OBVIOUS
  <2>. QED
    BY <1>1, <1>2, <2>1
<1>4. r + t \in Nat /\ a + b \in Nat /\ p + q \in Int
  OBVIOUS
<1>5. (a + b) % M = (r + t) % M
  BY <1>3, <1>4, OneRest
<1>. QED
  BY <1>1, <1>2, <1>5

-----------------------------------------------------------------------------
(* Factorial: what the recursive functions compute                         *)

LEMMA WrapNat ==
  ASSUME NEW a \in Nat
  PROVE  2^Width \in Nat \ {0} /\ Sum!Wrap(a) = a % 2^Width /\ Sum!Wrap(a) \in Nat
<1>1. 2^Width \in Nat \ {0}
  BY WidthAssumption
<1>. QED
  BY <1>1 DEF Sum!Wrap

\* The loop of calculateFactorialFn.
LEMMA TimesProduct ==
  ASSUME NEW value \in Nat
  PROVE  \E product \in [0..value -> Nat] :
           /\ Sum!Times(1, value) = product[value]
           /\ product[0] = 1
           /\ \A cnt \in 1..value : product[cnt] = Sum!Wrap(product[cnt - 1] * cnt)
<1>. DEFINE G == [p \in (0..value) \X Nat |-> Sum!Wrap(p[2] * p[1])]
            Is(f) == f = [cnt \in 0..value |->
                            IF cnt = 0 THEN 1 ELSE Sum!Wrap(f[cnt - 1] * cnt)]
<1>1. G \in [(0..value) \X Nat -> Nat]
  BY WrapNat
<1>2. PICK f \in [0..value -> Nat] : Recursive(f, 0..value, 1, G)
  <2>. HIDE DEF G
  <2>. QED
    BY <1>1, Recursion, Segments
<1>3. Is(f)
  <2>1. ASSUME NEW cnt \in 0..value
        PROVE  f[cnt] = IF cnt = 0 THEN 1 ELSE Sum!Wrap(f[cnt - 1] * cnt)
    <3>1. cnt # 0 => cnt - 1 \in 0..value /\ f[cnt - 1] \in Nat
      OBVIOUS
    <3>2. cnt # 0 => G[<<cnt, f[cnt - 1]>>] = Sum!Wrap(f[cnt - 1] * cnt)
      BY <3>1
    <3>. HIDE DEF G
    <3>. QED
      BY <1>2, <3>2 DEF Recursive
  <2>. QED
    BY <2>1
<1>. DEFINE product == CHOOSE h : Is(h)
<1>4. Is(product)
  <2>. HIDE DEF Is
  <2>. QED
    BY <1>3
<1>5. Sum!Times(1, value) = product[value]
  BY DEF Sum!Times
<1>6. product[0] = 1 /\ \A cnt \in 1..value : product[cnt] = Sum!Wrap(product[cnt - 1] * cnt)
  <2>. HIDE DEF product
  <2>. QED
    BY <1>4
<1>7. product \in [0..value -> Nat]
  <2>. HIDE DEF product
  <2>. DEFINE T == {cnt \in 0..value : product[cnt] \in Nat}
  <2>1. ASSUME NEW cnt \in 0..value, cnt # 0 => cnt - 1 \in T PROVE cnt \in T
    <3>1. CASE cnt = 0
      BY <1>6, <3>1
    <3>2. CASE cnt # 0
      <4>1. product[cnt] = Sum!Wrap(product[cnt - 1] * cnt) /\ product[cnt - 1] * cnt \in Nat
        BY <1>6, <2>1, <3>2
      <4>. QED
        BY <4>1, WrapNat
    <3>. QED
      BY <3>1, <3>2
  <2>2. 0..value \subseteq T
    <3>. HIDE DEF T
    <3>. QED
      BY <2>1, Induction, Segments
  <2>. QED
    BY <1>4, <2>2
<1>. QED
  BY <1>5, <1>6, <1>7

\* The factorials.
LEMMA Factorials ==
  /\ Sum!Fact \in [Nat -> Nat] /\ Sum!Fact[0] = 1
  /\ \A n \in Nat \ {0} : Sum!Fact[n] = n * Sum!Fact[n - 1]
<1>. DEFINE G == [p \in Nat \X Nat |-> p[1] * p[2]]
            Is(f) == f = [n \in Nat |-> IF n = 0 THEN 1 ELSE n * f[n - 1]]
            F == CHOOSE h : Is(h)
<1>1. PICK f \in [Nat -> Nat] : Recursive(f, Nat, 1, G)
  <2>1. G \in [Nat \X Nat -> Nat]
    OBVIOUS
  <2>. HIDE DEF G
  <2>. QED
    BY <2>1, Recursion, Segments
<1>2. Is(f)
  <2>1. ASSUME NEW n \in Nat PROVE f[n] = IF n = 0 THEN 1 ELSE n * f[n - 1]
    <3>1. n # 0 => G[<<n, f[n - 1]>>] = n * f[n - 1]
      OBVIOUS
    <3>. HIDE DEF G
    <3>. QED
      BY <1>1, <3>1 DEF Recursive
  <2>. QED
    BY <2>1
<1>3. Is(F)
  <2>. HIDE DEF Is
  <2>. QED
    BY <1>2
<1>4. F[0] = 1 /\ \A n \in Nat \ {0} : F[n] = n * F[n - 1]
  <2>. HIDE DEF F
  <2>. QED
    BY <1>3
<1>5. F \in [Nat -> Nat]
  <2>. HIDE DEF F
  <2>. DEFINE T == {n \in Nat : F[n] \in Nat}
  <2>1. ASSUME NEW n \in Nat, n # 0 => n - 1 \in T PROVE n \in T
    BY <1>4, <2>1
  <2>2. Nat \subseteq T
    <3>. HIDE DEF T
    <3>. QED
      BY <2>1, Induction, Segments
  <2>. QED
    BY <1>3, <2>2
<1>6. Sum!Fact = F
  BY DEF Sum!Fact
<1>. HIDE DEF F
<1>. QED
  BY <1>4, <1>5, <1>6

\* calculateFactorialFn returns the factorial, to the width of a uint64.
LEMMA TimesIsFactorial ==
  ASSUME NEW value \in Nat
  PROVE  Sum!Times(1, value) = Sum!Wrap(Sum!Fact[value])
<1>1. PICK product \in [0..value -> Nat] :
        /\ Sum!Times(1, value) = product[value]
        /\ product[0] = 1
        /\ \A cnt \in 1..value : product[cnt] = Sum!Wrap(product[cnt - 1] * cnt)
  BY TimesProduct
<1>. DEFINE T == {cnt \in 0..value : product[cnt] = Sum!Wrap(Sum!Fact[cnt])}
<1>2. ASSUME NEW cnt \in 0..value, cnt # 0 => cnt - 1 \in T PROVE cnt \in T
  <2>1. CASE cnt = 0
    <3>1. 1 % 2^Width = 1
      <4>1. 2^Width \in Nat /\ 2^Width > 1
        BY WidthAssumption
      <4>. QED
        BY <4>1, SmallRest
    <3>. QED
      BY <1>1, <2>1, <3>1, Factorials DEF Sum!Wrap
  <2>2. CASE cnt # 0
    <3>1. cnt \in 1..value /\ cnt \in Nat \ {0} /\ cnt - 1 \in Nat
      BY <2>2
    <3>. DEFINE a == Sum!Fact[cnt - 1]
    <3>2. a \in Nat /\ Sum!Fact[cnt] = cnt * a
      BY <3>1, Factorials
    <3>3. product[cnt] = Sum!Wrap(Sum!Wrap(a) * cnt)
      BY <1>1, <1>2, <2>2, <3>1
    <3>. HIDE DEF a
    <3>4. Sum!Wrap(Sum!Wrap(a) * cnt) = Sum!Wrap(a * cnt)
      <4>1. 2^Width \in Nat \ {0}
        BY WidthAssumption
      <4>. QED
        BY <3>1, <3>2, <4>1, WrapProduct DEF Sum!Wrap
    <3>5. cnt * a = a * cnt
      BY <3>1, <3>2
    <3>. QED
      BY <3>2, <3>3, <3>4, <3>5
  <2>. QED
    BY <2>1, <2>2
<1>3. 0..value \subseteq T
  <2>. HIDE DEF T
  <2>. QED
    BY <1>2, Induction, Segments
<1>. QED
  BY <1>1, <1>3

\* The sum of the numbers of a sequence, from the first on.
LEMMA Totals ==
  ASSUME NEW s, NEW n \in Nat, Len(s) = n, \A i \in 1..n : s[i] \in Nat
  PROVE  \E upTo \in [0..n -> Nat] :
           /\ Sum!Total(s) = upTo[n]
           /\ upTo[0] = 0
           /\ \A i \in 1..n : upTo[i] = upTo[i - 1] + s[i]
<1>. DEFINE G == [p \in (0..n) \X Nat |-> IF p[1] = 0 THEN 0 ELSE p[2] + s[p[1]]]
            Is(f) == f = [i \in 0..n |-> IF i = 0 THEN 0 ELSE f[i - 1] + s[i]]
            upTo == CHOOSE h : Is(h)
<1>1. PICK f \in [0..n -> Nat] : Recursive(f, 0..n, 0, G)
  <2>1. G \in [(0..n) \X Nat -> Nat]
    OBVIOUS
  <2>. HIDE DEF G
  <2>. QED
    BY <2>1, Recursion, Segments
<1>2. Is(f)
  <2>1. ASSUME NEW i \in 0..n PROVE f[i] = IF i = 0 THEN 0 ELSE f[i - 1] + s[i]
    <3>1. i # 0 => G[<<i, f[i - 1]>>] = f[i - 1] + s[i]
      OBVIOUS
    <3>. HIDE DEF G
    <3>. QED
      BY <1>1, <3>1 DEF Recursive
  <2>. QED
    BY <2>1
<1>3. Is(upTo)
  <2>. HIDE DEF Is
  <2>. QED
    BY <1>2
<1>4. upTo[0] = 0 /\ \A i \in 1..n : upTo[i] = upTo[i - 1] + s[i]
  <2>. HIDE DEF upTo
  <2>. QED
    BY <1>3
<1>5. upTo \in [0..n -> Nat]
  <2>. HIDE DEF upTo
  <2>. DEFINE T == {i \in 0..n : upTo[i] \in Nat}
  <2>1. ASSUME NEW i \in 0..n, i # 0 => i - 1 \in T PROVE i \in T
    BY <1>4, <2>1
  <2>2. 0..n \subseteq T
    <3>. HIDE DEF T
    <3>. QED
      BY <2>1, Induction, Segments
  <2>. QED
    BY <1>3, <2>2
<1>6. Sum!Total(s) = upTo[n]
  BY DEF Sum!Total
<1>. HIDE DEF upTo
<1>. QED
  BY <1>4, <1>5, <1>6

-----------------------------------------------------------------------------
(* Factorial: the inductive invariant                                      *)

\* The factorials that are to be added, and the sum of the first of them.
Values == [i \in DOMAIN numArray |-> Sum!Fact[numArray[i]]]

\* What a task has left: nothing yet, an error, or its value.
Left(i) == {None, -1, Sum!Times(1, numArray[i])}

\* The array came as a sequence of numbers, or not at all.
Asked == numArray \in Sum!Numbers

\* Until the addition begins nothing is added (handler_wp.go:72-110).
NotYet ==
  /\ wpTipe = "bg" => calc # "online"
  /\ wpTipe = "bg" /\ calc \in {"start", "group"} => sum \in Sum!Given /\ next = 1

\* The group has one result for each number, and all of them when it has returned.
Gathered ==
  wpTipe = "bg" /\ calc \in {"group", "add", "ok"} =>
    /\ numArray # None /\ Len(result) = Len(numArray)
    /\ DOMAIN result = 1..Len(numArray)
    /\ \A i \in DOMAIN result : result[i] \in Left(i)
    /\ calc # "group" => \A i \in DOMAIN result : result[i] # None

\* The values before next are added, and they are all before the handler answers.
AddedSoFar ==
  wpTipe = "bg" /\ calc \in {"add", "ok"} =>
    /\ next \in 1..(Len(numArray) + 1)
    /\ calc = "ok" => next = Len(numArray) + 1
    /\ \E given \in Sum!Given :
         sum = Sum!Wrap(given + Sum!Total([i \in 1..(next - 1) |-> Values[i]]))

SumInv == Asked /\ NotYet /\ Gathered /\ AddedSoFar

-----------------------------------------------------------------------------
(* Every step keeps the invariant                                          *)

LEMMA Numbers ==
  ASSUME Asked, numArray # None
  PROVE  /\ Len(numArray) \in Nat /\ DOMAIN numArray = 1..Len(numArray)
         /\ \A i \in 1..Len(numArray) : numArray[i] \in Nat
<1>1. PICK m \in Nat : numArray \in [1..m -> 0..MaxNum]
  <2>1. numArray \in UNION {[1..m -> 0..MaxNum] : m \in 0..MaxLen}
    BY DEF Asked, Sum!Numbers, Sum!BoundedSeq, Sum!SeqOf
  <2>2. PICK m \in 0..MaxLen : numArray \in [1..m -> 0..MaxNum]
    BY <2>1
  <2>3. m \in Nat
    BY <2>2, WidthAssumption
  <2>. QED
    BY <2>2, <2>3
<1>2. numArray \in Seq(0..MaxNum)
  BY <1>1, SeqDef
<1>3. Len(numArray) \in Nat /\ DOMAIN numArray = 1..Len(numArray)
  BY <1>2, LenProperties
<1>4. \A i \in 1..m : numArray[i] \in Nat
  BY <1>1, WidthAssumption
<1>. QED
  BY <1>1, <1>3, <1>4

\* One more number is one more summand.
LEMMA TotalExtends ==
  ASSUME NEW s, NEW n \in Nat, \A i \in 1..(n + 1) : s[i] \in Nat
  PROVE  /\ Sum!Total([i \in 1..n |-> s[i]]) \in Nat
         /\ Sum!Total([i \in 1..(n + 1) |-> s[i]])
              = Sum!Total([i \in 1..n |-> s[i]]) + s[n + 1]
<1>. DEFINE p == [i \in 1..n |-> s[i]]
            q == [i \in 1..(n + 1) |-> s[i]]
<1>1. Len(p) = n /\ Len(q) = n + 1 /\ n + 1 \in Nat
  OBVIOUS
<1>2. (\A i \in 1..n : p[i] \in Nat /\ p[i] = s[i])
      /\ \A i \in 1..(n + 1) : q[i] \in Nat /\ q[i] = s[i]
  OBVIOUS
<1>. HIDE DEF p, q
<1>3. PICK f \in [0..n -> Nat] :
        /\ Sum!Total(p) = f[n] /\ f[0] = 0
        /\ \A i \in 1..n : f[i] = f[i - 1] + p[i]
  BY <1>1, <1>2, Totals
<1>4. PICK g \in [0..(n + 1) -> Nat] :
        /\ Sum!Total(q) = g[n + 1] /\ g[0] = 0
        /\ \A i \in 1..(n + 1) : g[i] = g[i - 1] + q[i]
  BY <1>1, <1>2, Totals
<1>. DEFINE T == {i \in 0..n : f[i] = g[i]}
<1>5. ASSUME NEW i \in 0..n, i # 0 => i - 1 \in T PROVE i \in T
  BY <1>2, <1>3, <1>4, <1>5
<1>6. 0..n \subseteq T
  <2>. HIDE DEF T
  <2>. QED
    BY <1>5, Induction, Segments
<1>7. f[n] = g[n] /\ f[n] \in Nat
  BY <1>6
<1>8. g[n + 1] = g[n] + s[n + 1]
  BY <1>2, <1>4
<1>. QED
  BY <1>3, <1>4, <1>7, <1>8 DEF p, q

LEMMA NothingAdded ==
  ASSUME NEW n \in Nat, n = 0
  PROVE  Sum!Total([i \in 1..n |-> Values[i]]) = 0
<1>. DEFINE s == [i \in 1..n |-> Values[i]]
<1>1. Len(s) = n /\ \A i \in 1..n : s[i] \in Nat
  OBVIOUS
<1>. HIDE DEF s
<1>2. PICK f \in [0..n -> Nat] : Sum!Total(s) = f[n] /\ f[0] = 0
  BY <1>1, Totals
<1>. QED
  BY <1>2 DEF s

LEMMA NextAdded == SumInv /\ [Sum!Next]_Sum!vars => SumInv'
<1>. SUFFICES ASSUME SumInv, [Sum!Next]_Sum!vars PROVE SumInv'
  OBVIOUS
<1>. USE DEF SumInv, Asked, NotYet
<1>1. ASSUME Sum!Start PROVE SumInv'
  <2>1. CASE calc' = "group"
    <3>1. numArray # None /\ wpTipe = "bg" /\ UNCHANGED <<numArray, wpTipe, sum, next>>
      BY <1>1, <2>1 DEF Sum!Start
    <3>2. result' = [i \in 1..Len(numArray) |-> None] /\ Len(numArray) \in Nat
      BY <1>1, <2>1, <3>1, Numbers DEF Sum!Start
    <3>3. Len(result') = Len(numArray)
      BY <3>2
    <3>4. Gathered'
      BY <2>1, <3>1, <3>2, <3>3 DEF Gathered, Left
    <3>. QED
      BY <1>1, <2>1, <3>1, <3>4 DEF Sum!Start, AddedSoFar
  <2>2. CASE calc' # "group"
    BY <1>1, <2>2 DEF Sum!Start, Gathered, AddedSoFar
  <2>. QED
    BY <2>1, <2>2
<1>2. ASSUME NEW i \in DOMAIN result, Sum!Task(i) PROVE SumInv'
  <2>1. Gathered'
    BY <1>2 DEF Sum!Task, Gathered, Left
  <2>. QED
    BY <1>2, <2>1 DEF Sum!Task, AddedSoFar
<1>3. ASSUME Sum!GroupReturns PROVE SumInv'
  <2>1. Gathered'
    BY <1>3 DEF Sum!GroupReturns, Gathered, Left
  <2>2. ASSUME wpTipe = "bg", calc' = "add" PROVE AddedSoFar'
    <3>1. sum \in Sum!Given /\ next = 1 /\ numArray # None
      BY <1>3, <2>2 DEF Sum!GroupReturns, Gathered
    <3>2. UNCHANGED <<numArray, sum, next>> /\ UNCHANGED Values
      BY <1>3 DEF Sum!GroupReturns, Values
    <3>3. sum = Sum!Wrap(sum + 0)
      <4>1. sum \in Nat /\ sum < 2^Width /\ 2^Width \in Nat \ {0}
        BY <3>1, WidthAssumption DEF Sum!Given
      <4>. QED
        BY <4>1, SmallRest DEF Sum!Wrap
    <3>4. sum = Sum!Wrap(sum + Sum!Total([i \in 1..(next - 1) |-> Values[i]]))
      <4>1. next - 1 \in Nat /\ next - 1 = 0
        BY <3>1
      <4>. QED
        BY <3>3, <4>1, NothingAdded
    <3>5. next \in 1..(Len(numArray) + 1)
      BY <3>1, Numbers
    <3>. QED
      BY <2>2, <3>1, <3>2, <3>4, <3>5 DEF AddedSoFar
  <2>3. wpTipe # "bg" \/ calc' # "add" => AddedSoFar'
    BY <1>3 DEF Sum!GroupReturns, AddedSoFar
  <2>. QED
    BY <1>3, <2>1, <2>2, <2>3 DEF Sum!GroupReturns
<1>4. ASSUME Sum!AddUp PROVE SumInv'
  <2>1. UNCHANGED <<numArray, wpTipe, result>> /\ UNCHANGED Values
    BY <1>4 DEF Sum!AddUp, Values
  <2>2. Gathered'
    BY <1>4, <2>1 DEF Sum!AddUp, Gathered, Left
  <2>3. ASSUME wpTipe = "bg" PROVE AddedSoFar'
    <3>1. /\ numArray # None /\ Len(result) = Len(numArray) /\ Len(numArray) \in Nat
          /\ next \in 1..(Len(numArray) + 1)
      BY <1>4, <2>3, Numbers DEF Sum!AddUp, Gathered, AddedSoFar
    <3>2. PICK given \in Sum!Given :
            sum = Sum!Wrap(given + Sum!Total([i \in 1..(next - 1) |-> Values[i]]))
      BY <1>4, <2>3 DEF Sum!AddUp, AddedSoFar
    <3>3. CASE next > Len(result)
      BY <1>4, <2>1, <3>1, <3>2, <3>3 DEF Sum!AddUp, AddedSoFar
    <3>4. CASE next <= Len(result) /\ result[next] = -1
      BY <1>4, <3>1, <3>4 DEF Sum!AddUp, AddedSoFar
    <3>5. CASE next <= Len(result) /\ result[next] # -1
      <4>1. /\ sum' = Sum!Wrap(sum + result[next]) /\ next' = next + 1 /\ calc' = "add"
            /\ next \in DOMAIN result /\ next \in Nat
        BY <1>4, <2>3, <3>1, <3>5 DEF Sum!AddUp, Gathered
      <4>2. result[next] = Sum!Times(1, numArray[next]) /\ numArray[next] \in Nat
        BY <1>4, <2>3, <3>1, <3>5, <4>1, Numbers DEF Sum!AddUp, Gathered, Left
      <4>3. \A i \in 1..Len(numArray) :
              Values[i] = Sum!Fact[numArray[i]] /\ Values[i] \in Nat
        BY <3>1, Numbers, Factorials DEF Values
      <4>. DEFINE n == next - 1
                  before == Sum!Total([i \in 1..n |-> Values[i]])
      <4>4. n \in Nat /\ n + 1 = next /\ next \in 1..Len(numArray)
        BY <3>1, <3>5
      <4>5. \A i \in 1..(n + 1) : Values[i] \in Nat
        BY <4>3, <4>4
      <4>6. before \in Nat
            /\ Sum!Total([i \in 1..(n + 1) |-> Values[i]]) = before + Values[n + 1]
        <5>. HIDE DEF n
        <5>. QED
          BY <4>4, <4>5, TotalExtends
      <4>7. result[next] = Sum!Wrap(Values[next]) /\ Values[next] \in Nat
        BY <4>2, <4>3, <4>4, TimesIsFactorial
      <4>8. sum' = Sum!Wrap(given + (before + Values[next]))
        <5>1. given \in Nat /\ given + before \in Nat /\ 2^Width \in Nat \ {0}
          BY <4>6, WidthAssumption DEF Sum!Given
        <5>2. sum' = Sum!Wrap(Sum!Wrap(given + before) + Sum!Wrap(Values[next]))
          BY <3>2, <4>1, <4>7
        <5>. HIDE DEF before
        <5>3. sum' = Sum!Wrap((given + before) + Values[next])
          BY <4>7, <5>1, <5>2, WrapSum DEF Sum!Wrap
        <5>. QED
          BY <4>6, <4>7, <5>1, <5>3
      <4>9. next' - 1 = n + 1
        BY <4>1, <4>4
      <4>10. sum' = Sum!Wrap(given + Sum!Total([i \in 1..(next' - 1) |-> Values'[i]]))
        BY <2>1, <4>4, <4>6, <4>8, <4>9
      <4>11. next' \in 1..(Len(numArray) + 1)
        BY <4>1, <4>4, <3>1
      <4>. QED
        BY <2>1, <4>1, <4>10, <4>11 DEF AddedSoFar
    <3>6. next > Len(result) \/ next <= Len(result)
      BY <3>1
    <3>. QED
      BY <3>3, <3>4, <3>5, <3>6
  <2>4. wpTipe # "bg" => AddedSoFar'
    BY <2>1 DEF AddedSoFar
  <2>. QED
    BY <1>4, <2>1, <2>2, <2>3, <2>4 DEF Sum!AddUp
<1>5. ASSUME Sum!Online PROVE SumInv'
  BY <1>5 DEF Sum!Online, Gathered, AddedSoFar
<1>6. ASSUME UNCHANGED Sum!vars PROVE SumInv'
  BY <1>6 DEF Sum!vars, Gathered, AddedSoFar, Values, Left
<1>. QED
  BY <1>1, <1>2, <1>3, <1>4, <1>5, <1>6 DEF Sum!Next

LEMMA SumInitInv == Sum!Init => SumInv
BY DEF Sum!Init, SumInv, Asked, NotYet, Gathered, AddedSoFar

LEMMA SumSpecInv == Sum!Spec => []SumInv
BY SumInitInv, NextAdded, PTL DEF Sum!Spec

-----------------------------------------------------------------------------
(* Factorial: the property                                                 *)

\* handler_wp.go:72-143: the sum of the factorials, to the width of a uint64, in
\* whichever order the tasks are done.
THEOREM SumCorrect == Sum!Spec => []SumIsRight
<1>1. ASSUME SumInv, calc = "ok", wpTipe = "bg"
      PROVE  \E given \in Sum!Given : sum = Sum!Wrap(given + Sum!Total(Values))
  <2>1. numArray # None /\ Asked /\ next = Len(numArray) + 1
    BY <1>1 DEF SumInv, Gathered, AddedSoFar
  <2>2. next - 1 = Len(numArray) /\ DOMAIN numArray = 1..Len(numArray)
    BY <2>1, Numbers
  <2>3. Values = [i \in 1..(next - 1) |-> Values[i]]
    BY <2>2 DEF Values
  <2>. QED
    BY <1>1, <2>3 DEF SumInv, AddedSoFar
<1>2. SumInv => SumIsRight
  BY <1>1 DEF SumIsRight, Sum!SumIsRight, Values
<1>. QED
  BY SumSpecInv, <1>2, PTL
=============================================================================
