----------------------------- MODULE HttpClient -----------------------------
(***************************************************************************)
(* Call.Process of pkg/common/httpclient: one outgoing request, sent again *)
(* while the service answers 404. The other service, the network and the   *)
(* transport of net/http are the environment: an attempt may reach the     *)
(* service or not, be performed or answered 404 or 405, and its answer may *)
(* be lost.                                                                *)
(***************************************************************************)
EXTENDS Naturals

CONSTANTS
  Repeats,   \* the values of Call.ReCallRepeat, 0 for no limit
  MaxTries   \* tryCount is counted up to this bound

VARIABLES
  reCallRepeat,  \* Call.ReCallRepeat
  callTimeout,   \* Call.CallTimeout # 0
  ctxClosed,     \* the caller's context is closed
  client,        \* where Process is, or how it returned
  wire,          \* the attempt under way
  tryCount,
  performed      \* how often the service performed the request

config == <<reCallRepeat, callTimeout>>
vars == <<config, ctxClosed, client, wire, tryCount, performed>>

Returned == {"ok", "status404", "status405", "ctxErr", "netErr", "refused"}

TypeOK ==
  /\ reCallRepeat \in Repeats /\ callTimeout \in BOOLEAN
  /\ ctxClosed \in BOOLEAN
  /\ client \in {"idle", "loop", "do", "sleep"} \cup Returned
  /\ wire \in {"none", "underway", "performed", "404", "405"}
  /\ tryCount \in 1..MaxTries
  /\ performed \in Nat

Init ==
  /\ reCallRepeat \in Repeats /\ callTimeout \in BOOLEAN
  /\ ctxClosed = FALSE
  /\ client = "idle" /\ wire = "none"
  /\ tryCount = 1 /\ performed = 0

-----------------------------------------------------------------------------

\* The checks before the loop, and http.NewRequestWithContext, may refuse the call.
Process ==
  /\ client = "idle"
  /\ client' \in {"loop", "refused"}
  /\ UNCHANGED <<config, ctxClosed, wire, tryCount, performed>>

ContextDone ==
  /\ client = "loop" /\ ctxClosed
  /\ client' = "ctxErr"
  /\ UNCHANGED <<config, ctxClosed, wire, tryCount, performed>>

\* client.Do reads the body.
Do ==
  /\ client = "loop" /\ ~ctxClosed
  /\ client' = "do" /\ wire' = "underway"
  /\ UNCHANGED <<config, ctxClosed, tryCount, performed>>

\* The service performs the request, does not know the URL, or not the method.
Serve(answer) ==
  /\ wire = "underway"
  /\ wire' = answer
  /\ performed' = IF answer = "performed" THEN performed + 1 ELSE performed
  /\ UNCHANGED <<config, ctxClosed, client, tryCount>>

MutOnError == client' = "sleep"
OnError == client' = "netErr"

\* The connection, the transport, or the read of the answer's body fails; also a
\* request whose body an earlier attempt has read, if the transport does not rewind
\* it. What is on the wire may still reach the service.
DoFails ==
  /\ client = "do"
  /\ OnError
  /\ UNCHANGED <<config, ctxClosed, wire, tryCount, performed>>

\* client.Do gives up on Client.Timeout or the context of the request.
DoTimesOut ==
  /\ client = "do" /\ (callTimeout \/ ctxClosed)
  /\ client' = "ctxErr"
  /\ UNCHANGED <<config, ctxClosed, wire, tryCount, performed>>

MutLastTry == reCallRepeat # 0 /\ tryCount > reCallRepeat
LastTry == reCallRepeat # 0 /\ tryCount >= reCallRepeat

Answered ==
  /\ client = "do" /\ wire \in {"performed", "404", "405"}
  /\ client' = CASE wire = "404" -> IF LastTry THEN "status404" ELSE "sleep"
                 [] wire = "405" -> "status405"
                 [] OTHER -> "ok"
  /\ wire' = "none"
  /\ UNCHANGED <<config, ctxClosed, tryCount, performed>>

MutWakeUp == client' = "loop" /\ UNCHANGED tryCount
\* time.Sleep of ReCallWaitTimeout is over, which the context does not cut short.
WakeUp ==
  /\ client' = "loop"
  /\ tryCount' = IF tryCount < MaxTries THEN tryCount + 1 ELSE tryCount

Sleep ==
  /\ client = "sleep"
  /\ WakeUp
  /\ UNCHANGED <<config, ctxClosed, wire, performed>>

CloseContext ==
  /\ client # "idle" /\ ~ctxClosed
  /\ ctxClosed' = TRUE
  /\ UNCHANGED <<config, client, wire, tryCount, performed>>

Step == ContextDone \/ Do \/ DoTimesOut \/ Answered \/ Sleep

Next ==
  \/ Process \/ Step \/ DoFails \/ CloseContext
  \/ \E answer \in {"performed", "404", "405"} : Serve(answer)

\* Process goes on, and client.Do has a timeout or the context. Nothing is assumed
\* about the service: it may never answer.
Fairness == WF_vars(Step)

Spec == Init /\ [][Next]_vars /\ Fairness

-----------------------------------------------------------------------------

\* httpclient.go:112-194: a request is sent again only when the service did not
\* perform it: never performed twice, and once when Process returns a status with
\* no error. An answer lost on its way is not a reason to send again.
PerformedAtMostOnce ==
  /\ performed <= 1
  /\ client = "ok" => performed = 1
  /\ client \in {"status404", "refused"} => performed = 0

\* httpclient.go:42, "ReCallRepeat, how many attempts": no attempt is made after the
\* last, which returns the 404, and the 404 is returned only after all of them.
AttemptsAsConfigured ==
  reCallRepeat # 0 =>
    /\ client \in {"loop", "do"} => tryCount <= reCallRepeat
    /\ client = "status404" => tryCount = reCallRepeat

\* httpclient.go:112-118: a call returns once its context is closed; and by itself
\* when it has a timeout and a limit of attempts, whatever the service does.
CallReturns ==
  /\ ctxClosed ~> client \in Returned
  /\ client # "idle" /\ callTimeout /\ reCallRepeat # 0 ~> client \in Returned
=============================================================================
