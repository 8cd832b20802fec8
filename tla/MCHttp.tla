------------------------------ MODULE MCHttp ------------------------------
(* What happens behind the router, each part by itself: the loggers, the requests *)
(* of the HTTP service, or the sum of factorials. The parts share no state here;  *)
(* those that a behaviour is not about stay as they were at the start.            *)
EXTENDS Logging, TLC

CONSTANTS Conns, Buffers, Configs, Life, MaxTime, Width, MaxNum, MaxLen

\* The loop of calculateFactorialFn ends for the numbers of a request.
ASSUME WidthAssumption ==
  /\ Width \in Nat /\ MaxNum \in Nat /\ MaxLen \in Nat
  /\ MaxNum < 2^Width - 1

ASSUME HttpAssumption ==
  /\ Life \in Nat /\ MaxTime \in Nat \ {0}
  /\ Configs \subseteq [useJWT : BOOLEAN, auth : BOOLEAN, useBufPool : BOOLEAN]
  /\ None \notin Buffers

VARIABLES part,
          cfg, errBody, now, tokens, vouched, legit, pool, pc, buf, response,
          putBack, status, body, broken,
          numArray, wpTipe, sum, result, factVal, next, calc
requestVars == <<cfg, errBody, now, tokens, vouched, legit, pool, pc, buf, response,
               putBack, status, body, broken>>
sumVars == <<numArray, wpTipe, sum, result, factVal, next, calc>>

\* Tokens; passwords and pooled buffers; neither.
MCConfigs ==
  {[useJWT |-> TRUE, auth |-> TRUE, useBufPool |-> FALSE],
   [useJWT |-> FALSE, auth |-> TRUE, useBufPool |-> TRUE],
   [useJWT |-> FALSE, auth |-> FALSE, useBufPool |-> FALSE]}

Http == INSTANCE HttpService
Sum == INSTANCE Factorial

PartsInit ==
  /\ part \in {"logs", "requests", "sum"}
  /\ Init
  /\ Http!Init
  /\ part # "requests" => cfg.useJWT /\ ~errBody
  /\ IF part = "sum"
       THEN Sum!Init
       ELSE /\ numArray = None /\ wpTipe = "bg" /\ sum = 0 /\ result = <<>>
            /\ factVal = 1 /\ next = 1 /\ calc = "start"

LogStep == part = "logs" /\ Next /\ UNCHANGED <<part, requestVars, sumVars>>
HttpStep == part = "requests" /\ Http!Next /\ UNCHANGED <<part, vars, sumVars>>
SumStep == part = "sum" /\ Sum!Next /\ UNCHANGED <<part, vars, requestVars>>

PartsSpec ==
  PartsInit /\ [][LogStep \/ HttpStep \/ SumStep]_<<part, vars, requestVars, sumVars>>

Symmetry == Permutations(Configurers) \cup Permutations(Conns)

\* HttpService: a response's array is nobody else's.
BufferAlone == Http!BufferAlone
\* HttpService: an answer is a response or an error.
AnswerIsOne == Http!AnswerIsOne
\* HttpService: a token lets in while somebody vouches for it.
LetInWhileVouched == Http!LetInWhileVouched
\* Factorial: the sum is that of the factorials.
SumIsRight == Sum!SumIsRight
=============================================================================
