----------------------------- MODULE MCLibrary -----------------------------
(* Packages of the library that the daemon does not use and that share no state, *)
(* each by itself: Pool.RunOnline, a call of the HTTP client, or the SQL access. *)
(* The parts that a behaviour is not about stay as they were at the start.       *)
EXTENDS OnlinePool

CONSTANTS Repeats, MaxTries, Users, Stms, MaxOpen, MaxExecs

ASSUME LibraryAssumption ==
  Repeats \subseteq Nat /\ MaxTries \in Nat \ {0} /\ MaxExecs \in Nat

VARIABLES part, reCallRepeat, callTimeout, ctxClosed, client, wire,
          tryCount, performed,
          db, stms, adding, tx, pending, told, stored, outcome
sqlVars == <<db, stms, adding, tx, pending, told, stored, outcome>>
clientVars == <<reCallRepeat, callTimeout, ctxClosed, client, wire,
                tryCount, performed>>

Client == INSTANCE HttpClient
Sql == INSTANCE SqlTx

PartsInit ==
  /\ part \in {"pool", "client", "sql"}
  /\ Init
  /\ Client!Init
  /\ Sql!Init
  /\ part # "client" => reCallRepeat = 0 /\ ~callTimeout

PoolStep == part = "pool" /\ Next /\ UNCHANGED <<part, clientVars, sqlVars>>
ClientStep == part = "client" /\ Client!Next /\ UNCHANGED <<part, vars, sqlVars>>
SqlStep == part = "sql" /\ Sql!Next /\ UNCHANGED <<part, vars, clientVars>>

\* The fairness of the two specifications, of the part that goes on.
PartsFairness ==
  /\ WF_vars(part = "pool" /\ ~crashed /\ Runner)
  /\ WF_vars(part = "pool" /\ ~crashed /\ Watcher)
  /\ WF_vars(part = "pool" /\ ~crashed /\ Shutdown)
  /\ \A w \in Workers : WF_vars(part = "pool" /\ ~crashed /\ Worker(w))
  /\ WF_clientVars(part = "client" /\ Client!Step)

PartsSpec ==
  /\ PartsInit
  /\ [][PoolStep \/ ClientStep \/ SqlStep]_<<part, vars, clientVars, sqlVars>>
  /\ PartsFairness

\* HttpClient: nothing is performed twice.
PerformedAtMostOnce == Client!PerformedAtMostOnce
\* HttpClient: as many attempts as ReCallRepeat says.
AttemptsAsConfigured == Client!AttemptsAsConfigured
\* HttpClient: a call returns.
CallReturns == Client!CallReturns
\* SqlTx: what Commit and Rollback tell is what happened.
CommitTells == Sql!CommitTells
=============================================================================
