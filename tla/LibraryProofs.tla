---------------------------- MODULE LibraryProofs ----------------------------
(***************************************************************************)
(* What holds of a call of HttpClient for every limit of attempts and every *)
(* behaviour of the service and the network, and of the transactions of    *)
(* SqlTx for every number of users and statements.                         *)
(***************************************************************************)
EXTENDS MCLibrary, TLAPS

-----------------------------------------------------------------------------
(* HttpClient: the inductive invariant                                     *)

\* One attempt is on its way at most, and Process goes on to another only when the
\* service has answered that it did not perform this one (httpclient.go:112-194).
Attempt ==
  /\ performed = IF wire = "performed" \/ client = "ok" THEN 1 ELSE 0
  /\ client \notin {"do", "ctxErr", "netErr"} => wire = "none"
  /\ client = "do" => wire # "none"

\* Process sleeps only when an attempt is left.
Tries ==
  reCallRepeat # 0 =>
    /\ client \in {"idle", "loop", "do"} => tryCount <= reCallRepeat
    /\ client = "sleep" => tryCount < reCallRepeat
    /\ client = "status404" => tryCount = reCallRepeat

ClientInv == Client!TypeOK /\ Attempt /\ Tries

-----------------------------------------------------------------------------
(* Every step keeps the invariant                                          *)

\* A step of Process, the service or the network keeps the types and the attempt.
LEMMA NextAttempt == ClientInv /\ [Client!Next]_Client!vars => (Client!TypeOK /\ Attempt)'
<1>. SUFFICES ASSUME ClientInv, [Client!Next]_Client!vars PROVE (Client!TypeOK /\ Attempt)'
  OBVIOUS
<1>. USE LibraryAssumption DEF ClientInv, Client!config, Client!TypeOK,
     Client!Returned, Attempt
<1>1. ASSUME Client!Process PROVE (Client!TypeOK /\ Attempt)'
  BY <1>1 DEF Client!Process
<1>2. ASSUME Client!ContextDone PROVE (Client!TypeOK /\ Attempt)'
  BY <1>2 DEF Client!ContextDone
<1>3. ASSUME Client!Do PROVE (Client!TypeOK /\ Attempt)'
  BY <1>3 DEF Client!Do
<1>4. ASSUME NEW answer \in {"performed", "404", "405"},
             Client!Serve(answer)
      PROVE  (Client!TypeOK /\ Attempt)'
  BY <1>4 DEF Client!Serve
<1>5. ASSUME Client!DoFails PROVE (Client!TypeOK /\ Attempt)'
  BY <1>5 DEF Client!DoFails, Client!OnError
<1>6. ASSUME Client!DoTimesOut PROVE (Client!TypeOK /\ Attempt)'
  BY <1>6 DEF Client!DoTimesOut
<1>7. ASSUME Client!Answered PROVE (Client!TypeOK /\ Attempt)'
  BY <1>7 DEF Client!Answered, Client!LastTry
<1>8. ASSUME Client!Sleep PROVE (Client!TypeOK /\ Attempt)'
  BY <1>8 DEF Client!Sleep, Client!WakeUp
<1>9. ASSUME Client!CloseContext PROVE (Client!TypeOK /\ Attempt)'
  BY <1>9 DEF Client!CloseContext
<1>10. ASSUME UNCHANGED Client!vars PROVE (Client!TypeOK /\ Attempt)'
  BY <1>10 DEF Client!vars
<1>. QED
  BY <1>1, <1>2, <1>3, <1>4, <1>5, <1>6, <1>7, <1>8, <1>9, <1>10 DEF Client!Next,
     Client!Step

\* Process sleeps only if an attempt is left.
LEMMA NextTries == ClientInv /\ [Client!Next]_Client!vars => Tries'
<1>. SUFFICES ASSUME ClientInv, [Client!Next]_Client!vars PROVE Tries'
  OBVIOUS
<1>. USE LibraryAssumption DEF ClientInv, Client!config, Client!TypeOK,
     Client!Returned, Attempt, Tries
<1>1. ASSUME \/ Client!Process \/ Client!ContextDone \/ Client!Do
             \/ Client!DoFails \/ Client!DoTimesOut \/ Client!CloseContext
      PROVE  Tries'
  BY <1>1 DEF Client!Process, Client!ContextDone, Client!Do, Client!DoFails,
     Client!OnError, Client!DoTimesOut, Client!CloseContext
<1>2. ASSUME NEW answer \in {"performed", "404", "405"},
             Client!Serve(answer)
      PROVE  Tries'
  BY <1>2 DEF Client!Serve
<1>3. ASSUME Client!Answered PROVE Tries'
  BY <1>3 DEF Client!Answered, Client!LastTry
<1>4. ASSUME Client!Sleep PROVE Tries'
  BY <1>4 DEF Client!Sleep, Client!WakeUp
<1>5. ASSUME UNCHANGED Client!vars PROVE Tries'
  BY <1>5 DEF Client!vars
<1>. QED
  BY <1>1, <1>2, <1>3, <1>4, <1>5 DEF Client!Next, Client!Step

\* No attempt is made before the call.
LEMMA ClientInitInv == Client!Init => ClientInv
<1>. SUFFICES ASSUME Client!Init PROVE ClientInv
  OBVIOUS
<1>. USE LibraryAssumption DEF Client!Init
<1>1. Client!TypeOK
  <2>1. ctxClosed \in BOOLEAN
    OBVIOUS
  <2>2. tryCount \in 1..MaxTries
    OBVIOUS
  <2>. QED
    BY <2>1, <2>2 DEF Client!TypeOK
<1>2. Attempt /\ Tries
  BY DEF Attempt, Tries
<1>. QED
  BY <1>1, <1>2 DEF ClientInv

\* The invariant holds whatever the service, the network and the caller do.
LEMMA ClientSpecInv == Client!Spec => []ClientInv
<1>1. ClientInv /\ [Client!Next]_Client!vars => ClientInv'
  BY NextAttempt, NextTries DEF ClientInv
<1>. QED
  BY ClientInitInv, <1>1, PTL DEF Client!Spec

-----------------------------------------------------------------------------
(* HttpClient: the properties                                              *)

\* httpclient.go:112-194: however answers are lost and attempts repeated, the service
\* never performs the request twice, and Process reports what it did.
THEOREM PerformedOnce == Client!Spec => []PerformedAtMostOnce
<1>1. ClientInv => PerformedAtMostOnce
  BY DEF ClientInv, Attempt, PerformedAtMostOnce, Client!PerformedAtMostOnce
<1>. QED
  BY ClientSpecInv, <1>1, PTL

\* httpclient.go:42, 112-194: as many attempts as ReCallRepeat, neither more nor, before
\* the 404 is returned, less.
THEOREM AsManyAttempts == Client!Spec => []AttemptsAsConfigured
<1>1. ClientInv => AttemptsAsConfigured
  BY DEF ClientInv, Tries, AttemptsAsConfigured, Client!AttemptsAsConfigured
<1>. QED
  BY ClientSpecInv, <1>1, PTL

-----------------------------------------------------------------------------
(* SqlTx: the inductive invariant                                          *)

\* Commit and Rollback end the transaction and tell an outcome, once (sqlxx.go:205-255).
Over == \A u \in Users : tx[u] = "over" <=> outcome[u] # "none"

SqlInv == Sql!TypeOK /\ Over /\ CommitTells

-----------------------------------------------------------------------------
(* Every step keeps the invariant                                          *)

\* Every call keeps the types.
LEMMA NextSqlTypeOK == SqlInv /\ [Sql!Next]_Sql!vars => Sql!TypeOK'
<1>. SUFFICES ASSUME SqlInv, [Sql!Next]_Sql!vars PROVE Sql!TypeOK'
  OBVIOUS
<1>. USE LibraryAssumption DEF SqlInv, Sql!TypeOK, Sql!stmVars, Sql!txVars,
     CommitTells, Sql!CommitTells
<1>1. ASSUME \/ Sql!New \/ Sql!Close
      PROVE  Sql!TypeOK'
  BY <1>1 DEF Sql!New, Sql!Close
<1>2. ASSUME Sql!PreparexAll PROVE Sql!TypeOK'
  BY <1>2 DEF Sql!PreparexAll
<1>3. ASSUME NEW u \in Users, Sql!Prepared(u) PROVE Sql!TypeOK'
  BY <1>3 DEF Sql!Prepared
<1>4. ASSUME NEW u \in Users, Sql!MapRace(u) PROVE Sql!TypeOK'
  BY <1>4 DEF Sql!MapRace
<1>5. ASSUME NEW u \in Users, Sql!Beginx(u) PROVE Sql!TypeOK'
  BY <1>5 DEF Sql!Beginx
<1>6. ASSUME NEW u \in Users, Sql!Rollback(u) PROVE Sql!TypeOK'
  BY <1>6 DEF Sql!Rollback, Sql!Busy, Sql!End
<1>7. ASSUME NEW u \in Users, Sql!Commit(u) PROVE Sql!TypeOK'
  BY <1>7 DEF Sql!Commit, Sql!Busy, Sql!End
<1>8. ASSUME NEW u \in Users, NEW s \in Stms,
             Sql!PreparexAddSql(u, s)
      PROVE  Sql!TypeOK'
  BY <1>8 DEF Sql!PreparexAddSql
<1>9. ASSUME NEW u \in Users, NEW s \in Stms,
             Sql!Select(u, s)
      PROVE  Sql!TypeOK'
  BY <1>9 DEF Sql!Select, Sql!Fails
<1>10. ASSUME NEW u \in Users, NEW s \in Stms, Sql!Get(u, s) PROVE Sql!TypeOK'
  BY <1>10 DEF Sql!Get, Sql!Select, Sql!Fails
<1>11. ASSUME NEW u \in Users, NEW s \in Stms,
              Sql!Exec(u, s)
       PROVE  Sql!TypeOK'
  BY <1>11 DEF Sql!Exec, Sql!Change, Sql!Performed, Sql!Told, Sql!Fails
<1>12. ASSUME NEW u \in Users, NEW s \in Stms,
              Sql!QueryRowxStructScan(u, s)
       PROVE  Sql!TypeOK'
  BY <1>12 DEF Sql!QueryRowxStructScan, Sql!Change, Sql!Performed, Sql!Told,
     Sql!Fails
<1>13. ASSUME UNCHANGED Sql!vars PROVE Sql!TypeOK'
  BY <1>13 DEF Sql!vars
<1>. QED
  BY <1>1, <1>2, <1>3, <1>4, <1>5, <1>6, <1>7, <1>8, <1>9, <1>10, <1>11,
     <1>12, <1>13 DEF Sql!Next

\* A transaction has an outcome with its end.
LEMMA NextOver == SqlInv /\ [Sql!Next]_Sql!vars => Over'
<1>. SUFFICES ASSUME SqlInv, [Sql!Next]_Sql!vars PROVE Over'
  OBVIOUS
<1>. USE LibraryAssumption DEF SqlInv, Sql!TypeOK, Sql!stmVars, Sql!txVars,
     Over
<1>1. ASSUME \/ Sql!New \/ Sql!PreparexAll \/ Sql!Close
      PROVE  Over'
  BY <1>1 DEF Sql!New, Sql!PreparexAll, Sql!Close
<1>2. ASSUME NEW u \in Users,
             \/ Sql!Prepared(u) \/ Sql!MapRace(u) \/ Sql!Beginx(u)
      PROVE  Over'
  BY <1>2 DEF Sql!Prepared, Sql!MapRace, Sql!Beginx
<1>3. ASSUME NEW u \in Users, NEW s \in Stms,
             \/ Sql!PreparexAddSql(u, s) \/ Sql!Select(u, s) \/ Sql!Get(u, s)
             \/ Sql!Exec(u, s) \/ Sql!QueryRowxStructScan(u, s)
      PROVE  Over'
  BY <1>3 DEF Sql!PreparexAddSql, Sql!Select, Sql!Fails, Sql!Get, Sql!Exec,
     Sql!Change, Sql!Performed, Sql!Told, Sql!QueryRowxStructScan
<1>4. ASSUME NEW u \in Users, Sql!Rollback(u) PROVE Over'
  BY <1>4 DEF Sql!Rollback, Sql!Busy, Sql!End
<1>5. ASSUME NEW u \in Users, Sql!Commit(u) PROVE Over'
  BY <1>5 DEF Sql!Commit, Sql!Busy, Sql!End
<1>6. ASSUME UNCHANGED Sql!vars PROVE Over'
  BY <1>6 DEF Sql!vars
<1>. QED
  BY <1>1, <1>2, <1>3, <1>4, <1>5, <1>6 DEF Sql!Next

\* A change needs an open transaction, a stored one its commit.
LEMMA NextCommitTells == SqlInv /\ [Sql!Next]_Sql!vars => CommitTells'
<1>. SUFFICES ASSUME SqlInv, [Sql!Next]_Sql!vars PROVE CommitTells'
  OBVIOUS
<1>. USE LibraryAssumption DEF SqlInv, Sql!TypeOK, Sql!stmVars, Sql!txVars,
     Over, CommitTells, Sql!CommitTells
<1>1. ASSUME \/ Sql!New \/ Sql!PreparexAll \/ Sql!Close
      PROVE  CommitTells'
  BY <1>1 DEF Sql!New, Sql!PreparexAll, Sql!Close
<1>2. ASSUME NEW u \in Users,
             \/ Sql!Prepared(u) \/ Sql!MapRace(u) \/ Sql!Beginx(u)
      PROVE  CommitTells'
  BY <1>2 DEF Sql!Prepared, Sql!MapRace, Sql!Beginx
<1>3. ASSUME NEW u \in Users, NEW s \in Stms,
             \/ Sql!PreparexAddSql(u, s) \/ Sql!Select(u, s) \/ Sql!Get(u, s)
             \/ Sql!Exec(u, s) \/ Sql!QueryRowxStructScan(u, s)
      PROVE  CommitTells'
  BY <1>3 DEF Sql!PreparexAddSql, Sql!Select, Sql!Fails, Sql!Get, Sql!Exec,
     Sql!Change, Sql!Performed, Sql!Told, Sql!QueryRowxStructScan
<1>4. ASSUME NEW u \in Users, Sql!Rollback(u) PROVE CommitTells'
  BY <1>4 DEF Sql!Rollback, Sql!Busy, Sql!End
<1>5. ASSUME NEW u \in Users, Sql!Commit(u) PROVE CommitTells'
  BY <1>5 DEF Sql!Commit, Sql!Busy, Sql!End
<1>6. ASSUME UNCHANGED Sql!vars PROVE CommitTells'
  BY <1>6 DEF Sql!vars
<1>. QED
  BY <1>1, <1>2, <1>3, <1>4, <1>5, <1>6 DEF Sql!Next

\* There is neither a database nor a transaction at the start.
LEMMA SqlInitInv == Sql!Init => SqlInv
<1>. USE LibraryAssumption DEF Sql!Init
<1>1. Sql!Init => Sql!TypeOK
  BY DEF Sql!TypeOK
<1>2. Sql!Init => Over /\ CommitTells
  BY DEF Over, CommitTells, Sql!CommitTells
<1>. QED
  BY <1>1, <1>2 DEF SqlInv

\* The invariant holds whatever is committed, rolled back, refused or lost.
LEMMA SqlSpecInv == Sql!Spec => []SqlInv
<1>1. SqlInv /\ [Sql!Next]_Sql!vars => SqlInv'
  BY NextSqlTypeOK, NextOver, NextCommitTells DEF SqlInv
<1>. QED
  BY SqlInitInv, <1>1, PTL DEF Sql!Spec

-----------------------------------------------------------------------------
(* SqlTx: the property                                                     *)

\* sqlxx.go:205-255, 350-447: what Commit, Rollback and Exec tell their caller is what
\* becomes of the changes, for every interleaving of the users.
THEOREM CommitsTell == Sql!Spec => []CommitTells
<1>1. SqlInv => CommitTells
  BY DEF SqlInv
<1>. QED
  BY SqlSpecInv, <1>1, PTL

=============================================================================
