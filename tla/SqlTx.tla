------------------------------- MODULE SqlTx -------------------------------
(***************************************************************************)
(* pkg/common/sqlxx: the SQL statements of a service and its transactions, *)
(* over the connection pool of database/sql and a PostgreSQL server, which *)
(* are the environment. Calls that the wrapper or the driver refuses       *)
(* without an effect (an unknown statement, no transaction, one that is    *)
(* over) are left out, and so are the values that are read. A call that    *)
(* waits for a connection is one that has not been made yet.               *)
(***************************************************************************)
EXTENDS Naturals, FiniteSets

CONSTANTS
  Users,       \* goroutines, each with one transaction
  Stms,        \* texts of SQL statements
  MaxOpen,     \* Config.MaxOpenConns
  MaxExecs     \* bound on the changes of a transaction

VARIABLES
  db,        \* DB.DB
  stms,      \* DB.sqlStms: not there, there, or with a Stmt
  adding,    \* the statement that PreparexAddSql is preparing, or none
  tx,        \* the user's *Tx
  pending,   \* changes made in it
  told,      \* ... and reported without an error
  stored,    \* its changes in the database
  outcome    \* what Commit or Rollback has returned

stmVars == <<db, stms, adding>>
txVars == <<tx, pending, told, stored, outcome>>
vars == <<stmVars, txVars>>

TypeOK ==
  /\ db \in {"none", "connected", "open", "leaked", "closed", "crashed"}
  /\ stms \in [Stms -> {"absent", "text", "prepared"}]
  /\ adding \in [Users -> SUBSET Stms]
  /\ tx \in [Users -> {"nil", "open", "failed", "over"}]
  /\ pending \in [Users -> 0..MaxExecs] /\ told \in [Users -> 0..MaxExecs]
  /\ stored \in [Users -> 0..MaxExecs]
  /\ outcome \in [Users -> {"none", "committed", "rolledback", "error"}]

Init ==
  /\ db = "none"
  /\ stms = [s \in Stms |-> "absent"] /\ adding = [u \in Users |-> {}]
  /\ tx = [u \in Users |-> "nil"] /\ outcome = [u \in Users |-> "none"]
  /\ pending = [u \in Users |-> 0] /\ told = [u \in Users |-> 0]
  /\ stored = [u \in Users |-> 0]

-----------------------------------------------------------------------------
(* The connections and the statements                                      *)

Busy == {u \in Users : tx[u] \in {"open", "failed"}}
Free == Cardinality(Busy) < MaxOpen

New ==
  /\ db = "none" /\ db' = "connected"
  /\ UNCHANGED <<stms, adding, txVars>>

\* The statements that New was given. If one is wrong New fails, with the connections
\* left open.
PreparexAll ==
  /\ db = "connected"
  /\ \/ db' = "leaked" /\ UNCHANGED stms
     \/ db' = "open" /\ stms' \in [Stms -> {"absent", "text", "prepared"}]
  /\ UNCHANGED <<adding, txVars>>

\* The map is read, without a lock, before the statement is prepared ...
PreparexAddSql(u, s) ==
  /\ db = "open" /\ adding[u] = {} /\ stms[s] # "prepared"
  /\ \/ stms[s] = "absent" /\ adding' = [adding EXCEPT ![u] = {s}] /\ UNCHANGED stms
     \/ stms' = [stms EXCEPT ![s] = "text"] /\ UNCHANGED adding
  /\ UNCHANGED <<db, txVars>>

\* ... and written when it is: the entry of somebody else is lost.
Prepared(u) ==
  /\ adding[u] # {} /\ Free
  /\ \/ stms' = [s \in Stms |-> IF s \in adding[u] THEN "prepared" ELSE stms[s]]
     \/ UNCHANGED stms
  /\ adding' = [adding EXCEPT ![u] = {}]
  /\ UNCHANGED <<db, txVars>>

\* A write of the map while another goroutine uses it is a fatal error of the Go
\* runtime if the runtime notices it.
MapRace(u) ==
  /\ adding[u] # {} /\ Free /\ Users # {u}
  /\ db' = "crashed"
  /\ UNCHANGED <<stms, adding, txVars>>

\* Transactions under way keep their connections.
Close ==
  /\ db = "open" /\ db' = "closed"
  /\ UNCHANGED <<stms, adding, txVars>>

-----------------------------------------------------------------------------
(* Transactions                                                            *)

Beginx(u) ==
  /\ db = "open" /\ tx[u] = "nil" /\ Free
  /\ tx' = [tx EXCEPT ![u] = "open"]
  /\ UNCHANGED <<stmVars, pending, told, stored, outcome>>

\* The statement is refused, and the server refuses the rest of the transaction.
Fails(u) ==
  /\ tx' = [tx EXCEPT ![u] = "failed"]
  /\ UNCHANGED <<pending, told>>

\* Only a prepared statement is sent: without its Stmt the call panics before.
Select(u, s) ==
  /\ tx[u] = "open" /\ stms[s] = "prepared"
  /\ Fails(u)
  /\ UNCHANGED <<stmVars, stored, outcome>>

\* That there is no row is not a failure.
Get(u, s) == Select(u, s)

Performed(u) == pending' = [pending EXCEPT ![u] = @ + 1] /\ UNCHANGED tx
Told(u) == told' = [told EXCEPT ![u] = @ + 1]

\* A change may be made though the call returns an error.
Change(u, s) ==
  /\ tx[u] = "open" /\ stms[s] # "absent" /\ pending[u] < MaxExecs
  /\ \/ Performed(u) /\ Told(u)
     \/ Performed(u) /\ UNCHANGED told
     \/ Fails(u)
  /\ UNCHANGED <<stmVars, stored, outcome>>

\* ... when the number of rows is not to be had,
Exec(u, s) == Change(u, s)

\* ... or when the row it returns does not fit its destination.
QueryRowxStructScan(u, s) == Change(u, s)

MutEnd(u, ok, what) ==
  /\ tx' = [tx EXCEPT ![u] = "over"]
  /\ outcome' = [outcome EXCEPT ![u] = what]
  /\ UNCHANGED <<stmVars, pending, told>>
\* The transaction is over either way; an error is returned.
End(u, ok, what) ==
  /\ tx' = [tx EXCEPT ![u] = "over"]
  /\ outcome' = [outcome EXCEPT ![u] = IF ok THEN what ELSE "error"]
  /\ UNCHANGED <<stmVars, pending, told>>

Rollback(u) ==
  /\ u \in Busy
  /\ \E ok \in BOOLEAN : End(u, ok, "rolledback")
  /\ UNCHANGED stored

\* Of a failed transaction it is an error. When the answer is lost nobody knows.
Commit(u) ==
  /\ u \in Busy
  /\ \E ok \in BOOLEAN :
       /\ ok => tx[u] = "open"
       /\ End(u, ok, "committed")
       /\ \/ tx[u] = "open" /\ stored' = [stored EXCEPT ![u] = pending[u]]
          \/ ~ok /\ UNCHANGED stored

-----------------------------------------------------------------------------

Next ==
  /\ db # "crashed"
  /\ \/ New \/ PreparexAll \/ Close
     \/ \E u \in Users :
          \/ Prepared(u) \/ MapRace(u)
          \/ Beginx(u) \/ Rollback(u) \/ Commit(u)
          \/ \E s \in Stms :
               \/ PreparexAddSql(u, s) \/ Select(u, s) \/ Get(u, s)
               \/ Exec(u, s) \/ QueryRowxStructScan(u, s)

Spec == Init /\ [][Next]_vars

-----------------------------------------------------------------------------

\* sqlxx.go:205-255, 350-447: what a caller is told is what happened to its changes. If
\* Commit returns no error all of them are stored, also those that Exec reported as
\* errors, and none of those that it reported as made is missing; nothing is stored
\* before, after a Rollback, or outside of a transaction.
CommitTells ==
  \A u \in Users :
    /\ outcome[u] = "committed" => stored[u] = pending[u]
    /\ told[u] <= pending[u] /\ (tx[u] = "nil" => pending[u] = 0)
    /\ tx[u] # "over" \/ outcome[u] = "rolledback" => stored[u] = 0
=============================================================================
