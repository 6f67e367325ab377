------------------------------ MODULE SqlRows ------------------------------
(***************************************************************************)
(* One table of the account database as the request handlers of            *)
(* backend/app meet it: committed rows, and per request the writes its     *)
(* session has sent but not committed.                                     *)
(*                                                                         *)
(* A request owns one session and one transaction (db/session.py opens a   *)
(* Session per request).  Two back ends are supported by the code, and     *)
(* they lock differently:                                                  *)
(*                                                                         *)
(*   "sqlite"      pysqlite starts a transaction at the first write        *)
(*                 statement; from there to the commit the connection is   *)
(*                 the only writer of the database file.                   *)
(*   "postgresql"  READ COMMITTED: every statement reads what is committed *)
(*                 when it starts; a written row is locked until commit,   *)
(*                 and another writer of that row waits.                   *)
(***************************************************************************)
EXTENDS FiniteSets

CONSTANTS Row,      \* primary keys of the table (one per owned catalog item)
          Worker,   \* request handler threads
          Dialect,  \* which database ARCHERO_DATABASE_URL names
          Absent,   \* the cell of a row that does not exist
          None      \* "no value": nothing written, no row chosen

ASSUME DialectAssumption == Dialect \in {"sqlite", "postgresql"}

VARIABLES table,    \* committed rows: [Row -> cells, Absent for no row]
          pending,  \* [Worker -> [Row -> cell or None]]: uncommitted writes
          writing   \* [Worker -> BOOLEAN]: a write statement was executed

rowVars == <<table, pending, writing>>

NothingPending == [r \in Row |-> None]

(* The requests that a write of row r by w has to wait for. *)
Blockers(w, r) ==
  {v \in Worker \ {w} :
     \/ Dialect = "sqlite" /\ writing[v]
     \/ Dialect = "postgresql" /\ pending[v][r] # None}

(* SQLite's single writer lock; PostgreSQL has no such lock to take. *)
WriterLockFree(w) ==
  Dialect = "sqlite" => \A v \in Worker \ {w} : ~writing[v]

(* Statement effects, visible to w alone until it commits. *)
Stage(w, writes) ==
  /\ pending' = [pending EXCEPT ![w] = writes]
  /\ writing' = [writing EXCEPT ![w] = TRUE]

StageRow(w, r, cell) ==
  Stage(w, [pending[w] EXCEPT ![r] = cell])

TableAfter(w) ==
  [r \in Row |-> IF pending[w][r] = None THEN table[r] ELSE pending[w][r]]

DeletedBy(w) == {r \in Row : pending[w][r] = Absent}

(* COMMIT publishes every staged write at once; ROLLBACK drops them. *)
EndTransaction(w) ==
  /\ pending' = [pending EXCEPT ![w] = NothingPending]
  /\ writing' = [writing EXCEPT ![w] = FALSE]

PublishWrites(w) ==
  /\ table' = TableAfter(w)
  /\ EndTransaction(w)

DropWrites(w) ==
  /\ EndTransaction(w)
  /\ UNCHANGED table

RowsInit(tables) ==
  /\ table \in tables
  /\ pending = [w \in Worker |-> NothingPending]
  /\ writing = [w \in Worker |-> FALSE]
=============================================================================
