--------------------------- MODULE RequestHandlers ---------------------------
(***************************************************************************)
(* What every handler that writes an ownership row has in common: one      *)
(* session per request (db/session.py), a row loaded once and kept by the  *)
(* session while the table moves on, an optional bulk UPDATE that clears   *)
(* other rows, the flush and COMMIT inside db.commit(), db.refresh, and    *)
(* the translation of exceptions into responses.                           *)
(*                                                                         *)
(* The steps of pc are the points where another request can come between:  *)
(*                                                                         *)
(*   idle     no request; get_*_ownership SELECTs the row                  *)
(*   clear    the bulk UPDATE is about to start                            *)
(*   apply    it has found its rows and takes their locks                  *)
(*   flush    db.commit() is about to send the row's own statement         *)
(*   insert   db.commit() is about to send an INSERT                       *)
(*   index    the unique index is to judge the row version just written    *)
(*   commit   only COMMIT is left                                          *)
(*   refresh  committed; db.refresh is about to SELECT the row again       *)
(*   done     the response is out, the session closed                      *)
(***************************************************************************)
EXTENDS SqlRows

VARIABLES pc,       \* [Worker -> step]
          op,       \* [Worker -> the kind of request, or "none"]
          item,     \* [Worker -> Row or None]: the row the request names
          seen,     \* [Worker -> cell or None]: the row as the session loaded it
          cand,     \* [Worker -> SUBSET Row]: rows the bulk UPDATE found
          gone,     \* [Worker -> BOOLEAN]: the loaded row was deleted since
          status,   \* [Worker -> response]
          rival     \* history: another item of the slot was equipped by
                    \* another request since this one's ClearScan

reqVars == <<pc, op, item, seen, cand, gone, status, rival>>

(* Steps at which a request holds a row it loaded. *)
Holding == {"clear", "apply", "flush", "index", "commit", "refresh"}
(* Steps between the clear's snapshot and the verdict of the index. *)
Contending == {"apply", "flush", "index"}

Goto(w, step) == pc' = [pc EXCEPT ![w] = step]

(* The handler's response; its session and what it loaded are closed. *)
Answer(w, code) ==
  /\ Goto(w, "done")
  /\ status' = [status EXCEPT ![w] = code]
  /\ item' = [item EXCEPT ![w] = None]
  /\ seen' = [seen EXCEPT ![w] = None]

(* Any exception leaves the handler with its transaction rolled back. *)
Fail(w, code) ==
  /\ DropWrites(w)
  /\ Answer(w, code)
  /\ cand' = [cand EXCEPT ![w] = {}]
  /\ gone' = [gone EXCEPT ![w] = FALSE]
  /\ UNCHANGED <<op, rival>>

(* The row a handler goes on with, at its first write step. *)
Start(w, o, i, step) ==
  /\ pc[w] = "idle"
  /\ Goto(w, step)
  /\ op' = [op EXCEPT ![w] = o]
  /\ item' = [item EXCEPT ![w] = i]
  /\ seen' = [seen EXCEPT ![w] = table[i]]
  /\ UNCHANGED <<rowVars, cand, gone, status, rival>>

(* 404 for a row that is not there, 409 for a POST of one that is. *)
Refuse(w, o, i) ==
  /\ pc[w] = "idle"
  /\ op' = [op EXCEPT ![w] = o]
  /\ \/ o # "create" /\ table[i] = Absent /\ Answer(w, "404")
     \/ o = "create" /\ table[i] # Absent /\ Answer(w, "409")
  /\ UNCHANGED <<rowVars, cand, gone, rival>>

-----------------------------------------------------------------------------
(* The bulk UPDATE evaluates its WHERE clause on what is committed ... *)
Scan(w, targets) ==
  /\ pc[w] = "clear"
  /\ WriterLockFree(w)
  /\ cand' = [cand EXCEPT ![w] = targets]
  /\ rival' = [rival EXCEPT ![w] = FALSE]
  /\ Stage(w, pending[w])
  /\ Goto(w, "apply")
  /\ UNCHANGED <<table, op, item, seen, gone, status>>

(* ... and takes the lock of every row found, to judge its latest version. *)
Apply(w, writes) ==
  /\ pc[w] = "apply"
  /\ \A j \in cand[w] : Blockers(w, j) = {}
  /\ Stage(w, writes)
  /\ cand' = [cand EXCEPT ![w] = {}]
  /\ Goto(w, "flush")
  /\ UNCHANGED <<table, op, item, seen, gone, status, rival>>

(* A deleted row is found by nobody: only SQLite's writer lock is waited for. *)
TargetBlockers(w) ==
  {v \in Blockers(w, item[w]) : gone[w] => Dialect = "sqlite"}

(* db.commit() without a statement to send. *)
SkipFlush(w) ==
  /\ pc[w] = "flush"
  /\ Goto(w, "commit")
  /\ UNCHANGED <<rowVars, op, item, seen, cand, gone, status, rival>>

(* UPDATE or DELETE ... WHERE id = ?, by the row's primary key. *)
WriteTarget(w, cell, step) ==
  /\ pc[w] = "flush" /\ ~gone[w]
  /\ TargetBlockers(w) = {}
  /\ StageRow(w, item[w], cell)
  /\ Goto(w, step)
  /\ UNCHANGED <<table, op, item, seen, cand, gone, status, rival>>

(* A DELETE that matches no row only warns. *)
FlushDeletedTwice(w) ==
  /\ pc[w] = "flush" /\ op[w] = "delete" /\ gone[w]
  /\ TargetBlockers(w) = {}
  /\ Stage(w, pending[w])
  /\ Goto(w, "commit")
  /\ UNCHANGED <<table, op, item, seen, cand, gone, status, rival>>

(* An UPDATE that matches no row is a StaleDataError, caught by nobody. *)
UpdateMissed(w) ==
  /\ pc[w] = "flush" /\ op[w] # "delete" /\ gone[w]
  /\ TargetBlockers(w) = {}
  /\ Fail(w, "500")

(* UNIQUE(account_id, item): the INSERT waits for whoever writes that key.  *)
Insert(w, cell) ==
  /\ pc[w] = "insert"
  /\ Blockers(w, item[w]) = {}
  /\ table[item[w]] = Absent
  /\ StageRow(w, item[w], cell)
  /\ Goto(w, "commit")
  /\ UNCHANGED <<table, op, item, seen, cand, gone, status, rival>>

InsertRejected(w) ==
  /\ pc[w] = "insert"
  /\ Blockers(w, item[w]) = {}
  /\ table[item[w]] # Absent
  /\ Fail(w, "409")

(* The unique index found nothing against the row version. *)
Accepted(w) ==
  /\ pc[w] = "index"
  /\ Goto(w, "commit")
  /\ UNCHANGED <<rowVars, op, item, seen, cand, gone, status, rival>>

-----------------------------------------------------------------------------
(* The requests that lose their row when w commits. *)
LosesRow(v, w) == v # w /\ item[v] \in DeletedBy(w) /\ pc[v] \in Holding

(* COMMIT; losers are the requests that thereby lose a race for a slot. *)
CommitWrites(w, losers) ==
  /\ pc[w] = "commit"
  /\ PublishWrites(w)
  /\ cand' = [v \in Worker |-> cand[v] \ DeletedBy(w)]
  /\ gone' = [v \in Worker |-> (gone[v] \/ LosesRow(v, w)) /\ ~(v = w /\ op[w] = "delete")]
  /\ rival' = [v \in Worker |-> rival[v] \/ v \in losers]
  /\ IF op[w] = "delete"
       THEN Answer(w, "ok")
       ELSE Goto(w, "refresh") /\ UNCHANGED <<item, seen, status>>
  /\ UNCHANGED op

(* The row may be gone again: InvalidRequestError after a commit. *)
Refresh(w) ==
  /\ pc[w] = "refresh"
  /\ Answer(w, IF gone[w] THEN "500" ELSE "ok")
  /\ gone' = [gone EXCEPT ![w] = FALSE]
  /\ UNCHANGED <<rowVars, op, cand, rival>>

Return(w) ==
  /\ pc[w] = "done"
  /\ Goto(w, "idle")
  /\ op' = [op EXCEPT ![w] = "none"]
  /\ status' = [status EXCEPT ![w] = "none"]
  /\ rival' = [rival EXCEPT ![w] = FALSE]
  /\ UNCHANGED <<rowVars, item, seen, cand, gone>>

-----------------------------------------------------------------------------
(* A request on a cycle of the waits-for relation: every set closed under it *)
(* that holds what w waits for holds w as well.                              *)
OnCycle(WaitsFor, w) ==
  /\ WaitsFor[w] # {}
  /\ \A S \in SUBSET Worker :
       (WaitsFor[w] \subseteq S /\ \A v \in S : WaitsFor[v] \subseteq S) => w \in S

(* PostgreSQL aborts a transaction of a cycle: OperationalError, not the     *)
(* IntegrityError the handlers catch.                                        *)
AbortDeadlock(w, WaitsFor) ==
  /\ Dialect = "postgresql"
  /\ OnCycle(WaitsFor, w)
  /\ Fail(w, "500")

(* SQLite's busy timeout (sqlite3.connect's 5 s): OperationalError as well.  *)
AbortBusy(w, WaitsFor) ==
  /\ Dialect = "sqlite"
  /\ WaitsFor[w] # {}
  /\ Fail(w, "500")

RequestsInit ==
  /\ pc = [w \in Worker |-> "idle"]
  /\ op = [w \in Worker |-> "none"]
  /\ item = [w \in Worker |-> None]
  /\ seen = [w \in Worker |-> None]
  /\ cand = [w \in Worker |-> {}]
  /\ gone = [w \in Worker |-> FALSE]
  /\ status = [w \in Worker |-> "none"]
  /\ rival = [w \in Worker |-> FALSE]
=============================================================================
