----------------------------- MODULE RowUpdates -----------------------------
(***************************************************************************)
(* The handlers that write the plain columns of a row: PUT chapter         *)
(* progress (ownership_service.upsert_chapter_progress, which creates the  *)
(* row when it finds none), PATCH of an account or of an owned item        *)
(* (setattr for every field of the payload), and POST /accounts, whose     *)
(* display name is unique.                                                 *)
(*                                                                         *)
(* A payload gives each column a value, Null, or Unset when the field is   *)
(* not in the request body.  The schemas of PUT and PATCH accept a null    *)
(* for every field; the columns do not, apart from Nullable ones.          *)
(***************************************************************************)
EXTENDS RequestHandlers

CONSTANTS Field, Value, Default,
          Null, Unset,
          Progress,  \* the rows of chapter progress; the others are accounts
          Optional   \* columns of an account without NOT NULL (current_chapter_id)

Op == {"put", "patch", "post"}
OpsOn(i) == IF i \in Progress THEN {"put"} ELSE {"post", "patch"}
Nullable(i) == IF i \in Progress THEN {} ELSE Optional
DefaultOf(i, f) == IF f \in Nullable(i) THEN Null ELSE Default
Columns == [Field -> Value \cup {Null}]
Storable(i, cell) == \A f \in Field \ Nullable(i) : cell[f] # Null
Cells(i) == {cell \in Columns : Storable(i, cell)} \cup {Absent}
Payload == [Field -> Value \cup {Null, Unset}]

ASSUME ValueAssumption ==
  /\ Default \in Value /\ Null \notin Value /\ Unset \notin Value \cup {Null}
  /\ Progress \subseteq Row /\ Optional \subseteq Field
ASSUME CellAssumption == Absent \notin Columns /\ None \notin Columns \cup {Absent}

VARIABLE payload   \* [Worker -> Payload or None]

vars == <<rowVars, reqVars, payload>>

(* Pydantic: the fields of POST /accounts are required or have a default,   *)
(* and only a nullable one may be null.                                      *)
Accepts(o, i, p) ==
  o = "post" => \A f \in Field \ Nullable(i) : p[f] # Null

(* POST does not look first; PUT and PATCH load the row. *)
Load(w, o, i, p) ==
  /\ Accepts(o, i, p)
  /\ o = "patch" => table[i] # Absent
  /\ Start(w, o, i, IF o = "post" \/ table[i] = Absent THEN "insert" ELSE "flush")
  /\ payload' = [payload EXCEPT ![w] = p]

-----------------------------------------------------------------------------
(* The ORM leaves a None out of an INSERT when the column has a default. *)
NewRow(w) ==
  [f \in Field |-> IF payload[w][f] \in Value THEN payload[w][f] ELSE DefaultOf(item[w], f)]

\* Mutant: INSERT OR REPLACE.
InsertAnyway(w) ==
  /\ pc[w] = "insert"
  /\ Blockers(w, item[w]) = {}
  /\ StageRow(w, item[w], NewRow(w))
  /\ Goto(w, "commit")
  /\ UNCHANGED <<table, op, item, seen, cand, gone, status, rival>>

InsertRow(w) == Insert(w, NewRow(w))

(* IntegrityError of the INSERT: create_account answers 409; the upsert does  *)
(* not catch it.                                                              *)
InsertRaced(w) ==
  /\ pc[w] = "insert"
  /\ Blockers(w, item[w]) = {}
  /\ table[item[w]] # Absent
  /\ Fail(w, IF op[w] = "post" THEN "409" ELSE "unique")

-----------------------------------------------------------------------------
(* setattr for every field that is set, explicit nulls included. *)
Assigned(w) ==
  [f \in Field |-> IF payload[w][f] = Unset THEN seen[w][f] ELSE payload[w][f]]

NetChange(w) == Assigned(w) # seen[w]

FlushNothing(w) == SkipFlush(w) /\ ~NetChange(w)

\* Mutants: every column of the instance is written; a field that is set is
\* written only if it is truthy, not if it is the default (0, False).
WriteBackAll(w) == Assigned(w)
SkipFalsy(w) ==
  [f \in Field |-> IF payload[w][f] \in {Unset, Default} THEN table[item[w]][f]
                                                         ELSE payload[w][f]]

(* The columns that differ from the loaded ones, over the latest version. *)
NewCell(w) ==
  [f \in Field |-> IF Assigned(w)[f] # seen[w][f] THEN Assigned(w)[f]
                                                  ELSE table[item[w]][f]]

\* Mutant: the columns without NOT NULL.
FlushNulls(w) == WriteTarget(w, NewCell(w), "commit") /\ NetChange(w)

FlushRow(w) ==
  /\ WriteTarget(w, NewCell(w), "commit")
  /\ NetChange(w) /\ Storable(item[w], NewCell(w))

(* NOT NULL violated: an IntegrityError that nobody catches. *)
NullRejected(w) ==
  /\ pc[w] = "flush" /\ NetChange(w)
  /\ TargetBlockers(w) = {}
  /\ ~Storable(item[w], NewCell(w))
  /\ Fail(w, "null")

Commit(w) == CommitWrites(w, {})

BusyTimeout(w) ==
  AbortBusy(w, [v \in Worker |->
                  IF pc[v] \in {"insert", "flush"} /\ (pc[v] = "flush" => NetChange(v))
                    THEN Blockers(v, item[v]) ELSE {}])

-----------------------------------------------------------------------------
Init ==
  /\ RowsInit({t \in [Row -> Columns \cup {Absent}] : \A i \in Row : t[i] \in Cells(i)})
  /\ RequestsInit
  /\ payload = [w \in Worker |-> None]

(* After the COMMIT nobody looks at the payload any more. *)
Forget(w) ==
  payload' = [payload EXCEPT ![w] = IF pc'[w] \in {"refresh", "done"} THEN None ELSE @]

Proceed(w) ==
  /\ \/ InsertRow(w) \/ InsertRaced(w)
     \/ FlushNothing(w) \/ FlushRow(w) \/ NullRejected(w)
     \/ Commit(w) \/ Refresh(w) \/ BusyTimeout(w)
     \/ Return(w)
  /\ Forget(w)

Arrive(w) ==
  \E i \in Row : \E o \in OpsOn(i) :
    \/ o = "patch" /\ UNCHANGED payload /\ Refuse(w, o, i)
    \/ \E p \in Payload : Load(w, o, i, p)

Next == \E w \in Worker : Proceed(w) \/ Arrive(w)

Spec == Init /\ [][Next]_vars

-----------------------------------------------------------------------------
(* Type correctness; no committed or staged row has a NULL in a NOT NULL     *)
(* column, although each of its columns may come from another request.       *)
TypeOK ==
  /\ DOMAIN table = Row /\ \A i \in Row : table[i] \in Cells(i)
  /\ DOMAIN pending = Worker
  /\ \A w \in Worker : /\ DOMAIN pending[w] = Row
                        /\ \A i \in Row : pending[w][i] \in Cells(i) \cup {None}
  /\ writing \in [Worker -> BOOLEAN]
  /\ pc \in [Worker -> {"idle", "insert", "flush", "commit", "refresh", "done"}]
  /\ op \in [Worker -> Op \cup {"none"}]
  /\ item \in [Worker -> Row \cup {None}]
  /\ seen \in [Worker -> Columns \cup {Absent, None}]
  /\ payload \in [Worker -> Payload \cup {None}]
  /\ cand = [w \in Worker |-> {}]
  /\ gone \in [Worker -> BOOLEAN]
  /\ status \in [Worker -> {"none", "ok", "404", "409", "500", "unique", "null"}]
  /\ rival \in [Worker -> BOOLEAN]

Commits(w) == pc[w] = "commit" /\ pc'[w] # "commit"

(* "Omitting the field leaves it untouched" (schemas/account.py:44-50), also *)
(* when another request has changed the column since this one loaded it.     *)
OmittedStaysUntouched ==
  [][\A w \in Worker : Commits(w) /\ table[item[w]] # Absent =>
        \A f \in Field :
          payload[w][f] = Unset => table'[item[w]][f] = table[item[w]][f]]_vars

(* What a client sent is in the row when its request commits, unless it is   *)
(* the value that was loaded (which is not sent to the database, whatever    *)
(* the column holds by now) or a null on creation.                           *)
SentIsStored ==
  [][\A w \in Worker : Commits(w) =>
        \A f \in Field :
          \/ payload[w][f] = Unset
          \/ table'[item[w]][f] = payload[w][f]
          \/ payload[w][f] = Null /\ table[item[w]] = Absent
          \/ seen[w] # Absent /\ payload[w][f] = seen[w][f]]_vars

(* A POST or PUT that found no row never overwrites one that another request *)
(* created meanwhile.                                                        *)
CreateNeverOverwrites ==
  [][\A w \in Worker :
        Commits(w) /\ (op[w] = "post" \/ seen[w] = Absent) => table[item[w]] = Absent]_vars

-----------------------------------------------------------------------------
(* Why these properties hold: the facts that every step keeps.               *)

Creates(w) == op[w] = "post" \/ seen[w] = Absent

\* The step a request is at tells what it found, and what it goes on with.
StepsMatchFound ==
  \A w \in Worker :
    /\ pc[w] \in {"insert", "flush", "commit"} =>
         /\ item[w] \in Row /\ op[w] \in OpsOn(item[w]) /\ payload[w] \in Payload
         /\ Creates(w) \/ seen[w] \in Cells(item[w]) \ {Absent}
    /\ pc[w] = "insert" => Creates(w)
    /\ pc[w] = "flush" => ~Creates(w)

\* A row has one writer; SQLite has one writer.
LocksExclusive ==
  \A v, w \in Worker :
    v # w => /\ \A i \in Row : pending[v][i] = None \/ pending[w][i] = None
             /\ Dialect = "sqlite" => ~(writing[v] /\ writing[w])

WritersHoldLock ==
  \A w \in Worker : \A i \in Row : pending[w][i] # None => writing[w]

\* A row that a request has loaded is there: nothing deletes it.
FoundStays == \A w \in Worker : pc[w] \in {"flush", "commit"} /\ ~Creates(w) => table[item[w]] # Absent

\* What is staged is a new row for no row, or an update of the row as it is now.
StagedBy(w, i) ==
  /\ pc[w] = "commit" /\ i = item[w] /\ pending[w][i] # Absent
  /\ pending[w][i] = IF Creates(w) THEN NewRow(w) ELSE NewCell(w)
  /\ Creates(w) => table[i] = Absent

StagedByRequest ==
  \A w \in Worker : \A i \in Row : pending[w][i] # None => StagedBy(w, i)

\* Who commits without a write found what was sent in the row already.
UnstagedIsNothing ==
  \A w \in Worker : pc[w] = "commit" /\ pending[w][item[w]] = None => ~Creates(w) /\ ~NetChange(w)

IInv ==
  /\ TypeOK /\ StepsMatchFound /\ LocksExclusive /\ WritersHoldLock
  /\ FoundStays /\ StagedByRequest /\ UnstagedIsNothing
=============================================================================
