------------------------------ MODULE Sockets ------------------------------
(***************************************************************************)
(* The equip actions of services/equipment_service.py that put an item     *)
(* into a NUMBERED socket: equip_rune / unequip_rune (socket_index and     *)
(* is_equipped, which a CHECK constraint keeps together) and equip_skill / *)
(* unequip_skill (equipped_slot, only when is_unlocked), with the PATCH,   *)
(* POST and DELETE handlers of services/ownership_service.py on the same   *)
(* tables.                                                                 *)
(*                                                                         *)
(* A cell is [at, flag]: the socket or Null, and is_equipped of a rune or  *)
(* is_unlocked of a skill.  An UPDATE of the unit of work names only the   *)
(* columns whose value differs from the loaded one, so the row it produces *)
(* mixes what was loaded with what the row has become since.               *)
(***************************************************************************)
EXTENDS RequestHandlers

CONSTANTS Kind,      \* "rune" or "skill"
          Socket, Null,
          Requests   \* the requests that clients send, a subset of Op

Item == Row
Op == IF Kind = "rune" THEN {"equip", "unequip", "patch", "create", "delete"}
                       ELSE {"equip", "unequip", "lock", "unlock", "create", "delete"}
Owned == [at : Socket \cup {Null}, flag : BOOLEAN]
Cell == Owned \cup {Absent}

ASSUME KindAssumption == Kind \in {"rune", "skill"}
ASSUME SocketAssumption == Null \notin Socket
ASSUME RequestAssumption == Requests \subseteq Op
ASSUME CellAssumption == Absent \notin Owned /\ None \notin Cell /\ None \notin Item

VARIABLE want   \* [Worker -> the socket an equip asks for, or Null]

vars == <<rowVars, reqVars, want>>

(* The CHECK constraints equipped_matches_socket, equipped_requires_unlocked. *)
Fits(cell) ==
  IF Kind = "rune" THEN cell.flag <=> cell.at # Null
                   ELSE cell.at # Null => cell.flag

Fitting == {cell \in Owned : Fits(cell)}

In(tbl, i, s) == tbl[i] # Absent /\ tbl[i].at = s
Inside(tbl, s) == {i \in Item : In(tbl, i, s)}

(* UniqueConstraint(account_id, socket_index); NULLs are all distinct. *)
UniquelySocketed(tbl) ==
  \A s \in Socket : \A i, j \in Inside(tbl, s) : i = j

-----------------------------------------------------------------------------
(* equip_skill refuses a locked skill before it clears anything. *)
RefuseLocked(w, i) ==
  /\ Kind = "skill" /\ pc[w] = "idle"
  /\ table[i] # Absent /\ ~table[i].flag
  /\ op' = [op EXCEPT ![w] = "equip"]
  /\ Answer(w, "locked")
  /\ UNCHANGED <<rowVars, cand, gone, rival, want>>

Load(w, o, i, s) ==
  /\ (o = "create") <=> (table[i] = Absent)
  /\ Kind = "skill" /\ o = "equip" => table[i].flag
  /\ Start(w, o, i, CASE o = "equip"  -> "clear"
                      [] o = "create" -> "insert"
                      [] OTHER        -> "flush")
  /\ want' = [want EXCEPT ![w] = IF o = "equip" THEN s ELSE Null]

\* Mutant: the clear forgotten.
ClearNothing(w) == {}

ClearTargets(w) ==
  {j \in Inside(table, want[w]) : j # item[w] \/ gone[w]}

ClearScan(w) == Scan(w, ClearTargets(w))

Cleared(cell) ==
  IF Kind = "rune" THEN [at |-> Null, flag |-> FALSE] ELSE [cell EXCEPT !.at = Null]

\* Mutant: rows found by a SELECT and saved one by one, with no second look.
ClearBlindly(w) ==
  Apply(w, [j \in Item |-> IF j \in cand[w] THEN Cleared(table[j]) ELSE pending[w][j]])

(* A row found but moved to another socket since stays there, locked. *)
ClearApply(w) ==
  Apply(w, [j \in Item |->
              IF j \notin cand[w] THEN pending[w][j]
              ELSE IF In(table, j, want[w]) THEN Cleared(table[j])
              ELSE table[j]])

-----------------------------------------------------------------------------
\* Mutant: unequip_rune forgets the socket.
UnequipKeepsSocket(w, cell) ==
  CASE op[w] = "equip"   -> IF Kind = "rune" THEN [at |-> want[w], flag |-> TRUE]
                                             ELSE [cell EXCEPT !.at = want[w]]
    [] op[w] = "unequip" -> [cell EXCEPT !.flag = FALSE]
    [] op[w] = "lock"    -> [cell EXCEPT !.flag = FALSE]
    [] op[w] = "unlock"  -> [cell EXCEPT !.flag = TRUE]
    [] OTHER             -> cell

(* The attributes as the handler leaves them on the loaded instance. *)
Assigned(w, cell) ==
  CASE op[w] = "equip"   -> IF Kind = "rune" THEN [at |-> want[w], flag |-> TRUE]
                                             ELSE [cell EXCEPT !.at = want[w]]
    [] op[w] = "unequip" -> Cleared(cell)
    [] op[w] = "lock"    -> [cell EXCEPT !.flag = FALSE]
    [] op[w] = "unlock"  -> [cell EXCEPT !.flag = TRUE]
    [] OTHER             -> cell

NetChange(w) ==
  op[w] \in {"patch", "delete"} \/ Assigned(w, seen[w]) # seen[w]

FlushNothing(w) == SkipFlush(w) /\ ~NetChange(w)

\* Mutant: every column of the instance is written.
WriteBackAll(w) == Assigned(w, seen[w])

(* The new row version: the columns that changed, over the latest version. *)
NewCell(w) ==
  LET new == Assigned(w, seen[w])
      now == table[item[w]]
  IN [at   |-> IF new.at # seen[w].at THEN new.at ELSE now.at,
      flag |-> IF new.flag # seen[w].flag THEN new.flag ELSE now.flag]

\* Mutant: a table without its CHECK constraint.
FlushUnchecked(w) ==
  /\ WriteTarget(w, NewCell(w), IF op[w] = "equip" THEN "index" ELSE "commit")
  /\ NetChange(w) /\ op[w] # "delete"

FlushRow(w) ==
  /\ WriteTarget(w, NewCell(w), IF op[w] = "equip" THEN "index" ELSE "commit")
  /\ NetChange(w) /\ op[w] # "delete" /\ Fits(NewCell(w))

(* IntegrityError of a CHECK constraint: it does not name UNIQUE, so it is    *)
(* raised again (equip), or was never caught (unequip, PATCH).                *)
CheckRejects(w) ==
  /\ pc[w] = "flush" /\ NetChange(w) /\ op[w] # "delete" /\ ~gone[w]
  /\ TargetBlockers(w) = {}
  /\ ~Fits(NewCell(w))
  /\ Fail(w, "check")

FlushDelete(w) == op[w] = "delete" /\ WriteTarget(w, Absent, "commit")

FlushStale(w) == UpdateMissed(w) /\ NetChange(w)

(* POST: no socket; a skill may be created unlocked. *)
InsertRow(w) ==
  \E f \in BOOLEAN : (Kind = "rune" => ~f) /\ Insert(w, [at |-> Null, flag |-> f])

-----------------------------------------------------------------------------
StagedIn(v, i, s) == pending[v][i] \notin {None, Absent} /\ pending[v][i].at = s

(* v is Indexed once its row version is in the unique index. *)
Indexed(v) == op[v] = "equip" /\ pc[v] = "commit" /\ StagedIn(v, item[v], want[v])

\* Mutant: the table without its unique constraint on the socket.
NoUniqueIndex(w) == {}

IndexConflicts(w) ==
  {j \in Inside(table, want[w]) \ {item[w]} : \A v \in Worker : pending[v][j] = None}

IndexBlockers(w) ==
  {v \in Worker \ {w} :
     \/ \E j \in Inside(table, want[w]) \ {item[w]} : pending[v][j] # None
     \/ Indexed(v) /\ item[v] # item[w] /\ want[v] = want[w]}

IndexAccept(w) == Accepted(w) /\ IndexConflicts(w) = {} /\ IndexBlockers(w) = {}

IndexReject(w) ==
  /\ pc[w] = "index"
  /\ IndexConflicts(w) # {}
  /\ Fail(w, "409")

LosesRace(v, w) ==
  /\ v # w /\ pc[v] \in Contending /\ op[v] = "equip"
  /\ \E j \in Inside(TableAfter(w), want[v]) \ {item[v]} : ~In(table, j, want[v])

Commit(w) == CommitWrites(w, {v \in Worker : LosesRace(v, w)})

-----------------------------------------------------------------------------
Waits(w) ==
  CASE pc[w] = "clear" /\ Dialect = "sqlite" -> {v \in Worker \ {w} : writing[v]}
    [] pc[w] = "apply"  -> UNION {Blockers(w, j) : j \in cand[w]}
    [] pc[w] = "flush" /\ NetChange(w) -> TargetBlockers(w)
    [] pc[w] = "insert" -> Blockers(w, item[w])
    [] pc[w] = "index" /\ IndexConflicts(w) = {} -> IndexBlockers(w)
    [] OTHER -> {}

WaitsFor == [w \in Worker |-> Waits(w)]

DeadlockVictim(w) == AbortDeadlock(w, WaitsFor)
BusyTimeout(w) == AbortBusy(w, WaitsFor)

-----------------------------------------------------------------------------
Init ==
  /\ RowsInit({t \in [Item -> Fitting \cup {Absent}] : UniquelySocketed(t)})
  /\ RequestsInit
  /\ want = [w \in Worker |-> Null]

Finish(w) == Return(w) /\ want' = [want EXCEPT ![w] = Null]

(* The steps of a request that has arrived. *)
Proceed(w) ==
  \/ UNCHANGED want /\
       \/ ClearScan(w) \/ ClearApply(w)
       \/ FlushNothing(w) \/ FlushRow(w) \/ CheckRejects(w)
       \/ FlushDelete(w) \/ FlushDeletedTwice(w) \/ FlushStale(w)
       \/ InsertRow(w) \/ InsertRejected(w)
       \/ IndexAccept(w) \/ IndexReject(w)
       \/ Commit(w) \/ Refresh(w)
       \/ DeadlockVictim(w) \/ BusyTimeout(w)
  \/ Finish(w)

Arrive(w) ==
  \E o \in Requests, i \in Item :
    \/ UNCHANGED want /\ Refuse(w, o, i)
    \/ o = "equip" /\ RefuseLocked(w, i)
    \/ \E s \in Socket : Load(w, o, i, s)

Next == \E w \in Worker : Proceed(w) \/ Arrive(w)

Spec == Init /\ [][Next]_vars

-----------------------------------------------------------------------------
(* Type correctness. *)
TypeOK ==
  /\ table \in [Item -> Cell]
  /\ pending \in [Worker -> [Item -> Cell \cup {None}]]
  /\ writing \in [Worker -> BOOLEAN]
  /\ pc \in [Worker -> {"idle", "insert", "done"} \cup Holding]
  /\ op \in [Worker -> Op \cup {"none"}]
  /\ item \in [Worker -> Item \cup {None}]
  /\ seen \in [Worker -> Cell \cup {None}]
  /\ cand \in [Worker -> SUBSET Item]
  /\ gone \in [Worker -> BOOLEAN]
  /\ status \in [Worker -> {"none", "ok", "404", "409", "locked", "check", "500"}]
  /\ rival \in [Worker -> BOOLEAN]
  /\ want \in [Worker -> Socket \cup {Null}]

(* Rows keep their types; in every committed state a socket is used by at     *)
(* most one item and no row breaks its CHECK, although the columns of a row come from two requests    *)
(* (architecture.md:131-132, 159-164).                                       *)
SocketsSound ==
  /\ TypeOK
  /\ UniquelySocketed(table)
  /\ \A i \in Item : table[i] # Absent => Fits(table[i])

(* An equip is answered with the conflict of a lost race only if it lost     *)
(* one: since its clear looked, another item was committed into the socket.  *)
ConflictMeansLostRace ==
  \A w \in Worker : op[w] = "equip" /\ status[w] = "409" => rival[w]

(* unequip_* "can never violate" a constraint (equipment_service.py:30-32),  *)
(* whatever has become of the row since it was loaded.                       *)
UnequipNeverRejected ==
  \A w \in Worker : op[w] = "unequip" => status[w] \notin {"409", "check"}

Commits(w) == pc[w] = "commit" /\ pc'[w] # "commit"
FlagOf(tbl, i) == tbl[i] # Absent /\ tbl[i].flag

(* Equipping or unequipping a skill never writes back the is_unlocked it     *)
(* loaded: a PATCH that committed in between keeps its effect.               *)
EquipKeepsUnlocks ==
  [][\A w \in Worker :
       Kind = "skill" /\ Commits(w) /\ op[w] \in {"equip", "unequip"}
         => \A i \in Item : FlagOf(table', i) = FlagOf(table, i)]_vars

(* The committed table implements SocketBoard: one commit is one placement,  *)
(* which also empties the item's old socket, one removal, gain or loss.      *)
OwnedIn(tbl) == {i \in Item : tbl[i] # Absent}
BoardIn(tbl) ==
  [s \in Socket |-> IF Inside(tbl, s) = {} THEN None ELSE CHOOSE i \in Inside(tbl, s) : TRUE]

B == INSTANCE SocketBoard WITH Nothing <- None,
                               owned <- OwnedIn(table),
                               board <- BoardIn(table)
BoardSpec == B!Spec

-----------------------------------------------------------------------------
(* Why these properties hold: the facts that every step keeps.               *)

\* The step a request is at tells which request it is, and what it has loaded.
StepsMatchOp ==
  \A w \in Worker :
    /\ pc[w] \in {"clear", "apply", "index"} => op[w] = "equip"
    /\ pc[w] = "insert" => op[w] = "create"
    /\ pc[w] = "flush" => op[w] \in Op \ {"create"}
    /\ pc[w] \in Holding \cup {"insert"} => item[w] \in Item /\ op[w] \in Op
    /\ pc[w] \in Holding /\ op[w] = "equip" => want[w] \in Socket
    /\ pc[w] \in {"clear", "apply", "flush", "index"} => seen[w] \in Fitting
    /\ status[w] # "none" => pc[w] = "done"

\* A row has one writer; SQLite has one writer.
LocksExclusive ==
  \A v, w \in Worker :
    v # w => /\ \A i \in Item : pending[v][i] = None \/ pending[w][i] = None
             /\ Dialect = "sqlite" => ~(writing[v] /\ writing[w])

WritersHoldLock ==
  \A w \in Worker :
    /\ \A i \in Item : pending[w][i] # None => writing[w]
    /\ op[w] = "equip" /\ pc[w] \in Contending => writing[w]

\* A request that still has its row finds it in the table.
RowsHeld ==
  \A w \in Worker :
    /\ pc[w] \in Holding /\ ~gone[w] /\ op[w] # "create" => table[item[w]] # Absent
    /\ \A j \in cand[w] : table[j] # Absent /\ pc[w] = "apply"

\* Where a row version that a request has staged stands, against the table.
StagedAt(w, i) ==
  /\ op[w] = "create" => pending[w][i].at = Null
  /\ op[w] = "equip" =>
       \/ i = item[w] /\ pc[w] # "flush" /\ pending[w][i].at = want[w]
       \/ pending[w][i].at = Null /\ table[i].at = want[w]
       \/ pending[w][i].at = table[i].at /\ table[i].at # want[w]
  /\ op[w] = "unequip" => pending[w][i].at \in {Null, table[i].at}
  /\ op[w] \in {"patch", "lock", "unlock"} => pending[w][i].at = table[i].at

\* Each request stages only what it is about, and no row that breaks its CHECK.
StagedBy(w, i) ==
  /\ pc[w] \in {"flush", "index", "commit"}
  /\ op[w] = "create" <=> table[i] = Absent
  /\ op[w] = "delete" <=> pending[w][i] = Absent
  /\ op[w] # "equip" => i = item[w]
  /\ pending[w][i] # Absent =>
       /\ Fits(pending[w][i]) /\ StagedAt(w, i)
       /\ Kind = "skill" /\ op[w] \in {"equip", "unequip"}
            => pending[w][i].flag = table[i].flag

StagedByRequest ==
  \A w \in Worker : \A i \in Item : pending[w][i] # None => StagedBy(w, i)

\* What the index accepted stays acceptable until the commit.
AcceptedStaysUnique ==
  \A w \in Worker : Indexed(w) =>
    /\ \A j \in Inside(table, want[w]) \ {item[w]} : pending[w][j] # None
    /\ \A v \in Worker \ {w} : Indexed(v) => want[v] # want[w]

\* A contender that lost no race has found every other occupant of its socket.
UnrivalledSawAll ==
  \A w \in Worker :
    op[w] = "equip" /\ pc[w] \in Contending /\ ~rival[w] =>
      \A j \in Inside(table, want[w]) \ {item[w]} :
        IF pc[w] = "apply" THEN j \in cand[w] ELSE pending[w][j] # None

IInv ==
  /\ StepsMatchOp /\ LocksExclusive /\ WritersHoldLock /\ RowsHeld /\ StagedByRequest
  /\ AcceptedStaysUnique /\ UnrivalledSawAll
  /\ SocketsSound /\ ConflictMeansLostRace /\ UnequipNeverRejected
=============================================================================
