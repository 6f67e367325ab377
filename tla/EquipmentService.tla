-------------------------- MODULE EquipmentService --------------------------
(***************************************************************************)
(* The equip/activate actions of services/equipment_service.py that choose *)
(* among rows by a boolean flag: heroes, pets, weapons, armor, rings and   *)
(* amulets, run by concurrent request handlers together with the PATCH,    *)
(* POST and DELETE handlers of services/ownership_service.py that touch    *)
(* the same rows.                                                          *)
(*                                                                         *)
(* Item is what one account may own in one table; SlotOf gives the part of *)
(* the table's partial unique index that identifies the slot: the          *)
(* armor slot for armor, one value for every other table.  A cell is "on"  *)
(* or "off" (is_active / is_equipped), Absent when the item is not owned.  *)
(*                                                                         *)
(* In PostgreSQL the clear finds its rows (ClearScan) and may then wait    *)
(* for their locks before it writes them (ClearApply).  The statement the  *)
(* ORM sends inside db.commit() names only the attributes whose value      *)
(* differs from the one that was LOADED.                                   *)
(***************************************************************************)
EXTENDS RequestHandlers

CONSTANTS Slot, SlotOf,
          Requests   \* the requests that clients send, a subset of Op

Item == Row
Op == {"equip", "unequip", "patch", "create", "delete"}
Cell == {"on", "off", Absent}

ASSUME SlotAssumption == SlotOf \in [Item -> Slot]
ASSUME RequestAssumption == Requests \subseteq Op
ASSUME CellAssumption ==
  /\ Absent \notin {"on", "off"}
  /\ None \notin {"on", "off", Absent}
  /\ None \notin Item

vars == <<rowVars, reqVars>>

SameSlot(i, j) == SlotOf[i] = SlotOf[j]

EquippedIn(tbl) == {i \in Item : tbl[i] = "on"}

(* The partial unique indexes (domain/models/user_account.py). *)
UniquelyEquipped(tbl) ==
  \A i, j \in EquippedIn(tbl) : SameSlot(i, j) => i = j

-----------------------------------------------------------------------------
(* The row that a handler goes on with. *)
Load(w, o, i) ==
  /\ (o = "create") <=> (table[i] = Absent)
  /\ Start(w, o, i, CASE o = "equip"  -> "clear"
                      [] o = "create" -> "insert"
                      [] OTHER        -> "flush")

\* Mutants: the clear forgotten; its slot condition (extra_where) forgotten.
ClearNothing(w) == {}
ClearEverySlot(w) == {j \in EquippedIn(table) : j # item[w] \/ gone[w]}

(* WHERE account_id = ? AND id != keep_id AND is_equipped [AND slot = ?].   *)
(* A target deleted and created anew has another id than keep_id.           *)
ClearTargets(w) ==
  {j \in EquippedIn(table) :
     SameSlot(j, item[w]) /\ (j # item[w] \/ gone[w])}

\* Mutant: the occupants are found by a SELECT, which takes no lock.
ClearBySelect(w) ==
  /\ pc[w] = "clear"
  /\ cand' = [cand EXCEPT ![w] = ClearTargets(w)]
  /\ rival' = [rival EXCEPT ![w] = FALSE]
  /\ Goto(w, "apply")
  /\ UNCHANGED <<rowVars, op, item, seen, gone, status>>

ClearScan(w) == Scan(w, ClearTargets(w))

(* A row that is off by now keeps its value, and stays locked. *)
ClearApply(w) ==
  Apply(w, [j \in Item |-> IF j \in cand[w] THEN "off" ELSE pending[w][j]])

-----------------------------------------------------------------------------
\* Mutant: "already as asked" is judged by the row as it is now, unlocked.
NetChangeNow(w) ==
  \/ op[w] = "equip" /\ item[w] \notin EquippedIn(table)
  \/ op[w] = "unequip" /\ item[w] \in EquippedIn(table)
  \/ op[w] \in {"patch", "delete"}

(* The unit of work at db.commit(): assigning the value that was loaded is   *)
(* no change, and no statement is sent for it.                               *)
NetChange(w) ==
  \/ op[w] = "equip" /\ seen[w] # "on"
  \/ op[w] = "unequip" /\ seen[w] = "on"
  \/ op[w] \in {"patch", "delete"}

FlushNothing(w) == SkipFlush(w) /\ ~NetChange(w)

\* Mutant: a PATCH that writes every loaded attribute back, the flag included.
PatchWritesLoaded(w) ==
  CASE op[w] = "equip"   -> "on"
    [] op[w] = "unequip" -> "off"
    [] op[w] = "delete"  -> Absent
    [] op[w] = "patch"   -> seen[w]

NewCell(w) ==
  CASE op[w] = "equip"   -> "on"
    [] op[w] = "unequip" -> "off"
    [] op[w] = "delete"  -> Absent
    [] op[w] = "patch"   -> table[item[w]]    \* only level, stars: flag kept

\* Mutant: the row is written without waiting for its lock.
FlushUnlocked(w) ==
  /\ pc[w] = "flush" /\ NetChange(w) /\ ~gone[w]
  /\ StageRow(w, item[w], NewCell(w))
  /\ Goto(w, IF op[w] = "equip" THEN "index" ELSE "commit")
  /\ UNCHANGED <<table, op, item, seen, cand, gone, status, rival>>

FlushRow(w) ==
  /\ NetChange(w)
  /\ WriteTarget(w, NewCell(w), IF op[w] = "equip" THEN "index" ELSE "commit")

\* Mutant: an UPDATE that matches no row goes unnoticed.
FlushStaleIgnored(w) ==
  /\ NetChange(w) /\ op[w] # "delete" /\ gone[w]
  /\ TargetBlockers(w) = {}
  /\ SkipFlush(w)

FlushStale(w) == NetChange(w) /\ UpdateMissed(w)

\* Mutant: the flag's default is True.
InsertEquipped(w) == Insert(w, "on")

InsertRow(w) == Insert(w, "off")

-----------------------------------------------------------------------------
(* The partial unique index on the flag.  v is Indexed once its new version  *)
(* is in the index and only its commit is missing.                           *)
Indexed(v) == op[v] = "equip" /\ pc[v] = "commit" /\ pending[v][item[v]] = "on"

SlotMates(w) == {j \in Item \ {item[w]} : SameSlot(j, item[w])}

\* Mutant: the table without its partial unique index.
NoUniqueIndex(w) == {}

IndexConflicts(w) ==
  {j \in SlotMates(w) :
     table[j] = "on" /\ \A v \in Worker : pending[v][j] = None}

IndexBlockers(w) ==
  {v \in Worker \ {w} :
     \E j \in SlotMates(w) :
       \/ table[j] = "on" /\ pending[v][j] # None
       \/ Indexed(v) /\ j = item[v]}

IndexAccept(w) == Accepted(w) /\ IndexConflicts(w) = {} /\ IndexBlockers(w) = {}

(* IntegrityError: rollback, and ConflictError because it names UNIQUE. *)
IndexReject(w) ==
  /\ pc[w] = "index"
  /\ IndexConflicts(w) # {}
  /\ Fail(w, "409")

LosesRace(v, w) ==
  /\ v # w /\ pc[v] \in Contending
  /\ \E j \in SlotMates(v) : pending[w][j] = "on" /\ table[j] # "on"

Commit(w) == CommitWrites(w, {v \in Worker : LosesRace(v, w)})

-----------------------------------------------------------------------------
(* Waiting for another request's transaction. *)
Waits(w) ==
  CASE pc[w] = "clear" /\ Dialect = "sqlite" -> {v \in Worker \ {w} : writing[v]}
    [] pc[w] = "apply"  -> UNION {Blockers(w, j) : j \in cand[w]}
    [] pc[w] = "flush" /\ NetChange(w) -> TargetBlockers(w)
    [] pc[w] = "insert" -> Blockers(w, item[w])
    [] pc[w] = "index" /\ IndexConflicts(w) = {} -> IndexBlockers(w)
    [] OTHER -> {}

WaitsFor == [w \in Worker |-> Waits(w)]

DeadlockVictim(w) == AbortDeadlock(w, WaitsFor)

\* Mutant: a connection that waits for the writer lock without a timeout.
WaitForever(w) == FALSE

BusyTimeout(w) == AbortBusy(w, WaitsFor)

-----------------------------------------------------------------------------
Init ==
  /\ RowsInit({t \in [Item -> Cell] : UniquelyEquipped(t)})
  /\ RequestsInit

(* The steps of a request that has arrived. *)
Proceed(w) ==
  \/ ClearScan(w) \/ ClearApply(w)
  \/ FlushNothing(w) \/ FlushRow(w) \/ FlushDeletedTwice(w) \/ FlushStale(w)
  \/ InsertRow(w) \/ InsertRejected(w)
  \/ IndexAccept(w) \/ IndexReject(w)
  \/ Commit(w) \/ Refresh(w) \/ Return(w)
  \/ DeadlockVictim(w) \/ BusyTimeout(w)

(* A request reaches an idle handler. *)
Arrive(w) ==
  \E o \in Requests, i \in Item : Refuse(w, o, i) \/ Load(w, o, i)

Next == \E w \in Worker : Proceed(w) \/ Arrive(w)

Spec == Init /\ [][Next]_vars

(* A handler thread runs to its response: in SQLite the busy timeout is a     *)
(* step that ends every wait.  Requests need not arrive.                     *)
Fairness == \A w \in Worker : WF_vars(Proceed(w))

FairSpec == Spec /\ Fairness

-----------------------------------------------------------------------------
(* Type correctness. *)
TypeOK ==
  /\ table \in [Item -> Cell]
  /\ pending \in [Worker -> [Item -> Cell \cup {None}]]
  /\ writing \in [Worker -> BOOLEAN]
  /\ pc \in [Worker -> {"idle", "insert", "done"} \cup Holding]
  /\ op \in [Worker -> Op \cup {"none"}]
  /\ item \in [Worker -> Item \cup {None}]
  /\ seen \in [Worker -> Cell \cup {None}]
  /\ cand \in [Worker -> SUBSET Item]
  /\ gone \in [Worker -> BOOLEAN]
  /\ status \in [Worker -> {"none", "ok", "404", "409", "500"}]
  /\ rival \in [Worker -> BOOLEAN]

(* "At most one equipped per account [per slot]", in every committed state   *)
(* of the table, however the handlers interleave (user_account.py:43-53).    *)
AtMostOneEquipped == UniquelyEquipped(table)

(* An equip is answered 409 only when it lost a race: after its own clear    *)
(* looked at the slot, another request committed another item there          *)
(* (equipment_service.py:19-30).  A lone client never sees the 409.          *)
ConflictMeansLostRace ==
  \A w \in Worker :
    op[w] = "equip" /\ status[w] = "409" => rival[w]

(* With the default database the race of equipment_service.py:22-28 cannot   *)
(* happen: the clear takes the writer lock that the set still holds.         *)
SqliteNeverConflicts ==
  Dialect = "sqlite" =>
    \A w \in Worker : ~(op[w] = "equip" /\ status[w] = "409")

Occupied(tbl, s) == \E i \in EquippedIn(tbl) : SlotOf[i] = s
Commits(w) == pc[w] = "commit" /\ pc'[w] # "commit"

(* A slot in use becomes empty only when the unequip or the delete of its    *)
(* occupant commits, or the equip of an item that was equipped when it was   *)
(* loaded (the stale case).  No other equip leaves a gap behind, and none    *)
(* shows the gap between its clear and its set (architecture.md:296-299).    *)
EmptiesSlot(w, s) ==
  \/ op[w] \in {"unequip", "delete"} /\ SlotOf[item[w]] = s
  \/ op[w] = "equip" /\ seen[w] = "on" /\ SlotOf[item[w]] = s

SlotEmptiedOnRequest ==
  [][\A s \in Slot : Occupied(table, s) /\ ~Occupied(table', s)
        => \E w \in Worker : Commits(w) /\ EmptiesSlot(w, s)]_vars

(* A commit changes flags only where its request points: PATCH none at all,  *)
(* unequip and delete only turn their own item off, and an equip turns       *)
(* nothing on but its item and nothing off outside its item's slot.          *)
FlagChanges(w) ==
  LET on == EquippedIn(table') \ EquippedIn(table)
      off == EquippedIn(table) \ EquippedIn(table')
  IN /\ on # {} => op[w] = "equip" /\ on = {item[w]}
     /\ off # {} => op[w] \in {"equip", "unequip", "delete"}
     /\ op[w] = "equip" => \A i \in off : SameSlot(i, item[w])
     /\ op[w] # "equip" => off \subseteq {item[w]}

CommitStaysInSlot == [][\A w \in Worker : Commits(w) => FlagChanges(w)]_vars

(* A request that commits took effect: the row it loaded may have been       *)
(* changed, cleared or deleted by others before its own statement, but from  *)
(* that statement to the commit nobody can undo it.  Excepted is only what   *)
(* sends no statement, the flag that was loaded as the request asks          *)
(* (repositories/ownership.py:253-266), and a row somebody else deleted      *)
(* first.  No PATCH that found its row deleted gets this far.                *)
TookEffect(w) ==
  LET after == table'[item[w]]
  IN CASE op[w] = "equip"   -> seen[w] = "on" \/ after = "on"
       [] op[w] = "unequip" -> seen[w] # "on" \/ after = "off"
       [] op[w] = "patch"   -> after # Absent
       [] op[w] = "create"  -> after = "off"
       [] op[w] = "delete"  -> gone[w] \/ after = Absent

CommitTakesEffect == [][\A w \in Worker : Commits(w) => TookEffect(w)]_vars

(* "Replaces whatever else was equipped/active in the same slot"             *)
(* (api/routes/equipment.py:3-6): a successful equip in a slot that is in    *)
(* use leaves the slot in use.                                               *)
EquipReplaces ==
  [][\A w \in Worker :
        Commits(w) /\ op[w] = "equip" /\ Occupied(table, SlotOf[item[w]])
          => Occupied(table', SlotOf[item[w]])]_vars

(* Every request that arrives is answered. *)
EveryRequestAnswered ==
  \A w \in Worker : pc[w] # "idle" ~> pc[w] = "done"

(* The committed table implements Loadout: a commit, of whatever request in  *)
(* whatever interleaving, is one of its steps or none.                       *)
OwnedIn(tbl) == {i \in Item : tbl[i] # Absent}
WornIn(tbl) ==
  [s \in Slot |->
     IF Occupied(tbl, s) THEN CHOOSE i \in EquippedIn(tbl) : SlotOf[i] = s
                         ELSE None]

L == INSTANCE Loadout WITH Nothing <- None,
                           owned <- OwnedIn(table),
                           worn <- WornIn(table)
LoadoutSpec == L!Spec

-----------------------------------------------------------------------------
(* Why AtMostOneEquipped, ConflictMeansLostRace and SqliteNeverConflicts     *)
(* hold: the facts that every step keeps.                                    *)

\* The step a request is at tells which request it is.
StepsMatchOp ==
  \A w \in Worker :
    /\ pc[w] \in {"clear", "apply", "index"} => op[w] = "equip"
    /\ pc[w] = "insert" => op[w] = "create"
    /\ pc[w] \in Holding \cup {"insert"} => item[w] \in Item
    /\ status[w] # "none" => pc[w] = "done"

\* A row has one writer; SQLite has one writer.
LocksExclusive ==
  \A v, w \in Worker :
    v # w => /\ \A i \in Item : pending[v][i] = None \/ pending[w][i] = None
             /\ Dialect = "sqlite" => ~(writing[v] /\ writing[w])

WritersHoldLock ==
  \A w \in Worker :
    /\ \A i \in Item : pending[w][i] # None => writing[w]
    /\ op[w] = "equip" /\ pc[w] \in Contending => writing[w]

\* Nobody but an equip about to commit turns a flag on.
StagedOn ==
  \A w \in Worker : \A i \in Item :
    pending[w][i] = "on" =>
      \/ op[w] = "equip" /\ i = item[w] /\ pc[w] \in {"index", "commit"}
      \/ op[w] = "patch" /\ pc[w] = "commit" /\ table[i] = "on"

\* What the index accepted stays acceptable until the commit.
AcceptedStaysUnique ==
  \A w \in Worker : Indexed(w) =>
    /\ \A j \in SlotMates(w) : table[j] = "on" => pending[w][j] # None
    /\ \A v \in Worker \ {w} : Indexed(v) => ~SameSlot(item[v], item[w])

\* A contender that lost no race has found every occupant of its slot.
UnrivalledSawAll ==
  \A w \in Worker :
    op[w] = "equip" /\ pc[w] \in Contending /\ ~rival[w] =>
      \A j \in SlotMates(w) : table[j] = "on" =>
        IF pc[w] = "apply" THEN j \in cand[w] ELSE pending[w][j] # None

\* Under SQLite's writer lock nobody loses a race.
SqliteUnrivalled ==
  Dialect = "sqlite" =>
    \A w \in Worker : op[w] = "equip" /\ pc[w] \in Contending => ~rival[w]

IInv ==
  /\ TypeOK /\ StepsMatchOp /\ LocksExclusive /\ WritersHoldLock
  /\ StagedOn /\ AcceptedStaysUnique /\ UnrivalledSawAll /\ SqliteUnrivalled
  /\ AtMostOneEquipped /\ ConflictMeansLostRace /\ SqliteNeverConflicts

(* What a commit can publish, for the refinement and the action properties. *)

\* A request that still has its row finds it in the table.
RowsHeld ==
  \A w \in Worker :
    /\ pc[w] \in Holding /\ ~gone[w] /\ op[w] # "create" => table[item[w]] # Absent
    /\ \A j \in cand[w] : table[j] # Absent /\ SameSlot(j, item[w]) /\ pc[w] = "apply"

\* Each request stages only what it is about.
StagedByRequest ==
  \A w \in Worker : \A i \in Item : pending[w][i] # None =>
    /\ pc[w] \in {"flush", "index", "commit"}
    /\ op[w] = "create" <=> table[i] = Absent
    /\ \/ op[w] = "equip" /\ pending[w][i] \in {"on", "off"} /\ SameSlot(i, item[w])
       \/ op[w] \in {"unequip", "create"} /\ pending[w][i] = "off" /\ i = item[w]
       \/ op[w] = "patch" /\ pending[w][i] = table[i] /\ i = item[w]
       \/ op[w] = "delete" /\ pending[w][i] = Absent /\ i = item[w]

\* An equip whose item was not equipped when loaded commits it equipped.
EquipStages ==
  \A w \in Worker :
    op[w] = "equip" /\ pc[w] \in {"index", "commit"} /\ (pc[w] = "index" \/ seen[w] # "on")
      => pending[w][item[w]] = "on"

\* A request that is about to commit has its statement staged, unless it had
\* none to send or found its row deleted.
HasStatement(w) ==
  /\ pc[w] = "flush" => op[w] \in Op \ {"create"}
  /\ pc[w] = "commit" =>
       \/ pending[w][item[w]] # None
       \/ op[w] = "equip" /\ seen[w] = "on"
       \/ op[w] = "unequip" /\ seen[w] # "on"
       \/ op[w] = "delete" /\ gone[w]

StatementStaged == \A w \in Worker : HasStatement(w)

CommitInv == IInv /\ RowsHeld /\ StagedByRequest /\ EquipStages /\ StatementStaged
=============================================================================
