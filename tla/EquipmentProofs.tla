-------------------------- MODULE EquipmentProofs --------------------------
(***************************************************************************)
(* Proofs about EquipmentService for any set of items, slots and handlers, *)
(* either database and any mix of requests: its invariants, what a commit  *)
(* may change, and that it implements Loadout.                             *)
(***************************************************************************)
EXTENDS EquipmentService, TLAPS

(* Type correctness of the committed rows, of every session's writes and of  *)
(* every handler's local state.                                              *)
LEMMA TypeInit == Init => TypeOK /\ StepsMatchOp
  BY CellAssumption
     DEF Init, RowsInit, RequestsInit, TypeOK, StepsMatchOp, NothingPending, Cell, Holding, Op, Item

\* What each kind of request writes into its row (a PATCH: the flag found there).
LEMMA NewCellByOp ==
  ASSUME NEW w \in Worker
  PROVE  /\ op[w] = "equip" => NewCell(w) = "on"
         /\ op[w] = "unequip" => NewCell(w) = "off"
         /\ op[w] = "delete" => NewCell(w) = Absent
         /\ op[w] = "patch" => NewCell(w) = table[item[w]]
  BY DEF NewCell

\* Every step keeps the correspondence of program point and kind of request.
LEMMA StepsStep == TypeOK /\ StepsMatchOp /\ [Next]_vars => StepsMatchOp'
<1> SUFFICES ASSUME TypeOK, StepsMatchOp, [Next]_vars
             PROVE  StepsMatchOp'
  OBVIOUS
<1> USE CellAssumption DEF TypeOK, StepsMatchOp, Holding, Answer, Goto, rowVars
<1>1. ASSUME NEW w \in Worker, NEW o \in Requests, NEW i \in Item, Refuse(w, o, i)
      PROVE  StepsMatchOp'
  BY <1>1 DEF Refuse
<1>2. ASSUME NEW w \in Worker, NEW o \in Requests, NEW i \in Item, Load(w, o, i)
      PROVE  StepsMatchOp'
  BY <1>2 DEF Load, Start
<1>3. ASSUME NEW w \in Worker, ClearScan(w)
      PROVE  StepsMatchOp'
  BY <1>3 DEF ClearScan, Scan
<1>4. ASSUME NEW w \in Worker, ClearApply(w)
      PROVE  StepsMatchOp'
  BY <1>4 DEF ClearApply, Apply
<1>5. ASSUME NEW w \in Worker, FlushNothing(w)
      PROVE  StepsMatchOp'
  BY <1>5 DEF FlushNothing, SkipFlush
<1>6. ASSUME NEW w \in Worker, FlushRow(w)
      PROVE  StepsMatchOp'
  BY <1>6 DEF FlushRow, WriteTarget, NetChange
<1>7. ASSUME NEW w \in Worker, FlushDeletedTwice(w)
      PROVE  StepsMatchOp'
  BY <1>7 DEF FlushDeletedTwice
<1>8. ASSUME NEW w \in Worker, NEW code \in {"409", "500"}, Fail(w, code)
      PROVE  StepsMatchOp'
  BY <1>8 DEF Fail
<1>9. ASSUME NEW w \in Worker, InsertRow(w)
      PROVE  StepsMatchOp'
  BY <1>9 DEF InsertRow, Insert
<1>10. ASSUME NEW w \in Worker, IndexAccept(w)
       PROVE  StepsMatchOp'
  BY <1>10 DEF IndexAccept, Accepted
<1>11. ASSUME NEW w \in Worker, Commit(w)
       PROVE  StepsMatchOp'
  BY <1>11 DEF Commit, CommitWrites
<1>12. ASSUME NEW w \in Worker, Refresh(w)
       PROVE  StepsMatchOp'
  BY <1>12 DEF Refresh
<1>13. ASSUME NEW w \in Worker, Return(w)
       PROVE  StepsMatchOp'
  BY <1>13 DEF Return
<1>14. CASE UNCHANGED vars
  BY <1>14 DEF vars, rowVars, reqVars
<1>15. QED
  BY <1>1, <1>2, <1>3, <1>4, <1>5, <1>6, <1>7, <1>8, <1>9, <1>10, <1>11, <1>12,
     <1>13, <1>14
     DEF Next, Proceed, Arrive, FlushStale, UpdateMissed, InsertRejected, IndexReject, DeadlockVictim, AbortDeadlock,
         BusyTimeout, AbortBusy


\* Every step keeps the types.
LEMMA TypeStep == TypeOK /\ StepsMatchOp /\ [Next]_vars => TypeOK'
<1> SUFFICES ASSUME TypeOK, StepsMatchOp, [Next]_vars
             PROVE  TypeOK'
  OBVIOUS
<1> USE CellAssumption, RequestAssumption DEF TypeOK, Holding, Cell, Op, Item
<1>1. ASSUME NEW w \in Worker, NEW o \in Requests, NEW i \in Item, Refuse(w, o, i)
      PROVE  TypeOK'
  BY <1>1 DEF Refuse, Answer, Goto, rowVars
<1>2. ASSUME NEW w \in Worker, NEW o \in Requests, NEW i \in Item, Load(w, o, i)
      PROVE  TypeOK'
  BY <1>2 DEF Load, Start, Goto, rowVars
<1>3. ASSUME NEW w \in Worker, ClearScan(w)
      PROVE  TypeOK'
  BY <1>3 DEF ClearScan, Scan, ClearTargets, EquippedIn, Stage, Goto
<1>4. ASSUME NEW w \in Worker, ClearApply(w)
      PROVE  TypeOK'
  BY <1>4 DEF ClearApply, Apply, Stage, Goto
<1>5. ASSUME NEW w \in Worker, FlushNothing(w)
      PROVE  TypeOK'
  BY <1>5 DEF FlushNothing, SkipFlush, Goto, rowVars
<1>6. ASSUME NEW w \in Worker, FlushRow(w)
      PROVE  TypeOK'
  <2>1. item[w] \in Item /\ pc[w] = "flush"
    BY <1>6 DEF FlushRow, WriteTarget, StepsMatchOp
  <2>2. NewCell(w) \in Cell
    BY <1>6, <2>1, NewCellByOp DEF FlushRow, WriteTarget, NetChange
  <2>3. QED
    BY <1>6, <2>1, <2>2 DEF FlushRow, WriteTarget, StageRow, Stage, Goto
<1>7. ASSUME NEW w \in Worker, FlushDeletedTwice(w)
      PROVE  TypeOK'
  BY <1>7 DEF FlushDeletedTwice, Stage, Goto
<1>8. ASSUME NEW w \in Worker, NEW code \in {"409", "500"}, Fail(w, code)
      PROVE  TypeOK'
  BY <1>8 DEF Fail, DropWrites, EndTransaction, NothingPending, Answer, Goto
<1>9. ASSUME NEW w \in Worker, InsertRow(w)
      PROVE  TypeOK'
  BY <1>9 DEF InsertRow, Insert, StageRow, Stage, Goto
<1>10. ASSUME NEW w \in Worker, IndexAccept(w)
       PROVE  TypeOK'
  BY <1>10 DEF IndexAccept, Accepted, Goto, rowVars
<1>11. ASSUME NEW w \in Worker, Commit(w)
       PROVE  TypeOK'
  <2>1. table' \in [Item -> Cell]
    BY <1>11 DEF Commit, CommitWrites, PublishWrites, TableAfter
  <2>2. /\ pending' \in [Worker -> [Item -> Cell \cup {None}]]
        /\ writing' \in [Worker -> BOOLEAN]
    BY <1>11 DEF Commit, CommitWrites, PublishWrites, EndTransaction, NothingPending
  <2>3. cand' \in [Worker -> SUBSET Item]
    BY <1>11 DEF Commit, CommitWrites
  <2>4. gone' \in [Worker -> BOOLEAN] /\ rival' \in [Worker -> BOOLEAN]
    BY <1>11, Zenon DEF Commit, CommitWrites, LosesRow, LosesRace
  <2>5. QED
    BY <1>11, <2>1, <2>2, <2>3, <2>4 DEF Commit, CommitWrites, Answer, Goto
<1>12. ASSUME NEW w \in Worker, Refresh(w)
       PROVE  TypeOK'
  BY <1>12 DEF Refresh, Answer, Goto, rowVars
<1>13. ASSUME NEW w \in Worker, Return(w)
       PROVE  TypeOK'
  BY <1>13 DEF Return, Goto, rowVars
<1>14. CASE UNCHANGED vars
  BY <1>14 DEF vars, rowVars, reqVars
<1>15. QED
  BY <1>1, <1>2, <1>3, <1>4, <1>5, <1>6, <1>7, <1>8, <1>9, <1>10, <1>11, <1>12,
     <1>13, <1>14
     DEF Next, Proceed, Arrive, FlushStale, UpdateMissed, InsertRejected, IndexReject, DeadlockVictim, AbortDeadlock,
         BusyTimeout, AbortBusy


(* Every variable keeps its type, whatever the requests and their order.     *)
THEOREM TypeCorrect == Spec => []TypeOK
  BY TypeInit, TypeStep, StepsStep, PTL DEF Spec

-----------------------------------------------------------------------------
(* One writer per row, and one writer at all in SQLite.                      *)
LEMMA LocksStep ==
  TypeOK /\ StepsMatchOp /\ LocksExclusive /\ WritersHoldLock /\ [Next]_vars
    => LocksExclusive' /\ WritersHoldLock'
<1> SUFFICES ASSUME TypeOK, StepsMatchOp, LocksExclusive, WritersHoldLock, [Next]_vars
             PROVE  LocksExclusive' /\ WritersHoldLock'
  OBVIOUS
<1> USE CellAssumption, DialectAssumption
    DEF TypeOK, StepsMatchOp, LocksExclusive, WritersHoldLock, Item, Contending, Holding
<1>1. ASSUME NEW w \in Worker, NEW o \in Requests, NEW i \in Item, Refuse(w, o, i)
      PROVE  LocksExclusive' /\ WritersHoldLock'
  BY <1>1 DEF Refuse, Answer, Goto, rowVars
<1>2. ASSUME NEW w \in Worker, NEW o \in Requests, NEW i \in Item, Load(w, o, i)
      PROVE  LocksExclusive' /\ WritersHoldLock'
  BY <1>2 DEF Load, Start, Goto, rowVars
<1>3. ASSUME NEW w \in Worker, ClearScan(w)
      PROVE  LocksExclusive' /\ WritersHoldLock'
  BY <1>3 DEF ClearScan, Scan, ClearTargets, EquippedIn, Stage, Goto, WriterLockFree
<1>4. ASSUME NEW w \in Worker, ClearApply(w)
      PROVE  LocksExclusive' /\ WritersHoldLock'
  BY <1>4 DEF ClearApply, Apply, Stage, Goto, Blockers
<1>5. ASSUME NEW w \in Worker, FlushNothing(w)
      PROVE  LocksExclusive' /\ WritersHoldLock'
  BY <1>5 DEF FlushNothing, SkipFlush, Goto, rowVars
<1>6. ASSUME NEW w \in Worker, FlushRow(w)
      PROVE  LocksExclusive' /\ WritersHoldLock'
  BY <1>6 DEF FlushRow, WriteTarget, NetChange, StageRow, Stage, Goto, TargetBlockers, Blockers
<1>7. ASSUME NEW w \in Worker, FlushDeletedTwice(w)
      PROVE  LocksExclusive' /\ WritersHoldLock'
  BY <1>7 DEF FlushDeletedTwice, Stage, Goto, TargetBlockers, Blockers
<1>8. ASSUME NEW w \in Worker, NEW code \in {"409", "500"}, Fail(w, code)
      PROVE  LocksExclusive' /\ WritersHoldLock'
  BY <1>8 DEF Fail, DropWrites, EndTransaction, NothingPending, Answer, Goto
<1>9. ASSUME NEW w \in Worker, InsertRow(w)
      PROVE  LocksExclusive' /\ WritersHoldLock'
  BY <1>9 DEF InsertRow, Insert, StageRow, Stage, Goto, Blockers
<1>10. ASSUME NEW w \in Worker, IndexAccept(w)
       PROVE  LocksExclusive' /\ WritersHoldLock'
  BY <1>10 DEF IndexAccept, Accepted, Goto, rowVars
<1>11. ASSUME NEW w \in Worker, Commit(w)
       PROVE  LocksExclusive' /\ WritersHoldLock'
  BY <1>11 DEF Commit, CommitWrites, PublishWrites, TableAfter, DeletedBy, EndTransaction, NothingPending, Answer, Goto
<1>12. ASSUME NEW w \in Worker, Refresh(w)
       PROVE  LocksExclusive' /\ WritersHoldLock'
  BY <1>12 DEF Refresh, Answer, Goto, rowVars
<1>13. ASSUME NEW w \in Worker, Return(w)
       PROVE  LocksExclusive' /\ WritersHoldLock'
  BY <1>13 DEF Return, Goto, rowVars
<1>14. CASE UNCHANGED vars
  BY <1>14 DEF vars, rowVars, reqVars
<1>15. QED
  BY <1>1, <1>2, <1>3, <1>4, <1>5, <1>6, <1>7, <1>8, <1>9, <1>10, <1>11, <1>12,
     <1>13, <1>14
     DEF Next, Proceed, Arrive, FlushStale, UpdateMissed, InsertRejected, IndexReject, DeadlockVictim, AbortDeadlock,
         BusyTimeout, AbortBusy


(* Only an accepted equip is about to turn a flag on. *)
LEMMA StagedStep ==
  TypeOK /\ StepsMatchOp /\ LocksExclusive /\ StagedOn /\ [Next]_vars => StagedOn'
<1> SUFFICES ASSUME TypeOK, StepsMatchOp, LocksExclusive, StagedOn, [Next]_vars
             PROVE  StagedOn'
  OBVIOUS
<1> USE CellAssumption DEF TypeOK, StepsMatchOp, LocksExclusive, StagedOn, Item, Holding
<1>1. ASSUME NEW w \in Worker, NEW o \in Requests, NEW i \in Item, Refuse(w, o, i)
      PROVE  StagedOn'
  <2>1. /\ pc[w] = "idle" /\ pc' = [pc EXCEPT ![w] = "done"]
        /\ op' = [op EXCEPT ![w] = o] /\ item' = [item EXCEPT ![w] = None]
        /\ UNCHANGED <<table, pending>>
    BY <1>1 DEF Refuse, Answer, Goto, rowVars
  <2>2. \A j \in Item : pending[w][j] # "on"
    BY <2>1
  <2>3. QED
    BY <2>1, <2>2
<1>2. ASSUME NEW w \in Worker, NEW o \in Requests, NEW i \in Item, Load(w, o, i)
      PROVE  StagedOn'
  BY <1>2 DEF Load, Start, Goto, rowVars
<1>3. ASSUME NEW w \in Worker, ClearScan(w)
      PROVE  StagedOn'
  BY <1>3 DEF ClearScan, Scan, ClearTargets, EquippedIn, Stage, Goto
<1>4. ASSUME NEW w \in Worker, ClearApply(w)
      PROVE  StagedOn'
  BY <1>4 DEF ClearApply, Apply, Stage, Goto
<1>5. ASSUME NEW w \in Worker, FlushNothing(w)
      PROVE  StagedOn'
  BY <1>5 DEF FlushNothing, SkipFlush, Goto, rowVars
<1>6. ASSUME NEW w \in Worker, FlushRow(w)
      PROVE  StagedOn'
  BY <1>6, NewCellByOp DEF FlushRow, WriteTarget, NetChange, StageRow, Stage, Goto
<1>7. ASSUME NEW w \in Worker, FlushDeletedTwice(w)
      PROVE  StagedOn'
  BY <1>7 DEF FlushDeletedTwice, Stage, Goto
<1>8. ASSUME NEW w \in Worker, NEW code \in {"409", "500"}, Fail(w, code)
      PROVE  StagedOn'
  BY <1>8 DEF Fail, DropWrites, EndTransaction, NothingPending, Answer, Goto
<1>9. ASSUME NEW w \in Worker, InsertRow(w)
      PROVE  StagedOn'
  BY <1>9 DEF InsertRow, Insert, StageRow, Stage, Goto
<1>10. ASSUME NEW w \in Worker, IndexAccept(w)
       PROVE  StagedOn'
  BY <1>10 DEF IndexAccept, Accepted, Goto, rowVars
<1>11. ASSUME NEW w \in Worker, Commit(w)
       PROVE  StagedOn'
  BY <1>11 DEF Commit, CommitWrites, PublishWrites, TableAfter, DeletedBy, EndTransaction, NothingPending, Answer, Goto
<1>12. ASSUME NEW w \in Worker, Refresh(w)
       PROVE  StagedOn'
  BY <1>12 DEF Refresh, Answer, Goto, rowVars
<1>13. ASSUME NEW w \in Worker, Return(w)
       PROVE  StagedOn'
  BY <1>13 DEF Return, Goto, rowVars
<1>14. CASE UNCHANGED vars
  BY <1>14 DEF vars, rowVars, reqVars
<1>15. QED
  BY <1>1, <1>2, <1>3, <1>4, <1>5, <1>6, <1>7, <1>8, <1>9, <1>10, <1>11, <1>12,
     <1>13, <1>14
     DEF Next, Proceed, Arrive, FlushStale, UpdateMissed, InsertRejected, IndexReject, DeadlockVictim, AbortDeadlock,
         BusyTimeout, AbortBusy


-----------------------------------------------------------------------------
(* At most one item of a slot is equipped.                                   *)
LEMMA OnlyCommitPublishes ==
  [Next]_vars => (\E w \in Worker : Commit(w)) \/ UNCHANGED table
  BY DEF Next, vars, rowVars, Proceed, Arrive, Refuse, Load, Start, ClearScan, Scan, ClearApply, Apply, FlushNothing, SkipFlush,
         FlushRow, WriteTarget, FlushDeletedTwice, FlushStale, UpdateMissed, InsertRow, Insert, InsertRejected,
         IndexAccept, Accepted, IndexReject, Refresh, Return, DeadlockVictim, AbortDeadlock, BusyTimeout, AbortBusy,
         Fail, DropWrites

(* A commit turns at most one flag on, the one its request equipped. *)
LEMMA CommitTurnsOn ==
  ASSUME TypeOK, StagedOn, NEW w \in Worker, Commit(w),
         NEW i \in Item, table'[i] = "on", table[i] # "on"
  PROVE  Indexed(w) /\ i = item[w]
  BY DEF TypeOK, StagedOn, Commit, CommitWrites, PublishWrites, TableAfter, Indexed, Item

\* Two equipped rows of one slot would need a commit the index had not accepted.
LEMMA AtMostOneStep ==
  TypeOK /\ StagedOn /\ AcceptedStaysUnique /\ AtMostOneEquipped /\ [Next]_vars
    => AtMostOneEquipped'
<1> SUFFICES ASSUME TypeOK, StagedOn, AcceptedStaysUnique, AtMostOneEquipped, [Next]_vars,
                    NEW i \in Item, NEW j \in Item,
                    table'[i] = "on", table'[j] = "on", SameSlot(i, j), i # j
             PROVE  FALSE
  BY DEF AtMostOneEquipped, UniquelyEquipped, EquippedIn
<1>1. ~(table[i] = "on" /\ table[j] = "on")
  BY DEF AtMostOneEquipped, UniquelyEquipped, EquippedIn
<1>2. PICK w \in Worker : Commit(w)
  BY <1>1, OnlyCommitPublishes
<1>3. ASSUME NEW k \in Item, NEW l \in Item, k # l, SameSlot(k, l),
             table[k] # "on", table'[k] = "on", table'[l] = "on"
      PROVE  FALSE
  <2>1. Indexed(w) /\ k = item[w]
    BY <1>2, <1>3, CommitTurnsOn
  <2>2. l \in SlotMates(w)
    BY <1>3, <2>1 DEF SlotMates, SameSlot
  <2>3. table[l] = "on"
    BY <1>2, <1>3, <2>1, CommitTurnsOn
  <2>4. pending[w][l] # None /\ pending[w][l] # "on"
    BY <2>1, <2>2, <2>3, <1>3 DEF AcceptedStaysUnique, StagedOn, Indexed
  <2>5. QED
    BY <1>2, <1>3, <2>4 DEF Commit, CommitWrites, PublishWrites, TableAfter, Item
<1>4. QED
  BY <1>1, <1>3 DEF SameSlot

\* What the index accepted stays acceptable: a rival commit would have had to be
\* accepted against this one, and every occupant of the slot is locked.
LEMMA AcceptedStep ==
  TypeOK /\ StepsMatchOp /\ LocksExclusive /\ StagedOn /\ AcceptedStaysUnique /\ [Next]_vars
    => AcceptedStaysUnique'
<1> SUFFICES ASSUME TypeOK, StepsMatchOp, LocksExclusive, StagedOn, AcceptedStaysUnique,
                    [Next]_vars
             PROVE  AcceptedStaysUnique'
  OBVIOUS
<1> USE CellAssumption DEF TypeOK, StepsMatchOp, AcceptedStaysUnique, Indexed, SlotMates, SameSlot, Item, Holding
<1>1. ASSUME NEW w \in Worker, NEW o \in Requests, NEW i \in Item, Refuse(w, o, i)
      PROVE  AcceptedStaysUnique'
  BY <1>1 DEF Refuse, Answer, Goto, rowVars
<1>2. ASSUME NEW w \in Worker, NEW o \in Requests, NEW i \in Item, Load(w, o, i)
      PROVE  AcceptedStaysUnique'
  BY <1>2 DEF Load, Start, Goto, rowVars
<1>3. ASSUME NEW w \in Worker, ClearScan(w)
      PROVE  AcceptedStaysUnique'
  BY <1>3 DEF ClearScan, Scan, ClearTargets, EquippedIn, Stage, Goto
<1>4. ASSUME NEW w \in Worker, ClearApply(w)
      PROVE  AcceptedStaysUnique'
  BY <1>4 DEF ClearApply, Apply, Stage, Goto
<1>5. ASSUME NEW w \in Worker, FlushNothing(w)
      PROVE  AcceptedStaysUnique'
  <2>1. pending[w][item[w]] # "on"
    BY <1>5 DEF FlushNothing, SkipFlush, StagedOn
  <2>2. \A v \in Worker : Indexed(v)' => Indexed(v)
    BY <1>5, <2>1 DEF FlushNothing, SkipFlush, Goto, rowVars
  <2>3. QED
    BY <1>5, <2>2 DEF FlushNothing, SkipFlush, Goto, rowVars
<1>6. ASSUME NEW w \in Worker, FlushRow(w)
      PROVE  AcceptedStaysUnique'
  BY <1>6, NewCellByOp DEF FlushRow, WriteTarget, NetChange, StageRow, Stage, Goto
<1>7. ASSUME NEW w \in Worker, FlushDeletedTwice(w)
      PROVE  AcceptedStaysUnique'
  BY <1>7 DEF FlushDeletedTwice, Stage, Goto
<1>8. ASSUME NEW w \in Worker, NEW code \in {"409", "500"}, Fail(w, code)
      PROVE  AcceptedStaysUnique'
  BY <1>8 DEF Fail, DropWrites, EndTransaction, NothingPending, Answer, Goto
<1>9. ASSUME NEW w \in Worker, InsertRow(w)
      PROVE  AcceptedStaysUnique'
  BY <1>9 DEF InsertRow, Insert, StageRow, Stage, Goto
<1>10. ASSUME NEW w \in Worker, IndexAccept(w)
       PROVE  AcceptedStaysUnique'
  <2>1. pc[w] = "index" /\ op[w] = "equip" /\ item[w] \in Item
    BY <1>10 DEF IndexAccept, Accepted
  <2>2. UNCHANGED <<table, pending, op, item>> /\ pc' = [pc EXCEPT ![w] = "commit"]
    BY <1>10 DEF IndexAccept, Accepted, Goto, rowVars
  <2>3. \A j \in SlotMates(w) : table[j] = "on" => pending[w][j] # None
    BY <1>10 DEF IndexAccept, Accepted, IndexConflicts, IndexBlockers
  <2>4. ASSUME NEW v \in Worker \ {w}, Indexed(v), SameSlot(item[v], item[w]),
               pending[w][item[w]] = "on"
        PROVE  FALSE
    <3>1. item[v] # item[w]
      BY <2>1, <2>4 DEF LocksExclusive
    <3>2. item[v] \in SlotMates(w)
      BY <2>4, <3>1
    <3>3. v \in IndexBlockers(w)
      BY <2>4, <3>2 DEF IndexBlockers
    <3>4. QED
      BY <1>10, <3>3 DEF IndexAccept, Accepted
  <2>5. \A v \in Worker \ {w} : Indexed(v)' <=> Indexed(v)
    BY <2>2
  <2>6. QED
    BY <2>1, <2>2, <2>3, <2>4, <2>5
<1>11. ASSUME NEW w \in Worker, Commit(w)
       PROVE  AcceptedStaysUnique'
  <2>1. ASSUME NEW v \in Worker, Indexed(v)'
        PROVE  v # w /\ Indexed(v) /\ item'[v] = item[v] /\ pending'[v] = pending[v]
    BY <1>11, <2>1 DEF Commit, CommitWrites, PublishWrites, EndTransaction, Answer, Goto
  <2>2. ASSUME NEW v \in Worker, Indexed(v)', NEW j \in SlotMates(v), table'[j] = "on"
        PROVE  pending[v][j] # None
    <3>1. CASE table[j] = "on"
      BY <2>1, <2>2, <3>1
    <3>2. CASE table[j] # "on"
      <4>1. Indexed(w) /\ j = item[w]
        BY <1>11, <2>2, <3>2, CommitTurnsOn
      <4>2. QED
        BY <2>1, <2>2, <4>1
    <3>3. QED
      BY <3>1, <3>2
  <2>3. QED
    BY <2>1, <2>2
<1>12. ASSUME NEW w \in Worker, Refresh(w)
       PROVE  AcceptedStaysUnique'
  BY <1>12 DEF Refresh, Answer, Goto, rowVars
<1>13. ASSUME NEW w \in Worker, Return(w)
       PROVE  AcceptedStaysUnique'
  BY <1>13 DEF Return, Goto, rowVars
<1>14. CASE UNCHANGED vars
  BY <1>14 DEF vars, rowVars, reqVars
<1>15. QED
  BY <1>1, <1>2, <1>3, <1>4, <1>5, <1>6, <1>7, <1>8, <1>9, <1>10, <1>11, <1>12,
     <1>13, <1>14
     DEF Next, Proceed, Arrive, FlushStale, UpdateMissed, InsertRejected, IndexReject, DeadlockVictim, AbortDeadlock,
         BusyTimeout, AbortBusy


-----------------------------------------------------------------------------
(* Conflicts.                                                                *)
\* A clear finds every occupant of the slot; one that appears later marks the
\* contender as having lost a race.
LEMMA SawAllStep ==
  TypeOK /\ StepsMatchOp /\ UnrivalledSawAll /\ [Next]_vars => UnrivalledSawAll'
<1> SUFFICES ASSUME TypeOK, StepsMatchOp, UnrivalledSawAll, [Next]_vars
             PROVE  UnrivalledSawAll'
  OBVIOUS
<1> USE CellAssumption
    DEF TypeOK, StepsMatchOp, UnrivalledSawAll, Contending, SlotMates, SameSlot, Item, Holding
<1>1. ASSUME NEW w \in Worker, NEW o \in Requests, NEW i \in Item, Refuse(w, o, i)
      PROVE  UnrivalledSawAll'
  BY <1>1 DEF Refuse, Answer, Goto, rowVars
<1>2. ASSUME NEW w \in Worker, NEW o \in Requests, NEW i \in Item, Load(w, o, i)
      PROVE  UnrivalledSawAll'
  BY <1>2 DEF Load, Start, Goto, rowVars
<1>3. ASSUME NEW w \in Worker, ClearScan(w)
      PROVE  UnrivalledSawAll'
  BY <1>3 DEF ClearScan, Scan, ClearTargets, EquippedIn, Stage, Goto
<1>4. ASSUME NEW w \in Worker, ClearApply(w)
      PROVE  UnrivalledSawAll'
  BY <1>4 DEF ClearApply, Apply, Stage, Goto
<1>5. ASSUME NEW w \in Worker, FlushNothing(w)
      PROVE  UnrivalledSawAll'
  BY <1>5 DEF FlushNothing, SkipFlush, Goto, rowVars
<1>6. ASSUME NEW w \in Worker, FlushRow(w)
      PROVE  UnrivalledSawAll'
  BY <1>6, NewCellByOp DEF FlushRow, WriteTarget, NetChange, StageRow, Stage, Goto
<1>7. ASSUME NEW w \in Worker, FlushDeletedTwice(w)
      PROVE  UnrivalledSawAll'
  BY <1>7 DEF FlushDeletedTwice, Stage, Goto
<1>8. ASSUME NEW w \in Worker, NEW code \in {"409", "500"}, Fail(w, code)
      PROVE  UnrivalledSawAll'
  BY <1>8 DEF Fail, DropWrites, EndTransaction, NothingPending, Answer, Goto
<1>9. ASSUME NEW w \in Worker, InsertRow(w)
      PROVE  UnrivalledSawAll'
  BY <1>9 DEF InsertRow, Insert, StageRow, Stage, Goto
<1>10. ASSUME NEW w \in Worker, IndexAccept(w)
       PROVE  UnrivalledSawAll'
  BY <1>10 DEF IndexAccept, Accepted, Goto, rowVars
<1>11. ASSUME NEW w \in Worker, Commit(w)
       PROVE  UnrivalledSawAll'
  <2>1. ASSUME NEW v \in Worker, op'[v] = "equip", pc'[v] \in Contending, ~rival'[v]
        PROVE  /\ v # w /\ op[v] = "equip" /\ pc'[v] = pc[v] /\ ~rival[v] /\ ~LosesRace(v, w)
               /\ item'[v] = item[v] /\ pending'[v] = pending[v]
               /\ cand'[v] = cand[v] \ DeletedBy(w)
    <3>1. ~rival[v] /\ ~LosesRace(v, w)
      BY <1>11, <2>1, Zenon DEF Commit, CommitWrites
    <3>2. QED
      BY <1>11, <2>1, <3>1 DEF Commit, CommitWrites, PublishWrites, EndTransaction, Answer, Goto
  <2>2. ASSUME NEW v \in Worker, op'[v] = "equip", pc'[v] \in Contending, ~rival'[v],
               NEW j \in SlotMates(v), table'[j] = "on"
        PROVE  IF pc[v] = "apply" THEN j \in cand'[v] ELSE pending'[v][j] # None
    <3>1. table[j] = "on"
      BY <1>11, <2>1, <2>2
         DEF LosesRace, Commit, CommitWrites, PublishWrites, TableAfter
    <3>2. j \notin DeletedBy(w)
      BY <1>11, <2>2 DEF Commit, CommitWrites, PublishWrites, TableAfter, DeletedBy
    <3>3. QED
      BY <2>1, <2>2, <3>1, <3>2
  <2>3. QED
    BY <2>1, <2>2
<1>12. ASSUME NEW w \in Worker, Refresh(w)
       PROVE  UnrivalledSawAll'
  BY <1>12 DEF Refresh, Answer, Goto, rowVars
<1>13. ASSUME NEW w \in Worker, Return(w)
       PROVE  UnrivalledSawAll'
  BY <1>13 DEF Return, Goto, rowVars
<1>14. CASE UNCHANGED vars
  BY <1>14 DEF vars, rowVars, reqVars
<1>15. QED
  BY <1>1, <1>2, <1>3, <1>4, <1>5, <1>6, <1>7, <1>8, <1>9, <1>10, <1>11, <1>12,
     <1>13, <1>14
     DEF Next, Proceed, Arrive, FlushStale, UpdateMissed, InsertRejected, IndexReject, DeadlockVictim, AbortDeadlock,
         BusyTimeout, AbortBusy


\* Between clear and set the contender holds SQLite's writer lock: nobody else
\* commits an equip meanwhile.
LEMMA SqliteUnrivalledStep ==
  TypeOK /\ StepsMatchOp /\ LocksExclusive /\ WritersHoldLock /\ SqliteUnrivalled /\ [Next]_vars
    => SqliteUnrivalled'
<1> SUFFICES ASSUME TypeOK, StepsMatchOp, LocksExclusive, WritersHoldLock, SqliteUnrivalled,
                    Dialect = "sqlite", [Next]_vars
             PROVE  SqliteUnrivalled'
  BY DEF SqliteUnrivalled
<1> USE CellAssumption
    DEF TypeOK, StepsMatchOp, SqliteUnrivalled, Contending, Item, Holding
<1>1. ASSUME NEW w \in Worker, NEW o \in Requests, NEW i \in Item, Refuse(w, o, i)
      PROVE  SqliteUnrivalled'
  BY <1>1 DEF Refuse, Answer, Goto, rowVars
<1>2. ASSUME NEW w \in Worker, NEW o \in Requests, NEW i \in Item, Load(w, o, i)
      PROVE  SqliteUnrivalled'
  BY <1>2 DEF Load, Start, Goto, rowVars
<1>3. ASSUME NEW w \in Worker, ClearScan(w)
      PROVE  SqliteUnrivalled'
  BY <1>3 DEF ClearScan, Scan, ClearTargets, EquippedIn, Stage, Goto
<1>4. ASSUME NEW w \in Worker, ClearApply(w)
      PROVE  SqliteUnrivalled'
  BY <1>4 DEF ClearApply, Apply, Stage, Goto
<1>5. ASSUME NEW w \in Worker, FlushNothing(w)
      PROVE  SqliteUnrivalled'
  BY <1>5 DEF FlushNothing, SkipFlush, Goto, rowVars
<1>6. ASSUME NEW w \in Worker, FlushRow(w)
      PROVE  SqliteUnrivalled'
  BY <1>6 DEF FlushRow, WriteTarget, NetChange, StageRow, Stage, Goto
<1>7. ASSUME NEW w \in Worker, FlushDeletedTwice(w)
      PROVE  SqliteUnrivalled'
  BY <1>7 DEF FlushDeletedTwice, Stage, Goto
<1>8. ASSUME NEW w \in Worker, NEW code \in {"409", "500"}, Fail(w, code)
      PROVE  SqliteUnrivalled'
  BY <1>8 DEF Fail, DropWrites, EndTransaction, NothingPending, Answer, Goto
<1>9. ASSUME NEW w \in Worker, InsertRow(w)
      PROVE  SqliteUnrivalled'
  BY <1>9 DEF InsertRow, Insert, StageRow, Stage, Goto
<1>10. ASSUME NEW w \in Worker, IndexAccept(w)
       PROVE  SqliteUnrivalled'
  BY <1>10 DEF IndexAccept, Accepted, Goto, rowVars
<1>11. ASSUME NEW w \in Worker, Commit(w)
       PROVE  SqliteUnrivalled'
  <2>1. ASSUME NEW v \in Worker, op[v] = "equip", LosesRace(v, w)
        PROVE  FALSE
    BY <2>1 DEF LosesRace, LocksExclusive, WritersHoldLock, SlotMates
  <2>2. QED
    BY <1>11, <2>1 DEF Commit, CommitWrites, Answer, Goto
<1>12. ASSUME NEW w \in Worker, Refresh(w)
       PROVE  SqliteUnrivalled'
  BY <1>12 DEF Refresh, Answer, Goto, rowVars
<1>13. ASSUME NEW w \in Worker, Return(w)
       PROVE  SqliteUnrivalled'
  BY <1>13 DEF Return, Goto, rowVars
<1>14. CASE UNCHANGED vars
  BY <1>14 DEF vars, rowVars, reqVars
<1>15. QED
  BY <1>1, <1>2, <1>3, <1>4, <1>5, <1>6, <1>7, <1>8, <1>9, <1>10, <1>11, <1>12,
     <1>13, <1>14
     DEF Next, Proceed, Arrive, FlushStale, UpdateMissed, InsertRejected, IndexReject, DeadlockVictim, AbortDeadlock,
         BusyTimeout, AbortBusy


(* The 409 of an equip is the index's, and the index found an occupant that  *)
(* the clear had not.                                                        *)
LEMMA RejectedLostRace ==
  ASSUME TypeOK, StepsMatchOp, UnrivalledSawAll, NEW w \in Worker, IndexReject(w)
  PROVE  rival[w]
<1>1. PICK j \in SlotMates(w) : table[j] = "on" /\ pending[w][j] = None
  BY DEF IndexReject, IndexConflicts
<1>2. op[w] = "equip" /\ pc[w] = "index"
  BY DEF IndexReject, StepsMatchOp
<1>3. QED
  BY <1>1, <1>2 DEF UnrivalledSawAll, Contending, TypeOK

\* An equip's 409 comes from the index alone, or stood before.
LEMMA NewConflict ==
  ASSUME TypeOK, StepsMatchOp, [Next]_vars, NEW w \in Worker,
         op'[w] = "equip", status'[w] = "409"
  PROVE  \/ op[w] = "equip" /\ status[w] = "409" /\ rival'[w] = rival[w]
         \/ IndexReject(w) /\ rival'[w] = rival[w]
<1> USE DEF TypeOK, StepsMatchOp, Answer, Goto, Fail, Item, Holding, Op
<1>1. ASSUME NEW v \in Worker, Proceed(v)
      PROVE  \/ op[w] = "equip" /\ status[w] = "409" /\ rival'[w] = rival[w]
             \/ IndexReject(w) /\ rival'[w] = rival[w]
  <2>1. CASE IndexReject(v)
    BY <2>1 DEF IndexReject
  <2>2. CASE Commit(v)
    <3>1. op[w] = "equip" /\ status[w] = "409" /\ pc[w] = "done"
      BY <2>2 DEF Commit, CommitWrites
    <3>2. ~LosesRace(w, v)
      BY <3>1 DEF LosesRace, Contending
    <3>3. rival'[w] = rival[w]
      BY <2>2, <3>2, Zenon DEF Commit, CommitWrites
    <3>4. QED
      BY <3>1, <3>3
  <2>3. CASE ClearScan(v)
    BY <2>3 DEF ClearScan, Scan
  <2>4. QED
    BY <1>1, <2>1, <2>2, <2>3
       DEF Proceed, ClearApply, Apply, FlushNothing, SkipFlush, FlushRow, WriteTarget, FlushDeletedTwice, FlushStale, UpdateMissed,
           InsertRow, Insert, InsertRejected, IndexAccept, Accepted, Refresh, Return, DeadlockVictim, AbortDeadlock, BusyTimeout, AbortBusy
<1>2. ASSUME NEW v \in Worker, NEW o \in Requests, NEW i \in Item,
             Refuse(v, o, i) \/ Load(v, o, i)
      PROVE  op[w] = "equip" /\ status[w] = "409" /\ rival'[w] = rival[w]
  <2>1. CASE w = v
    <3>1. o = "equip" /\ status'[w] = "409"
      BY <1>2, <2>1, RequestAssumption DEF Refuse, Load, Start
    <3>2. status[w] = "none"
      BY <1>2, <2>1 DEF Refuse, Load, Start
    <3>3. QED
      BY <1>2, <2>1, <3>1, <3>2 DEF Refuse, Load, Start
  <2>2. CASE w # v
    BY <1>2, <2>2, RequestAssumption DEF Refuse, Load, Start
  <2>3. QED
    BY <2>1, <2>2
<1>3. CASE UNCHANGED vars
  BY <1>3 DEF vars, reqVars
<1>4. QED
  BY <1>1, <1>2, <1>3 DEF Next, Arrive

\* So a 409 always goes with a lost race, and SQLite has neither.
LEMMA ConflictStep ==
  TypeOK /\ StepsMatchOp /\ UnrivalledSawAll /\ SqliteUnrivalled
  /\ ConflictMeansLostRace /\ SqliteNeverConflicts /\ [Next]_vars
    => ConflictMeansLostRace' /\ SqliteNeverConflicts'
<1> SUFFICES ASSUME TypeOK, StepsMatchOp, UnrivalledSawAll, SqliteUnrivalled,
                    ConflictMeansLostRace, SqliteNeverConflicts, [Next]_vars
             PROVE  ConflictMeansLostRace' /\ SqliteNeverConflicts'
  OBVIOUS
<1>1. ASSUME NEW w \in Worker, IndexReject(w)
      PROVE  rival[w] /\ Dialect # "sqlite"
  <2>1. rival[w]
    BY <1>1, RejectedLostRace
  <2>2. op[w] = "equip" /\ pc[w] \in Contending
    BY <1>1 DEF IndexReject, StepsMatchOp, Contending
  <2>3. QED
    BY <2>1, <2>2 DEF SqliteUnrivalled
<1>2. QED
  BY <1>1, NewConflict DEF ConflictMeansLostRace, SqliteNeverConflicts

-----------------------------------------------------------------------------
(* The inductive invariant. *)
LEMMA IInvInit == Init => IInv
  BY TypeInit, CellAssumption
     DEF Init, RowsInit, RequestsInit, NothingPending, IInv, LocksExclusive, WritersHoldLock, StagedOn,
         AcceptedStaysUnique, Indexed, UnrivalledSawAll, SqliteUnrivalled, Contending,
         AtMostOneEquipped, ConflictMeansLostRace, SqliteNeverConflicts, Item

\* Every step keeps every conjunct: the step lemmas together.
LEMMA IInvStep == IInv /\ [Next]_vars => IInv'
  BY TypeStep, StepsStep, LocksStep, StagedStep, AcceptedStep, AtMostOneStep, SawAllStep,
     SqliteUnrivalledStep, ConflictStep DEF IInv

\* The inductive invariant holds in every reachable state, for any number of
\* handlers, items and slots and either database.
THEOREM InvariantHolds == Spec => []IInv
  BY IInvInit, IInvStep, PTL DEF Spec

(* For any number of concurrent handlers, items and slots, and either         *)
(* database, no committed state has two equipped items in one slot.           *)
THEOREM AtMostOne == Spec => []AtMostOneEquipped
<1>1. IInv => AtMostOneEquipped
  BY DEF IInv
<1>2. QED
  BY <1>1, InvariantHolds, PTL

(* An equip is refused with a 409 only when another request took the slot     *)
(* between its clear and its set.                                             *)
THEOREM ConflictIsLostRace == Spec => []ConflictMeansLostRace
<1>1. IInv => ConflictMeansLostRace
  BY DEF IInv
<1>2. QED
  BY <1>1, InvariantHolds, PTL

(* On the default SQLite database the 409 of the equip handlers never occurs. *)
THEOREM NoConflictOnSqlite == Spec => []SqliteNeverConflicts
<1>1. IInv => SqliteNeverConflicts
  BY DEF IInv
<1>2. QED
  BY <1>1, InvariantHolds, PTL

-----------------------------------------------------------------------------
(* EquipmentService implements Loadout, and what one commit may change.      *)

-----------------------------------------------------------------------------
(* A request that goes on with a row finds it in the table until another     *)
(* request's delete commits, and the rows of its clear likewise.             *)
LEMMA RowsHeldStep ==
  TypeOK /\ StepsMatchOp /\ LocksExclusive /\ RowsHeld /\ StagedByRequest /\ [Next]_vars
    => RowsHeld'
<1> SUFFICES ASSUME TypeOK, StepsMatchOp, LocksExclusive, RowsHeld, StagedByRequest,
                    [Next]_vars
             PROVE  RowsHeld'
  OBVIOUS
<1> USE CellAssumption DEF TypeOK, StepsMatchOp, RowsHeld, Item, Holding
<1>1. ASSUME NEW w \in Worker, NEW o \in Requests, NEW i \in Item, Refuse(w, o, i)
      PROVE  RowsHeld'
  BY <1>1 DEF Refuse, Answer, Goto, rowVars
<1>2. ASSUME NEW w \in Worker, NEW o \in Requests, NEW i \in Item, Load(w, o, i)
      PROVE  RowsHeld'
  BY <1>2 DEF Load, Start, Goto, rowVars
<1>3. ASSUME NEW w \in Worker, ClearScan(w)
      PROVE  RowsHeld'
  BY <1>3 DEF ClearScan, Scan, ClearTargets, EquippedIn, Stage, Goto
<1>4. ASSUME NEW w \in Worker, ClearApply(w)
      PROVE  RowsHeld'
  BY <1>4 DEF ClearApply, Apply, Stage, Goto
<1>5. ASSUME NEW w \in Worker, FlushNothing(w)
      PROVE  RowsHeld'
  BY <1>5 DEF FlushNothing, SkipFlush, Goto, rowVars
<1>6. ASSUME NEW w \in Worker, FlushRow(w)
      PROVE  RowsHeld'
  BY <1>6 DEF FlushRow, WriteTarget, NetChange, StageRow, Stage, Goto
<1>7. ASSUME NEW w \in Worker, FlushDeletedTwice(w)
      PROVE  RowsHeld'
  BY <1>7 DEF FlushDeletedTwice, Stage, Goto
<1>8. ASSUME NEW w \in Worker, NEW code \in {"409", "500"}, Fail(w, code)
      PROVE  RowsHeld'
  BY <1>8 DEF Fail, DropWrites, EndTransaction, NothingPending, Answer, Goto
<1>9. ASSUME NEW w \in Worker, InsertRow(w)
      PROVE  RowsHeld'
  BY <1>9 DEF InsertRow, Insert, StageRow, Stage, Goto
<1>10. ASSUME NEW w \in Worker, IndexAccept(w)
       PROVE  RowsHeld'
  BY <1>10 DEF IndexAccept, Accepted, Goto, rowVars
<1>11. ASSUME NEW w \in Worker, Commit(w)
       PROVE  RowsHeld'
  <2> DEFINE D == DeletedBy(w)
  <2>1. /\ pc' = [pc EXCEPT ![w] = IF op[w] = "delete" THEN "done" ELSE "refresh"]
        /\ op' = op /\ \A v \in Worker \ {w} : item'[v] = item[v]
        /\ op[w] # "delete" => item' = item
        /\ cand' = [v \in Worker |-> cand[v] \ D]
    BY <1>11 DEF Commit, CommitWrites, Answer, Goto
  <2>2. \A v \in Worker \ {w} : pc[v] \in Holding /\ ~gone'[v] => ~gone[v] /\ item[v] \notin D
    BY <1>11, Zenon DEF Commit, CommitWrites, LosesRow
  <2>3. \A i \in Item : table[i] # Absent /\ i \notin D => table'[i] # Absent
    BY <1>11 DEF Commit, CommitWrites, PublishWrites, TableAfter, DeletedBy
  <2>4. op[w] # "delete" /\ ~gone'[w] => ~gone[w]
    BY <1>11, Zenon DEF Commit, CommitWrites
  <2>5. op[w] # "delete" => D = {}
    BY DEF DeletedBy, StagedByRequest
  <2>6. pc[w] = "commit" /\ cand[w] = {}
    BY <1>11 DEF Commit, CommitWrites
  <2>7. ASSUME NEW v \in Worker, v # w
        PROVE  /\ pc'[v] \in Holding /\ ~gone'[v] /\ op'[v] # "create" => table'[item'[v]] # Absent
               /\ \A j \in cand'[v] : table'[j] # Absent /\ SameSlot(j, item'[v]) /\ pc'[v] = "apply"
    BY <2>1, <2>2, <2>3, <2>7
  <2>8. /\ pc'[w] \in Holding /\ ~gone'[w] /\ op'[w] # "create" => table'[item'[w]] # Absent
        /\ cand'[w] = {}
    BY <2>1, <2>3, <2>4, <2>5, <2>6
  <2>9. QED
    BY <2>7, <2>8
<1>12. ASSUME NEW w \in Worker, Refresh(w)
       PROVE  RowsHeld'
  BY <1>12 DEF Refresh, Answer, Goto, rowVars
<1>13. ASSUME NEW w \in Worker, Return(w)
       PROVE  RowsHeld'
  BY <1>13 DEF Return, Goto, rowVars
<1>14. CASE UNCHANGED vars
  BY <1>14 DEF vars, rowVars, reqVars
<1>15. QED
  BY <1>1, <1>2, <1>3, <1>4, <1>5, <1>6, <1>7, <1>8, <1>9, <1>10, <1>11, <1>12,
     <1>13, <1>14
     DEF Next, Proceed, Arrive, FlushStale, UpdateMissed, InsertRejected, IndexReject, DeadlockVictim, AbortDeadlock,
         BusyTimeout, AbortBusy

(* A request that has sent no statement for its row has staged nothing.      *)
LEMMA NothingStagedYet ==
  ASSUME StagedByRequest, NEW w \in Worker, pc[w] \notin {"flush", "index", "commit"}
  PROVE  \A i \in Item : pending[w][i] = None
  BY DEF StagedByRequest

(* What each kind of request stages.                                         *)
LEMMA StagedByStep ==
  TypeOK /\ StepsMatchOp /\ LocksExclusive /\ RowsHeld /\ StagedByRequest /\ [Next]_vars
    => StagedByRequest'
<1> SUFFICES ASSUME TypeOK, StepsMatchOp, LocksExclusive, RowsHeld, StagedByRequest,
                    [Next]_vars
             PROVE  StagedByRequest'
  OBVIOUS
<1>a. \A w \in Worker : pc[w] \notin {"flush", "index", "commit"}
        => \A i \in Item : pending[w][i] = None
  BY NothingStagedYet
<1> USE CellAssumption DEF TypeOK, StepsMatchOp, StagedByRequest, SameSlot, Item, Holding
<1>1. ASSUME NEW w \in Worker, NEW o \in Requests, NEW i \in Item, Refuse(w, o, i)
      PROVE  StagedByRequest'
  <2>1. /\ pc[w] = "idle" /\ pc' = [pc EXCEPT ![w] = "done"]
        /\ op' = [op EXCEPT ![w] = o] /\ item' = [item EXCEPT ![w] = None]
        /\ UNCHANGED <<table, pending>>
    BY <1>1 DEF Refuse, Answer, Goto, rowVars
  <2>2. \A j \in Item : pending[w][j] = None
    BY ONLY <1>a, <2>1
  <2>3. QED
    BY <2>1, <2>2
<1>2. ASSUME NEW w \in Worker, NEW o \in Requests, NEW i \in Item, Load(w, o, i)
      PROVE  StagedByRequest'
  BY <1>2 DEF Load, Start, Goto, rowVars
<1>3. ASSUME NEW w \in Worker, ClearScan(w)
      PROVE  StagedByRequest'
  BY <1>3 DEF ClearScan, Scan, ClearTargets, EquippedIn, Stage, Goto
<1>4. ASSUME NEW w \in Worker, ClearApply(w)
      PROVE  StagedByRequest'
  <2>1. /\ pc[w] = "apply" /\ op[w] = "equip" /\ item[w] \in Item
        /\ pc' = [pc EXCEPT ![w] = "flush"] /\ UNCHANGED <<table, op, item>>
        /\ pending' = [pending EXCEPT ![w] =
             [j \in Item |-> IF j \in cand[w] THEN "off" ELSE pending[w][j]]]
    BY <1>4 DEF ClearApply, Apply, Stage, Goto
  <2>2. \A j \in Item : pending[w][j] = None
    BY ONLY <1>a, <2>1
  <2>3. \A j \in cand[w] : table[j] # Absent /\ SlotOf[j] = SlotOf[item[w]]
    BY <2>1 DEF RowsHeld
  <2>4. ASSUME NEW j \in Item, pending'[w][j] # None
        PROVE  pending'[w][j] = "off" /\ j \in cand[w]
    BY <2>1, <2>2, <2>4
  <2>5. QED
    BY <2>1, <2>3, <2>4
<1>5. ASSUME NEW w \in Worker, FlushNothing(w)
      PROVE  StagedByRequest'
  BY <1>5 DEF FlushNothing, SkipFlush, Goto, rowVars
<1>6. ASSUME NEW w \in Worker, FlushRow(w)
      PROVE  StagedByRequest'
  <2>1. /\ pc[w] = "flush" /\ item[w] \in Item /\ table[item[w]] # Absent
        /\ op[w] \in {"equip", "unequip", "patch", "delete"}
        /\ UNCHANGED <<table, op, item>>
        /\ pc' = [pc EXCEPT ![w] = IF op[w] = "equip" THEN "index" ELSE "commit"]
    BY <1>6 DEF FlushRow, WriteTarget, NetChange, Stage, StageRow, Goto, RowsHeld
  <2>2. pending' = [pending EXCEPT ![w] = [pending[w] EXCEPT ![item[w]] = NewCell(w)]]
    BY <1>6 DEF FlushRow, WriteTarget, StageRow, Stage
  <2>3. QED
    BY <2>1, <2>2, NewCellByOp
<1>7. ASSUME NEW w \in Worker, FlushDeletedTwice(w)
      PROVE  StagedByRequest'
  BY <1>7 DEF FlushDeletedTwice, Stage, Goto
<1>8. ASSUME NEW w \in Worker, NEW code \in {"409", "500"}, Fail(w, code)
      PROVE  StagedByRequest'
  BY <1>8 DEF Fail, DropWrites, EndTransaction, NothingPending, Answer, Goto
<1>9. ASSUME NEW w \in Worker, InsertRow(w)
      PROVE  StagedByRequest'
  BY <1>9 DEF InsertRow, Insert, StageRow, Stage, Goto
<1>10. ASSUME NEW w \in Worker, IndexAccept(w)
       PROVE  StagedByRequest'
  BY <1>10 DEF IndexAccept, Accepted, Goto, rowVars
<1>11. ASSUME NEW w \in Worker, Commit(w)
       PROVE  StagedByRequest'
  <2>1. /\ pc[w] = "commit" /\ op' = op
        /\ pending' = [pending EXCEPT ![w] = NothingPending]
        /\ \A v \in Worker \ {w} : item'[v] = item[v] /\ pc'[v] = pc[v]
        /\ table' = TableAfter(w)
    BY <1>11 DEF Commit, CommitWrites, PublishWrites, EndTransaction, Answer, Goto
  <2>2. \A j \in Item : pending'[w][j] = None
    BY <2>1 DEF NothingPending
  <2>3. ASSUME NEW v \in Worker \ {w}, NEW j \in Item, pending'[v][j] # None
        PROVE  pending[v][j] = pending'[v][j] /\ table'[j] = table[j]
    BY <2>1, <2>3 DEF LocksExclusive, TableAfter
  <2>4. QED
    BY <2>1, <2>2, <2>3
<1>12. ASSUME NEW w \in Worker, Refresh(w)
       PROVE  StagedByRequest'
  BY <1>12 DEF Refresh, Answer, Goto, rowVars
<1>13. ASSUME NEW w \in Worker, Return(w)
       PROVE  StagedByRequest'
  BY <1>13 DEF Return, Goto, rowVars
<1>14. CASE UNCHANGED vars
  BY <1>14 DEF vars, rowVars, reqVars
<1>15. QED
  BY <1>1, <1>2, <1>3, <1>4, <1>5, <1>6, <1>7, <1>8, <1>9, <1>10, <1>11, <1>12,
     <1>13, <1>14
     DEF Next, Proceed, Arrive, FlushStale, UpdateMissed, InsertRejected, IndexReject, DeadlockVictim, AbortDeadlock,
         BusyTimeout, AbortBusy

(* The set of an equip reaches the table unless the item was on when loaded. *)
LEMMA EquipStagesStep ==
  TypeOK /\ StepsMatchOp /\ EquipStages /\ [Next]_vars => EquipStages'
<1> SUFFICES ASSUME TypeOK, StepsMatchOp, EquipStages, [Next]_vars
             PROVE  EquipStages'
  OBVIOUS
<1> USE CellAssumption DEF TypeOK, StepsMatchOp, EquipStages, Item, Holding
<1>1. ASSUME NEW w \in Worker, NEW o \in Requests, NEW i \in Item, Refuse(w, o, i)
      PROVE  EquipStages'
  BY <1>1 DEF Refuse, Answer, Goto, rowVars
<1>2. ASSUME NEW w \in Worker, NEW o \in Requests, NEW i \in Item, Load(w, o, i)
      PROVE  EquipStages'
  BY <1>2 DEF Load, Start, Goto, rowVars
<1>3. ASSUME NEW w \in Worker, ClearScan(w)
      PROVE  EquipStages'
  BY <1>3 DEF ClearScan, Scan, ClearTargets, EquippedIn, Stage, Goto
<1>4. ASSUME NEW w \in Worker, ClearApply(w)
      PROVE  EquipStages'
  BY <1>4 DEF ClearApply, Apply, Stage, Goto
<1>5. ASSUME NEW w \in Worker, FlushNothing(w)
      PROVE  EquipStages'
  BY <1>5 DEF FlushNothing, SkipFlush, NetChange, Goto, rowVars
<1>6. ASSUME NEW w \in Worker, FlushRow(w)
      PROVE  EquipStages'
  BY <1>6, NewCellByOp DEF FlushRow, WriteTarget, NetChange, StageRow, Stage, Goto
<1>7. ASSUME NEW w \in Worker, FlushDeletedTwice(w)
      PROVE  EquipStages'
  BY <1>7 DEF FlushDeletedTwice, Stage, Goto
<1>8. ASSUME NEW w \in Worker, NEW code \in {"409", "500"}, Fail(w, code)
      PROVE  EquipStages'
  BY <1>8 DEF Fail, DropWrites, EndTransaction, NothingPending, Answer, Goto
<1>9. ASSUME NEW w \in Worker, InsertRow(w)
      PROVE  EquipStages'
  BY <1>9 DEF InsertRow, Insert, StageRow, Stage, Goto
<1>10. ASSUME NEW w \in Worker, IndexAccept(w)
       PROVE  EquipStages'
  BY <1>10 DEF IndexAccept, Accepted, Goto, rowVars
<1>11. ASSUME NEW w \in Worker, Commit(w)
       PROVE  EquipStages'
  BY <1>11 DEF Commit, CommitWrites, PublishWrites, TableAfter, DeletedBy, EndTransaction, NothingPending, Answer, Goto
<1>12. ASSUME NEW w \in Worker, Refresh(w)
       PROVE  EquipStages'
  BY <1>12 DEF Refresh, Answer, Goto, rowVars
<1>13. ASSUME NEW w \in Worker, Return(w)
       PROVE  EquipStages'
  BY <1>13 DEF Return, Goto, rowVars
<1>14. CASE UNCHANGED vars
  BY <1>14 DEF vars, rowVars, reqVars
<1>15. QED
  BY <1>1, <1>2, <1>3, <1>4, <1>5, <1>6, <1>7, <1>8, <1>9, <1>10, <1>11, <1>12,
     <1>13, <1>14
     DEF Next, Proceed, Arrive, FlushStale, UpdateMissed, InsertRejected, IndexReject, DeadlockVictim, AbortDeadlock,
         BusyTimeout, AbortBusy

\* A step of w leaves the other requests alone, but for rows they lose.
OthersKeep(w) ==
  \A v \in Worker \ {w} :
    /\ pc'[v] = pc[v] /\ op'[v] = op[v] /\ item'[v] = item[v] /\ seen'[v] = seen[v]
    /\ pending'[v] = pending[v] /\ (gone[v] => gone'[v])

LEMMA OthersKeepStatement ==
  ASSUME StatementStaged, NEW w \in Worker, OthersKeep(w), HasStatement(w)'
  PROVE  StatementStaged'
<1>1. ASSUME NEW v \in Worker \ {w}
      PROVE  HasStatement(v)'
  BY <1>1 DEF StatementStaged, OthersKeep, HasStatement
<1>2. QED
  BY <1>1 DEF StatementStaged

(* Between its statement and its commit no request loses what it staged.     *)
LEMMA StatementStagedStep ==
  TypeOK /\ StepsMatchOp /\ EquipStages /\ StatementStaged /\ [Next]_vars => StatementStaged'
<1> SUFFICES ASSUME TypeOK, StepsMatchOp, EquipStages, StatementStaged, [Next]_vars
             PROVE  StatementStaged'
  OBVIOUS
<1> USE DEF TypeOK, StepsMatchOp, StatementStaged, Item, Holding
<1>1. ASSUME NEW w \in Worker, NEW o \in Requests, NEW i \in Item, Refuse(w, o, i)
      PROVE  StatementStaged'
  <2>1. pc'[w] = "done"
    BY <1>1 DEF Refuse, Answer, Goto
  <2>2. HasStatement(w)'
    BY <2>1 DEF HasStatement
  <2>3. OthersKeep(w)
    BY <1>1 DEF OthersKeep, Refuse, Answer, Goto, rowVars
  <2>4. QED
    BY <2>2, <2>3, OthersKeepStatement
<1>2. ASSUME NEW w \in Worker, NEW o \in Requests, NEW i \in Item, Load(w, o, i)
      PROVE  StatementStaged'
  <2>0. /\ op'[w] = o
        /\ pc'[w] = CASE o = "equip"  -> "clear"
                     [] o = "create" -> "insert"
                     [] OTHER        -> "flush"
    BY <1>2 DEF Load, Start, Goto
  <2>1. op'[w] = o /\ (pc'[w] = "clear" \/ pc'[w] = "insert" \/ (pc'[w] = "flush" /\ o # "create"))
    BY ONLY <2>0
  <2>2. HasStatement(w)'
    BY <2>1, RequestAssumption DEF HasStatement
  <2>3. OthersKeep(w)
    BY <1>2 DEF OthersKeep, Load, Start, Goto, rowVars
  <2>4. QED
    BY <2>2, <2>3, OthersKeepStatement
<1>3. ASSUME NEW w \in Worker, ClearScan(w)
      PROVE  StatementStaged'
  <2>1. pc'[w] = "apply"
    BY <1>3 DEF ClearScan, Scan, Stage, Goto
  <2>2. HasStatement(w)'
    BY <2>1 DEF HasStatement
  <2>3. OthersKeep(w)
    BY <1>3 DEF OthersKeep, ClearScan, Scan, Stage, Goto
  <2>4. QED
    BY <2>2, <2>3, OthersKeepStatement
<1>4. ASSUME NEW w \in Worker, ClearApply(w)
      PROVE  StatementStaged'
  <2>1. pc'[w] = "flush" /\ op'[w] = "equip"
    BY <1>4 DEF ClearApply, Apply, Goto, StepsMatchOp
  <2>2. HasStatement(w)'
    BY <2>1 DEF HasStatement, Op
  <2>3. OthersKeep(w)
    BY <1>4 DEF OthersKeep, ClearApply, Apply, Stage, Goto
  <2>4. QED
    BY <2>2, <2>3, OthersKeepStatement
<1>5. ASSUME NEW w \in Worker, FlushNothing(w)
      PROVE  StatementStaged'
  <2>1. /\ pc[w] = "flush" /\ pc'[w] = "commit" /\ ~NetChange(w)
        /\ op'[w] = op[w] /\ seen'[w] = seen[w] /\ HasStatement(w)
    BY <1>5 DEF FlushNothing, SkipFlush, Goto
  <2>2. HasStatement(w)'
    BY <2>1 DEF HasStatement, NetChange, Op
  <2>3. OthersKeep(w)
    BY <1>5 DEF OthersKeep, FlushNothing, SkipFlush, Goto, rowVars
  <2>4. QED
    BY <2>2, <2>3, OthersKeepStatement
<1>6. ASSUME NEW w \in Worker, FlushRow(w)
      PROVE  StatementStaged'
  <2>1. /\ pc[w] = "flush" /\ ~gone[w] /\ item[w] \in Item /\ item'[w] = item[w]
        /\ op[w] \in {"equip", "unequip", "patch", "delete"}
        /\ pending'[w] = [pending[w] EXCEPT ![item[w]] = NewCell(w)]
        /\ pc'[w] \in {"index", "commit"}
    BY <1>6 DEF FlushRow, WriteTarget, NetChange, StageRow, Stage, Goto, Holding
  <2>a. NewCell(w) # None
    BY <2>1, NewCellByOp, CellAssumption DEF Cell
  <2>b. pending'[w][item'[w]] # None
    BY <2>1, <2>a
  <2>2. HasStatement(w)'
    BY <2>1, <2>b DEF HasStatement
  <2>3. OthersKeep(w)
    BY <1>6 DEF OthersKeep, FlushRow, WriteTarget, StageRow, Stage, Goto
  <2>4. QED
    BY <2>2, <2>3, OthersKeepStatement
<1>7. ASSUME NEW w \in Worker, FlushDeletedTwice(w)
      PROVE  StatementStaged'
  <2>1. pc'[w] = "commit" /\ op'[w] = "delete" /\ gone'[w]
    BY <1>7 DEF FlushDeletedTwice, Goto
  <2>2. HasStatement(w)'
    BY <2>1 DEF HasStatement
  <2>3. OthersKeep(w)
    BY <1>7 DEF OthersKeep, FlushDeletedTwice, Stage, Goto
  <2>4. QED
    BY <2>2, <2>3, OthersKeepStatement
<1>8. ASSUME NEW w \in Worker, NEW code \in {"409", "500"}, Fail(w, code)
      PROVE  StatementStaged'
  <2>1. pc'[w] = "done"
    BY <1>8 DEF Fail, DropWrites, EndTransaction, Answer, Goto
  <2>2. HasStatement(w)'
    BY <2>1 DEF HasStatement
  <2>3. OthersKeep(w)
    BY <1>8 DEF OthersKeep, Fail, DropWrites, EndTransaction, Answer, Goto
  <2>4. QED
    BY <2>2, <2>3, OthersKeepStatement
<1>9. ASSUME NEW w \in Worker, InsertRow(w)
      PROVE  StatementStaged'
  <2>1. /\ item[w] \in Item /\ item'[w] = item[w] /\ pc'[w] = "commit"
        /\ pending'[w] = [pending[w] EXCEPT ![item[w]] = "off"]
    BY <1>9 DEF InsertRow, Insert, StageRow, Stage, Goto
  <2>b. pending'[w][item'[w]] # None
    BY <2>1, CellAssumption
  <2>2. HasStatement(w)'
    BY <2>1, <2>b DEF HasStatement
  <2>3. OthersKeep(w)
    BY <1>9 DEF OthersKeep, InsertRow, Insert, StageRow, Stage, Goto
  <2>4. QED
    BY <2>2, <2>3, OthersKeepStatement
<1>10. ASSUME NEW w \in Worker, IndexAccept(w)
      PROVE  StatementStaged'
  <2>1. /\ op[w] = "equip" /\ pc[w] = "index" /\ pending'[w] = pending[w]
        /\ item'[w] = item[w] /\ pc'[w] = "commit"
    BY <1>10 DEF IndexAccept, Accepted, Goto, rowVars, StepsMatchOp
  <2>b. pending'[w][item'[w]] # None
    BY <2>1, CellAssumption DEF EquipStages
  <2>2. HasStatement(w)'
    BY <2>1, <2>b DEF HasStatement
  <2>3. OthersKeep(w)
    BY <1>10 DEF OthersKeep, IndexAccept, Accepted, Goto, rowVars
  <2>4. QED
    BY <2>2, <2>3, OthersKeepStatement
<1>11. ASSUME NEW w \in Worker, Commit(w)
      PROVE  StatementStaged'
  <2>1. pc'[w] \in {"refresh", "done"}
    BY <1>11 DEF Commit, CommitWrites, Answer, Goto
  <2>2. HasStatement(w)'
    BY <2>1 DEF HasStatement
  <2>3. OthersKeep(w)
    BY <1>11 DEF OthersKeep, Commit, CommitWrites, PublishWrites, EndTransaction, LosesRow, Answer, Goto
  <2>4. QED
    BY <2>2, <2>3, OthersKeepStatement
<1>12. ASSUME NEW w \in Worker, Refresh(w)
      PROVE  StatementStaged'
  <2>1. pc'[w] = "done"
    BY <1>12 DEF Refresh, Answer, Goto, rowVars
  <2>2. HasStatement(w)'
    BY <2>1 DEF HasStatement
  <2>3. OthersKeep(w)
    BY <1>12 DEF OthersKeep, Refresh, Answer, Goto, rowVars
  <2>4. QED
    BY <2>2, <2>3, OthersKeepStatement
<1>13. ASSUME NEW w \in Worker, Return(w)
      PROVE  StatementStaged'
  <2>1. pc'[w] = "idle"
    BY <1>13 DEF Return, Goto, rowVars
  <2>2. HasStatement(w)'
    BY <2>1 DEF HasStatement
  <2>3. OthersKeep(w)
    BY <1>13 DEF OthersKeep, Return, Goto, rowVars
  <2>4. QED
    BY <2>2, <2>3, OthersKeepStatement
<1>14. CASE UNCHANGED vars
  BY <1>14 DEF vars, rowVars, reqVars, HasStatement
<1>15. QED
  BY <1>1, <1>2, <1>3, <1>4, <1>5, <1>6, <1>7, <1>8, <1>9, <1>10, <1>11, <1>12,
     <1>13, <1>14
     DEF Next, Proceed, Arrive, FlushStale, UpdateMissed, InsertRejected, IndexReject, DeadlockVictim, AbortDeadlock,
         BusyTimeout, AbortBusy

\* No request has loaded or staged anything in the initial states.
LEMMA CommitInvInit == Init => CommitInv
<1>1. Init => RowsHeld /\ StagedByRequest /\ EquipStages /\ StatementStaged
  BY CellAssumption
     DEF Init, RowsInit, RequestsInit, NothingPending, RowsHeld, StagedByRequest, EquipStages,
         StatementStaged, HasStatement, Holding, Item
<1>2. QED
  BY <1>1, IInvInit DEF CommitInv

\* Every step keeps the commit invariant: the four step lemmas over IInv.
LEMMA CommitInvStep == CommitInv /\ [Next]_vars => CommitInv'
<1> SUFFICES ASSUME CommitInv, [Next]_vars
             PROVE  CommitInv'
  OBVIOUS
<1>1. IInv /\ TypeOK /\ StepsMatchOp /\ LocksExclusive
  BY DEF CommitInv, IInv
<1>2. IInv'
  BY <1>1, IInvStep
<1>3. RowsHeld' /\ StagedByRequest'
  BY <1>1, RowsHeldStep, StagedByStep DEF CommitInv
<1>4. EquipStages'
  BY <1>1, EquipStagesStep DEF CommitInv
<1>5. StatementStaged'
  BY <1>1, StatementStagedStep DEF CommitInv
<1>6. QED
  BY <1>2, <1>3, <1>4, <1>5 DEF CommitInv

(* What is staged at any time is what the requests are about, and it will    *)
(* be fit to commit.                                                         *)
THEOREM CommitInvariantHolds == Spec => []CommitInv
  BY CommitInvInit, CommitInvStep, PTL DEF Spec

-----------------------------------------------------------------------------
(* What one commit does to the table, request by request.                    *)

\* Nothing but Commit leaves the step before the commit.
LEMMA CommitsIsCommit ==
  ASSUME TypeOK, [Next]_vars, NEW w \in Worker, Commits(w)
  PROVE  Commit(w)
<1> USE DEF TypeOK, Commits, Goto, Answer, Fail, Item
<1>1. ASSUME NEW v \in Worker, Proceed(v)
      PROVE  Commit(w)
  <2>1. Waits(w) = {} /\ WaitsFor[w] = Waits(w)
    BY DEF Waits, WaitsFor
  <2>2. v = w
    BY <1>1 DEF Proceed, ClearScan, Scan, ClearApply, Apply, FlushNothing, SkipFlush, FlushRow, WriteTarget, FlushDeletedTwice,
      FlushStale, UpdateMissed, InsertRow, Insert, InsertRejected, IndexAccept, Accepted, IndexReject, Commit, CommitWrites, Refresh,
      Return, DeadlockVictim, AbortDeadlock, BusyTimeout, AbortBusy
  <2>3. QED
    BY <1>1, <2>1, <2>2 DEF Proceed, ClearScan, Scan, ClearApply, Apply, FlushNothing, SkipFlush, FlushRow, WriteTarget,
      FlushDeletedTwice, FlushStale, UpdateMissed, InsertRow, Insert, InsertRejected, IndexAccept, Accepted, IndexReject,
      Refresh, Return, DeadlockVictim, AbortDeadlock, OnCycle, BusyTimeout, AbortBusy
<1>2. ASSUME NEW v \in Worker, NEW o \in Requests, NEW i \in Item,
             Refuse(v, o, i) \/ Load(v, o, i)
      PROVE  FALSE
  BY <1>2 DEF Refuse, Load, Start
<1>3. CASE UNCHANGED vars
  BY <1>3 DEF vars, reqVars
<1>4. QED
  BY <1>1, <1>2, <1>3 DEF Next, Arrive

\* Row by row, and what was staged for a row of another request's.
LEMMA CommitRows ==
  ASSUME CommitInv, NEW w \in Worker, Commit(w)
  PROVE  /\ table \in [Item -> Cell] /\ table' \in [Item -> Cell]
         /\ item[w] \in Item /\ pc[w] = "commit"
         /\ \A i \in Item : table'[i] = IF pending[w][i] = None THEN table[i] ELSE pending[w][i]
<1>1. TypeOK /\ StepsMatchOp /\ pc[w] = "commit"
  BY DEF CommitInv, IInv, Commit, CommitWrites
<1>2. pending[w] \in [Item -> Cell \cup {None}] /\ item[w] \in Item
  BY <1>1 DEF TypeOK, StepsMatchOp, Holding
<1>3. table' = TableAfter(w)
  BY DEF Commit, CommitWrites, PublishWrites
<1>4. QED
  BY <1>1, <1>2, <1>3 DEF TableAfter, Item, TypeOK

\* The slot of an equip as its commit leaves it, and the rest untouched.
LEMMA EquipCommitted ==
  ASSUME CommitInv, NEW w \in Worker, Commit(w), op[w] = "equip"
  PROVE  /\ OwnedIn(table') = OwnedIn(table)
         /\ \A i \in Item : ~SameSlot(i, item[w]) => table'[i] = table[i]
         /\ \A i \in Item \ {item[w]} : table'[i] = "on" => table[i] = "on"
         /\ \/ /\ table'[item[w]] = "on" /\ table[item[w]] # Absent
               /\ \A i \in SlotMates(w) : table'[i] # "on"
            \/ seen[w] = "on" /\ (table'[item[w]] = "on" => table[item[w]] = "on")
<1> DEFINE k == item[w]
<1>1. /\ table \in [Item -> Cell] /\ table' \in [Item -> Cell]
      /\ k \in Item /\ pc[w] = "commit"
      /\ \A i \in Item : table'[i] = IF pending[w][i] = None THEN table[i] ELSE pending[w][i]
  BY CommitRows
<1>2. \A i \in Item : pending[w][i] # None =>
        pending[w][i] \in {"on", "off"} /\ SameSlot(i, k) /\ table[i] # Absent
  BY DEF CommitInv, StagedByRequest
<1>3. \A i \in Item \ {k} : pending[w][i] # "on"
  BY DEF CommitInv, IInv, StagedOn
<1>4. \A i \in Item : table'[i] = Absent <=> table[i] = Absent
  BY <1>1, <1>2, CellAssumption
<1>5. OwnedIn(table') = OwnedIn(table)
  BY <1>4 DEF OwnedIn
<1>6. CASE pending[w][k] = "on"
  <2>1. Indexed(w)
    BY <1>1, <1>6 DEF Indexed
  <2>2. \A i \in SlotMates(w) : table[i] = "on" => pending[w][i] # None
    BY <2>1 DEF CommitInv, IInv, AcceptedStaysUnique
  <2>3. \A i \in SlotMates(w) : table'[i] # "on"
    BY <1>1, <1>3, <2>2 DEF SlotMates
  <2>4. table'[k] = "on" /\ table[k] # Absent
    BY <1>1, <1>2, <1>6, CellAssumption
  <2>5. QED
    BY <1>1, <1>2, <1>3, <1>5, <2>3, <2>4
<1>7. CASE pending[w][k] # "on"
  <2>1. seen[w] = "on"
    BY <1>1, <1>7 DEF CommitInv, EquipStages
  <2>2. QED
    BY <1>1, <1>2, <1>3, <1>5, <1>7, <2>1
<1>8. QED
  BY <1>6, <1>7

\* Any other request changes its own row and never turns it on.
LEMMA OtherCommitted ==
  ASSUME CommitInv, NEW w \in Worker, Commit(w), op[w] # "equip"
  PROVE  /\ \A i \in Item \ {item[w]} : table'[i] = table[i]
         /\ \/ table'[item[w]] = table[item[w]]
            \/ op[w] = "unequip" /\ table'[item[w]] = "off" /\ table[item[w]] # Absent
            \/ op[w] = "create" /\ table'[item[w]] = "off" /\ table[item[w]] = Absent
            \/ op[w] = "delete" /\ table'[item[w]] = Absent /\ table[item[w]] # Absent
<1>1. /\ item[w] \in Item /\ pc[w] = "commit"
      /\ \A i \in Item : table'[i] = IF pending[w][i] = None THEN table[i] ELSE pending[w][i]
  BY CommitRows
<1>2. \A i \in Item : pending[w][i] # None =>
        /\ i = item[w] /\ (op[w] = "create" <=> table[i] = Absent)
        /\ \/ op[w] \in {"unequip", "create"} /\ pending[w][i] = "off"
           \/ op[w] = "patch" /\ pending[w][i] = table[i]
           \/ op[w] = "delete" /\ pending[w][i] = Absent
  BY DEF CommitInv, StagedByRequest
<1>3. QED
  BY <1>1, <1>2

-----------------------------------------------------------------------------
(* What a commit may change.                                                 *)

(* Whatever the other requests did to the row since it was loaded, a         *)
(* request that commits leaves it as it asked, unless it sent nothing or its *)
(* row was deleted by another DELETE.                                        *)
THEOREM CommitsTakeEffect == Spec => CommitTakesEffect
<1>1. ASSUME CommitInv, [Next]_vars, NEW w \in Worker, Commits(w)
      PROVE  TookEffect(w)
  <2> DEFINE k == item[w]
  <2>1. Commit(w)
    BY <1>1, CommitsIsCommit DEF CommitInv, IInv
  <2>2. /\ k \in Item /\ pc[w] = "commit"
        /\ table'[k] = IF pending[w][k] = None THEN table[k] ELSE pending[w][k]
    BY <1>1, <2>1, CommitRows
  <2>3. \/ pending[w][k] # None
        \/ op[w] = "equip" /\ seen[w] = "on"
        \/ op[w] = "unequip" /\ seen[w] # "on"
        \/ op[w] = "delete" /\ gone[w]
    BY <1>1, <2>2 DEF CommitInv, StatementStaged, HasStatement
  <2>4. CASE pending[w][k] = None
    BY <2>3, <2>4 DEF TookEffect
  <2>5. CASE pending[w][k] # None
    <3>1. table'[k] = pending[w][k]
      BY <2>2, <2>5
    <3>2. /\ op[w] = "create" <=> table[k] = Absent
          /\ \/ op[w] = "equip"
             \/ op[w] \in {"unequip", "create"} /\ pending[w][k] = "off"
             \/ op[w] = "patch" /\ pending[w][k] = table[k]
             \/ op[w] = "delete" /\ pending[w][k] = Absent
      BY <1>1, <2>2, <2>5 DEF CommitInv, StagedByRequest
    <3>3. op[w] = "equip" => seen[w] = "on" \/ pending[w][k] = "on"
      BY <1>1, <2>2 DEF CommitInv, EquipStages
    <3>4. QED
      BY <3>1, <3>2, <3>3 DEF TookEffect
  <2>6. QED
    BY <2>4, <2>5
<1>2. CommitInv /\ [Next]_vars => [\A w \in Worker : Commits(w) => TookEffect(w)]_vars
  BY <1>1
<1>3. QED
  BY <1>2, CommitInvariantHolds, PTL DEF Spec, CommitTakesEffect

(* No request's commit reaches further than its own row, or its own slot.    *)
THEOREM CommitsStayInSlot == Spec => CommitStaysInSlot
<1>1. ASSUME CommitInv, [Next]_vars, NEW w \in Worker, Commits(w)
      PROVE  FlagChanges(w)
  <2>1. Commit(w)
    BY <1>1, CommitsIsCommit DEF CommitInv, IInv
  <2>2. item[w] \in Item
    BY <1>1, <2>1, CommitRows
  <2>3. CASE op[w] = "equip"
    <3>1. \A i \in Item : ~SameSlot(i, item[w]) => table'[i] = table[i]
      BY <1>1, <2>1, <2>3, EquipCommitted
    <3>2. \A i \in Item \ {item[w]} : table'[i] = "on" => table[i] = "on"
      BY <1>1, <2>1, <2>3, EquipCommitted
    <3>3. QED
      BY <2>2, <2>3, <3>1, <3>2 DEF FlagChanges, EquippedIn
  <2>4. CASE op[w] # "equip"
    <3>1. \A i \in Item \ {item[w]} : table'[i] = table[i]
      BY <1>1, <2>1, <2>4, OtherCommitted
    <3>2. table'[item[w]] = table[item[w]] \/ op[w] \in {"unequip", "create", "delete"}
      BY <1>1, <2>1, <2>4, OtherCommitted
    <3>3. table'[item[w]] = "on" => table[item[w]] = "on"
      BY <1>1, <2>1, <2>4, OtherCommitted, CellAssumption
    <3>4. op[w] = "create" => ~(table[item[w]] = "on" /\ table'[item[w]] # "on")
      BY <1>1, <2>1, <2>4, OtherCommitted, CellAssumption
    <3>5. QED
      BY <2>4, <3>1, <3>2, <3>3, <3>4 DEF FlagChanges, EquippedIn
  <2>5. QED
    BY <2>3, <2>4
<1>2. CommitInv /\ [Next]_vars => [\A w \in Worker : Commits(w) => FlagChanges(w)]_vars
  BY <1>1
<1>3. QED
  BY <1>2, CommitInvariantHolds, PTL DEF Spec, CommitStaysInSlot

(* A slot in use is emptied by a request to empty it, or by the equip of the *)
(* item that was in it when the request was loaded: nobody sees the gap      *)
(* between the clear and the set.                                            *)
THEOREM SlotsEmptiedOnRequest == Spec => SlotEmptiedOnRequest
<1>1. ASSUME CommitInv, [Next]_vars, NEW s \in Slot, Occupied(table, s), ~Occupied(table', s)
      PROVE  \E w \in Worker : Commits(w) /\ EmptiesSlot(w, s)
  <2>1. PICK w \in Worker : Commit(w)
    BY <1>1, OnlyCommitPublishes DEF Occupied, EquippedIn
  <2>2. item[w] \in Item /\ pc[w] = "commit"
    BY <1>1, <2>1, CommitRows
  <2>3. Commits(w)
    BY <1>1, <2>1, <2>2 DEF Commits, Commit, CommitWrites, Answer, Goto, CommitInv, IInv, TypeOK
  <2>4. PICK i \in Item : table[i] = "on" /\ SlotOf[i] = s /\ table'[i] # "on"
    BY <1>1 DEF Occupied, EquippedIn
  <2>5. CASE op[w] = "equip"
    <3>1. SlotOf[item[w]] = s
      BY <1>1, <2>1, <2>4, <2>5, EquipCommitted DEF SameSlot
    <3>2. table'[item[w]] # "on"
      BY <1>1, <2>2, <3>1 DEF Occupied, EquippedIn
    <3>3. seen[w] = "on"
      BY <1>1, <2>1, <2>5, <3>2, EquipCommitted
    <3>4. QED
      BY <2>3, <2>5, <3>1, <3>3 DEF EmptiesSlot
  <2>6. CASE op[w] # "equip"
    <3>1. i = item[w]
      BY <1>1, <2>1, <2>4, <2>6, OtherCommitted
    <3>2. op[w] \in {"unequip", "delete"}
      BY <1>1, <2>1, <2>4, <2>6, <3>1, OtherCommitted, CellAssumption
    <3>3. QED
      BY <2>3, <2>4, <3>1, <3>2 DEF EmptiesSlot
  <2>7. QED
    BY <2>5, <2>6
<1>2. CommitInv /\ [Next]_vars =>
        [\A s \in Slot : Occupied(table, s) /\ ~Occupied(table', s)
           => \E w \in Worker : Commits(w) /\ EmptiesSlot(w, s)]_vars
  BY <1>1
<1>3. QED
  BY <1>2, CommitInvariantHolds, PTL DEF Spec, SlotEmptiedOnRequest

-----------------------------------------------------------------------------
(* The committed table implements Loadout.                                   *)

\* What WornIn says of a table that the index accepts.
LEMMA WornInSlot ==
  ASSUME NEW tbl, UniquelyEquipped(tbl), NEW s \in Slot
  PROVE  /\ \A i \in Item : tbl[i] = "on" /\ SlotOf[i] = s => WornIn(tbl)[s] = i
         /\ (\A i \in Item : ~(tbl[i] = "on" /\ SlotOf[i] = s)) => WornIn(tbl)[s] = None
<1>1. WornIn(tbl)[s] = IF Occupied(tbl, s)
                         THEN CHOOSE i \in EquippedIn(tbl) : SlotOf[i] = s
                         ELSE None
  BY DEF WornIn
<1>2. ASSUME NEW i \in Item, tbl[i] = "on", SlotOf[i] = s
      PROVE  WornIn(tbl)[s] = i
  <2>1. i \in EquippedIn(tbl) /\ Occupied(tbl, s)
    BY <1>2 DEF EquippedIn, Occupied
  <2>2. \A j \in EquippedIn(tbl) : SlotOf[j] = s => j = i
    BY <1>2, <2>1 DEF UniquelyEquipped, SameSlot
  <2>3. (CHOOSE j \in EquippedIn(tbl) : SlotOf[j] = s) = i
    BY <1>2, <2>1, <2>2
  <2>4. QED
    BY <1>1, <2>1, <2>3
<1>3. ASSUME \A i \in Item : ~(tbl[i] = "on" /\ SlotOf[i] = s)
      PROVE  WornIn(tbl)[s] = None
  BY <1>1, <1>3 DEF Occupied, EquippedIn
<1>4. QED
  BY <1>2, <1>3

\* The slots in which two tables agree wear the same.
LEMMA WornAlike ==
  ASSUME NEW tbl1, NEW tbl2, UniquelyEquipped(tbl1), UniquelyEquipped(tbl2),
         NEW s \in Slot,
         \A i \in Item : SlotOf[i] = s => (tbl1[i] = "on" <=> tbl2[i] = "on")
  PROVE  WornIn(tbl1)[s] = WornIn(tbl2)[s]
<1>1. CASE \E i \in Item : tbl1[i] = "on" /\ SlotOf[i] = s
  BY <1>1, WornInSlot
<1>2. CASE \A i \in Item : ~(tbl1[i] = "on" /\ SlotOf[i] = s)
  <2>1. WornIn(tbl1)[s] = None
    BY <1>2, WornInSlot
  <2>2. WornIn(tbl2)[s] = None
    BY <1>2, WornInSlot
  <2>3. QED
    BY <2>1, <2>2
<1>3. QED
  BY <1>1, <1>2

\* Any table the invariant allows is a state Loadout may start in.
LEMMA LoadoutInit == CommitInv => L!Init
<1> SUFFICES ASSUME CommitInv
             PROVE  L!Init
  OBVIOUS
<1>1. UniquelyEquipped(table)
  BY DEF CommitInv, IInv, AtMostOneEquipped
<1>2. ASSUME NEW s \in Slot
      PROVE  \/ WornIn(table)[s] = None
             \/ WornIn(table)[s] \in OwnedIn(table) /\ SlotOf[WornIn(table)[s]] = s
  BY <1>1, WornInSlot, CellAssumption DEF OwnedIn
<1>3. WornIn(table) \in [Slot -> Item \cup {None}]
  <2>1. WornIn(table) = [s \in Slot |-> WornIn(table)[s]]
    BY DEF WornIn
  <2>2. QED
    BY <1>2, <2>1 DEF OwnedIn
<1>4. OwnedIn(table) \in SUBSET Item
  BY DEF OwnedIn
<1>5. QED
  BY <1>2, <1>3, <1>4 DEF L!Init, L!FitsSlots

\* Every commit is one step of Loadout, or none that an observer can see.
LEMMA LoadoutStep == CommitInv /\ CommitInv' /\ [Next]_vars => [L!Next]_(L!vars)
<1> SUFFICES ASSUME CommitInv, CommitInv', [Next]_vars
             PROVE  [L!Next]_(L!vars)
  OBVIOUS
<1> DEFINE worn == WornIn(table)
           wornAfter == WornIn(table')
           owned == OwnedIn(table)
           ownedAfter == OwnedIn(table')
<1>1. UniquelyEquipped(table) /\ UniquelyEquipped(table')
  BY DEF CommitInv, IInv, AtMostOneEquipped
<1>2. /\ worn = [s \in Slot |-> worn[s]]
      /\ wornAfter = [s \in Slot |-> wornAfter[s]]
  BY DEF WornIn
<1>3. CASE UNCHANGED table
  BY <1>3 DEF L!vars
<1>4. ASSUME NEW w \in Worker, Commit(w)
      PROVE  [L!Next]_(L!vars)
  <2> DEFINE k == item[w]
             S == SlotOf[k]
  <2>1. k \in Item /\ S \in Slot
    BY <1>4, CommitRows, SlotAssumption DEF Item
  <2>2. CASE op[w] = "equip" /\ table'[k] = "on" /\ table[k] # Absent
    <3>1. ownedAfter = owned /\ k \in owned
      BY <1>4, <2>1, <2>2, EquipCommitted DEF OwnedIn
    <3>2. wornAfter[S] = k
      BY <1>1, <2>1, <2>2, WornInSlot
    <3>3. \A s \in Slot \ {S} : wornAfter[s] = worn[s]
      BY <1>1, <1>4, <2>2, EquipCommitted, WornAlike DEF SameSlot
    <3>4. wornAfter = [worn EXCEPT ![S] = k]
      BY <1>2, <2>1, <3>2, <3>3
    <3>5. L!Wear(k)
      BY <3>1, <3>4 DEF L!Wear
    <3>6. QED
      BY <2>1, <3>5 DEF L!Next
  <2>3. CASE \/ op[w] = "equip" /\ ~(table'[k] = "on" /\ table[k] # Absent)
             \/ op[w] = "unequip"
    <3>1. /\ ownedAfter = owned
          /\ \A i \in Item : ~SameSlot(i, k) => table'[i] = table[i]
          /\ \A i \in Item : table'[i] = "on" => table[i] = "on"
      <4>1. CASE op[w] = "equip"
        BY <1>4, <2>1, <2>3, <4>1, EquipCommitted
      <4>2. CASE op[w] = "unequip"
        BY <1>4, <2>1, <4>2, OtherCommitted, CellAssumption DEF OwnedIn, SameSlot
      <4>3. QED
        BY <2>3, <4>1, <4>2
    <3>2. \A s \in Slot \ {S} : wornAfter[s] = worn[s]
      BY <1>1, <3>1, WornAlike DEF SameSlot
    <3>3. wornAfter[S] = worn[S] \/ (worn[S] # None /\ wornAfter[S] = None)
      <4>1. CASE \A i \in Item : ~(table'[i] = "on" /\ SlotOf[i] = S)
        <5>1. wornAfter[S] = None
          BY <1>1, <2>1, <4>1, WornInSlot
        <5>2. QED
          BY <5>1
      <4>2. CASE \E i \in Item : table'[i] = "on" /\ SlotOf[i] = S
        <5>1. PICK i \in Item : table'[i] = "on" /\ SlotOf[i] = S
          BY <4>2
        <5>2. wornAfter[S] = i
          BY <1>1, <2>1, <5>1, WornInSlot
        <5>3. worn[S] = i
          BY <1>1, <2>1, <3>1, <5>1, WornInSlot
        <5>4. QED
          BY <5>2, <5>3
      <4>3. QED
        BY <4>1, <4>2
    <3>4. wornAfter = worn \/ (worn[S] # None /\ wornAfter = [worn EXCEPT ![S] = None])
      BY <1>2, <2>1, <3>2, <3>3
    <3>5. UNCHANGED L!vars \/ L!TakeOff(S)
      BY <3>1, <3>4 DEF L!vars, L!TakeOff
    <3>6. QED
      BY <2>1, <3>5 DEF L!Next
  <2>4. CASE op[w] = "delete" /\ table'[k] = Absent /\ table[k] # Absent
    <3>1. k \in owned /\ ownedAfter = owned \ {k}
      BY <1>4, <2>1, <2>4, OtherCommitted DEF OwnedIn
    <3>2. ASSUME NEW s \in Slot
          PROVE  wornAfter[s] = IF worn[s] = k THEN None ELSE worn[s]
      BY <1>1, <1>4, <2>1, <2>4, OtherCommitted, WornInSlot, WornAlike, CellAssumption
    <3>3. wornAfter = [s \in Slot |-> IF worn[s] = k THEN None ELSE worn[s]]
      BY <1>2, <3>2
    <3>4. L!Lose(k)
      BY <3>1, <3>3 DEF L!Lose
    <3>5. QED
      BY <2>1, <3>4 DEF L!Next
  <2>5. CASE op[w] = "create" /\ table'[k] = "off" /\ table[k] = Absent
    <3>1. k \notin owned /\ ownedAfter = owned \cup {k}
      BY <1>4, <2>1, <2>5, OtherCommitted, CellAssumption DEF OwnedIn
    <3>2. \A s \in Slot : wornAfter[s] = worn[s]
      BY <1>1, <1>4, <2>1, <2>5, OtherCommitted, WornAlike, CellAssumption
    <3>3. wornAfter = worn
      BY <1>2, <3>2
    <3>4. L!Gain(k)
      BY <3>1, <3>3 DEF L!Gain
    <3>5. QED
      BY <2>1, <3>4 DEF L!Next
  <2>6. CASE op[w] # "equip" /\ table'[k] = table[k]
    <3>1. \A i \in Item : table'[i] = table[i]
      BY <1>4, <2>6, OtherCommitted
    <3>2. table' = table
      BY <1>4, <3>1, CommitRows
    <3>3. QED
      BY <3>2 DEF L!vars
  <2>7. QED
    BY <1>4, <2>2, <2>3, <2>4, <2>5, <2>6, OtherCommitted
<1>5. QED
  BY <1>3, <1>4, OnlyCommitPublishes

(* Whoever reads committed states sees a loadout in which each slot wears at *)
(* most one owned item, and which changes by whole swaps, removals, gains    *)
(* and losses, whatever the requests and their interleaving.                 *)
THEOREM ImplementsLoadout == Spec => LoadoutSpec
<1>1. CommitInv /\ CommitInv' /\ [Next]_vars => [L!Next]_(L!vars)
  BY LoadoutStep
<1>2. Init => L!Init
  BY CommitInvInit, LoadoutInit
<1>3. QED
  BY <1>1, <1>2, CommitInvariantHolds, PTL DEF Spec, LoadoutSpec, L!Spec
=============================================================================
