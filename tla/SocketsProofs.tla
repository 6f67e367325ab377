--------------------------- MODULE SocketsProofs ---------------------------
(***************************************************************************)
(* Proofs about Sockets for any set of items, sockets and handlers, both   *)
(* kinds of table, either database and any mix of requests: its invariants, *)
(* what a commit may change, and that it implements SocketBoard.           *)
(***************************************************************************)
EXTENDS Sockets, TLAPS

-----------------------------------------------------------------------------
(* Cells.                                                                    *)
\* Taking an item out of its socket leaves a row that the CHECKs accept.
LEMMA ClearedCell ==
  ASSUME NEW c \in Owned
  PROVE  /\ Cleared(c) \in Owned /\ Cleared(c).at = Null
         /\ Fits(c) => Fits(Cleared(c))
         /\ Kind = "skill" => Cleared(c).flag = c.flag
  BY KindAssumption, SocketAssumption DEF Cleared, Owned, Fits

\* What a handler assigns on the instance it loaded.
LEMMA AssignedCell ==
  ASSUME NEW w \in Worker, NEW c \in Owned, want[w] \in Socket \cup {Null}
  PROVE  /\ Assigned(w, c) \in Owned
         /\ op[w] = "equip" => Assigned(w, c).at = want[w]
         /\ op[w] = "unequip" => Assigned(w, c) = Cleared(c)
         /\ op[w] \notin {"equip", "unequip"} => Assigned(w, c).at = c.at
         /\ op[w] \in {"equip", "unequip"} /\ Kind = "skill" => Assigned(w, c).flag = c.flag
<1>1. CASE op[w] = "equip"
  <2>1. Assigned(w, c) = IF Kind = "rune" THEN [at |-> want[w], flag |-> TRUE]
                                          ELSE [c EXCEPT !.at = want[w]]
    BY <1>1 DEF Assigned
  <2>2. CASE Kind = "rune"
    BY <1>1, <2>1, <2>2 DEF Owned
  <2>3. CASE Kind = "skill"
    <3>1. Assigned(w, c) = [c EXCEPT !.at = want[w]]
      BY <2>1, <2>3
    <3>2. QED
      BY <1>1, <3>1 DEF Owned
  <2>4. QED
    BY <2>2, <2>3, KindAssumption
<1>2. CASE op[w] = "unequip"
  <2>1. Assigned(w, c) = Cleared(c)
    BY <1>2 DEF Assigned
  <2>2. QED
    BY <1>2, <2>1, ClearedCell
<1>3. CASE op[w] \in {"lock", "unlock"}
  <2>1. Assigned(w, c) \in {[c EXCEPT !.flag = FALSE], [c EXCEPT !.flag = TRUE]}
    BY <1>3 DEF Assigned
  <2>2. QED
    BY <1>3, <2>1 DEF Owned
<1>4. CASE op[w] \notin {"equip", "unequip", "lock", "unlock"}
  <2>1. Assigned(w, c) = c
    BY <1>4 DEF Assigned
  <2>2. QED
    BY <1>4, <2>1
<1>5. QED
  BY <1>1, <1>2, <1>3, <1>4

\* The row version that a flush writes: columns that did not change against the
\* loaded row come from the table.
LEMMA FlushedCell ==
  ASSUME TypeOK, StepsMatchOp, RowsHeld, NEW w \in Worker,
         pc[w] = "flush", ~gone[w], op[w] # "delete", NetChange(w)
  PROVE  /\ table[item[w]] \in Owned /\ NewCell(w) \in Owned
         /\ op[w] = "equip" => NewCell(w).at = want[w]
         /\ op[w] = "unequip" => NewCell(w).at = Null /\ Fits(NewCell(w))
         /\ op[w] \notin {"equip", "unequip"} => NewCell(w).at = table[item[w]].at
         /\ op[w] \in {"equip", "unequip"} /\ Kind = "skill"
              => NewCell(w).flag = table[item[w]].flag
<1> DEFINE new == Assigned(w, seen[w])
           now == table[item[w]]
<1>1. seen[w] \in Owned /\ Fits(seen[w]) /\ now \in Owned
  BY DEF StepsMatchOp, Fitting, RowsHeld, Holding, TypeOK, Cell
<1>2. want[w] \in Socket \cup {Null} /\ (op[w] = "equip" => want[w] \in Socket)
  BY DEF TypeOK, StepsMatchOp, Holding
<1>3. /\ new \in Owned
      /\ op[w] = "equip" => new.at = want[w]
      /\ op[w] = "unequip" => new = Cleared(seen[w])
      /\ op[w] \notin {"equip", "unequip"} => new.at = seen[w].at
      /\ op[w] \in {"equip", "unequip"} /\ Kind = "skill" => new.flag = seen[w].flag
  BY <1>1, <1>2, AssignedCell
<1>4. NewCell(w) = [at   |-> IF new.at # seen[w].at THEN new.at ELSE now.at,
                    flag |-> IF new.flag # seen[w].flag THEN new.flag ELSE now.flag]
  BY DEF NewCell
<1>5. op[w] \in {"equip", "unequip"} => new # seen[w]
  BY DEF NetChange
<1>6. NewCell(w) \in Owned
  BY <1>1, <1>3, <1>4 DEF Owned
<1>7. ASSUME op[w] = "equip" PROVE NewCell(w).at = want[w]
  <2>1. CASE Kind = "skill"
    BY <1>1, <1>3, <1>4, <1>5, <1>7, <2>1 DEF Owned
  <2>2. CASE Kind = "rune"
    <3>1. new = [at |-> want[w], flag |-> TRUE]
      BY <1>7, <2>2 DEF Assigned
    <3>2. seen[w].at # want[w]
      BY <1>1, <1>2, <1>5, <1>7, <2>2, <3>1, SocketAssumption DEF Owned, Fits
    <3>3. QED
      BY <1>4, <3>1, <3>2
  <2>3. QED
    BY <2>1, <2>2, KindAssumption
<1>8. ASSUME op[w] = "unequip" PROVE NewCell(w).at = Null /\ Fits(NewCell(w))
  <2>1. CASE Kind = "skill"
    <3>1. new = [seen[w] EXCEPT !.at = Null]
      BY <1>3, <1>8, <2>1 DEF Cleared
    <3>2. seen[w].at # Null
      BY <1>1, <1>5, <1>8, <3>1 DEF Owned
    <3>3. QED
      BY <1>1, <1>4, <2>1, <3>1, <3>2 DEF Owned, Fits
  <2>2. CASE Kind = "rune"
    <3>1. new = [at |-> Null, flag |-> FALSE]
      BY <1>3, <1>8, <2>2 DEF Cleared
    <3>2. seen[w].at # Null /\ seen[w].flag = TRUE
      BY <1>1, <1>5, <1>8, <2>2, <3>1 DEF Owned, Fits
    <3>3. new.at # seen[w].at /\ new.at = Null
      BY <3>1, <3>2
    <3>4. new.flag # seen[w].flag /\ new.flag = FALSE
      <4>1. new.flag = FALSE
        BY <3>1
      <4> HIDE DEF new
      <4>2. QED
        BY <3>2, <4>1
    <3>5. NewCell(w) = [at |-> Null, flag |-> FALSE]
      BY <1>4, <3>3, <3>4
    <3>6. Fits([at |-> Null, flag |-> FALSE])
      BY <2>2 DEF Fits
    <3>7. QED
      BY <3>5, <3>6
  <2>3. QED
    BY <2>1, <2>2, KindAssumption
<1>9. op[w] \notin {"equip", "unequip"} => NewCell(w).at = now.at
  BY <1>3, <1>4
<1>10. op[w] \in {"equip", "unequip"} /\ Kind = "skill" => NewCell(w).flag = now.flag
  BY <1>3, <1>4
<1>11. QED
  BY <1>1, <1>6, <1>7, <1>8, <1>9, <1>10

-----------------------------------------------------------------------------
(* Types and program points.                                                 *)
LEMMA TypeInit == Init => TypeOK /\ StepsMatchOp
  BY CellAssumption
     DEF Init, RowsInit, RequestsInit, TypeOK, StepsMatchOp, NothingPending, Cell, Fitting, Holding,
         Op, Item

\* The first steps of the requests.
LEMMA LoadedRow ==
  ASSUME SocketsSound, NEW w \in Worker, NEW o \in Requests, NEW i \in Item, NEW s \in Socket,
         Load(w, o, i, s)
  PROVE  /\ o \in Op /\ op' = [op EXCEPT ![w] = o] /\ item' = [item EXCEPT ![w] = i]
         /\ o # "create" => table[i] \in Fitting
         /\ seen' = [seen EXCEPT ![w] = table[i]]
         /\ want' = [want EXCEPT ![w] = IF o = "equip" THEN s ELSE Null]
         /\ \/ o = "equip" /\ pc' = [pc EXCEPT ![w] = "clear"]
            \/ o = "create" /\ pc' = [pc EXCEPT ![w] = "insert"]
            \/ o \notin {"equip", "create"} /\ pc' = [pc EXCEPT ![w] = "flush"]
<1>1. o # "create" => table[i] \in Fitting
  BY DEF Load, SocketsSound, TypeOK, Cell, Fitting
<1>2. \/ o = "equip" /\ pc' = [pc EXCEPT ![w] = "clear"]
      \/ o = "create" /\ pc' = [pc EXCEPT ![w] = "insert"]
      \/ o \notin {"equip", "create"} /\ pc' = [pc EXCEPT ![w] = "flush"]
  BY DEF Load, Start, Goto
<1>3. QED
  BY <1>1, <1>2, RequestAssumption DEF Load, Start

\* Every step keeps the correspondence of program point, kind of request and what
\* was loaded.
LEMMA StepsStep ==
  SocketsSound /\ StepsMatchOp /\ [Next]_vars
    => StepsMatchOp'
<1> SUFFICES ASSUME SocketsSound, StepsMatchOp, [Next]_vars
             PROVE  StepsMatchOp'
  OBVIOUS
<1>a. TypeOK
  BY DEF SocketsSound
<1> USE CellAssumption, RequestAssumption
    DEF TypeOK, StepsMatchOp, Holding, Answer, Goto, rowVars
<1>1. ASSUME NEW w \in Worker, NEW o \in Requests, NEW i \in Item, Refuse(w, o, i), UNCHANGED want
      PROVE  StepsMatchOp'
  BY <1>1, <1>a DEF Refuse, Answer, Goto, rowVars
<1>2. ASSUME NEW w \in Worker, NEW i \in Item, RefuseLocked(w, i)
      PROVE  StepsMatchOp'
  BY <1>2, <1>a DEF RefuseLocked, Answer, Goto, rowVars
<1>3. ASSUME NEW w \in Worker, NEW o \in Requests, NEW i \in Item, NEW s \in Socket, Load(w, o, i, s)
      PROVE  StepsMatchOp'
  <2>1. pc[w] = "idle" /\ status' = status
    BY <1>3 DEF Load, Start
  <2>2. status[w] = "none"
    BY <2>1, <1>a
  <2>3. ASSUME NEW v \in Worker, v # w
        PROVE  /\ pc'[v] = pc[v] /\ op'[v] = op[v] /\ item'[v] = item[v]
               /\ want'[v] = want[v] /\ seen'[v] = seen[v] /\ status'[v] = status[v]
    <3>1. /\ op' = [op EXCEPT ![w] = o] /\ item' = [item EXCEPT ![w] = i]
          /\ seen' = [seen EXCEPT ![w] = table[i]]
          /\ want' = [want EXCEPT ![w] = IF o = "equip" THEN s ELSE Null]
          /\ pc' = [pc EXCEPT ![w] = pc'[w]]
      <4>1. pc \in [Worker -> {"idle", "insert", "done"} \cup Holding]
        BY <1>a
      <4>2. \/ pc' = [pc EXCEPT ![w] = "clear"]
            \/ pc' = [pc EXCEPT ![w] = "insert"]
            \/ pc' = [pc EXCEPT ![w] = "flush"]
        BY <1>3, LoadedRow
      <4>3. pc' = [pc EXCEPT ![w] = pc'[w]]
        BY <4>1, <4>2
      <4>4. QED
        BY <1>3, <4>3, LoadedRow
    <3>2. QED
      BY <1>a, <2>1, <2>3, <3>1
  <2>4. /\ op'[w] = o /\ o \in Op /\ item'[w] = i /\ status'[w] = "none"
        /\ seen'[w] = table[i] /\ (o # "create" => table[i] \in Fitting)
        /\ o = "equip" => want'[w] = s
        /\ \/ o = "equip" /\ pc'[w] = "clear"
           \/ o = "create" /\ pc'[w] = "insert"
           \/ o \notin {"equip", "create"} /\ pc'[w] = "flush"
    BY <1>a, <1>3, <2>1, <2>2, LoadedRow
  <2>5. QED
    BY <2>3, <2>4 DEF Item
<1>4. ASSUME NEW w \in Worker, ClearScan(w), UNCHANGED want
      PROVE  StepsMatchOp'
  BY <1>4, <1>a DEF ClearScan, Scan, Stage, Goto
<1>5. ASSUME NEW w \in Worker, ClearApply(w), UNCHANGED want
      PROVE  StepsMatchOp'
  BY <1>5, <1>a DEF ClearApply, Apply, Stage, Goto
<1>6. ASSUME NEW w \in Worker, FlushNothing(w), UNCHANGED want
      PROVE  StepsMatchOp'
  BY <1>6, <1>a DEF FlushNothing, SkipFlush, Goto, rowVars
<1>7. ASSUME NEW w \in Worker, FlushRow(w), UNCHANGED want
      PROVE  StepsMatchOp'
  BY <1>7, <1>a DEF FlushRow, WriteTarget, StageRow, Stage, Goto
<1>8. ASSUME NEW w \in Worker, FlushDelete(w), UNCHANGED want
      PROVE  StepsMatchOp'
  BY <1>8, <1>a DEF FlushDelete, WriteTarget, StageRow, Stage, Goto
<1>9. ASSUME NEW w \in Worker, FlushDeletedTwice(w), UNCHANGED want
      PROVE  StepsMatchOp'
  BY <1>9, <1>a DEF FlushDeletedTwice, Stage, Goto
<1>10. ASSUME NEW w \in Worker, NEW code \in {"409", "check", "500"}, Fail(w, code), UNCHANGED want
       PROVE  StepsMatchOp'
  BY <1>10, <1>a DEF Fail, DropWrites, EndTransaction, NothingPending, Answer, Goto
<1>11. ASSUME NEW w \in Worker, InsertRow(w), UNCHANGED want
       PROVE  StepsMatchOp'
  BY <1>11, <1>a DEF InsertRow, Insert, StageRow, Stage, Goto
<1>12. ASSUME NEW w \in Worker, IndexAccept(w), UNCHANGED want
       PROVE  StepsMatchOp'
  BY <1>12, <1>a DEF IndexAccept, Accepted, Goto, rowVars
<1>13. ASSUME NEW w \in Worker, Commit(w), UNCHANGED want
       PROVE  StepsMatchOp'
  BY <1>13, <1>a DEF Commit, CommitWrites
<1>14. ASSUME NEW w \in Worker, Refresh(w), UNCHANGED want
       PROVE  StepsMatchOp'
  BY <1>14, <1>a DEF Refresh, Answer, Goto, rowVars
<1>15. ASSUME NEW w \in Worker, Finish(w)
       PROVE  StepsMatchOp'
  BY <1>15, <1>a DEF Finish, Return, Goto, rowVars
<1>16. CASE UNCHANGED vars
  BY <1>16, <1>a DEF vars, rowVars, reqVars
<1>17. QED
  BY <1>1, <1>2, <1>3, <1>4, <1>5, <1>6, <1>7, <1>8,
     <1>9, <1>10, <1>11, <1>12, <1>13, <1>14, <1>15, <1>16
     DEF Next, Proceed, Arrive, CheckRejects, FlushStale, UpdateMissed, InsertRejected, IndexReject,
         DeadlockVictim, AbortDeadlock, BusyTimeout, AbortBusy

\* Every step keeps the types.
LEMMA TypeStep ==
  TypeOK /\ StepsMatchOp /\ RowsHeld /\ [Next]_vars
    => TypeOK'
<1> SUFFICES ASSUME TypeOK, StepsMatchOp, RowsHeld, [Next]_vars
             PROVE  TypeOK'
  OBVIOUS
<1> USE CellAssumption, RequestAssumption DEF TypeOK, Holding, Item
<1>1. ASSUME NEW w \in Worker, NEW o \in Requests, NEW i \in Item, Refuse(w, o, i), UNCHANGED want
      PROVE  TypeOK'
  BY <1>1 DEF Refuse, Answer, Goto, rowVars
<1>2. ASSUME NEW w \in Worker, NEW i \in Item, RefuseLocked(w, i)
      PROVE  TypeOK'
  BY <1>2 DEF RefuseLocked, Answer, Goto, rowVars, Op
<1>3. ASSUME NEW w \in Worker, NEW o \in Requests, NEW i \in Item, NEW s \in Socket, Load(w, o, i, s)
      PROVE  TypeOK'
  BY <1>3 DEF Load, Start, Goto, rowVars
<1>4. ASSUME NEW w \in Worker, ClearScan(w), UNCHANGED want
      PROVE  TypeOK'
  BY <1>4 DEF ClearScan, Scan, Stage, Goto, ClearTargets, Inside
<1>5. ASSUME NEW w \in Worker, ClearApply(w), UNCHANGED want
      PROVE  TypeOK'
  <2> DEFINE writes == [j \in Item |->
                     IF j \notin cand[w] THEN pending[w][j]
                     ELSE IF In(table, j, want[w]) THEN Cleared(table[j]) ELSE table[j]]
  <2>1. ASSUME NEW j \in Item, In(table, j, want[w]) PROVE Cleared(table[j]) \in Cell
    BY <2>1, ClearedCell DEF In, Cell
  <2>2. writes \in [Item -> Cell \cup {None}]
    BY <2>1
  <2>3. Apply(w, writes)
    BY <1>5 DEF ClearApply
  <2> HIDE DEF writes
  <2>4. QED
    BY <1>5, <2>2, <2>3 DEF Apply, Stage, Goto
<1>6. ASSUME NEW w \in Worker, FlushNothing(w), UNCHANGED want
      PROVE  TypeOK'
  BY <1>6 DEF FlushNothing, SkipFlush, Goto, rowVars
<1>7. ASSUME NEW w \in Worker, FlushRow(w), UNCHANGED want
      PROVE  TypeOK'
  <2>1. item[w] \in Item /\ NewCell(w) \in Cell
    BY <1>7, FlushedCell DEF FlushRow, WriteTarget, StepsMatchOp, Cell
  <2>2. QED
    BY <1>7, <2>1 DEF FlushRow, WriteTarget, StageRow, Stage, Goto
<1>8. ASSUME NEW w \in Worker, FlushDelete(w), UNCHANGED want
      PROVE  TypeOK'
  <2>1. item[w] \in Item /\ Absent \in Cell
    BY <1>8 DEF FlushDelete, WriteTarget, StepsMatchOp, Cell
  <2>2. QED
    BY <1>8, <2>1 DEF FlushDelete, WriteTarget, StageRow, Stage, Goto
<1>9. ASSUME NEW w \in Worker, FlushDeletedTwice(w), UNCHANGED want
      PROVE  TypeOK'
  BY <1>9 DEF FlushDeletedTwice, Stage, Goto
<1>10. ASSUME NEW w \in Worker, NEW code \in {"409", "check", "500"}, Fail(w, code), UNCHANGED want
       PROVE  TypeOK'
  BY <1>10 DEF Fail, DropWrites, EndTransaction, NothingPending, Answer, Goto
<1>11. ASSUME NEW w \in Worker, InsertRow(w), UNCHANGED want
       PROVE  TypeOK'
  <2>1. PICK f \in BOOLEAN : Insert(w, [at |-> Null, flag |-> f])
    BY <1>11 DEF InsertRow
  <2>2. item[w] \in Item /\ [at |-> Null, flag |-> f] \in Cell
    BY <2>1 DEF Insert, StepsMatchOp, Cell, Owned
  <2>3. QED
    BY <1>11, <2>1, <2>2 DEF Insert, StageRow, Stage, Goto
<1>12. ASSUME NEW w \in Worker, IndexAccept(w), UNCHANGED want
       PROVE  TypeOK'
  BY <1>12 DEF IndexAccept, Accepted, Goto, rowVars
<1>13. ASSUME NEW w \in Worker, Commit(w), UNCHANGED want
       PROVE  TypeOK'
  <2>1. table' \in [Item -> Cell]
    BY <1>13 DEF Commit, CommitWrites, PublishWrites, TableAfter
  <2>2. /\ pending' \in [Worker -> [Item -> Cell \cup {None}]]
        /\ writing' \in [Worker -> BOOLEAN]
    BY <1>13 DEF Commit, CommitWrites, PublishWrites, EndTransaction, NothingPending
  <2>3. cand' \in [Worker -> SUBSET Item]
    BY <1>13 DEF Commit, CommitWrites
  <2>4. gone' \in [Worker -> BOOLEAN] /\ rival' \in [Worker -> BOOLEAN]
    BY <1>13, Zenon DEF Commit, CommitWrites, LosesRow, LosesRace
  <2>5. QED
    BY <1>13, <2>1, <2>2, <2>3, <2>4 DEF Commit, CommitWrites, Answer, Goto
<1>14. ASSUME NEW w \in Worker, Refresh(w), UNCHANGED want
       PROVE  TypeOK'
  BY <1>14 DEF Refresh, Answer, Goto, rowVars
<1>15. ASSUME NEW w \in Worker, Finish(w)
       PROVE  TypeOK'
  BY <1>15 DEF Finish, Return, Goto, rowVars
<1>16. CASE UNCHANGED vars
  BY <1>16 DEF vars, rowVars, reqVars
<1>17. QED
  BY <1>1, <1>2, <1>3, <1>4, <1>5, <1>6, <1>7, <1>8,
     <1>9, <1>10, <1>11, <1>12, <1>13, <1>14, <1>15, <1>16
     DEF Next, Proceed, Arrive, CheckRejects, FlushStale, UpdateMissed, InsertRejected, IndexReject,
         DeadlockVictim, AbortDeadlock, BusyTimeout, AbortBusy

-----------------------------------------------------------------------------
(* Locks and rows.                                                           *)
\* A row has one writer, and SQLite's database has one.
LEMMA LocksStep ==
  TypeOK /\ StepsMatchOp /\ LocksExclusive /\ WritersHoldLock /\ [Next]_vars
    => (LocksExclusive /\ WritersHoldLock)'
<1> SUFFICES ASSUME TypeOK, StepsMatchOp, LocksExclusive, WritersHoldLock, [Next]_vars
             PROVE  (LocksExclusive /\ WritersHoldLock)'
  OBVIOUS
<1> USE CellAssumption, DialectAssumption
    DEF TypeOK, StepsMatchOp, LocksExclusive, WritersHoldLock, Item, Contending, Holding
<1>1. ASSUME NEW w \in Worker, NEW o \in Requests, NEW i \in Item, Refuse(w, o, i), UNCHANGED want
      PROVE  (LocksExclusive /\ WritersHoldLock)'
  BY <1>1 DEF Refuse, Answer, Goto, rowVars
<1>2. ASSUME NEW w \in Worker, NEW i \in Item, RefuseLocked(w, i)
      PROVE  (LocksExclusive /\ WritersHoldLock)'
  BY <1>2 DEF RefuseLocked, Answer, Goto, rowVars
<1>3. ASSUME NEW w \in Worker, NEW o \in Requests, NEW i \in Item, NEW s \in Socket, Load(w, o, i, s)
      PROVE  (LocksExclusive /\ WritersHoldLock)'
  BY <1>3 DEF Load, Start, Goto, rowVars
<1>4. ASSUME NEW w \in Worker, ClearScan(w), UNCHANGED want
      PROVE  (LocksExclusive /\ WritersHoldLock)'
  BY <1>4 DEF ClearScan, Scan, Stage, Goto, WriterLockFree
<1>5. ASSUME NEW w \in Worker, ClearApply(w), UNCHANGED want
      PROVE  (LocksExclusive /\ WritersHoldLock)'
  <2>1. /\ \A j \in Item : pending'[w][j] = None \/ pending[w][j] # None \/ j \in cand[w]
        /\ \A v \in Worker \ {w} : pending'[v] = pending[v] /\ writing'[v] = writing[v]
        /\ writing[w] /\ writing'[w]
    BY <1>5 DEF ClearApply, Apply, Stage
  <2>2. pc'[w] = "flush" /\ op' = op /\ \A v \in Worker \ {w} : pc'[v] = pc[v]
    BY <1>5 DEF ClearApply, Apply, Goto
  <2>3. \A v \in Worker \ {w} : \A j \in cand[w] : pending[v][j] = None
    BY <1>5 DEF ClearApply, Apply, Blockers
  <2>4. ASSUME NEW u \in Worker, NEW v \in Worker, u # v
        PROVE  /\ \A j \in Item : pending'[u][j] = None \/ pending'[v][j] = None
               /\ Dialect = "sqlite" => ~(writing'[u] /\ writing'[v])
    BY <2>1, <2>3, <2>4
  <2>5. ASSUME NEW v \in Worker
        PROVE  /\ \A j \in Item : pending'[v][j] # None => writing'[v]
               /\ op'[v] = "equip" /\ pc'[v] \in Contending => writing'[v]
    BY <2>1, <2>2, <2>5
  <2>6. QED
    BY <2>4, <2>5
<1>6. ASSUME NEW w \in Worker, FlushNothing(w), UNCHANGED want
      PROVE  (LocksExclusive /\ WritersHoldLock)'
  BY <1>6 DEF FlushNothing, SkipFlush, Goto, rowVars
<1>7. ASSUME NEW w \in Worker, FlushRow(w), UNCHANGED want
      PROVE  (LocksExclusive /\ WritersHoldLock)'
  BY <1>7 DEF FlushRow, WriteTarget, StageRow, Stage, Goto, TargetBlockers, Blockers
<1>8. ASSUME NEW w \in Worker, FlushDelete(w), UNCHANGED want
      PROVE  (LocksExclusive /\ WritersHoldLock)'
  BY <1>8 DEF FlushDelete, WriteTarget, StageRow, Stage, Goto, TargetBlockers, Blockers
<1>9. ASSUME NEW w \in Worker, FlushDeletedTwice(w), UNCHANGED want
      PROVE  (LocksExclusive /\ WritersHoldLock)'
  BY <1>9 DEF FlushDeletedTwice, Stage, Goto, TargetBlockers, Blockers
<1>10. ASSUME NEW w \in Worker, NEW code \in {"409", "check", "500"}, Fail(w, code), UNCHANGED want
       PROVE  (LocksExclusive /\ WritersHoldLock)'
  BY <1>10 DEF Fail, DropWrites, EndTransaction, NothingPending, Answer, Goto
<1>11. ASSUME NEW w \in Worker, InsertRow(w), UNCHANGED want
       PROVE  (LocksExclusive /\ WritersHoldLock)'
  BY <1>11 DEF InsertRow, Insert, StageRow, Stage, Goto, Blockers
<1>12. ASSUME NEW w \in Worker, IndexAccept(w), UNCHANGED want
       PROVE  (LocksExclusive /\ WritersHoldLock)'
  BY <1>12 DEF IndexAccept, Accepted, Goto, rowVars
<1>13. ASSUME NEW w \in Worker, Commit(w), UNCHANGED want
       PROVE  (LocksExclusive /\ WritersHoldLock)'
  BY <1>13 DEF Commit, CommitWrites, PublishWrites, TableAfter, DeletedBy, EndTransaction, NothingPending, Answer, Goto
<1>14. ASSUME NEW w \in Worker, Refresh(w), UNCHANGED want
       PROVE  (LocksExclusive /\ WritersHoldLock)'
  BY <1>14 DEF Refresh, Answer, Goto, rowVars
<1>15. ASSUME NEW w \in Worker, Finish(w)
       PROVE  (LocksExclusive /\ WritersHoldLock)'
  BY <1>15 DEF Finish, Return, Goto, rowVars
<1>16. CASE UNCHANGED vars
  BY <1>16 DEF vars, rowVars, reqVars
<1>17. QED
  BY <1>1, <1>2, <1>3, <1>4, <1>5, <1>6, <1>7, <1>8,
     <1>9, <1>10, <1>11, <1>12, <1>13, <1>14, <1>15, <1>16
     DEF Next, Proceed, Arrive, CheckRejects, FlushStale, UpdateMissed, InsertRejected, IndexReject,
         DeadlockVictim, AbortDeadlock, BusyTimeout, AbortBusy

\* A request that goes on with a row finds it in the table until another request's
\* delete commits, and the rows of its clear likewise.
LEMMA RowsHeldStep ==
  TypeOK /\ StepsMatchOp /\ RowsHeld /\ StagedByRequest /\ [Next]_vars
    => RowsHeld'
<1> SUFFICES ASSUME TypeOK, StepsMatchOp, RowsHeld, StagedByRequest, [Next]_vars
             PROVE  RowsHeld'
  OBVIOUS
<1> USE CellAssumption DEF TypeOK, StepsMatchOp, RowsHeld, Item, Holding
<1>1. ASSUME NEW w \in Worker, NEW o \in Requests, NEW i \in Item, Refuse(w, o, i), UNCHANGED want
      PROVE  RowsHeld'
  BY <1>1 DEF Refuse, Answer, Goto, rowVars
<1>2. ASSUME NEW w \in Worker, NEW i \in Item, RefuseLocked(w, i)
      PROVE  RowsHeld'
  BY <1>2 DEF RefuseLocked, Answer, Goto, rowVars
<1>3. ASSUME NEW w \in Worker, NEW o \in Requests, NEW i \in Item, NEW s \in Socket, Load(w, o, i, s)
      PROVE  RowsHeld'
  BY <1>3 DEF Load, Start, Goto, rowVars
<1>4. ASSUME NEW w \in Worker, ClearScan(w), UNCHANGED want
      PROVE  RowsHeld'
  BY <1>4 DEF ClearScan, Scan, Stage, Goto, ClearTargets, Inside, In
<1>5. ASSUME NEW w \in Worker, ClearApply(w), UNCHANGED want
      PROVE  RowsHeld'
  BY <1>5 DEF ClearApply, Apply, Stage, Goto
<1>6. ASSUME NEW w \in Worker, FlushNothing(w), UNCHANGED want
      PROVE  RowsHeld'
  BY <1>6 DEF FlushNothing, SkipFlush, Goto, rowVars
<1>7. ASSUME NEW w \in Worker, FlushRow(w), UNCHANGED want
      PROVE  RowsHeld'
  BY <1>7 DEF FlushRow, WriteTarget, StageRow, Stage, Goto
<1>8. ASSUME NEW w \in Worker, FlushDelete(w), UNCHANGED want
      PROVE  RowsHeld'
  BY <1>8 DEF FlushDelete, WriteTarget, StageRow, Stage, Goto
<1>9. ASSUME NEW w \in Worker, FlushDeletedTwice(w), UNCHANGED want
      PROVE  RowsHeld'
  BY <1>9 DEF FlushDeletedTwice, Stage, Goto
<1>10. ASSUME NEW w \in Worker, NEW code \in {"409", "check", "500"}, Fail(w, code), UNCHANGED want
       PROVE  RowsHeld'
  BY <1>10 DEF Fail, DropWrites, EndTransaction, NothingPending, Answer, Goto
<1>11. ASSUME NEW w \in Worker, InsertRow(w), UNCHANGED want
       PROVE  RowsHeld'
  BY <1>11 DEF InsertRow, Insert, StageRow, Stage, Goto
<1>12. ASSUME NEW w \in Worker, IndexAccept(w), UNCHANGED want
       PROVE  RowsHeld'
  BY <1>12 DEF IndexAccept, Accepted, Goto, rowVars
<1>13. ASSUME NEW w \in Worker, Commit(w), UNCHANGED want
       PROVE  RowsHeld'
  <2> DEFINE D == DeletedBy(w)
  <2>1. /\ pc' = [pc EXCEPT ![w] = IF op[w] = "delete" THEN "done" ELSE "refresh"]
        /\ op' = op /\ \A v \in Worker \ {w} : item'[v] = item[v]
        /\ op[w] # "delete" => item' = item
        /\ cand' = [v \in Worker |-> cand[v] \ D]
    BY <1>13 DEF Commit, CommitWrites, Answer, Goto
  <2>2. \A v \in Worker \ {w} : pc[v] \in Holding /\ ~gone'[v] => ~gone[v] /\ item[v] \notin D
    BY <1>13, Zenon DEF Commit, CommitWrites, LosesRow
  <2>3. \A i \in Item : table[i] # Absent /\ i \notin D => table'[i] # Absent
    BY <1>13 DEF Commit, CommitWrites, PublishWrites, TableAfter, DeletedBy
  <2>4. op[w] # "delete" /\ ~gone'[w] => ~gone[w]
    BY <1>13, Zenon DEF Commit, CommitWrites
  <2>5. op[w] # "delete" => D = {}
    BY DEF DeletedBy, StagedByRequest, StagedBy, Cell
  <2>6. pc[w] = "commit" /\ cand[w] = {}
    BY <1>13 DEF Commit, CommitWrites
  <2>7. ASSUME NEW v \in Worker, v # w
        PROVE  /\ pc'[v] \in Holding /\ ~gone'[v] /\ op'[v] # "create" => table'[item'[v]] # Absent
               /\ \A j \in cand'[v] : table'[j] # Absent /\ pc'[v] = "apply"
    BY <2>1, <2>2, <2>3, <2>7
  <2>8. /\ pc'[w] \in Holding /\ ~gone'[w] /\ op'[w] # "create" => table'[item'[w]] # Absent
        /\ cand'[w] = {}
    BY <2>1, <2>3, <2>4, <2>5, <2>6
  <2>9. QED
    BY <2>7, <2>8
<1>14. ASSUME NEW w \in Worker, Refresh(w), UNCHANGED want
       PROVE  RowsHeld'
  BY <1>14 DEF Refresh, Answer, Goto, rowVars
<1>15. ASSUME NEW w \in Worker, Finish(w)
       PROVE  RowsHeld'
  BY <1>15 DEF Finish, Return, Goto, rowVars
<1>16. CASE UNCHANGED vars
  BY <1>16 DEF vars, rowVars, reqVars
<1>17. QED
  BY <1>1, <1>2, <1>3, <1>4, <1>5, <1>6, <1>7, <1>8,
     <1>9, <1>10, <1>11, <1>12, <1>13, <1>14, <1>15, <1>16
     DEF Next, Proceed, Arrive, CheckRejects, FlushStale, UpdateMissed, InsertRejected, IndexReject,
         DeadlockVictim, AbortDeadlock, BusyTimeout, AbortBusy

-----------------------------------------------------------------------------
(* What is staged.                                                           *)
LEMMA NothingStagedYet ==
  ASSUME StagedByRequest, NEW w \in Worker, pc[w] \notin {"flush", "index", "commit"}
  PROVE  \A i \in Item : pending[w][i] = None
  BY DEF StagedByRequest, StagedBy

\* What is staged keeps its meaning while the request and the row stay as they are.
LEMMA StagedStands ==
  ASSUME StagedByRequest, NEW w \in Worker, NEW i \in Item, pending'[w][i] # None,
         pending'[w][i] = pending[w][i], table'[i] = table[i],
         op'[w] = op[w], item'[w] = item[w], want'[w] = want[w],
         pc'[w] = pc[w] \/ pc'[w] \in {"index", "commit"}
  PROVE  StagedBy(w, i)'
<1>1. StagedBy(w, i)
  BY DEF StagedByRequest
<1>2. pending'[w][i] # Absent => StagedAt(w, i)'
  BY <1>1 DEF StagedBy, StagedAt
<1>3. QED
  BY <1>1, <1>2 DEF StagedBy, Fits

(* A step of w that leaves the other requests as they are.                   *)
OthersKeep(w) ==
  \A v \in Worker \ {w} :
    /\ pending'[v] = pending[v] /\ pc'[v] = pc[v] /\ op'[v] = op[v]
    /\ item'[v] = item[v] /\ want'[v] = want[v]

LEMMA OwnStep ==
  ASSUME StagedByRequest, NEW w \in Worker, UNCHANGED table, OthersKeep(w),
         \A i \in Item : pending'[w][i] # None => StagedBy(w, i)'
  PROVE  StagedByRequest'
<1>1. ASSUME NEW v \in Worker \ {w}, NEW i \in Item, pending'[v][i] # None
      PROVE  StagedBy(v, i)'
  BY <1>1, StagedStands DEF OthersKeep
<1>2. QED
  BY <1>1 DEF StagedByRequest

\* What each kind of request stages.
LEMMA StagedByStep ==
  TypeOK /\ StepsMatchOp /\ LocksExclusive /\ RowsHeld /\ StagedByRequest /\ SocketsSound /\ [Next]_vars
    => StagedByRequest'
<1> SUFFICES ASSUME TypeOK, StepsMatchOp, LocksExclusive, RowsHeld, StagedByRequest, SocketsSound, [Next]_vars
             PROVE  StagedByRequest'
  OBVIOUS
<1> USE CellAssumption DEF TypeOK, StepsMatchOp, Item, Holding
<1>1. ASSUME NEW w \in Worker, NEW o \in Requests, NEW i \in Item, Refuse(w, o, i), UNCHANGED want
      PROVE  StagedByRequest'
  <2>1. UNCHANGED <<table, pending>> /\ OthersKeep(w)
    BY <1>1 DEF Refuse, Answer, Goto, rowVars, OthersKeep
  <2>2. pc[w] \in {"idle", "clear", "refresh", "done"}
    BY <1>1 DEF Refuse, Answer, Goto, rowVars
  <2>3. \A j \in Item : pending'[w][j] = None
    BY <2>1, <2>2, NothingStagedYet
  <2>4. QED
    BY <2>1, <2>3, OwnStep
<1>2. ASSUME NEW w \in Worker, NEW i \in Item, RefuseLocked(w, i)
      PROVE  StagedByRequest'
  <2>1. UNCHANGED <<table, pending>> /\ OthersKeep(w)
    BY <1>2 DEF RefuseLocked, Answer, Goto, rowVars, OthersKeep
  <2>2. pc[w] \in {"idle", "clear", "refresh", "done"}
    BY <1>2 DEF RefuseLocked, Answer, Goto, rowVars
  <2>3. \A j \in Item : pending'[w][j] = None
    BY <2>1, <2>2, NothingStagedYet
  <2>4. QED
    BY <2>1, <2>3, OwnStep
<1>3. ASSUME NEW w \in Worker, NEW o \in Requests, NEW i \in Item, NEW s \in Socket, Load(w, o, i, s)
      PROVE  StagedByRequest'
  <2>1. UNCHANGED <<table, pending>> /\ OthersKeep(w)
    BY <1>3 DEF Load, Start, Goto, rowVars, OthersKeep
  <2>2. pc[w] \in {"idle", "clear", "refresh", "done"}
    BY <1>3 DEF Load, Start, Goto, rowVars
  <2>3. \A j \in Item : pending'[w][j] = None
    BY <2>1, <2>2, NothingStagedYet
  <2>4. QED
    BY <2>1, <2>3, OwnStep
<1>4. ASSUME NEW w \in Worker, ClearScan(w), UNCHANGED want
      PROVE  StagedByRequest'
  <2>1. UNCHANGED <<table, pending>> /\ OthersKeep(w)
    BY <1>4 DEF ClearScan, Scan, Stage, Goto, OthersKeep
  <2>2. pc[w] \in {"idle", "clear", "refresh", "done"}
    BY <1>4 DEF ClearScan, Scan, Stage, Goto
  <2>3. \A j \in Item : pending'[w][j] = None
    BY <2>1, <2>2, NothingStagedYet
  <2>4. QED
    BY <2>1, <2>3, OwnStep
<1>5. ASSUME NEW w \in Worker, ClearApply(w), UNCHANGED want
      PROVE  StagedByRequest'
  <2>1. UNCHANGED table /\ OthersKeep(w)
    BY <1>5 DEF ClearApply, Apply, Stage, Goto, OthersKeep
  <2>2. /\ op'[w] = "equip" /\ pc'[w] = "flush" /\ want'[w] = want[w]
        /\ want[w] \in Socket
    BY <1>5 DEF ClearApply, Apply, Goto
  <2>3. \A j \in Item : pending[w][j] = None
    BY <1>5, NothingStagedYet DEF ClearApply, Apply
  <2>4. ASSUME NEW j \in Item, pending'[w][j] # None
        PROVE  StagedBy(w, j)'
    <3>1. /\ j \in cand[w]
          /\ pending'[w][j] = IF In(table, j, want[w]) THEN Cleared(table[j]) ELSE table[j]
      BY <1>5, <2>3, <2>4 DEF ClearApply, Apply, Stage
    <3>2. table[j] \in Owned /\ Fits(table[j])
      BY <3>1 DEF RowsHeld, Cell, SocketsSound
    <3>3. CASE In(table, j, want[w])
      <4>1. pending'[w][j] = Cleared(table[j]) /\ table[j].at = want[w]
        BY <3>1, <3>3 DEF In
      <4>2. /\ pending'[w][j] \in Owned /\ pending'[w][j].at = Null /\ Fits(pending'[w][j])
            /\ Kind = "skill" => pending'[w][j].flag = table[j].flag
        BY <3>2, <4>1, ClearedCell
      <4>3. QED
        BY <2>1, <2>2, <3>2, <4>1, <4>2 DEF StagedBy, StagedAt, Fits
    <3>4. CASE ~In(table, j, want[w])
      <4>1. pending'[w][j] = table[j] /\ table[j].at # want[w]
        BY <3>1, <3>2, <3>4 DEF In
      <4>2. QED
        BY <2>1, <2>2, <3>2, <4>1 DEF StagedBy, StagedAt, Fits
    <3>5. QED
      BY <3>3, <3>4
  <2>5. QED
    BY <2>1, <2>4, OwnStep
<1>6. ASSUME NEW w \in Worker, FlushNothing(w), UNCHANGED want
      PROVE  StagedByRequest'
  <2>1. UNCHANGED <<table, pending>> /\ OthersKeep(w)
    BY <1>6 DEF FlushNothing, SkipFlush, Goto, rowVars, OthersKeep
  <2>2. UNCHANGED <<op, item, want>> /\ pc'[w] = "commit"
    BY <1>6 DEF FlushNothing, SkipFlush, Goto
  <2>3. QED
    BY <2>1, <2>2, StagedStands, OwnStep
<1>7. ASSUME NEW w \in Worker, FlushRow(w), UNCHANGED want
      PROVE  StagedByRequest'
  <2>1. UNCHANGED table /\ OthersKeep(w)
    BY <1>7 DEF FlushRow, WriteTarget, StageRow, Stage, Goto, OthersKeep
  <2>2. /\ pc[w] = "flush" /\ op[w] \in Op \ {"create", "delete"} /\ item[w] \in Item
        /\ ~gone[w] /\ UNCHANGED <<op, item, want>>
        /\ pc'[w] = IF op[w] = "equip" THEN "index" ELSE "commit"
    BY <1>7 DEF FlushRow, WriteTarget, Goto
  <2>3. ASSUME NEW j \in Item, pending'[w][j] # None
        PROVE  StagedBy(w, j)'
    <3>1. CASE j # item[w]
      <4>1. pending'[w][j] = pending[w][j]
        BY <1>7, <3>1 DEF FlushRow, WriteTarget, StageRow, Stage
      <4>2. QED
        BY <2>1, <2>2, <2>3, <4>1, StagedStands
    <3>2. CASE j = item[w]
      <4>1. pending'[w][j] = NewCell(w) /\ Fits(NewCell(w))
        BY <1>7, <3>2 DEF FlushRow, WriteTarget, StageRow, Stage
      <4>2. /\ table[j] \in Owned /\ NewCell(w) \in Owned
            /\ op[w] = "equip" => NewCell(w).at = want[w]
            /\ op[w] = "unequip" => NewCell(w).at = Null
            /\ op[w] \notin {"equip", "unequip"} => NewCell(w).at = table[j].at
            /\ op[w] \in {"equip", "unequip"} /\ Kind = "skill" => NewCell(w).flag = table[j].flag
        BY <1>7, <2>2, <3>2, FlushedCell DEF FlushRow
      <4>3. StagedAt(w, j)'
        BY <2>1, <2>2, <3>2, <4>1, <4>2 DEF StagedAt
      <4>4. QED
        BY <2>1, <2>2, <3>2, <4>1, <4>2, <4>3 DEF StagedBy, Fits
    <3>3. QED
      BY <3>1, <3>2
  <2>4. QED
    BY <2>1, <2>3, OwnStep
<1>8. ASSUME NEW w \in Worker, FlushDelete(w), UNCHANGED want
      PROVE  StagedByRequest'
  <2>1. UNCHANGED table /\ OthersKeep(w)
    BY <1>8 DEF FlushDelete, WriteTarget, StageRow, Stage, Goto, OthersKeep
  <2>2. /\ pc[w] = "flush" /\ op[w] = "delete" /\ item[w] \in Item /\ ~gone[w]
        /\ UNCHANGED <<op, item, want>> /\ pc'[w] = "commit"
    BY <1>8 DEF FlushDelete, WriteTarget, Goto
  <2>3. ASSUME NEW j \in Item, pending'[w][j] # None
        PROVE  StagedBy(w, j)'
    <3>1. CASE j # item[w]
      <4>1. pending'[w][j] = pending[w][j]
        BY <1>8, <3>1 DEF FlushDelete, WriteTarget, StageRow, Stage
      <4>2. QED
        BY <2>1, <2>2, <2>3, <4>1, StagedStands
    <3>2. CASE j = item[w]
      <4>1. pending'[w][j] = Absent
        BY <1>8, <3>2 DEF FlushDelete, WriteTarget, StageRow, Stage
      <4>2. table[j] # Absent
        BY <2>2, <3>2 DEF RowsHeld
      <4>3. QED
        BY <2>1, <2>2, <3>2, <4>1, <4>2 DEF StagedBy
    <3>3. QED
      BY <3>1, <3>2
  <2>4. QED
    BY <2>1, <2>3, OwnStep
<1>9. ASSUME NEW w \in Worker, FlushDeletedTwice(w), UNCHANGED want
      PROVE  StagedByRequest'
  <2>1. UNCHANGED table /\ OthersKeep(w) /\ pending'[w] = pending[w]
    BY <1>9 DEF FlushDeletedTwice, Stage, Goto, OthersKeep
  <2>2. UNCHANGED <<op, item, want>> /\ pc'[w] = "commit"
    BY <1>9 DEF FlushDeletedTwice, Goto
  <2>3. QED
    BY <2>1, <2>2, StagedStands, OwnStep
<1>10. ASSUME NEW w \in Worker, NEW code \in {"409", "check", "500"}, Fail(w, code), UNCHANGED want
       PROVE  StagedByRequest'
  <2>1. UNCHANGED table /\ OthersKeep(w) /\ \A j \in Item : pending'[w][j] = None
    BY <1>10 DEF Fail, DropWrites, EndTransaction, NothingPending, Answer, Goto, OthersKeep
  <2>2. QED
    BY <2>1, OwnStep
<1>11. ASSUME NEW w \in Worker, InsertRow(w), UNCHANGED want
       PROVE  StagedByRequest'
  <2>1. UNCHANGED table /\ OthersKeep(w)
    BY <1>11 DEF InsertRow, Insert, StageRow, Stage, Goto, OthersKeep
  <2>2. /\ pc[w] = "insert" /\ op[w] = "create" /\ table[item[w]] = Absent
        /\ UNCHANGED <<op, item, want>> /\ pc'[w] = "commit"
    BY <1>11 DEF InsertRow, Insert, Goto
  <2>3. PICK f \in BOOLEAN : /\ Kind = "rune" => ~f
                             /\ pending' = [pending EXCEPT ![w] =
                                  [pending[w] EXCEPT ![item[w]] = [at |-> Null, flag |-> f]]]
    BY <1>11 DEF InsertRow, Insert, StageRow, Stage
  <2>4. \A j \in Item : pending[w][j] = None
    BY <2>2, NothingStagedYet
  <2>5. ASSUME NEW j \in Item, pending'[w][j] # None
        PROVE  StagedBy(w, j)'
    <3>1. j = item[w] /\ pending'[w][j] = [at |-> Null, flag |-> f]
      BY <2>3, <2>4, <2>5
    <3>2. Fits([at |-> Null, flag |-> f])
      BY <2>3, KindAssumption DEF Fits
    <3>3. [at |-> Null, flag |-> f] # Absent
      BY DEF Owned
    <3>4. QED
      BY <2>1, <2>2, <3>1, <3>2, <3>3 DEF StagedBy, StagedAt, Fits
  <2>6. QED
    BY <2>1, <2>5, OwnStep
<1>12. ASSUME NEW w \in Worker, IndexAccept(w), UNCHANGED want
       PROVE  StagedByRequest'
  <2>1. UNCHANGED <<table, pending>> /\ OthersKeep(w)
    BY <1>12 DEF IndexAccept, Accepted, Goto, rowVars, OthersKeep
  <2>2. UNCHANGED <<op, item, want>> /\ pc'[w] = "commit"
    BY <1>12 DEF IndexAccept, Accepted, Goto
  <2>3. QED
    BY <2>1, <2>2, StagedStands, OwnStep
<1>13. ASSUME NEW w \in Worker, Commit(w), UNCHANGED want
       PROVE  StagedByRequest'
  <2>1. /\ OthersKeep(w) /\ \A j \in Item : pending'[w][j] = None
        /\ \A j \in Item : pending[w][j] = None => table'[j] = table[j]
    BY <1>13 DEF Commit, CommitWrites, PublishWrites, TableAfter, EndTransaction, NothingPending,
              Answer, Goto, OthersKeep
  <2>2. ASSUME NEW v \in Worker, NEW j \in Item, pending'[v][j] # None
        PROVE  StagedBy(v, j)'
    <3>1. v # w /\ pending[v][j] # None
      BY <2>1, <2>2 DEF OthersKeep
    <3>2. table'[j] = table[j]
      BY <2>1, <3>1 DEF LocksExclusive
    <3>3. QED
      BY <2>1, <2>2, <3>1, <3>2, StagedStands DEF OthersKeep
  <2>3. QED
    BY <2>2 DEF StagedByRequest
<1>14. ASSUME NEW w \in Worker, Refresh(w), UNCHANGED want
       PROVE  StagedByRequest'
  <2>1. UNCHANGED <<table, pending>> /\ OthersKeep(w)
    BY <1>14 DEF Refresh, Answer, Goto, rowVars, OthersKeep
  <2>2. pc[w] \in {"idle", "clear", "refresh", "done"}
    BY <1>14 DEF Refresh, Answer, Goto, rowVars
  <2>3. \A j \in Item : pending'[w][j] = None
    BY <2>1, <2>2, NothingStagedYet
  <2>4. QED
    BY <2>1, <2>3, OwnStep
<1>15. ASSUME NEW w \in Worker, Finish(w)
       PROVE  StagedByRequest'
  <2>1. UNCHANGED <<table, pending>> /\ OthersKeep(w)
    BY <1>15 DEF Finish, Return, Goto, rowVars, OthersKeep
  <2>2. pc[w] \in {"idle", "clear", "refresh", "done"}
    BY <1>15 DEF Finish, Return, Goto, rowVars
  <2>3. \A j \in Item : pending'[w][j] = None
    BY <2>1, <2>2, NothingStagedYet
  <2>4. QED
    BY <2>1, <2>3, OwnStep
<1>16. CASE UNCHANGED vars
  <2>1. UNCHANGED <<table, pending, pc, op, item, want>>
    BY <1>16 DEF vars, rowVars, reqVars
  <2>2. QED
    BY <2>1, StagedStands DEF StagedByRequest
<1>17. QED
  BY <1>1, <1>2, <1>3, <1>4, <1>5, <1>6, <1>7, <1>8,
     <1>9, <1>10, <1>11, <1>12, <1>13, <1>14, <1>15, <1>16
     DEF Next, Proceed, Arrive, CheckRejects, FlushStale, UpdateMissed, InsertRejected, IndexReject,
         DeadlockVictim, AbortDeadlock, BusyTimeout, AbortBusy

-----------------------------------------------------------------------------
(* One item in a socket.                                                     *)
LEMMA OnlyCommitPublishes ==
  [Next]_vars => (\E w \in Worker : Commit(w)) \/ UNCHANGED table
<1>1. ASSUME NEW w \in Worker, Proceed(w)
      PROVE  Commit(w) \/ UNCHANGED table
  BY <1>1
     DEF Proceed, ClearScan, Scan, ClearApply, Apply, FlushNothing, SkipFlush, rowVars, FlushRow,
         WriteTarget, CheckRejects, FlushDelete, FlushDeletedTwice, FlushStale, UpdateMissed, InsertRow,
         Insert, InsertRejected, IndexAccept, Accepted, IndexReject, Refresh, Finish, Return,
         DeadlockVictim, AbortDeadlock, BusyTimeout, AbortBusy, Fail, DropWrites
<1>2. ASSUME NEW w \in Worker, Arrive(w)
      PROVE  UNCHANGED table
  BY <1>2 DEF Arrive, Refuse, RefuseLocked, Load, Start, rowVars
<1>3. QED
  BY <1>1, <1>2 DEF Next, vars, rowVars

LEMMA Published ==
  ASSUME TypeOK, NEW w \in Worker, Commit(w), NEW i \in Item
  PROVE  table'[i] = IF pending[w][i] = None THEN table[i] ELSE pending[w][i]
  BY DEF Commit, CommitWrites, PublishWrites, TableAfter, Item

\* A commit puts at most one item into a socket, the one its request equipped.
LEMMA CommitPuts ==
  ASSUME TypeOK, StepsMatchOp, StagedByRequest, NEW w \in Worker, Commit(w),
         NEW i \in Item, NEW s \in Socket, In(table', i, s), ~In(table, i, s)
  PROVE  Indexed(w) /\ i = item[w] /\ s = want[w]
<1>1. pending[w][i] # None /\ pending[w][i] # Absent /\ pending[w][i].at = s
  BY Published DEF In
<1>2. StagedBy(w, i) /\ StagedAt(w, i) /\ op[w] # "delete"
  BY <1>1 DEF StagedByRequest, StagedBy
<1>3. pc[w] = "commit" /\ op[w] \in Op
  BY DEF Commit, CommitWrites, StepsMatchOp, Holding
<1>4. Null # s
  BY SocketAssumption
<1>5. table[i].at # s \/ table[i] = Absent
  BY DEF In
<1>6. op[w] = "equip"
  BY <1>1, <1>2, <1>3, <1>4, <1>5 DEF StagedBy, StagedAt, Op
<1>7. i = item[w] /\ s = want[w]
  BY <1>1, <1>2, <1>4, <1>5, <1>6 DEF StagedBy, StagedAt
<1>8. QED
  BY <1>1, <1>3, <1>6, <1>7 DEF Indexed, StagedIn

\* What an equip has cleared does not come back into its socket.
LEMMA ClearedStaysOut ==
  ASSUME TypeOK, StepsMatchOp, StagedByRequest, NEW w \in Worker, Commit(w), op[w] = "equip",
         NEW i \in Item, i # item[w], pending[w][i] # None
  PROVE  ~In(table', i, want[w])
<1>1. StagedBy(w, i) /\ table'[i] = pending[w][i]
  BY Published DEF StagedByRequest
<1>2. want[w] # Null
  BY SocketAssumption DEF Commit, CommitWrites, StepsMatchOp, Holding
<1>3. QED
  BY <1>1, <1>2 DEF StagedBy, StagedAt, In

\* So the index's promise survives a commit: every row stays sound.
LEMMA SoundStep ==
  SocketsSound /\ StepsMatchOp /\ RowsHeld /\ StagedByRequest /\ AcceptedStaysUnique /\ [Next]_vars
    => SocketsSound'
<1> SUFFICES ASSUME SocketsSound, StepsMatchOp, RowsHeld, StagedByRequest, AcceptedStaysUnique,
                    [Next]_vars
             PROVE  SocketsSound'
  OBVIOUS
<1>1. TypeOK
  BY DEF SocketsSound
<1>2. TypeOK'
  BY <1>1, TypeStep
<1>3. CASE UNCHANGED table
  BY <1>2, <1>3 DEF SocketsSound, UniquelySocketed, Inside, In
<1>4. ASSUME NEW w \in Worker, Commit(w)
      PROVE  SocketsSound'
  <2>1. ASSUME NEW i \in Item, table'[i] # Absent
        PROVE  Fits(table'[i])
    <3>1. CASE pending[w][i] = None
      <4>1. table'[i] = table[i]
        BY <1>1, <1>4, <3>1, Published
      <4>2. QED
        BY <2>1, <4>1 DEF SocketsSound, Fits
    <3>2. CASE pending[w][i] # None
      <4>1. table'[i] = pending[w][i] /\ StagedBy(w, i)
        BY <1>1, <1>4, <3>2, Published DEF StagedByRequest
      <4>2. QED
        BY <2>1, <4>1 DEF StagedBy, Fits
    <3>3. QED
      BY <3>1, <3>2
  <2>2. ASSUME NEW s \in Socket, NEW i \in Item, In(table', i, s), ~In(table, i, s),
               NEW j \in Item, In(table', j, s)
        PROVE  i = j
    <3>1. Indexed(w) /\ i = item[w] /\ s = want[w]
      BY <1>1, <1>4, <2>2, CommitPuts
    <3>2. CASE In(table, j, s)
      <4>1. i # j => pending[w][j] # None
        BY <3>1, <3>2 DEF AcceptedStaysUnique, Inside
      <4>2. op[w] = "equip"
        BY <3>1 DEF Indexed
      <4>3. i # j => ~In(table', j, want[w])
        BY <1>1, <1>4, <3>1, <4>1, <4>2, ClearedStaysOut
      <4>4. QED
        BY <2>2, <3>1, <4>3
    <3>3. CASE ~In(table, j, s)
      BY <1>1, <1>4, <2>2, <3>1, <3>3, CommitPuts
    <3>4. QED
      BY <3>2, <3>3
  <2>3. UniquelySocketed(table')
    <3> SUFFICES ASSUME NEW s \in Socket, NEW i \in Item, NEW j \in Item,
                        In(table', i, s), In(table', j, s)
                 PROVE  i = j
      BY DEF UniquelySocketed, Inside
    <3>1. CASE In(table, i, s) /\ In(table, j, s)
      BY <3>1 DEF SocketsSound, UniquelySocketed, Inside
    <3>2. CASE ~In(table, i, s) \/ ~In(table, j, s)
      BY <2>2, <3>2
    <3>3. QED
      BY <3>1, <3>2
  <2>4. QED
    BY <1>2, <2>1, <2>3 DEF SocketsSound, UniquelySocketed, Inside, In, Fits
<1>5. QED
  BY <1>3, <1>4, OnlyCommitPublishes

\* While the table and the index stay as they are, so does what was accepted.
LEMMA AcceptedKept ==
  ASSUME AcceptedStaysUnique, UNCHANGED table,
         \A v \in Worker : \A j \in Item : pending[v][j] # None /\ Indexed(v)' => pending'[v][j] # None,
         \A v \in Worker : Indexed(v)' => Indexed(v) /\ item'[v] = item[v] /\ want'[v] = want[v]
  PROVE  AcceptedStaysUnique'
<1>1. \A s, i : In(table', i, s) <=> In(table, i, s)
  BY DEF In
<1>2. \A v \in Worker : Indexed(v)' => Inside(table', want'[v]) \ {item'[v]} = Inside(table, want[v]) \ {item[v]}
  BY <1>1 DEF Inside
<1>3. QED
  BY <1>2 DEF AcceptedStaysUnique, Inside

\* What the index has accepted, no other request's step takes back.
LEMMA AcceptedStep ==
  TypeOK /\ StepsMatchOp /\ LocksExclusive /\ StagedByRequest /\ AcceptedStaysUnique /\ [Next]_vars
    => AcceptedStaysUnique'
<1> SUFFICES ASSUME TypeOK, StepsMatchOp, LocksExclusive, StagedByRequest, AcceptedStaysUnique, [Next]_vars
             PROVE  AcceptedStaysUnique'
  OBVIOUS
<1> USE CellAssumption DEF TypeOK, StepsMatchOp, Holding, Item
<1>1. ASSUME NEW w \in Worker, NEW o \in Requests, NEW i \in Item, Refuse(w, o, i), UNCHANGED want
      PROVE  AcceptedStaysUnique'
  <2>1. UNCHANGED table /\ \A v \in Worker : \A j \in Item :
          pending[v][j] # None /\ Indexed(v)' => pending'[v][j] # None
    BY <1>1 DEF Refuse, Answer, Goto, rowVars, Indexed
  <2>2. \A v \in Worker : Indexed(v)' => Indexed(v) /\ item'[v] = item[v] /\ want'[v] = want[v]
    BY <1>1 DEF Refuse, Answer, Goto, rowVars, Indexed, StagedIn
  <2>3. QED
    BY <2>1, <2>2, AcceptedKept
<1>2. ASSUME NEW w \in Worker, NEW i \in Item, RefuseLocked(w, i)
      PROVE  AcceptedStaysUnique'
  <2>1. UNCHANGED table /\ \A v \in Worker : \A j \in Item :
          pending[v][j] # None /\ Indexed(v)' => pending'[v][j] # None
    BY <1>2 DEF RefuseLocked, Answer, Goto, rowVars, Indexed
  <2>2. \A v \in Worker : Indexed(v)' => Indexed(v) /\ item'[v] = item[v] /\ want'[v] = want[v]
    BY <1>2 DEF RefuseLocked, Answer, Goto, rowVars, Indexed, StagedIn
  <2>3. QED
    BY <2>1, <2>2, AcceptedKept
<1>3. ASSUME NEW w \in Worker, NEW o \in Requests, NEW i \in Item, NEW s \in Socket, Load(w, o, i, s)
      PROVE  AcceptedStaysUnique'
  <2>1. UNCHANGED table /\ \A v \in Worker : \A j \in Item :
          pending[v][j] # None /\ Indexed(v)' => pending'[v][j] # None
    BY <1>3 DEF Load, Start, Goto, rowVars, Indexed
  <2>2. \A v \in Worker : Indexed(v)' => Indexed(v) /\ item'[v] = item[v] /\ want'[v] = want[v]
    BY <1>3 DEF Load, Start, Goto, rowVars, Indexed, StagedIn
  <2>3. QED
    BY <2>1, <2>2, AcceptedKept
<1>4. ASSUME NEW w \in Worker, ClearScan(w), UNCHANGED want
      PROVE  AcceptedStaysUnique'
  <2>1. UNCHANGED table /\ \A v \in Worker : \A j \in Item :
          pending[v][j] # None /\ Indexed(v)' => pending'[v][j] # None
    BY <1>4 DEF ClearScan, Scan, Stage, Goto, Indexed
  <2>2. \A v \in Worker : Indexed(v)' => Indexed(v) /\ item'[v] = item[v] /\ want'[v] = want[v]
    BY <1>4 DEF ClearScan, Scan, Stage, Goto, Indexed, StagedIn
  <2>3. QED
    BY <2>1, <2>2, AcceptedKept
<1>5. ASSUME NEW w \in Worker, ClearApply(w), UNCHANGED want
      PROVE  AcceptedStaysUnique'
  <2>1. UNCHANGED table /\ \A v \in Worker : \A j \in Item :
          pending[v][j] # None /\ Indexed(v)' => pending'[v][j] # None
    BY <1>5 DEF ClearApply, Apply, Stage, Goto, Indexed
  <2>2. \A v \in Worker : Indexed(v)' => Indexed(v) /\ item'[v] = item[v] /\ want'[v] = want[v]
    BY <1>5 DEF ClearApply, Apply, Stage, Goto, Indexed, StagedIn
  <2>3. QED
    BY <2>1, <2>2, AcceptedKept
<1>6. ASSUME NEW w \in Worker, FlushNothing(w), UNCHANGED want
      PROVE  AcceptedStaysUnique'
  <2>1. UNCHANGED <<table, pending, op, item, want>> /\ pc' = [pc EXCEPT ![w] = "commit"]
    BY <1>6 DEF FlushNothing, SkipFlush, Goto, rowVars
  <2>2. ~Indexed(w)'
    <3>1. pc[w] = "flush" /\ item[w] \in Item
      BY <1>6 DEF FlushNothing, SkipFlush
    <3>2. CASE op[w] = "equip" /\ StagedIn(w, item[w], want[w])
      <4>1. StagedBy(w, item[w]) /\ pending[w][item[w]] # Absent
        BY <3>1, <3>2 DEF StagedByRequest, StagedIn
      <4>2. want[w] # Null
        BY <3>1, <3>2, SocketAssumption
      <4>3. pending[w][item[w]].at = want[w]
        BY <3>2 DEF StagedIn
      <4>4. QED
        BY <3>1, <3>2, <4>1, <4>2, <4>3 DEF StagedBy, StagedAt
    <3>3. QED
      BY <2>1, <3>2 DEF Indexed, StagedIn
  <2>3. \A v \in Worker : Indexed(v)' => Indexed(v)
    BY <2>1, <2>2 DEF Indexed, StagedIn
  <2>4. QED
    BY <2>1, <2>3, AcceptedKept
<1>7. ASSUME NEW w \in Worker, FlushRow(w), UNCHANGED want
      PROVE  AcceptedStaysUnique'
  <2>1. UNCHANGED <<table, op, item, want>> /\ item[w] \in Item /\ pc[w] = "flush"
        /\ pending' = [pending EXCEPT ![w] = [pending[w] EXCEPT ![item[w]] = NewCell(w)]]
        /\ \/ op[w] = "equip" /\ pc' = [pc EXCEPT ![w] = "index"]
           \/ op[w] # "equip" /\ pc' = [pc EXCEPT ![w] = "commit"]
    BY <1>7 DEF FlushRow, WriteTarget, StageRow, Stage, Goto
  <2>2. \A v \in Worker : Indexed(v)' => v # w
    BY <2>1 DEF Indexed
  <2>3. \A v \in Worker : v # w => pending'[v] = pending[v] /\ pc'[v] = pc[v]
    BY <2>1
  <2>4. \A v \in Worker : Indexed(v)' => Indexed(v)
    BY <2>1, <2>2, <2>3 DEF Indexed, StagedIn
  <2>5. QED
    BY <2>1, <2>2, <2>3, <2>4, AcceptedKept
<1>8. ASSUME NEW w \in Worker, FlushDelete(w), UNCHANGED want
      PROVE  AcceptedStaysUnique'
  <2>1. UNCHANGED <<table, op, item, want>> /\ op[w] = "delete"
        /\ \A v \in Worker : v # w => pending'[v] = pending[v] /\ pc'[v] = pc[v]
    BY <1>8 DEF FlushDelete, WriteTarget, StageRow, Stage, Goto
  <2>2. \A v \in Worker : Indexed(v)' => v # w
    BY <2>1 DEF Indexed
  <2>3. \A v \in Worker : Indexed(v)' => Indexed(v)
    BY <2>1, <2>2 DEF Indexed, StagedIn
  <2>4. QED
    BY <2>1, <2>2, <2>3, AcceptedKept
<1>9. ASSUME NEW w \in Worker, FlushDeletedTwice(w), UNCHANGED want
      PROVE  AcceptedStaysUnique'
  <2>1. UNCHANGED table /\ \A v \in Worker : \A j \in Item :
          pending[v][j] # None /\ Indexed(v)' => pending'[v][j] # None
    BY <1>9 DEF FlushDeletedTwice, Stage, Goto, Indexed
  <2>2. \A v \in Worker : Indexed(v)' => Indexed(v) /\ item'[v] = item[v] /\ want'[v] = want[v]
    BY <1>9 DEF FlushDeletedTwice, Stage, Goto, Indexed, StagedIn
  <2>3. QED
    BY <2>1, <2>2, AcceptedKept
<1>10. ASSUME NEW w \in Worker, NEW code \in {"409", "check", "500"}, Fail(w, code), UNCHANGED want
       PROVE  AcceptedStaysUnique'
  <2>1. UNCHANGED <<table, op, want>> /\ pc' = [pc EXCEPT ![w] = "done"]
        /\ \A v \in Worker : v # w => pending'[v] = pending[v] /\ item'[v] = item[v]
    BY <1>10 DEF Fail, DropWrites, EndTransaction, Answer, Goto
  <2>2. \A v \in Worker : Indexed(v)' => v # w
    BY <2>1 DEF Indexed
  <2>3. \A v \in Worker : Indexed(v)' => Indexed(v)
    BY <2>1, <2>2 DEF Indexed, StagedIn
  <2>4. QED
    BY <2>1, <2>2, <2>3, AcceptedKept
<1>11. ASSUME NEW w \in Worker, InsertRow(w), UNCHANGED want
       PROVE  AcceptedStaysUnique'
  <2>1. UNCHANGED <<table, op, item, want>> /\ op[w] = "create"
        /\ \A v \in Worker : v # w => pending'[v] = pending[v] /\ pc'[v] = pc[v]
    BY <1>11 DEF InsertRow, Insert, StageRow, Stage, Goto
  <2>2. \A v \in Worker : Indexed(v)' => v # w
    BY <2>1 DEF Indexed
  <2>3. \A v \in Worker : Indexed(v)' => Indexed(v)
    BY <2>1, <2>2 DEF Indexed, StagedIn
  <2>4. QED
    BY <2>1, <2>2, <2>3, AcceptedKept
<1>12. ASSUME NEW w \in Worker, IndexAccept(w), UNCHANGED want
       PROVE  AcceptedStaysUnique'
  <2>1. pc[w] = "index" /\ op[w] = "equip" /\ item[w] \in Item /\ want[w] \in Socket
    BY <1>12 DEF IndexAccept, Accepted
  <2>2. UNCHANGED <<table, pending, op, item, want>> /\ pc' = [pc EXCEPT ![w] = "commit"]
    BY <1>12 DEF IndexAccept, Accepted, Goto, rowVars
  <2>3. ASSUME NEW j \in Inside(table, want[w]) \ {item[w]}
        PROVE  pending[w][j] # None
    <3>1. PICK v \in Worker : pending[v][j] # None
      BY <1>12, <2>3 DEF IndexAccept, IndexConflicts
    <3>2. v = w
      BY <1>12, <2>3, <3>1 DEF IndexAccept, IndexBlockers
    <3>3. QED
      BY <3>1, <3>2
  <2>4. ASSUME NEW v \in Worker \ {w}, Indexed(v), want[v] = want[w], Indexed(w)'
        PROVE  FALSE
    <3>1. item[v] # item[w]
      BY <2>1, <2>2, <2>4 DEF LocksExclusive, Indexed, StagedIn
    <3>2. v \in IndexBlockers(w)
      BY <2>4, <3>1 DEF IndexBlockers
    <3>3. QED
      BY <1>12, <3>2 DEF IndexAccept
  <2>5. \A v \in Worker \ {w} : Indexed(v)' <=> Indexed(v)
    BY <2>2 DEF Indexed, StagedIn
  <2>6. \A v \in Worker : Inside(table', want'[v]) \ {item'[v]} = Inside(table, want[v]) \ {item[v]}
    BY <2>2 DEF Inside, In
  <2>7. ASSUME NEW v \in Worker, Indexed(v)'
        PROVE  /\ \A j \in Inside(table, want[v]) \ {item[v]} : pending[v][j] # None
               /\ \A u \in Worker \ {v} : Indexed(u)' => want[u] # want[v]
    BY <2>3, <2>4, <2>5, <2>7 DEF AcceptedStaysUnique
  <2>8. QED
    BY <2>2, <2>6, <2>7 DEF AcceptedStaysUnique
<1>13. ASSUME NEW w \in Worker, Commit(w), UNCHANGED want
       PROVE  AcceptedStaysUnique'
  <2>1. ASSUME NEW v \in Worker, Indexed(v)'
        PROVE  /\ v # w /\ Indexed(v) /\ item'[v] = item[v] /\ want'[v] = want[v]
               /\ pending'[v] = pending[v]
    BY <1>13, <2>1
       DEF Commit, CommitWrites, PublishWrites, EndTransaction, Answer, Goto, Indexed, StagedIn
  <2>2. ASSUME NEW v \in Worker, Indexed(v)', NEW j \in Item, In(table', j, want[v]), j # item[v]
        PROVE  pending[v][j] # None
    <3>1. CASE In(table, j, want[v])
      BY <2>1, <2>2, <3>1 DEF AcceptedStaysUnique, Inside
    <3>2. CASE ~In(table, j, want[v])
      <4>1. want[v] \in Socket
        BY <2>1, <2>2 DEF Indexed
      <4>2. Indexed(w) /\ want[v] = want[w]
        BY <1>13, <2>2, <3>2, <4>1, CommitPuts
      <4>3. QED
        BY <2>1, <2>2, <4>2 DEF AcceptedStaysUnique
    <3>3. QED
      BY <3>1, <3>2
  <2>3. \A v \in Worker : Indexed(v)' =>
          \A j \in Inside(table', want'[v]) \ {item'[v]} : pending'[v][j] # None
    BY <2>1, <2>2 DEF Inside
  <2>4. \A v \in Worker : Indexed(v)' => \A u \in Worker \ {v} : Indexed(u)' => want'[u] # want'[v]
    BY <2>1 DEF AcceptedStaysUnique
  <2>5. QED
    BY <2>3, <2>4 DEF AcceptedStaysUnique
<1>14. ASSUME NEW w \in Worker, Refresh(w), UNCHANGED want
       PROVE  AcceptedStaysUnique'
  <2>1. UNCHANGED table /\ \A v \in Worker : \A j \in Item :
          pending[v][j] # None /\ Indexed(v)' => pending'[v][j] # None
    BY <1>14 DEF Refresh, Answer, Goto, rowVars, Indexed
  <2>2. \A v \in Worker : Indexed(v)' => Indexed(v) /\ item'[v] = item[v] /\ want'[v] = want[v]
    BY <1>14 DEF Refresh, Answer, Goto, rowVars, Indexed, StagedIn
  <2>3. QED
    BY <2>1, <2>2, AcceptedKept
<1>15. ASSUME NEW w \in Worker, Finish(w)
       PROVE  AcceptedStaysUnique'
  <2>1. UNCHANGED table /\ \A v \in Worker : \A j \in Item :
          pending[v][j] # None /\ Indexed(v)' => pending'[v][j] # None
    BY <1>15 DEF Finish, Return, Goto, rowVars, Indexed
  <2>2. \A v \in Worker : Indexed(v)' => Indexed(v) /\ item'[v] = item[v] /\ want'[v] = want[v]
    BY <1>15 DEF Finish, Return, Goto, rowVars, Indexed, StagedIn
  <2>3. QED
    BY <2>1, <2>2, AcceptedKept
<1>16. CASE UNCHANGED vars
  <2>1. UNCHANGED <<table, pending, pc, op, item, want>>
    BY <1>16 DEF vars, rowVars, reqVars
  <2>2. QED
    BY <2>1, AcceptedKept DEF Indexed, StagedIn
<1>17. QED
  BY <1>1, <1>2, <1>3, <1>4, <1>5, <1>6, <1>7, <1>8,
     <1>9, <1>10, <1>11, <1>12, <1>13, <1>14, <1>15, <1>16
     DEF Next, Proceed, Arrive, CheckRejects, FlushStale, UpdateMissed, InsertRejected, IndexReject,
         DeadlockVictim, AbortDeadlock, BusyTimeout, AbortBusy

-----------------------------------------------------------------------------
(* Conflicts.                                                                *)
\* A clear finds every occupant of the socket; one that appears later marks the
\* contender as having lost a race.
LEMMA SawAllStep ==
  TypeOK /\ StepsMatchOp /\ UnrivalledSawAll /\ [Next]_vars
    => UnrivalledSawAll'
<1> SUFFICES ASSUME TypeOK, StepsMatchOp, UnrivalledSawAll, [Next]_vars
             PROVE  UnrivalledSawAll'
  OBVIOUS
<1> USE CellAssumption DEF TypeOK, StepsMatchOp, UnrivalledSawAll, Contending, Holding, Item
<1>1. ASSUME NEW w \in Worker, NEW o \in Requests, NEW i \in Item, Refuse(w, o, i), UNCHANGED want
      PROVE  UnrivalledSawAll'
  BY <1>1 DEF Refuse, Answer, Goto, rowVars, Inside, In
<1>2. ASSUME NEW w \in Worker, NEW i \in Item, RefuseLocked(w, i)
      PROVE  UnrivalledSawAll'
  BY <1>2 DEF RefuseLocked, Answer, Goto, rowVars, Inside, In
<1>3. ASSUME NEW w \in Worker, NEW o \in Requests, NEW i \in Item, NEW s \in Socket, Load(w, o, i, s)
      PROVE  UnrivalledSawAll'
  BY <1>3 DEF Load, Start, Goto, rowVars, Inside, In
<1>4. ASSUME NEW w \in Worker, ClearScan(w), UNCHANGED want
      PROVE  UnrivalledSawAll'
  BY <1>4 DEF ClearScan, Scan, Stage, Goto, ClearTargets, Inside, In
<1>5. ASSUME NEW w \in Worker, ClearApply(w), UNCHANGED want
      PROVE  UnrivalledSawAll'
  <2>1. pending' = [pending EXCEPT ![w] = [j \in Item |->
              IF j \notin cand[w] THEN pending[w][j]
              ELSE IF In(table, j, want[w]) THEN Cleared(table[j])
              ELSE table[j]]]
    BY <1>5 DEF ClearApply, Apply, Stage
  <2>2. UNCHANGED <<table, op, item, want, rival>> /\ pc[w] = "apply" /\ pc' = [pc EXCEPT ![w] = "flush"]
    BY <1>5 DEF ClearApply, Apply, Goto
  <2>3. ASSUME NEW j \in Item, In(table, j, want[w]), j \in cand[w]
        PROVE  pending'[w][j] # None
    <3>1. table[j] \in Owned
      BY <2>3 DEF In, Cell
    <3>2. pending'[w][j] = Cleared(table[j])
      BY <2>1, <2>3
    <3>3. QED
      BY <3>1, <3>2, ClearedCell DEF Cell
  <2>4. \A v \in Worker : v # w => pending'[v] = pending[v] /\ pc'[v] = pc[v] /\ cand'[v] = cand[v]
    BY <1>5, <2>1, <2>2 DEF ClearApply, Apply
  <2>5. \A v \in Worker : Inside(table', want'[v]) \ {item'[v]} = Inside(table, want[v]) \ {item[v]}
    BY <2>2 DEF Inside, In
  <2>6. QED
    BY <2>2, <2>3, <2>4, <2>5 DEF Inside
<1>6. ASSUME NEW w \in Worker, FlushNothing(w), UNCHANGED want
      PROVE  UnrivalledSawAll'
  BY <1>6 DEF FlushNothing, SkipFlush, Goto, rowVars, Inside, In
<1>7. ASSUME NEW w \in Worker, FlushRow(w), UNCHANGED want
      PROVE  UnrivalledSawAll'
  BY <1>7 DEF FlushRow, WriteTarget, StageRow, Stage, Goto, Inside, In
<1>8. ASSUME NEW w \in Worker, FlushDelete(w), UNCHANGED want
      PROVE  UnrivalledSawAll'
  BY <1>8 DEF FlushDelete, WriteTarget, StageRow, Stage, Goto, Inside, In
<1>9. ASSUME NEW w \in Worker, FlushDeletedTwice(w), UNCHANGED want
      PROVE  UnrivalledSawAll'
  BY <1>9 DEF FlushDeletedTwice, Stage, Goto, Inside, In
<1>10. ASSUME NEW w \in Worker, NEW code \in {"409", "check", "500"}, Fail(w, code), UNCHANGED want
       PROVE  UnrivalledSawAll'
  BY <1>10 DEF Fail, DropWrites, EndTransaction, NothingPending, Answer, Goto, Inside, In
<1>11. ASSUME NEW w \in Worker, InsertRow(w), UNCHANGED want
       PROVE  UnrivalledSawAll'
  BY <1>11 DEF InsertRow, Insert, StageRow, Stage, Goto, Inside, In
<1>12. ASSUME NEW w \in Worker, IndexAccept(w), UNCHANGED want
       PROVE  UnrivalledSawAll'
  BY <1>12 DEF IndexAccept, Accepted, Goto, rowVars, Inside, In
<1>13. ASSUME NEW w \in Worker, Commit(w), UNCHANGED want
       PROVE  UnrivalledSawAll'
  <2>1. table' = TableAfter(w)
    BY <1>13 DEF Commit, CommitWrites, PublishWrites
  <2>2. ASSUME NEW v \in Worker, op'[v] = "equip", pc'[v] \in Contending, ~rival'[v]
        PROVE  /\ v # w /\ op[v] = "equip" /\ pc'[v] = pc[v] /\ ~rival[v] /\ ~LosesRace(v, w)
               /\ item'[v] = item[v] /\ want'[v] = want[v] /\ pending'[v] = pending[v]
               /\ cand'[v] = cand[v] \ DeletedBy(w)
    <3>1. ~rival[v] /\ ~LosesRace(v, w)
      BY <1>13, <2>2, Zenon DEF Commit, CommitWrites
    <3>2. QED
      BY <1>13, <2>2, <3>1 DEF Commit, CommitWrites, PublishWrites, EndTransaction, Answer, Goto
  <2>3. ASSUME NEW v \in Worker, op'[v] = "equip", pc'[v] \in Contending, ~rival'[v],
               NEW j \in Item, In(table', j, want[v]), j # item[v]
        PROVE  IF pc'[v] = "apply" THEN j \in cand'[v] ELSE pending'[v][j] # None
    <3>1. In(table, j, want[v])
      BY <2>1, <2>2, <2>3 DEF LosesRace, Inside
    <3>2. IF pc[v] = "apply" THEN j \in cand[v] ELSE pending[v][j] # None
      BY <2>2, <2>3, <3>1 DEF Inside
    <3>3. j \notin DeletedBy(w)
      <4>1. table'[j] # Absent
        BY <2>3 DEF In
      <4>2. Absent # None
        BY DEF Cell
      <4>3. QED
        BY <2>1, <4>1, <4>2 DEF TableAfter, DeletedBy
    <3>4. pc'[v] = pc[v] /\ pending'[v] = pending[v] /\ cand'[v] = cand[v] \ DeletedBy(w)
      BY <2>2, <2>3
    <3>5. QED
      BY <3>2, <3>3, <3>4
  <2>4. QED
    BY <2>2, <2>3 DEF Inside
<1>14. ASSUME NEW w \in Worker, Refresh(w), UNCHANGED want
       PROVE  UnrivalledSawAll'
  BY <1>14 DEF Refresh, Answer, Goto, rowVars, Inside, In
<1>15. ASSUME NEW w \in Worker, Finish(w)
       PROVE  UnrivalledSawAll'
  BY <1>15 DEF Finish, Return, Goto, rowVars, Inside, In
<1>16. CASE UNCHANGED vars
  BY <1>16 DEF vars, rowVars, reqVars, Inside, In
<1>17. QED
  BY <1>1, <1>2, <1>3, <1>4, <1>5, <1>6, <1>7, <1>8,
     <1>9, <1>10, <1>11, <1>12, <1>13, <1>14, <1>15, <1>16
     DEF Next, Proceed, Arrive, CheckRejects, FlushStale, UpdateMissed, InsertRejected, IndexReject,
         DeadlockVictim, AbortDeadlock, BusyTimeout, AbortBusy

(* The 409 of an equip is the index's, and the index found an occupant that  *)
(* the clear had not.                                                        *)
LEMMA RejectedLostRace ==
  ASSUME TypeOK, StepsMatchOp, UnrivalledSawAll, NEW w \in Worker, IndexReject(w)
  PROVE  rival[w]
<1>1. PICK j \in Inside(table, want[w]) \ {item[w]} : pending[w][j] = None
  BY DEF IndexReject, IndexConflicts
<1>2. op[w] = "equip" /\ pc[w] = "index"
  BY DEF IndexReject, StepsMatchOp
<1>3. QED
  BY <1>1, <1>2 DEF UnrivalledSawAll, Contending, TypeOK

\* How a request is answered with a rejection.
LEMMA NewRejection ==
  ASSUME TypeOK, StepsMatchOp, [Next]_vars, NEW w \in Worker, status'[w] \in {"409", "check"}
  PROVE  \/ /\ status'[w] = status[w] /\ op'[w] = op[w]
            /\ op[w] = "equip" => rival'[w] = rival[w]
         \/ IndexReject(w) /\ op'[w] = op[w] /\ status'[w] = "409" /\ rival'[w] = rival[w]
         \/ CheckRejects(w) /\ op'[w] = op[w] /\ status'[w] = "check"
         \/ op'[w] = "create" /\ status'[w] = "409"
<1> USE DEF TypeOK, Answer, Goto
<1>1. ASSUME NEW v \in Worker, Proceed(v), v # w
      PROVE  /\ status'[w] = status[w] /\ op'[w] = op[w]
             /\ op[w] = "equip" => rival'[w] = rival[w]
  <2>1. CASE Commit(v)
    <3>1. status'[w] = status[w] /\ op'[w] = op[w]
      BY <1>1, <2>1 DEF Commit, CommitWrites
    <3>2. ~LosesRace(w, v)
      BY <3>1 DEF StepsMatchOp, LosesRace, Contending
    <3>3. rival'[w] = rival[w]
      BY <2>1, <3>2, Zenon DEF Commit, CommitWrites
    <3>4. QED
      BY <3>1, <3>3
  <2>2. CASE ~Commit(v)
    BY <1>1, <2>2
       DEF Proceed, ClearScan, Scan, ClearApply, Apply, FlushNothing, SkipFlush, FlushRow,
           WriteTarget, CheckRejects, FlushDelete, FlushDeletedTwice, FlushStale, UpdateMissed, InsertRow,
           Insert, InsertRejected, IndexAccept, Accepted, IndexReject, Refresh, Finish, Return,
           DeadlockVictim, AbortDeadlock, BusyTimeout, AbortBusy, Fail
  <2>3. QED
    BY <2>1, <2>2
<1>2. ASSUME Proceed(w)
      PROVE  \/ IndexReject(w) /\ op'[w] = op[w] /\ status'[w] = "409" /\ rival'[w] = rival[w]
             \/ CheckRejects(w) /\ op'[w] = op[w] /\ status'[w] = "check"
             \/ op'[w] = "create" /\ status'[w] = "409"
  <2>1. CASE IndexReject(w) \/ CheckRejects(w) \/ InsertRejected(w)
    BY <2>1 DEF IndexReject, CheckRejects, InsertRejected, Fail, StepsMatchOp
  <2>2. CASE FlushStale(w) \/ DeadlockVictim(w) \/ BusyTimeout(w) \/ Refresh(w) \/ Finish(w)
    BY <2>2 DEF FlushStale, UpdateMissed, DeadlockVictim, AbortDeadlock, BusyTimeout, AbortBusy,
                Refresh, Finish, Return, Fail
  <2>3. CASE \/ ClearScan(w) \/ ClearApply(w) \/ FlushNothing(w) \/ FlushRow(w) \/ FlushDelete(w)
             \/ FlushDeletedTwice(w) \/ InsertRow(w) \/ IndexAccept(w)
    <3>1. pc[w] # "done" /\ status'[w] = status[w]
      BY <2>3 DEF ClearScan, Scan, ClearApply, Apply, FlushNothing, SkipFlush, FlushRow, WriteTarget,
                  FlushDelete, FlushDeletedTwice, InsertRow, Insert, IndexAccept, Accepted
    <3>2. QED
      BY <3>1 DEF StepsMatchOp
  <2>4. CASE Commit(w)
    <3>1. pc[w] # "done" /\ status'[w] \in {"ok", status[w]}
      BY <2>4 DEF Commit, CommitWrites
    <3>2. QED
      BY <3>1 DEF StepsMatchOp
  <2>5. QED
    BY <1>2, <2>1, <2>2, <2>3, <2>4 DEF Proceed
<1>3. ASSUME NEW v \in Worker, Arrive(v)
      PROVE  \/ /\ status'[w] = status[w] /\ op'[w] = op[w]
                /\ op[w] = "equip" => rival'[w] = rival[w]
             \/ op'[w] = "create" /\ status'[w] = "409"
  <2>1. CASE v # w
    BY <1>3, <2>1 DEF Arrive, Refuse, RefuseLocked, Load, Start
  <2>2. CASE v = w
    <3>1. pc[w] = "idle"
      BY <1>3, <2>2 DEF Arrive, Refuse, RefuseLocked, Load, Start
    <3>2. status[w] = "none"
      BY <3>1 DEF StepsMatchOp
    <3>3. QED
      BY <1>3, <2>2, <3>2 DEF Arrive, Refuse, RefuseLocked, Load, Start
  <2>3. QED
    BY <2>1, <2>2
<1>4. CASE UNCHANGED vars
  BY <1>4 DEF vars, reqVars
<1>5. QED
  BY <1>1, <1>2, <1>3, <1>4 DEF Next

\* A 409 goes with a lost race; emptying a socket breaks no constraint.
LEMMA RejectionStep ==
  TypeOK /\ StepsMatchOp /\ RowsHeld /\ UnrivalledSawAll
  /\ ConflictMeansLostRace /\ UnequipNeverRejected /\ [Next]_vars
    => ConflictMeansLostRace' /\ UnequipNeverRejected'
<1> SUFFICES ASSUME TypeOK, StepsMatchOp, RowsHeld, UnrivalledSawAll, ConflictMeansLostRace,
                    UnequipNeverRejected, [Next]_vars
             PROVE  ConflictMeansLostRace' /\ UnequipNeverRejected'
  OBVIOUS
<1>1. ASSUME NEW w \in Worker, IndexReject(w)
      PROVE  rival[w] /\ op[w] = "equip"
  BY <1>1, RejectedLostRace DEF IndexReject, StepsMatchOp
<1>2. ASSUME NEW w \in Worker, CheckRejects(w)
      PROVE  op[w] # "unequip"
  BY <1>2, FlushedCell DEF CheckRejects
<1>3. ConflictMeansLostRace'
  BY <1>1, NewRejection DEF ConflictMeansLostRace
<1>4. UnequipNeverRejected'
  BY <1>1, <1>2, NewRejection DEF UnequipNeverRejected
<1>5. QED
  BY <1>3, <1>4

-----------------------------------------------------------------------------
(* The inductive invariant.                                                  *)
LEMMA IInvInit == Init => IInv
<1> SUFFICES ASSUME Init
             PROVE  IInv
  OBVIOUS
<1>1. TypeOK /\ StepsMatchOp
  BY TypeInit
<1>2. SocketsSound
  BY <1>1 DEF Init, RowsInit, SocketsSound, Fitting, Item
<1>3. QED
  BY <1>1, <1>2, CellAssumption
     DEF Init, RowsInit, RequestsInit, NothingPending, IInv, LocksExclusive, WritersHoldLock, RowsHeld,
         StagedByRequest, AcceptedStaysUnique, Indexed, UnrivalledSawAll, Contending, Holding,
         ConflictMeansLostRace, UnequipNeverRejected, Item

\* Every step keeps every conjunct: the step lemmas together.
LEMMA IInvStep == IInv /\ [Next]_vars => IInv'
<1> SUFFICES ASSUME IInv, [Next]_vars
             PROVE  IInv'
  OBVIOUS
<1>1. TypeOK
  BY DEF IInv, SocketsSound
<1>2. QED
  BY <1>1, StepsStep, LocksStep, RowsHeldStep, StagedByStep, SoundStep, AcceptedStep, SawAllStep,
     RejectionStep DEF IInv

(* The inductive invariant holds in every reachable state, for any number of *)
(* handlers, items and sockets, both kinds of table and either database.     *)
THEOREM InvariantHolds == Spec => []IInv
  BY IInvInit, IInvStep, PTL DEF Spec

(* For any number of concurrent handlers no committed state has two items in *)
(* one socket or a row that breaks its CHECK, although UPDATEs mix columns   *)
(* of an old and a new row version.                                          *)
THEOREM SocketsStaySound == Spec => []SocketsSound
<1>1. IInv => SocketsSound
  BY DEF IInv
<1>2. QED
  BY <1>1, InvariantHolds, PTL

(* An equip is refused with a 409 only when another request took the socket  *)
(* between its clear and its set.                                            *)
THEOREM ConflictIsLostRace == Spec => []ConflictMeansLostRace
<1>1. IInv => ConflictMeansLostRace
  BY DEF IInv
<1>2. QED
  BY <1>1, InvariantHolds, PTL

(* Taking an item out of its socket is refused by no constraint, whatever    *)
(* other requests have made of its row since it was loaded.                  *)
THEOREM UnequipsNeverRejected == Spec => []UnequipNeverRejected
<1>1. IInv => UnequipNeverRejected
  BY DEF IInv
<1>2. QED
  BY <1>1, InvariantHolds, PTL

-----------------------------------------------------------------------------
(* Sockets implements SocketBoard, and what a commit may do to is_unlocked.  *)

-----------------------------------------------------------------------------
(* What a commit publishes.                                                  *)
\* A request leaves the step "commit" only by committing.
LEMMA CommitsIsCommit ==
  ASSUME TypeOK, [Next]_vars, NEW w \in Worker, Commits(w)
  PROVE  Commit(w)
<1> USE DEF TypeOK, Commits, Goto, Answer, Fail
<1>1. ASSUME NEW v \in Worker, Proceed(v)
      PROVE  Commit(w)
  <2>1. Waits(w) = {} /\ WaitsFor[w] = Waits(w)
    BY DEF Waits, WaitsFor
  <2>2. v = w
    BY <1>1
       DEF Proceed, ClearScan, Scan, ClearApply, Apply, FlushNothing, SkipFlush, FlushRow, WriteTarget,
           CheckRejects, FlushDelete, FlushDeletedTwice, FlushStale, UpdateMissed, InsertRow, Insert,
           InsertRejected, IndexAccept, Accepted, IndexReject, Commit, CommitWrites, Refresh, Finish,
           Return, DeadlockVictim, AbortDeadlock, BusyTimeout, AbortBusy
  <2>3. QED
    BY <1>1, <2>1, <2>2
       DEF Proceed, ClearScan, Scan, ClearApply, Apply, FlushNothing, SkipFlush, FlushRow, WriteTarget,
           CheckRejects, FlushDelete, FlushDeletedTwice, FlushStale, UpdateMissed, InsertRow, Insert,
           InsertRejected, IndexAccept, Accepted, IndexReject, Refresh, Finish, Return,
           DeadlockVictim, AbortDeadlock, OnCycle, BusyTimeout, AbortBusy
<1>2. ASSUME NEW v \in Worker, Arrive(v)
      PROVE  FALSE
  BY <1>2 DEF Arrive, Refuse, RefuseLocked, Load, Start
<1>3. CASE UNCHANGED vars
  BY <1>3 DEF vars, reqVars
<1>4. QED
  BY <1>1, <1>2, <1>3 DEF Next

\* Row by row.
LEMMA CommitRows ==
  ASSUME IInv, NEW w \in Worker, Commit(w)
  PROVE  /\ table \in [Item -> Cell] /\ table' \in [Item -> Cell]
         /\ item[w] \in Item /\ pc[w] = "commit" /\ op[w] \in Op
         /\ op[w] = "equip" => want[w] \in Socket
         /\ \A i \in Item : table'[i] = IF pending[w][i] = None THEN table[i] ELSE pending[w][i]
         /\ \A i \in Item : pending[w][i] \in Cell \cup {None}
         /\ \A i \in Item : pending[w][i] # None => StagedBy(w, i)
<1>1. TypeOK /\ StepsMatchOp /\ StagedByRequest /\ pc[w] = "commit"
  BY DEF IInv, SocketsSound, Commit, CommitWrites
<1>2. /\ item[w] \in Item /\ op[w] \in Op
      /\ op[w] = "equip" => want[w] \in Socket
  BY <1>1 DEF StepsMatchOp, Holding
<1>3. \A i \in Item : table'[i] = IF pending[w][i] = None THEN table[i] ELSE pending[w][i]
  BY <1>1, Published
<1>4. table' = [i \in Item |-> table'[i]]
  BY DEF Commit, CommitWrites, PublishWrites, TableAfter, Item
<1>5. table \in [Item -> Cell] /\ \A i \in Item : pending[w][i] \in Cell \cup {None}
  BY <1>1 DEF TypeOK
<1>6. table' \in [Item -> Cell]
  BY <1>3, <1>4, <1>5
<1>7. QED
  BY <1>1, <1>2, <1>3, <1>5, <1>6 DEF StagedByRequest

\* Only a POST adds a row and only a DELETE takes one.
LEMMA CommitOwns ==
  ASSUME IInv, NEW w \in Worker, Commit(w), op[w] \notin {"create", "delete"}, NEW i \in Item
  PROVE  table'[i] = Absent <=> table[i] = Absent
  BY CommitRows DEF StagedBy

\* An equip that is in the unique index puts its item into the socket and any
\* other one out of it.
LEMMA EquipPlaces ==
  ASSUME IInv, NEW w \in Worker, Commit(w), Indexed(w), NEW j \in Item, NEW s \in Socket
  PROVE  In(table', j, s) <=> IF j = item[w] THEN s = want[w]
                                             ELSE s # want[w] /\ In(table, j, s)
<1>1. op[w] = "equip" /\ StagedIn(w, item[w], want[w])
  BY DEF Indexed
<1>2. /\ item[w] \in Item /\ want[w] \in Socket
      /\ table'[j] = IF pending[w][j] = None THEN table[j] ELSE pending[w][j]
      /\ pending[w][j] # None => StagedBy(w, j)
  BY <1>1, CommitRows
<1>3. CASE j = item[w]
  BY <1>1, <1>2, <1>3 DEF StagedIn, In
<1>4. CASE j # item[w] /\ pending[w][j] = None
  <2>1. ~In(table, j, want[w])
    BY <1>4 DEF IInv, AcceptedStaysUnique, Inside
  <2>2. QED
    BY <1>2, <1>4, <2>1 DEF In
<1>5. CASE j # item[w] /\ pending[w][j] # None
  <2>1. /\ pending[w][j] # Absent /\ table[j] # Absent /\ StagedAt(w, j)
        /\ table'[j] = pending[w][j]
    BY <1>1, <1>2, <1>5 DEF StagedBy
  <2>2. \/ pending[w][j].at = Null /\ table[j].at = want[w]
        \/ pending[w][j].at = table[j].at /\ table[j].at # want[w]
    BY <1>1, <1>5, <2>1 DEF StagedAt
  <2>3. QED
    BY <1>2, <1>5, <2>1, <2>2, SocketAssumption DEF In
<1>6. QED
  BY <1>3, <1>4, <1>5

\* An equip whose UPDATE found nothing to change has at most emptied the socket.
LEMMA EquipClears ==
  ASSUME IInv, NEW w \in Worker, Commit(w), op[w] = "equip", ~Indexed(w),
         NEW j \in Item, NEW s \in Socket
  PROVE  /\ In(table', j, s) => In(table, j, s)
         /\ s # want[w] => (In(table', j, s) <=> In(table, j, s))
<1>1. /\ want[w] \in Socket /\ pc[w] = "commit"
      /\ table'[j] = IF pending[w][j] = None THEN table[j] ELSE pending[w][j]
      /\ pending[w][j] # None => StagedBy(w, j)
  BY CommitRows
<1>2. CASE pending[w][j] = None
  BY <1>1, <1>2 DEF In
<1>3. CASE pending[w][j] # None
  <2>1. /\ pending[w][j] # Absent /\ table[j] # Absent /\ StagedAt(w, j)
        /\ table'[j] = pending[w][j]
    BY <1>1, <1>3 DEF StagedBy
  <2>2. ~(j = item[w] /\ pending[w][j].at = want[w])
    BY <1>1, <1>3, <2>1 DEF Indexed, StagedIn
  <2>3. \/ pending[w][j].at = Null /\ table[j].at = want[w]
        \/ pending[w][j].at = table[j].at /\ table[j].at # want[w]
    BY <2>1, <2>2 DEF StagedAt
  <2>4. QED
    BY <1>1, <2>1, <2>3, SocketAssumption DEF In
<1>4. QED
  BY <1>2, <1>3

\* Any other request leaves every socket alone, but for its own item in it.
LEMMA OtherSockets ==
  ASSUME IInv, NEW w \in Worker, Commit(w), op[w] # "equip", NEW j \in Item, NEW s \in Socket
  PROVE  /\ In(table', j, s) => In(table, j, s)
         /\ j # item[w] \/ op[w] \notin {"unequip", "delete"}
              => (In(table', j, s) <=> In(table, j, s))
<1>1. /\ table'[j] = IF pending[w][j] = None THEN table[j] ELSE pending[w][j]
      /\ pending[w][j] # None => StagedBy(w, j)
      /\ op[w] \in Op
  BY CommitRows
<1>2. CASE pending[w][j] = None
  BY <1>1, <1>2 DEF In
<1>3. CASE pending[w][j] = Absent
  <2>1. pending[w][j] # None
    BY <1>3, CellAssumption DEF Cell
  <2>2. QED
    BY <1>1, <1>3, <2>1 DEF In, StagedBy
<1>4. CASE pending[w][j] \notin {None, Absent}
  <2>1. /\ StagedAt(w, j) /\ table'[j] = pending[w][j] /\ j = item[w] /\ op[w] # "delete"
        /\ op[w] = "create" <=> table[j] = Absent
    BY <1>1, <1>4 DEF StagedBy
  <2>2. CASE op[w] = "create"
    BY <1>4, <2>1, <2>2, SocketAssumption DEF StagedAt, In
  <2>3. CASE op[w] = "unequip"
    BY <1>4, <2>1, <2>3, SocketAssumption DEF StagedAt, In
  <2>4. CASE op[w] \in {"patch", "lock", "unlock"}
    BY <1>4, <2>1, <2>4 DEF StagedAt, In
  <2>5. QED
    BY <1>1, <2>1, <2>2, <2>3, <2>4 DEF Op
<1>5. QED
  BY <1>2, <1>3, <1>4

-----------------------------------------------------------------------------
(* is_unlocked.                                                              *)

(* A skill that a PATCH unlocks or locks between the load and the commit of  *)
(* an equip or unequip stays so: neither writes back the flag it loaded.     *)
THEOREM EquipsKeepUnlocks == Spec => EquipKeepsUnlocks
<1>1. ASSUME IInv, [Next]_vars, NEW w \in Worker, Kind = "skill", Commits(w),
             op[w] \in {"equip", "unequip"}, NEW i \in Item
      PROVE  FlagOf(table', i) = FlagOf(table, i)
  <2>1. Commit(w)
    BY <1>1, CommitsIsCommit DEF IInv, SocketsSound
  <2>2. /\ table'[i] = IF pending[w][i] = None THEN table[i] ELSE pending[w][i]
        /\ pending[w][i] # None => StagedBy(w, i)
    BY <1>1, <2>1, CommitRows
  <2>3. CASE pending[w][i] = None
    BY <2>2, <2>3 DEF FlagOf
  <2>4. CASE pending[w][i] # None
    <3>1. /\ table'[i] # Absent /\ table[i] # Absent
          /\ table'[i].flag = table[i].flag
      BY <1>1, <2>2, <2>4 DEF StagedBy
    <3>2. QED
      BY <3>1, Zenon DEF FlagOf
  <2>5. QED
    BY <2>3, <2>4
<1>2. IInv /\ [Next]_vars =>
        [\A w \in Worker :
           Kind = "skill" /\ Commits(w) /\ op[w] \in {"equip", "unequip"}
             => \A i \in Item : FlagOf(table', i) = FlagOf(table, i)]_vars
  BY <1>1
<1>3. QED
  BY <1>2, InvariantHolds, PTL DEF Spec, EquipKeepsUnlocks

-----------------------------------------------------------------------------
(* The committed table implements SocketBoard.                               *)

\* What BoardIn says of a table in which no socket is used twice.
LEMMA BoardSocket ==
  ASSUME NEW tbl, UniquelySocketed(tbl), NEW s \in Socket
  PROVE  /\ \A i \in Item : In(tbl, i, s) => BoardIn(tbl)[s] = i
         /\ (\A i \in Item : ~In(tbl, i, s)) => BoardIn(tbl)[s] = None
<1>1. BoardIn(tbl)[s] = IF Inside(tbl, s) = {} THEN None ELSE CHOOSE i \in Inside(tbl, s) : TRUE
  BY DEF BoardIn
<1>2. ASSUME NEW i \in Item, In(tbl, i, s)
      PROVE  BoardIn(tbl)[s] = i
  <2>1. i \in Inside(tbl, s) /\ \A j \in Inside(tbl, s) : j = i
    BY <1>2 DEF Inside, UniquelySocketed
  <2>2. (CHOOSE j \in Inside(tbl, s) : TRUE) \in Inside(tbl, s)
    BY <2>1
  <2>3. QED
    BY <1>1, <2>1, <2>2
<1>3. ASSUME \A i \in Item : ~In(tbl, i, s)
      PROVE  BoardIn(tbl)[s] = None
  BY <1>1, <1>3 DEF Inside
<1>4. QED
  BY <1>2, <1>3

\* A socket with the same occupant shows the same.
LEMMA BoardAlike ==
  ASSUME NEW tbl1, NEW tbl2, NEW s \in Socket, \A i \in Item : In(tbl1, i, s) <=> In(tbl2, i, s)
  PROVE  BoardIn(tbl1)[s] = BoardIn(tbl2)[s]
<1>1. Inside(tbl1, s) = Inside(tbl2, s)
  BY DEF Inside
<1>2. QED
  BY <1>1 DEF BoardIn

\* Any table the invariant allows is a state SocketBoard may start in.
LEMMA BoardInit == IInv => B!Init
<1> SUFFICES ASSUME IInv
             PROVE  B!Init
  OBVIOUS
<1>1. UniquelySocketed(table)
  BY DEF IInv, SocketsSound
<1>2. ASSUME NEW s \in Socket
      PROVE  \/ BoardIn(table)[s] = None
             \/ /\ BoardIn(table)[s] \in Item /\ In(table, BoardIn(table)[s], s)
                /\ BoardIn(table)[s] \in OwnedIn(table)
  <2>1. CASE \A i \in Item : ~In(table, i, s)
    BY <1>1, <2>1, BoardSocket
  <2>2. CASE \E i \in Item : In(table, i, s)
    BY <1>1, <2>2, BoardSocket DEF OwnedIn, In
  <2>3. QED
    BY <2>1, <2>2
<1>3. BoardIn(table) \in [Socket -> OwnedIn(table) \cup {None}]
  <2>1. BoardIn(table) = [s \in Socket |-> BoardIn(table)[s]]
    BY DEF BoardIn
  <2>2. QED
    BY <1>2, <2>1
<1>4. ASSUME NEW s \in Socket, NEW t \in Socket,
             BoardIn(table)[s] = BoardIn(table)[t], BoardIn(table)[s] # None
      PROVE  s = t
  BY <1>2, <1>4 DEF In
<1>5. OwnedIn(table) \in SUBSET Item
  BY DEF OwnedIn
<1>6. QED
  BY <1>3, <1>4, <1>5 DEF B!Init

\* Every commit is one step of SocketBoard, or none that an observer can see.
LEMMA BoardStep == IInv /\ IInv' /\ [Next]_vars => [B!Next]_(B!vars)
<1> SUFFICES ASSUME IInv, IInv', [Next]_vars
             PROVE  [B!Next]_(B!vars)
  OBVIOUS
<1> DEFINE board == BoardIn(table)
           boardAfter == BoardIn(table')
           owned == OwnedIn(table)
           ownedAfter == OwnedIn(table')
<1>1. UniquelySocketed(table) /\ UniquelySocketed(table')
  BY DEF IInv, SocketsSound
<1>2. /\ board = [s \in Socket |-> board[s]]
      /\ boardAfter = [s \in Socket |-> boardAfter[s]]
  BY DEF BoardIn
<1>3. CASE UNCHANGED table
  BY <1>3 DEF B!vars
<1>4. ASSUME NEW w \in Worker, Commit(w)
      PROVE  [B!Next]_(B!vars)
  <2> DEFINE k == item[w]
  <2>1. k \in Item /\ op[w] \in Op /\ (op[w] = "equip" => want[w] \in Socket)
    BY <1>4, CommitRows
  <2>2. op[w] \notin {"create", "delete"} => ownedAfter = owned
    BY <1>4, CommitOwns DEF OwnedIn
  <2>3. ASSUME NEW S \in Socket, ownedAfter = owned,
               \A j \in Item, s \in Socket :
                 /\ In(table', j, s) => In(table, j, s)
                 /\ s # S => (In(table', j, s) <=> In(table, j, s))
        PROVE  [B!Next]_(B!vars)
    <3>1. \A s \in Socket \ {S} : boardAfter[s] = board[s]
      BY <2>3, BoardAlike
    <3>2. boardAfter[S] = board[S] \/ (board[S] # None /\ boardAfter[S] = None)
      <4>1. CASE \A j \in Item : ~In(table', j, S)
        <5>1. boardAfter[S] = None
          BY <1>1, <4>1, BoardSocket
        <5>2. QED
          BY <5>1
      <4>2. CASE \E j \in Item : In(table', j, S)
        BY <1>1, <2>3, <4>2, BoardSocket
      <4>3. QED
        BY <4>1, <4>2
    <3>3. boardAfter = board \/ (board[S] # None /\ boardAfter = [board EXCEPT ![S] = None])
      BY <1>2, <3>1, <3>2
    <3>4. UNCHANGED B!vars \/ B!TakeOff(S)
      BY <2>3, <3>3 DEF B!vars, B!TakeOff
    <3>5. QED
      BY <3>4 DEF B!Next
  <2>4. CASE op[w] = "equip" /\ Indexed(w)
    <3>1. k \in owned
      BY <1>4, <2>1, <2>4, CommitRows DEF OwnedIn, Indexed, StagedIn, StagedBy
    <3>2. boardAfter[want[w]] = k
      <4>1. In(table', k, want[w])
        BY <1>4, <2>1, <2>4, EquipPlaces
      <4>2. QED
        BY <1>1, <2>1, <2>4, <4>1, BoardSocket
    <3>3. ASSUME NEW s \in Socket, s # want[w]
          PROVE  boardAfter[s] = IF board[s] = k THEN None ELSE board[s]
      <4>1. CASE In(table, k, s)
        <5>1. board[s] = k
          BY <1>1, <2>1, <4>1, BoardSocket
        <5>2. \A j \in Item : In(table, j, s) => j = k
          BY <1>1, <2>1, <4>1, <5>1, BoardSocket
        <5>3. \A j \in Item : ~In(table', j, s)
          BY <1>4, <2>4, <3>3, <5>2, EquipPlaces
        <5>4. QED
          BY <1>1, <5>1, <5>3, BoardSocket
      <4>2. CASE ~In(table, k, s)
        <5>1. board[s] # k
          <6>1. CASE \A i \in Item : ~In(table, i, s)
            BY <1>1, <2>1, <6>1, BoardSocket, CellAssumption
          <6>2. CASE \E i \in Item : In(table, i, s)
            BY <1>1, <4>2, <6>2, BoardSocket
          <6>3. QED
            BY <6>1, <6>2
        <5>2. \A j \in Item : In(table', j, s) <=> In(table, j, s)
          BY <1>4, <2>1, <2>4, <3>3, <4>2, EquipPlaces
        <5>3. QED
          BY <5>1, <5>2, BoardAlike
      <4>3. QED
        BY <4>1, <4>2
    <3>4. boardAfter = [[s \in Socket |-> IF board[s] = k THEN None ELSE board[s]]
                          EXCEPT ![want[w]] = k]
      BY <1>2, <2>1, <2>4, <3>2, <3>3
    <3>5. B!Place(k, want[w])
      BY <2>2, <2>4, <3>1, <3>4 DEF B!Place, B!Without
    <3>6. QED
      BY <2>1, <2>4, <3>5 DEF B!Next
  <2>5. CASE op[w] = "equip" /\ ~Indexed(w)
    BY <1>4, <2>1, <2>2, <2>3, <2>5, EquipClears
  <2>6. CASE op[w] = "unequip" /\ \E s \in Socket : In(table, k, s)
    <3>1. PICK S \in Socket : In(table, k, S)
      BY <2>6
    <3>2. \A s \in Socket : s # S => ~In(table, k, s)
      BY <3>1 DEF In
    <3>3. QED
      BY <1>4, <2>2, <2>3, <2>6, <3>2, OtherSockets
  <2>7. CASE \/ op[w] = "unequip" /\ ~\E s \in Socket : In(table, k, s)
             \/ op[w] \in {"patch", "lock", "unlock"}
    <3>1. \A j \in Item, s \in Socket : In(table', j, s) <=> In(table, j, s)
      BY <1>4, <2>7, OtherSockets
    <3>2. \A s \in Socket : boardAfter[s] = board[s]
      BY <3>1, BoardAlike
    <3>3. QED
      BY <1>2, <2>2, <2>7, <3>2 DEF B!vars
  <2>8. CASE op[w] = "create"
    <3>1. \A s \in Socket : boardAfter[s] = board[s]
      BY <1>4, <2>8, OtherSockets, BoardAlike
    <3>2. boardAfter = board
      BY <1>2, <3>1
    <3>3. ownedAfter = owned \/ (k \notin owned /\ ownedAfter = owned \cup {k})
      <4>1. \A i \in Item : pending[w][i] # None =>
               i = item[w] /\ table[i] = Absent /\ pending[w][i] # Absent
        BY <1>4, <2>8, CommitRows DEF StagedBy
      <4>2. QED
        BY <1>4, <2>1, <4>1, CommitRows DEF OwnedIn
    <3>4. UNCHANGED B!vars \/ B!Gain(k)
      BY <3>2, <3>3 DEF B!vars, B!Gain
    <3>5. QED
      BY <2>1, <3>4 DEF B!Next
  <2>9. CASE op[w] = "delete"
    <3>1. \A i \in Item : pending[w][i] # None =>
             i = item[w] /\ table[i] # Absent /\ pending[w][i] = Absent
      BY <1>4, <2>9, CommitRows DEF StagedBy
    <3>2. CASE pending[w][k] = None
      <4>1. \A i \in Item : table'[i] = table[i]
        BY <1>4, <3>1, <3>2, CommitRows
      <4>2. table' = table
        BY <1>4, <4>1, CommitRows
      <4>3. QED
        BY <4>2 DEF B!vars
    <3>3. CASE pending[w][k] # None
      <4>1. table'[k] = Absent /\ table[k] # Absent
        BY <1>4, <2>1, <3>1, <3>3, CommitRows
      <4>2. \A i \in Item : i # k => table'[i] = table[i]
        BY <1>4, <3>1, CommitRows
      <4>3. k \in owned /\ ownedAfter = owned \ {k}
        BY <2>1, <4>1, <4>2 DEF OwnedIn
      <4>4. ASSUME NEW s \in Socket
            PROVE  boardAfter[s] = IF board[s] = k THEN None ELSE board[s]
        <5>1. \A j \in Item : In(table', j, s) <=> j # k /\ In(table, j, s)
          BY <4>1, <4>2 DEF In
        <5>2. CASE In(table, k, s)
          <6>1. board[s] = k /\ \A j \in Item : In(table, j, s) => j = k
            BY <1>1, <2>1, <5>2, BoardSocket
          <6>2. QED
            BY <1>1, <5>1, <6>1, BoardSocket
        <5>3. CASE ~In(table, k, s)
          <6>1. board[s] # k
            <7>1. CASE \A i \in Item : ~In(table, i, s)
              BY <1>1, <2>1, <7>1, BoardSocket, CellAssumption
            <7>2. CASE \E i \in Item : In(table, i, s)
              BY <1>1, <5>3, <7>2, BoardSocket
            <7>3. QED
              BY <7>1, <7>2
          <6>2. \A j \in Item : In(table', j, s) <=> In(table, j, s)
            BY <5>1, <5>3
          <6>3. QED
            BY <6>1, <6>2, BoardAlike
        <5>4. QED
          BY <5>2, <5>3
      <4>5. boardAfter = [s \in Socket |-> IF board[s] = k THEN None ELSE board[s]]
        BY <1>2, <4>4
      <4>6. B!Lose(k)
        BY <4>3, <4>5 DEF B!Lose, B!Without
      <4>7. QED
        BY <2>1, <4>6 DEF B!Next
    <3>4. QED
      BY <3>2, <3>3
  <2>10. QED
    BY <2>1, <2>4, <2>5, <2>6, <2>7, <2>8, <2>9 DEF Op
<1>5. QED
  BY <1>3, <1>4, OnlyCommitPublishes

(* Whoever reads committed states sees a board of sockets that changes by    *)
(* whole placements, removals, gains and losses: no request is ever seen     *)
(* with a socket cleared and not yet set, or an item in two sockets.         *)
THEOREM ImplementsBoard == Spec => BoardSpec
<1>1. IInv /\ IInv' /\ [Next]_vars => [B!Next]_(B!vars)
  BY BoardStep
<1>2. Init => B!Init
  BY IInvInit, BoardInit
<1>3. QED
  BY <1>1, <1>2, InvariantHolds, PTL DEF Spec, BoardSpec, B!Spec
=============================================================================
