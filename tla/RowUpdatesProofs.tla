-------------------------- MODULE RowUpdatesProofs --------------------------
(***************************************************************************)
(* Proofs about RowUpdates for any rows, columns, values and handlers, and *)
(* either database.                                                        *)
(***************************************************************************)
EXTENDS RowUpdates, TLAPS

-----------------------------------------------------------------------------
(* Cells.                                                                    *)
\* A new row has no NULL where the table allows none: the defaults see to it.
LEMMA NewRowStorable ==
  ASSUME NEW w \in Worker, payload[w] \in Payload, item[w] \in Row
  PROVE  NewRow(w) \in Cells(item[w]) \ {Absent}
<1>1. NewRow(w) \in Columns
  BY ValueAssumption DEF NewRow, DefaultOf, Columns
<1>2. Storable(item[w], NewRow(w))
  BY ValueAssumption DEF NewRow, DefaultOf, Storable
<1>3. QED
  BY <1>1, <1>2, CellAssumption DEF Cells

\* What an UPDATE leaves: the columns that were sent, over the row as it is.
LEMMA NewCellTyped ==
  ASSUME NEW w \in Worker, payload[w] \in Payload, seen[w] \in Columns, table[item[w]] \in Columns
  PROVE  NewCell(w) \in Columns
<1>1. \A f \in Field : NewCell(w)[f] \in Value \cup {Null}
  BY DEF NewCell, Assigned, Columns, Payload
<1>2. NewCell(w) = [f \in Field |-> NewCell(w)[f]]
  BY DEF NewCell
<1>3. QED
  BY <1>1, <1>2 DEF Columns

\* A row is a row: with columns, and different from no row.
LEMMA RowCell ==
  ASSUME NEW i \in Row, NEW c \in Cells(i) \ {Absent}
  PROVE  c \in Columns /\ Storable(i, c) /\ c # None
  BY CellAssumption DEF Cells

-----------------------------------------------------------------------------
(* Types, program points and locks.                                          *)
LEMMA RowsInvInit == Init => IInv
<1> SUFFICES ASSUME Init
             PROVE  IInv
  OBVIOUS
<1>1. TypeOK
  BY CellAssumption DEF Init, RowsInit, RequestsInit, NothingPending, TypeOK, Cells
<1>2. QED
  BY <1>1, CellAssumption
     DEF Init, RowsInit, RequestsInit, NothingPending, IInv, StepsMatchFound, LocksExclusive,
         WritersHoldLock, FoundStays, StagedByRequest, UnstagedIsNothing

\* Every step keeps the types; no staged row has a NULL in a NOT NULL column.
LEMMA TypeStep ==
  TypeOK /\ StepsMatchFound /\ FoundStays /\ StagedByRequest /\ [Next]_vars
    => TypeOK'
<1> SUFFICES ASSUME TypeOK, StepsMatchFound, FoundStays, StagedByRequest, [Next]_vars
             PROVE  TypeOK'
  OBVIOUS
<1> USE CellAssumption DEF TypeOK
<1>1. ASSUME NEW w \in Worker, NEW o \in {"patch"}, NEW i \in Row, Refuse(w, o, i), UNCHANGED payload
      PROVE  TypeOK'
  <2>1. o \in Op
    BY DEF Op
  <2>2. /\ UNCHANGED <<table, pending, writing, cand, gone, rival, payload>>
        /\ op' = [op EXCEPT ![w] = o] /\ pc' = [pc EXCEPT ![w] = "done"]
        /\ item' = [item EXCEPT ![w] = None] /\ seen' = [seen EXCEPT ![w] = None]
    BY <1>1 DEF Refuse, Answer, Goto, rowVars
  <2>3. status' \in [Worker -> {"none", "ok", "404", "409", "500", "unique", "null"}]
    BY <1>1 DEF Refuse, Answer
  <2>4. QED
    BY <2>1, <2>2, <2>3
<1>2. ASSUME NEW w \in Worker, NEW i \in Row, NEW o \in OpsOn(i), NEW p \in Payload, Load(w, o, i, p)
      PROVE  TypeOK'
  <2>1. o \in Op /\ table[i] \in Columns \cup {Absent}
    BY <1>2 DEF OpsOn, Op, Cells
  <2>2. QED
    BY <1>2, <2>1 DEF Load, Start, Goto, rowVars
<1>3. ASSUME NEW w \in Worker, InsertRow(w), Forget(w)
      PROVE  TypeOK'
  <2>1. item[w] \in Row /\ NewRow(w) \in Cells(item[w])
    BY <1>3, NewRowStorable DEF InsertRow, Insert, StepsMatchFound
  <2>2. QED
    BY <1>3, <2>1 DEF InsertRow, Insert, StageRow, Stage, Goto, Forget
<1>4. ASSUME NEW w \in Worker, NEW code \in {"409", "unique", "null", "500"}, Fail(w, code), Forget(w)
      PROVE  TypeOK'
  BY <1>4 DEF Fail, DropWrites, EndTransaction, NothingPending, Answer, Goto, Forget
<1>5. ASSUME NEW w \in Worker, FlushNothing(w), Forget(w)
      PROVE  TypeOK'
  BY <1>5 DEF FlushNothing, SkipFlush, Goto, rowVars, Forget
<1>6. ASSUME NEW w \in Worker, FlushRow(w), Forget(w)
      PROVE  TypeOK'
  <2>1. /\ pc[w] = "flush" /\ item[w] \in Row /\ ~Creates(w) /\ payload[w] \in Payload
        /\ Storable(item[w], NewCell(w))
    BY <1>6 DEF FlushRow, WriteTarget, StepsMatchFound
  <2>2. seen[w] \in Columns /\ table[item[w]] \in Columns
    BY <2>1, RowCell DEF StepsMatchFound, FoundStays
  <2>3. NewCell(w) \in Cells(item[w])
    BY <2>1, <2>2, NewCellTyped DEF Cells
  <2>4. QED
    BY <1>6, <2>1, <2>3 DEF FlushRow, WriteTarget, StageRow, Stage, Goto, Forget
<1>7. ASSUME NEW w \in Worker, Commit(w), Forget(w)
      PROVE  TypeOK'
  <2>1. DeletedBy(w) = {}
    BY CellAssumption DEF DeletedBy, StagedByRequest, StagedBy
  <2>2. \A v \in Worker : ~LosesRow(v, w)
    BY <2>1 DEF LosesRow
  <2>3. table' = [r \in Row |-> IF pending[w][r] = None THEN table[r] ELSE pending[w][r]]
    BY <1>7 DEF Commit, CommitWrites, PublishWrites, TableAfter
  <2>4. cand' = cand
    BY <1>7, <2>1 DEF Commit, CommitWrites
  <2>5. gone' \in [Worker -> BOOLEAN] /\ rival' \in [Worker -> BOOLEAN]
    BY <1>7 DEF Commit, CommitWrites
  <2>6. \A i \in Row : table'[i] \in Cells(i)
    <3>1. \A i \in Row : pending[w][i] # None => pending[w][i] \in Cells(i)
      OBVIOUS
    <3>2. QED
      BY <2>3, <3>1
  <2>7. /\ DOMAIN table' = Row
        /\ op' = op /\ writing' = [writing EXCEPT ![w] = FALSE]
        /\ pending' = [pending EXCEPT ![w] = [r \in Row |-> None]]
        /\ payload' = [payload EXCEPT ![w] = IF pc'[w] \in {"refresh", "done"} THEN None ELSE @]
    BY <1>7, <2>3 DEF Commit, CommitWrites, PublishWrites, EndTransaction, NothingPending, Forget
  <2>8. \/ /\ pc' = [pc EXCEPT ![w] = "refresh"] /\ UNCHANGED <<item, seen, status>>
        \/ /\ pc' = [pc EXCEPT ![w] = "done"] /\ status' = [status EXCEPT ![w] = "ok"]
           /\ item' = [item EXCEPT ![w] = None] /\ seen' = [seen EXCEPT ![w] = None]
    BY <1>7 DEF Commit, CommitWrites, Answer, Goto
  <2>9. pc' \in [Worker -> {"idle", "insert", "flush", "commit", "refresh", "done"}]
    BY <2>8
  <2>10. /\ item' \in [Worker -> Row \cup {None}]
         /\ seen' \in [Worker -> Columns \cup {Absent, None}]
    BY <2>8
  <2>11. status' \in [Worker -> {"none", "ok", "404", "409", "500", "unique", "null"}]
    BY <2>8
  <2>12. /\ DOMAIN pending' = Worker
         /\ \A v \in Worker : /\ DOMAIN pending'[v] = Row
                               /\ \A i \in Row : pending'[v][i] \in Cells(i) \cup {None}
    BY <2>7
  <2>13. op' \in [Worker -> Op \cup {"none"}] /\ payload' \in [Worker -> Payload \cup {None}]
    BY <2>7
  <2>14. writing' \in [Worker -> BOOLEAN]
    BY <2>7
  <2>15. QED
    BY <2>4, <2>5, <2>6, <2>7, <2>9, <2>10, <2>11, <2>12, <2>13, <2>14
<1>8. ASSUME NEW w \in Worker, Refresh(w), Forget(w)
      PROVE  TypeOK'
  BY <1>8 DEF Refresh, Answer, Goto, rowVars, Forget
<1>9. ASSUME NEW w \in Worker, Return(w), Forget(w)
      PROVE  TypeOK'
  BY <1>9 DEF Return, Goto, rowVars, Forget
<1>10. CASE UNCHANGED vars
  BY <1>10 DEF vars, rowVars, reqVars
<1>11. QED
  BY <1>1, <1>2, <1>3, <1>4, <1>5, <1>6, <1>7, <1>8, <1>9, <1>10
     DEF Next, Proceed, Arrive, InsertRaced, NullRejected, BusyTimeout, AbortBusy

\* Every step keeps the correspondence of program point and what was found.
LEMMA StepsStep ==
  TypeOK /\ StepsMatchFound /\ StagedByRequest /\ [Next]_vars
    => StepsMatchFound'
<1> SUFFICES ASSUME TypeOK, StepsMatchFound, StagedByRequest, [Next]_vars
             PROVE  StepsMatchFound'
  OBVIOUS
<1> USE DEF TypeOK, StepsMatchFound, Creates
<1>1. ASSUME NEW w \in Worker, NEW o \in {"patch"}, NEW i \in Row, Refuse(w, o, i), UNCHANGED payload
      PROVE  StepsMatchFound'
  BY <1>1 DEF Refuse, Answer, Goto, rowVars
<1>2. ASSUME NEW w \in Worker, NEW i \in Row, NEW o \in OpsOn(i), NEW p \in Payload, Load(w, o, i, p)
      PROVE  StepsMatchFound'
  <2>1. table[i] \in Cells(i)
    OBVIOUS
  <2>2. /\ op' = [op EXCEPT ![w] = o] /\ item' = [item EXCEPT ![w] = i]
        /\ seen' = [seen EXCEPT ![w] = table[i]] /\ payload' = [payload EXCEPT ![w] = p]
        /\ \/ (o = "post" \/ table[i] = Absent) /\ pc' = [pc EXCEPT ![w] = "insert"]
           \/ ~(o = "post" \/ table[i] = Absent) /\ pc' = [pc EXCEPT ![w] = "flush"]
    BY <1>2 DEF Load, Start, Goto
  <2>3. QED
    BY <2>1, <2>2
<1>3. ASSUME NEW w \in Worker, InsertRow(w), Forget(w)
      PROVE  StepsMatchFound'
  BY <1>3 DEF InsertRow, Insert, StageRow, Stage, Goto, Forget
<1>4. ASSUME NEW w \in Worker, NEW code \in {"409", "unique", "null", "500"}, Fail(w, code), Forget(w)
      PROVE  StepsMatchFound'
  BY <1>4 DEF Fail, DropWrites, EndTransaction, NothingPending, Answer, Goto, Forget
<1>5. ASSUME NEW w \in Worker, FlushNothing(w), Forget(w)
      PROVE  StepsMatchFound'
  BY <1>5 DEF FlushNothing, SkipFlush, Goto, rowVars, Forget
<1>6. ASSUME NEW w \in Worker, FlushRow(w), Forget(w)
      PROVE  StepsMatchFound'
  BY <1>6 DEF FlushRow, WriteTarget, StageRow, Stage, Goto, Forget
<1>7. ASSUME NEW w \in Worker, Commit(w), Forget(w)
      PROVE  StepsMatchFound'
  BY <1>7 DEF Commit, CommitWrites, PublishWrites, TableAfter, DeletedBy, EndTransaction, NothingPending, Answer, Goto, Forget
<1>8. ASSUME NEW w \in Worker, Refresh(w), Forget(w)
      PROVE  StepsMatchFound'
  BY <1>8 DEF Refresh, Answer, Goto, rowVars, Forget
<1>9. ASSUME NEW w \in Worker, Return(w), Forget(w)
      PROVE  StepsMatchFound'
  BY <1>9 DEF Return, Goto, rowVars, Forget
<1>10. CASE UNCHANGED vars
  BY <1>10 DEF vars, rowVars, reqVars
<1>11. QED
  BY <1>1, <1>2, <1>3, <1>4, <1>5, <1>6, <1>7, <1>8, <1>9, <1>10
     DEF Next, Proceed, Arrive, InsertRaced, NullRejected, BusyTimeout, AbortBusy

\* The databases' row and writer locks.
LEMMA LocksStep ==
  TypeOK /\ LocksExclusive /\ WritersHoldLock /\ [Next]_vars
    => (LocksExclusive /\ WritersHoldLock)'
<1> SUFFICES ASSUME TypeOK, LocksExclusive, WritersHoldLock, [Next]_vars
             PROVE  (LocksExclusive /\ WritersHoldLock)'
  OBVIOUS
<1> USE DialectAssumption DEF TypeOK, LocksExclusive, WritersHoldLock
<1>1. ASSUME NEW w \in Worker, NEW o \in {"patch"}, NEW i \in Row, Refuse(w, o, i), UNCHANGED payload
      PROVE  (LocksExclusive /\ WritersHoldLock)'
  BY <1>1 DEF Refuse, Answer, Goto, rowVars
<1>2. ASSUME NEW w \in Worker, NEW i \in Row, NEW o \in OpsOn(i), NEW p \in Payload, Load(w, o, i, p)
      PROVE  (LocksExclusive /\ WritersHoldLock)'
  BY <1>2 DEF Load, Start, Goto, rowVars
<1>3. ASSUME NEW w \in Worker, InsertRow(w), Forget(w)
      PROVE  (LocksExclusive /\ WritersHoldLock)'
  BY <1>3 DEF InsertRow, Insert, StageRow, Stage, Goto, Forget, Blockers
<1>4. ASSUME NEW w \in Worker, NEW code \in {"409", "unique", "null", "500"}, Fail(w, code), Forget(w)
      PROVE  (LocksExclusive /\ WritersHoldLock)'
  BY <1>4 DEF Fail, DropWrites, EndTransaction, NothingPending, Answer, Goto, Forget
<1>5. ASSUME NEW w \in Worker, FlushNothing(w), Forget(w)
      PROVE  (LocksExclusive /\ WritersHoldLock)'
  BY <1>5 DEF FlushNothing, SkipFlush, Goto, rowVars, Forget
<1>6. ASSUME NEW w \in Worker, FlushRow(w), Forget(w)
      PROVE  (LocksExclusive /\ WritersHoldLock)'
  BY <1>6 DEF FlushRow, WriteTarget, StageRow, Stage, Goto, Forget, TargetBlockers, Blockers
<1>7. ASSUME NEW w \in Worker, Commit(w), Forget(w)
      PROVE  (LocksExclusive /\ WritersHoldLock)'
  BY <1>7 DEF Commit, CommitWrites, PublishWrites, TableAfter, DeletedBy, EndTransaction, NothingPending, Answer, Goto, Forget
<1>8. ASSUME NEW w \in Worker, Refresh(w), Forget(w)
      PROVE  (LocksExclusive /\ WritersHoldLock)'
  BY <1>8 DEF Refresh, Answer, Goto, rowVars, Forget
<1>9. ASSUME NEW w \in Worker, Return(w), Forget(w)
      PROVE  (LocksExclusive /\ WritersHoldLock)'
  BY <1>9 DEF Return, Goto, rowVars, Forget
<1>10. CASE UNCHANGED vars
  BY <1>10 DEF vars, rowVars, reqVars
<1>11. QED
  BY <1>1, <1>2, <1>3, <1>4, <1>5, <1>6, <1>7, <1>8, <1>9, <1>10
     DEF Next, Proceed, Arrive, InsertRaced, NullRejected, BusyTimeout, AbortBusy

-----------------------------------------------------------------------------
(* What is staged.                                                           *)
(* A step of w that leaves the other requests as they are.                   *)
OthersKeep(w) ==
  \A v \in Worker \ {w} :
    /\ pending'[v] = pending[v] /\ pc'[v] = pc[v] /\ op'[v] = op[v]
    /\ item'[v] = item[v] /\ seen'[v] = seen[v] /\ payload'[v] = payload[v]

\* What is staged keeps its meaning while the request and the row stay as they are.
LEMMA StagedStands ==
  ASSUME NEW w \in Worker, NEW i \in Row, StagedBy(w, i),
         pending'[w][i] = pending[w][i], table'[i] = table[i], pc'[w] = pc[w],
         op'[w] = op[w], item'[w] = item[w], seen'[w] = seen[w], payload'[w] = payload[w]
  PROVE  StagedBy(w, i)'
<1>1. Creates(w)' <=> Creates(w)
  BY DEF Creates
<1>2. CASE Creates(w)
  <2>1. NewRow(w)' = NewRow(w)
    BY DEF NewRow
  <2>2. QED
    BY <1>1, <1>2, <2>1 DEF StagedBy
<1>3. CASE ~Creates(w)
  <2>1. NewCell(w)' = NewCell(w)
    <3>1. Assigned(w)' = Assigned(w)
      BY DEF Assigned
    <3>2. table'[item'[w]] = table[item[w]]
      BY DEF StagedBy
    <3>3. QED
      BY <3>1, <3>2 DEF NewCell
  <2>2. QED
    BY <1>1, <1>3, <2>1 DEF StagedBy
<1>4. QED
  BY <1>2, <1>3

LEMMA OwnStep ==
  ASSUME StagedByRequest, NEW w \in Worker, UNCHANGED table, OthersKeep(w),
         \A i \in Row : pending'[w][i] # None => StagedBy(w, i)'
  PROVE  StagedByRequest'
<1>1. ASSUME NEW v \in Worker \ {w}, NEW i \in Row, pending'[v][i] # None
      PROVE  StagedBy(v, i)'
  <2>1. StagedBy(v, i)
    BY <1>1 DEF OthersKeep, StagedByRequest
  <2>2. QED
    BY <2>1, StagedStands DEF OthersKeep
<1>2. QED
  BY <1>1 DEF StagedByRequest

\* Only who is about to commit has staged anything.
LEMMA NothingStagedYet ==
  ASSUME StagedByRequest, NEW w \in Worker, pc[w] # "commit"
  PROVE  \A i \in Row : pending[w][i] = None
  BY DEF StagedByRequest, StagedBy

\* What is staged stays an update of the row as it is: nobody else writes it.
LEMMA StagedStep ==
  TypeOK /\ StepsMatchFound /\ LocksExclusive /\ FoundStays /\ StagedByRequest /\ [Next]_vars
    => StagedByRequest'
<1> SUFFICES ASSUME TypeOK, StepsMatchFound, LocksExclusive, FoundStays, StagedByRequest, [Next]_vars
             PROVE  StagedByRequest'
  OBVIOUS
<1> USE DEF TypeOK
<1>1. ASSUME NEW w \in Worker, NEW o \in {"patch"}, NEW i \in Row, Refuse(w, o, i), UNCHANGED payload
      PROVE  StagedByRequest'
  <2>1. UNCHANGED <<table, pending>> /\ OthersKeep(w) /\ pc[w] # "commit"
    BY <1>1 DEF Refuse, Answer, Goto, rowVars, OthersKeep
  <2>2. QED
    BY <2>1, NothingStagedYet, OwnStep
<1>2. ASSUME NEW w \in Worker, NEW i \in Row, NEW o \in OpsOn(i), NEW p \in Payload, Load(w, o, i, p)
      PROVE  StagedByRequest'
  <2>1. UNCHANGED <<table, pending>> /\ OthersKeep(w) /\ pc[w] # "commit"
    BY <1>2 DEF Load, Start, Goto, rowVars, OthersKeep
  <2>2. QED
    BY <2>1, NothingStagedYet, OwnStep
<1>3. ASSUME NEW w \in Worker, InsertRow(w), Forget(w)
      PROVE  StagedByRequest'
  <2>1. /\ UNCHANGED <<table, op, item, seen>> /\ OthersKeep(w)
        /\ pc[w] = "insert" /\ pc'[w] = "commit" /\ payload'[w] = payload[w]
        /\ pending'[w] = [pending[w] EXCEPT ![item[w]] = NewRow(w)] /\ table[item[w]] = Absent
    BY <1>3 DEF InsertRow, Insert, StageRow, Stage, Goto, Forget, OthersKeep
  <2>2. item[w] \in Row /\ Creates(w) /\ NewRow(w) # Absent
    BY <2>1, NewRowStorable DEF StepsMatchFound
  <2>3. NewRow(w)' = NewRow(w) /\ Creates(w)'
    BY <2>1, <2>2 DEF NewRow, Creates
  <2>4. ASSUME NEW i \in Row, pending'[w][i] # None
        PROVE  StagedBy(w, i)'
    <3>1. i = item[w]
      BY <2>1, <2>4, NothingStagedYet
    <3>2. QED
      BY <2>1, <2>2, <2>3, <3>1 DEF StagedBy
  <2>5. QED
    BY <2>1, <2>4, OwnStep
<1>4. ASSUME NEW w \in Worker, NEW code \in {"409", "unique", "null", "500"}, Fail(w, code), Forget(w)
      PROVE  StagedByRequest'
  <2>1. UNCHANGED table /\ OthersKeep(w) /\ \A i \in Row : pending'[w][i] = None
    BY <1>4 DEF Fail, DropWrites, EndTransaction, NothingPending, Answer, Goto, Forget, OthersKeep
  <2>2. QED
    BY <2>1, OwnStep
<1>5. ASSUME NEW w \in Worker, FlushNothing(w), Forget(w)
      PROVE  StagedByRequest'
  <2>1. UNCHANGED <<table, pending>> /\ OthersKeep(w) /\ pc[w] # "commit"
    BY <1>5 DEF FlushNothing, SkipFlush, Goto, rowVars, Forget, OthersKeep
  <2>2. QED
    BY <2>1, NothingStagedYet, OwnStep
<1>6. ASSUME NEW w \in Worker, FlushRow(w), Forget(w)
      PROVE  StagedByRequest'
  <2>1. /\ UNCHANGED <<table, op, item, seen>> /\ OthersKeep(w)
        /\ pc[w] = "flush" /\ pc'[w] = "commit" /\ payload'[w] = payload[w]
        /\ pending'[w] = [pending[w] EXCEPT ![item[w]] = NewCell(w)]
    BY <1>6 DEF FlushRow, WriteTarget, StageRow, Stage, Goto, Forget, OthersKeep
  <2>2. /\ item[w] \in Row /\ ~Creates(w) /\ payload[w] \in Payload
        /\ seen[w] \in Columns /\ table[item[w]] \in Columns
    BY <2>1, RowCell DEF StepsMatchFound, FoundStays
  <2>3. NewCell(w) # Absent
    BY <2>2, NewCellTyped, CellAssumption
  <2>4. NewCell(w)' = NewCell(w) /\ ~Creates(w)'
    BY <2>1, <2>2 DEF NewCell, Assigned, Creates
  <2>5. ASSUME NEW i \in Row, pending'[w][i] # None
        PROVE  StagedBy(w, i)'
    <3>1. i = item[w]
      BY <2>1, <2>5, NothingStagedYet
    <3>2. QED
      BY <2>1, <2>2, <2>3, <2>4, <3>1 DEF StagedBy
  <2>6. QED
    BY <2>1, <2>5, OwnStep
<1>7. ASSUME NEW w \in Worker, Commit(w), Forget(w)
      PROVE  StagedByRequest'
  <2>1. /\ OthersKeep(w) /\ \A i \in Row : pending'[w][i] = None
        /\ \A i \in Row : pending[w][i] = None => table'[i] = table[i]
    BY <1>7 DEF Commit, CommitWrites, PublishWrites, TableAfter, EndTransaction, NothingPending,
              Answer, Goto, Forget, OthersKeep
  <2>2. ASSUME NEW v \in Worker, NEW i \in Row, pending'[v][i] # None
        PROVE  StagedBy(v, i)'
    <3>1. v # w /\ pending[v][i] # None
      BY <2>1, <2>2 DEF OthersKeep
    <3>2. table'[i] = table[i] /\ StagedBy(v, i)
      BY <2>1, <3>1 DEF LocksExclusive, StagedByRequest
    <3>3. QED
      BY <2>1, <3>1, <3>2, StagedStands DEF OthersKeep
  <2>3. QED
    BY <2>2 DEF StagedByRequest
<1>8. ASSUME NEW w \in Worker, Refresh(w), Forget(w)
      PROVE  StagedByRequest'
  <2>1. UNCHANGED <<table, pending>> /\ OthersKeep(w) /\ pc[w] # "commit"
    BY <1>8 DEF Refresh, Answer, Goto, rowVars, Forget, OthersKeep
  <2>2. QED
    BY <2>1, NothingStagedYet, OwnStep
<1>9. ASSUME NEW w \in Worker, Return(w), Forget(w)
      PROVE  StagedByRequest'
  <2>1. UNCHANGED <<table, pending>> /\ OthersKeep(w) /\ pc[w] # "commit"
    BY <1>9 DEF Return, Goto, rowVars, Forget, OthersKeep
  <2>2. QED
    BY <2>1, NothingStagedYet, OwnStep
<1>10. CASE UNCHANGED vars
  <2>1. UNCHANGED <<table, pending, pc, op, item, seen, payload>>
    BY <1>10 DEF vars, rowVars, reqVars
  <2>2. QED
    BY <2>1, StagedStands DEF StagedByRequest
<1>11. QED
  BY <1>1, <1>2, <1>3, <1>4, <1>5, <1>6, <1>7, <1>8, <1>9, <1>10
     DEF Next, Proceed, Arrive, InsertRaced, NullRejected, BusyTimeout, AbortBusy

\* What a commit publishes.
LEMMA Published ==
  ASSUME NEW w \in Worker, Commit(w), NEW i \in Row
  PROVE  table'[i] = IF pending[w][i] = None THEN table[i] ELSE pending[w][i]
  BY DEF Commit, CommitWrites, PublishWrites, TableAfter

LEMMA OnlyCommitPublishes ==
  [Next]_vars => (\E w \in Worker : Commit(w)) \/ UNCHANGED table
<1>1. ASSUME NEW w \in Worker, Proceed(w)
      PROVE  Commit(w) \/ UNCHANGED table
  BY <1>1 DEF Proceed, InsertRow, Insert, InsertRaced, FlushNothing, SkipFlush, rowVars, FlushRow, WriteTarget,
              NullRejected, Refresh, BusyTimeout, AbortBusy, Fail, DropWrites, Return
<1>2. ASSUME NEW w \in Worker, Arrive(w)
      PROVE  UNCHANGED table
  BY <1>2 DEF Arrive, Refuse, Load, Start, rowVars
<1>3. QED
  BY <1>1, <1>2 DEF Next, vars, rowVars

\* So a row that is there stays there.
LEMMA NothingDeletes ==
  ASSUME StagedByRequest, [Next]_vars, NEW i \in Row, table[i] # Absent
  PROVE  table'[i] # Absent
<1>1. ASSUME NEW w \in Worker, Commit(w)
      PROVE  table'[i] # Absent
  BY <1>1, Published DEF StagedByRequest, StagedBy
<1>2. QED
  BY <1>1, OnlyCommitPublishes

\* What a request loaded is still there when it flushes and commits.
LEMMA FoundStep ==
  TypeOK /\ StepsMatchFound /\ StagedByRequest /\ FoundStays /\ [Next]_vars
    => FoundStays'
<1> SUFFICES ASSUME TypeOK, StepsMatchFound, StagedByRequest, FoundStays, [Next]_vars
             PROVE  FoundStays'
  OBVIOUS
<1> USE DEF TypeOK
<1>1. ASSUME NEW w \in Worker, NEW o \in {"patch"}, NEW i \in Row, Refuse(w, o, i), UNCHANGED payload
      PROVE  FoundStays'
  <2>1. ASSUME NEW v \in Worker, pc'[v] \in {"flush", "commit"}, ~Creates(v)'
        PROVE  /\ item'[v] \in Row /\ table[item'[v]] # Absent
    BY <1>1, <2>1 DEF Refuse, Answer, Goto, rowVars, FoundStays, StepsMatchFound, Creates
  <2>2. QED
    BY <2>1, NothingDeletes DEF FoundStays
<1>2. ASSUME NEW w \in Worker, NEW i \in Row, NEW o \in OpsOn(i), NEW p \in Payload, Load(w, o, i, p)
      PROVE  FoundStays'
  <2>1. ASSUME NEW v \in Worker, pc'[v] \in {"flush", "commit"}, ~Creates(v)'
        PROVE  /\ item'[v] \in Row /\ table[item'[v]] # Absent
    BY <1>2, <2>1 DEF Load, Start, Goto, rowVars, FoundStays, StepsMatchFound, Creates
  <2>2. QED
    BY <2>1, NothingDeletes DEF FoundStays
<1>3. ASSUME NEW w \in Worker, InsertRow(w), Forget(w)
      PROVE  FoundStays'
  <2>1. ASSUME NEW v \in Worker, pc'[v] \in {"flush", "commit"}, ~Creates(v)'
        PROVE  /\ item'[v] \in Row /\ table[item'[v]] # Absent
    BY <1>3, <2>1 DEF InsertRow, Insert, StageRow, Stage, Goto, Forget, FoundStays, StepsMatchFound, Creates
  <2>2. QED
    BY <2>1, NothingDeletes DEF FoundStays
<1>4. ASSUME NEW w \in Worker, NEW code \in {"409", "unique", "null", "500"}, Fail(w, code), Forget(w)
      PROVE  FoundStays'
  <2>1. ASSUME NEW v \in Worker, pc'[v] \in {"flush", "commit"}, ~Creates(v)'
        PROVE  /\ item'[v] \in Row /\ table[item'[v]] # Absent
    BY <1>4, <2>1 DEF Fail, DropWrites, EndTransaction, NothingPending, Answer, Goto, Forget, FoundStays, StepsMatchFound, Creates
  <2>2. QED
    BY <2>1, NothingDeletes DEF FoundStays
<1>5. ASSUME NEW w \in Worker, FlushNothing(w), Forget(w)
      PROVE  FoundStays'
  <2>1. ASSUME NEW v \in Worker, pc'[v] \in {"flush", "commit"}, ~Creates(v)'
        PROVE  /\ item'[v] \in Row /\ table[item'[v]] # Absent
    BY <1>5, <2>1 DEF FlushNothing, SkipFlush, Goto, rowVars, Forget, FoundStays, StepsMatchFound, Creates
  <2>2. QED
    BY <2>1, NothingDeletes DEF FoundStays
<1>6. ASSUME NEW w \in Worker, FlushRow(w), Forget(w)
      PROVE  FoundStays'
  <2>1. ASSUME NEW v \in Worker, pc'[v] \in {"flush", "commit"}, ~Creates(v)'
        PROVE  /\ item'[v] \in Row /\ table[item'[v]] # Absent
    BY <1>6, <2>1 DEF FlushRow, WriteTarget, StageRow, Stage, Goto, Forget, FoundStays, StepsMatchFound, Creates
  <2>2. QED
    BY <2>1, NothingDeletes DEF FoundStays
<1>7. ASSUME NEW w \in Worker, Commit(w), Forget(w)
      PROVE  FoundStays'
  <2>1. ASSUME NEW v \in Worker, pc'[v] \in {"flush", "commit"}, ~Creates(v)'
        PROVE  /\ item'[v] \in Row /\ table[item'[v]] # Absent
    BY <1>7, <2>1 DEF Commit, CommitWrites, PublishWrites, TableAfter, DeletedBy, EndTransaction, NothingPending, Answer, Goto, Forget, FoundStays, StepsMatchFound, Creates
  <2>2. QED
    BY <2>1, NothingDeletes DEF FoundStays
<1>8. ASSUME NEW w \in Worker, Refresh(w), Forget(w)
      PROVE  FoundStays'
  <2>1. ASSUME NEW v \in Worker, pc'[v] \in {"flush", "commit"}, ~Creates(v)'
        PROVE  /\ item'[v] \in Row /\ table[item'[v]] # Absent
    BY <1>8, <2>1 DEF Refresh, Answer, Goto, rowVars, Forget, FoundStays, StepsMatchFound, Creates
  <2>2. QED
    BY <2>1, NothingDeletes DEF FoundStays
<1>9. ASSUME NEW w \in Worker, Return(w), Forget(w)
      PROVE  FoundStays'
  <2>1. ASSUME NEW v \in Worker, pc'[v] \in {"flush", "commit"}, ~Creates(v)'
        PROVE  /\ item'[v] \in Row /\ table[item'[v]] # Absent
    BY <1>9, <2>1 DEF Return, Goto, rowVars, Forget, FoundStays, StepsMatchFound, Creates
  <2>2. QED
    BY <2>1, NothingDeletes DEF FoundStays
<1>10. CASE UNCHANGED vars
  <2>1. ASSUME NEW v \in Worker, pc'[v] \in {"flush", "commit"}, ~Creates(v)'
        PROVE  /\ item'[v] \in Row /\ table[item'[v]] # Absent
    BY <1>10, <2>1 DEF vars, reqVars, FoundStays, StepsMatchFound, Creates
  <2>2. QED
    BY <2>1, NothingDeletes DEF FoundStays
<1>11. QED
  BY <1>1, <1>2, <1>3, <1>4, <1>5, <1>6, <1>7, <1>8, <1>9, <1>10
     DEF Next, Proceed, Arrive, InsertRaced, NullRejected, BusyTimeout, AbortBusy

LEMMA UnstagedKept ==
  ASSUME UnstagedIsNothing, NEW w \in Worker, OthersKeep(w),
         pc'[w] = "commit" /\ pending'[w][item'[w]] = None => ~Creates(w)' /\ ~NetChange(w)'
  PROVE  UnstagedIsNothing'
<1>1. ASSUME NEW v \in Worker \ {w}, pc'[v] = "commit", pending'[v][item'[v]] = None
      PROVE  ~Creates(v)' /\ ~NetChange(v)'
  BY <1>1 DEF UnstagedIsNothing, OthersKeep, Creates, NetChange, Assigned
<1>2. QED
  BY <1>1 DEF UnstagedIsNothing

\* Who has nothing staged had nothing to write.
LEMMA UnstagedStep ==
  TypeOK /\ StepsMatchFound /\ FoundStays /\ UnstagedIsNothing /\ [Next]_vars
    => UnstagedIsNothing'
<1> SUFFICES ASSUME TypeOK, StepsMatchFound, FoundStays, UnstagedIsNothing, [Next]_vars
             PROVE  UnstagedIsNothing'
  OBVIOUS
<1> USE DEF TypeOK
<1>1. ASSUME NEW w \in Worker, NEW o \in {"patch"}, NEW i \in Row, Refuse(w, o, i), UNCHANGED payload
      PROVE  UnstagedIsNothing'
  <2>1. OthersKeep(w) /\ pc'[w] # "commit"
    BY <1>1 DEF Refuse, Answer, Goto, rowVars, OthersKeep
  <2>2. QED
    BY <2>1, UnstagedKept
<1>2. ASSUME NEW w \in Worker, NEW i \in Row, NEW o \in OpsOn(i), NEW p \in Payload, Load(w, o, i, p)
      PROVE  UnstagedIsNothing'
  <2>1. OthersKeep(w) /\ pc'[w] # "commit"
    BY <1>2 DEF Load, Start, Goto, rowVars, OthersKeep
  <2>2. QED
    BY <2>1, UnstagedKept
<1>3. ASSUME NEW w \in Worker, InsertRow(w), Forget(w)
      PROVE  UnstagedIsNothing'
  <2>1. /\ pending'[w] = [pending[w] EXCEPT ![item[w]] = NewRow(w)] /\ item'[w] = item[w]
        /\ OthersKeep(w) /\ item[w] \in Row /\ NewRow(w) # None
    <3>1. pc[w] = "insert" /\ item[w] \in Row /\ payload[w] \in Payload
      BY <1>3 DEF InsertRow, Insert, StepsMatchFound
    <3>2. NewRow(w) # None
      BY <3>1, NewRowStorable, RowCell
    <3>3. QED
      BY <1>3, <3>1, <3>2 DEF InsertRow, Insert, StageRow, Stage, Goto, Forget, OthersKeep
  <2>2. QED
    BY <2>1, UnstagedKept
<1>4. ASSUME NEW w \in Worker, NEW code \in {"409", "unique", "null", "500"}, Fail(w, code), Forget(w)
      PROVE  UnstagedIsNothing'
  <2>1. OthersKeep(w) /\ pc'[w] # "commit"
    BY <1>4 DEF Fail, DropWrites, EndTransaction, NothingPending, Answer, Goto, Forget, OthersKeep
  <2>2. QED
    BY <2>1, UnstagedKept
<1>5. ASSUME NEW w \in Worker, FlushNothing(w), Forget(w)
      PROVE  UnstagedIsNothing'
  <2>1. /\ UNCHANGED <<op, seen>> /\ payload'[w] = payload[w] /\ OthersKeep(w)
        /\ pc[w] = "flush" /\ ~NetChange(w)
    BY <1>5 DEF FlushNothing, SkipFlush, Goto, rowVars, Forget, OthersKeep
  <2>2. ~Creates(w)' /\ ~NetChange(w)'
    BY <2>1 DEF StepsMatchFound, Creates, NetChange, Assigned
  <2>3. QED
    BY <2>1, <2>2, UnstagedKept
<1>6. ASSUME NEW w \in Worker, FlushRow(w), Forget(w)
      PROVE  UnstagedIsNothing'
  <2>1. /\ pending'[w] = [pending[w] EXCEPT ![item[w]] = NewCell(w)] /\ item'[w] = item[w]
        /\ OthersKeep(w) /\ pc[w] = "flush"
    BY <1>6 DEF FlushRow, WriteTarget, StageRow, Stage, Goto, Forget, OthersKeep
  <2>2. /\ item[w] \in Row /\ ~Creates(w) /\ payload[w] \in Payload
        /\ seen[w] \in Columns /\ table[item[w]] \in Columns
    BY <2>1, RowCell DEF StepsMatchFound, FoundStays
  <2>3. NewCell(w) # None
    BY <2>2, NewCellTyped, CellAssumption
  <2>4. QED
    BY <2>1, <2>2, <2>3, UnstagedKept
<1>7. ASSUME NEW w \in Worker, Commit(w), Forget(w)
      PROVE  UnstagedIsNothing'
  <2>1. OthersKeep(w) /\ pc'[w] # "commit"
    BY <1>7 DEF Commit, CommitWrites, PublishWrites, TableAfter, DeletedBy, EndTransaction, NothingPending, Answer, Goto, Forget, OthersKeep
  <2>2. QED
    BY <2>1, UnstagedKept
<1>8. ASSUME NEW w \in Worker, Refresh(w), Forget(w)
      PROVE  UnstagedIsNothing'
  <2>1. OthersKeep(w) /\ pc'[w] # "commit"
    BY <1>8 DEF Refresh, Answer, Goto, rowVars, Forget, OthersKeep
  <2>2. QED
    BY <2>1, UnstagedKept
<1>9. ASSUME NEW w \in Worker, Return(w), Forget(w)
      PROVE  UnstagedIsNothing'
  <2>1. OthersKeep(w) /\ pc'[w] # "commit"
    BY <1>9 DEF Return, Goto, rowVars, Forget, OthersKeep
  <2>2. QED
    BY <2>1, UnstagedKept
<1>10. CASE UNCHANGED vars
  BY <1>10 DEF vars, rowVars, reqVars, UnstagedIsNothing, Creates, NetChange, Assigned
<1>11. QED
  BY <1>1, <1>2, <1>3, <1>4, <1>5, <1>6, <1>7, <1>8, <1>9, <1>10
     DEF Next, Proceed, Arrive, InsertRaced, NullRejected, BusyTimeout, AbortBusy

-----------------------------------------------------------------------------
(* The inductive invariant.                                                  *)
\* Every step keeps every conjunct: the step lemmas together.
LEMMA IInvStep == IInv /\ [Next]_vars => IInv'
  BY TypeStep, StepsStep, LocksStep, StagedStep, FoundStep, UnstagedStep DEF IInv

(* The inductive invariant holds in every reachable state, for any rows,     *)
(* columns, values and handlers: in particular no committed or staged row    *)
(* has a NULL in a NOT NULL column.                                          *)
THEOREM InvariantHolds == Spec => []IInv
  BY RowsInvInit, IInvStep, PTL DEF Spec

-----------------------------------------------------------------------------
(* What a commit does with the fields of the request.                        *)
\* A request leaves the step "commit" only by committing.
LEMMA CommitsIsCommit ==
  ASSUME TypeOK, [Next]_vars, NEW w \in Worker, Commits(w)
  PROVE  Commit(w)
<1> USE DEF TypeOK, Commits, Goto, Answer, Fail
<1>1. ASSUME NEW v \in Worker, Proceed(v)
      PROVE  Commit(w)
  <2>1. v = w
    BY <1>1
       DEF Proceed, InsertRow, Insert, InsertRaced, FlushNothing, SkipFlush, FlushRow, WriteTarget,
           NullRejected, Commit, CommitWrites, Refresh, BusyTimeout, AbortBusy, Return
  <2>2. ~BusyTimeout(w)
    BY DEF BusyTimeout, AbortBusy
  <2>3. QED
    BY <1>1, <2>1, <2>2
       DEF Proceed, InsertRow, Insert, InsertRaced, FlushNothing, SkipFlush, FlushRow, WriteTarget,
           NullRejected, Refresh, Return
<1>2. ASSUME NEW v \in Worker, Arrive(v)
      PROVE  FALSE
  BY <1>2 DEF Arrive, Refuse, Load, Start
<1>3. CASE UNCHANGED vars
  BY <1>3 DEF vars, reqVars
<1>4. QED
  BY <1>1, <1>2, <1>3 DEF Next

\* A commit inserts the new row, updates the row as it is, or has nothing to do.
LEMMA CommitRow ==
  ASSUME IInv, [Next]_vars, NEW w \in Worker, Commits(w)
  PROVE  /\ payload[w] \in Payload
         /\ Creates(w) => table[item[w]] = Absent /\ table'[item[w]] = NewRow(w)
         /\ ~Creates(w) => /\ seen[w] \in Columns /\ table[item[w]] \in Columns
                           /\ \/ table'[item[w]] = NewCell(w)
                              \/ ~NetChange(w) /\ table'[item[w]] = table[item[w]]
<1>1. TypeOK /\ StepsMatchFound /\ StagedByRequest /\ UnstagedIsNothing /\ FoundStays
  BY DEF IInv
<1>2. Commit(w) /\ pc[w] = "commit"
  BY <1>1, CommitsIsCommit DEF Commits
<1>3. /\ item[w] \in Row /\ payload[w] \in Payload
      /\ Creates(w) \/ seen[w] \in Cells(item[w]) \ {Absent}
  BY <1>1, <1>2 DEF StepsMatchFound
<1>4. table'[item[w]] = IF pending[w][item[w]] = None THEN table[item[w]] ELSE pending[w][item[w]]
  BY <1>2, <1>3, Published
<1>5. CASE Creates(w)
  BY <1>1, <1>2, <1>3, <1>4, <1>5 DEF UnstagedIsNothing, StagedByRequest, StagedBy
<1>6. CASE ~Creates(w)
  <2>1. seen[w] \in Columns /\ table[item[w]] \in Columns
    BY <1>1, <1>2, <1>3, <1>6, RowCell DEF FoundStays, TypeOK
  <2>2. CASE pending[w][item[w]] = None
    BY <1>1, <1>2, <1>3, <1>4, <1>6, <2>1, <2>2 DEF UnstagedIsNothing
  <2>3. CASE pending[w][item[w]] # None
    BY <1>1, <1>3, <1>4, <1>6, <2>1, <2>3 DEF StagedByRequest, StagedBy
  <2>4. QED
    BY <2>2, <2>3
<1>7. QED
  BY <1>3, <1>5, <1>6

(* A field that a client leaves out stays as it is in the row, also when     *)
(* another request has changed it since this one loaded the row.             *)
THEOREM OmittedStays == Spec => OmittedStaysUntouched
<1>1. ASSUME IInv, [Next]_vars, NEW w \in Worker, Commits(w), table[item[w]] # Absent,
             NEW f \in Field, payload[w][f] = Unset
      PROVE  table'[item[w]][f] = table[item[w]][f]
  <2>1. /\ ~Creates(w)
        /\ table'[item[w]] = NewCell(w) \/ table'[item[w]] = table[item[w]]
    BY <1>1, CommitRow
  <2>2. NewCell(w)[f] = table[item[w]][f]
    BY <1>1 DEF NewCell, Assigned
  <2>3. QED
    BY <2>1, <2>2
<1>2. IInv /\ [Next]_vars =>
        [\A w \in Worker : Commits(w) /\ table[item[w]] # Absent =>
           \A f \in Field :
             payload[w][f] = Unset => table'[item[w]][f] = table[item[w]][f]]_vars
  BY <1>1
<1>3. QED
  BY <1>2, InvariantHolds, PTL DEF Spec, OmittedStaysUntouched

(* A value that a client sends is in the row when the request commits, but   *)
(* for a null on creation and a value that was already in the row it loaded. *)
THEOREM SentStored == Spec => SentIsStored
<1>1. ASSUME IInv, [Next]_vars, NEW w \in Worker, Commits(w), NEW f \in Field,
             payload[w][f] # Unset
      PROVE  \/ table'[item[w]][f] = payload[w][f]
             \/ payload[w][f] = Null /\ table[item[w]] = Absent
             \/ seen[w] # Absent /\ payload[w][f] = seen[w][f]
  <2>1. CASE Creates(w)
    <3>1. table[item[w]] = Absent /\ table'[item[w]] = NewRow(w)
      BY <1>1, <2>1, CommitRow
    <3>2. payload[w][f] \in Value \cup {Null}
      BY <1>1, CommitRow DEF Payload
    <3>3. payload[w][f] \in Value => NewRow(w)[f] = payload[w][f]
      BY DEF NewRow
    <3>4. QED
      BY <3>1, <3>2, <3>3
  <2>2. CASE ~Creates(w)
    <3>1. /\ seen[w] # Absent
          /\ table'[item[w]] = NewCell(w) \/ ~NetChange(w)
      BY <1>1, <2>2, CommitRow, CellAssumption
    <3>2. Assigned(w)[f] = payload[w][f]
      BY <1>1 DEF Assigned
    <3>3. payload[w][f] # seen[w][f] => NewCell(w)[f] = payload[w][f]
      BY <3>2 DEF NewCell
    <3>4. ~NetChange(w) => payload[w][f] = seen[w][f]
      BY <3>2 DEF NetChange
    <3>5. QED
      BY <3>1, <3>3, <3>4
  <2>3. QED
    BY <2>1, <2>2
<1>2. IInv /\ [Next]_vars =>
        [\A w \in Worker : Commits(w) =>
           \A f \in Field :
             \/ payload[w][f] = Unset
             \/ table'[item[w]][f] = payload[w][f]
             \/ payload[w][f] = Null /\ table[item[w]] = Absent
             \/ seen[w] # Absent /\ payload[w][f] = seen[w][f]]_vars
  BY <1>1
<1>3. QED
  BY <1>2, InvariantHolds, PTL DEF Spec, SentIsStored

(* Who found no row, or never looked, creates one or fails: it does not      *)
(* overwrite the row that another request has created since.                 *)
THEOREM CreatesOverwriteNothing == Spec => CreateNeverOverwrites
<1>1. ASSUME IInv, [Next]_vars, NEW w \in Worker, Commits(w), op[w] = "post" \/ seen[w] = Absent
      PROVE  table[item[w]] = Absent
  BY <1>1, CommitRow DEF Creates
<1>2. IInv /\ [Next]_vars =>
        [\A w \in Worker :
           Commits(w) /\ (op[w] = "post" \/ seen[w] = Absent) => table[item[w]] = Absent]_vars
  BY <1>1
<1>3. QED
  BY <1>2, InvariantHolds, PTL DEF Spec, CreateNeverOverwrites
=============================================================================
