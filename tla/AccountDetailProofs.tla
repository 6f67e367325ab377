------------------------ MODULE AccountDetailProofs ------------------------
(***************************************************************************)
(* What a request sees of an account, for any number of items, slots and   *)
(* tables, any interleaving with other requests and any number of commits. *)
(***************************************************************************)
EXTENDS AccountDetail, FiniteSetTheorems, TLAPS

-----------------------------------------------------------------------------
(* What a SELECT finds has the type of its table, and fits.                  *)
LEMMA RowsTyped ==
  ASSUME NEW p \in Part, NEW st \in State, L!FitsSlots(st.owned, st.worn),
         p = "account" => st.wealth # Nothing
  PROVE  /\ Rows(p, st) \in RowsType(p) /\ Rows(p, st) # Unread
         /\ p # "account" =>
              \A s \in SlotsOf(p) : Rows(p, st).worn[s] # Nothing =>
                Rows(p, st).worn[s] \in Rows(p, st).owned /\ SlotOf[Rows(p, st).worn[s]] = s
<1> DEFINE o == st.owned \cap ItemsOf(p)
           wr == [s \in SlotsOf(p) |-> st.worn[s]]
<1>1. ASSUME p = "account" PROVE Rows(p, st) \in RowsType(p)
  BY <1>1 DEF Rows, RowsType, State
<1>2. ASSUME p # "account" PROVE Rows(p, st) = [owned |-> o, worn |-> wr]
  BY <1>2 DEF Rows
<1>3. \A s \in SlotsOf(p) : wr[s] # Nothing => wr[s] \in o /\ SlotOf[wr[s]] = s
  BY DEF SlotsOf, ItemsOf, State, L!FitsSlots
<1>4. o \in SUBSET ItemsOf(p) /\ wr \in [SlotsOf(p) -> ItemsOf(p) \cup {Nothing}]
  BY <1>3
<1>5. ASSUME p # "account" PROVE Rows(p, st) \in RowsType(p)
  BY <1>2, <1>4, <1>5 DEF RowsType
<1>6. Rows(p, st) # Unread
  BY <1>1, <1>5, DetailAssumption
<1> QED
  BY <1>1, <1>2, <1>3, <1>5, <1>6

(* Loading the rows of one table keeps what the invariant says of those that *)
(* are loaded.                                                               *)
LEMMA LoadedKeeps ==
  ASSUME IInv, NEW p \in Part, pc # "idle", p = "account" => wealth # Nothing,
         session' = Loaded(p), during' = during, UNCHANGED <<owned, worn, wealth>>
  PROVE  /\ session' = [q \in Part |-> session'[q]] /\ \A q \in Read' : session'[q] \in RowsType(q)
         /\ Read' = Read \cup {p} /\ \A q \in Read : session'[q] = session[q]
         /\ NothingStale' /\ SeenBuildFits'
<1>1. Committed \in State /\ Committed \in during
  BY DEF IInv, TypeOK, DuringIsHistory, Committed, State
<1>2. L!FitsSlots(Committed.owned, Committed.worn) /\ Committed.wealth = wealth
  BY DEF IInv, Committed
<1>3. /\ Rows(p, Committed) \in RowsType(p) /\ Rows(p, Committed) # Unread
      /\ p # "account" =>
           \A s \in SlotsOf(p) : Rows(p, Committed).worn[s] # Nothing =>
             /\ Rows(p, Committed).worn[s] \in Rows(p, Committed).owned
             /\ SlotOf[Rows(p, Committed).worn[s]] = s
  BY <1>1, <1>2, RowsTyped
<1>4. /\ session = [q \in Part |-> session[q]]
      /\ session' = [session EXCEPT ![p] = IF @ = Unread THEN Rows(p, Committed) ELSE @]
  BY DEF IInv, TypeOK, Loaded
<1>5. /\ session' = [q \in Part |-> session'[q]]
      /\ \A q \in Part \ {p} : session'[q] = session[q]
      /\ session'[p] = IF session[p] = Unread THEN Rows(p, Committed) ELSE session[p]
  BY <1>4
<1>6. Read' = Read \cup {p} /\ \A q \in Read : session'[q] = session[q]
  BY <1>3, <1>5 DEF Read
<1>7. \A q \in Read' : q \in Read \/ (q = p /\ session'[q] = Rows(p, Committed))
  BY <1>5, <1>6 DEF Read
<1>8. \A q \in Read' : session'[q] \in RowsType(q)
  BY <1>3, <1>6, <1>7 DEF IInv, TypeOK
<1>9. NothingStale'
  BY <1>1, <1>6, <1>7 DEF IInv, NothingStale
<1>10. SeenBuildFits'
  BY <1>3, <1>6, <1>7 DEF IInv, SeenBuildFits
<1> QED
  BY <1>5, <1>6, <1>8, <1>9, <1>10

-----------------------------------------------------------------------------
LEMMA InitEstablishesIInv == Init => IInv
<1> SUFFICES ASSUME Init PROVE IInv
  OBVIOUS
<1>1. Read = {}
  BY DEF Init, Nowhere, Read
<1>2. TypeOK
  BY <1>1, DetailAssumption DEF Init, L!Init, Nowhere, TypeOK
<1>3. L!FitsSlots(owned, worn)
  BY DEF Init, L!Init
<1>4. DuringIsHistory /\ NothingStale /\ LooksInOrder /\ SeenBuildFits /\ FoundWhenThere
  BY <1>1 DEF Init, DuringIsHistory, NothingStale, LooksInOrder, SeenBuildFits, FoundWhenThere
<1> QED
  BY <1>2, <1>3, <1>4 DEF IInv

(* A step of another request leads from one state of the account to another. *)
LEMMA OthersKeepFit ==
  ASSUME TypeOK, L!FitsSlots(owned, worn), Others
  PROVE  /\ Committed' \in State
         /\ L!FitsSlots(owned, worn)'
<1> USE DetailAssumption DEF TypeOK, L!FitsSlots
<1>1. ASSUME NEW i \in Item, L!Wear(i), UNCHANGED wealth
      PROVE  Committed' \in State /\ L!FitsSlots(owned, worn)'
  BY <1>1 DEF L!Wear, Committed, State
<1>2. ASSUME NEW i \in Item, L!Gain(i), UNCHANGED wealth
      PROVE  Committed' \in State /\ L!FitsSlots(owned, worn)'
  BY <1>2 DEF L!Gain, Committed, State
<1>3. ASSUME NEW i \in Item, L!Lose(i), UNCHANGED wealth
      PROVE  Committed' \in State /\ L!FitsSlots(owned, worn)'
  BY <1>3 DEF L!Lose, Committed, State
<1>4. ASSUME NEW s \in Slot, L!TakeOff(s), UNCHANGED wealth
      PROVE  Committed' \in State /\ L!FitsSlots(owned, worn)'
  BY <1>4 DEF L!TakeOff, Committed, State
<1>5. ASSUME NEW x \in Wealth, wealth' = x, UNCHANGED <<owned, worn>>
      PROVE  Committed' \in State /\ L!FitsSlots(owned, worn)'
  BY <1>5 DEF Committed, State
<1> QED
  BY <1>1, <1>2, <1>3, <1>4, <1>5 DEF Others, L!Next

LEMMA NextKeepsIInv == IInv /\ [Next]_vars => IInv'
<1> SUFFICES ASSUME IInv, [Next]_vars PROVE IInv'
  OBVIOUS
<1>1. ASSUME Commit PROVE IInv'
  <2>1. Committed' \in State /\ L!FitsSlots(owned, worn)'
    BY <1>1, OthersKeepFit DEF IInv, Commit
  <2>2. UNCHANGED <<pc, todo, session, first>> /\ during \subseteq during'
    BY <1>1 DEF Commit
  <2>3. Read' = Read
    BY <2>2 DEF Read
  <2>4. TypeOK'
    <3>1. /\ owned' \subseteq Item /\ worn' \in [Slot -> Item \cup {Nothing}]
          /\ wealth' \in Wealth \cup {Nothing}
      BY <2>1 DEF Committed, State
    <3>2. commits' \in 0..MaxCommits
      BY <1>1, DetailAssumption DEF Commit, IInv, TypeOK
    <3> QED
      BY <2>2, <2>3, <3>1, <3>2 DEF IInv, TypeOK
  <2>5. DuringIsHistory'
    <3>1. L!FitsSlots(Committed'.owned, Committed'.worn)
      BY <2>1 DEF Committed, L!FitsSlots
    <3>2. during' \subseteq during \cup {Committed'} /\ (pc # "idle" => Committed' \in during')
      BY <1>1 DEF Commit
    <3>3. during' \subseteq State
      BY <2>1, <3>2 DEF IInv, DuringIsHistory
    <3>4. \A st \in during' : L!FitsSlots(st.owned, st.worn)
      BY <3>1, <3>2 DEF IInv, DuringIsHistory
    <3> QED
      BY <2>2, <3>2, <3>3, <3>4 DEF DuringIsHistory, L!FitsSlots
  <2>6. NothingStale' /\ LooksInOrder' /\ SeenBuildFits' /\ FoundWhenThere'
    BY <2>2, <2>3 DEF IInv, NothingStale, LooksInOrder, SeenBuildFits, FoundWhenThere
  <2> QED
    BY <2>1, <2>4, <2>5, <2>6 DEF IInv
<1>2. ASSUME Begin PROVE IInv'
  <2>1. Read' = {}
    BY <1>2 DEF Begin, Nowhere, Read
  <2>2. /\ pc = "idle" /\ pc' = "account" /\ during' = {Committed} /\ commits' = 0
        /\ session' = Nowhere /\ first' = first /\ todo' = todo
        /\ UNCHANGED <<owned, worn, wealth>>
    BY <1>2 DEF Begin, KeepCommitted
  <2>3. TypeOK' /\ L!FitsSlots(owned, worn)'
    BY <2>1, <2>2, DetailAssumption DEF IInv, TypeOK, Nowhere, L!FitsSlots
  <2>4. DuringIsHistory'
    <3>1. Committed \in State /\ L!FitsSlots(Committed.owned, Committed.worn)
      BY DEF IInv, TypeOK, Committed, State
    <3>2. Committed' = Committed
      BY <2>2 DEF Committed
    <3> QED
      BY <2>2, <3>1, <3>2 DEF DuringIsHistory, L!FitsSlots
  <2>5. first' = Unread
    BY <2>2 DEF IInv, LooksInOrder
  <2> QED
    BY <2>1, <2>2, <2>3, <2>4, <2>5
    DEF IInv, NothingStale, LooksInOrder, SeenBuildFits, FoundWhenThere
<1>3. ASSUME SelectAccount, wealth = Nothing PROVE IInv'
  <2>1. /\ pc = "account" /\ pc' = "missing"
        /\ UNCHANGED <<todo, session, first, during, commits, owned, worn, wealth>>
    BY <1>3 DEF SelectAccount, KeepCommitted
  <2>2. \E st \in during' : st.wealth = Nothing
    BY <1>3, <2>1 DEF IInv, DuringIsHistory, Committed
  <2> QED
    BY <2>1, <2>2 DEF IInv, TypeOK, DuringIsHistory, NothingStale, LooksInOrder, SeenBuildFits,
                      FoundWhenThere, Read, Committed, L!FitsSlots
<1>4. ASSUME SelectAccount, wealth # Nothing PROVE IInv'
  <2>1. /\ pc = "account" /\ pc' = "load" /\ todo' = Table /\ session' = Loaded("account")
        /\ UNCHANGED <<first, during, commits, owned, worn, wealth>>
    BY <1>4 DEF SelectAccount, KeepCommitted
  <2>2. /\ session' = [q \in Part |-> session'[q]] /\ \A q \in Read' : session'[q] \in RowsType(q)
        /\ Read' = Read \cup {"account"} /\ \A q \in Read : session'[q] = session[q]
        /\ NothingStale' /\ SeenBuildFits'
    BY <1>4, <2>1, LoadedKeeps DEF Part
  <2>3. TypeOK' /\ L!FitsSlots(owned, worn)'
    BY <2>1, <2>2 DEF IInv, TypeOK, L!FitsSlots
  <2>4. LooksInOrder'
    <3>1. ASSUME first # Unread PROVE session' = session
      <4>1. session = [q \in Part |-> session[q]] /\ Part \subseteq Read
        BY <3>1 DEF IInv, TypeOK, LooksInOrder
      <4> QED
        BY <2>1, <4>1 DEF Loaded, Read
    <3> QED
      BY <2>1, <2>2, <3>1 DEF IInv, LooksInOrder, Part
  <2> QED
    BY <2>1, <2>2, <2>3, <2>4 DEF IInv, DuringIsHistory, FoundWhenThere, Committed
<1>5. ASSUME SelectTable PROVE IInv'
  <2>1. PICK p \in todo : todo' = todo \ {p} /\ session' = Loaded(p)
    BY <1>5 DEF SelectTable
  <2>2. pc = "load" /\ UNCHANGED <<pc, first, during, commits, owned, worn, wealth>>
    BY <1>5 DEF SelectTable, KeepCommitted
  <2>3. p \in Part /\ p # "account"
    BY <2>1, DetailAssumption DEF IInv, TypeOK, Part
  <2>4. /\ session' = [q \in Part |-> session'[q]] /\ \A q \in Read' : session'[q] \in RowsType(q)
        /\ Read' = Read \cup {p} /\ \A q \in Read : session'[q] = session[q]
        /\ NothingStale' /\ SeenBuildFits'
    BY <2>1, <2>2, <2>3, LoadedKeeps
  <2>5. TypeOK' /\ L!FitsSlots(owned, worn)'
    BY <2>1, <2>2, <2>4 DEF IInv, TypeOK, L!FitsSlots
  <2>6. LooksInOrder'
    <3>1. ASSUME first # Unread PROVE session' = session
      <4>1. session = [q \in Part |-> session[q]] /\ Part \subseteq Read
        BY <3>1 DEF IInv, TypeOK, LooksInOrder
      <4> QED
        BY <2>1, <2>3, <4>1 DEF Loaded, Read
    <3> QED
      BY <2>1, <2>2, <2>4, <3>1 DEF IInv, LooksInOrder
  <2> QED
    BY <2>2, <2>4, <2>5, <2>6 DEF IInv, DuringIsHistory, FoundWhenThere, Committed
<1>6. ASSUME LookAgain \/ Answer PROVE IInv'
  <2>1. /\ pc = "load" /\ todo = {} /\ pc' \in {"account", "answered"}
        /\ first' = first \/ first' = session
        /\ UNCHANGED <<todo, session, during, commits, owned, worn, wealth>>
    BY <1>6 DEF LookAgain, Answer, KeepCommitted
  <2>2. Part \subseteq Read /\ Read' = Read
    BY <2>1 DEF IInv, LooksInOrder, Read
  <2> QED
    BY <2>1, <2>2 DEF IInv, TypeOK, DuringIsHistory, NothingStale, LooksInOrder, SeenBuildFits,
                      FoundWhenThere, Committed, L!FitsSlots
<1>7. ASSUME Close PROVE IInv'
  <2>1. /\ pc' = "idle" /\ first' = Unread /\ during' = {} /\ commits' = 0
        /\ UNCHANGED <<todo, session, owned, worn, wealth>>
    BY <1>7 DEF Close, KeepCommitted
  <2>2. Read' = Read
    BY <2>1 DEF Read
  <2> QED
    BY <2>1, <2>2, DetailAssumption
    DEF IInv, TypeOK, DuringIsHistory, NothingStale, LooksInOrder, SeenBuildFits,
        FoundWhenThere, L!FitsSlots
<1>8. ASSUME UNCHANGED vars PROVE IInv'
  BY <1>8 DEF vars, IInv, TypeOK, DuringIsHistory, NothingStale, LooksInOrder, SeenBuildFits,
              FoundWhenThere, Read, Committed, L!FitsSlots
<1> QED
  BY <1>1, <1>2, <1>3, <1>4, <1>5, <1>6, <1>7, <1>8 DEF Next, Request

(* The inductive invariant.                                                  *)
THEOREM DetailInvariant == Spec => []IInv
<1> QED
  BY InitEstablishesIInv, NextKeepsIInv, PTL DEF Spec

(* Type correctness (account_repository.py, get_account_with_detail).        *)
THEOREM DetailTypeCorrect == Spec => []TypeOK
<1>1. IInv => TypeOK
  BY DEF IInv
<1> QED
  BY <1>1, DetailInvariant, PTL

-----------------------------------------------------------------------------
(* Where at most one table changed while a request was reading, what it read *)
(* is one state of the account.                                              *)
LEMMA OneChangeIsSnapshot ==
  ASSUME IInv, pc = "answered", NEW p \in Part, Changed \subseteq {p}
  PROVE  IsSnapshot(session)
<1>1. \A q \in Part : \E st \in during : session[q] = Rows(q, st)
  BY DEF IInv, LooksInOrder, NothingStale
<1>2. PICK st \in during : session[p] = Rows(p, st)
  BY <1>1
<1>3. ASSUME NEW q \in Part, q # p PROVE session[q] = Rows(q, st)
  <2>1. PICK su \in during : session[q] = Rows(q, su)
    BY <1>1
  <2> QED
    BY <1>3, <2>1 DEF Changed
<1> QED
  BY <1>2, <1>3 DEF IsSnapshot

LEMMA TwoOfTheChanged ==
  ASSUME NEW p \in Changed, NEW q \in Changed, p # q
  PROVE  Cardinality(Changed) >= 2
<1>1. IsFiniteSet(Part)
  <2>1. IsFiniteSet({"account"})
    BY FS_Singleton
  <2> QED
    BY <2>1, FS_Union, DetailAssumption DEF Part
<1>2. IsFiniteSet(Changed)
  BY <1>1, FS_Subset DEF Changed
<1>3. IsFiniteSet({p}) /\ Cardinality({p}) = 1
  BY FS_Singleton
<1>4. IsFiniteSet({p} \cup {q}) /\ Cardinality({p} \cup {q}) = 2
  BY <1>3, FS_AddElement
<1>5. Cardinality({p} \cup {q}) <= Cardinality(Changed)
  BY <1>2, FS_Subset
<1> QED
  BY <1>2, <1>4, <1>5, FS_CardinalityType

(* What is answered is a state the account was in, unless rows of two tables *)
(* changed meanwhile: the SELECTs of get_account_with_detail.                *)
THEOREM TornAcrossTablesOnly == Spec => []TornOnlyAcrossTables
<1>1. ASSUME IInv, pc = "answered" PROVE IsSnapshot(session) \/ Cardinality(Changed) >= 2
  <2>1. CASE \E p, q \in Changed : p # q
    BY <2>1, TwoOfTheChanged
  <2>2. CASE \A p, q \in Changed : p = q
    <3>1. PICK p \in Part : Changed \subseteq {p}
      BY <2>2 DEF Changed, Part
    <3> QED
      BY <1>1, <3>1, OneChangeIsSnapshot
  <2> QED
    BY <2>1, <2>2
<1>2. IInv => TornOnlyAcrossTables
  BY <1>1 DEF TornOnlyAcrossTables
<1> QED
  BY <1>2, DetailInvariant, PTL

(* The build a request sees, torn or not, can be worn.                       *)
THEOREM SeenBuildsFit == Spec => []SeenBuildFits
<1>1. IInv => SeenBuildFits
  BY DEF IInv
<1> QED
  BY <1>1, DetailInvariant, PTL

(* Both looks of a chapter advice see the same account (chapter_advisor.py). *)
THEOREM LooksAgree == Spec => []SecondLookAgrees
<1>1. IInv => SecondLookAgrees
  BY DEF IInv, LooksInOrder, SecondLookAgrees
<1> QED
  BY <1>1, DetailInvariant, PTL

(* get_account_detail raises NotFoundError only where there was no account.  *)
THEOREM FoundIfThere == Spec => []FoundWhenThere
<1>1. IInv => FoundWhenThere
  BY DEF IInv
<1> QED
  BY <1>1, DetailInvariant, PTL
=============================================================================
