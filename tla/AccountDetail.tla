--------------------------- MODULE AccountDetail ---------------------------
(***************************************************************************)
(* How a request gets to see an account: GET /accounts/{id} and every      *)
(* advisor call account_repository.get_account_with_detail, which sends    *)
(* one SELECT for the account and one for each table of its collections.   *)
(* Neither READ COMMITTED nor pysqlite gives these SELECTs a common        *)
(* snapshot: each sees what is committed when it runs, and other requests  *)
(* commit in between.                                                      *)
(*                                                                         *)
(* The other requests are the abstract Loadout, which EquipmentService     *)
(* implements, and the changes of the account's own row.  Requests only    *)
(* meet in the database, so one reading request is enough.                 *)
(***************************************************************************)
EXTENDS Naturals, FiniteSets

CONSTANTS Item, Slot, SlotOf, Nothing,
          Table,      \* heroes, weapons, armor, ...
          TableOf,    \* [Slot -> Table]: armor has four slots, the others one
          Wealth,     \* what the account's own row may hold
          Unread,
          MaxCommits  \* bound: commits of others during one request

VARIABLES owned, worn,  \* the committed rows of the tables, as in Loadout
          wealth,       \* the committed row of the account, Nothing for none
          pc,           \* where the request is
          todo,         \* the tables it has not looked at
          session,      \* [Table and "account" -> rows its Session has loaded]
          first,        \* what the first look of two returned (history)
          during,       \* the committed states since the request began (history)
          commits       \* how many commits that were

vars == <<owned, worn, wealth, pc, todo, session, first, during, commits>>

L == INSTANCE Loadout

Part == Table \cup {"account"}

ItemsOf(p) == {i \in Item : TableOf[SlotOf[i]] = p}
SlotsOf(p) == {s \in Slot : TableOf[s] = p}

RowsType(p) ==
  IF p = "account" THEN [wealth : Wealth]
  ELSE [owned : SUBSET ItemsOf(p), worn : [SlotsOf(p) -> ItemsOf(p) \cup {Nothing}]]

ASSUME DetailAssumption ==
  /\ SlotOf \in [Item -> Slot] /\ TableOf \in [Slot -> Table]
  /\ IsFiniteSet(Table) /\ "account" \notin Table
  /\ \A p \in Part : Unread \notin RowsType(p)
  /\ MaxCommits \in Nat

Committed == [owned |-> owned, worn |-> worn, wealth |-> wealth]

(* What a SELECT of one table finds in a committed state. *)
Rows(p, st) ==
  IF p = "account" THEN [wealth |-> st.wealth]
  ELSE [owned |-> st.owned \cap ItemsOf(p), worn |-> [s \in SlotsOf(p) |-> st.worn[s]]]

-----------------------------------------------------------------------------
(* Other requests commit; each changes rows of one table. *)
Others ==
  \/ wealth # Nothing /\ L!Next /\ UNCHANGED wealth
  \/ \E x \in Wealth : wealth' = x /\ UNCHANGED <<owned, worn>>

Commit ==
  /\ Others
  /\ \/ pc = "idle" /\ UNCHANGED <<during, commits>>
     \/ /\ pc # "idle" /\ commits < MaxCommits
        /\ during' = during \cup {Committed'}
        /\ commits' = commits + 1
  /\ UNCHANGED <<pc, todo, session, first>>

-----------------------------------------------------------------------------
Nowhere == [p \in Part |-> Unread]

KeepCommitted == UNCHANGED <<owned, worn, wealth>>

\* Mutant: one Session for all requests.
BeginShared ==
  /\ pc = "idle"
  /\ pc' = "account" /\ during' = {Committed} /\ commits' = 0
  /\ UNCHANGED <<todo, session, first>> /\ KeepCommitted

(* get_db: a new Session, with nothing loaded. *)
Begin ==
  /\ pc = "idle"
  /\ pc' = "account" /\ session' = Nowhere
  /\ during' = {Committed} /\ commits' = 0
  /\ UNCHANGED <<todo, first>> /\ KeepCommitted

\* Mutant: populate_existing, every look overwrites what is loaded.
Overwrite(p) == [session EXCEPT ![p] = Rows(p, Committed)]

\* Mutant: the flags alone are brought up to date.
RefreshFlags(p) ==
  [session EXCEPT ![p] =
     IF @ = Unread \/ p = "account" THEN Rows(p, Committed)
     ELSE [@ EXCEPT !.worn = Rows(p, Committed).worn]]

(* The identity map: what the Session has loaded is not loaded again. *)
Loaded(p) ==
  [session EXCEPT ![p] = IF @ = Unread THEN Rows(p, Committed) ELSE @]

\* Mutant: joins that leave out an account with no items.
SelectAccountJoined ==
  /\ pc = "account"
  /\ IF wealth = Nothing \/ owned = {}
       THEN pc' = "missing" /\ UNCHANGED <<todo, session>>
       ELSE pc' = "load" /\ todo' = Table /\ session' = Loaded("account")
  /\ UNCHANGED <<first, during, commits>> /\ KeepCommitted

\*(* The SELECT of the account itself; get_account_detail raises NotFoundError. *)
SelectAccount ==
  /\ pc = "account"
  /\ IF wealth = Nothing
       THEN pc' = "missing" /\ UNCHANGED <<todo, session>>
       ELSE pc' = "load" /\ todo' = Table /\ session' = Loaded("account")
  /\ UNCHANGED <<first, during, commits>> /\ KeepCommitted

(* One selectinload; the order is the ORM's. *)
SelectTable ==
  /\ pc = "load"
  /\ \E p \in todo : todo' = todo \ {p} /\ session' = Loaded(p)
  /\ UNCHANGED <<pc, first, during, commits>> /\ KeepCommitted

(* The chapter advisor whose pick is not safe asks the upgrade advisor, which *)
(* gets the account once more from the same Session.                          *)
LookAgain ==
  /\ pc = "load" /\ todo = {} /\ first = Unread
  /\ first' = session /\ pc' = "account"
  /\ UNCHANGED <<todo, session, during, commits>> /\ KeepCommitted

Answer ==
  /\ pc = "load" /\ todo = {}
  /\ pc' = "answered"
  /\ UNCHANGED <<todo, session, first, during, commits>> /\ KeepCommitted

(* The end of get_db: the Session is closed. *)
Close ==
  /\ pc \in {"answered", "missing"}
  /\ pc' = "idle" /\ first' = Unread /\ during' = {} /\ commits' = 0
  /\ UNCHANGED <<todo, session>> /\ KeepCommitted

-----------------------------------------------------------------------------
Init ==
  /\ L!Init
  /\ wealth \in Wealth \cup {Nothing}
  /\ wealth = Nothing => owned = {}
  /\ pc = "idle" /\ todo = {} /\ session = Nowhere /\ first = Unread
  /\ during = {} /\ commits = 0

Request == SelectAccount \/ SelectTable \/ LookAgain \/ Answer \/ Close

Next == Commit \/ Begin \/ Request

Spec == Init /\ [][Next]_vars

-----------------------------------------------------------------------------
Read == {p \in Part : session[p] # Unread}

(* Type correctness. *)
TypeOK ==
  /\ owned \subseteq Item /\ worn \in [Slot -> Item \cup {Nothing}]
  /\ wealth \in Wealth \cup {Nothing}
  /\ pc \in {"idle", "account", "load", "answered", "missing"}
  /\ todo \subseteq Table
  /\ session = [p \in Part |-> session[p]]
  /\ \A p \in Read : session[p] \in RowsType(p)
  /\ commits \in 0..MaxCommits

IsSnapshot(d) == \E st \in during : \A p \in Part : d[p] = Rows(p, st)

Changed == {p \in Part : \E st, su \in during : Rows(p, st) # Rows(p, su)}

(* What a request answers, or builds a BuildContext from, is a state the     *)
(* account was in during the request, unless rows of two tables changed      *)
(* while it was reading (account_repository.py: a SELECT for each table).    *)
TornOnlyAcrossTables ==
  pc = "answered" => IsSnapshot(session) \/ Cardinality(Changed) >= 2

(* However torn, the build a request sees can be worn: a slot holds nothing, *)
(* or an item of that slot which the same answer lists as owned.             *)
SeenBuildFits ==
  \A p \in Read \ {"account"} : \A s \in SlotsOf(p) :
    session[p].worn[s] # Nothing =>
      session[p].worn[s] \in session[p].owned /\ SlotOf[session[p].worn[s]] = s

(* The upgrade a chapter advice suggests is for the build the chapters were  *)
(* ranked for, whatever was committed between the two looks                  *)
(* (chapter_advisor.py: the second get_account_detail of one Session).       *)
SecondLookAgrees ==
  pc = "answered" /\ first # Unread => session = first

(* An account that exists when its request begins is found, even when it has *)
(* no items at all (account_service.py: get_account_detail).                 *)
FoundWhenThere ==
  pc = "missing" => \E st \in during : st.wealth = Nothing

-----------------------------------------------------------------------------
State == [owned : SUBSET Item, worn : [Slot -> Item \cup {Nothing}],
          wealth : Wealth \cup {Nothing}]

(* The committed states of a request are states of the account, and the last *)
(* of them is the present one.                                               *)
DuringIsHistory ==
  /\ during \subseteq State
  /\ \A st \in during : L!FitsSlots(st.owned, st.worn)
  /\ pc # "idle" => Committed \in during

(* What is loaded was committed during the request. *)
NothingStale ==
  pc # "idle" => \A p \in Read : \E st \in during : session[p] = Rows(p, st)

(* How far a look has got. *)
LooksInOrder ==
  /\ pc = "load" => Part \ todo \subseteq Read
  /\ pc = "answered" => Part \subseteq Read
  /\ first # Unread => first = session /\ Part \subseteq Read /\ pc # "idle"

(* The inductive invariant of the proofs. *)
IInv ==
  /\ TypeOK /\ L!FitsSlots(owned, worn)
  /\ DuringIsHistory /\ NothingStale /\ LooksInOrder
  /\ SeenBuildFits /\ FoundWhenThere
=============================================================================
