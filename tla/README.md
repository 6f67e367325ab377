# Archero 2 Optimizer: TLA+ models, checks and proofs

The repository is a planning tool for a game: a FastAPI backend that keeps an
account's heroes, gear, runes, skills and chapter progress in a SQL database, an
optimizer that scores what to equip, upgrade or play next, and a React frontend.
The specifications here are about what is hard to test in it: requests that run at
the same time on rows loaded earlier, and the rules that must hold in every
committed state; requests that read the database in pieces; and pages of the frontend
whose calls are answered late, in another order, or never. All paths below are under
`src/`.

## Inventory

| Component | State | Operations | What makes it correct |
|---|---|---|---|
| Database transactions (`db/session.py`) | committed rows, a session's uncommitted writes, locks | statement, COMMIT, ROLLBACK | a commit publishes all or nothing; two back ends lock differently |
| Request lifecycle (`db/session.py`, `api/error_handlers.py`, `services/errors.py`) | one session per request, the rows it loaded | load, bulk clear, flush, commit, refresh, translate exceptions | whatever fails is rolled back; every request is answered |
| Equip by flag (`services/equipment_service.py` 57-189) | `is_active` / `is_equipped` of heroes, pets, weapons, armor (per slot), rings, amulets | activate/equip, deactivate/unequip | one equipped item per slot; a swap is atomic; a conflict means a real race |
| Equip by socket (same file, 192-290) | `socket_index` and `is_equipped` of runes, `equipped_slot` and `is_unlocked` of skills | equip into a numbered socket, unequip | one item per socket; the columns of a row agree; nothing locked is in a slot |
| Ownership CRUD (`services/ownership_service.py`, `repositories/ownership.py`) | the rows of the nine ownership tables | POST, PATCH, DELETE, PUT of chapter progress | a PATCH never disturbs what is equipped; an omitted field is untouched; an upsert never overwrites |
| Accounts (`services/account_service.py`) | the account row | POST, PATCH, GET of the detail | the display name is unique; an omitted field is untouched |
| Build context (`optimizer/context.py`) | none: a pure function of the account detail | `build_context` | equals the sum of what is equipped |
| Simulator and scoring (`optimizer/simulator.py`, `engine.py`, `objectives.py`) | none | `replace_contribution`, scores | simulated change = context after the real change |
| Gear, upgrade, skill and chapter advisors (`optimizer/advisors/`) | none | rank candidates | never advise what does not help or cannot be paid; following the advice gets somewhere |
| Account detail (`repositories/account_repository.py`, `services/account_service.py`, the optimizer routes) | what one request's session has loaded | one SELECT for each table, once or twice in a request | what is read can be worn, is torn only across tables, and does not change within a request |
| Frontend pages (`frontend/src/pages`, `hooks`, `components`, `lib/apiClient.ts`) | per page: inputs, result, the account shown, calls in flight; per browser: the account id in localStorage | select an account, mutate and refetch, ask for advice, navigate | what is shown belongs to the selected account and inputs; nothing loads for ever; tabs agree |
| Catalog API, seeds, migrations, configuration, wording of explanations | read-only or static | queries | not modelled, see the end |

How they interact: the frontend calls the routes; a route calls one service function,
which calls repository functions on the session of its request; the services of two
requests meet only in the database. The optimizer routes read one account detail and
compute on it. The backend may run several worker threads and processes, so nothing
but the database orders two requests.

What is hard: a handler loads a row, clears other rows with a bulk UPDATE, sets
attributes on the loaded instance, and commits; other requests commit between any two
of these. SQLAlchemy writes only attributes that differ from what was *loaded*, so
the row written is a mixture of two requests. PostgreSQL re-evaluates an UPDATE on
rows it waited for; a unique index makes a second writer wait and then fail; crossing
locks deadlock. SQLite has one writer and a busy timeout. A reader needs one SELECT
for each table and has no snapshot. In the browser every handler awaits a call and
goes on with what it closed over, while storage events, other calls and navigation
change the page. `PROJECT.json` lists each hazard at its line.

## Modules

| Module | Models | Notes |
|---|---|---|
| `SqlRows` | one table, its sessions, locks, commit, rollback | `Dialect` chooses PostgreSQL (READ COMMITTED, row locks) or SQLite (one writer from the first write statement on) |
| `RequestHandlers` | the steps every writing handler shares | `pc` names the points where another request can come between; extends `SqlRows` |
| `EquipmentService` | heroes, pets, weapons, armor, rings, amulets: equip, unequip, POST, PATCH, DELETE | a cell is `"on"`, `"off"` or `Absent`; `SlotOf` is armor's slot, one slot for the other tables |
| `Sockets` | runes and skills with their unique and CHECK constraints | a cell is `[at, flag]`; `Kind` chooses the table |
| `RowUpdates` | PUT of chapter progress, POST and PATCH of an account | a row is a function from columns to values; a payload may omit a field or send null |
| `BuildContext` | `build_context`, the contributions, `replace_contribution` | exact: 1.0 is `Unit`, the product of the denominators of the two growth rates; the catalog is data of the instance |
| `Advisors` | gear, upgrade and skill advisors and a player who follows them | extends `BuildContext`; `Objective` is any function of a context |
| `ChapterAdvisor` | unlocking, safety, both chapter rankings and a player who pushes and grows | scores are exact fractions; the score of the build is the variable `strength`, which may be 0; the catalog is chosen in `Init` and never changes |
| `AccountDetail` | `get_account_with_detail` and its callers, in one request | the other requests are the abstract `Loadout` and changes of the account's own row, so the module composes the reader with everything that implements `Loadout` |
| `Browser` | My Account, the advisor pages, `useCurrentAccount`, the API client | per tab one page record; a call carries what its handler closed over; of the backend only which accounts exist |
| `Loadout`, `SocketBoard` | what someone who sees only committed states is promised | abstract specifications, implemented by `EquipmentService` and `Sockets` |
| `MCEquipment`, `MCSockets`, `MCRowUpdates`, `MCAdvisors`, `MCChapterAdvisor`, `MCAccountDetail`, `MCBrowser` | instances and symmetry sets for TLC | |
| `EquipmentProofs`, `SocketsProofs` | proofs about `EquipmentService` and `Sockets` | with the refinements of `Loadout` and `SocketBoard` |
| `RowUpdatesProofs`, `AccountDetailProofs`, `BrowserProofs` | proofs about the module each is named after | |
| `AdvisorsProofs`, `ChapterAdvisorProofs` | proofs about the advisors | both extend `FiniteLemmas` |
| `FiniteLemmas` | lemmas about sums over a finite set and the first of a ranking | |

### From code to steps

An equip (`equip_armor`, say) is, in order: `Load` (`get_*_ownership`, 404 if there
is no row) - `ClearScan` (`clear_other_equipped` finds rows in a snapshot) -
`ClearApply` (it gets their locks and looks again) - `FlushRow` or `FlushNothing`
(the instance's own UPDATE inside `db.commit()`, only if the flag differs from the
loaded one) - `IndexAccept` or `IndexReject` (the partial unique index; the latter
is `raise_conflict_from_integrity_error`, 409) - `Commit` - `Refresh`
(`db.refresh`) - `Return`. Unequip and PATCH have no clear. A row deleted by somebody
else under a session is `gone`: its UPDATE matches nothing (`FlushStale`,
StaleDataError, 500), its refresh fails (500 after a commit). A deadlock victim and
a busy timeout are `OperationalError`, which `except IntegrityError` does not catch.
Every failure rolls the session back (`get_db`, `Fail`).

Data is abstracted to what the properties tell apart: levels and stars of a PATCH are
"some other column", ids are model values, responses are a status. The history
variable `rival` remembers that another request took the slot since this request's
clear looked; no guard reads it.

The advisors only read. What makes them a system is the player: `FollowGear`,
`FollowUpgrade`, `FollowSkill` and `Push` do what the first entry of an answer says
and the program is told, so the next answer is computed from there; `EarnGold`,
`ObtainItem`, `Strengthen` and `Rebuild` are the game's part and the player's. These actions are external; the
operators they are built from are the advisors' code, one operator per function:
candidates, the contribution taken out and the one put in, the score, the ranking
with its tie-breaks, and the 404 when nothing is left.

A reading request (`AccountDetail`) is `Begin` (`get_db`: a new Session) -
`SelectAccount` (404 if there is none) - one `SelectTable` for each collection, in any
order, each of what is committed then - `Answer` - `Close`. The chapter advisor whose
pick is not safe asks the upgrade advisor, which reads the account again on the same
Session: `LookAgain`. `Loaded` is the identity map: what was loaded stays as it was.
`first`, `during` and `commits` are history; only the bound reads one of them.

In `Browser` an async handler is two steps: up to its `await` (`Refresh`, `Advise`,
`PickAccount`, `Mutate`) it appends a call to its page, and when the answer is
delivered the rest runs (`DetailArrives`, `AdviceArrives`, ...), with the arguments it
closed over, on the page as it is then. `Serve` is the backend, `Deliver` the network:
an answer arrives in any order, or as an error, whether or not the call was carried
out. `setAccountId` is `Publish` (localStorage and the storage event) and `Agree` (the
own state); a change of `accountId` runs the effects of the page (`AccountEffect`,
`ClearAdvice`) in the same step. `HearStorage` reads localStorage when the event
arrives, not when it was sent. `Navigate` unmounts the page: its calls stay as orphans
whose handlers still write localStorage and make further calls, but no page state.
`old`, `disturbed` and `adrift` are history.

Assumptions about the libraries (the entries of the map marked external): a
PostgreSQL UPDATE keeps the lock of a row that no longer matches; a unique check
waits for a transaction whose conflicting row version is not committed; pysqlite
opens its transaction at the first write statement and readers do not block; a
DELETE that matches no row only warns; the ORM omits an explicit None from an INSERT
when the column has a default, and writes NULL in an UPDATE. A PATCH that changes no
value sends no statement; for items that case is left out, as it changes nothing. Deleted
ids are not reused while a request still holds them: PostgreSQL's sequences guarantee
that; SQLite, whose tables have no AUTOINCREMENT, may give the id of its last row to
the next one, so there it is an assumption about the clients.

## Runs

| Run | Instance | Shows |
|---|---|---|
| `equip_postgres` | 2 handlers, 2 helmets and a pair of boots, all requests | type correctness and the rest of the inductive invariant (`CommitInv`), slots unique (`AtMostOneEquipped`), a 409 means a lost race, a slot is emptied only on request (`SlotEmptiedOnRequest`), a commit stays in its slot (`CommitStaysInSlot`) and takes effect however stale the row it loaded (`CommitTakesEffect`), committed states implement `Loadout`; no state is stuck, deadlocks included |
| `equip_sqlite` | 2 handlers, 2 items of one slot, all requests | no 409 for an equip; every request is answered |
| `runes_postgres` | 2 handlers, 3 runes, 2 sockets, all requests | the inductive invariant `IInv` (sockets unique, CHECKs kept and what they rest on), 409 only after a lost race, an unequip is never rejected, `SocketBoard` implemented |
| `skills_sqlite` | 2 handlers, 2 skills, 2 slots, with PATCHes that lock and unlock | nothing locked stays in a slot, an equip never writes back the `is_unlocked` it loaded |
| `rows_sqlite` | 2 handlers, one progress row and one account, 2 columns, 2 values, null and omitted | the inductive invariant `IInv`, omitted fields untouched, sent fields stored, a creation never overwrites |
| `advice` | 2 weapons, 2 rings, 2 skills, 3 stats, at most 3 gold at a cost of 1 gold per level, 2 levels per upgrade; from every collection and outfit | a simulated change is what the change does (`SimulationExact`), the gold buys as many levels as it can, no answer means no improvement, an upgrade always pays, gear advice is stable and following it settles; the farm objective is one the theorems apply to (`FarmIsAnObjective`, on a grid of contexts) |
| `chapters` | every catalog of 3 chapters numbered out of 1..4, needs 0, 7, 10, 12, powers 6 to 12, builds that score 0 or 2 | chapters are cleared in order, the pick is as far as is safe, the farm pick is safe and cheap if the build scores at all and the lowest id if not (`FarmIsSafeAndCheap`), growing power never turns the advice back, a regular story is led through to its end |
| `detail` | 3 items in 3 slots of 2 tables, 2 states of the account's row, at most 3 commits during a request | what is answered is a state of the account unless two tables changed meanwhile (`TornOnlyAcrossTables`), however torn it can be worn, and a second look sees the same; the inductive invariant `IInv`, with type correctness and "found if it was there" |
| `browser` | 2 tabs (one goes everywhere, one is on My Account), 2 accounts that may or may not exist, 2 inputs, 2 calls in flight | the inductive invariant `IInv` (every page is typed and sound on its own), tabs agree on the account (`TabsAgree`), every spinner has its call (`LoadingHasCall`), a user who waits sees what was done (`PatientUserSeesAccount`), advice matches its inputs and never outlives a change of the account (`SelectionClearsAdvice`) |
| `equip_stale`, `farm_of_nothing`, `stale_advice` | the smallest instance that shows it | one finding each, below |

Bounds. Two handlers are enough for every hazard listed: each is about one request
overtaking another. Two items of a slot are what a swap needs; the third of
`equip_postgres` lies in another slot, so that a clear that reaches too far is seen,
and the third rune lets a socket be taken by somebody other than the two that
fight. Two sockets let an item move. Initial states are all committed tables that
satisfy the constraints. In `advice` the best weapon depends on the ring and the best
ring on the weapon, one of the two weapons has a star, three gold pay for one or two
levels but never for two of a levelled item, and items may be owned and not worn. In
`chapters` the powers lie below, at, between and above 7/10 of a need and the need,
with every order of ids against numbers and with gaps. No counter is unbounded but `commits`, which `MaxCommits` caps; no state constraint is needed.
In `detail` two tables are what a torn read needs, one with two slots and one with
one; two commits tear it and the third shows that more of the same adds nothing; since
requests meet only in the database one reader is enough. In `browser`, `MaxCalls`
bounds the calls of all tabs together: two are what reordering needs (two refreshes, a
refresh and a mutation, advice and a picker in another tab), an action that would need
a third call waits until one was answered. Two tabs are what a storage event needs. A
third tab would only be told the same.
For more handlers, items, tables and commits there are the theorems below.

Symmetry is used by safety runs only: handlers, runes and sockets, the two
helmets, and account ids, are interchangeable. The runs with a liveness property use none.

Fairness. `FairSpec` assumes it for `Proceed(w)`, the steps of a request that has
arrived; no request needs to arrive. On SQLite weak fairness is enough: a waiting
handler's busy timeout is itself a step that stays enabled. PostgreSQL would need strong
fairness (a waiter is enabled only when the lock is free); there the runs check that no
state is stuck instead. `Browser` and `AccountDetail` have none: a network owes nobody
an answer, so "loading ends" is stated as an invariant, that what will end it is under way.
In `advice` a player who has an improvement to
follow follows one sometime (`WF_vars(Follow)`), in `chapters` the player goes on
pushing and growing: this is about the player, no code enforces it. Deadlock checking
is on for the request handlers: an idle handler can always take a request. It is off
for the advisors, where everything may have been bought and cleared.

### Findings

- `equip_stale`: an equip of an item that was already equipped when it was loaded
  sends no UPDATE for it. If another equip replaced it in between, this one removes
  that other item and leaves the slot empty, with a 200.
- `farm_of_nothing`: a farm score is the score of the build times safety over energy.
  `combat_power` is a field of the account that needs no hero, equipment or skill; with
  none of them the build scores 0, every unlocked chapter scores 0, and the lowest id is
  recommended although it is too risky and another unlocked chapter is safe.
  `architecture.md:827-830` says that farming picks the safest chapter by construction.
- `stale_advice`: while a Gear Advisor request is in flight another tab selects another
  account; the page clears its result, then the answer arrives and is shown for the
  account it was not computed for. The inputs are disabled meanwhile, the account is
  not an input of the page. `SelectionClearsAdvice` says that this is the only way.

Five more answers of 500 are reachable in the models and have no run of their own: a
PATCH `is_unlocked=false` of a skill in a slot and the equip of a rune that moves from
socket to socket while another request takes its old one (their CHECKs,
`Sockets.CheckRejects`, raised again as `errors.py:23-28` says), a
PUT or PATCH with an explicit null for a NOT NULL column (`RowUpdates.NullRejected`;
`schemas/ownership.py:3-7` promises a 422), the
victim of a deadlock between two crossing equips under PostgreSQL (its error is no
IntegrityError), and the loser of two first PUTs of one chapter's progress (its
IntegrityError is not translated).

None of these breaks a committed state: what is wrong is the answer or the advice, or, in
`equip_stale`, which of the legal states is reached.

Of the pages the model shows more that no comment or document rules out: the 404 of a
refresh for an account that is no longer selected clears the newer selection in every
tab; a handler of a page that was left may select an account without the page of its
own tab noticing, since storage events go to the other tabs (`adrift`); with
overlapping calls an older answer may stay on the page until the next refresh
(`disturbed`); a failed refresh leaves the page of the account before.

## Proofs

Every safety invariant and every action property that a run checks is also a theorem,
for all values of the constants that the modules' named assumptions allow. The
theorems of `AdvisorsProofs` have a further hypothesis about the objective, below.

### Equipment by flag

`EquipmentProofs`, for every set of handlers, items and slots and either dialect:

| Theorem | Property |
|---|---|
| `TypeCorrect`, `CommitInvariantHolds` | `TypeOK`, `CommitInv` |
| `AtMostOne` | no committed state has two equipped items in a slot |
| `ConflictIsLostRace` | a 409 of an equip means a lost race |
| `NoConflictOnSqlite` | under SQLite there is none |
| `CommitsStayInSlot`, `SlotsEmptiedOnRequest` | what a commit may never do |
| `CommitsTakeEffect` | what a commit has done |
| `ImplementsLoadout` | `Spec => Loadout!Spec` under (owned, worn) |

That the committed table is unique per slot is not inductive: it depends on what is
staged. `IInv` adds that a row has one writer (`LocksExclusive`, and under SQLite the
database has one), that nothing is staged by a session without a write lock
(`WritersHoldLock`), that only an equip past its flush turns a flag on (`StagedOn`),
that what the index accepted remains acceptable until its commit because every
occupant of the slot is in the accepter's own hands and no other accepted request is
in that slot (`AcceptedStaysUnique`), and that a contender without a rival has
found every occupant (`UnrivalledSawAll`, `SqliteUnrivalled`), from which the meaning
of a 409 follows. `CommitInv` adds what each kind of request may have staged
(`StagedByRequest`, `EquipStages`) and that a request which is not `gone` still has
its row (`RowsHeld`), and that one about to commit has its statement staged unless it
had none to send (`StatementStaged`), which is `CommitsTakeEffect`; with it each `Commit` is one step of `Loadout` or none, and
every other step leaves the committed table alone. There is one lemma per action and
invariant; `Commit` is the long one. TLC checks `CommitInv`, which contains `IInv`,
in `equip_postgres`.

### Equipment by socket

`SocketsProofs`, for runes and for skills, every set of handlers, items and sockets
and either dialect:

| Theorem | Property |
|---|---|
| `InvariantHolds`, `SocketsStaySound` | `IInv`, `SocketsSound` |
| `ConflictIsLostRace` | a 409 of an equip means a lost race |
| `UnequipsNeverRejected` | no unequip is answered with a 409 or a broken CHECK |
| `EquipsKeepUnlocks` | an equip or unequip of a skill leaves every `is_unlocked` |
| `ImplementsBoard` | `Spec => SocketBoard!Spec` under (owned, board) |

Here the row that is committed has several columns, some loaded and some assigned, so
the invariant must say where each staged row version stands *against the table*
(`StagedAt`): an equip's own row in the wanted socket, a cleared row in none if it was
in that socket, everything else where the table has it, and for a skill the flag of
the table (`StagedBy`). That holds although the table changes under the request,
because whoever stages a row holds its lock (`LocksExclusive`). The lemma `Published`
says what a commit makes of a row, `StagedStands` that what others have staged still
stands after it. `AcceptedStaysUnique` and `UnrivalledSawAll` are as above, by socket.
`EquipsKeepUnlocks` is then about `Commit` alone, and `BoardStep` maps each commit to
one step of `SocketBoard` by its kind; since `board` is a CHOOSE over a socket's
occupants, `BoardSocket` first reduces it to the one there is. TLC checks `IInv` in
`runes_postgres`.

### Rows with several columns

`RowUpdatesProofs`, for every set of rows, fields, values and handlers:

| Theorem | Property |
|---|---|
| `InvariantHolds` | `IInv` |
| `OmittedStays` | `OmittedStaysUntouched` |
| `SentStored` | `SentIsStored` |
| `CreatesOverwriteNothing` | `CreateNeverOverwrites` |

A PUT, POST or PATCH stages the new row it makes from the payload, or the table's row
with the changed fields (`StagedByRequest`); what was found stays (`FoundStays`, no
route deletes these rows) and what was not found is still absent when the insert is
committed, for the primary key makes a second writer wait. The subtle case is the
commit without a write: the attributes equalled what was loaded, and the
theorem needs that this was nothing the payload asked to change (`UnstagedIsNothing`).
TLC checks `IInv` in `rows_sqlite`.

### Reading an account

`AccountDetailProofs`, for every set of items, slots and tables (finitely many tables)
and every bound on the commits:

| Theorem | Property |
|---|---|
| `DetailInvariant`, `DetailTypeCorrect` | `IInv`, `TypeOK` |
| `TornAcrossTablesOnly` | `TornOnlyAcrossTables` |
| `SeenBuildsFit` | `SeenBuildFits` |
| `LooksAgree` | `SecondLookAgrees` |
| `FoundIfThere` | a 404 only if there was no account |

`TornOnlyAcrossTables` follows from `NothingStale` (whatever is loaded was committed
during the request) and `LooksInOrder` (an answer has loaded every table): if at most
one table changed, the state in which that table was read has the rows of all others
too. Its inductive invariant adds that every committed state of a request fits its
slots (`DuringIsHistory`), which the steps of `Loadout` keep (`OthersKeepFit`); since
`EquipmentService` is proved to implement `Loadout`, this covers its handlers.

### Pages

`BrowserProofs`, for any number of tabs, accounts, inputs and calls in flight:

| Theorem | Property |
|---|---|
| `InvariantHolds` | `IInv` |
| `SelectionIsShared` | `TabsAgree` |
| `LoadingEnds` | `LoadingHasCall` |
| `PatientUserIsRight` | `PatientUserSeesAccount` |
| `AdviceIsForInputs` | `AdviceMatchesInputs` |
| `SelectionClears` | `SelectionClearsAdvice` |

A step of a page keeps the agreement of the tabs in one of three ways, one lemma each:
it leaves the selection alone (`QuietStep`), it selects an account and writes it to
localStorage, whose event is then pending at every other tab (`SelectingStep`), or it
takes what localStorage holds (`ReadingStep`). The other properties are about one page,
and `PageSound` is inductive for it: a page that is loading has a call that ends it
(`LoadingSound`), an advisor page has at most one call of its own, made with the inputs
it shows, for the inputs are disabled meanwhile (`AdvisorSound`), and a page that
nobody disturbed waits for something about the selected account (`PatienceSound`). The
calls in flight are a sequence that is filtered and shortened, so the lemmas under it
are about `SelectSeq` and `RemoveAt`: which calls are left and which of them are the
page's own. TLC checks `IInv` in `browser`.

### Advisors

`FiniteLemmas` proves what the other two need of finite sets. The usual induction
takes an operator as a parameter, which the provers cannot instantiate; instead the
set of counterexamples, as a *set*, has a smallest member (`SmallestSet`,
`SmallestNumber`, from the well-foundedness of the strict subset order and of `<`),
which is then made smaller. So sums over a finite set unfold, split and agree
(`SumUnfolds`, `SumSplits`, `SumsEqual`), and a ranking that is total and transitive
has a first (`RankingHasFirst`).

`AdvisorsProofs`, for every finite catalog, every account, price and growth rate:

| Theorem | Property | Of the objective |
|---|---|---|
| `SimulationIsExact` | `SimulationExact` | scores are integers |
| `OffersAllItCan` | `BuysAllItCan` | scores are integers |
| `GearAdviceIsStable` | `GearAdviceStable` | scores are integers |
| `UpgradesPay` | `UpgradePays` | scores are integers |
| `MissedNothing` | `NothingMissed` | also monotone, and no score out of stats all worth nothing |

That the context after a change is the context before with one contribution
replaced is the splitting of a sum (`ItemTakesPlace`, `ItemAdded`, `SkillAdded`).
`BuysAllItCan` unrolls the loop of `max_affordable_levels`: it stops at the first level
that cannot be paid, and as each level costs no less than the one before, nothing
beyond can be paid either. `GearAdviceStable` needs that the worn item of a slot, once
it is the best, is ahead of the others in the simulation with itself removed, which is
the simulation those others were scored in. `NothingMissed` is the one that needs to know
the objective: the advisor scores only the *most* levels that can be paid, so one level
alone could help where they do not, and it scores everything 0 when the present score is
0. The hypotheses are `Comparable` and `Sensible` of that module. The weighted sums of
`objectives.py` satisfy them: for one account their weights are positive constants (what
`evaluate` adds to the weight of mobility depends on the account's own combat power, not
on the build), and each score of `engine.py` is a sum of products that grow with every
stat, so that a score of 0 tells which stats are 0. Their numbers are floats, for which
integers stand here. `MCAdvisors.FarmIsAnObjective` has TLC confirm the hypotheses for
the objective of the run, on a grid of contexts.

`ChapterAdvisorProofs`, for every finite catalog, every need, energy cost, power and
score of the build:

| Theorem | Property |
|---|---|
| `NoChapterSkipped` | `ClearedInOrder` |
| `PushesFar` | `PushIsFar` |
| `FarmsCheaply` | `FarmIsSafeAndCheap` |
| `NeverTurnsBack` | `StrongerPushesFarther` |

Scores are fractions compared by cross-multiplication, with ties broken by id; that
this is total and transitive needs some nonlinear arithmetic (`OrderIsTotal`,
`AtMostTransitive`), done by multiplying and cancelling. In farming mode all scores are
0 if the build's is, and then only the ids decide (`NoStrengthTies`). Then the first of a ranking is
its best (`FirstIsBest`). For the progression mode the score of a chapter is compared
with others through an integer in the same order (`Reach`, `ReachOrders`), which
is capped once the chapter is safe and grows with the power until then
(`MorePowerMoreReach`); from that, a stronger account is never sent back
(`StrongerPicksFarther`). The inductive invariant `Walk` is types and `ClearedInOrder`.

### Only model-checked

The liveness properties `EveryRequestAnswered`, `Settles` and `AdviceLeadsThrough`:
fairness and ENABLED are beyond the prover. So is the absence of a stuck state in
`equip_postgres`, `runes_postgres` and the other runs that check for deadlock.

## Not modelled

- The scores of `engine.py` beyond those of the `advice` run: no property depends on
  what an objective measures. Of the build's score the chapters need only whether it is 0. The suggestion of an upgrade in the text of an unsafe chapter pick.
  Floating-point rounding: thresholds at 7/10 and at 1 are exact in the model, and the
  division of two integers whose ratio is 7/10 rounds to the literal 0.7.
- Catalog read API, migrations, seeds, configuration, logging: read-only or static.
- Wording of explanations, layout of pages.
- Of the pages: loading the catalog (one failed call of nine leaves My Account at
  Loading...), the fields of the forms (the core stats form sends all five as they were
  when it was mounted), the `busy` flags of rows, which are forgotten when the page is
  redrawn, the candidates of the Build Optimizer, error texts, double effects of
  StrictMode, and a storage event between a page's first read and its subscription.
- Runes, skills and chapter progress in `AccountDetail`: `Loadout`'s items and slots
  stand for all collections; nothing in the reader depends on which it is.
- The 404 of a POST for an unknown account or catalog item, bounds on levels
  (pydantic refuses them), the cascade of an account's deletion (no route does it),
  the bodies of responses.
- The size of the connection pool: its timeout ends a request like the busy timeout.

## Plan

1. Advice computed from a torn account detail: `AccountDetail` composed with
   `Advisors`, and what `SimulationExact` still says of it.
2. The scores of `engine.py` that need square roots, over a table, with a theorem that
   they are monotone.
3. The catalog's loading and the stats form of My Account, which two listed hazards
   are about.
