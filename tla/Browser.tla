------------------------------ MODULE Browser ------------------------------
(***************************************************************************)
(* The frontend's pages in the tabs of one browser: the My Account page    *)
(* (pages/MyAccountPage.tsx), the advisor pages that clear a result when   *)
(* an input changes ("gear": Gear, Upgrade and Farm advisor) and the Build *)
(* Optimizer page, which does not ("optimizer").                           *)
(*                                                                         *)
(* The selected account lives in localStorage, which the tabs share; a     *)
(* storage event tells the other tabs of a change (useCurrentAccount.ts).  *)
(* Every page talks to the backend by calls that are answered in any       *)
(* order, or fail.  Of the backend only which accounts exist is kept, and  *)
(* of an account's data whether it is older than what its page has done.   *)
(*                                                                         *)
(* A React effect runs in the same step as the state change it reacts to.  *)
(***************************************************************************)
EXTENDS Naturals, FiniteSets, SequencesExt

CONSTANTS Tab,
          PagesOf,      \* [Tab -> SUBSET Page]: where the user of a tab goes
          Account,      \* account ids, in use or not
          Input,        \* the choices of an advisor page: category, objective, ...
          Null,
          MaxCalls      \* bound: calls in flight, of all tabs together

Page == {"account", "gear", "optimizer"}

ASSUME BrowserAssumption ==
  /\ IsFiniteSet(Tab)
  /\ PagesOf \in [Tab -> (SUBSET Page) \ {{}}]
  /\ Null \notin Account \cup Input
  /\ Null \notin [account : Account, old : BOOLEAN]
  /\ Input # {}
  /\ MaxCalls \in Nat \ {0}

VARIABLES exists,    \* the backend: the accounts there are
          stored,    \* localStorage: the account selected, or Null
          notice,    \* [Tab -> BOOLEAN]: a storage event is on its way
          tab        \* [Tab -> what its page holds]

vars == <<exists, stored, notice, tab>>

-----------------------------------------------------------------------------
(* A call of the API.  "orphan": the page that made it was left. *)
Call(kind, a, x) ==
  [kind |-> kind, account |-> a, input |-> x, status |-> "asked", old |-> FALSE,
   orphan |-> FALSE]

Own(s) == {i \in DOMAIN s.calls : ~s.calls[i].orphan}

(* "disturbed", for properties only: since the My Account page was opened,  *)
(* two of its calls overlapped, one failed, or its account changed during    *)
(* one.                                                                      *)
Ask(s, call) ==
  [s EXCEPT !.calls = Append(@, call), !.disturbed = @ \/ Own(s) # {}]

(* MyAccountPage.refresh, up to its await. *)
Refresh(s, a) == [Ask(s, Call("detail", a, Null)) EXCEPT !.loading = TRUE]

(* The effect of the My Account page on [accountId]. *)
AccountEffect(s) ==
  IF s.current = Null THEN [s EXCEPT !.shown = Null, !.loading = FALSE]
                      ELSE Refresh(s, s.current)

\* Mutant: accountId is missing from the dependencies of the effect.
KeepAdvice(s) == s

(* The effect of an advisor page on its inputs: the last result is stale. *)
ClearAdvice(s) ==
  IF s.page = "gear" THEN [s EXCEPT !.result = Null] ELSE s

(* setAccountIdState: a new value renders the page and runs its effects. *)
Select(s, a) ==
  IF a = s.current THEN s
  ELSE IF s.page = "account"
    THEN AccountEffect([s EXCEPT !.current = a, !.disturbed = @ \/ Own(s) # {}])
    ELSE ClearAdvice([s EXCEPT !.current = a])

(* "adrift", for properties only: a call of a page that was left has selected *)
(* an account in localStorage, and this page has not looked since.            *)
Agree(s, a) == [Select(s, a) EXCEPT !.adrift = FALSE]

(* localStorage.setItem/removeItem: the other tabs hear of a change. *)
Publish(t, a) ==
  /\ stored' = a
  /\ notice' = [u \in Tab |-> notice[u] \/ (u # t /\ a # stored)]

KeepStored == UNCHANGED <<stored, notice>>

(* A page that is opened reads localStorage; the calls of the page that is   *)
(* left go on, and what they do outside of it still happens.                 *)
Open(p, calls) ==
  LET s == [page |-> p, current |-> stored, shown |-> Null, result |-> Null,
            input |-> CHOOSE x \in Input : TRUE, loading |-> FALSE,
            calls |-> calls, disturbed |-> FALSE, adrift |-> FALSE]
  IN IF p = "account" THEN AccountEffect(s) ELSE s

-----------------------------------------------------------------------------
(* What the user does in tab t.                                             *)
-----------------------------------------------------------------------------
InFlight == {p \in Tab \X (1..MaxCalls) : p[2] <= Len(tab[p[1]].calls)}

Room == Cardinality(InFlight) < MaxCalls

Update(t, s) == tab' = [tab EXCEPT ![t] = s]

(* The three views of the My Account page; Loading... has no controls. *)
ShowsPicker(s) ==
  s.page = "account" /\ ~s.loading /\ (s.current = Null \/ s.shown = Null)
ShowsAccount(s) ==
  s.page = "account" /\ ~s.loading /\ s.current # Null /\ s.shown # Null

(* AccountPicker: the account is selected once the call has succeeded. *)
PickAccount(t) ==
  /\ ShowsPicker(tab[t]) /\ Room
  /\ \/ \E a \in Account : Update(t, Ask(tab[t], Call("verify", a, Null)))
     \/ Update(t, Ask(tab[t], Call("create", Null, Null)))
  /\ UNCHANGED exists /\ KeepStored

SwitchAccount(t) ==
  /\ ShowsAccount(tab[t])
  /\ Publish(t, Null) /\ Update(t, Agree(tab[t], Null))
  /\ UNCHANGED exists

(* Any button of a row, an add control or the core stats form: the call     *)
(* names the account that is shown, and only its own row is busy.           *)
Mutate(t) ==
  /\ ShowsAccount(tab[t]) /\ Room
  /\ Update(t, Ask(tab[t], Call("mutate", tab[t].shown.account, Null)))
  /\ UNCHANGED exists /\ KeepStored

OnAdvisor(s) == s.page # "account" /\ s.current # Null

(* handleAdvise, up to its await; the button is disabled while loading. *)
Advise(t) ==
  /\ OnAdvisor(tab[t]) /\ ~tab[t].loading /\ Room
  /\ LET call == Call("advise", tab[t].current, tab[t].input)
     IN Update(t, [tab[t] EXCEPT !.calls = Append(@, call), !.loading = TRUE, !.result = Null])
  /\ UNCHANGED exists /\ KeepStored

\* Mutant: the inputs are not disabled while a calculation runs.
ChangeAnyTime(t) ==
  /\ tab[t].page = "gear" /\ tab[t].current # Null
  /\ \E x \in Input \ {tab[t].input} :
       Update(t, ClearAdvice([tab[t] EXCEPT !.input = x]))
  /\ UNCHANGED exists /\ KeepStored

(* The inputs are disabled while loading.  (The Build Optimizer page neither *)
(* disables its inputs nor looks at them again: they are left out there.)    *)
ChangeInput(t) ==
  /\ tab[t].page = "gear" /\ tab[t].current # Null /\ ~tab[t].loading
  /\ \E x \in Input \ {tab[t].input} :
       Update(t, ClearAdvice([tab[t] EXCEPT !.input = x]))
  /\ UNCHANGED exists /\ KeepStored

(* A link of the Layout: the page is unmounted, its calls go on.             *)
Navigate(t) ==
  /\ \E p \in PagesOf[t] \ {tab[t].page} :
       LET left == tab[t].calls
       IN Update(t, Open(p, [i \in DOMAIN left |-> [left[i] EXCEPT !.orphan = TRUE]]))
  /\ Room
  /\ UNCHANGED exists /\ KeepStored

-----------------------------------------------------------------------------
(* The backend handles the i-th call of t.                                   *)
-----------------------------------------------------------------------------
(* Serving a mutation of the page makes what the page has of that account    *)
(* "old" (for properties only).                                              *)
Outdated(s, a) ==
  [s EXCEPT
     !.calls = [i \in DOMAIN @ |->
                  IF s.calls[i].kind = "detail" /\ s.calls[i].status = "ok"
                       /\ s.calls[i].account = a /\ ~s.calls[i].orphan
                    THEN [@[i] EXCEPT !.old = TRUE] ELSE @[i]],
     !.shown = IF @ # Null /\ s.shown.account = a THEN [@ EXCEPT !.old = TRUE] ELSE @]

Answer(t, s, i, c) == Update(t, [s EXCEPT !.calls[i] = c])

(* A 404; a create names no account. *)
ServeMissing(t, i, c) ==
  /\ c.kind # "create" /\ c.account \notin exists
  /\ Answer(t, tab[t], i, [c EXCEPT !.status = "missing"])
  /\ UNCHANGED exists

ServeDetail(t, i, c) ==
  /\ c.kind \in {"detail", "verify"} /\ c.account \in exists
  /\ Answer(t, tab[t], i, [c EXCEPT !.status = "ok"])
  /\ UNCHANGED exists

ServeAdvice(t, i, c) ==
  /\ c.kind = "advise" /\ c.account \in exists
  /\ Answer(t, tab[t], i, [c EXCEPT !.status = "ok"])
  /\ UNCHANGED exists

ServeMutation(t, i, c) ==
  /\ c.kind = "mutate" /\ c.account \in exists
  /\ Answer(t, IF c.orphan THEN tab[t] ELSE Outdated(tab[t], c.account),
            i, [c EXCEPT !.status = "ok"])
  /\ UNCHANGED exists

ServeCreate(t, i, c) ==
  /\ c.kind = "create"
  /\ \E a \in Account \ exists :
       /\ exists' = exists \cup {a}
       /\ Answer(t, tab[t], i, [c EXCEPT !.status = "ok", !.account = a])

Serve(t, i) ==
  LET c == tab[t].calls[i] IN
  /\ c.status = "asked"
  /\ KeepStored
  /\ \/ ServeMissing(t, i, c) \/ ServeDetail(t, i, c) \/ ServeAdvice(t, i, c)
     \/ ServeMutation(t, i, c) \/ ServeCreate(t, i, c)

-----------------------------------------------------------------------------
(* The answer to c reaches the handler that waits for it; s is the page      *)
(* without that call.                                                        *)
-----------------------------------------------------------------------------
Fail(s) == [s EXCEPT !.disturbed = TRUE]

(* refresh, from its await on. *)
DetailArrives(t, s, c) ==
  \/ /\ c.status = "ok"
     /\ Update(t, [s EXCEPT !.shown = [account |-> c.account, old |-> c.old],
                            !.loading = FALSE])
     /\ KeepStored
  \/ /\ c.status = "missing"
     /\ Publish(t, Null)
     /\ Update(t, [Agree(s, Null) EXCEPT !.shown = Null, !.loading = FALSE])
  \/ c.status = "failed" /\ Update(t, [Fail(s) EXCEPT !.loading = FALSE]) /\ KeepStored

(* onCreated, onSwitched; the picker shows its errors itself. *)
PickArrives(t, s, c) ==
  \/ c.status = "ok" /\ Publish(t, c.account) /\ Update(t, Agree(s, c.account))
  \/ c.status # "ok" /\ Update(t, s) /\ KeepStored

\* Mutant: the answer of the mutation is taken for the state of the account.
NoRefetch(t, s, c) ==
  /\ KeepStored
  /\ \/ c.status = "ok" /\ Update(t, s)
     \/ c.status # "ok" /\ Update(t, Fail(s))

\* Mutant: the account that is selected by then is refreshed.
RefreshSelected(t, s, c) ==
  /\ KeepStored
  /\ \/ c.status = "ok" /\ Update(t, Refresh(s, s.current))
     \/ c.status # "ok" /\ Update(t, Fail(s))

(* Every mutation is followed by a refresh of the account it was made on. *)
MutationArrives(t, s, c) ==
  /\ KeepStored
  /\ \/ c.status = "ok" /\ Update(t, Refresh(s, c.account))
     \/ c.status # "ok" /\ Update(t, Fail(s))

\* Mutant: an error of the calculation leaves the page loading.
AdviceOrNothing(t, s, c) ==
  /\ KeepStored
  /\ IF c.status = "ok"
       THEN Update(t, [s EXCEPT !.result = [account |-> c.account, input |-> c.input],
                                !.loading = FALSE])
       ELSE Update(t, s)

(* handleAdvise, from its await on: nothing is compared with the page. *)
AdviceArrives(t, s, c) ==
  /\ KeepStored
  /\ IF c.status = "ok"
       THEN Update(t, [s EXCEPT !.result = [account |-> c.account, input |-> c.input],
                                !.loading = FALSE])
       ELSE Update(t, [s EXCEPT !.loading = FALSE])

(* Of a page that is gone only localStorage and the backend are left. *)
OrphanArrives(t, s, c) ==
  \/ /\ c.kind = "detail" /\ c.status = "missing"
     /\ Publish(t, Null)
     /\ Update(t, [s EXCEPT !.adrift = TRUE])
  \/ /\ c.kind \in {"verify", "create"} /\ c.status = "ok"
     /\ Publish(t, c.account)
     /\ Update(t, [s EXCEPT !.adrift = TRUE])
  \/ /\ c.kind = "mutate" /\ c.status = "ok"
     /\ Update(t, [s EXCEPT !.calls =
                     Append(@, [Call("detail", c.account, Null) EXCEPT !.orphan = TRUE])])
     /\ KeepStored
  \/ /\ ~(c.kind = "detail" /\ c.status = "missing")
     /\ ~(c.kind \in {"verify", "create", "mutate"} /\ c.status = "ok")
     /\ Update(t, s) /\ KeepStored

(* A call that was not handled, or whose answer was lost, is answered by an  *)
(* error: a 4xx or 5xx, or fetch rejects.                                    *)
Deliver(t, i) ==
  LET s == [tab[t] EXCEPT !.calls = RemoveAt(@, i)] IN
  \E c \in {tab[t].calls[i], [tab[t].calls[i] EXCEPT !.status = "failed"]} :
     /\ c.status # "asked"
     /\ UNCHANGED exists
     /\ \/ c.orphan /\ OrphanArrives(t, s, c)
        \/ ~c.orphan /\ c.kind = "detail" /\ DetailArrives(t, s, c)
        \/ ~c.orphan /\ c.kind \in {"verify", "create"} /\ PickArrives(t, s, c)
        \/ ~c.orphan /\ c.kind = "mutate" /\ MutationArrives(t, s, c)
        \/ ~c.orphan /\ c.kind = "advise" /\ AdviceArrives(t, s, c)

\* Mutant: removeItem is not listened to (event.newValue must be set).
HearSelection(t) ==
  /\ notice[t] /\ Room
  /\ notice' = [notice EXCEPT ![t] = FALSE]
  /\ Update(t, IF stored = Null THEN tab[t] ELSE Agree(tab[t], stored))
  /\ UNCHANGED <<exists, stored>>

(* handleStorage: whatever localStorage holds by now. *)
HearStorage(t) ==
  /\ notice[t] /\ Room
  /\ notice' = [notice EXCEPT ![t] = FALSE]
  /\ Update(t, Agree(tab[t], stored))
  /\ UNCHANGED <<exists, stored>>

-----------------------------------------------------------------------------
Init ==
  /\ exists \in SUBSET Account
  /\ stored \in Account \cup {Null}
  /\ notice = [t \in Tab |-> FALSE]
  /\ \E p \in [Tab -> Page] : /\ \A t \in Tab : p[t] \in PagesOf[t]
                              /\ tab = [t \in Tab |-> Open(p[t], <<>>)]

Network(t) == \E i \in DOMAIN tab[t].calls : Serve(t, i) \/ Deliver(t, i)

User(t) ==
  \/ PickAccount(t) \/ SwitchAccount(t) \/ Mutate(t)
  \/ Advise(t) \/ ChangeInput(t) \/ Navigate(t)

Next == \E t \in Tab : Network(t) \/ HearStorage(t) \/ User(t)

Spec == Init /\ [][Next]_vars

-----------------------------------------------------------------------------
(* Type correctness. *)
CallRecord ==
  [kind : {"detail", "verify", "create", "mutate", "advise"},
   account : Account \cup {Null}, input : Input \cup {Null},
   status : {"asked", "ok", "missing", "failed"}, old : BOOLEAN, orphan : BOOLEAN]

(* A call names an account, unless it creates one and was not served yet.    *)
CallType ==
  {c \in CallRecord :
     /\ c.account = Null => c.kind = "create" /\ c.status \in {"asked", "failed"}
     /\ c.kind = "advise" => c.input # Null}

PageType ==
  [page : Page, current : Account \cup {Null},
   shown : [account : Account, old : BOOLEAN] \cup {Null},
   result : [account : Account, input : Input] \cup {Null},
   input : Input, loading : BOOLEAN, calls : Seq(CallType),
   disturbed : BOOLEAN, adrift : BOOLEAN]

TypeOK ==
  /\ exists \subseteq Account
  /\ stored \in Account \cup {Null}
  /\ notice \in [Tab -> BOOLEAN]
  /\ tab \in [Tab -> PageType]
  /\ \A t \in Tab : tab[t].page \in PagesOf[t] /\ Len(tab[t].calls) <= MaxCalls

(* Tabs on which no storage event is pending agree with localStorage on the  *)
(* selected account, unless a call of a page left behind has written there:  *)
(* the tab it ran in gets no storage event (useCurrentAccount.ts).           *)
TabsAgree ==
  \A t \in Tab : ~notice[t] /\ ~tab[t].adrift => tab[t].current = stored

(* A page that shows Loading... or "Calculating..." waits for a call that    *)
(* will end it (the try/finally of refresh and of every handleAdvise).       *)
LoadingHasCall ==
  \A t \in Tab : tab[t].loading =>
    \E i \in DOMAIN tab[t].calls :
      ~tab[t].calls[i].orphan /\ tab[t].calls[i].kind \in {"detail", "advise"}

UpToDate(s) ==
  /\ (s.shown = Null) = (s.current = Null)
  /\ s.shown # Null => s.shown.account = s.current /\ ~s.shown.old

(* The My Account page of a user who waits for every answer, with no failure *)
(* and no other tab interfering, shows the selected account with everything  *)
(* this user has done to it (MyAccountPage.tsx: refetch after any mutation). *)
PatientUserSeesAccount ==
  \A t \in Tab :
    tab[t].page = "account" /\ ~tab[t].disturbed /\ Own(tab[t]) = {} => UpToDate(tab[t])

AdviceShown(s) == s.page = "gear" /\ s.current # Null /\ s.result # Null

(* The advice on a Gear, Upgrade or Farm page was computed for the inputs    *)
(* that are selected there now.                                              *)
AdviceMatchesInputs ==
  \A t \in Tab : AdviceShown(tab[t]) => tab[t].result.input = tab[t].input

OthersAdvice(s) == AdviceShown(s) /\ s.result.account # s.current

(* Advice for another account is never left over from before a change of the *)
(* selection: it can only arrive (the dependencies of the clearing effect).  *)
SelectionClearsAdvice ==
  [][\A t \in Tab :
       OthersAdvice(tab'[t]) /\ ~OthersAdvice(tab[t]) =>
         tab'[t].current = tab[t].current /\ tab'[t].calls # tab[t].calls]_vars

(* GearAdvisorPage.tsx:39: "A recommendation only ever matches the inputs it *)
(* was computed for"; docs/architecture.md:1061 counts the account to them.  *)
AdviceMatchesAccount == \A t \in Tab : ~OthersAdvice(tab[t])

-----------------------------------------------------------------------------
(* Why these properties hold: what is true of every page on its own.         *)
-----------------------------------------------------------------------------
LoadingSound(s) ==
  s.loading => \E i \in Own(s) : s.calls[i].kind \in {"detail", "advise"}

(* An advisor page has at most one call of its own, is loading until it is    *)
(* answered, and its inputs are those the call was made with.                *)
AdvisorSound(s) ==
  /\ s.page = "account" => \A i \in Own(s) : s.calls[i].kind # "advise"
  /\ s.page # "account" =>
       \A i \in Own(s) : /\ s.calls[i].kind = "advise" /\ s.loading
                         /\ s.page = "gear" => s.calls[i].input = s.input
                         /\ \A j \in Own(s) : j = i
  /\ s.page = "gear" /\ s.result # Null => s.result.input = s.input

(* What an undisturbed My Account page waits for is about the account that   *)
(* is selected, and nothing was done to that account since it was asked.     *)
Awaits(s, c) ==
  /\ c.kind \in {"detail", "mutate"} => c.account = s.current
  /\ c.kind = "detail" => ~c.old
  /\ c.kind \in {"verify", "create"} => s.current = Null /\ s.shown = Null

PatienceSound(s) ==
  s.page = "account" /\ ~s.disturbed =>
    /\ Own(s) = {} => UpToDate(s)
    /\ \A i \in Own(s) : Awaits(s, s.calls[i]) /\ \A j \in Own(s) : j = i

PageSound(s) == LoadingSound(s) /\ AdvisorSound(s) /\ PatienceSound(s)

(* The inductive invariant.                                                  *)
IInv == TypeOK /\ TabsAgree /\ \A t \in Tab : PageSound(tab[t])
=============================================================================
