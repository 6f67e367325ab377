--------------------------- MODULE BrowserProofs ---------------------------
(***************************************************************************)
(* The pages of a browser, for any number of tabs, accounts and calls in   *)
(* flight: the tabs agree on the selected account, and every page shows    *)
(* what it was asked for.                                                  *)
(***************************************************************************)
EXTENDS Browser, TLAPS, FiniteSetTheorems, SequenceTheorems

Fields == {"page", "current", "shown", "result", "input", "loading", "calls",
           "disturbed", "adrift"}

(* tab[t] is the record of a page. *)
Shaped == DOMAIN tab = Tab /\ \A t \in Tab : DOMAIN tab[t] = Fields

(* What a step of a page leaves alone that does not select an account.       *)
Keeps(s, r) == DOMAIN r = Fields /\ r.current = s.current /\ r.adrift = s.adrift

TabsInv == Shaped /\ notice \in [Tab -> BOOLEAN] /\ TabsAgree

-----------------------------------------------------------------------------
LEMMA AskKeeps ==
  ASSUME NEW s, DOMAIN s = Fields, NEW c PROVE Keeps(s, Ask(s, c))
BY DEF Keeps, Ask, Fields

LEMMA RefreshKeeps ==
  ASSUME NEW s, DOMAIN s = Fields, NEW a PROVE Keeps(s, Refresh(s, a))
BY AskKeeps DEF Keeps, Refresh, Fields

LEMMA EffectsKeep ==
  ASSUME NEW s, DOMAIN s = Fields PROVE Keeps(s, AccountEffect(s)) /\ Keeps(s, ClearAdvice(s))
<1>1. Keeps(s, AccountEffect(s))
  BY RefreshKeeps DEF Keeps, AccountEffect, Fields
<1>2. Keeps(s, ClearAdvice(s))
  BY DEF Keeps, ClearAdvice, Fields
<1> QED
  BY <1>1, <1>2

LEMMA AgreeSelects ==
  ASSUME NEW s, DOMAIN s = Fields, NEW a
  PROVE  DOMAIN Agree(s, a) = Fields /\ Agree(s, a).current = a /\ ~Agree(s, a).adrift
<1>1. DOMAIN Select(s, a) = Fields /\ Select(s, a).current = a
  <2>1. CASE a = s.current
    BY <2>1 DEF Select
  <2>2. CASE a # s.current /\ s.page = "account"
    <3> DEFINE r == [s EXCEPT !.current = a, !.disturbed = @ \/ Own(s) # {}]
    <3>1. DOMAIN r = Fields /\ r.current = a
      BY DEF Fields
    <3>2. Select(s, a) = AccountEffect(r)
      BY <2>2 DEF Select
    <3> HIDE DEF r
    <3> QED
      BY <3>1, <3>2, EffectsKeep DEF Keeps
  <2>3. CASE a # s.current /\ s.page # "account"
    <3> DEFINE r == [s EXCEPT !.current = a]
    <3>1. DOMAIN r = Fields /\ r.current = a
      BY DEF Fields
    <3>2. Select(s, a) = ClearAdvice(r)
      BY <2>3 DEF Select
    <3> HIDE DEF r
    <3> QED
      BY <3>1, <3>2, EffectsKeep DEF Keeps
  <2> QED
    BY <2>1, <2>2, <2>3
<1> QED
  BY <1>1 DEF Agree, Fields

LEMMA OpenReads ==
  ASSUME NEW p, NEW q
  PROVE  DOMAIN Open(p, q) = Fields /\ Open(p, q).current = stored /\ ~Open(p, q).adrift
<1> DEFINE s == [page |-> p, current |-> stored, shown |-> Null, result |-> Null,
                 input |-> CHOOSE x \in Input : TRUE, loading |-> FALSE,
                 calls |-> q, disturbed |-> FALSE, adrift |-> FALSE]
<1>1. DOMAIN s = Fields /\ s.current = stored /\ ~s.adrift
  BY DEF Fields
<1>2. Open(p, q) = IF p = "account" THEN AccountEffect(s) ELSE s
  BY DEF Open
<1> HIDE DEF s
<1> QED
  BY <1>1, <1>2, EffectsKeep DEF Keeps

-----------------------------------------------------------------------------
(* The three ways in which a step of tab t keeps the tabs in agreement.      *)
LEMMA QuietStep ==
  ASSUME TabsInv, NEW t \in Tab, NEW r, Keeps(tab[t], r), Update(t, r), KeepStored
  PROVE  TabsInv'
BY DEF TabsInv, Shaped, TabsAgree, Keeps, Update, KeepStored

LEMMA SelectingStep ==
  ASSUME TabsInv, NEW t \in Tab, NEW r, NEW a, DOMAIN r = Fields, Update(t, r), Publish(t, a),
         (r.current = a /\ ~r.adrift) \/ r.adrift = TRUE
  PROVE  TabsInv'
<1>1. stored' = a /\ notice' = [u \in Tab |-> notice[u] \/ (u # t /\ a # stored)]
  BY DEF Publish
<1>2. tab' = [tab EXCEPT ![t] = r] /\ tab'[t] = r /\ \A u \in Tab \ {t} : tab'[u] = tab[u]
  BY DEF Update, TabsInv, Shaped
<1>3. Shaped' /\ notice' \in [Tab -> BOOLEAN]
  BY <1>1, <1>2 DEF TabsInv, Shaped
<1>4. ASSUME NEW u \in Tab, ~notice'[u], ~tab'[u].adrift PROVE tab'[u].current = stored'
  BY <1>1, <1>2, <1>4 DEF TabsInv, TabsAgree
<1> QED
  BY <1>3, <1>4 DEF TabsInv, TabsAgree

LEMMA ReadingStep ==
  ASSUME TabsInv, NEW t \in Tab, NEW r, DOMAIN r = Fields, r.current = stored, ~r.adrift,
         Update(t, r), UNCHANGED stored, \A u \in Tab \ {t} : notice'[u] = notice[u],
         notice' \in [Tab -> BOOLEAN]
  PROVE  TabsInv'
BY DEF TabsInv, Shaped, TabsAgree, Update

-----------------------------------------------------------------------------
LEMMA InitAgrees == Init => TabsInv
<1> SUFFICES ASSUME Init PROVE TabsInv
  OBVIOUS
<1>1. PICK p \in [Tab -> Page] : tab = [t \in Tab |-> Open(p[t], <<>>)]
  BY DEF Init
<1>2. ASSUME NEW t \in Tab
      PROVE  DOMAIN tab[t] = Fields /\ tab[t].current = stored
  BY <1>1, OpenReads
<1>3. Shaped
  BY <1>1, <1>2 DEF Shaped
<1>4. notice \in [Tab -> BOOLEAN]
  BY DEF Init
<1> QED
  BY <1>2, <1>3, <1>4 DEF TabsInv, TabsAgree

(* What the user does.                                                       *)
LEMMA UserKeepsAgreement ==
  ASSUME TabsInv, NEW t \in Tab, User(t) PROVE TabsInv'
<1>0. DOMAIN tab[t] = Fields
  BY DEF TabsInv, Shaped
<1>1. CASE PickAccount(t)
  <2>1. PICK c : Update(t, Ask(tab[t], c))
    BY <1>1 DEF PickAccount
  <2>2. KeepStored
    BY <1>1 DEF PickAccount
  <2> QED
    BY <1>0, <2>1, <2>2, AskKeeps, QuietStep
<1>2. CASE SwitchAccount(t)
  <2>1. Publish(t, Null) /\ Update(t, Agree(tab[t], Null))
    BY <1>2 DEF SwitchAccount
  <2>2. /\ DOMAIN Agree(tab[t], Null) = Fields
        /\ Agree(tab[t], Null).current = Null /\ ~Agree(tab[t], Null).adrift
    BY <1>0, AgreeSelects
  <2> QED
    BY <2>1, <2>2, SelectingStep
<1>3. CASE Mutate(t)
  BY <1>0, <1>3, AskKeeps, QuietStep DEF Mutate
<1>4. CASE Advise(t)
  <2> DEFINE c == Call("advise", tab[t].current, tab[t].input)
             r == [tab[t] EXCEPT !.calls = Append(@, c), !.loading = TRUE, !.result = Null]
  <2>1. Update(t, r) /\ KeepStored
    BY <1>4 DEF Advise
  <2>2. Keeps(tab[t], r)
    BY <1>0 DEF Keeps, Fields
  <2> HIDE DEF r
  <2> QED
    BY <2>1, <2>2, QuietStep
<1>5. CASE ChangeInput(t)
  <2>1. PICK x : Update(t, ClearAdvice([tab[t] EXCEPT !.input = x]))
    BY <1>5 DEF ChangeInput
  <2>2. KeepStored
    BY <1>5 DEF ChangeInput
  <2> DEFINE s == [tab[t] EXCEPT !.input = x]
  <2>3. Keeps(tab[t], s)
    BY <1>0 DEF Keeps, Fields
  <2>4. Update(t, ClearAdvice(s))
    BY <2>1
  <2> HIDE DEF s
  <2>5. Keeps(tab[t], ClearAdvice(s))
    BY <2>3, EffectsKeep DEF Keeps
  <2> QED
    BY <2>2, <2>4, <2>5, QuietStep
<1>6. CASE Navigate(t)
  <2>1. PICK p, q : Update(t, Open(p, q))
    BY <1>6 DEF Navigate
  <2>2. UNCHANGED <<stored, notice>>
    BY <1>6 DEF Navigate, KeepStored
  <2>3. notice' \in [Tab -> BOOLEAN]
    BY <2>2 DEF TabsInv
  <2> QED
    BY <2>1, <2>2, <2>3, OpenReads, ReadingStep
<1> QED
  BY <1>1, <1>2, <1>3, <1>4, <1>5, <1>6 DEF User

(* Serving a call touches no selection.                                      *)
LEMMA ServeKeepsAgreement ==
  ASSUME TabsInv, NEW t \in Tab, NEW i, Serve(t, i) PROVE TabsInv'
<1>0. DOMAIN tab[t] = Fields
  BY DEF TabsInv, Shaped
<1> DEFINE c == tab[t].calls[i]
<1>1. ASSUME NEW s, NEW d, Keeps(tab[t], s) PROVE Keeps(tab[t], [s EXCEPT !.calls[i] = d])
  BY <1>1 DEF Keeps, Fields
<1>2. Keeps(tab[t], tab[t]) /\ \A a : Keeps(tab[t], Outdated(tab[t], a))
  BY <1>0 DEF Keeps, Outdated, Fields
<1>3. PICK s, d : Keeps(tab[t], s) /\ Update(t, [s EXCEPT !.calls[i] = d])
  <2>1. CASE ServeMissing(t, i, c)
    BY <1>2, <2>1 DEF ServeMissing, Answer
  <2>2. CASE ServeDetail(t, i, c)
    BY <1>2, <2>2 DEF ServeDetail, Answer
  <2>3. CASE ServeAdvice(t, i, c)
    BY <1>2, <2>3 DEF ServeAdvice, Answer
  <2>4. CASE ServeMutation(t, i, c)
    <3>1. CASE c.orphan
      BY <1>2, <2>4, <3>1 DEF ServeMutation, Answer
    <3>2. CASE ~c.orphan
      BY <1>2, <2>4, <3>2 DEF ServeMutation, Answer
    <3> QED
      BY <3>1, <3>2
  <2>5. CASE ServeCreate(t, i, c)
    BY <1>2, <2>5 DEF ServeCreate, Answer
  <2> QED
    BY <2>1, <2>2, <2>3, <2>4, <2>5 DEF Serve
<1> DEFINE r == [s EXCEPT !.calls[i] = d]
<1>4. Keeps(tab[t], r) /\ Update(t, r)
  BY <1>1, <1>3
<1>5. KeepStored
  BY DEF Serve
<1> HIDE DEF r
<1> QED
  BY <1>4, <1>5, QuietStep

-----------------------------------------------------------------------------
(* The handlers of the answers.                                              *)
LEMMA QuietTwice ==
  ASSUME NEW x, NEW s, NEW r, Keeps(x, s), Keeps(s, r) PROVE Keeps(x, r)
BY DEF Keeps

LEMMA DetailArrivesAgrees ==
  ASSUME TabsInv, NEW t \in Tab, NEW s, NEW c, Keeps(tab[t], s), DetailArrives(t, s, c)
  PROVE  TabsInv'
<1>1. CASE c.status = "ok"
  <2> DEFINE r == [s EXCEPT !.shown = [account |-> c.account, old |-> c.old],
                            !.loading = FALSE]
  <2>1. Keeps(tab[t], r)
    BY DEF Keeps, Fields
  <2>2. Update(t, r) /\ KeepStored
    BY <1>1 DEF DetailArrives
  <2> HIDE DEF r
  <2> QED
    BY <2>1, <2>2, QuietStep
<1>2. CASE c.status = "missing"
  <2> DEFINE g == Agree(s, Null)
             r == [g EXCEPT !.shown = Null, !.loading = FALSE]
  <2>1. Update(t, r) /\ Publish(t, Null)
    BY <1>2 DEF DetailArrives
  <2>2. DOMAIN g = Fields /\ g.current = Null /\ ~g.adrift
    BY AgreeSelects DEF Keeps
  <2> HIDE DEF g
  <2>3. DOMAIN r = Fields /\ r.current = Null /\ ~r.adrift
    BY <2>2 DEF Fields
  <2> HIDE DEF r
  <2> QED
    BY <2>1, <2>3, SelectingStep
<1>3. CASE c.status = "failed"
  <2> DEFINE r == [Fail(s) EXCEPT !.loading = FALSE]
  <2>1. Keeps(tab[t], r)
    BY DEF Keeps, Fail, Fields
  <2>2. Update(t, r) /\ KeepStored
    BY <1>3 DEF DetailArrives
  <2> HIDE DEF r
  <2> QED
    BY <2>1, <2>2, QuietStep
<1> QED
  BY <1>1, <1>2, <1>3 DEF DetailArrives

LEMMA PickArrivesAgrees ==
  ASSUME TabsInv, NEW t \in Tab, NEW s, NEW c, Keeps(tab[t], s), PickArrives(t, s, c)
  PROVE  TabsInv'
<1>1. CASE Publish(t, c.account) /\ Update(t, Agree(s, c.account))
  <2>1. /\ DOMAIN Agree(s, c.account) = Fields
        /\ Agree(s, c.account).current = c.account /\ ~Agree(s, c.account).adrift
    BY AgreeSelects DEF Keeps
  <2> QED
    BY <1>1, <2>1, SelectingStep
<1>2. CASE Update(t, s) /\ KeepStored
  BY <1>2, QuietStep
<1> QED
  BY <1>1, <1>2 DEF PickArrives

LEMMA MutationArrivesAgrees ==
  ASSUME TabsInv, NEW t \in Tab, NEW s, NEW c, Keeps(tab[t], s), MutationArrives(t, s, c)
  PROVE  TabsInv'
<1>1. Keeps(s, Refresh(s, c.account))
  BY RefreshKeeps DEF Keeps
<1>2. Keeps(s, Fail(s))
  BY DEF Keeps, Fail, Fields
<1>3. PICK r : Keeps(s, r) /\ Update(t, r)
  BY <1>1, <1>2 DEF MutationArrives
<1>4. Keeps(tab[t], r) /\ KeepStored
  BY <1>3, QuietTwice DEF MutationArrives
<1> QED
  BY <1>3, <1>4, QuietStep

LEMMA AdviceArrivesAgrees ==
  ASSUME TabsInv, NEW t \in Tab, NEW s, NEW c, Keeps(tab[t], s), AdviceArrives(t, s, c)
  PROVE  TabsInv'
<1> DEFINE r == [s EXCEPT !.result = [account |-> c.account, input |-> c.input],
                          !.loading = FALSE]
           q == [s EXCEPT !.loading = FALSE]
<1>1. Keeps(tab[t], r) /\ Keeps(tab[t], q)
  BY DEF Keeps, Fields
<1>2. (Update(t, r) \/ Update(t, q)) /\ KeepStored
  BY DEF AdviceArrives
<1> HIDE DEF r, q
<1> QED
  BY <1>1, <1>2, QuietStep

LEMMA OrphanArrivesAgrees ==
  ASSUME TabsInv, NEW t \in Tab, NEW s, NEW c, Keeps(tab[t], s), OrphanArrives(t, s, c)
  PROVE  TabsInv'
<1> DEFINE lost == [s EXCEPT !.adrift = TRUE]
           next == [s EXCEPT !.calls =
                      Append(@, [Call("detail", c.account, Null) EXCEPT !.orphan = TRUE])]
<1>1. DOMAIN lost = Fields /\ lost.adrift = TRUE
  BY DEF Keeps, Fields
<1>2. Keeps(tab[t], next)
  BY DEF Keeps, Fields
<1>3. CASE c.kind = "detail" /\ c.status = "missing"
  <2>1. Publish(t, Null) /\ Update(t, lost)
    BY <1>3 DEF OrphanArrives
  <2> HIDE DEF lost
  <2> QED
    BY <1>1, <2>1, SelectingStep
<1>4. CASE c.kind \in {"verify", "create"} /\ c.status = "ok"
  <2>1. Publish(t, c.account) /\ Update(t, lost)
    BY <1>4 DEF OrphanArrives
  <2> HIDE DEF lost
  <2> QED
    BY <1>1, <2>1, SelectingStep
<1>5. CASE c.kind = "mutate" /\ c.status = "ok"
  <2>1. Update(t, next) /\ KeepStored
    BY <1>5 DEF OrphanArrives
  <2> HIDE DEF next
  <2> QED
    BY <1>2, <2>1, QuietStep
<1>6. CASE Update(t, s) /\ KeepStored
  BY <1>6, QuietStep
<1> QED
  BY <1>3, <1>4, <1>5, <1>6 DEF OrphanArrives

LEMMA DeliverKeepsAgreement ==
  ASSUME TabsInv, NEW t \in Tab, NEW i, Deliver(t, i) PROVE TabsInv'
<1> DEFINE s == [tab[t] EXCEPT !.calls = RemoveAt(@, i)]
<1>1. Keeps(tab[t], s)
  BY DEF Keeps, Fields, TabsInv, Shaped
<1>2. PICK c : \/ OrphanArrives(t, s, c) \/ DetailArrives(t, s, c) \/ PickArrives(t, s, c)
               \/ MutationArrives(t, s, c) \/ AdviceArrives(t, s, c)
  BY DEF Deliver
<1> HIDE DEF s
<1> QED
  BY <1>1, <1>2, OrphanArrivesAgrees, DetailArrivesAgrees, PickArrivesAgrees,
     MutationArrivesAgrees, AdviceArrivesAgrees

(* A storage event is heard.                                                 *)
LEMMA HearingKeepsAgreement ==
  ASSUME TabsInv, NEW t \in Tab, HearStorage(t) PROVE TabsInv'
<1>1. notice' \in [Tab -> BOOLEAN] /\ \A u \in Tab \ {t} : notice'[u] = notice[u]
  BY DEF HearStorage, TabsInv
<1>2. /\ DOMAIN Agree(tab[t], stored) = Fields
      /\ Agree(tab[t], stored).current = stored /\ ~Agree(tab[t], stored).adrift
  BY AgreeSelects DEF TabsInv, Shaped
<1>3. Update(t, Agree(tab[t], stored)) /\ UNCHANGED stored
  BY DEF HearStorage
<1> QED
  BY <1>1, <1>2, <1>3, ReadingStep

-----------------------------------------------------------------------------
LEMMA AgreementStep == TabsInv /\ [Next]_vars => TabsInv'
<1> SUFFICES ASSUME TabsInv, [Next]_vars PROVE TabsInv'
  OBVIOUS
<1>1. CASE UNCHANGED vars
  BY <1>1 DEF vars, TabsInv, Shaped, TabsAgree
<1>2. ASSUME NEW t \in Tab, Network(t) PROVE TabsInv'
  BY <1>2, ServeKeepsAgreement, DeliverKeepsAgreement DEF Network
<1>3. ASSUME NEW t \in Tab, HearStorage(t) PROVE TabsInv'
  BY <1>3, HearingKeepsAgreement
<1>4. ASSUME NEW t \in Tab, User(t) PROVE TabsInv'
  BY <1>4, UserKeepsAgreement
<1> QED
  BY <1>1, <1>2, <1>3, <1>4 DEF Next

(* Whatever the network does with the calls of any number of tabs, a tab     *)
(* with no storage event pending has the account of localStorage selected,   *)
(* unless a call of a page left behind wrote it (useCurrentAccount.ts).      *)
THEOREM SelectionIsShared == Spec => []TabsAgree
<1>1. Init => TabsInv
  BY InitAgrees
<1>2. TabsInv /\ [Next]_vars => TabsInv'
  BY AgreementStep
<1>3. TabsInv => TabsAgree
  BY DEF TabsInv
<1> QED
  BY <1>1, <1>2, <1>3, PTL DEF Spec

-----------------------------------------------------------------------------
(* Lemmas on the calls of one page.                                          *)
-----------------------------------------------------------------------------
LEMMA OwnIsSubset == ASSUME NEW s \in PageType PROVE Own(s) \subseteq 1..Len(s.calls)
BY DEF Own, PageType

(* A call is added at the end.                                               *)
LEMMA OwnAppend ==
  ASSUME NEW s \in PageType, NEW c \in CallType, NEW r, r.calls = Append(s.calls, c)
  PROVE  /\ Append(s.calls, c) \in Seq(CallType)
         /\ Len(r.calls) = Len(s.calls) + 1
         /\ ~c.orphan => Own(r) = Own(s) \cup {Len(s.calls) + 1}
         /\ c.orphan => Own(r) = Own(s)
         /\ r.calls[Len(s.calls) + 1] = c
<1>1. s.calls \in Seq(CallType) /\ Len(s.calls) \in Nat
  BY DEF PageType
<1>2. /\ Append(s.calls, c) \in Seq(CallType)
      /\ Len(Append(s.calls, c)) = Len(s.calls) + 1
      /\ DOMAIN Append(s.calls, c) = 1..(Len(s.calls) + 1)
      /\ \A i \in 1..Len(s.calls) : Append(s.calls, c)[i] = s.calls[i]
      /\ Append(s.calls, c)[Len(s.calls) + 1] = c
  BY <1>1
<1>3. DOMAIN s.calls = 1..Len(s.calls)
  BY <1>1
<1>4. 1..(Len(s.calls) + 1) = (1..Len(s.calls)) \cup {Len(s.calls) + 1}
  BY <1>1
<1>5. /\ ~c.orphan => Own(r) = Own(s) \cup {Len(s.calls) + 1}
      /\ c.orphan => Own(r) = Own(s)
  BY <1>2, <1>3, <1>4 DEF Own
<1> QED
  BY <1>2, <1>3, <1>5 DEF Own

LEMMA OldCallsStay ==
  ASSUME NEW s \in PageType, NEW c \in CallType, NEW r, r.calls = Append(s.calls, c),
         NEW i \in Own(s)
  PROVE  r.calls[i] = s.calls[i]
<1>1. s.calls \in Seq(CallType) /\ i \in 1..Len(s.calls)
  BY OwnIsSubset DEF PageType
<1> QED
  BY <1>1

LEMMA RemoveAtShape ==
  ASSUME NEW S, NEW q \in Seq(S), NEW i \in 1..Len(q)
  PROVE  /\ RemoveAt(q, i) \in Seq(S)
         /\ Len(RemoveAt(q, i)) = Len(q) - 1
         /\ \A j \in 1..(Len(q) - 1) :
              RemoveAt(q, i)[j] = q[IF j < i THEN j ELSE j + 1]
<1> DEFINE n == Len(q)
           a == SubSeq(q, 1, i - 1)
           b == SubSeq(q, i + 1, n)
<1>0. n \in Nat /\ i \in Int /\ 1 <= i /\ i <= n
  OBVIOUS
<1>1. a \in Seq(S) /\ Len(a) = i - 1 /\ \A j \in 1..(i - 1) : a[j] = q[j]
  BY <1>0
<1>2. b \in Seq(S) /\ Len(b) = n - i /\ \A j \in 1..(n - i) : b[j] = q[i + j]
  BY <1>0
<1>3. RemoveAt(q, i) = a \o b
  BY DEF RemoveAt
<1> HIDE DEF a, b, n
<1>4. /\ a \o b \in Seq(S) /\ Len(a \o b) = Len(a) + Len(b)
      /\ \A j \in 1..(Len(a) + Len(b)) :
           (a \o b)[j] = IF j <= Len(a) THEN a[j] ELSE b[j - Len(a)]
  BY <1>1, <1>2, ConcatProperties
<1>5. Len(RemoveAt(q, i)) = n - 1
  BY <1>0, <1>1, <1>2, <1>3, <1>4
<1>6. ASSUME NEW j \in 1..(n - 1)
      PROVE  RemoveAt(q, i)[j] = q[IF j < i THEN j ELSE j + 1]
  <2>1. RemoveAt(q, i)[j] = IF j <= i - 1 THEN a[j] ELSE b[j - (i - 1)]
    BY <1>0, <1>1, <1>2, <1>3, <1>4
  <2>2. CASE j < i
    BY <1>0, <1>1, <2>1, <2>2
  <2>3. CASE ~(j < i)
    <3>1. j - (i - 1) \in 1..(n - i) /\ i + (j - (i - 1)) = j + 1
      BY <1>0, <2>3
    <3>2. b[j - (i - 1)] = q[j + 1]
      BY <1>2, <3>1
    <3> QED
      BY <1>0, <2>1, <2>3, <3>2
  <2> QED
    BY <2>2, <2>3
<1> QED
  BY <1>3, <1>4, <1>5, <1>6 DEF n

(* A call is answered: the others move up.                                   *)
LEMMA OwnRemove ==
  ASSUME NEW s \in PageType, NEW i \in DOMAIN s.calls, NEW r, r.calls = RemoveAt(s.calls, i)
  PROVE  /\ r.calls \in Seq(CallType)
         /\ Len(r.calls) = Len(s.calls) - 1
         /\ \A j \in Own(r) : \E k \in Own(s) \ {i} :
              k = (IF j < i THEN j ELSE j + 1) /\ r.calls[j] = s.calls[k]
         /\ \A k \in Own(s) \ {i} : \E j \in Own(r) : r.calls[j] = s.calls[k]
<1> DEFINE q == s.calls  n == Len(q)
<1>1. q \in Seq(CallType) /\ n \in Nat /\ DOMAIN q = 1..n /\ i \in 1..n
  BY DEF PageType
<1>5. r.calls \in Seq(CallType) /\ Len(r.calls) = n - 1
  BY <1>1, RemoveAtShape
<1>9. DOMAIN r.calls = 1..(n - 1)
  BY <1>5
<1>6. ASSUME NEW j \in 1..(n - 1)
      PROVE  r.calls[j] = q[IF j < i THEN j ELSE j + 1]
  BY <1>1, <1>6, RemoveAtShape
<1> HIDE DEF n
<1>7. ASSUME NEW j \in Own(r)
      PROVE  \E k \in Own(s) \ {i} : k = (IF j < i THEN j ELSE j + 1) /\ r.calls[j] = s.calls[k]
  <2>1. j \in 1..(n - 1) /\ ~r.calls[j].orphan
    BY <1>9 DEF Own
  <2> DEFINE k == IF j < i THEN j ELSE j + 1
  <2>2. k \in 1..n /\ k # i
    BY <1>1, <2>1
  <2>3. r.calls[j] = q[k]
    BY <1>6, <2>1
  <2> QED
    BY <1>1, <2>1, <2>2, <2>3 DEF Own
<1>8. ASSUME NEW k \in Own(s) \ {i} PROVE \E j \in Own(r) : r.calls[j] = s.calls[k]
  <2>1. k \in 1..n /\ k # i /\ ~q[k].orphan
    BY <1>1 DEF Own
  <2> DEFINE j == IF k < i THEN k ELSE k - 1
  <2>2. j \in 1..(n - 1) /\ k = (IF j < i THEN j ELSE j + 1)
    BY <1>1, <2>1
  <2>3. r.calls[j] = q[k]
    BY <1>6, <2>2
  <2> QED
    BY <1>9, <2>1, <2>2, <2>3 DEF Own
<1> QED
  BY <1>5, <1>7, <1>8 DEF n

(* While there is room no tab is at its bound.                               *)
LEMMA RoomBounds ==
  ASSUME NEW t \in Tab, tab[t] \in PageType, Room
  PROVE  Len(tab[t].calls) < MaxCalls
<1>1. SUFFICES ASSUME MaxCalls <= Len(tab[t].calls) PROVE FALSE
  BY BrowserAssumption DEF PageType
<1>2. IsFiniteSet(1..MaxCalls) /\ Cardinality(1..MaxCalls) = MaxCalls
  BY FS_Interval, BrowserAssumption
<1>3. IsFiniteSet(Tab \X (1..MaxCalls))
  BY <1>2, FS_Product, BrowserAssumption
<1>4. IsFiniteSet(InFlight) /\ InFlight \in SUBSET (Tab \X (1..MaxCalls))
  BY <1>3, FS_Subset DEF InFlight
<1> DEFINE f == [j \in 1..MaxCalls |-> <<t, j>>]
<1>5. \A j \in 1..MaxCalls : <<t, j>> \in InFlight
  BY <1>1, BrowserAssumption DEF InFlight, PageType
<1>6. f \in Injection(1..MaxCalls, InFlight)
  BY <1>5 DEF Injection, IsInjective
<1>7. MaxCalls <= Cardinality(InFlight)
  BY <1>2, <1>4, <1>6, FS_Injection
<1>8. Cardinality(InFlight) \in Nat
  BY <1>4, FS_CardinalityType
<1> QED
  BY <1>7, <1>8, BrowserAssumption DEF Room
-----------------------------------------------------------------------------
(* What one step makes of a page.                                            *)
-----------------------------------------------------------------------------
Pages(s) == s \in PageType /\ PageSound(s)

(* Advice for another account appears only with an answer.                   *)
Clears(s, r) ==
  OthersAdvice(r) /\ ~OthersAdvice(s) => r.current = s.current /\ r.calls # s.calls

(* The page, the selection and the result are left alone.                    *)
Steady(s, r) == r.page = s.page /\ r.current = s.current /\ r.result = s.result

Grows(s, r) == Len(r.calls) \in {Len(s.calls), Len(s.calls) + 1}

LEMMA SteadyClears ==
  /\ \A s, r : Steady(s, r) => Clears(s, r)
  /\ \A s, r : r.result = Null \/ r.page # "gear" => Clears(s, r)
BY DEF Steady, Clears, OthersAdvice, AdviceShown

LEMMA NullIsNoAccount == Null \notin Account /\ Null \notin Input
BY BrowserAssumption

LEMMA CallIsTyped ==
  /\ \A a \in Account : /\ Call("detail", a, Null) \in CallType
                          /\ Call("verify", a, Null) \in CallType
                          /\ Call("mutate", a, Null) \in CallType
  /\ Call("create", Null, Null) \in CallType
  /\ \A a \in Account, x \in Input : Call("advise", a, x) \in CallType
  /\ \A k, a, x : /\ Call(k, a, x).kind = k /\ Call(k, a, x).account = a
                  /\ Call(k, a, x).input = x /\ Call(k, a, x).status = "asked"
                  /\ ~Call(k, a, x).old /\ ~Call(k, a, x).orphan
BY NullIsNoAccount DEF Call, CallType, CallRecord

(* A page that waits for nothing.                                            *)
LEMMA SettledPage ==
  ASSUME NEW r \in PageType, r.page = "account", AdvisorSound(r), ~r.loading,
         ~r.disturbed => Own(r) = {} /\ UpToDate(r)
  PROVE  PageSound(r)
BY DEF PageSound, LoadingSound, PatienceSound

LEMMA AskIsSound ==
  ASSUME NEW s, Pages(s), s.page = "account", NEW c \in CallType, ~c.orphan,
         c.kind # "advise", ~s.disturbed /\ Own(s) = {} => Awaits(s, c)
  PROVE  Pages(Ask(s, c)) /\ Steady(s, Ask(s, c)) /\ Grows(s, Ask(s, c))
<1> DEFINE r == Ask(s, c)
<1>0. s \in PageType /\ PageSound(s)
  BY DEF Pages
<1>1. r = [s EXCEPT !.calls = Append(s.calls, c), !.disturbed = s.disturbed \/ Own(s) # {}]
  BY DEF Ask
<1>2. r.calls = Append(s.calls, c)
  BY <1>0, <1>1 DEF PageType
<1> DEFINE n == Len(s.calls) + 1
<1>n. /\ Append(s.calls, c) \in Seq(CallType) /\ Len(r.calls) = n
      /\ ~c.orphan => Own(r) = Own(s) \cup {n}
      /\ r.calls[n] = c /\ \A i \in Own(s) : r.calls[i] = s.calls[i]
  <2> HIDE DEF r, n
  <2>0. s \in PageType /\ r.calls = Append(s.calls, c) /\ n = Len(s.calls) + 1
    BY <1>0, <1>2 DEF n
  <2>1. Append(s.calls, c) \in Seq(CallType) /\ Len(r.calls) = n
    BY <2>0, OwnAppend
  <2>2. ~c.orphan => Own(r) = Own(s) \cup {n}
    BY <2>0, OwnAppend
  <2>3. r.calls[n] = c
    BY <2>0, OwnAppend
  <2>4. ASSUME NEW i \in Own(s) PROVE r.calls[i] = s.calls[i]
    BY <2>0, OldCallsStay
  <2> QED
    BY <2>1, <2>2, <2>3, <2>4
<1>3. /\ Append(s.calls, c) \in Seq(CallType) /\ Len(r.calls) = n
      /\ Own(r) = Own(s) \cup {n} /\ r.calls[n] = c
      /\ \A i \in Own(s) : r.calls[i] = s.calls[i]
  BY <1>n
<1>4. r \in PageType
  BY <1>0, <1>1, <1>3 DEF PageType
<1>5. /\ r.page = "account" /\ r.current = s.current /\ r.shown = s.shown
      /\ r.result = s.result /\ r.loading = s.loading
  BY <1>0, <1>1 DEF PageType
<1>6. ~r.disturbed => ~s.disturbed /\ Own(s) = {}
  BY <1>0, <1>1 DEF PageType
<1> HIDE DEF r
<1>7. LoadingSound(r)
  BY <1>0, <1>3, <1>5 DEF PageSound, LoadingSound
<1>8. AdvisorSound(r)
  BY <1>0, <1>3, <1>5 DEF PageSound, AdvisorSound
<1>9. PatienceSound(r)
  <2> SUFFICES ASSUME ~r.disturbed PROVE Own(r) = {n} /\ Awaits(r, c)
    BY <1>3 DEF PatienceSound
  <2> QED
    BY <1>3, <1>5, <1>6 DEF Awaits
<1>10. Steady(s, r) /\ Grows(s, r)
  BY <1>3, <1>5 DEF Steady, Grows
<1> QED
  BY <1>4, <1>7, <1>8, <1>9, <1>10 DEF Pages, PageSound, r

LEMMA RefreshIsSound ==
  ASSUME NEW s \in PageType, s.page = "account", AdvisorSound(s), NEW a \in Account,
         ~s.disturbed /\ Own(s) = {} => a = s.current
  PROVE  Pages(Refresh(s, a)) /\ Steady(s, Refresh(s, a)) /\ Grows(s, Refresh(s, a))
<1> DEFINE r == Refresh(s, a)
           c == Call("detail", a, Null)
<1>1. r = [s EXCEPT !.calls = Append(s.calls, c), !.disturbed = s.disturbed \/ Own(s) # {},
                    !.loading = TRUE]
  BY DEF Refresh, Ask, PageType
<1>2. r.calls = Append(s.calls, c)
  BY <1>1 DEF PageType
<1>c. c \in CallType /\ ~c.orphan /\ c.kind = "detail" /\ c.account = a /\ ~c.old
  BY CallIsTyped
<1> HIDE DEF c
<1> DEFINE n == Len(s.calls) + 1
<1>n. /\ Append(s.calls, c) \in Seq(CallType) /\ Len(r.calls) = n
      /\ ~c.orphan => Own(r) = Own(s) \cup {n}
      /\ r.calls[n] = c /\ \A i \in Own(s) : r.calls[i] = s.calls[i]
  <2> HIDE DEF r, n
  <2>0. /\ s \in PageType /\ c \in CallType /\ n = Len(s.calls) + 1
        /\ r.calls = Append(s.calls, c)
    BY <1>2, <1>c DEF n
  <2>1. Append(s.calls, c) \in Seq(CallType) /\ Len(r.calls) = n
    BY <2>0, OwnAppend
  <2>2. ~c.orphan => Own(r) = Own(s) \cup {n}
    BY <2>0, OwnAppend
  <2>3. r.calls[n] = c
    BY <2>0, OwnAppend
  <2>4. ASSUME NEW i \in Own(s) PROVE r.calls[i] = s.calls[i]
    BY <2>0, OldCallsStay
  <2> QED
    BY <2>1, <2>2, <2>3, <2>4
<1>3. /\ Append(s.calls, c) \in Seq(CallType) /\ Len(r.calls) = n
      /\ Own(r) = Own(s) \cup {n} /\ r.calls[n] = c
      /\ \A i \in Own(s) : r.calls[i] = s.calls[i]
  BY <1>n, <1>c
<1>4. r \in PageType
  BY <1>1, <1>3 DEF PageType
<1>5. r.page = "account" /\ r.current = s.current /\ r.result = s.result
  BY <1>1 DEF PageType
<1>6. ~r.disturbed => ~s.disturbed /\ Own(s) = {}
  BY <1>1 DEF PageType
<1> HIDE DEF r
<1>7. LoadingSound(r)
  BY <1>3, <1>c DEF LoadingSound
<1>8. AdvisorSound(r)
  BY <1>3, <1>5, <1>c DEF AdvisorSound
<1>9. PatienceSound(r)
  <2> SUFFICES ASSUME ~r.disturbed PROVE Own(r) = {n} /\ Awaits(r, c)
    BY <1>3 DEF PatienceSound
  <2> QED
    BY <1>3, <1>5, <1>6, <1>c DEF Awaits
<1>10. Steady(s, r) /\ Grows(s, r)
  BY <1>3, <1>5 DEF Steady, Grows
<1> QED
  BY <1>4, <1>7, <1>8, <1>9, <1>10 DEF Pages, PageSound, r

LEMMA EffectIsSound ==
  ASSUME NEW s \in PageType, s.page = "account", AdvisorSound(s),
         ~s.disturbed => Own(s) = {}
  PROVE  LET r == AccountEffect(s) IN
         /\ Pages(r) /\ Grows(s, r) /\ r.current = s.current /\ r.page = "account"
<1>1. CASE s.current = Null
  <2> DEFINE r == [s EXCEPT !.shown = Null, !.loading = FALSE]
  <2>1. AccountEffect(s) = r
    BY <1>1 DEF AccountEffect
  <2>2. /\ r \in PageType /\ r.page = "account" /\ r.current = Null /\ r.shown = Null
        /\ ~r.loading /\ r.calls = s.calls /\ r.disturbed = s.disturbed /\ r.result = s.result
    BY <1>1 DEF PageType
  <2> HIDE DEF r
  <2>3. Own(r) = Own(s)
    BY <2>2 DEF Own
  <2>4. AdvisorSound(r)
    BY <2>2, <2>3 DEF AdvisorSound
  <2>5. ~r.disturbed => Own(r) = {} /\ UpToDate(r)
    BY <2>2, <2>3 DEF UpToDate
  <2> QED
    BY <1>1, <2>1, <2>2, <2>4, <2>5, SettledPage DEF Pages, Grows
<1>2. CASE s.current # Null
  <2>1. s.current \in Account
    BY <1>2 DEF PageType
  <2> QED
    BY <1>2, <2>1, RefreshIsSound DEF AccountEffect, Steady
<1> QED
  BY <1>1, <1>2
LEMMA SelectIsSound ==
  ASSUME NEW s, Pages(s), NEW a \in Account \cup {Null}
  PROVE  LET r == Select(s, a) IN
         /\ Pages(r) /\ Grows(s, r) /\ r.page = s.page
         /\ Steady(s, r) \/ r.page # "gear" \/ r.result = Null
<1>0. s \in PageType /\ PageSound(s)
  BY DEF Pages
<1>1. CASE a = s.current
  BY <1>0, <1>1 DEF Select, Steady, Grows, Pages
<1>2. CASE a # s.current /\ s.page = "account"
  <2> DEFINE x == s.disturbed \/ Own(s) # {}
             q == [s EXCEPT !.current = a, !.disturbed = x]
  <2>1. Select(s, a) = AccountEffect(q)
    BY <1>2 DEF Select
  <2>2. x \in BOOLEAN
    OBVIOUS
  <2>3. /\ q \in PageType /\ q.page = "account" /\ q.calls = s.calls /\ q.disturbed = x
        /\ q.result = s.result
    BY <1>0, <1>2, <2>2 DEF PageType
  <2> HIDE DEF q
  <2>4. Own(q) = Own(s)
    BY <2>3 DEF Own
  <2>5. AdvisorSound(q)
    BY <1>0, <1>2, <2>3, <2>4 DEF PageSound, AdvisorSound
  <2>6. ~q.disturbed => Own(q) = {}
    BY <2>3, <2>4
  <2>7. LET r == AccountEffect(q) IN Pages(r) /\ Grows(q, r) /\ r.page = "account"
    BY <2>3, <2>5, <2>6, EffectIsSound
  <2> QED
    BY <1>2, <2>1, <2>3, <2>7 DEF Grows
<1>3. CASE a # s.current /\ s.page # "account"
  <2> DEFINE q == [s EXCEPT !.current = a]
             r == ClearAdvice(q)
  <2>1. Select(s, a) = r
    BY <1>3 DEF Select
  <2>2. /\ q \in PageType /\ q.page = s.page /\ q.calls = s.calls /\ q.input = s.input
        /\ q.loading = s.loading /\ q.result = s.result
    BY <1>0 DEF PageType
  <2>3. /\ r \in PageType /\ r.page = s.page /\ r.calls = s.calls /\ r.input = s.input
        /\ r.loading = s.loading
        /\ r.page = "gear" => r.result = Null
    BY <2>2 DEF PageType, ClearAdvice
  <2> HIDE DEF r
  <2>4. Own(r) = Own(s)
    BY <2>3 DEF Own
  <2>5. LoadingSound(r) /\ AdvisorSound(r) /\ PatienceSound(r)
    BY <1>0, <1>3, <2>3, <2>4 DEF PageSound, LoadingSound, AdvisorSound, PatienceSound
  <2> QED
    BY <2>1, <2>3, <2>5 DEF Pages, PageSound, Grows
<1> QED
  BY <1>1, <1>2, <1>3

LEMMA AgreeIsSound ==
  ASSUME NEW s, Pages(s), NEW a \in Account \cup {Null}
  PROVE  LET r == Agree(s, a) IN
         /\ Pages(r) /\ Grows(s, r) /\ r.page = s.page
         /\ Steady(s, r) \/ r.page # "gear" \/ r.result = Null
<1> DEFINE q == Select(s, a)
           r == [q EXCEPT !.adrift = FALSE]
<1>1. /\ q \in PageType /\ PageSound(q) /\ Grows(s, q) /\ q.page = s.page
      /\ Steady(s, q) \/ q.page # "gear" \/ q.result = Null
  BY SelectIsSound DEF Pages
<1>2. Agree(s, a) = r
  BY DEF Agree
<1> HIDE DEF q
<1>3. r \in PageType
  BY <1>1 DEF PageType
<1>4. /\ r.page = q.page /\ r.calls = q.calls /\ r.input = q.input /\ r.loading = q.loading
      /\ r.result = q.result /\ r.current = q.current /\ r.shown = q.shown
      /\ r.disturbed = q.disturbed
  BY <1>1 DEF PageType
<1> HIDE DEF r
<1>5. Own(r) = Own(q)
  BY <1>4 DEF Own
<1>6. LoadingSound(r) /\ AdvisorSound(r)
  BY <1>1, <1>4, <1>5 DEF PageSound, LoadingSound, AdvisorSound
<1>7. PatienceSound(r)
  BY <1>1, <1>4, <1>5 DEF PageSound, PatienceSound, UpToDate, Awaits
<1> QED
  BY <1>1, <1>2, <1>3, <1>4, <1>6, <1>7 DEF Pages, PageSound, Grows, Steady

(* A page that is opened: the calls of the one before are orphans.           *)
LEMMA OpenIsSound ==
  ASSUME NEW p \in Page, NEW q \in Seq(CallType), \A i \in DOMAIN q : q[i].orphan,
         stored \in Account \cup {Null}
  PROVE  LET r == Open(p, q) IN
         /\ Pages(r) /\ Len(r.calls) \in {Len(q), Len(q) + 1} /\ r.page = p
         /\ r.result = Null \/ r.page # "gear"
<1> DEFINE x == CHOOSE y \in Input : TRUE
           s == [page |-> p, current |-> stored, shown |-> Null, result |-> Null,
                 input |-> x, loading |-> FALSE,
                 calls |-> q, disturbed |-> FALSE, adrift |-> FALSE]
<1>0. x \in Input
  BY BrowserAssumption
<1> HIDE DEF x
<1>1. /\ s \in PageType /\ s.page = p /\ s.result = Null /\ s.calls = q /\ ~s.loading
  BY <1>0 DEF PageType
<1>2. Own(s) = {}
  BY <1>1 DEF Own
<1>3. Open(p, q) = IF p = "account" THEN AccountEffect(s) ELSE s
  BY DEF Open, x
<1> HIDE DEF s
<1>4. LoadingSound(s) /\ AdvisorSound(s)
  BY <1>1, <1>2 DEF LoadingSound, AdvisorSound
<1>5. CASE p = "account"
  <2>1. LET r == AccountEffect(s) IN Pages(r) /\ Grows(s, r) /\ r.page = "account"
    BY <1>1, <1>2, <1>4, <1>5, EffectIsSound
  <2> QED
    BY <1>1, <1>3, <1>5, <2>1 DEF Grows
<1>6. CASE p # "account"
  BY <1>1, <1>3, <1>4, <1>6 DEF Pages, PageSound, PatienceSound
<1> QED
  BY <1>5, <1>6

(* The backend answers calls of a page: nothing else of the page is          *)
(* disturbed, unless a mutation of the page itself makes data old.           *)
LEMMA AnsweredIsSound ==
  ASSUME NEW s, Pages(s), NEW r \in PageType,
         r.page = s.page, r.current = s.current, r.result = s.result, r.input = s.input,
         r.loading = s.loading, r.disturbed = s.disturbed, DOMAIN r.calls = DOMAIN s.calls,
         \A j \in DOMAIN s.calls :
           /\ r.calls[j].kind = s.calls[j].kind /\ r.calls[j].input = s.calls[j].input
           /\ r.calls[j].orphan = s.calls[j].orphan
           /\ s.calls[j].kind # "create" => r.calls[j].account = s.calls[j].account,
         \/ r.shown = s.shown /\ \A j \in DOMAIN s.calls : r.calls[j].old = s.calls[j].old
         \/ \E i \in Own(s) : s.calls[i].kind = "mutate"
  PROVE  PageSound(r)
<1>0. PageSound(s)
  BY DEF Pages
<1>1. Own(r) = Own(s) /\ Own(s) \subseteq DOMAIN s.calls
  BY DEF Own
<1>2. LoadingSound(r)
  BY <1>0, <1>1 DEF PageSound, LoadingSound
<1>3. AdvisorSound(r)
  BY <1>0, <1>1 DEF PageSound, AdvisorSound
<1>4. PatienceSound(r)
  <2> SUFFICES ASSUME r.page = "account", ~r.disturbed
               PROVE  /\ Own(r) = {} => UpToDate(r)
                      /\ \A i \in Own(r) : Awaits(r, r.calls[i]) /\ \A j \in Own(r) : j = i
    BY DEF PatienceSound
  <2>1. /\ Own(s) = {} => UpToDate(s)
        /\ \A i \in Own(s) : Awaits(s, s.calls[i]) /\ \A j \in Own(s) : j = i
    BY <1>0 DEF PageSound, PatienceSound
  <2>2. CASE r.shown = s.shown /\ \A j \in DOMAIN s.calls : r.calls[j].old = s.calls[j].old
    BY <1>1, <2>1, <2>2 DEF UpToDate, Awaits
  <2>3. CASE \E i \in Own(s) : s.calls[i].kind = "mutate"
    BY <1>1, <2>1, <2>3 DEF Awaits
  <2> QED
    BY <2>2, <2>3
<1> QED
  BY <1>2, <1>3, <1>4 DEF PageSound
-----------------------------------------------------------------------------
(* A page without the call that is answered.                                 *)
-----------------------------------------------------------------------------
Without(p, i) == [p EXCEPT !.calls = RemoveAt(@, i)]

LEMMA WithoutShape ==
  ASSUME NEW p, Pages(p), NEW i \in DOMAIN p.calls
  PROVE  LET s == Without(p, i) IN
         /\ s \in PageType /\ Len(s.calls) = Len(p.calls) - 1
         /\ Len(p.calls) \in Nat /\ p.calls[i] \in CallType
         /\ s.page = p.page /\ s.current = p.current /\ s.shown = p.shown
         /\ s.result = p.result /\ s.input = p.input /\ s.loading = p.loading
         /\ s.disturbed = p.disturbed /\ s.adrift = p.adrift
         /\ s.calls = RemoveAt(p.calls, i)
<1> DEFINE s == Without(p, i)
<1>0. p \in PageType
  BY DEF Pages
<1>1. s = [p EXCEPT !.calls = RemoveAt(p.calls, i)]
  BY DEF Without
<1>2. p.calls \in Seq(CallType) /\ i \in 1..Len(p.calls) /\ Len(p.calls) \in Nat
  BY <1>0 DEF PageType
<1>3. RemoveAt(p.calls, i) \in Seq(CallType) /\ Len(RemoveAt(p.calls, i)) = Len(p.calls) - 1
  BY <1>2, RemoveAtShape
<1> HIDE DEF s
<1>4. s \in PageType
  BY <1>0, <1>1, <1>3 DEF PageType
<1>5. /\ s.page = p.page /\ s.current = p.current /\ s.shown = p.shown
      /\ s.result = p.result /\ s.input = p.input /\ s.loading = p.loading
      /\ s.disturbed = p.disturbed /\ s.adrift = p.adrift
      /\ s.calls = RemoveAt(p.calls, i)
  BY <1>0, <1>1 DEF PageType
<1>6. p.calls[i] \in CallType
  BY <1>2
<1> QED
  BY <1>2, <1>3, <1>4, <1>5, <1>6 DEF s

(* Only the page itself is sound in every way; what is left of it is sound   *)
(* up to what the answer is about to settle.                                 *)
LEMMA WithoutIsSound ==
  ASSUME NEW p, Pages(p), NEW i \in DOMAIN p.calls
  PROVE  LET s == Without(p, i)  c == p.calls[i] IN
         /\ AdvisorSound(s)
         /\ c.orphan \/ c.kind \notin {"detail", "advise"} => LoadingSound(s)
         /\ c.orphan => PatienceSound(s)
         /\ ~c.orphan /\ s.page = "account" /\ ~s.disturbed => Own(s) = {} /\ Awaits(s, c)
         /\ ~c.orphan /\ s.page # "account" => Own(s) = {}
         /\ ~c.orphan => (c.kind = "advise" <=> s.page # "account")
         /\ ~c.orphan /\ s.page = "gear" => c.input = s.input
<1> DEFINE s == Without(p, i)
           c == p.calls[i]
<1>0. p \in PageType /\ LoadingSound(p) /\ AdvisorSound(p) /\ PatienceSound(p)
  BY DEF Pages, PageSound
<1>1. /\ s.page = p.page /\ s.current = p.current /\ s.shown = p.shown
      /\ s.result = p.result /\ s.input = p.input /\ s.loading = p.loading
      /\ s.disturbed = p.disturbed /\ s.calls = RemoveAt(p.calls, i)
  BY WithoutShape
<1> HIDE DEF s, c
<1>2. ASSUME NEW j \in Own(s)
      PROVE  \E k \in Own(p) \ {i} : k = (IF j < i THEN j ELSE j + 1) /\ s.calls[j] = p.calls[k]
  BY <1>0, <1>1, <1>2, OwnRemove
<1>3. ASSUME NEW k \in Own(p) \ {i} PROVE \E j \in Own(s) : s.calls[j] = p.calls[k]
  BY <1>0, <1>1, <1>3, OwnRemove
<1>4. i \in Own(p) <=> ~c.orphan
  BY DEF Own, c
<1>5. Own(s) \subseteq Nat /\ i \in Nat
  <2>1. s \in PageType
    BY WithoutShape DEF s
  <2>2. Len(s.calls) \in Nat /\ i \in Nat
    BY <1>0, <2>1 DEF PageType
  <2> QED
    BY <2>1, <2>2, OwnIsSubset
(* Two calls that are left were two calls. *)
<1>6. ASSUME NEW j \in Own(s), NEW l \in Own(s), \A k, m \in Own(p) \ {i} : k = m
      PROVE  j = l
  <2>1. PICK k \in Own(p) \ {i} : k = (IF j < i THEN j ELSE j + 1)
    BY <1>2
  <2>2. PICK m \in Own(p) \ {i} : m = (IF l < i THEN l ELSE l + 1)
    BY <1>2
  <2>3. k = m /\ k # i /\ m # i
    BY <1>6
  <2> QED
    BY <1>5, <2>1, <2>2, <2>3
<1>7. AdvisorSound(s)
  <2>1. s.page = "account" => \A j \in Own(s) : s.calls[j].kind # "advise"
    BY <1>0, <1>1, <1>2 DEF AdvisorSound
  <2>2. ASSUME s.page # "account", NEW j \in Own(s)
        PROVE  /\ s.calls[j].kind = "advise" /\ s.loading
               /\ s.page = "gear" => s.calls[j].input = s.input
               /\ \A l \in Own(s) : l = j
    <3>1. PICK k \in Own(p) \ {i} : s.calls[j] = p.calls[k]
      BY <1>2
    <3>2. \A k1, k2 \in Own(p) \ {i} : k1 = k2
      BY <1>0, <1>1, <2>2 DEF AdvisorSound
    <3>3. \A l \in Own(s) : l = j
      BY <1>6, <3>2
    <3> QED
      BY <1>0, <1>1, <2>2, <3>1, <3>3 DEF AdvisorSound
  <2>3. s.page = "gear" /\ s.result # Null => s.result.input = s.input
    BY <1>0, <1>1 DEF AdvisorSound
  <2> QED
    BY <2>1, <2>2, <2>3 DEF AdvisorSound
<1>8. c.orphan \/ c.kind \notin {"detail", "advise"} => LoadingSound(s)
  <2> SUFFICES ASSUME c.orphan \/ c.kind \notin {"detail", "advise"}, s.loading
               PROVE  \E j \in Own(s) : s.calls[j].kind \in {"detail", "advise"}
    BY DEF LoadingSound
  <2>1. PICK k \in Own(p) : p.calls[k].kind \in {"detail", "advise"}
    BY <1>0, <1>1 DEF LoadingSound
  <2>2. k # i
    BY <1>4, <2>1 DEF c
  <2> QED
    BY <1>3, <2>1, <2>2
<1>9. c.orphan => PatienceSound(s)
  <2> SUFFICES ASSUME c.orphan, s.page = "account", ~s.disturbed
               PROVE  /\ Own(s) = {} => UpToDate(s)
                      /\ \A j \in Own(s) : Awaits(s, s.calls[j]) /\ \A l \in Own(s) : l = j
    BY DEF PatienceSound
  <2>1. /\ Own(p) = {} => UpToDate(p)
        /\ \A j \in Own(p) : Awaits(p, p.calls[j]) /\ \A l \in Own(p) : l = j
    BY <1>0, <1>1 DEF PatienceSound
  <2>2. Own(s) = {} => Own(p) = {}
    BY <1>3, <1>4
  <2>3. Own(s) = {} => UpToDate(s)
    BY <1>1, <2>1, <2>2 DEF UpToDate
  <2>4. ASSUME NEW j \in Own(s) PROVE Awaits(s, s.calls[j]) /\ \A l \in Own(s) : l = j
    <3>1. PICK k \in Own(p) \ {i} : s.calls[j] = p.calls[k]
      BY <1>2
    <3>2. Awaits(s, s.calls[j])
      BY <1>1, <2>1, <3>1 DEF Awaits
    <3>3. \A l \in Own(s) : l = j
      BY <1>6, <2>1
    <3> QED
      BY <3>2, <3>3
  <2> QED
    BY <2>3, <2>4
<1>10. ~c.orphan /\ s.page = "account" /\ ~s.disturbed => Own(s) = {} /\ Awaits(s, c)
  <2> SUFFICES ASSUME ~c.orphan, s.page = "account", ~s.disturbed
               PROVE  Own(s) = {} /\ Awaits(s, c)
    OBVIOUS
  <2>1. Awaits(p, c) /\ \A l \in Own(p) : l = i
    BY <1>0, <1>1, <1>4 DEF PatienceSound, c
  <2>2. Own(s) = {}
    BY <1>2, <2>1
  <2> QED
    BY <1>1, <2>1, <2>2 DEF Awaits
<1>11. ~c.orphan /\ s.page # "account" => Own(s) = {}
  BY <1>0, <1>1, <1>2, <1>4 DEF AdvisorSound
<1>12. ~c.orphan => (c.kind = "advise" <=> s.page # "account")
  BY <1>0, <1>1, <1>4 DEF AdvisorSound, c
<1>13. ~c.orphan /\ s.page = "gear" => c.input = s.input
  BY <1>0, <1>1, <1>4 DEF AdvisorSound, c
<1> QED
  BY <1>7, <1>8, <1>9, <1>10, <1>11, <1>12, <1>13 DEF s, c
-----------------------------------------------------------------------------
(* The steps of a tab.                                                       *)
-----------------------------------------------------------------------------
Good(t, r) ==
  Pages(r) /\ r.page \in PagesOf[t] /\ Len(r.calls) <= MaxCalls /\ Clears(tab[t], r)

PageStep(t) == \E r : Update(t, r) /\ Good(t, r)

StoreTyped ==
  exists \subseteq Account /\ stored \in Account \cup {Null} /\ notice \in [Tab -> BOOLEAN]

LEMMA PagesFacts ==
  ASSUME IInv, NEW t \in Tab
  PROVE  /\ Pages(tab[t]) /\ tab[t] \in PageType /\ tab[t].page \in PagesOf[t]
         /\ Len(tab[t].calls) \in Nat /\ Len(tab[t].calls) <= MaxCalls
         /\ PagesOf[t] \subseteq Page /\ MaxCalls \in Nat /\ StoreTyped
<1>1. tab[t] \in PageType /\ tab[t].page \in PagesOf[t] /\ Len(tab[t].calls) <= MaxCalls
  BY DEF IInv, TypeOK
<1>2. Len(tab[t].calls) \in Nat
  BY <1>1 DEF PageType
<1>3. PageSound(tab[t]) /\ StoreTyped
  BY DEF IInv, TypeOK, StoreTyped
<1> QED
  BY <1>1, <1>2, <1>3, BrowserAssumption DEF Pages

(* A page with room, or one that has just lost a call, may make a call.      *)
LEMMA GrowingIsGood ==
  ASSUME IInv, NEW t \in Tab, Room, NEW r, Pages(r), Grows(tab[t], r),
         r.page \in PagesOf[t], Clears(tab[t], r)
  PROVE  Good(t, r)
<1>1. Len(tab[t].calls) < MaxCalls
  BY PagesFacts, RoomBounds
<1> QED
  BY <1>1, PagesFacts DEF Good, Grows

LEMMA AskingStep ==
  ASSUME IInv, NEW t \in Tab, Room, NEW c \in CallType, ~c.orphan, c.kind # "advise",
         tab[t].page = "account",
         ~tab[t].disturbed /\ Own(tab[t]) = {} => Awaits(tab[t], c),
         Update(t, Ask(tab[t], c))
  PROVE  PageStep(t)
<1> DEFINE r == Ask(tab[t], c)
<1>1. Pages(r) /\ Steady(tab[t], r) /\ Grows(tab[t], r)
  BY PagesFacts, AskIsSound
<1> HIDE DEF r
<1>2. r.page \in PagesOf[t] /\ Clears(tab[t], r)
  BY <1>1, PagesFacts, SteadyClears DEF Steady
<1>3. Good(t, r)
  BY <1>1, <1>2, GrowingIsGood
<1> QED
  BY <1>3 DEF PageStep, r

LEMMA PickingStep == ASSUME IInv, NEW t \in Tab, PickAccount(t) PROVE PageStep(t)
<1>0. /\ tab[t].page = "account" /\ Room
      /\ tab[t].current = Null \/ tab[t].shown = Null
  BY DEF PickAccount, ShowsPicker
<1>1. ~tab[t].disturbed /\ Own(tab[t]) = {} => tab[t].current = Null /\ tab[t].shown = Null
  BY <1>0 DEF IInv, PageSound, PatienceSound, UpToDate
<1>2. CASE \E a \in Account : Update(t, Ask(tab[t], Call("verify", a, Null)))
  <2>1. PICK a \in Account : Update(t, Ask(tab[t], Call("verify", a, Null)))
    BY <1>2
  <2> DEFINE c == Call("verify", a, Null)
  <2>2. c \in CallType /\ ~c.orphan /\ c.kind = "verify"
    BY CallIsTyped
  <2>3. Update(t, Ask(tab[t], c))
    BY <2>1
  <2> HIDE DEF c
  <2>4. ~tab[t].disturbed /\ Own(tab[t]) = {} => Awaits(tab[t], c)
    BY <1>1, <2>2 DEF Awaits
  <2> QED
    BY <1>0, <2>2, <2>3, <2>4, AskingStep
<1>3. CASE Update(t, Ask(tab[t], Call("create", Null, Null)))
  <2> DEFINE c == Call("create", Null, Null)
  <2>2. c \in CallType /\ ~c.orphan /\ c.kind = "create"
    BY CallIsTyped
  <2>3. Update(t, Ask(tab[t], c))
    BY <1>3
  <2> HIDE DEF c
  <2>4. ~tab[t].disturbed /\ Own(tab[t]) = {} => Awaits(tab[t], c)
    BY <1>1, <2>2 DEF Awaits
  <2> QED
    BY <1>0, <2>2, <2>3, <2>4, AskingStep
<1> QED
  BY <1>2, <1>3 DEF PickAccount

LEMMA MutatingStep == ASSUME IInv, NEW t \in Tab, Mutate(t) PROVE PageStep(t)
<1> DEFINE a == tab[t].shown.account
           c == Call("mutate", a, Null)
<1>0. /\ tab[t].page = "account" /\ tab[t].shown # Null /\ Room /\ Update(t, Ask(tab[t], c))
  BY DEF Mutate, ShowsAccount
<1>1. a \in Account
  <2>1. tab[t].shown \in [account : Account, old : BOOLEAN]
    BY <1>0, PagesFacts DEF PageType
  <2> QED
    BY <2>1
<1>2. c \in CallType /\ ~c.orphan /\ c.kind = "mutate" /\ c.account = a
  BY <1>1, CallIsTyped
<1> HIDE DEF c
<1>3. ~tab[t].disturbed /\ Own(tab[t]) = {} => Awaits(tab[t], c)
  BY <1>0, <1>2 DEF IInv, PageSound, PatienceSound, UpToDate, Awaits
<1> QED
  BY <1>0, <1>2, <1>3, AskingStep

LEMMA AgreeingStep ==
  ASSUME IInv, NEW t \in Tab, NEW a \in Account \cup {Null}, Update(t, Agree(tab[t], a)),
         Room \/ a = Null
  PROVE  PageStep(t)
<1> DEFINE r == Agree(tab[t], a)
<1>1. /\ Pages(r) /\ Grows(tab[t], r) /\ r.page = tab[t].page
      /\ Steady(tab[t], r) \/ r.page # "gear" \/ r.result = Null
  BY PagesFacts, AgreeIsSound
<1>2. CASE Room
  BY <1>1, <1>2, PagesFacts, SteadyClears, GrowingIsGood DEF PageStep
<1>3. CASE a = Null
  <2>1. r.calls = tab[t].calls
    BY <1>3, PagesFacts DEF Agree, Select, AccountEffect, ClearAdvice, PageType
  <2> QED
    BY <1>1, <2>1, PagesFacts, SteadyClears DEF PageStep, Good
<1> QED
  BY <1>2, <1>3

LEMMA AdvisingStep == ASSUME IInv, NEW t \in Tab, Advise(t) PROVE PageStep(t)
<1> DEFINE s == tab[t]
           c == Call("advise", s.current, s.input)
           r == [s EXCEPT !.calls = Append(@, c), !.loading = TRUE, !.result = Null]
<1>0. /\ s.page # "account" /\ s.current # Null /\ ~s.loading /\ Room /\ Update(t, r)
  BY DEF Advise, OnAdvisor
<1>1. s \in PageType /\ PageSound(s) /\ s.page \in PagesOf[t]
  BY PagesFacts DEF Pages
<1>2. s.current \in Account /\ s.input \in Input
  BY <1>0, <1>1 DEF PageType
<1>3. c \in CallType /\ ~c.orphan /\ c.kind = "advise" /\ c.input = s.input
  BY <1>2, CallIsTyped
<1> HIDE DEF c
<1>4. /\ r.calls = Append(s.calls, c) /\ r.page = s.page /\ r.current = s.current
      /\ r.input = s.input /\ r.loading /\ r.result = Null
  BY <1>1 DEF PageType
<1>5. Own(s) = {}
  BY <1>0, <1>1 DEF PageSound, AdvisorSound
<1> DEFINE n == Len(s.calls) + 1
<1>6. /\ Append(s.calls, c) \in Seq(CallType) /\ Len(r.calls) = n /\ r.calls[n] = c
  <2> HIDE DEF r
  <2> QED
    BY <1>1, <1>3, <1>4, OwnAppend
<1>7. r \in PageType
  BY <1>1, <1>6 DEF PageType
<1> HIDE DEF r, s
<1>8. Own(r) = {n}
  BY <1>1, <1>3, <1>4, <1>5, OwnAppend
<1>9. LoadingSound(r) /\ AdvisorSound(r) /\ PatienceSound(r)
  BY <1>0, <1>3, <1>4, <1>6, <1>8 DEF LoadingSound, AdvisorSound, PatienceSound
<1>10. Pages(r) /\ Grows(s, r) /\ Clears(s, r)
  BY <1>4, <1>6, <1>7, <1>9, SteadyClears DEF Pages, PageSound, Grows
<1>11. Good(t, r)
  BY <1>0, <1>1, <1>4, <1>10, GrowingIsGood DEF s
<1> QED
  BY <1>0, <1>11 DEF PageStep

LEMMA ChoosingStep == ASSUME IInv, NEW t \in Tab, ChangeInput(t) PROVE PageStep(t)
<1> DEFINE s == tab[t]
<1>0. s.page = "gear" /\ ~s.loading
  BY DEF ChangeInput
<1>1. PICK x \in Input : Update(t, ClearAdvice([s EXCEPT !.input = x]))
  BY DEF ChangeInput
<1> DEFINE r == [s EXCEPT !.input = x, !.result = Null]
<1>2. s \in PageType /\ PageSound(s) /\ s.page \in PagesOf[t] /\ Len(s.calls) <= MaxCalls
  BY PagesFacts DEF Pages
<1>3. Update(t, r)
  <2>1. ClearAdvice([s EXCEPT !.input = x]) = r
    BY <1>0, <1>2 DEF ClearAdvice, PageType
  <2> QED
    BY <1>1, <2>1
<1>4. /\ r \in PageType /\ r.page = s.page /\ r.calls = s.calls /\ ~r.loading
      /\ r.result = Null
  BY <1>0, <1>2 DEF PageType
<1> HIDE DEF r, s
<1>5. Own(r) = {}
  BY <1>0, <1>2, <1>4 DEF PageSound, AdvisorSound, Own
<1>6. PageSound(r)
  BY <1>0, <1>4, <1>5 DEF PageSound, LoadingSound, AdvisorSound, PatienceSound
<1>7. Good(t, r)
  BY <1>2, <1>4, <1>6, SteadyClears DEF Good, Pages, s
<1> QED
  BY <1>3, <1>7 DEF PageStep

LEMMA NavigatingStep == ASSUME IInv, NEW t \in Tab, Navigate(t) PROVE PageStep(t)
<1> DEFINE left == tab[t].calls
           q == [i \in DOMAIN left |-> [left[i] EXCEPT !.orphan = TRUE]]
<1>1. PICK p \in PagesOf[t] : Update(t, Open(p, q))
  BY DEF Navigate
<1>2. p \in Page /\ stored \in Account \cup {Null} /\ left \in Seq(CallType)
  BY PagesFacts DEF StoreTyped, PageType
<1>3. ASSUME NEW c \in CallType
      PROVE  [c EXCEPT !.orphan = TRUE] \in CallType /\ [c EXCEPT !.orphan = TRUE].orphan
  BY DEF CallType, CallRecord
<1>4. DOMAIN left = 1..Len(left) /\ Len(left) \in Nat /\ \A i \in DOMAIN left : left[i] \in CallType
  BY <1>2
<1>5. q \in [1..Len(left) -> CallType] /\ \A i \in DOMAIN left : q[i].orphan
  BY <1>3, <1>4
<1>6. q \in Seq(CallType) /\ Len(q) = Len(left) /\ DOMAIN q = DOMAIN left
  BY <1>4, <1>5
<1> HIDE DEF q
<1> DEFINE r == Open(p, q)
<1>7. /\ Pages(r) /\ Len(r.calls) \in {Len(q), Len(q) + 1} /\ r.page = p
      /\ r.result = Null \/ r.page # "gear"
  BY <1>2, <1>5, <1>6, OpenIsSound
<1> HIDE DEF r
<1>8. Grows(tab[t], r) /\ Clears(tab[t], r)
  BY <1>6, <1>7, SteadyClears DEF Grows
<1>9. Good(t, r)
  BY <1>7, <1>8, GrowingIsGood DEF Navigate
<1> QED
  BY <1>1, <1>9 DEF PageStep, r
-----------------------------------------------------------------------------
(* s differs from p in what a mutation has made old.                         *)
SameButOld(p, s) ==
  /\ s \in PageType /\ s.page = p.page /\ s.current = p.current /\ s.result = p.result
  /\ s.input = p.input /\ s.loading = p.loading /\ s.disturbed = p.disturbed
  /\ DOMAIN s.calls = DOMAIN p.calls /\ Len(s.calls) = Len(p.calls)
  /\ \A j \in DOMAIN p.calls :
       /\ s.calls[j].kind = p.calls[j].kind /\ s.calls[j].input = p.calls[j].input
       /\ s.calls[j].orphan = p.calls[j].orphan
       /\ s.calls[j].account = p.calls[j].account

(* The backend serves a call.                                                *)
LEMMA ServedStep ==
  ASSUME IInv, NEW t \in Tab, NEW i \in DOMAIN tab[t].calls, NEW s, NEW d \in CallType,
         s = tab[t] \/ \E a : /\ s = Outdated(tab[t], a) /\ ~tab[t].calls[i].orphan
                              /\ tab[t].calls[i].kind = "mutate",
         Answer(t, s, i, d),
         d.kind = tab[t].calls[i].kind, d.input = tab[t].calls[i].input,
         d.orphan = tab[t].calls[i].orphan, d.old = tab[t].calls[i].old,
         d.kind # "create" => d.account = tab[t].calls[i].account
  PROVE  PageStep(t)
<1> DEFINE p == tab[t]
           r == [s EXCEPT !.calls[i] = d]
<1>0. /\ Pages(p) /\ p \in PageType /\ p.page \in PagesOf[t]
      /\ Len(p.calls) \in Nat /\ Len(p.calls) <= MaxCalls
  BY PagesFacts
<1>1. Update(t, r)
  BY DEF Answer
<1>2. p.calls \in Seq(CallType) /\ DOMAIN p.calls = 1..Len(p.calls)
  BY <1>0 DEF PageType
(* The page apart from the answered call. *)
<1>3. SameButOld(p, s) /\ (s = p \/ (~p.calls[i].orphan /\ p.calls[i].kind = "mutate"))
  <2>1. CASE s = p
    BY <1>0, <2>1 DEF SameButOld
  <2>2. ASSUME NEW a, s = Outdated(p, a), ~p.calls[i].orphan, p.calls[i].kind = "mutate"
        PROVE  SameButOld(p, s)
    <3> DEFINE q == [k \in DOMAIN p.calls |->
                       IF p.calls[k].kind = "detail" /\ p.calls[k].status = "ok"
                            /\ p.calls[k].account = a /\ ~p.calls[k].orphan
                         THEN [p.calls[k] EXCEPT !.old = TRUE] ELSE p.calls[k]]
               h == IF p.shown # Null /\ p.shown.account = a THEN [p.shown EXCEPT !.old = TRUE]
                                                           ELSE p.shown
    <3>1. s = [p EXCEPT !.calls = q, !.shown = h]
      BY <1>0, <2>2 DEF Outdated, PageType
    <3>2. \A k \in DOMAIN p.calls : p.calls[k] \in CallType
      BY <1>2
    <3>3. ASSUME NEW c \in CallType
          PROVE  /\ [c EXCEPT !.old = TRUE] \in CallType
                 /\ [c EXCEPT !.old = TRUE].kind = c.kind
                 /\ [c EXCEPT !.old = TRUE].input = c.input
                 /\ [c EXCEPT !.old = TRUE].orphan = c.orphan
                 /\ [c EXCEPT !.old = TRUE].account = c.account
      BY DEF CallType, CallRecord
    <3>f. q \in [1..Len(p.calls) -> CallType] /\ DOMAIN q = DOMAIN p.calls
      BY <1>2, <3>2, <3>3
    <3>4. \A j \in DOMAIN p.calls :
            /\ q[j].kind = p.calls[j].kind /\ q[j].input = p.calls[j].input
            /\ q[j].orphan = p.calls[j].orphan /\ q[j].account = p.calls[j].account
      BY <1>2, <3>2, <3>3
    <3>5. q \in Seq(CallType) /\ Len(q) = Len(p.calls)
      <4> HIDE DEF q
      <4> QED
        BY <1>0, <3>f
    <3>6. h \in [account : Account, old : BOOLEAN] \cup {Null}
      BY <1>0 DEF PageType
    <3> HIDE DEF q, h
    <3>7. s \in PageType
      BY <1>0, <3>1, <3>5, <3>6 DEF PageType
    <3>8. /\ s.page = p.page /\ s.current = p.current /\ s.result = p.result
          /\ s.input = p.input /\ s.loading = p.loading /\ s.disturbed = p.disturbed
          /\ s.calls = q
      BY <1>0, <3>1 DEF PageType
    <3> QED
      BY <3>f, <3>4, <3>5, <3>7, <3>8 DEF SameButOld
  <2> QED
    BY <2>1, <2>2 DEF p
<1> HIDE DEF p
<1>4. /\ s.calls \in Seq(CallType) /\ DOMAIN s.calls = 1..Len(s.calls)
      /\ Len(s.calls) \in Nat /\ i \in DOMAIN s.calls
  BY <1>0, <1>3 DEF PageType, SameButOld, p
<1> DEFINE e == [s.calls EXCEPT ![i] = d]
<1>5. /\ e \in Seq(CallType) /\ Len(e) = Len(s.calls) /\ DOMAIN e = DOMAIN s.calls
      /\ e[i] = d /\ \A j \in DOMAIN s.calls \ {i} : e[j] = s.calls[j]
  BY <1>4
<1> HIDE DEF e
<1>6. r = [s EXCEPT !.calls = e]
  BY <1>3 DEF PageType, SameButOld, e
<1> HIDE DEF r
<1>7. /\ r \in PageType /\ r.page = s.page /\ r.current = s.current /\ r.result = s.result
      /\ r.input = s.input /\ r.loading = s.loading /\ r.disturbed = s.disturbed
      /\ r.shown = s.shown /\ r.calls = e
  BY <1>3, <1>5, <1>6 DEF PageType, SameButOld
<1>8. \A j \in DOMAIN p.calls :
        /\ r.calls[j].kind = p.calls[j].kind /\ r.calls[j].input = p.calls[j].input
        /\ r.calls[j].orphan = p.calls[j].orphan
        /\ p.calls[j].kind # "create" => r.calls[j].account = p.calls[j].account
  BY <1>3, <1>5, <1>7 DEF SameButOld, p
<1>9. \/ r.shown = p.shown /\ \A j \in DOMAIN p.calls : r.calls[j].old = p.calls[j].old
      \/ \E k \in Own(p) : p.calls[k].kind = "mutate"
  <2>1. CASE s = p
    BY <1>5, <1>7, <2>1 DEF p
  <2>2. CASE ~p.calls[i].orphan /\ p.calls[i].kind = "mutate"
    BY <2>2 DEF Own, p
  <2> QED
    BY <1>3, <2>1, <2>2
<1>10. PageSound(r)
  BY <1>0, <1>3, <1>5, <1>7, <1>8, <1>9, AnsweredIsSound DEF SameButOld
<1>11. Len(r.calls) = Len(p.calls) /\ Steady(p, r) /\ r.page = p.page
  BY <1>3, <1>5, <1>7 DEF Steady, SameButOld
<1>12. Good(t, r)
  BY <1>0, <1>7, <1>10, <1>11, SteadyClears DEF Good, Pages, p
<1> QED
  BY <1>1, <1>12 DEF PageStep, r

LEMMA ServingStep ==
  ASSUME IInv, NEW t \in Tab, NEW i \in DOMAIN tab[t].calls, Serve(t, i)
  PROVE  PageStep(t) /\ StoreTyped'
<1> DEFINE c == tab[t].calls[i]
<1>0. tab[t] \in PageType /\ StoreTyped
  BY PagesFacts
<1>1. c \in CallType
  BY <1>0 DEF PageType
<1>2. UNCHANGED <<stored, notice>>
  BY DEF Serve, KeepStored
<1> HIDE DEF c
<1>3. ASSUME NEW d, NEW s, d = [c EXCEPT !.status = "ok"] \/ d = [c EXCEPT !.status = "missing"],
             c.kind # "create", Answer(t, s, i, d), UNCHANGED exists,
             s = tab[t] \/ \E a : s = Outdated(tab[t], a) /\ ~c.orphan /\ c.kind = "mutate"
      PROVE  PageStep(t) /\ StoreTyped'
  <2>1. /\ d \in CallType /\ d.kind = c.kind /\ d.input = c.input /\ d.orphan = c.orphan
        /\ d.old = c.old /\ d.account = c.account
    BY <1>1, <1>3 DEF CallType, CallRecord
  <2>2. PageStep(t)
    BY <1>3, <2>1, ServedStep DEF c
  <2>3. StoreTyped'
    BY <1>0, <1>2, <1>3 DEF StoreTyped
  <2> QED
    BY <2>2, <2>3
<1>4. CASE ServeMissing(t, i, c)
  BY <1>3, <1>4 DEF ServeMissing
<1>5. CASE ServeDetail(t, i, c)
  <2>1. c.kind # "create"
    BY <1>5 DEF ServeDetail
  <2> QED
    BY <1>3, <1>5, <2>1 DEF ServeDetail
<1>6. CASE ServeAdvice(t, i, c)
  BY <1>3, <1>6 DEF ServeAdvice
<1>7. CASE ServeMutation(t, i, c)
  <2> DEFINE s == IF c.orphan THEN tab[t] ELSE Outdated(tab[t], c.account)
  <2>1. /\ Answer(t, s, i, [c EXCEPT !.status = "ok"]) /\ UNCHANGED exists
        /\ c.kind = "mutate"
    BY <1>7 DEF ServeMutation
  <2>2. s = tab[t] \/ \E a : s = Outdated(tab[t], a) /\ ~c.orphan /\ c.kind = "mutate"
    BY <2>1
  <2> HIDE DEF s
  <2> QED
    BY <1>3, <2>1, <2>2
<1>8. CASE ServeCreate(t, i, c)
  <2>1. PICK a \in Account : /\ exists' = exists \cup {a}
                             /\ Answer(t, tab[t], i, [c EXCEPT !.status = "ok", !.account = a])
    BY <1>8 DEF ServeCreate
  <2> DEFINE d == [c EXCEPT !.status = "ok", !.account = a]
  <2>2. /\ d \in CallType /\ d.kind = c.kind /\ d.input = c.input /\ d.orphan = c.orphan
        /\ d.old = c.old /\ c.kind = "create"
    BY <1>1, <1>8, NullIsNoAccount DEF CallType, CallRecord, ServeCreate
  <2>3. PageStep(t)
    BY <2>1, <2>2, ServedStep DEF c
  <2>4. StoreTyped'
    BY <1>0, <1>2, <2>1 DEF StoreTyped
  <2> QED
    BY <2>3, <2>4
<1> QED
  BY <1>4, <1>5, <1>6, <1>7, <1>8 DEF Serve, c
-----------------------------------------------------------------------------
(* An answer reaches its handler: c is the call, perhaps with an error in    *)
(* place of its answer, and s the page without it.                           *)
-----------------------------------------------------------------------------
Delivered(t, s, c) ==
  \E i \in DOMAIN tab[t].calls :
     /\ s = Without(tab[t], i) /\ c.status # "asked"
     /\ c \in {tab[t].calls[i], [tab[t].calls[i] EXCEPT !.status = "failed"]}

LEMMA DeliveredFacts ==
  ASSUME IInv, NEW t \in Tab, NEW s, NEW c, Delivered(t, s, c)
  PROVE  /\ c \in CallType /\ s \in PageType /\ AdvisorSound(s)
         /\ c.kind # "create" \/ c.status = "ok" => c.account \in Account
         /\ Len(s.calls) < Len(tab[t].calls) /\ Len(s.calls) \in Nat
         /\ Len(s.calls) + 1 <= MaxCalls
         /\ s.page \in PagesOf[t] /\ Steady(tab[t], s)
         /\ c.orphan \/ c.kind \notin {"detail", "advise"} => LoadingSound(s)
         /\ c.orphan => PatienceSound(s)
         /\ ~c.orphan /\ s.page = "account" /\ ~s.disturbed => Own(s) = {} /\ Awaits(s, c)
         /\ ~c.orphan /\ s.page # "account" => Own(s) = {}
         /\ ~c.orphan => (c.kind = "advise" <=> s.page # "account")
         /\ ~c.orphan /\ s.page = "gear" => c.input = s.input
<1>1. PICK i \in DOMAIN tab[t].calls :
        /\ s = Without(tab[t], i) /\ c.status # "asked"
        /\ c \in {tab[t].calls[i], [tab[t].calls[i] EXCEPT !.status = "failed"]}
  BY DEF Delivered
<1> DEFINE d == tab[t].calls[i]
<1>2. /\ s \in PageType /\ Len(s.calls) = Len(tab[t].calls) - 1 /\ Len(tab[t].calls) \in Nat
      /\ d \in CallType /\ s.page = tab[t].page /\ s.current = tab[t].current
      /\ s.result = tab[t].result
  BY <1>1, PagesFacts, WithoutShape
<1>3. /\ AdvisorSound(s)
      /\ d.orphan \/ d.kind \notin {"detail", "advise"} => LoadingSound(s)
      /\ d.orphan => PatienceSound(s)
      /\ ~d.orphan /\ s.page = "account" /\ ~s.disturbed => Own(s) = {} /\ Awaits(s, d)
      /\ ~d.orphan /\ s.page # "account" => Own(s) = {}
      /\ ~d.orphan => (d.kind = "advise" <=> s.page # "account")
      /\ ~d.orphan /\ s.page = "gear" => d.input = s.input
  BY <1>1, PagesFacts, WithoutIsSound
<1>4. c \in {d, [d EXCEPT !.status = "failed"]}
  BY <1>1
<1> HIDE DEF d
<1>5. /\ c \in CallType /\ c.kind = d.kind /\ c.orphan = d.orphan /\ c.input = d.input
      /\ c.account = d.account /\ c.old = d.old
  BY <1>2, <1>4 DEF CallType, CallRecord
<1>6. Awaits(s, d) => Awaits(s, c)
  BY <1>5 DEF Awaits
<1>7. c.kind # "create" \/ c.status = "ok" => c.account \in Account
  BY <1>5 DEF CallType, CallRecord
<1>8. Len(s.calls) \in Nat
  BY <1>2 DEF PageType
<1>9. Len(tab[t].calls) <= MaxCalls /\ MaxCalls \in Nat /\ tab[t].page \in PagesOf[t]
  BY PagesFacts
<1> QED
  BY <1>2, <1>3, <1>5, <1>6, <1>7, <1>8, <1>9 DEF Steady

LEMMA PublishTyped ==
  ASSUME StoreTyped, NEW t \in Tab, NEW a \in Account \cup {Null}, Publish(t, a), UNCHANGED exists
  PROVE  StoreTyped'
BY DEF StoreTyped, Publish

LEMMA KeptTyped ==
  ASSUME StoreTyped, KeepStored, UNCHANGED exists PROVE StoreTyped'
BY DEF StoreTyped, KeepStored

LEMMA ArrivalIsGood ==
  ASSUME IInv, NEW t \in Tab, NEW s, NEW c, Delivered(t, s, c), NEW r, Pages(r), Grows(s, r),
         r.page = s.page, Clears(tab[t], r), Update(t, r)
  PROVE  PageStep(t)
<1>1. /\ Len(s.calls) \in Nat /\ Len(s.calls) + 1 <= MaxCalls /\ MaxCalls \in Nat
      /\ s.page \in PagesOf[t]
  BY DeliveredFacts, PagesFacts
<1>2. Good(t, r)
  BY <1>1 DEF Good, Grows
<1> QED
  BY <1>2 DEF PageStep

LEMMA DetailStep ==
  ASSUME IInv, NEW t \in Tab, NEW s, NEW c, Delivered(t, s, c), ~c.orphan, c.kind = "detail",
         DetailArrives(t, s, c), UNCHANGED exists
  PROVE  PageStep(t) /\ StoreTyped'
<1>0. /\ c \in CallType /\ s \in PageType /\ AdvisorSound(s) /\ c.account \in Account
      /\ Steady(tab[t], s) /\ s.page = "account"
      /\ ~s.disturbed => Own(s) = {} /\ Awaits(s, c)
  BY DeliveredFacts
<1>s. StoreTyped
  BY PagesFacts
(* The page waits for nothing any more. *)
<1>1. ASSUME NEW r \in PageType, Update(t, r), r.page = "account", r.calls = s.calls,
             r.result = s.result, ~r.loading, ~r.disturbed => ~s.disturbed /\ UpToDate(r)
      PROVE  PageStep(t)
  <2>1. Own(r) = Own(s)
    BY <1>1 DEF Own
  <2>2. AdvisorSound(r)
    BY <1>0, <1>1, <2>1 DEF AdvisorSound
  <2>3. PageSound(r)
    BY <1>0, <1>1, <2>1, <2>2, SettledPage
  <2>4. Pages(r) /\ Grows(s, r) /\ Clears(tab[t], r)
    BY <1>1, <2>3, SteadyClears DEF Pages, Grows
  <2> QED
    BY <1>0, <1>1, <2>4, ArrivalIsGood
<1>2. CASE c.status = "ok"
  <2> DEFINE h == [account |-> c.account, old |-> c.old]
             r == [s EXCEPT !.shown = h, !.loading = FALSE]
  <2>1. Update(t, r) /\ KeepStored
    BY <1>2 DEF DetailArrives
  <2>2. h \in [account : Account, old : BOOLEAN] /\ h.account = c.account /\ h.old = c.old
    BY <1>0 DEF CallType, CallRecord
  <2>3. h # Null
    BY <2>2, BrowserAssumption
  <2> HIDE DEF h
  <2>4. /\ r \in PageType /\ r.page = "account" /\ r.calls = s.calls /\ r.result = s.result
        /\ ~r.loading /\ r.disturbed = s.disturbed /\ r.shown = h /\ r.current = s.current
    BY <1>0, <2>2 DEF PageType
  <2> HIDE DEF r
  <2>5. ~r.disturbed => ~s.disturbed /\ UpToDate(r)
    BY <1>0, <2>2, <2>3, <2>4, NullIsNoAccount DEF UpToDate, Awaits
  <2>6. PageStep(t)
    BY <1>1, <2>1, <2>4, <2>5
  <2> QED
    BY <1>s, <2>1, <2>6, KeptTyped
<1>3. CASE c.status = "missing"
  <2> DEFINE g == Agree(s, Null)
             r == [g EXCEPT !.shown = Null, !.loading = FALSE]
  <2>1. Update(t, r) /\ Publish(t, Null)
    BY <1>3 DEF DetailArrives
  <2>2. /\ g \in PageType /\ g.page = "account" /\ g.current = Null /\ g.calls = s.calls
        /\ g.result = s.result
        /\ ~g.disturbed => ~s.disturbed
    BY <1>0 DEF Agree, Select, AccountEffect, PageType
  <2> HIDE DEF g
  <2>3. /\ r \in PageType /\ r.page = "account" /\ r.calls = s.calls /\ r.result = s.result
        /\ ~r.loading /\ r.disturbed = g.disturbed /\ r.shown = Null /\ r.current = Null
    BY <2>2 DEF PageType
  <2> HIDE DEF r
  <2>4. ~r.disturbed => ~s.disturbed /\ UpToDate(r)
    BY <2>2, <2>3 DEF UpToDate
  <2>5. PageStep(t)
    BY <1>1, <2>1, <2>3, <2>4
  <2> QED
    BY <1>s, <2>1, <2>5, PublishTyped
<1>4. CASE c.status = "failed"
  <2> DEFINE r == [Fail(s) EXCEPT !.loading = FALSE]
  <2>1. Update(t, r) /\ KeepStored
    BY <1>4 DEF DetailArrives
  <2>2. /\ r \in PageType /\ r.page = "account" /\ r.calls = s.calls /\ r.result = s.result
        /\ ~r.loading /\ r.disturbed
    BY <1>0 DEF Fail, PageType
  <2> HIDE DEF r
  <2>3. PageStep(t)
    BY <1>1, <2>1, <2>2
  <2> QED
    BY <1>s, <2>1, <2>3, KeptTyped
<1> QED
  BY <1>2, <1>3, <1>4 DEF DetailArrives

LEMMA PickStep ==
  ASSUME IInv, NEW t \in Tab, NEW s, NEW c, Delivered(t, s, c), ~c.orphan,
         c.kind \in {"verify", "create"}, PickArrives(t, s, c), UNCHANGED exists
  PROVE  PageStep(t) /\ StoreTyped'
<1>0. /\ c \in CallType /\ s \in PageType /\ AdvisorSound(s) /\ LoadingSound(s)
      /\ Steady(tab[t], s) /\ s.page = "account"
      /\ ~s.disturbed => Own(s) = {} /\ Awaits(s, c)
      /\ c.status = "ok" => c.account \in Account
  BY DeliveredFacts
<1>s. StoreTyped
  BY PagesFacts
<1>1. Pages(s)
  <2>1. PatienceSound(s)
    BY <1>0 DEF PatienceSound, Awaits, UpToDate
  <2> QED
    BY <1>0, <2>1 DEF Pages, PageSound
<1>2. CASE c.status = "ok"
  <2> DEFINE r == Agree(s, c.account)
  <2>1. Update(t, r) /\ Publish(t, c.account)
    BY <1>2 DEF PickArrives
  <2>2. Pages(r) /\ Grows(s, r) /\ r.page = s.page
    BY <1>0, <1>1, <1>2, AgreeIsSound
  <2> HIDE DEF r
  <2>3. Clears(tab[t], r)
    BY <1>0, <2>2, SteadyClears
  <2>4. PageStep(t)
    BY <2>1, <2>2, <2>3, ArrivalIsGood
  <2> QED
    BY <1>0, <1>2, <1>s, <2>1, <2>4, PublishTyped
<1>3. CASE c.status # "ok"
  <2>1. Update(t, s) /\ KeepStored
    BY <1>3 DEF PickArrives
  <2>2. Grows(s, s) /\ Clears(tab[t], s)
    BY <1>0, SteadyClears DEF Grows
  <2>3. PageStep(t)
    BY <1>1, <2>1, <2>2, ArrivalIsGood
  <2> QED
    BY <1>s, <2>1, <2>3, KeptTyped
<1> QED
  BY <1>2, <1>3

LEMMA MutationStep ==
  ASSUME IInv, NEW t \in Tab, NEW s, NEW c, Delivered(t, s, c), ~c.orphan,
         c.kind = "mutate", MutationArrives(t, s, c), UNCHANGED exists
  PROVE  PageStep(t) /\ StoreTyped'
<1>0. /\ c \in CallType /\ s \in PageType /\ AdvisorSound(s) /\ LoadingSound(s)
      /\ Steady(tab[t], s) /\ s.page = "account" /\ c.account \in Account
      /\ ~s.disturbed => Own(s) = {} /\ Awaits(s, c)
  BY DeliveredFacts
<1>1. StoreTyped'
  BY PagesFacts, KeptTyped DEF MutationArrives
<1>2. CASE Update(t, Refresh(s, c.account))
  <2> DEFINE r == Refresh(s, c.account)
  <2>1. ~s.disturbed /\ Own(s) = {} => c.account = s.current
    BY <1>0 DEF Awaits
  <2>2. Pages(r) /\ Steady(s, r) /\ Grows(s, r)
    BY <1>0, <2>1, RefreshIsSound
  <2>3. Update(t, r)
    BY <1>2
  <2> HIDE DEF r
  <2>4. r.page = s.page /\ Clears(tab[t], r)
    BY <1>0, <2>2, SteadyClears DEF Steady
  <2> QED
    BY <1>1, <2>2, <2>3, <2>4, ArrivalIsGood
<1>3. CASE Update(t, Fail(s))
  <2> DEFINE r == Fail(s)
  <2>1. /\ r \in PageType /\ r.page = "account" /\ r.calls = s.calls /\ r.result = s.result
        /\ r.loading = s.loading /\ r.disturbed
    BY <1>0 DEF Fail, PageType
  <2>2. Update(t, r)
    BY <1>3
  <2> HIDE DEF r
  <2>3. Own(r) = Own(s)
    BY <2>1 DEF Own
  <2>4. LoadingSound(r) /\ AdvisorSound(r) /\ PatienceSound(r)
    BY <1>0, <2>1, <2>3 DEF LoadingSound, AdvisorSound, PatienceSound
  <2>5. Pages(r) /\ Grows(s, r) /\ Clears(tab[t], r)
    BY <2>1, <2>4, SteadyClears DEF Pages, PageSound, Grows
  <2> QED
    BY <1>0, <1>1, <2>1, <2>2, <2>5, ArrivalIsGood
<1> QED
  BY <1>2, <1>3 DEF MutationArrives

LEMMA AdviceStep ==
  ASSUME IInv, NEW t \in Tab, NEW s, NEW c, Delivered(t, s, c), ~c.orphan,
         c.kind = "advise", AdviceArrives(t, s, c), UNCHANGED exists
  PROVE  PageStep(t) /\ StoreTyped'
<1>0. /\ c \in CallType /\ s \in PageType /\ s.page # "account" /\ Own(s) = {}
      /\ AdvisorSound(s) /\ Steady(tab[t], s) /\ c.account \in Account
      /\ s.page = "gear" => c.input = s.input
      /\ Len(s.calls) < Len(tab[t].calls) /\ Len(s.calls) \in Nat
  BY DeliveredFacts
<1>1. StoreTyped'
  BY PagesFacts, KeptTyped DEF AdviceArrives
<1>2. ASSUME NEW r \in PageType, Update(t, r), r.page = s.page, r.calls = s.calls,
             r.current = s.current, r.input = s.input, ~r.loading,
             r.page = "gear" /\ r.result # Null => r.result.input = r.input
      PROVE  PageStep(t)
  <2>1. Own(r) = {}
    BY <1>0, <1>2 DEF Own
  <2>2. LoadingSound(r) /\ AdvisorSound(r) /\ PatienceSound(r)
    BY <1>0, <1>2, <2>1 DEF LoadingSound, AdvisorSound, PatienceSound
  <2>3. r.calls # tab[t].calls /\ r.current = tab[t].current
    BY <1>0, <1>2 DEF Steady
  <2>4. Pages(r) /\ Grows(s, r) /\ Clears(tab[t], r)
    BY <1>2, <2>2, <2>3 DEF Pages, PageSound, Grows, Clears
  <2> QED
    BY <1>2, <2>4, ArrivalIsGood
<1>3. CASE c.status = "ok"
  <2> DEFINE a == [account |-> c.account, input |-> c.input]
             r == [s EXCEPT !.result = a, !.loading = FALSE]
  <2>1. Update(t, r)
    BY <1>3 DEF AdviceArrives
  <2>2. a \in [account : Account, input : Input] /\ a.input = c.input
    BY <1>0 DEF CallType, CallRecord
  <2> HIDE DEF a
  <2>3. /\ r \in PageType /\ r.page = s.page /\ r.calls = s.calls /\ r.current = s.current
        /\ r.input = s.input /\ ~r.loading /\ r.result = a
    BY <1>0, <2>2 DEF PageType
  <2> HIDE DEF r
  <2> QED
    BY <1>0, <1>1, <1>2, <2>1, <2>2, <2>3
<1>4. CASE c.status # "ok"
  <2> DEFINE r == [s EXCEPT !.loading = FALSE]
  <2>1. Update(t, r)
    BY <1>4 DEF AdviceArrives
  <2>2. /\ r \in PageType /\ r.page = s.page /\ r.calls = s.calls /\ r.current = s.current
        /\ r.input = s.input /\ ~r.loading /\ r.result = s.result
    BY <1>0 DEF PageType
  <2> HIDE DEF r
  <2>3. r.page = "gear" /\ r.result # Null => r.result.input = r.input
    BY <1>0, <2>2 DEF AdvisorSound
  <2> QED
    BY <1>1, <1>2, <2>1, <2>2, <2>3
<1> QED
  BY <1>3, <1>4
(* Of a page that was left.                                                  *)
LEMMA OrphanStep ==
  ASSUME IInv, NEW t \in Tab, NEW s, NEW c, Delivered(t, s, c), c.orphan,
         OrphanArrives(t, s, c), UNCHANGED exists
  PROVE  PageStep(t) /\ StoreTyped'
<1>0. /\ c \in CallType /\ s \in PageType /\ Steady(tab[t], s) /\ Pages(s)
      /\ c.kind # "create" \/ c.status = "ok" => c.account \in Account
  BY DeliveredFacts DEF Pages, PageSound
<1>s. StoreTyped
  BY PagesFacts
(* A call that is added, or "adrift", changes nothing of the page's own.     *)
<1>1. ASSUME NEW r \in PageType, Update(t, r), Grows(s, r), Own(r) = Own(s),
             r.page = s.page, r.current = s.current, r.shown = s.shown, r.result = s.result,
             r.input = s.input, r.loading = s.loading, r.disturbed = s.disturbed,
             \A j \in Own(s) : r.calls[j] = s.calls[j]
      PROVE  PageStep(t)
  <2>1. LoadingSound(r)
    BY <1>0, <1>1 DEF Pages, PageSound, LoadingSound
  <2>2. AdvisorSound(r)
    BY <1>0, <1>1 DEF Pages, PageSound, AdvisorSound
  <2>3. PatienceSound(r)
    BY <1>0, <1>1 DEF Pages, PageSound, PatienceSound, Awaits, UpToDate
  <2>4. Pages(r) /\ Clears(tab[t], r)
    BY <1>0, <1>1, <2>1, <2>2, <2>3, SteadyClears DEF Pages, PageSound, Steady
  <2> QED
    BY <1>1, <2>4, ArrivalIsGood
<1> DEFINE lost == [s EXCEPT !.adrift = TRUE]
<1>2. Update(t, lost) => PageStep(t)
  <2>1. /\ lost \in PageType /\ lost.page = s.page /\ lost.current = s.current
        /\ lost.shown = s.shown /\ lost.result = s.result /\ lost.input = s.input
        /\ lost.loading = s.loading /\ lost.disturbed = s.disturbed /\ lost.calls = s.calls
    BY <1>0 DEF PageType
  <2> HIDE DEF lost
  <2>2. Own(lost) = Own(s) /\ Grows(s, lost)
    BY <2>1 DEF Own, Grows
  <2> QED
    BY <1>1, <2>1, <2>2
<1>3. CASE c.kind = "detail" /\ c.status = "missing"
  <2>1. Update(t, lost) /\ Publish(t, Null)
    BY <1>3 DEF OrphanArrives
  <2> QED
    BY <1>s, <1>2, <2>1, PublishTyped
<1>4. CASE c.kind \in {"verify", "create"} /\ c.status = "ok"
  <2>1. Update(t, lost) /\ Publish(t, c.account)
    BY <1>4 DEF OrphanArrives
  <2> QED
    BY <1>0, <1>s, <1>2, <1>4, <2>1, PublishTyped
<1>5. CASE c.kind = "mutate" /\ c.status = "ok"
  <2> DEFINE d == [Call("detail", c.account, Null) EXCEPT !.orphan = TRUE]
             r == [s EXCEPT !.calls = Append(@, d)]
  <2>1. Update(t, r) /\ KeepStored
    BY <1>5 DEF OrphanArrives
  <2>2. d \in CallType /\ d.orphan
    BY <1>0, <1>5 DEF Call, CallType, CallRecord
  <2> HIDE DEF d
  <2>3. r.calls = Append(s.calls, d)
    BY <1>0 DEF PageType
  <2>4. Append(s.calls, d) \in Seq(CallType)
    BY <1>0, <2>2 DEF PageType
  <2>5. /\ r \in PageType /\ r.page = s.page /\ r.current = s.current
        /\ r.shown = s.shown /\ r.result = s.result /\ r.input = s.input
        /\ r.loading = s.loading /\ r.disturbed = s.disturbed
    BY <1>0, <2>4 DEF PageType
  <2> HIDE DEF r
  <2>6. Own(r) = Own(s)
    BY <1>0, <2>2, <2>3, OwnAppend
  <2>7. Len(r.calls) = Len(s.calls) + 1
    BY <1>0, <2>2, <2>3, OwnAppend
  <2>8. ASSUME NEW j \in Own(s) PROVE r.calls[j] = s.calls[j]
    <3>1. s \in PageType /\ d \in CallType /\ r.calls = Append(s.calls, d)
      BY <1>0, <2>2, <2>3
    <3> QED
      BY <3>1, OldCallsStay
  <2>9. PageStep(t)
    BY <1>1, <2>1, <2>5, <2>6, <2>7, <2>8 DEF Grows
  <2> QED
    BY <1>s, <2>1, <2>9, KeptTyped
<1>6. CASE Update(t, s) /\ KeepStored
  <2>1. Grows(s, s)
    BY DEF Grows
  <2>2. PageStep(t)
    BY <1>0, <1>1, <1>6, <2>1
  <2> QED
    BY <1>s, <1>6, <2>2, KeptTyped
<1> QED
  BY <1>3, <1>4, <1>5, <1>6 DEF OrphanArrives

LEMMA DeliveringStep ==
  ASSUME IInv, NEW t \in Tab, NEW i \in DOMAIN tab[t].calls, Deliver(t, i)
  PROVE  PageStep(t) /\ StoreTyped'
<1> DEFINE s == Without(tab[t], i)
<1>1. PICK c \in {tab[t].calls[i], [tab[t].calls[i] EXCEPT !.status = "failed"]} :
        /\ c.status # "asked" /\ UNCHANGED exists
        /\ \/ c.orphan /\ OrphanArrives(t, s, c)
           \/ ~c.orphan /\ c.kind = "detail" /\ DetailArrives(t, s, c)
           \/ ~c.orphan /\ c.kind \in {"verify", "create"} /\ PickArrives(t, s, c)
           \/ ~c.orphan /\ c.kind = "mutate" /\ MutationArrives(t, s, c)
           \/ ~c.orphan /\ c.kind = "advise" /\ AdviceArrives(t, s, c)
  BY DEF Deliver, Without
<1>2. Delivered(t, s, c)
  BY <1>1 DEF Delivered
<1> HIDE DEF s
<1>3. CASE c.orphan /\ OrphanArrives(t, s, c)
  BY <1>1, <1>2, <1>3, OrphanStep
<1>4. CASE ~c.orphan /\ c.kind = "detail" /\ DetailArrives(t, s, c)
  BY <1>1, <1>2, <1>4, DetailStep
<1>5. CASE ~c.orphan /\ c.kind \in {"verify", "create"} /\ PickArrives(t, s, c)
  BY <1>1, <1>2, <1>5, PickStep
<1>6. CASE ~c.orphan /\ c.kind = "mutate" /\ MutationArrives(t, s, c)
  BY <1>1, <1>2, <1>6, MutationStep
<1>7. CASE ~c.orphan /\ c.kind = "advise" /\ AdviceArrives(t, s, c)
  BY <1>1, <1>2, <1>7, AdviceStep
<1> QED
  BY <1>1, <1>3, <1>4, <1>5, <1>6, <1>7

-----------------------------------------------------------------------------
(* Every step of the browser is a step of one page that keeps it sound.      *)
LEMMA StepsArePageSteps ==
  ASSUME IInv, NEW t \in Tab, Network(t) \/ HearStorage(t) \/ User(t)
  PROVE  PageStep(t) /\ StoreTyped'
<1>0. StoreTyped
  BY PagesFacts
<1>1. CASE Network(t)
  BY <1>1, ServingStep, DeliveringStep DEF Network
<1>2. CASE HearStorage(t)
  <2>1. StoreTyped'
    BY <1>0, <1>2 DEF HearStorage, StoreTyped
  <2>2. Room /\ stored \in Account \cup {Null} /\ Update(t, Agree(tab[t], stored))
    BY <1>0, <1>2 DEF HearStorage, StoreTyped
  <2> QED
    BY <2>1, <2>2, AgreeingStep
<1>3. CASE PickAccount(t)
  BY <1>0, <1>3, PickingStep, KeptTyped DEF PickAccount
<1>4. CASE SwitchAccount(t)
  BY <1>0, <1>4, AgreeingStep, PublishTyped DEF SwitchAccount
<1>5. CASE Mutate(t)
  BY <1>0, <1>5, MutatingStep, KeptTyped DEF Mutate
<1>6. CASE Advise(t)
  BY <1>0, <1>6, AdvisingStep, KeptTyped DEF Advise
<1>7. CASE ChangeInput(t)
  BY <1>0, <1>7, ChoosingStep, KeptTyped DEF ChangeInput
<1>8. CASE Navigate(t)
  BY <1>0, <1>8, NavigatingStep, KeptTyped DEF Navigate
<1> QED
  BY <1>1, <1>2, <1>3, <1>4, <1>5, <1>6, <1>7, <1>8 DEF User

LEMMA PageStepKeeps ==
  ASSUME IInv, NEW t \in Tab, PageStep(t), StoreTyped'
  PROVE  TypeOK' /\ (\A u \in Tab : PageSound(tab'[u])) /\ \A u \in Tab : Clears(tab[u], tab'[u])
<1>1. PICK r : Update(t, r) /\ Good(t, r)
  BY DEF PageStep
<1>2. /\ tab \in [Tab -> PageType]
      /\ \A u \in Tab : /\ tab[u].page \in PagesOf[u] /\ Len(tab[u].calls) <= MaxCalls
                        /\ PageSound(tab[u])
  BY DEF IInv, TypeOK
<1>3. /\ r \in PageType /\ PageSound(r) /\ r.page \in PagesOf[t] /\ Len(r.calls) <= MaxCalls
      /\ Clears(tab[t], r)
  BY <1>1 DEF Good, Pages
<1>4. tab' \in [Tab -> PageType] /\ tab'[t] = r /\ \A u \in Tab \ {t} : tab'[u] = tab[u]
  BY <1>1, <1>2, <1>3 DEF Update
<1>5. ASSUME NEW u \in Tab
      PROVE  /\ tab'[u].page \in PagesOf[u] /\ Len(tab'[u].calls) <= MaxCalls
             /\ PageSound(tab'[u]) /\ Clears(tab[u], tab'[u])
  BY <1>2, <1>3, <1>4, SteadyClears DEF Steady
<1> QED
  BY <1>4, <1>5 DEF TypeOK, StoreTyped

LEMMA AgreementInv == IInv => TabsInv
BY DEF IInv, TypeOK, TabsInv, Shaped, PageType, Fields

LEMMA IInvInit == Init => IInv
<1> SUFFICES ASSUME Init PROVE IInv
  OBVIOUS
<1>1. StoreTyped
  BY DEF Init, StoreTyped
<1>2. PICK p \in [Tab -> Page] : /\ \A t \in Tab : p[t] \in PagesOf[t]
                                 /\ tab = [t \in Tab |-> Open(p[t], <<>>)]
  BY DEF Init
<1>3. <<>> \in Seq(CallType) /\ Len(<<>>) = 0 /\ DOMAIN <<>> = {}
  OBVIOUS
<1>4. ASSUME NEW t \in Tab
      PROVE  Pages(tab[t]) /\ Len(tab[t].calls) \in {0, 1} /\ tab[t].page = p[t]
  <2> DEFINE q == <<>>
  <2>1. q \in Seq(CallType) /\ Len(q) = 0 /\ \A i \in DOMAIN q : q[i].orphan
    BY <1>3
  <2>2. tab[t] = Open(p[t], q)
    BY <1>2
  <2> HIDE DEF q
  <2> QED
    <3> DEFINE r == Open(p[t], q)
    <3>1. /\ Pages(r) /\ Len(r.calls) \in {Len(q), Len(q) + 1} /\ r.page = p[t]
      BY <1>1, <1>2, <2>1, OpenIsSound DEF StoreTyped
    <3> QED
      BY <2>1, <2>2, <3>1
<1>5. tab \in [Tab -> PageType]
  BY <1>2, <1>4 DEF Pages
<1>6. ASSUME NEW t \in Tab
      PROVE  /\ tab[t].page \in PagesOf[t] /\ Len(tab[t].calls) <= MaxCalls
             /\ PageSound(tab[t])
  <2>1. Pages(tab[t]) /\ Len(tab[t].calls) \in {0, 1} /\ tab[t].page = p[t]
    BY <1>4
  <2>2. 0 <= MaxCalls /\ 1 <= MaxCalls
    BY BrowserAssumption
  <2>3. Len(tab[t].calls) <= MaxCalls
    BY <2>1, <2>2
  <2> QED
    BY <1>2, <2>1, <2>3 DEF Pages
<1>7. TypeOK
  BY <1>1, <1>5, <1>6 DEF TypeOK, StoreTyped
<1> QED
  BY <1>6, <1>7, InitAgrees DEF IInv, TabsInv

LEMMA IInvStep == IInv /\ [Next]_vars => IInv' /\ \A u \in Tab : Clears(tab[u], tab'[u])
<1> SUFFICES ASSUME IInv, [Next]_vars
             PROVE  IInv' /\ \A u \in Tab : Clears(tab[u], tab'[u])
  OBVIOUS
<1>1. TabsInv'
  BY AgreementInv, AgreementStep
<1>2. CASE UNCHANGED vars
  <2>1. IInv'
    BY <1>2 DEF vars, IInv, TypeOK, TabsAgree
  <2>2. tab' = tab
    BY <1>2 DEF vars
  <2> QED
    BY <2>1, <2>2, SteadyClears DEF Steady
<1>3. ASSUME NEW t \in Tab, Network(t) \/ HearStorage(t) \/ User(t)
      PROVE  IInv' /\ \A u \in Tab : Clears(tab[u], tab'[u])
  <2>1. TypeOK' /\ (\A u \in Tab : PageSound(tab'[u])) /\ \A u \in Tab : Clears(tab[u], tab'[u])
    BY <1>3, StepsArePageSteps, PageStepKeeps
  <2> QED
    BY <1>1, <2>1 DEF IInv, TabsInv
<1> QED
  BY <1>2, <1>3 DEF Next

-----------------------------------------------------------------------------
(* For any number of tabs, accounts and calls in flight: every page is typed *)
(* and sound on its own, and the tabs agree (the pages' handlers and         *)
(* effects, useCurrentAccount.ts).                                           *)
THEOREM InvariantHolds == Spec => []IInv
BY IInvInit, IInvStep, PTL DEF Spec

(* A page that shows Loading... or "Calculating..." waits for a call whose   *)
(* answer, or failure, ends it (the try/finally of refresh and handleAdvise).*)
THEOREM LoadingEnds == Spec => []LoadingHasCall
<1>1. IInv => LoadingHasCall
  BY DEF IInv, PageSound, LoadingSound, LoadingHasCall, Own
<1> QED
  BY <1>1, InvariantHolds, PTL

(* A user who waits for every answer, with no failure and no other tab       *)
(* interfering, sees the selected account with everything done to it: every  *)
(* mutation is followed by a refetch (MyAccountPage.tsx).                    *)
THEOREM PatientUserIsRight == Spec => []PatientUserSeesAccount
<1>1. IInv => PatientUserSeesAccount
  BY DEF IInv, PageSound, PatienceSound, PatientUserSeesAccount
<1> QED
  BY <1>1, InvariantHolds, PTL

(* The advice on a Gear, Upgrade or Farm page was computed for the inputs    *)
(* selected there (GearAdvisorPage.tsx: cleared when one changes, and        *)
(* disabled while a calculation runs).                                       *)
THEOREM AdviceIsForInputs == Spec => []AdviceMatchesInputs
<1>1. IInv => AdviceMatchesInputs
  BY DEF IInv, PageSound, AdvisorSound, AdviceMatchesInputs, AdviceShown
<1> QED
  BY <1>1, InvariantHolds, PTL

(* Advice for another account is never left over from before a change of the *)
(* selection: it can only arrive (the dependencies of the clearing effect).  *)
THEOREM SelectionClears == Spec => SelectionClearsAdvice
<1>1. IInv /\ [Next]_vars =>
        [\A t \in Tab : OthersAdvice(tab'[t]) /\ ~OthersAdvice(tab[t]) =>
           tab'[t].current = tab[t].current /\ tab'[t].calls # tab[t].calls]_vars
  BY IInvStep DEF Clears
<1> QED
  BY <1>1, InvariantHolds, PTL DEF SelectionClearsAdvice, Spec
=============================================================================
