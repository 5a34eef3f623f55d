------------------------- MODULE AdminConsoleProofs -------------------------
(***************************************************************************)
(* TypeOK and RowsKept of AdminConsole, for any number of tabs.            *)
(***************************************************************************)
EXTENDS AdminConsole, TLAPS

Typed ==
    /\ token \in BOOLEAN
    /\ place \in [Tabs -> {"closed", "checking", "login", "pages"}]
    /\ view \in [Tabs -> Views]
    /\ page \in [Tabs -> Page]
    /\ logouts \in [Tabs -> Nat]

\* A list is empty and has no modal until it is fetched; keys count the rows.
Sound(t) ==
    /\ place[t] # "pages" =>
          /\ page[t].rows = <<>> /\ page[t].hides = 0
          /\ ~ page[t].isSaving /\ ~ page[t].showAddModal
    /\ place[t] \in {"closed", "checking"} => page[t].form = None
    /\ page[t].isSaving => page[t].hides < Bounds[t].hides
    /\ logouts[t] <= Bounds[t].logouts
    /\ page[t].isLoading => page[t].rows = <<>> /\ ~ page[t].showAddModal
    /\ \A i \in DOMAIN page[t].rows : page[t].rows[i].id = i

IInv == Typed /\ \A t \in Tabs : Sound(t)

\* What a step of tab t leaves alone.
Others(t) ==
    \A u \in Tabs \ {t} :
        /\ place'[u] = place[u] /\ view'[u] = view[u]
        /\ page'[u] = page[u] /\ logouts'[u] = logouts[u]

\* A list goes on from where it was.
Extends(t) ==
    place[t] = "pages" /\ place'[t] = "pages" /\ view'[t] = view[t] =>
        \A i \in DOMAIN page[t].rows :
            i \in DOMAIN page'[t].rows /\ page'[t].rows[i] = page[t].rows[i]

Good(t) == Typed' /\ Sound(t)' /\ Others(t) /\ Extends(t)

LEMMA FreshType ==
    /\ Fresh \in Page
    /\ \A b \in BOOLEAN : [Fresh EXCEPT !.isLoading = b] \in Page
    /\ Mocks \in Seq(Row) /\ \A i \in DOMAIN Mocks : Mocks[i].id = i
  <1>1. <<>> \in Seq(Row)
    OBVIOUS
  <1>2. Mocks \in Seq(Row)
    BY DEF Mocks, Row
  <1> QED  BY <1>1, <1>2 DEF Fresh, Page, Mocks

\* What Fetch, Add and the timers of a message do to a page.
LEMMA FetchType ==
    \A q \in Page, r \in Seq(Row) : [q EXCEPT !.isLoading = FALSE, !.rows = r] \in Page
  BY DEF Page

LEMMA AddType ==
    \A q \in Page, r \in Seq(Row) :
        [q EXCEPT !.rows = r, !.showAddModal = FALSE, !.form = None] \in Page
  BY DEF Page

LEMMA SavedType ==
    \A q \in Page, n \in Nat :
        [q EXCEPT !.isSaving = FALSE, !.saveSuccess = TRUE, !.hides = n] \in Page
  BY DEF Page

LEMMA HideType ==
    \A q \in Page, n \in Nat : [q EXCEPT !.saveSuccess = FALSE, !.hides = n] \in Page
  BY DEF Page

LEMMA Fields == \A q \in Page : q.rows \in Seq(Row) /\ q.hides \in Nat
  BY DEF Page

LEMMA BoundsType == \A t \in Tabs : Bounds[t].hides \in Nat /\ Bounds[t].logouts \in Nat
  BY ConsoleAssumption

LEMMA MountGood ==
    ASSUME IInv, NEW t \in Tabs, NEW p \in {"checking", "login", "pages"},
           NEW v \in Views, Mount(t, p, v),
           token' \in BOOLEAN, logouts' \in [Tabs -> Nat],
           logouts'[t] <= Bounds[t].logouts,
           \A u \in Tabs \ {t} : logouts'[u] = logouts[u],
           place[t] # "pages" \/ p # "pages" \/ v # view[t]
    PROVE  Good(t)
  <1>1. Typed'
    BY FreshType DEF Mount, IInv, Typed
  <1>2. page'[t] = [Fresh EXCEPT !.isLoading = (p # "login")] /\ place'[t] = p
        /\ view'[t] = v
    BY DEF Mount, IInv, Typed
  <1>3. Sound(t)'
    BY <1>2 DEF Sound, Fresh
  <1> QED  BY <1>1, <1>2, <1>3 DEF Good, Others, Extends, Mount, IInv, Typed

LEMMA SetGood ==
    ASSUME IInv, NEW t \in Tabs, NEW p \in Page, Set(t, p),
           token' \in BOOLEAN,
           place[t] # "pages" =>
               p.rows = <<>> /\ p.hides = 0 /\ ~ p.isSaving /\ ~ p.showAddModal,
           place[t] \in {"closed", "checking"} => p.form = None,
           p.isSaving => p.hides < Bounds[t].hides,
           p.isLoading => p.rows = <<>> /\ ~ p.showAddModal,
           \A i \in DOMAIN p.rows : p.rows[i].id = i,
           \A i \in DOMAIN page[t].rows :
               i \in DOMAIN p.rows /\ p.rows[i] = page[t].rows[i]
    PROVE  Good(t)
  <1>1. page'[t] = p /\ page' \in [Tabs -> Page]
    BY DEF Set, IInv, Typed
  <1> QED  BY <1>1 DEF Good, Others, Extends, Set, IInv, Typed, Sound

LEMMA ViewSteps ==
    ASSUME IInv, NEW t \in Tabs,
           \/ Leave(t) \/ Open(t) \/ CheckAuth(t) \/ Navigate(t)
           \/ HandleLogout(t) \/ Logout(t)
    PROVE  Good(t)
  <1> USE DEF IInv
  <1>0. logouts \in [Tabs -> Nat] /\ logouts[t] <= Bounds[t].logouts
    BY DEF Typed, Sound
  <1>1. CASE Leave(t)
    <2>1. Typed' /\ page'[t] = Fresh /\ place'[t] = "closed" /\ logouts'[t] = 0
      BY <1>1, FreshType DEF Leave, Typed
    <2>2. Sound(t)'
      BY <2>1, ConsoleAssumption DEF Sound, Fresh
    <2> QED  BY <1>1, <2>1, <2>2 DEF Leave, Good, Others, Extends, Typed
  <1>2. CASE Open(t)
    BY <1>2, MountGood DEF Open, Typed, Sound
  <1>3. CASE CheckAuth(t)
    BY <1>3, MountGood DEF CheckAuth, Typed, Sound
  <1>4. CASE Navigate(t)
    BY <1>4, MountGood DEF Navigate, Typed, Sound
  <1>5. CASE HandleLogout(t)
    <2>1. /\ logouts' \in [Tabs -> Nat] /\ logouts'[t] <= Bounds[t].logouts
          /\ \A u \in Tabs \ {t} : logouts'[u] = logouts[u]
      BY <1>5, <1>0, BoundsType DEF HandleLogout
    <2> QED  BY <1>5, <2>1 DEF HandleLogout, Good, Typed, Sound, Others, Extends
  <1>6. CASE Logout(t)
    <2>1. /\ logouts' \in [Tabs -> Nat] /\ logouts'[t] <= Bounds[t].logouts
          /\ \A u \in Tabs \ {t} : logouts'[u] = logouts[u]
          /\ token' \in BOOLEAN
      <3>1. logouts[t] - 1 \in Nat /\ logouts[t] - 1 <= Bounds[t].logouts
        BY <1>6, <1>0, BoundsType DEF Logout
      <3>2. logouts' = [logouts EXCEPT ![t] = logouts[t] - 1] /\ token' = FALSE
        BY <1>6 DEF Logout
      <3> QED  BY <1>0, <3>1, <3>2
    <2>2. CASE place[t] = "login"
      BY <1>6, <2>1, <2>2 DEF Logout, Good, Typed, Sound, Others, Extends
    <2>3. CASE place[t] # "login"
      BY <1>6, <2>1, <2>3, MountGood DEF Logout, Typed
    <2> QED  BY <2>2, <2>3
  <1> QED  BY <1>1, <1>2, <1>3, <1>4, <1>5, <1>6

LEMMA FormSteps ==
    ASSUME IInv, NEW t \in Tabs, Type(t) \/ Submit(t) \/ SignIn(t)
    PROVE  Good(t)
  <1> USE DEF IInv, Typed
  <1>0. page[t] \in Page /\ Sound(t)
    OBVIOUS
  <1>1. CASE Type(t)
    <2>1. PICK i \in Inputs : Set(t, [page[t] EXCEPT !.form = i])
      BY <1>1 DEF Type
    <2>2. [page[t] EXCEPT !.form = i] \in Page
      BY <1>0 DEF Page
    <2>3. place[t] \notin {"closed", "checking"}
      BY <1>0, <1>1 DEF Type, Shows, Sound
    <2> QED  BY <1>0, <1>1, <2>1, <2>2, <2>3, SetGood DEF Type, Sound, Page
  <1>2. CASE Submit(t)
    <2>1. [page[t] EXCEPT !.isLoading = TRUE, !.error = FALSE] \in Page
      BY <1>0 DEF Page
    <2> QED  BY <1>0, <1>2, <2>1, SetGood DEF Submit, Sound, Page
  <1>3. CASE SignIn(t)
    <2>1. [page[t] EXCEPT !.isLoading = FALSE, !.error = TRUE] \in Page
      BY <1>0 DEF Page
    <2>2. token' \in BOOLEAN
      BY <1>3 DEF SignIn
    <2> QED  BY <1>0, <1>3, <2>1, <2>2, SetGood DEF SignIn, Sound, Page
  <1> QED  BY <1>1, <1>2, <1>3

LEMMA ListSteps ==
    ASSUME IInv, NEW t \in Tabs, Fetch(t) \/ ToggleModal(t) \/ Add(t)
    PROVE  Good(t)
  <1> USE DEF IInv, Typed
  <1>0. page[t] \in Page /\ Sound(t)
    OBVIOUS
  <1>1. CASE Fetch(t)
    <2> DEFINE p == [page[t] EXCEPT !.isLoading = FALSE,
                         !.rows = IF view[t] \in Lists THEN Mocks ELSE @]
    <2>1. p \in Page /\ p.rows \in {Mocks, <<>>}
      <3>1. (IF view[t] \in Lists THEN Mocks ELSE page[t].rows) \in Seq(Row)
        BY <1>0, FreshType, Fields
      <3>2. p \in Page
        BY <1>0, <3>1, FetchType
      <3>3. p.rows = IF view[t] \in Lists THEN Mocks ELSE page[t].rows
        BY <1>0 DEF Page
      <3> QED  BY <1>0, <1>1, <3>2, <3>3 DEF Fetch, Sound
    <2>2. page[t].rows = <<>>
      BY <1>0, <1>1 DEF Fetch, Sound
    <2>3. /\ p.hides = page[t].hides /\ p.isSaving = page[t].isSaving
          /\ p.isLoading = FALSE
      BY <1>0 DEF Page
    <2>4. Set(t, p) /\ place[t] = "pages" /\ UNCHANGED token
      BY <1>1 DEF Fetch
    <2>5. \A i \in DOMAIN p.rows : p.rows[i].id = i
      BY <2>1, FreshType
    <2> HIDE DEF p
    <2> QED  BY <1>0, <2>1, <2>2, <2>3, <2>4, <2>5, SetGood DEF Sound
  <1>2. CASE ToggleModal(t)
    <2>1. [page[t] EXCEPT !.showAddModal = ~ @] \in Page
      BY <1>0 DEF Page
    <2> QED  BY <1>0, <1>2, <2>1, SetGood DEF ToggleModal, Shows, Sound, Page
  <1>3. CASE Add(t)
    <2> DEFINE row == [id |-> Len(page[t].rows) + 1, name |-> page[t].form]
               p == [page[t] EXCEPT !.rows = Append(@, row),
                         !.showAddModal = FALSE, !.form = None]
    <2>1. page[t].rows \in Seq(Row) /\ row \in Row
      BY <1>0, <1>3 DEF Add, Page, Row
    <2>2. p \in Page /\ p.rows = Append(page[t].rows, row)
      <3>1. Append(page[t].rows, row) \in Seq(Row)
        BY <2>1
      <3>2. p \in Page
        BY <1>0, <3>1, AddType
      <3> QED  BY <1>0, <3>2 DEF Page
    <2>3. /\ \A i \in DOMAIN page[t].rows :
                i \in DOMAIN p.rows /\ p.rows[i] = page[t].rows[i]
          /\ \A i \in DOMAIN p.rows :
                i \in DOMAIN page[t].rows \/ p.rows[i].id = i
      BY <2>1, <2>2
    <2>4. \A i \in DOMAIN p.rows : p.rows[i].id = i
      BY <1>0, <2>3 DEF Sound
    <2>5. /\ p.hides = page[t].hides /\ p.isSaving = page[t].isSaving
          /\ p.isLoading = page[t].isLoading /\ ~ p.showAddModal
      BY <1>0 DEF Page
    <2>6. Set(t, p) /\ page[t].showAddModal /\ UNCHANGED token
      BY <1>3 DEF Add
    <2> HIDE DEF p
    <2> QED  BY <1>0, <2>2, <2>3, <2>4, <2>5, <2>6, SetGood DEF Sound
  <1> QED  BY <1>1, <1>2, <1>3

LEMMA SaveSteps ==
    ASSUME IInv, NEW t \in Tabs, Save(t) \/ Saved(t) \/ Hide(t) \/ Dismiss(t)
    PROVE  Good(t)
  <1> USE DEF IInv, Typed
  <1>0. page[t] \in Page /\ Sound(t)
    OBVIOUS
  <1>1. CASE Save(t)
    <2>1. [page[t] EXCEPT !.isSaving = TRUE] \in Page
      BY <1>0 DEF Page
    <2> QED  BY <1>0, <1>1, <2>1, SetGood DEF Save, Shows, Sound, Page
  <1>2. CASE Saved(t)
    <2>1. [page[t] EXCEPT !.isSaving = FALSE, !.saveSuccess = TRUE,
                          !.hides = @ + 1] \in Page
      <3>1. page[t].hides + 1 \in Nat
        BY <1>0, Fields
      <3> QED  BY <1>0, <3>1, SavedType
    <2> QED  BY <1>0, <1>2, <2>1, SetGood DEF Saved, Sound, Page
  <1>3. CASE Hide(t)
    <2>1. [page[t] EXCEPT !.saveSuccess = FALSE, !.hides = @ - 1] \in Page
      <3>1. page[t].hides - 1 \in Nat
        <4>1. page[t].hides \in Nat
          BY <1>0, Fields
        <4>2. page[t].hides > 0
          BY <1>3 DEF Hide
        <4> HIDE DEF IInv, Typed
        <4> QED  BY <4>1, <4>2
      <3> QED  BY <1>0, <3>1, HideType
    <2>2. page[t].isSaving => page[t].hides - 1 < Bounds[t].hides
      BY <1>0, BoundsType, Fields DEF Sound
    <2>3. page[t].hides > 0 /\ UNCHANGED token
          /\ Set(t, [page[t] EXCEPT !.saveSuccess = FALSE, !.hides = @ - 1])
      BY <1>3 DEF Hide
    <2>4. page[t].hides # 0 /\ place[t] = "pages"
      BY <1>0, <2>3, Fields DEF Sound
    <2> DEFINE p == [page[t] EXCEPT !.saveSuccess = FALSE, !.hides = @ - 1]
    <2>5. /\ p.rows = page[t].rows /\ p.isLoading = page[t].isLoading
          /\ p.isSaving = page[t].isSaving /\ p.hides = page[t].hides - 1
          /\ p.showAddModal = page[t].showAddModal
      BY <1>0 DEF Page
    <2> HIDE DEF p
    <2> QED  BY <1>0, <2>1, <2>2, <2>3, <2>4, <2>5, SetGood DEF Sound, p
  <1>4. CASE Dismiss(t)
    <2>1. [page[t] EXCEPT !.saveSuccess = FALSE] \in Page
      BY <1>0 DEF Page
    <2> QED  BY <1>0, <1>4, <2>1, SetGood DEF Dismiss, Sound, Page
  <1> QED  BY <1>1, <1>2, <1>3, <1>4

LEMMA Steps ==
    ASSUME IInv, [Next]_vars
    PROVE  IInv' /\ \A t \in Tabs : Extends(t)
  <1>1. CASE UNCHANGED vars
    BY <1>1 DEF vars, IInv, Typed, Sound, Extends
  <1>2. ASSUME NEW t \in Tabs, Good(t)
        PROVE  IInv' /\ \A u \in Tabs : Extends(u)
    <2>1. \A u \in Tabs \ {t} : Sound(u)' /\ Extends(u)
      BY <1>2 DEF Good, Others, IInv, Sound, Extends
    <2> QED  BY <1>2, <2>1 DEF Good, IInv
  <1>3. CASE Next
    <2>1. PICK t \in Tabs : Good(t)
      BY <1>3, ViewSteps, FormSteps, ListSteps, SaveSteps DEF Next
    <2> QED  BY <1>2, <2>1
  <1> QED  BY <1>1, <1>3

LEMMA Invariance == Spec => []IInv
  <1>1. Init => IInv
    BY FreshType, ConsoleAssumption DEF Init, IInv, Typed, Sound, Fresh, Views
  <1>2. IInv /\ [Next]_vars => IInv'
    BY Steps
  <1> QED  BY <1>1, <1>2, PTL DEF Spec

\* Of any number of tabs: a page has state only while it is mounted, and
\* waits for no more timers than it may.
THEOREM TypeCorrect == Spec => []TypeOK
  <1>1. IInv => TypeOK
    BY DEF IInv, Typed, Sound, TypeOK
  <1> QED  BY <1>1, Invariance, PTL

\* No row of a list on the screen is lost, and every row has its own key.
THEOREM RowsAreKept == Spec => RowsKept
  <1>1. ASSUME IInv, IInv', [Next]_vars, NEW t \in Tabs,
               place[t] = "pages", place'[t] = "pages", view'[t] = view[t]
        PROVE  /\ \A i \in DOMAIN page[t].rows :
                     i \in DOMAIN page'[t].rows
                     /\ page'[t].rows[i] = page[t].rows[i]
               /\ \A i, k \in DOMAIN page'[t].rows :
                     page'[t].rows[i].id = page'[t].rows[k].id => i = k
    <2>1. Extends(t)
      BY <1>1, Steps
    <2>2. Sound(t)'
      BY <1>1 DEF IInv
    <2> QED  BY <1>1, <2>1, <2>2 DEF Extends, Sound
  <1>2. IInv /\ IInv' /\ [Next]_vars =>
          [\A t \in Tabs :
             place[t] = "pages" /\ place'[t] = "pages" /\ view'[t] = view[t] =>
              LET old == page[t].rows
                  new == page'[t].rows
              IN  /\ \A i \in DOMAIN old : i \in DOMAIN new /\ new[i] = old[i]
                  /\ \A i, k \in DOMAIN new : new[i].id = new[k].id => i = k]_vars
    BY <1>1
  <1> QED  BY <1>2, Invariance, PTL DEF Spec, RowsKept
=============================================================================
