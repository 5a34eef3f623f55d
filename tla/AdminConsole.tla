---------------------------- MODULE AdminConsole ----------------------------
(***************************************************************************)
(* The React console of administrators (admin-portal-react), as it is      *)
(* built and served: tabs of one browser, which share the token in         *)
(* localStorage, and in each tab a page with its form, its list and its    *)
(* timers.  All data are the console's own; every answer of a server is a  *)
(* timer.  A timer of a page that is no longer mounted has no effect.      *)
(***************************************************************************)
EXTENDS Naturals, Sequences

CONSTANTS
    Tabs,
    Inputs,      \* what is typed into a form
    Right,       \* the input that is the administrator's name and password
    None,        \* a form nobody has typed into
    Bounds       \* per tab: of the rows of a list, and of timers at a time

ASSUME ConsoleAssumption ==
    /\ Right \in Inputs /\ None \notin Inputs
    /\ Bounds \in [Tabs -> [rows : Nat, hides : Nat, logouts : Nat]]

VARIABLES
    token,    \* localStorage holds a token
    place,    \* per tab: no document, ProtectedRoute's check, or what is shown
    view,     \* the route in question
    page,     \* the state of the page that is mounted
    logouts   \* clicks on Logout that wait for their timer

vars == <<token, place, view, page, logouts>>

Lists == {"clients", "users"}
Views == Lists \cup {"dashboard", "settings"}

\* The id of a row counts the rows before it; "mock" is the data of the source.
Row == [id : Nat, name : Inputs \cup {"mock"}]
Mocks == [i \in 1..3 |-> [id |-> i, name |-> "mock"]]

Page == [isLoading : BOOLEAN, error : BOOLEAN, form : Inputs \cup {None},
         showAddModal : BOOLEAN, rows : Seq(Row),
         isSaving : BOOLEAN, saveSuccess : BOOLEAN, hides : Nat]

Fresh == [isLoading |-> FALSE, error |-> FALSE, form |-> None,
          showAddModal |-> FALSE, rows |-> <<>>,
          isSaving |-> FALSE, saveSuccess |-> FALSE, hides |-> 0]

Init ==
    /\ token \in BOOLEAN
    /\ place = [t \in Tabs |-> "closed"]
    /\ view = [t \in Tabs |-> "dashboard"]
    /\ page = [t \in Tabs |-> Fresh]
    /\ logouts = [t \in Tabs |-> 0]

\* Everything but the login page mounts with a spinner and a timer.
Mount(t, p, v) ==
    /\ place' = [place EXCEPT ![t] = p]
    /\ view' = [view EXCEPT ![t] = v]
    /\ page' = [page EXCEPT ![t] = [Fresh EXCEPT !.isLoading = (p # "login")]]

\* Within the page.
Set(t, p) ==
    /\ page' = [page EXCEPT ![t] = p]
    /\ UNCHANGED <<place, view, logouts>>

Shows(t, views) ==
    place[t] = "pages" /\ view[t] \in views /\ ~ page[t].isLoading

-----------------------------------------------------------------------------

\* The document goes, and its timers with it: closed, or loaded anew.
Leave(t) ==
    /\ place[t] # "closed"
    /\ place' = [place EXCEPT ![t] = "closed"]
    /\ page' = [page EXCEPT ![t] = Fresh]
    /\ logouts' = [logouts EXCEPT ![t] = 0]
    /\ UNCHANGED <<token, view>>

\* The routes of App; an unknown path is that of the dashboard.
Open(t) ==
    /\ place[t] = "closed"
    /\ \/ Mount(t, "login", view[t])
       \/ \E v \in Views : Mount(t, "checking", v)
    /\ UNCHANGED <<token, logouts>>

\* isAuthenticated, once for each document.
CheckAuth(t) ==
    /\ place[t] = "checking"
    /\ Mount(t, IF token THEN "pages" ELSE "login", view[t])
    /\ UNCHANGED <<token, logouts>>

Navigate(t) ==
    /\ place[t] = "pages"
    /\ \E v \in Views \ {view[t]} : Mount(t, "pages", v)
    /\ UNCHANGED <<token, logouts>>

\* Into the fields of the login page, of a modal, or of the settings.
Type(t) ==
    /\ \/ place[t] = "login" /\ ~ page[t].isLoading
       \/ page[t].showAddModal
       \/ Shows(t, {"settings"})
    /\ \E i \in Inputs : Set(t, [page[t] EXCEPT !.form = i])
    /\ UNCHANGED token

\* handleSubmit of the login page; its fields are required.
Submit(t) ==
    /\ place[t] = "login" /\ ~ page[t].isLoading /\ page[t].form # None
    /\ Set(t, [page[t] EXCEPT !.isLoading = TRUE, !.error = FALSE])
    /\ UNCHANGED token

\* Mutant: isLoading is reset in the branches and not in a finally.
SignInNoFinally(t) ==
    /\ place[t] = "login" /\ page[t].isLoading
    /\ token' = (token \/ page[t].form = Right)
    /\ Set(t, [page[t] EXCEPT !.isLoading = (page[t].form = Right), !.error = TRUE])

\* login's timer and the rest of handleSubmit.  App gives the page no
\* setIsAuthenticated, so that success ends in an exception too.
SignIn(t) ==
    /\ place[t] = "login" /\ page[t].isLoading
    /\ token' = (token \/ page[t].form = Right)
    /\ Set(t, [page[t] EXCEPT !.isLoading = FALSE, !.error = TRUE])

\* A click on Logout; nothing keeps the button from a second one.
HandleLogout(t) ==
    /\ place[t] = "pages" /\ logouts[t] < Bounds[t].logouts
    /\ logouts' = [logouts EXCEPT ![t] = @ + 1]
    /\ UNCHANGED <<token, place, view, page>>

\* Mutant: the pages are left, but not unmounted.
LogoutKeeps(t) ==
    /\ logouts[t] > 0
    /\ logouts' = [logouts EXCEPT ![t] = @ - 1]
    /\ token' = FALSE
    /\ place' = [place EXCEPT ![t] = "login"]
    /\ UNCHANGED <<view, page>>

\* logout's timer, and the way to the login page.
Logout(t) ==
    /\ logouts[t] > 0
    /\ logouts' = [logouts EXCEPT ![t] = @ - 1]
    /\ token' = FALSE
    /\ IF place[t] = "login"
       THEN UNCHANGED <<place, view, page>>
       ELSE Mount(t, "login", view[t])

-----------------------------------------------------------------------------

\* The timer that stands for the request of a page.
Fetch(t) ==
    /\ place[t] = "pages" /\ page[t].isLoading
    /\ Set(t, [page[t] EXCEPT !.isLoading = FALSE,
                              !.rows = IF view[t] \in Lists THEN Mocks ELSE @])
    /\ UNCHANGED token

\* Mutant: the page and its button are shown while the list is loading.
ToggleModalEarly(t) ==
    /\ place[t] = "pages" /\ view[t] \in Lists
    /\ Set(t, [page[t] EXCEPT !.showAddModal = ~ @])
    /\ UNCHANGED token

\* The Add button; Cancel and Close, which keep what was typed.
ToggleModal(t) ==
    /\ Shows(t, Lists)
    /\ Set(t, [page[t] EXCEPT !.showAddModal = ~ @])
    /\ UNCHANGED token

\* handleAddClient, handleAddUser; a name is required.
Add(t) ==
    /\ page[t].showAddModal
    /\ page[t].form # None
    /\ Len(page[t].rows) < Bounds[t].rows
    /\ Set(t, [page[t] EXCEPT
                 !.rows = Append(@, [id |-> Len(@) + 1, name |-> page[t].form]),
                 !.showAddModal = FALSE,
                 !.form = None])
    /\ UNCHANGED token

\* handleSaveSettings.
Save(t) ==
    /\ Shows(t, {"settings"}) /\ ~ page[t].isSaving
    /\ page[t].hides < Bounds[t].hides
    /\ Set(t, [page[t] EXCEPT !.isSaving = TRUE])
    /\ UNCHANGED token

Saved(t) ==
    /\ page[t].isSaving
    /\ Set(t, [page[t] EXCEPT !.isSaving = FALSE, !.saveSuccess = TRUE,
                              !.hides = @ + 1])
    /\ UNCHANGED token

\* The timer of an earlier message hides a later one.
Hide(t) ==
    /\ page[t].hides > 0
    /\ Set(t, [page[t] EXCEPT !.saveSuccess = FALSE, !.hides = @ - 1])
    /\ UNCHANGED token

Dismiss(t) ==
    /\ page[t].saveSuccess
    /\ Set(t, [page[t] EXCEPT !.saveSuccess = FALSE])
    /\ UNCHANGED token

-----------------------------------------------------------------------------

Next == \E t \in Tabs :
    \/ Leave(t) \/ Open(t) \/ CheckAuth(t) \/ Navigate(t) \/ Type(t)
    \/ Submit(t) \/ SignIn(t) \/ HandleLogout(t) \/ Logout(t)
    \/ Fetch(t) \/ ToggleModal(t) \/ Add(t)
    \/ Save(t) \/ Saved(t) \/ Hide(t) \/ Dismiss(t)

Spec == Init /\ [][Next]_vars

\* The browser runs a timer that it does not drop with its document; one that
\* a page has set serves only as long as that page is mounted.
FairSpec ==
    /\ Spec
    /\ \A t \in Tabs :
          /\ WF_vars(CheckAuth(t)) /\ WF_vars(SignIn(t)) /\ WF_vars(Logout(t))
          /\ \A v \in Views : WF_vars(view[t] = v /\ Fetch(t))
          /\ WF_vars(Saved(t)) /\ WF_vars(Hide(t))
-----------------------------------------------------------------------------

\* With it: a page has state only while it is mounted.
TypeOK ==
    /\ token \in BOOLEAN
    /\ place \in [Tabs -> {"closed", "checking", "login", "pages"}]
    /\ view \in [Tabs -> Views]
    /\ page \in [Tabs -> Page]
    /\ logouts \in [Tabs -> Nat]
    /\ \A t \in Tabs :
          /\ place[t] # "pages" =>
                page[t].rows = <<>> /\ page[t].hides = 0 /\ ~ page[t].isSaving
          /\ place[t] \in {"closed", "checking"} => page[t].form = None
          /\ page[t].isSaving => page[t].hides < Bounds[t].hides
          /\ logouts[t] <= Bounds[t].logouts

\* As long as a list is on the screen, no row that was added to it is lost
\* to the answer of the fetch (ClientsPage.js:41, UsersPage.js:25), and a new
\* row has a key of its own, although a key is a count (ClientsPage.js:116).
RowsKept ==
    [][\A t \in Tabs :
          place[t] = "pages" /\ place'[t] = "pages" /\ view'[t] = view[t] =>
              LET old == page[t].rows
                  new == page'[t].rows
              IN  /\ \A i \in DOMAIN old : i \in DOMAIN new /\ new[i] = old[i]
                  /\ \A i, k \in DOMAIN new : new[i].id = new[k].id => i = k]_vars

\* Every spinner goes, also after the sign-in that throws (LoginPage.js:34);
\* every message about saved settings goes, also with several timers
\* (SettingsPage.js:86); and a logout leaves the pages (Layout.js:16).
WaitsEnd ==
    \A t \in Tabs :
        /\ place[t] = "checking" ~> place[t] # "checking"
        /\ place[t] = "login" /\ page[t].isLoading ~> ~ page[t].isLoading
        /\ \A v \in Views : place[t] = "pages" /\ view[t] = v /\ page[t].isLoading
                              ~> ~ (view[t] = v /\ page[t].isLoading)
        /\ page[t].isSaving ~> ~ page[t].isSaving
        /\ page[t].saveSuccess ~> ~ page[t].saveSuccess
        /\ logouts[t] > 0 ~> place[t] # "pages"
=============================================================================
