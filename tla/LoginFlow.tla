------------------------------ MODULE LoginFlow ------------------------------
(***************************************************************************)
(* Signing in, consenting and signing out: the tabs of one browser on the  *)
(* pages of login-consent-app-react (LoginPage, ConsentPage, LogoutPage    *)
(* over hydraService), and the sign-in with a Microsoft account of         *)
(* config/entra-id/azure-routes.js, which has one session for all tabs.    *)
(* Ory Hydra opens a request for each challenge; a page asks for it,       *)
(* accepts or rejects it, and follows Hydra's redirect.                    *)
(*                                                                         *)
(* External: Hydra behind /api, the browser, Azure AD, and the session of  *)
(* passport 0.6, which is replaced at each login and logout.  Pages are    *)
(* those of the production build (Dockerfile): effects run once.  Texts,   *)
(* error messages and the remember box are left out.                       *)
(***************************************************************************)
EXTENDS Naturals, FiniteSets

CONSTANTS
    Tabs,
    Challenges,
    Kind,       \* what each challenge is for
    Skip,       \* the challenges whose requests have skip set
    Scopes,
    Requested,  \* requested_scope of each challenge
    People,     \* the subjects
    Barred,     \* those whose Azure tenant is not in allowedTenants
    None,       \* '' or null
    Absent,     \* undefined
    MaxBehind,  \* bound: how many decisions of gone documents are on their way
    Faults      \* what may go wrong between a page and Hydra

Kinds == {"login", "consent", "logout"}

ASSUME ChallengeAssumption ==
    /\ None \notin Challenges \cup {Absent}
    /\ Absent \notin Challenges
    /\ Kind \in [Challenges -> Kinds]
    /\ Skip \subseteq Challenges
    /\ Requested \in [Challenges -> (SUBSET Scopes) \cup {Absent}]
ASSUME PeopleAssumption == None \notin People /\ Barred \subseteq People
ASSUME BoundAssumption == MaxBehind \in Nat
ASSUME FaultAssumption == Faults \subseteq {"down", "lost"}

VARIABLES
    request,  \* what Hydra has recorded for each challenge
    page,     \* the document of each tab
    calls,    \* the calls that each document waits for
    behind,   \* decisions sent by documents that are gone
    session   \* express-session on the backend, shared by the tabs

vars == <<request, page, calls, behind, session>>

Request == [state : {"open", "accepted", "rejected"},
            subject : People \cup {None}, grant : SUBSET Scopes]

\* url is the challenge in the address, held the one in the page's state.
\* known: the request was fetched.  going: window.location.href is set.
Page == [at : Kinds \cup {"azure", "callback", "away"},
         url : Challenges \cup {None}, held : Challenges \cup {None},
         loading : BOOLEAN, known : BOOLEAN, ticked : SUBSET Scopes,
         going : {"nowhere", "redirect", "azure"}]

Call == [op : {"get", "accept", "reject"}, challenge : Challenges \cup {None},
         subject : People \cup {None}, grant : SUBSET Scopes,
         res : {"pending", "ok", "error"}]

Session == [slot : Challenges \cup {None}, states : SUBSET Tabs]

----------------------------------------------------------------------------
(* Documents and their calls. *)

Away == [at |-> "away", url |-> None, held |-> None, loading |-> FALSE,
         known |-> FALSE, ticked |-> {}, going |-> "nowhere"]

\* A page after its first effect.
Loaded(k, c) ==
    [Away EXCEPT !.at = k, !.url = c, !.held = c, !.loading = c # None]

Ask(op, c, subject, grant) ==
    [op |-> op, challenge |-> c, subject |-> subject, grant |-> grant,
     res |-> "pending"]

Fetches(c) == IF c = None THEN {} ELSE {Ask("get", c, None, {})}

Undone(t) == {x \in calls[t] : x.op # "get" /\ x.res = "pending"}

\* Another document replaces that of t.  The browser gives up what it has
\* sent, which may still arrive or not.
Replace(t, p, cs) ==
    /\ page' = [page EXCEPT ![t] = p]
    /\ calls' = [calls EXCEPT ![t] = cs]
    /\ \/ behind' = behind
       \/ /\ Undone(t) # {}
          /\ behind' = behind \cup Undone(t)
          /\ Cardinality(behind') <= MaxBehind

\* Hydra, or the link of an older message, opens a page in t; so does reload.
Open(t, k, c) ==
    /\ c # None => Kind[c] = k
    /\ Replace(t, Loaded(k, c), Fetches(c))
    /\ UNCHANGED <<request, session>>

----------------------------------------------------------------------------
(* Hydra's side of a call. *)

Recorded(x) ==
    [state |-> IF x.op = "accept" THEN "accepted" ELSE "rejected",
     subject |-> x.subject, grant |-> x.grant]

CanDo(x) == x.op # "get" /\ x.challenge # None

\* A request that is decided already may be refused, or decided again as long
\* as the browser has not followed the first redirect.
Outcome(x, done, res) ==
    /\ done => CanDo(x)
    /\ res = "ok" => x.challenge # None /\ (x.op # "get" => done)
    /\ done /\ res = "error" => "lost" \in Faults
    /\ ~done /\ res = "error" /\ x.challenge # None =>
          "down" \in Faults \/ request[x.challenge].state # "open"

Record(x, done) ==
    request' = IF done THEN [request EXCEPT ![x.challenge] = Recorded(x)]
               ELSE request

Backend(t) ==
    \E x \in calls[t], done \in BOOLEAN, res \in {"ok", "error"} :
        /\ x.res = "pending"
        /\ Outcome(x, done, res)
        /\ Record(x, done)
        /\ calls' = [calls EXCEPT ![t] = (@ \ {x}) \cup {[x EXCEPT !.res = res]}]
        /\ UNCHANGED <<page, behind, session>>

BackendLate ==
    \E x \in behind, done \in BOOLEAN :
        /\ done => CanDo(x)
        /\ Record(x, done)
        /\ behind' = behind \ {x}
        /\ UNCHANGED <<page, calls, session>>

----------------------------------------------------------------------------
(* The pages. *)

IsPage(t) == page[t].at \in Kinds

\* The buttons: while isLoading the spinner is in their place.
Form(t) == IsPage(t) /\ ~page[t].loading

\* Mutant: the page shows its buttons while it waits.
SendShown(t, x) ==
    /\ calls' = [calls EXCEPT ![t] = @ \cup {x}]
    /\ UNCHANGED <<request, page, behind, session>>

\* The boxes ticked at first.
Ticks(c) == IF Requested[c] = Absent THEN {} ELSE Requested[c]

\* setIsLoading(true), then the call.
Send(t, x) ==
    /\ page' = [page EXCEPT ![t].loading = TRUE]
    /\ calls' = [calls EXCEPT ![t] = @ \cup {x}]
    /\ UNCHANGED <<request, behind, session>>

\* Mutant: useState() without ''.
NoState == Absent

\* fetchLoginRequest was made in the first render, where the challenge of the
\* state is still '': that is what handleAcceptLogin, called from it, sends.
InFirstRender == None

SkipAccept(p) ==
    Ask("accept", InFirstRender, None,
        IF p.at = "consent" THEN Ticks(p.url) ELSE {})

\* Mutant: the spinner stays.
FailedQuietly(p) == p

\* The catch clauses: setIsLoading(false).
Failed(p) == [p EXCEPT !.loading = FALSE]

\* The request is there.  A logout request has no skip.
Fetched(p) ==
    IF p.at # "logout" /\ p.url \in Skip THEN [p EXCEPT !.known = TRUE]
    ELSE [p EXCEPT !.known = TRUE, !.loading = FALSE,
                   !.ticked = IF p.at = "consent" THEN Ticks(p.url) ELSE {}]

Redirected(p) == [p EXCEPT !.going = "redirect"]

\* Mutant: an error is followed like a success.
RedirectedAnyway(p, x) == IF x.op = "get" THEN Fetched(p) ELSE Redirected(p)

Continued(p, x) ==
    IF x.res = "error" THEN Failed(p)
    ELSE IF x.op = "get" THEN Fetched(p) ELSE Redirected(p)

SkipCalls(p, x) ==
    IF x.op = "get" /\ x.res = "ok" /\ p.at # "logout" /\ p.url \in Skip
    THEN {SkipAccept(p)} ELSE {}

Return(t) ==
    \E x \in calls[t] :
        /\ IsPage(t)
        /\ x.res # "pending"
        /\ page' = [page EXCEPT ![t] = Continued(@, x)]
        /\ calls' = [calls EXCEPT ![t] = (@ \ {x}) \cup SkipCalls(page[t], x)]
        /\ UNCHANGED <<request, behind, session>>

\* Sign In: any name and password will do.  Without them nothing is sent.
SignIn(t, p) ==
    /\ page[t].at = "login" /\ Form(t)
    /\ Send(t, Ask("accept", page[t].held, p, {}))

\* ConsentPage shows a box for each scope of the request it has fetched.
Toggle(t, s) ==
    /\ page[t].at = "consent" /\ Form(t)
    /\ page[t].known /\ s \in Ticks(page[t].url)
    /\ page' = [page EXCEPT ![t].ticked =
                   IF s \in @ THEN @ \ {s} ELSE @ \cup {s}]
    /\ UNCHANGED <<request, calls, behind, session>>

\* Mutant: at least one permission is not asked for.
AllowAny(t) ==
    /\ page[t].at = "consent" /\ Form(t)
    /\ Send(t, Ask("accept", page[t].held, None, page[t].ticked))

Allow(t) ==
    /\ page[t].at = "consent" /\ Form(t)
    /\ page[t].ticked # {}
    /\ Send(t, Ask("accept", page[t].held, None, page[t].ticked))

SignOut(t) ==
    /\ page[t].at = "logout" /\ Form(t)
    /\ Send(t, Ask("accept", page[t].held, None, {}))

\* Cancel, or No.
Reject(t) ==
    /\ Form(t)
    /\ Send(t, Ask("reject", page[t].held, None, {}))

----------------------------------------------------------------------------
(* Signing in with Azure. *)

NoSession == [slot |-> None, states |-> {}]

\* Microsoft Account, or the form of EnterpriseLogin with an e-mail address.
\* The page is still there until the browser has the answer.
GoToAzure(t) ==
    /\ page[t].at = "login" /\ Form(t)
    /\ page' = [page EXCEPT ![t].going = "azure"]
    /\ UNCHANGED <<request, calls, behind, session>>

\* Mutant: an empty login_challenge is stored too.
BegunAlways(t) == [slot |-> page[t].held, states |-> session.states \cup {t}]

\* GET /auth/azure: the login challenge is stored in the session, and so is
\* the state with which passport will recognise the callback of t.
Begun(t) ==
    [slot |-> IF page[t].held = None THEN session.slot ELSE page[t].held,
     states |-> session.states \cup {t}]

\* The browser does what window.location.href says.  At Azure url remembers
\* the challenge that t has brought.
Follow(t) ==
    /\ page[t].going # "nowhere"
    /\ IF page[t].going = "redirect"
       THEN /\ Replace(t, Away, {})
            /\ UNCHANGED session
       ELSE /\ Replace(t, [Away EXCEPT !.at = "azure", !.url = page[t].held], {})
            /\ session' = Begun(t)
    /\ UNCHANGED request

\* failureRedirect: Azure refuses, or the session knows no state of t.
AzureFails(t) ==
    /\ page[t].at = "azure"
    /\ Replace(t, Loaded("login", None), {})
    /\ UNCHANGED <<request, session>>

\* The tenant of the person is not allowed: the answer is an error page.
AzureBars(t) ==
    /\ page[t].at = "azure" /\ t \in session.states
    /\ Barred # {}
    /\ Replace(t, Away, {})
    /\ session' = [session EXCEPT !.states = @ \ {t}]
    /\ UNCHANGED request

\* POST /auth/azure/callback of person p: the challenge is read from the
\* session, passport replaces the session, and Hydra is asked to accept.
\* Without a challenge: /login?error=missing_challenge.
Callback(t, p) ==
    /\ page[t].at = "azure" /\ t \in session.states
    /\ p \notin Barred
    /\ session' = NoSession
    /\ IF session.slot = None
       THEN Replace(t, Loaded("login", None), {})
       ELSE Replace(t, [Away EXCEPT !.at = "callback", !.url = page[t].url,
                                    !.held = session.slot],
                    {Ask("accept", session.slot, p, {})})
    /\ UNCHANGED request

\* Hydra's redirect, or /login?error=hydra_error.
CallbackReturns(t) ==
    \E x \in calls[t] :
        /\ page[t].at = "callback"
        /\ x.res # "pending"
        /\ Replace(t, IF x.res = "ok" THEN Away ELSE Loaded("login", None), {})
        /\ UNCHANGED <<request, session>>

\* GET /auth/azure/logout.
AzureLogout(t) ==
    /\ Replace(t, Away, {})
    /\ session' = NoSession
    /\ UNCHANGED request

----------------------------------------------------------------------------

Init ==
    /\ request = [c \in Challenges |->
                     [state |-> "open", subject |-> None, grant |-> {}]]
    /\ page = [t \in Tabs |-> Away]
    /\ calls = [t \in Tabs |-> {}]
    /\ behind = {}
    /\ session = NoSession

Opens(t) == \E k \in Kinds, c \in Challenges \cup {None} : Open(t, k, c)

User(t) ==
    \/ \E p \in People : SignIn(t, p)
    \/ \E s \in Scopes : Toggle(t, s)
    \/ Allow(t)
    \/ SignOut(t)
    \/ Reject(t)
    \/ GoToAzure(t)

Azure(t) ==
    \/ AzureFails(t)
    \/ AzureBars(t)
    \/ \E p \in People : Callback(t, p)
    \/ CallbackReturns(t)
    \/ AzureLogout(t)

Next ==
    \/ \E t \in Tabs : Opens(t) \/ User(t) \/ Backend(t) \/ Return(t)
                       \/ Follow(t) \/ Azure(t)
    \/ BackendLate

Spec == Init /\ [][Next]_vars

\* Every call is answered, if only with the 504 of nginx (proxy_read_timeout);
\* callbacks run, and the browser goes where it is sent.
FairSpec ==
    /\ Spec
    /\ \A t \in Tabs : /\ WF_vars(Backend(t))
                       /\ WF_vars(Return(t))
                       /\ WF_vars(Follow(t))

----------------------------------------------------------------------------
(* Properties. *)

\* The variables have their types: a challenge in a page's state or in a call
\* is one that Hydra gave, or '' (LoginPage.js:16).
TypeOK ==
    /\ request \in [Challenges -> Request]
    /\ page \in [Tabs -> Page]
    /\ calls \in [Tabs -> SUBSET Call]
    /\ behind \subseteq Call
    /\ session \in Session

\* A page waits for one call at a time: nobody accepts and rejects the same
\* request from one page, however fast the buttons are pressed, also while
\* the browser is already leaving for Azure (the spinner, LoginPage.js:116).
OneCall == \A t \in Tabs : \A x, y \in calls[t] : x = y

AcceptsConsent(x) ==
    x.op = "accept" /\ x.challenge # None /\ Kind[x.challenge] = "consent"

\* What x grants if it accepts a consent request.
Granted(x) ==
    AcceptsConsent(x) => x.grant # {} /\ x.grant \subseteq Ticks(x.challenge)

RequestsGranted ==
    \A c \in Challenges :
        Kind[c] = "consent" /\ request[c].state = "accepted" =>
            request[c].grant # {} /\ request[c].grant \subseteq Ticks(c)

\* What Hydra is asked to grant, now or by a page that is gone, and what it
\* has granted, is something, and nothing but what the client requested, and
\* the page has shown it: a consent page that could not fetch its request
\* accepts nothing (ConsentPage.js:85).
GrantsTicked ==
    /\ \A t \in Tabs : \A x \in calls[t] :
          Granted(x) /\ (AcceptsConsent(x) => page[t].known)
    /\ \A x \in behind : Granted(x)
    /\ RequestsGranted

\* A page leaves for Hydra's redirect only when Hydra has a decision on the
\* page's own challenge, whatever other tabs did and whatever was lost
\* (LoginPage.js:89).
LeavesDecided ==
    \A t \in Tabs :
        page[t].going = "redirect" =>
            /\ page[t].held = page[t].url /\ page[t].url # None
            /\ request[page[t].url].state # "open"

\* Who comes back from Azure with a state the session knows, and had brought
\* a challenge, is not told that the challenge is missing, whichever tabs have
\* begun, finished or given up in between (azure-routes.js:66, 95).
ChallengeKept ==
    \A t \in Tabs :
        page[t].at = "azure" /\ t \in session.states /\ page[t].url # None =>
            session.slot # None

\* A spinner ends if its tab is left alone: after every answer, good or bad,
\* a page shows its buttons or leaves (the catch clauses, LoginPage.js:51).
SpinnersEnd ==
    \A t \in Tabs : \/ []<>(~page[t].loading)
                    \/ []<><<Opens(t) \/ AzureLogout(t)>>_vars

\* LoginPage.js:41 and ConsentPage.js:39, "If skip is true, accept the login
\* request": what a page accepts is the request of its own challenge.  It
\* does not hold: see InFirstRender.
AcceptsOwn ==
    \A t \in Tabs : \A x \in calls[t] :
        x.op = "accept" /\ page[t].at \in {"login", "consent"} /\ page[t].known =>
            x.challenge = page[t].url

----------------------------------------------------------------------------
(* The inductive invariant of the proofs. *)

Decided(c, req) == c # None /\ req[c].state # "open"

\* A page p that waits for the calls cs: its state is about the challenge of
\* its address, it waits for one call at most, with its buttons hidden, and
\* leaves when that is decided.
PageSound(p, cs, req) ==
    /\ p.held = p.url
    /\ p.url # None => Kind[p.url] = p.at
    /\ ~p.loading => cs = {}
    /\ p.known => p.url # None
    /\ p.ticked # {} => p.known /\ p.ticked \subseteq Ticks(p.url)
    /\ p.going = "redirect" => cs = {} /\ p.loading /\ Decided(p.url, req)
    /\ p.going = "azure" => p.at = "login"
    /\ \A x \in cs :
          /\ x.challenge \in {p.url, None}
          /\ x.op = "get" => x.challenge # None
          /\ x.res = "ok" /\ x.op # "get" => Decided(x.challenge, req)
          /\ AcceptsConsent(x) => p.known

\* Away from the pages there is at most the call of the Azure callback.
OutsideSound(p, cs) ==
    /\ p.going = "nowhere"
    /\ p.at # "callback" => cs = {}
    /\ p.at = "azure" /\ p.url # None => Kind[p.url] = "login"
    /\ \A x \in cs : x.challenge # None /\ Kind[x.challenge] = "login"

Sound(p, cs, req) ==
    /\ \A x, y \in cs : x = y
    /\ \A x \in cs : Granted(x)
    /\ IF p.at \in Kinds THEN PageSound(p, cs, req) ELSE OutsideSound(p, cs)

SlotSound == session.slot # None => Kind[session.slot] = "login"

\* Every document is consistent with its address, its calls and Hydra's
\* decisions; whatever is on its way to Hydra grants what was ticked; the
\* session holds a login challenge (LoginPage.js:13-114, ConsentPage.js:12-108,
\* azure-routes.js:46, 66).
FlowSound ==
    /\ \A t \in Tabs : Sound(page[t], calls[t], request)
    /\ \A x \in behind : Granted(x)
    /\ RequestsGranted
    /\ SlotSound
    /\ ChallengeKept

----------------------------------------------------------------------------
(* The decisions that the tabs make. *)

Made(xs) ==
    {[challenge |-> x.challenge, outcome |-> Recorded(x)] :
        x \in {y \in xs : y.challenge # None}}

\* Which request a document is about.
About(p) ==
    IF p.at \in Kinds THEN p.url ELSE IF p.at = "callback" THEN p.held ELSE None

ToldToGo(p, cs) == p.going = "redirect" \/ \E x \in cs : x.op # "get" /\ x.res = "ok"

Visits == [t \in Tabs |-> About(page[t])]
Seen == {t \in Tabs : page[t].known}
Deciding == [t \in Tabs |-> Made(Undone(t))]
Told == {t \in Tabs : ToldToGo(page[t], calls[t])}

Promise == INSTANCE Decisions WITH
    request <- request, visit <- Visits, seen <- Seen, decision <- Deciding,
    told <- Told, late <- Made(behind), brought <- session.slot

\* The pages and the Azure sign-in promise Decisions: what Hydra records was
\* decided in a visit to that request or brought to Azure, once, and granted
\* from what was shown; whoever is told to go on has a decision recorded, though
\* calls fail, are lost or arrive late (LoginPage.js:36-114, ConsentPage.js:31-135,
\* LogoutPage.js:30-65, azure-routes.js:46-115).
ImplementsDecisions == Promise!Spec
=============================================================================
