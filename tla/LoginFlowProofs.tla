-------------------------- MODULE LoginFlowProofs --------------------------
(***************************************************************************)
(* The safety properties of LoginFlow, for any tabs, challenges, scopes    *)
(* and people, with lost, late and failing calls.                          *)
(***************************************************************************)
EXTENDS LoginFlow, TLAPS

LEMMA TicksType ==
    ASSUME NEW c \in Challenges
    PROVE  Ticks(c) \in SUBSET Scopes
  BY ChallengeAssumption DEF Ticks

\* A new document, with its calls.
LEMMA AwaySound ==
    ASSUME NEW req
    PROVE  Away \in Page /\ Sound(Away, {}, req) /\ Away.at # "azure"
  BY DEF Away, Page, Kinds, Sound, OutsideSound

LEMMA LoadedSound ==
    ASSUME NEW k \in Kinds, NEW c \in Challenges \cup {None}, NEW req,
           c # None => Kind[c] = k
    PROVE  /\ Loaded(k, c) \in Page /\ Loaded(k, c).at = k
           /\ Fetches(c) \in SUBSET Call
           /\ Sound(Loaded(k, c), Fetches(c), req)
  <1> DEFINE p == Loaded(k, c)
  <1>1. /\ p.at = k /\ p.url = c /\ p.held = c /\ p.known = FALSE
        /\ p.ticked = {} /\ p.going = "nowhere"
    BY DEF Loaded, Away
  <1>2. p \in Page
    BY DEF Loaded, Away, Page
  <1>8. ~p.loading => c = None
    BY DEF Loaded, Away
  <1>3. Fetches(c) \in SUBSET Call
    BY DEF Fetches, Ask, Call
  <1>4. c = None => Fetches(c) = {}
    BY DEF Fetches
  <1>5. \A x \in Fetches(c) : /\ x.op = "get" /\ x.challenge = c /\ c # None
                              /\ x.res = "pending"
    BY DEF Fetches, Ask
  <1>6. \A x, y \in Fetches(c) : x = y
    BY DEF Fetches
  <1>7. PageSound(Loaded(k, c), Fetches(c), req)
    BY <1>1, <1>4, <1>5, <1>8 DEF PageSound, AcceptsConsent
  <1> QED
    BY <1>1, <1>2, <1>3, <1>5, <1>6, <1>7 DEF Sound, Granted, AcceptsConsent

\* What Hydra decides stays decided.
Keeps(req, new) ==
    \A c \in Challenges : req[c].state # "open" => new[c].state # "open"

LEMMA SoundKept ==
    ASSUME NEW p \in Page, NEW cs \in SUBSET Call, NEW req, NEW new,
           Sound(p, cs, req), Keeps(req, new)
    PROVE  Sound(p, cs, new)
  <1>1. \A c \in Challenges \cup {None} : Decided(c, req) => Decided(c, new)
    BY DEF Decided, Keeps
  <1>2. p.url \in Challenges \cup {None}
    BY DEF Page
  <1>3. \A x \in cs : x.challenge \in Challenges \cup {None}
    BY DEF Call
  <1>4. PageSound(p, cs, req) => PageSound(p, cs, new)
    BY <1>1, <1>2, <1>3 DEF PageSound
  <1> QED  BY <1>4 DEF Sound

LEMMA RecordKeeps ==
    ASSUME request \in [Challenges -> Request], RequestsGranted,
           NEW x \in Call, NEW done \in BOOLEAN, Granted(x),
           done => CanDo(x), Record(x, done)
    PROVE  /\ request' \in [Challenges -> Request]
           /\ RequestsGranted'
           /\ Keeps(request, request')
           /\ done => Decided(x.challenge, request')
  <1>1. CASE ~done
    BY <1>1 DEF Record, RequestsGranted, Keeps
  <1>2. CASE done
    <2>1. x.challenge \in Challenges /\ x.op \in {"accept", "reject"}
      BY <1>2 DEF CanDo, Call
    <2>2. request' = [request EXCEPT ![x.challenge] = Recorded(x)]
      BY <1>2 DEF Record
    <2>3. Recorded(x) \in Request
      BY DEF Recorded, Call, Request
    <2>4. \A c \in Challenges :
             request'[c] = IF c = x.challenge THEN Recorded(x) ELSE request[c]
      BY <2>2
    <2>5. Recorded(x).state # "open" /\ Recorded(x).grant = x.grant
      BY DEF Recorded
    <2>6. Recorded(x).state = "accepted" => x.op = "accept"
      BY <2>1 DEF Recorded
    <2>7. RequestsGranted'
      BY <2>1, <2>4, <2>5, <2>6, ChallengeAssumption
      DEF RequestsGranted, Granted, AcceptsConsent, Ticks
    <2> QED
      BY <2>1, <2>2, <2>3, <2>4, <2>5, <2>7, ChallengeAssumption
      DEF Keeps, Decided
  <1> QED  BY <1>1, <1>2

----------------------------------------------------------------------------

Inv == TypeOK /\ FlowSound

\* The part of the invariant that is not about the session.
PagesSound ==
    /\ request \in [Challenges -> Request]
    /\ page \in [Tabs -> Page]
    /\ calls \in [Tabs -> SUBSET Call]
    /\ behind \subseteq Call
    /\ \A t \in Tabs : Sound(page[t], calls[t], request)
    /\ \A x \in behind : Granted(x)
    /\ RequestsGranted

SessionSound == session \in Session /\ SlotSound /\ ChallengeKept

LEMMA InvParts ==
    /\ Inv <=> PagesSound /\ SessionSound
    /\ Inv' <=> PagesSound' /\ SessionSound'
  BY DEF Inv, TypeOK, FlowSound, PagesSound, SessionSound

LEMMA ReplaceKeeps ==
    ASSUME Inv, NEW t \in Tabs, NEW p \in Page, NEW cs \in SUBSET Call,
           Replace(t, p, cs), Sound(p, cs, request), UNCHANGED request
    PROVE  PagesSound'
  <1>0. PagesSound
    BY InvParts
  <1>1. page' = [page EXCEPT ![t] = p] /\ calls' = [calls EXCEPT ![t] = cs]
    BY DEF Replace
  <1>2. behind' \subseteq behind \cup calls[t]
    BY DEF Replace, Undone
  <1>3. \A x \in calls[t] : Granted(x)
    BY <1>0 DEF PagesSound, Sound
  <1>4. \A u \in Tabs : Sound(page'[u], calls'[u], request)
    BY <1>0, <1>1 DEF PagesSound
  <1>5. \A x \in behind' : Granted(x)
    BY <1>0, <1>2, <1>3 DEF PagesSound
  <1> QED
    BY <1>0, <1>1, <1>2, <1>4, <1>5, Zenon DEF PagesSound, RequestsGranted

LEMMA EditKeeps ==
    ASSUME Inv, NEW t \in Tabs, NEW p \in Page, NEW cs \in SUBSET Call,
           page' = [page EXCEPT ![t] = p], calls' = [calls EXCEPT ![t] = cs],
           Sound(p, cs, request), UNCHANGED <<request, behind>>
    PROVE  PagesSound'
  <1>0. PagesSound
    BY InvParts
  <1>1. \A u \in Tabs : Sound(page'[u], calls'[u], request)
    BY <1>0 DEF PagesSound
  <1> QED
    BY <1>0, <1>1, Zenon DEF PagesSound, RequestsGranted

\* The session is as sound as it was if no tab has come to Azure.
LEMMA SessionKept ==
    ASSUME Inv, UNCHANGED session,
           \A u \in Tabs : page'[u].at = "azure" =>
               page[u].at = "azure" /\ page'[u].url = page[u].url
    PROVE  SessionSound'
  BY InvParts DEF SessionSound, SlotSound, ChallengeKept

LEMMA OpenStep ==
    ASSUME Inv, NEW t \in Tabs, Opens(t)
    PROVE  Inv'
  <1>1. PICK k \in Kinds, c \in Challenges \cup {None} : Open(t, k, c)
    BY DEF Opens
  <1>2. PagesSound'
    BY <1>1, LoadedSound, ReplaceKeeps DEF Open
  <1>3. SessionSound'
    BY <1>1, LoadedSound, SessionKept, InvParts DEF Open, Replace, PagesSound, Kinds
  <1> QED  BY <1>2, <1>3, InvParts

LEMMA BackendStep ==
    ASSUME Inv, NEW t \in Tabs, Backend(t)
    PROVE  Inv'
  <1>0. PagesSound
    BY InvParts
  <1>1. PICK x \in calls[t], done \in BOOLEAN, res \in {"ok", "error"} :
            /\ x.res = "pending" /\ Outcome(x, done, res) /\ Record(x, done)
            /\ calls' = [calls EXCEPT ![t] =
                            (@ \ {x}) \cup {[x EXCEPT !.res = res]}]
            /\ UNCHANGED <<page, behind, session>>
    BY DEF Backend
  <1>2. x \in Call /\ Granted(x) /\ Sound(page[t], calls[t], request)
    BY <1>0 DEF PagesSound, Sound
  <1>3. /\ request' \in [Challenges -> Request] /\ RequestsGranted'
        /\ Keeps(request, request') /\ (done => Decided(x.challenge, request'))
    BY <1>0, <1>1, <1>2, RecordKeeps DEF Outcome, PagesSound
  <1> DEFINE y == [x EXCEPT !.res = res]
  <1>4. /\ y \in Call /\ y.op = x.op /\ y.challenge = x.challenge
        /\ y.grant = x.grant /\ y.subject = x.subject /\ y.res = res
    BY <1>2 DEF Call
  <1>5. calls'[t] = {y}
    BY <1>0, <1>1, <1>2 DEF PagesSound, Sound
  <1>6. Sound(page[t], calls[t], request')
    BY <1>0, <1>2, <1>3, SoundKept DEF PagesSound
  <1>7. Granted(y)
    BY <1>2, <1>4 DEF Granted, AcceptsConsent
  <1>8. y.res = "ok" /\ y.op # "get" => Decided(y.challenge, request')
    BY <1>1, <1>3, <1>4 DEF Outcome
  <1>9. Sound(page[t], {y}, request')
    <2>1. CASE page[t].at \in Kinds
      BY <1>4, <1>6, <1>7, <1>8, <2>1 DEF Sound, PageSound, AcceptsConsent
    <2>2. CASE page[t].at \notin Kinds
      BY <1>4, <1>6, <1>7, <2>2 DEF Sound, OutsideSound
    <2> QED  BY <2>1, <2>2
  <1>10. \A u \in Tabs : Sound(page'[u], calls'[u], request')
    <2> SUFFICES ASSUME NEW u \in Tabs PROVE Sound(page'[u], calls'[u], request')
      OBVIOUS
    <2>1. CASE u = t
      BY <1>1, <1>5, <1>9, <2>1
    <2>2. CASE u # t
      <3>1. calls'[u] = calls[u] /\ page'[u] = page[u]
        BY <1>0, <1>1, <2>2 DEF PagesSound
      <3> QED  BY <1>0, <1>3, <3>1, SoundKept DEF PagesSound
    <2> QED  BY <2>1, <2>2
  <1>11. calls' \in [Tabs -> SUBSET Call]
    BY <1>0, <1>1, <1>4 DEF PagesSound
  <1>12. PagesSound'
    BY <1>0, <1>1, <1>3, <1>10, <1>11 DEF PagesSound
  <1>13. SessionSound'
    BY <1>1, SessionKept
  <1> QED  BY <1>12, <1>13, InvParts

LEMMA BackendLateStep ==
    ASSUME Inv, BackendLate
    PROVE  Inv'
  <1>0. PagesSound
    BY InvParts
  <1>1. PICK x \in behind, done \in BOOLEAN :
            /\ done => CanDo(x)
            /\ Record(x, done) /\ behind' = behind \ {x}
            /\ UNCHANGED <<page, calls, session>>
    BY DEF BackendLate
  <1>2. /\ request' \in [Challenges -> Request] /\ RequestsGranted'
        /\ Keeps(request, request')
    BY <1>0, <1>1, RecordKeeps DEF PagesSound
  <1>3. \A u \in Tabs : Sound(page[u], calls[u], request')
    BY <1>0, <1>2, SoundKept DEF PagesSound
  <1>4. PagesSound'
    BY <1>0, <1>1, <1>2, <1>3 DEF PagesSound
  <1>5. SessionSound'
    BY <1>1, SessionKept
  <1> QED  BY <1>4, <1>5, InvParts

LEMMA SendKeeps ==
    ASSUME Inv, NEW t \in Tabs, NEW x \in Call, Form(t), Send(t, x),
           x.challenge = page[t].held, x.op # "get", x.res = "pending",
           Granted(x), AcceptsConsent(x) => page[t].known
    PROVE  Inv'
  <1>0. PagesSound
    BY InvParts
  <1> DEFINE p == [page[t] EXCEPT !.loading = TRUE]
  <1>1. page[t] \in Page /\ page[t].at \in Kinds /\ ~page[t].loading
    BY <1>0 DEF PagesSound, Form, IsPage
  <1>2. PageSound(page[t], calls[t], request) /\ calls[t] = {}
    BY <1>0, <1>1 DEF PagesSound, Sound, PageSound
  <1>3. /\ p \in Page /\ p.at = page[t].at /\ p.url = page[t].url
        /\ p.held = page[t].held /\ p.known = page[t].known /\ p.loading
        /\ p.ticked = page[t].ticked /\ p.going = page[t].going
    BY <1>1 DEF Page
  <1>4. p.going # "redirect"
    BY <1>1, <1>2, <1>3 DEF PageSound
  <1>5. PageSound(p, {x}, request)
    BY <1>2, <1>3, <1>4 DEF PageSound
  <1>6. Sound(p, {x}, request)
    BY <1>1, <1>3, <1>5 DEF Sound
  <1>7. page' = [page EXCEPT ![t] = p] /\ calls' = [calls EXCEPT ![t] = {x}]
    BY <1>0, <1>2 DEF Send, PagesSound
  <1>8. PagesSound'
    <2>1. UNCHANGED <<request, behind>> /\ {x} \in SUBSET Call /\ p \in Page
      BY <1>3 DEF Send
    <2> HIDE DEF p
    <2> QED  BY <2>1, <1>6, <1>7, EditKeeps
  <1>9. SessionSound'
    BY <1>0, <1>1, <1>3, <1>7, SessionKept DEF Send, PagesSound, Kinds
  <1> QED  BY <1>8, <1>9, InvParts

\* The page p after the answer x, with the calls it then waits for.
LEMMA ContinuedSound ==
    ASSUME NEW p \in Page, NEW x \in Call, p.at \in Kinds, x.res # "pending",
           Sound(p, {x}, request)
    PROVE  /\ Continued(p, x) \in Page /\ Continued(p, x).at = p.at
           /\ SkipCalls(p, x) \in SUBSET Call
           /\ Sound(Continued(p, x), SkipCalls(p, x), request)
  <1>1. PageSound(p, {x}, request) /\ p.loading /\ p.going # "redirect"
    BY DEF Sound, PageSound
  <1>2. p.url \in Challenges \cup {None} /\ x.challenge \in {p.url, None}
    BY <1>1 DEF PageSound, Page
  <1>3. CASE x.res = "error"
    <2> DEFINE n == Failed(p)
    <2>1. Continued(p, x) = n /\ SkipCalls(p, x) = {}
      BY <1>3 DEF Continued, SkipCalls
    <2>2. /\ n \in Page /\ n.at = p.at /\ n.url = p.url /\ n.held = p.held
          /\ n.known = p.known /\ n.ticked = p.ticked /\ n.going = p.going
      BY DEF Failed, Page
    <2>3. PageSound(n, {}, request)
      BY <1>1, <2>2 DEF PageSound
    <2> QED  BY <2>1, <2>2, <2>3 DEF Sound
  <1>4. CASE x.res # "error" /\ x.op = "get"
    <2> DEFINE n == Fetched(p)
    <2>1. Continued(p, x) = n /\ x.res = "ok"
      BY <1>4 DEF Continued, Call
    <2>2. p.url # None /\ p.url \in Challenges
      BY <1>1, <1>2, <1>4 DEF PageSound
    <2>3. CASE p.at # "logout" /\ p.url \in Skip
      <3> DEFINE y == SkipAccept(p)
      <3>1. SkipCalls(p, x) = {y}
        BY <1>4, <2>1, <2>3 DEF SkipCalls
      <3>2. /\ y \in Call /\ y.op = "accept" /\ y.challenge = None
            /\ y.res = "pending"
        BY <2>2, TicksType DEF SkipAccept, Ask, Call, InFirstRender
      <3>3. /\ n \in Page /\ n.at = p.at /\ n.url = p.url /\ n.held = p.held
            /\ n.known /\ n.ticked = p.ticked /\ n.going = p.going
            /\ n.loading = p.loading
        BY <2>3 DEF Fetched, Page
      <3>4. PageSound(n, {y}, request)
        BY <1>1, <2>2, <3>2, <3>3 DEF PageSound, AcceptsConsent
      <3>5. Sound(n, {y}, request)
        BY <3>2, <3>3, <3>4 DEF Sound, Granted, AcceptsConsent
      <3>6. {y} \in SUBSET Call
        BY <3>2
      <3> QED  BY <2>1, <3>1, <3>3, <3>5, <3>6
    <2>4. CASE ~(p.at # "logout" /\ p.url \in Skip)
      <3>1. SkipCalls(p, x) = {}
        BY <2>4 DEF SkipCalls
      <3> DEFINE s == IF p.at = "consent" THEN Ticks(p.url) ELSE {}
      <3>2. s \in SUBSET Scopes /\ s \subseteq Ticks(p.url)
        BY <2>2, TicksType
      <3> HIDE DEF s
      <3>3. n = [p EXCEPT !.known = TRUE, !.loading = FALSE, !.ticked = s]
        BY <2>4 DEF Fetched, s
      <3>4. /\ n \in Page /\ n.at = p.at /\ n.url = p.url /\ n.held = p.held
            /\ n.known /\ n.ticked = s /\ n.going = p.going
        BY <3>2, <3>3 DEF Page
      <3> HIDE DEF n
      <3>5. PageSound(n, {}, request)
        BY <1>1, <2>2, <3>2, <3>4 DEF PageSound
      <3> QED  BY <2>1, <3>1, <3>4, <3>5 DEF Sound
    <2> QED  BY <2>3, <2>4
  <1>5. CASE x.res # "error" /\ x.op # "get"
    <2> DEFINE n == Redirected(p)
    <2>1. Continued(p, x) = n /\ SkipCalls(p, x) = {} /\ x.res = "ok"
      BY <1>5 DEF Continued, SkipCalls, Call
    <2>2. /\ n \in Page /\ n.at = p.at /\ n.url = p.url /\ n.held = p.held
          /\ n.known = p.known /\ n.ticked = p.ticked /\ n.loading = p.loading
          /\ n.going = "redirect"
      BY DEF Redirected, Page
    <2>3. Decided(p.url, request)
      BY <1>1, <1>2, <1>5, <2>1 DEF PageSound, Decided
    <2>4. PageSound(n, {}, request)
      BY <1>1, <2>2, <2>3 DEF PageSound
    <2> QED  BY <2>1, <2>2, <2>4 DEF Sound
  <1> QED  BY <1>3, <1>4, <1>5

LEMMA ReturnStep ==
    ASSUME Inv, NEW t \in Tabs, Return(t)
    PROVE  Inv'
  <1>0. PagesSound
    BY InvParts
  <1>1. PICK x \in calls[t] :
            /\ IsPage(t) /\ x.res # "pending"
            /\ page' = [page EXCEPT ![t] = Continued(@, x)]
            /\ calls' = [calls EXCEPT ![t] = (@ \ {x}) \cup SkipCalls(page[t], x)]
            /\ UNCHANGED <<request, behind, session>>
    BY DEF Return
  <1>2. /\ x \in Call /\ page[t] \in Page /\ page[t].at \in Kinds
        /\ calls[t] = {x} /\ Sound(page[t], {x}, request)
    <2>1. Sound(page[t], calls[t], request) /\ page[t] \in Page /\ calls[t] \in SUBSET Call
      BY <1>0 DEF PagesSound
    <2>2. calls[t] = {x}
      BY <1>1, <2>1 DEF Sound
    <2> QED  BY <1>1, <2>1, <2>2 DEF IsPage
  <1> DEFINE n == Continued(page[t], x)
             cs == SkipCalls(page[t], x)
  <1>3. n \in Page /\ n.at = page[t].at /\ cs \in SUBSET Call /\ Sound(n, cs, request)
    BY <1>1, <1>2, ContinuedSound
  <1>4. calls[t] \ {x} = {}
    BY <1>2
  <1> HIDE DEF n, cs
  <1>5. page' = [page EXCEPT ![t] = n] /\ calls' = [calls EXCEPT ![t] = cs]
    BY <1>0, <1>1, <1>4 DEF PagesSound, n, cs
  <1>6. PagesSound'
    BY <1>1, <1>3, <1>5, EditKeeps
  <1>7. SessionSound'
    BY <1>0, <1>1, <1>2, <1>3, <1>5, SessionKept DEF PagesSound, Kinds
  <1> QED  BY <1>6, <1>7, InvParts

----------------------------------------------------------------------------

\* What a form knows: nothing is waited for.
LEMMA FormFacts ==
    ASSUME Inv, NEW t \in Tabs, Form(t)
    PROVE  /\ page[t] \in Page /\ page[t].at \in Kinds /\ ~page[t].loading
           /\ calls[t] = {} /\ PageSound(page[t], {}, request)
           /\ page[t].going # "redirect"
  BY InvParts DEF PagesSound, Form, IsPage, Sound, PageSound

LEMMA SignInStep ==
    ASSUME Inv, NEW t \in Tabs, NEW p \in People, SignIn(t, p)
    PROVE  Inv'
  <1> DEFINE x == Ask("accept", page[t].held, p, {})
  <1>1. Form(t) /\ Send(t, x) /\ page[t].at = "login"
    BY DEF SignIn
  <1>2. x \in Call /\ x.challenge = page[t].held /\ x.op # "get" /\ x.res = "pending"
    BY <1>1, FormFacts DEF Ask, Call, Page
  <1>3. ~AcceptsConsent(x)
    BY <1>1, <1>2, FormFacts DEF AcceptsConsent, PageSound
  <1> HIDE DEF x
  <1> QED  BY <1>1, <1>2, <1>3, SendKeeps DEF Granted

LEMMA AllowStep ==
    ASSUME Inv, NEW t \in Tabs, Allow(t)
    PROVE  Inv'
  <1> DEFINE x == Ask("accept", page[t].held, None, page[t].ticked)
  <1>1. Form(t) /\ Send(t, x) /\ page[t].ticked # {}
    BY DEF Allow
  <1>2. /\ x \in Call /\ x.challenge = page[t].held /\ x.op # "get"
        /\ x.res = "pending" /\ x.grant = page[t].ticked
    BY <1>1, FormFacts DEF Ask, Call, Page
  <1>3. /\ page[t].known /\ page[t].held = page[t].url
        /\ page[t].ticked \subseteq Ticks(page[t].url)
    BY <1>1, FormFacts DEF PageSound
  <1>4. Granted(x)
    BY <1>1, <1>2, <1>3 DEF Granted
  <1> HIDE DEF x
  <1> QED  BY <1>1, <1>2, <1>3, <1>4, SendKeeps

LEMMA SignOutStep ==
    ASSUME Inv, NEW t \in Tabs, SignOut(t)
    PROVE  Inv'
  <1> DEFINE x == Ask("accept", page[t].held, None, {})
  <1>1. Form(t) /\ Send(t, x) /\ page[t].at = "logout"
    BY DEF SignOut
  <1>2. x \in Call /\ x.challenge = page[t].held /\ x.op # "get" /\ x.res = "pending"
    BY <1>1, FormFacts DEF Ask, Call, Page
  <1>3. ~AcceptsConsent(x)
    BY <1>1, <1>2, FormFacts DEF AcceptsConsent, PageSound
  <1> HIDE DEF x
  <1> QED  BY <1>1, <1>2, <1>3, SendKeeps DEF Granted

LEMMA RejectStep ==
    ASSUME Inv, NEW t \in Tabs, Reject(t)
    PROVE  Inv'
  <1> DEFINE x == Ask("reject", page[t].held, None, {})
  <1>1. Form(t) /\ Send(t, x)
    BY DEF Reject
  <1>2. x \in Call /\ x.challenge = page[t].held /\ x.op = "reject" /\ x.res = "pending"
    BY <1>1, FormFacts DEF Ask, Call, Page
  <1> HIDE DEF x
  <1> QED  BY <1>1, <1>2, SendKeeps DEF Granted, AcceptsConsent

LEMMA ToggleStep ==
    ASSUME Inv, NEW t \in Tabs, NEW s \in Scopes, Toggle(t, s)
    PROVE  Inv'
  <1>0. PagesSound
    BY InvParts
  <1> DEFINE n == [page[t] EXCEPT !.ticked = IF s \in @ THEN @ \ {s} ELSE @ \cup {s}]
  <1>1. /\ Form(t) /\ page[t].known /\ s \in Ticks(page[t].url)
        /\ page' = [page EXCEPT ![t] = n]
        /\ UNCHANGED <<request, calls, behind, session>>
    BY <1>0 DEF Toggle, PagesSound
  <1>2. /\ page[t] \in Page /\ page[t].at \in Kinds /\ ~page[t].loading
        /\ calls[t] = {} /\ PageSound(page[t], {}, request)
    BY <1>1, FormFacts
  <1>3. /\ n \in Page /\ n.at = page[t].at /\ n.url = page[t].url
        /\ n.held = page[t].held /\ n.known = page[t].known
        /\ n.loading = page[t].loading /\ n.going = page[t].going
        /\ n.ticked \subseteq page[t].ticked \cup {s}
    BY <1>2 DEF Page
  <1>4. PageSound(n, {}, request)
    BY <1>1, <1>2, <1>3 DEF PageSound
  <1>5. Sound(n, {}, request)
    BY <1>2, <1>3, <1>4 DEF Sound
  <1> HIDE DEF n
  <1>6. calls' = [calls EXCEPT ![t] = {}]
    BY <1>0, <1>1, <1>2 DEF PagesSound
  <1>7. PagesSound'
    BY <1>1, <1>3, <1>5, <1>6, EditKeeps
  <1>8. SessionSound'
    BY <1>0, <1>1, <1>2, <1>3, SessionKept DEF PagesSound, Kinds
  <1> QED  BY <1>7, <1>8, InvParts

LEMMA GoToAzureStep ==
    ASSUME Inv, NEW t \in Tabs, GoToAzure(t)
    PROVE  Inv'
  <1>0. PagesSound
    BY InvParts
  <1> DEFINE n == [page[t] EXCEPT !.going = "azure"]
  <1>1. /\ Form(t) /\ page[t].at = "login" /\ page' = [page EXCEPT ![t] = n]
        /\ UNCHANGED <<request, calls, behind, session>>
    BY <1>0 DEF GoToAzure, PagesSound
  <1>2. /\ page[t] \in Page /\ page[t].at \in Kinds /\ ~page[t].loading
        /\ calls[t] = {} /\ PageSound(page[t], {}, request)
    BY <1>1, FormFacts
  <1>3. /\ n \in Page /\ n.at = page[t].at /\ n.url = page[t].url
        /\ n.held = page[t].held /\ n.known = page[t].known
        /\ n.loading = page[t].loading /\ n.ticked = page[t].ticked
        /\ n.going = "azure"
    BY <1>2 DEF Page
  <1>4. PageSound(n, {}, request)
    BY <1>1, <1>2, <1>3 DEF PageSound
  <1>5. Sound(n, {}, request)
    BY <1>2, <1>3, <1>4 DEF Sound
  <1> HIDE DEF n
  <1>6. calls' = [calls EXCEPT ![t] = {}]
    BY <1>0, <1>1, <1>2 DEF PagesSound
  <1>7. PagesSound'
    BY <1>1, <1>3, <1>5, <1>6, EditKeeps
  <1>8. SessionSound'
    BY <1>0, <1>1, <1>2, <1>3, SessionKept DEF PagesSound, Kinds
  <1> QED  BY <1>7, <1>8, InvParts

----------------------------------------------------------------------------

\* A tab goes to Azure with what its page holds.
LEMMA BeginStep ==
    ASSUME Inv, NEW t \in Tabs, Follow(t), page[t].going = "azure"
    PROVE  Inv'
  <1>0. PagesSound /\ SessionSound
    BY InvParts
  <1> DEFINE n == [Away EXCEPT !.at = "azure", !.url = page[t].held]
  <1>1. Replace(t, n, {}) /\ session' = Begun(t) /\ UNCHANGED request
    BY DEF Follow
  <1>2. /\ page[t] \in Page /\ Sound(page[t], calls[t], request)
        /\ page[t].at \in Kinds
    BY <1>0 DEF PagesSound, Sound, OutsideSound
  <1>3. page[t].held # None => Kind[page[t].held] = "login"
    BY <1>2 DEF Sound, PageSound
  <1>4. /\ n \in Page /\ n.at = "azure" /\ n.url = page[t].held
        /\ n.going = "nowhere"
    BY <1>2 DEF Away, Page
  <1>5. Sound(n, {}, request)
    BY <1>3, <1>4 DEF Sound, OutsideSound, Kinds
  <1> HIDE DEF n
  <1>6. PagesSound'
    BY <1>1, <1>4, <1>5, ReplaceKeeps
  <1>7. page' = [page EXCEPT ![t] = n] /\ page \in [Tabs -> Page]
    BY <1>0, <1>1 DEF Replace, PagesSound
  <1>8. /\ session'.states = session.states \cup {t}
        /\ session'.slot = IF page[t].held = None THEN session.slot ELSE page[t].held
    BY <1>1 DEF Begun
  <1>9. session' \in Session
    BY <1>0, <1>1, <1>2 DEF SessionSound, Session, Begun, Page
  <1>10. SlotSound'
    BY <1>0, <1>3, <1>8 DEF SessionSound, SlotSound
  <1>11. ChallengeKept'
    BY <1>0, <1>4, <1>7, <1>8 DEF SessionSound, ChallengeKept
  <1> QED  BY <1>6, <1>9, <1>10, <1>11, InvParts DEF SessionSound

\* A document without calls, such as Away or a page without challenge.
LEMMA PlainSound ==
    ASSUME NEW p, p \in {Away, Loaded("login", None)}, NEW req
    PROVE  p \in Page /\ Sound(p, {}, req) /\ p.at # "azure"
  <1>1. Fetches(None) = {}
    BY DEF Fetches
  <1>2. /\ Loaded("login", None) \in Page /\ Loaded("login", None).at = "login"
        /\ Sound(Loaded("login", None), {}, req)
    <2>1. "login" \in Kinds /\ None \in Challenges \cup {None}
      BY DEF Kinds
    <2> QED  BY <1>1, <2>1, LoadedSound
  <1> QED  BY <1>2, AwaySound

LEMMA PlainReplace ==
    ASSUME Inv, NEW t \in Tabs, NEW p \in {Away, Loaded("login", None)},
           Replace(t, p, {}), UNCHANGED request
    PROVE  /\ PagesSound' /\ page \in [Tabs -> Page]
           /\ page' = [page EXCEPT ![t] = p] /\ p.at # "azure"
  <1>1. p \in Page /\ Sound(p, {}, request) /\ p.at # "azure"
    BY PlainSound
  <1>2. {} \in SUBSET Call
    OBVIOUS
  <1>3. PagesSound'
    BY <1>1, <1>2, ReplaceKeeps
  <1> QED  BY <1>1, <1>3, InvParts DEF Replace, PagesSound

LEMMA PlainStep ==
    ASSUME Inv, NEW t \in Tabs, NEW p \in {Away, Loaded("login", None)},
           Replace(t, p, {}), UNCHANGED <<request, session>>
    PROVE  Inv'
  <1>1. /\ PagesSound' /\ page \in [Tabs -> Page]
        /\ page' = [page EXCEPT ![t] = p] /\ p.at # "azure"
    BY PlainReplace
  <1>2. SessionSound'
    BY <1>1, SessionKept
  <1> QED  BY <1>1, <1>2, InvParts

LEMMA NoSessionSound ==
    ASSUME session' = NoSession
    PROVE  SessionSound'
  BY DEF NoSession, SessionSound, Session, SlotSound, ChallengeKept

LEMMA CallbackStep ==
    ASSUME Inv, NEW t \in Tabs, NEW q \in People, Callback(t, q)
    PROVE  Inv'
  <1>0. PagesSound /\ SessionSound
    BY InvParts
  <1>1. SessionSound'
    BY NoSessionSound DEF Callback
  <1>2. CASE session.slot = None
    <2>1. Replace(t, Loaded("login", None), {}) /\ UNCHANGED request
      BY <1>2 DEF Callback
    <2>2. PagesSound'
      BY <2>1, PlainReplace
    <2> QED  BY <1>1, <2>2, InvParts
  <1>3. CASE session.slot # None
    <2> DEFINE n == [Away EXCEPT !.at = "callback", !.url = page[t].url,
                                 !.held = session.slot]
               x == Ask("accept", session.slot, q, {})
    <2>1. Replace(t, n, {x}) /\ UNCHANGED request
      BY <1>3 DEF Callback
    <2>2. session.slot \in Challenges /\ Kind[session.slot] = "login"
      BY <1>0, <1>3 DEF SessionSound, SlotSound, Session
    <2>3. x \in Call /\ x.challenge = session.slot
      BY <2>2 DEF Ask, Call
    <2>4. n \in Page /\ n.at = "callback" /\ n.going = "nowhere"
      BY <1>0, <2>2 DEF Away, Page, PagesSound
    <2>5. Sound(n, {x}, request)
      BY <1>3, <2>2, <2>3, <2>4 DEF Sound, OutsideSound, Granted, AcceptsConsent, Kinds
    <2>6. {x} \in SUBSET Call
      BY <2>3
    <2> HIDE DEF n, x
    <2>7. PagesSound'
      BY <2>1, <2>4, <2>5, <2>6, ReplaceKeeps
    <2> QED  BY <1>1, <2>7, InvParts
  <1> QED  BY <1>2, <1>3

LEMMA AzureStep ==
    ASSUME Inv, NEW t \in Tabs, Azure(t)
    PROVE  Inv'
  <1>1. CASE AzureFails(t)
    BY <1>1, PlainStep DEF AzureFails
  <1>2. CASE AzureBars(t)
    <2>1. /\ PagesSound' /\ page \in [Tabs -> Page]
          /\ page' = [page EXCEPT ![t] = Away] /\ Away.at # "azure"
      BY <1>2, PlainReplace DEF AzureBars
    <2>2. session' = [session EXCEPT !.states = @ \ {t}]
      BY <1>2 DEF AzureBars
    <2>3. SessionSound'
      BY <2>1, <2>2, InvParts DEF SessionSound, Session, SlotSound, ChallengeKept
    <2> QED  BY <2>1, <2>3, InvParts
  <1>3. CASE \E q \in People : Callback(t, q)
    BY <1>3, CallbackStep
  <1>4. CASE CallbackReturns(t)
    BY <1>4, PlainStep DEF CallbackReturns
  <1>5. CASE AzureLogout(t)
    BY <1>5, PlainReplace, NoSessionSound, InvParts DEF AzureLogout
  <1> QED  BY <1>1, <1>2, <1>3, <1>4, <1>5 DEF Azure

LEMMA FollowStep ==
    ASSUME Inv, NEW t \in Tabs, Follow(t)
    PROVE  Inv'
  <1>1. CASE page[t].going = "redirect"
    BY <1>1, PlainStep DEF Follow
  <1>2. CASE page[t].going # "redirect"
    <2>1. page[t].going = "azure"
      BY <1>2, InvParts DEF Follow, PagesSound, Page
    <2> QED  BY <2>1, BeginStep
  <1> QED  BY <1>1, <1>2

LEMMA UserStep ==
    ASSUME Inv, NEW t \in Tabs, User(t)
    PROVE  Inv'
  BY SignInStep, ToggleStep, AllowStep, SignOutStep, RejectStep, GoToAzureStep
  DEF User

LEMMA NextStep ==
    ASSUME Inv, [Next]_vars
    PROVE  Inv'
  <1>1. CASE Next
    BY <1>1, OpenStep, UserStep, BackendStep, ReturnStep, FollowStep, AzureStep,
       BackendLateStep DEF Next
  <1>2. CASE UNCHANGED vars
    BY <1>2 DEF vars, Inv, TypeOK, FlowSound, RequestsGranted, SlotSound, ChallengeKept
  <1> QED  BY <1>1, <1>2

LEMMA InitInv == Init => Inv
  <1> SUFFICES ASSUME Init PROVE PagesSound /\ SessionSound
    BY InvParts
  <1>1. request \in [Challenges -> Request] /\ RequestsGranted
    BY DEF Init, Request, RequestsGranted
  <1>2. \A t \in Tabs : page[t] = Away /\ calls[t] = {}
    BY DEF Init
  <1>3. page \in [Tabs -> Page] /\ calls \in [Tabs -> SUBSET Call]
    BY AwaySound DEF Init
  <1>4. \A t \in Tabs : Sound(page[t], calls[t], request)
    BY <1>2, AwaySound
  <1>5. SessionSound
    BY DEF Init, NoSession, SessionSound, Session, SlotSound, ChallengeKept
  <1> QED  BY <1>1, <1>3, <1>4, <1>5 DEF PagesSound, Init

----------------------------------------------------------------------------

\* The inductive invariant of the three pages and of the Azure session
\* (LoginPage.js, ConsentPage.js, LogoutPage.js, azure-routes.js).
THEOREM Invariance == Spec => [](TypeOK /\ FlowSound)
  <1>1. Init => Inv
    BY InitInv
  <1>2. Inv /\ [Next]_vars => Inv'
    BY NextStep
  <1>3. Inv <=> TypeOK /\ FlowSound
    BY DEF Inv
  <1> QED  BY <1>1, <1>2, <1>3, PTL DEF Spec

\* The variables keep their types: challenges that Hydra gave, or ''
\* (LoginPage.js:16).
THEOREM TypeCorrect == Spec => []TypeOK
  BY Invariance, PTL

\* A page waits for one call at a time (LoginPage.js:116).
THEOREM OneCallAtATime == Spec => []OneCall
  <1>1. TypeOK /\ FlowSound => OneCall
    BY DEF FlowSound, Sound, OneCall
  <1> QED  BY <1>1, Invariance, PTL

\* What is granted was requested, shown and ticked (ConsentPage.js:85).
THEOREM GrantsAreTicked == Spec => []GrantsTicked
  <1>1. TypeOK /\ FlowSound => GrantsTicked
    <2> SUFFICES ASSUME TypeOK, FlowSound PROVE GrantsTicked
      OBVIOUS
    <2>1. \A t \in Tabs : \A x \in calls[t] :
             Granted(x) /\ (AcceptsConsent(x) => page[t].known)
      BY DEF FlowSound, Sound, PageSound, OutsideSound, AcceptsConsent
    <2> QED  BY <2>1 DEF FlowSound, GrantsTicked
  <1> QED  BY <1>1, Invariance, PTL

\* A page leaves only when its own request is decided (LoginPage.js:89).
THEOREM LeavesWhenDecided == Spec => []LeavesDecided
  <1>1. TypeOK /\ FlowSound => LeavesDecided
    BY DEF FlowSound, Sound, PageSound, OutsideSound, Decided, LeavesDecided
  <1> QED  BY <1>1, Invariance, PTL

\* A challenge that was brought to Azure is not missing when the session
\* knows the tab (azure-routes.js:66, 95).
THEOREM ChallengesKept == Spec => []ChallengeKept
  <1>1. TypeOK /\ FlowSound => ChallengeKept
    BY DEF FlowSound
  <1> QED  BY <1>1, Invariance, PTL

----------------------------------------------------------------------------
(***************************************************************************)
(* LoginFlow implements Decisions.  A document is a visit, and its call to *)
(* accept or reject is the decision of the visit until Hydra answers.      *)
(***************************************************************************)

Unsent(cs) == {x \in cs : x.op # "get" /\ x.res = "pending"}

\* What is on its way without a document is a decision.
BehindUndone == \A x \in behind : x.op # "get" /\ x.res = "pending"

LEMMA BehindMoves ==
    ASSUME [Next]_vars, NEW x \in behind'
    PROVE  x \in behind \/ \E t \in Tabs : x \in Undone(t)
  <1>1. ASSUME NEW t \in Tabs, NEW p, NEW cs, Replace(t, p, cs)
        PROVE  x \in behind \/ x \in Undone(t)
    BY <1>1 DEF Replace
  <1>2. ASSUME NEW t \in Tabs, Opens(t) \/ Follow(t) \/ Azure(t)
        PROVE  \E p, cs : Replace(t, p, cs)
    BY <1>2 DEF Opens, Open, Follow, Azure, AzureFails, AzureBars, Callback,
       CallbackReturns, AzureLogout
  <1>3. ASSUME NEW t \in Tabs, User(t) \/ Backend(t) \/ Return(t)
        PROVE  behind' = behind
    BY <1>3 DEF User, SignIn, Toggle, Allow, SignOut, Reject, GoToAzure, Send, Backend,
       Return
  <1>4. CASE BackendLate
    BY <1>4 DEF BackendLate
  <1>5. CASE UNCHANGED vars
    BY <1>5 DEF vars
  <1> QED  BY <1>1, <1>2, <1>3, <1>4, <1>5 DEF Next

LEMMA AlwaysBehindUndone == Spec => []BehindUndone
  <1>1. Init => BehindUndone
    BY DEF Init, BehindUndone
  <1>2. BehindUndone /\ [Next]_vars => BehindUndone'
    BY BehindMoves DEF BehindUndone, Undone
  <1> QED  BY <1>1, <1>2, PTL DEF Spec

LEMMA MadeOne ==
    ASSUME NEW x
    PROVE  /\ x.challenge = None => Made({x}) = {}
           /\ x.challenge # None => Made({x}) = {Promise!On(x.challenge, Recorded(x))}
  BY DEF Made, Promise!On

LEMMA MadeUnion ==
    ASSUME NEW xs, NEW ys
    PROVE  Made(xs \cup ys) = Made(xs) \cup Made(ys)
  BY DEF Made

LEMMA ChangedAt ==
    ASSUME NEW S, NEW t \in S, NEW f, NEW g, NEW v,
           f = [u \in S |-> f[u]], g = [u \in S |-> g[u]],
           g[t] = v, \A u \in S \ {t} : g[u] = f[u]
    PROVE  g = [f EXCEPT ![t] = v]
  OBVIOUS

\* A new state of the document of t is a new state of the visit of t.
LEMMA VisitMoves ==
    ASSUME PagesSound, NEW t \in Tabs, NEW p, NEW cs,
           page' = [page EXCEPT ![t] = p], calls' = [calls EXCEPT ![t] = cs]
    PROVE  /\ Visits' = [Visits EXCEPT ![t] = About(p)]
           /\ Seen' = IF p.known THEN Seen \cup {t} ELSE Seen \ {t}
           /\ Deciding' = [Deciding EXCEPT ![t] = Made(Unsent(cs))]
           /\ Told' = IF ToldToGo(p, cs) THEN Told \cup {t} ELSE Told \ {t}
  <1>1. /\ page'[t] = p /\ calls'[t] = cs
        /\ \A u \in Tabs \ {t} : page'[u] = page[u] /\ calls'[u] = calls[u]
    BY DEF PagesSound
  <1>2. Visits' = [Visits EXCEPT ![t] = About(p)]
    <2>1. /\ Visits = [u \in Tabs |-> Visits[u]] /\ Visits' = [u \in Tabs |-> Visits'[u]]
          /\ Visits'[t] = About(p) /\ \A u \in Tabs \ {t} : Visits'[u] = Visits[u]
      BY <1>1 DEF Visits
    <2> QED  BY <2>1, ChangedAt
  <1>3. Seen' = IF p.known THEN Seen \cup {t} ELSE Seen \ {t}
    BY <1>1 DEF Seen
  <1>4. Deciding' = [Deciding EXCEPT ![t] = Made(Unsent(cs))]
    <2>1. /\ Deciding = [u \in Tabs |-> Deciding[u]]
          /\ Deciding' = [u \in Tabs |-> Deciding'[u]]
          /\ Deciding'[t] = Made(Unsent(cs))
          /\ \A u \in Tabs \ {t} : Deciding'[u] = Deciding[u]
      BY <1>1 DEF Deciding, Undone, Unsent
    <2> QED  BY <2>1, ChangedAt
  <1>5. Told' = IF ToldToGo(p, cs) THEN Told \cup {t} ELSE Told \ {t}
    BY <1>1 DEF Told
  <1> QED  BY <1>2, <1>3, <1>4, <1>5

LEMMA VisitStays ==
    ASSUME PagesSound, NEW t \in Tabs, NEW p, NEW cs,
           page' = [page EXCEPT ![t] = p], calls' = [calls EXCEPT ![t] = cs]
    PROVE  /\ About(p) = About(page[t]) => Visits' = Visits
           /\ (p.known <=> page[t].known) => Seen' = Seen
           /\ Made(Unsent(cs)) = Made(Unsent(calls[t])) => Deciding' = Deciding
           /\ (ToldToGo(p, cs) <=> ToldToGo(page[t], calls[t])) => Told' = Told
  <1>1. /\ Visits' = [Visits EXCEPT ![t] = About(p)]
        /\ Seen' = IF p.known THEN Seen \cup {t} ELSE Seen \ {t}
        /\ Deciding' = [Deciding EXCEPT ![t] = Made(Unsent(cs))]
        /\ Told' = IF ToldToGo(p, cs) THEN Told \cup {t} ELSE Told \ {t}
    BY VisitMoves
  <1>2. Visits = [Visits EXCEPT ![t] = About(page[t])]
    BY DEF Visits
  <1>3. t \in Seen <=> page[t].known
    BY DEF Seen
  <1>4. Deciding = [Deciding EXCEPT ![t] = Made(Unsent(calls[t]))]
    BY DEF Deciding, Undone, Unsent
  <1>5. t \in Told <=> ToldToGo(page[t], calls[t])
    BY DEF Told
  <1> QED  BY <1>1, <1>2, <1>3, <1>4, <1>5

\* Another document is another visit.
LEMMA ReplaceImplements ==
    ASSUME PagesSound, NEW t \in Tabs, NEW p, NEW cs, Replace(t, p, cs),
           ~ p.known, ~ ToldToGo(p, cs), UNCHANGED request
    PROVE  Promise!Go(t, About(p), Made(Unsent(cs)))
  <1>1. /\ Visits' = [Visits EXCEPT ![t] = About(p)]
        /\ Seen' = Seen \ {t}
        /\ Deciding' = [Deciding EXCEPT ![t] = Made(Unsent(cs))]
        /\ Told' = Told \ {t}
    BY VisitMoves DEF Replace
  <1>2. Made(behind)' \in {Made(behind), Made(behind) \cup Deciding[t]}
    <2>1. behind' = behind \/ behind' = behind \cup Undone(t)
      BY DEF Replace
    <2>2. Made(behind \cup Undone(t)) = Made(behind) \cup Deciding[t]
      BY MadeUnion DEF Deciding
    <2> QED  BY <2>1, <2>2 DEF Made, Recorded
  <1> QED  BY <1>1, <1>2 DEF Promise!Go

\* A document that is not about any request, or was opened with one.
LEMMA LoadedImplements ==
    ASSUME PagesSound, NEW t \in Tabs, NEW k \in Kinds, NEW c \in Challenges \cup {None},
           Replace(t, Loaded(k, c), Fetches(c)), UNCHANGED request
    PROVE  Promise!Go(t, c, {})
  <1> DEFINE p == Loaded(k, c)
  <1>1. About(p) = c /\ p.known = FALSE /\ p.going = "nowhere"
    BY DEF Loaded, Away, About
  <1>2. Unsent(Fetches(c)) = {} /\ \A x \in Fetches(c) : x.op = "get"
    BY DEF Unsent, Fetches, Ask
  <1>3. Made({}) = {}
    BY DEF Made
  <1>4. ~ ToldToGo(p, Fetches(c))
    BY <1>1, <1>2 DEF ToldToGo
  <1> HIDE DEF p
  <1>5. Promise!Go(t, About(p), Made(Unsent(Fetches(c))))
    BY <1>1, <1>4, ReplaceImplements DEF p
  <1> QED  BY <1>1, <1>2, <1>3, <1>5

LEMMA PlainImplements ==
    ASSUME PagesSound, NEW t \in Tabs, NEW p \in {Away, Loaded("login", None)},
           Replace(t, p, {}), UNCHANGED request
    PROVE  Promise!Go(t, None, {})
  <1>1. CASE p = Away
    <2>1. About(p) = None /\ p.known = FALSE /\ ~ ToldToGo(p, {})
      BY <1>1 DEF Away, About, ToldToGo, Kinds
    <2>2. Made(Unsent({})) = {}
      BY DEF Made, Unsent
    <2>3. Promise!Go(t, About(p), Made(Unsent({})))
      BY <2>1, ReplaceImplements
    <2> QED  BY <2>1, <2>2, <2>3
  <1>2. CASE p = Loaded("login", None)
    <2>1. Fetches(None) = {} /\ "login" \in Kinds
      BY DEF Fetches, Kinds
    <2> QED  BY <1>2, <2>1, LoadedImplements
  <1> QED  BY <1>1, <1>2

LEMMA PlainTurn ==
    ASSUME PagesSound, NEW t \in Tabs, NEW p \in {Away, Loaded("login", None)},
           Replace(t, p, {}), UNCHANGED <<request, session>>
    PROVE  Promise!Turn(t)
  BY PlainImplements DEF Promise!Turn

LEMMA OpenImplements ==
    ASSUME PagesSound, NEW t \in Tabs, Opens(t)
    PROVE  Promise!Turn(t)
  BY LoadedImplements DEF Opens, Open, Promise!Turn

-----------------------------------------------------------------------------
\* Hydra's side.

LEMMA BackendImplements ==
    ASSUME PagesSound, NEW t \in Tabs, Backend(t)
    PROVE  Promise!Hear(t) \/ UNCHANGED Promise!vars
  <1>1. PICK x \in calls[t], done \in BOOLEAN, res \in {"ok", "error"} :
            /\ x.res = "pending" /\ Outcome(x, done, res) /\ Record(x, done)
            /\ calls' = [calls EXCEPT ![t] =
                            (@ \ {x}) \cup {[x EXCEPT !.res = res]}]
            /\ UNCHANGED <<page, behind, session>>
    BY DEF Backend
  <1> DEFINE y == [x EXCEPT !.res = res]
  <1>2. calls[t] = {x} /\ x \in Call /\ page[t].going # "redirect"
    BY <1>1 DEF PagesSound, Sound, PageSound, OutsideSound
  <1>3. /\ y.op = x.op /\ y.challenge = x.challenge /\ y.res = res
        /\ calls' = [calls EXCEPT ![t] = {y}] /\ page' = [page EXCEPT ![t] = page[t]]
    BY <1>1, <1>2 DEF Call, PagesSound
  <1>4. Unsent({y}) = {} /\ Made({}) = {}
    BY <1>3 DEF Unsent, Made
  <1>5. /\ ToldToGo(page[t], {y}) <=> (x.op # "get" /\ res = "ok")
        /\ ~ ToldToGo(page[t], calls[t])
    BY <1>1, <1>2, <1>3 DEF ToldToGo
  <1>6. /\ Visits' = Visits /\ Seen' = Seen /\ Made(behind)' = Made(behind)
        /\ Deciding' = [Deciding EXCEPT ![t] = {}]
        /\ Told' = IF x.op # "get" /\ res = "ok" THEN Told \cup {t} ELSE Told
    <2> HIDE DEF y
    <2>1. Visits' = Visits /\ Seen' = Seen
      BY <1>3, VisitStays
    <2>2. Deciding' = [Deciding EXCEPT ![t] = {}]
      <3>1. Deciding' = [Deciding EXCEPT ![t] = Made(Unsent({y}))]
        BY <1>3, VisitMoves
      <3> QED  BY <1>4, <3>1
    <2>3. Told' = IF x.op # "get" /\ res = "ok" THEN Told \cup {t} ELSE Told
      <3>1. Told' = IF ToldToGo(page[t], {y}) THEN Told \cup {t} ELSE Told \ {t}
        BY <1>3, VisitMoves
      <3>2. t \notin Told
        BY <1>5 DEF Told
      <3> QED  BY <1>5, <3>1, <3>2
    <2> QED  BY <1>1, <2>1, <2>2, <2>3 DEF Made, Recorded
  <1>7. CASE CanDo(x)
    <2> DEFINE d == Promise!On(x.challenge, Recorded(x))
    <2>1. Unsent(calls[t]) = {x}
      BY <1>1, <1>2, <1>7 DEF Unsent, CanDo
    <2>2. Deciding[t] = {d}
      BY <1>7, <2>1, MadeOne DEF Deciding, Undone, Unsent, CanDo
    <2>3. Promise!TakeUp(d, done)
      BY <1>1 DEF Record, Promise!TakeUp, Promise!On
    <2>4. (x.op # "get" /\ res = "ok") => done
      BY <1>1 DEF Outcome
    <2> HIDE DEF d
    <2> QED  BY <1>1, <1>6, <2>2, <2>3, <2>4 DEF Promise!Hear
  <1>8. CASE ~ CanDo(x)
    <2>1. request' = request /\ ~ (x.op # "get" /\ res = "ok")
      BY <1>1, <1>8 DEF Outcome, Record, CanDo
    <2>2. Made(Unsent({y})) = Made(Unsent(calls[t]))
      <3>1. CASE x.op = "get"
        BY <1>2, <1>4, <3>1 DEF Unsent
      <3>2. CASE x.challenge = None /\ x.op # "get"
        <4>1. Unsent(calls[t]) = {x}
          BY <1>1, <1>2, <3>2 DEF Unsent
        <4> QED  BY <1>4, <3>2, <4>1, MadeOne
      <3> QED  BY <1>8, <3>1, <3>2 DEF CanDo
    <2>3. Deciding' = Deciding /\ Told' = Told
      <3> HIDE DEF y
      <3> QED  BY <1>3, <1>5, <2>1, <2>2, VisitStays
    <2> QED  BY <1>1, <1>6, <2>1, <2>3 DEF Promise!vars
  <1> QED  BY <1>7, <1>8

\* Different decisions without a document are different calls.
LEMMA MadeApart ==
    ASSUME BehindUndone, behind \subseteq Call, NEW x \in behind
    PROVE  Made(behind \ {x}) =
              IF x.challenge = None THEN Made(behind)
              ELSE Made(behind) \ {Promise!On(x.challenge, Recorded(x))}
  <1>1. ASSUME NEW y \in behind, y.challenge = x.challenge, Recorded(y) = Recorded(x)
        PROVE  y = x
    <2>1. /\ y.op \in {"accept", "reject"} /\ x.op \in {"accept", "reject"}
          /\ y.res = x.res
      BY DEF BehindUndone, Call
    <2>2. y.op = x.op /\ y.subject = x.subject /\ y.grant = x.grant
      BY <1>1, <2>1 DEF Recorded
    <2> QED  BY <1>1, <2>1, <2>2 DEF Call
  <1>2. CASE x.challenge = None
    BY <1>2 DEF Made
  <1>3. CASE x.challenge # None
    BY <1>1, <1>3 DEF Made, Promise!On
  <1> QED  BY <1>2, <1>3

LEMMA BackendLateImplements ==
    ASSUME PagesSound, BehindUndone, BackendLate
    PROVE  Promise!HearLate \/ UNCHANGED Promise!vars
  <1>1. PICK x \in behind, done \in BOOLEAN :
            /\ done => CanDo(x)
            /\ Record(x, done) /\ behind' = behind \ {x}
            /\ UNCHANGED <<page, calls, session>>
    BY DEF BackendLate
  <1>2. Visits' = Visits /\ Seen' = Seen /\ Deciding' = Deciding /\ Told' = Told
    BY <1>1 DEF Visits, Seen, Deciding, Undone, Told
  <1>3. Made(behind)' = Made(behind \ {x})
    BY <1>1 DEF Made, Recorded
  <1>4. CASE x.challenge = None
    <2>1. request' = request
      BY <1>1, <1>4 DEF CanDo, Record
    <2> QED  BY <1>1, <1>2, <1>3, <1>4, <2>1, MadeApart DEF PagesSound, Promise!vars
  <1>5. CASE x.challenge # None
    <2> DEFINE d == Promise!On(x.challenge, Recorded(x))
    <2>1. d \in Made(behind)
      BY <1>5 DEF Made, Promise!On
    <2>2. Made(behind)' = Made(behind) \ {d}
      BY <1>3, <1>5, MadeApart DEF PagesSound
    <2>3. Promise!TakeUp(d, done)
      BY <1>1 DEF Record, Promise!TakeUp, Promise!On
    <2> HIDE DEF d
    <2> QED  BY <1>1, <1>2, <2>1, <2>2, <2>3 DEF Promise!HearLate
  <1> QED  BY <1>4, <1>5

-----------------------------------------------------------------------------
\* The pages.

\* A document that keeps its address, and neither sends nor was told anything.
LEMMA EditStutters ==
    ASSUME Inv, NEW t \in Tabs, NEW p, page' = [page EXCEPT ![t] = p],
           About(p) = About(page[t]), p.known <=> page[t].known,
           p.going = "redirect" <=> page[t].going = "redirect",
           UNCHANGED <<request, calls, behind, session>>
    PROVE  UNCHANGED Promise!vars
  <1>1. PagesSound /\ calls' = [calls EXCEPT ![t] = calls[t]]
    BY InvParts DEF PagesSound
  <1>2. ToldToGo(p, calls[t]) <=> ToldToGo(page[t], calls[t])
    BY DEF ToldToGo
  <1>3. Visits' = Visits /\ Seen' = Seen /\ Deciding' = Deciding /\ Told' = Told
    BY <1>1, <1>2, VisitStays
  <1> QED  BY <1>3 DEF Made, Recorded, Promise!vars

LEMMA ReturnImplements ==
    ASSUME Inv, NEW t \in Tabs, Return(t)
    PROVE  Promise!See(t) \/ UNCHANGED Promise!vars
  <1>0. PagesSound
    BY InvParts
  <1>1. PICK x \in calls[t] :
            /\ IsPage(t) /\ x.res # "pending"
            /\ page' = [page EXCEPT ![t] = Continued(@, x)]
            /\ calls' = [calls EXCEPT ![t] = (@ \ {x}) \cup SkipCalls(page[t], x)]
            /\ UNCHANGED <<request, behind, session>>
    BY DEF Return
  <1> DEFINE p == page[t]
             n == Continued(page[t], x)
             cs == SkipCalls(page[t], x)
  <1>2. /\ p \in Page /\ p.at \in Kinds /\ calls[t] = {x} /\ x \in Call
        /\ PageSound(p, {x}, request)
    <2>1. calls[t] = {x}
      BY <1>0, <1>1 DEF PagesSound, Sound
    <2> QED  BY <1>0, <1>1, <2>1 DEF PagesSound, Sound, IsPage
  <1>3. page' = [page EXCEPT ![t] = n] /\ calls' = [calls EXCEPT ![t] = cs]
    <2>1. calls[t] \ {x} = {}
      BY <1>2
    <2> QED  BY <1>0, <1>1, <2>1 DEF PagesSound
  <1>4. About(n) = About(p)
    BY <1>2 DEF Continued, Failed, Fetched, Redirected, About, Page
  <1>5. Made(Unsent(cs)) = Made(Unsent(calls[t])) /\ \A y \in cs : y.res = "pending"
    <2>1. Made(Unsent(calls[t])) = {}
      BY <1>1, <1>2 DEF Made, Unsent
    <2>2. \A y \in cs : y.challenge = None /\ y.res = "pending"
      BY DEF SkipCalls, SkipAccept, Ask, InFirstRender
    <2> QED  BY <2>1, <2>2 DEF Made, Unsent
  <1>6. p.going # "redirect"
    BY <1>2 DEF PageSound
  <1>7. ToldToGo(n, cs) <=> ToldToGo(p, calls[t])
    <2>1. ToldToGo(n, cs) <=> n.going = "redirect"
      BY <1>5 DEF ToldToGo
    <2>2. ToldToGo(p, calls[t]) <=> x.op # "get" /\ x.res = "ok"
      BY <1>2, <1>6 DEF ToldToGo
    <2>3. n.going = "redirect" <=> x.op # "get" /\ x.res = "ok"
      BY <1>1, <1>2, <1>6 DEF Continued, Failed, Fetched, Redirected, Page, Call
    <2> QED  BY <2>1, <2>2, <2>3
  <1>8. Visits' = Visits /\ Deciding' = Deciding /\ Told' = Told
        /\ Made(behind)' = Made(behind)
    <2>1. Made(behind)' = Made(behind)
      BY <1>1 DEF Made, Recorded
    <2> HIDE DEF n, cs
    <2> QED  BY <1>0, <1>3, <1>4, <1>5, <1>7, <2>1, VisitStays DEF p
  <1>9. CASE x.op = "get" /\ x.res = "ok"
    <2>1. n.known
      BY <1>2, <1>9 DEF Continued, Fetched, Page
    <2>2. Seen' = Seen \cup {t}
      <3> HIDE DEF n, cs
      <3> QED  BY <1>0, <1>3, <2>1, VisitMoves
    <2>3. Visits[t] # None
      BY <1>2, <1>9 DEF PageSound, Visits, About
    <2> QED  BY <1>1, <1>8, <2>2, <2>3 DEF Promise!See
  <1>10. CASE ~ (x.op = "get" /\ x.res = "ok")
    <2>1. n.known <=> p.known
      BY <1>1, <1>2, <1>10 DEF Continued, Failed, Redirected, Page, Call
    <2>2. Seen' = Seen
      <3> HIDE DEF n, cs
      <3> QED  BY <1>0, <1>3, <2>1, VisitStays DEF p
    <2> QED  BY <1>1, <1>8, <2>2 DEF Promise!vars
  <1> QED  BY <1>9, <1>10

\* What a button sends is a decision of the visit, if it has a challenge.
LEMMA SendImplements ==
    ASSUME Inv, NEW t \in Tabs, NEW x, Form(t), Send(t, x),
           x.challenge = page[t].held, x.op # "get", x.res = "pending",
           x.challenge # None =>
              /\ Recorded(x) \in Promise!Meant(x.challenge)
              /\ AcceptsConsent(x) => page[t].known
    PROVE  Promise!Decide(t) \/ UNCHANGED Promise!vars
  <1> DEFINE p == [page[t] EXCEPT !.loading = TRUE]
             c == x.challenge
  <1>0. PagesSound
    BY InvParts
  <1>1. /\ page[t] \in Page /\ page[t].at \in Kinds /\ calls[t] = {}
        /\ page[t].held = page[t].url /\ page[t].going # "redirect"
    BY FormFacts DEF PageSound
  <1>2. /\ About(p) = c /\ About(page[t]) = c /\ p.known = page[t].known
        /\ p.going = page[t].going
    BY <1>1 DEF Page, About
  <1>3. page' = [page EXCEPT ![t] = p] /\ calls' = [calls EXCEPT ![t] = {x}]
    BY <1>0, <1>1 DEF Send, PagesSound
  <1>4. ~ ToldToGo(p, {x}) /\ ~ ToldToGo(page[t], calls[t])
    BY <1>1, <1>2 DEF ToldToGo
  <1>5. Unsent({x}) = {x} /\ Made(Unsent(calls[t])) = {}
    BY <1>1 DEF Unsent, Made
  <1>6. UNCHANGED <<request, behind, session>> /\ Made(behind)' = Made(behind)
    BY DEF Send, Made, Recorded
  <1> HIDE DEF p
  <1>7. Visits' = Visits /\ Seen' = Seen /\ Told' = Told
    BY <1>0, <1>2, <1>3, <1>4, VisitStays
  <1>8. CASE c = None
    <2>1. Made(Unsent({x})) = {}
      BY <1>5, <1>8, MadeOne
    <2>2. Deciding' = Deciding
      BY <1>0, <1>3, <1>5, <2>1, VisitStays
    <2> QED  BY <1>6, <1>7, <2>2 DEF Promise!vars
  <1>9. CASE c # None
    <2> DEFINE d == Promise!On(c, Recorded(x))
    <2>1. Made(Unsent({x})) = {d}
      BY <1>5, <1>9, MadeOne
    <2>2. Deciding' = [Deciding EXCEPT ![t] = {d}]
      <3>1. Deciding' = [Deciding EXCEPT ![t] = Made(Unsent({x}))]
        BY <1>0, <1>3, VisitMoves
      <3> QED  BY <2>1, <3>1
    <2>3. Visits[t] = c /\ Deciding[t] = {} /\ t \notin Told
      BY <1>2, <1>4, <1>5 DEF Visits, Deciding, Undone, Unsent, Told
    <2>4. Kind[c] = "consent" /\ Recorded(x).state = "accepted" => t \in Seen
      BY <1>9 DEF Recorded, AcceptsConsent, Seen
    <2> QED  BY <1>6, <1>7, <1>9, <2>2, <2>3, <2>4 DEF Promise!Decide
  <1> QED  BY <1>8, <1>9

\* What the buttons of each page mean.
LEMMA Meanings ==
    ASSUME NEW c \in Challenges
    PROVE  /\ Promise!Refusal \in Promise!Meant(c)
           /\ Kind[c] = "login" =>
                 \A p \in People : Promise!Accepted(p, {}) \in Promise!Meant(c)
           /\ Kind[c] = "consent" =>
                 \A g \in (SUBSET Ticks(c)) \ {{}} :
                    Promise!Accepted(None, g) \in Promise!Meant(c)
           /\ Kind[c] = "logout" => Promise!Accepted(None, {}) \in Promise!Meant(c)
  BY DEF Promise!Meant, Promise!Offered, Ticks

LEMMA Asked ==
    ASSUME NEW c, NEW p, NEW g
    PROVE  /\ Ask("accept", c, p, g).op = "accept"
           /\ Ask("accept", c, p, g).challenge = c
           /\ Ask("accept", c, p, g).res = "pending"
           /\ Recorded(Ask("accept", c, p, g)) = Promise!Accepted(p, g)
           /\ Ask("reject", c, None, {}).op = "reject"
           /\ Ask("reject", c, None, {}).challenge = c
           /\ Ask("reject", c, None, {}).res = "pending"
           /\ Recorded(Ask("reject", c, None, {})) = Promise!Refusal
  BY DEF Ask, Recorded, Promise!Accepted, Promise!Refusal

LEMMA UserImplements ==
    ASSUME Inv, NEW t \in Tabs, User(t)
    PROVE  Promise!Decide(t) \/ UNCHANGED Promise!vars
  <1> DEFINE c == page[t].held
  <1>0. PagesSound
    BY InvParts
  <1>1. Form(t) => /\ page[t] \in Page /\ c \in Challenges \cup {None}
                   /\ page[t].held = page[t].url
                   /\ c # None => Kind[c] = page[t].at
                   /\ page[t].ticked # {} =>
                         page[t].known /\ c # None /\ page[t].ticked \subseteq Ticks(c)
    BY FormFacts DEF PageSound, Page
  <1>2. ASSUME NEW p \in People, SignIn(t, p)
        PROVE  Promise!Decide(t) \/ UNCHANGED Promise!vars
    <2>1. Form(t) /\ page[t].at = "login" /\ Send(t, Ask("accept", c, p, {}))
      BY <1>2 DEF SignIn
    <2>2. c # None => Promise!Accepted(p, {}) \in Promise!Meant(c) /\ Kind[c] # "consent"
      BY <1>1, <2>1, Meanings
    <2> QED  BY <2>1, <2>2, Asked, SendImplements DEF AcceptsConsent
  <1>3. CASE Allow(t)
    <2>1. Form(t) /\ page[t].at = "consent" /\ page[t].ticked # {}
          /\ Send(t, Ask("accept", c, None, page[t].ticked))
      BY <1>3 DEF Allow
    <2>2. /\ c \in Challenges /\ page[t].known
          /\ Promise!Accepted(None, page[t].ticked) \in Promise!Meant(c)
      <3>1. c \in Challenges /\ Kind[c] = "consent" /\ page[t].known
            /\ page[t].ticked \in (SUBSET Ticks(c)) \ {{}}
        BY <1>1, <2>1
      <3> QED  BY <3>1, Meanings
    <2> QED  BY <2>1, <2>2, Asked, SendImplements
  <1>4. CASE SignOut(t)
    <2>1. Form(t) /\ page[t].at = "logout" /\ Send(t, Ask("accept", c, None, {}))
      BY <1>4 DEF SignOut
    <2>2. c # None => Promise!Accepted(None, {}) \in Promise!Meant(c) /\ Kind[c] # "consent"
      BY <1>1, <2>1, Meanings
    <2> QED  BY <2>1, <2>2, Asked, SendImplements DEF AcceptsConsent
  <1>5. CASE Reject(t)
    <2>1. Form(t) /\ Send(t, Ask("reject", c, None, {}))
      BY <1>5 DEF Reject
    <2>2. c # None => Promise!Refusal \in Promise!Meant(c)
      BY <1>1, <2>1, Meanings
    <2> QED  BY <2>1, <2>2, Asked, SendImplements DEF AcceptsConsent
  <1>6. ASSUME NEW s \in Scopes, Toggle(t, s)
        PROVE  UNCHANGED Promise!vars
    <2> DEFINE n == [page[t] EXCEPT !.ticked = IF s \in @ THEN @ \ {s} ELSE @ \cup {s}]
    <2>1. /\ page' = [page EXCEPT ![t] = n] /\ UNCHANGED <<request, calls, behind, session>>
          /\ Form(t)
      BY <1>0, <1>6 DEF Toggle, PagesSound
    <2>2. About(n) = About(page[t]) /\ n.known = page[t].known /\ n.going = page[t].going
      BY <1>1, <2>1 DEF About, Page
    <2> HIDE DEF n
    <2> QED  BY <2>1, <2>2, EditStutters
  <1>7. CASE GoToAzure(t)
    <2> DEFINE n == [page[t] EXCEPT !.going = "azure"]
    <2>1. /\ page' = [page EXCEPT ![t] = n] /\ UNCHANGED <<request, calls, behind, session>>
          /\ Form(t)
      BY <1>0, <1>7 DEF GoToAzure, PagesSound
    <2>2. /\ About(n) = About(page[t]) /\ n.known = page[t].known
          /\ n.going # "redirect" /\ page[t].going # "redirect"
      BY <1>1, <2>1, FormFacts DEF About, Page
    <2> HIDE DEF n
    <2> QED  BY <2>1, <2>2, EditStutters
  <1> QED  BY <1>2, <1>3, <1>4, <1>5, <1>6, <1>7 DEF User

-----------------------------------------------------------------------------
\* The browser and Azure.

LEMMA FollowImplements ==
    ASSUME Inv, NEW t \in Tabs, Follow(t)
    PROVE  Promise!Turn(t) \/ Promise!Bring(t)
  <1>0. PagesSound
    BY InvParts
  <1>1. CASE page[t].going = "redirect"
    BY <1>0, <1>1, PlainTurn DEF Follow
  <1>2. CASE page[t].going # "redirect"
    <2> DEFINE n == [Away EXCEPT !.at = "azure", !.url = page[t].held]
    <2>1. Replace(t, n, {}) /\ session' = Begun(t) /\ UNCHANGED request
      BY <1>2 DEF Follow
    <2>2. About(n) = None /\ n.known = FALSE /\ n.going = "nowhere"
      BY DEF Away, About, Kinds
    <2>3. ~ ToldToGo(n, {}) /\ Made(Unsent({})) = {}
      BY <2>2 DEF ToldToGo, Made, Unsent
    <2>4. Promise!Go(t, None, {})
      <3> HIDE DEF n
      <3>1. Promise!Go(t, About(n), Made(Unsent({})))
        BY <1>0, <2>1, <2>2, <2>3, ReplaceImplements
      <3> QED  BY <2>2, <2>3, <3>1
    <2>5. /\ page[t] \in Page /\ page[t].at = "login" /\ page[t].held = page[t].url
          /\ page[t].url # None => Kind[page[t].url] = "login"
      BY <1>0, <1>2 DEF Follow, PagesSound, Sound, PageSound, OutsideSound, Page
    <2>6. Visits[t] = page[t].held
      BY <2>5 DEF Visits, About, Kinds
    <2>7. session'.slot = IF Visits[t] = None THEN session.slot ELSE Visits[t]
      BY <2>1, <2>6 DEF Begun
    <2> QED  BY <2>4, <2>5, <2>6, <2>7 DEF Promise!Bring
  <1> QED  BY <1>1, <1>2

LEMMA CallbackImplements ==
    ASSUME Inv, NEW t \in Tabs, NEW q \in People, Callback(t, q)
    PROVE  Promise!Turn(t) \/ Promise!ComeBack(t)
  <1>0. PagesSound
    BY InvParts
  <1>1. session'.slot = None /\ UNCHANGED request /\ q \in People \ Barred
    BY DEF Callback, NoSession
  <1>2. CASE session.slot = None
    <2>1. Promise!Go(t, None, {})
      BY <1>0, <1>2, PlainImplements DEF Callback
    <2> QED  BY <1>1, <1>2, <2>1 DEF Promise!Turn
  <1>3. CASE session.slot # None
    <2> DEFINE n == [Away EXCEPT !.at = "callback", !.url = page[t].url,
                                 !.held = session.slot]
               x == Ask("accept", session.slot, q, {})
               d == Promise!On(session.slot, Promise!Accepted(q, {}))
    <2>1. Replace(t, n, {x})
      BY <1>3 DEF Callback
    <2>2. About(n) = session.slot /\ n.known = FALSE /\ n.going = "nowhere"
      BY DEF Away, About, Kinds
    <2>3. ~ ToldToGo(n, {x})
      BY <2>2, Asked DEF ToldToGo
    <2>4. Made(Unsent({x})) = {d}
      <3>1. Unsent({x}) = {x}
        BY Asked DEF Unsent
      <3>2. x.challenge = session.slot /\ Recorded(x) = Promise!Accepted(q, {})
        BY Asked
      <3> HIDE DEF x
      <3>3. Made({x}) = {Promise!On(x.challenge, Recorded(x))}
        BY <1>3, <3>2, MadeOne
      <3> QED  BY <3>1, <3>2, <3>3
    <2>5. Promise!Go(t, session.slot, {d})
      <3> HIDE DEF n, x, d
      <3>1. Promise!Go(t, About(n), Made(Unsent({x})))
        BY <1>0, <1>1, <2>1, <2>2, <2>3, ReplaceImplements
      <3> QED  BY <2>2, <2>4, <3>1
    <2>6. Visits[t] = None
      BY DEF Callback, Visits, About, Kinds
    <2> QED  BY <1>1, <1>3, <2>5, <2>6 DEF Promise!ComeBack
  <1> QED  BY <1>2, <1>3

LEMMA AzureImplements ==
    ASSUME Inv, NEW t \in Tabs, Azure(t)
    PROVE  Promise!Turn(t) \/ Promise!ComeBack(t) \/ Promise!SignOff(t)
  <1>0. PagesSound
    BY InvParts
  <1>1. CASE AzureFails(t) \/ CallbackReturns(t)
    BY <1>0, <1>1, PlainTurn DEF AzureFails, CallbackReturns
  <1>2. CASE AzureBars(t)
    <2>1. Promise!Go(t, None, {})
      BY <1>0, <1>2, PlainImplements DEF AzureBars
    <2>2. session'.slot = session.slot
      BY <1>2, InvParts DEF AzureBars, SessionSound, Session
    <2> QED  BY <2>1, <2>2 DEF Promise!Turn
  <1>3. CASE \E q \in People : Callback(t, q)
    BY <1>3, CallbackImplements
  <1>4. CASE AzureLogout(t)
    <2>1. Promise!Go(t, None, {})
      BY <1>0, <1>4, PlainImplements DEF AzureLogout
    <2> QED  BY <1>4, <2>1 DEF AzureLogout, NoSession, Promise!SignOff
  <1> QED  BY <1>1, <1>2, <1>3, <1>4 DEF Azure

LEMMA InitImplements == Init => Promise!Init
  <1> SUFFICES ASSUME Init  PROVE Promise!Init
    OBVIOUS
  <1>1. Visits = [t \in Tabs |-> None]
    BY DEF Init, Visits, About, Away, Kinds
  <1>2. Seen = {} /\ Told = {}
    BY DEF Init, Seen, Told, ToldToGo, Away
  <1>3. Deciding = [t \in Tabs |-> {}] /\ Made(behind) = {}
    BY DEF Init, Deciding, Undone, Made
  <1> QED  BY <1>1, <1>2, <1>3 DEF Init, NoSession, Promise!Init

LEMMA StepImplements ==
    ASSUME Inv, BehindUndone, [Next]_vars
    PROVE  [Promise!Next]_(Promise!vars)
  <1>0. PagesSound
    BY InvParts
  <1>1. CASE UNCHANGED vars
    BY <1>1 DEF vars, Visits, Seen, Deciding, Undone, Told, Made, Recorded, Promise!vars
  <1>2. ASSUME NEW t \in Tabs, Opens(t)  PROVE Promise!Next
    BY <1>0, <1>2, OpenImplements DEF Promise!Next
  <1>3. ASSUME NEW t \in Tabs, User(t)  PROVE Promise!Next \/ UNCHANGED Promise!vars
    BY <1>3, UserImplements DEF Promise!Next
  <1>4. ASSUME NEW t \in Tabs, Backend(t)  PROVE Promise!Next \/ UNCHANGED Promise!vars
    BY <1>0, <1>4, BackendImplements DEF Promise!Next
  <1>5. ASSUME NEW t \in Tabs, Return(t)  PROVE Promise!Next \/ UNCHANGED Promise!vars
    BY <1>5, ReturnImplements DEF Promise!Next
  <1>6. ASSUME NEW t \in Tabs, Follow(t)  PROVE Promise!Next
    BY <1>6, FollowImplements DEF Promise!Next
  <1>7. ASSUME NEW t \in Tabs, Azure(t)  PROVE Promise!Next
    BY <1>7, AzureImplements DEF Promise!Next
  <1>8. CASE BackendLate
    BY <1>0, <1>8, BackendLateImplements DEF Promise!Next
  <1> QED  BY <1>1, <1>2, <1>3, <1>4, <1>5, <1>6, <1>7, <1>8 DEF Next

\* The pages and the Azure sign-in promise Decisions, for any tabs, challenges,
\* scopes and people, and whatever is lost or late: each decision was made on
\* the request visited or brought to Azure, is recorded once or never, and who
\* is told to go on had it recorded (LoginPage.js:36-114, ConsentPage.js:31-118,
\* LogoutPage.js:30-65, azure-routes.js:62-115).
THEOREM Implementation == Spec => ImplementsDecisions
  <1> DEFINE IInv == Inv /\ BehindUndone
  <1>1. Init => Promise!Init
    BY InitImplements
  <1>2. IInv /\ [Next]_vars => [Promise!Next]_(Promise!vars)
    BY StepImplements
  <1>3. Spec => []IInv
    <2>1. TypeOK /\ FlowSound <=> Inv
      BY DEF Inv
    <2> QED  BY <2>1, Invariance, AlwaysBehindUndone, PTL
  <1> QED  BY <1>1, <1>2, <1>3, PTL DEF Spec, ImplementsDecisions, Promise!Spec
=============================================================================
