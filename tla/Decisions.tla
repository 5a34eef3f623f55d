------------------------------ MODULE Decisions ------------------------------
(***************************************************************************)
(* What the pages of login-consent-app-react and the Azure sign-in promise *)
(* to Ory Hydra and to the people who use them, without documents, forms,  *)
(* calls or sessions.  A tab visits the request of one challenge; a person *)
(* decides on it there, or with a Microsoft account on the request that    *)
(* was last brought to Azure.  Hydra records a decision once, or never,    *)
(* and a tab is told to go on only when its own decision was recorded.     *)
(***************************************************************************)
CONSTANTS Tabs, Challenges, Kind, Scopes, Requested, People, Barred, None, Absent

VARIABLES
    request,   \* what Hydra has recorded for each challenge
    visit,     \* the challenge that each tab is about, or None
    seen,      \* the tabs that were shown their request
    decision,  \* what each tab has decided and Hydra has not taken up, if anything
    told,      \* the tabs that Hydra has told where to go on
    late,      \* decisions of visits that are over
    brought    \* the challenge of the next sign-in with Azure, or None

vars == <<request, visit, seen, decision, told, late, brought>>

Offered(c) == IF Requested[c] = Absent THEN {} ELSE Requested[c]

\* What a visitor of c may mean by a decision.
Refusal == [state |-> "rejected", subject |-> None, grant |-> {}]
Accepted(p, g) == [state |-> "accepted", subject |-> p, grant |-> g]

Meant(c) ==
    {Refusal} \cup
    CASE Kind[c] = "login"   -> {Accepted(p, {}) : p \in People}
      [] Kind[c] = "consent" -> {Accepted(None, g) : g \in (SUBSET Offered(c)) \ {{}}}
      [] OTHER               -> {Accepted(None, {})}

On(c, outcome) == [challenge |-> c, outcome |-> outcome]

-----------------------------------------------------------------------------

Init ==
    /\ request = [c \in Challenges |->
                     [state |-> "open", subject |-> None, grant |-> {}]]
    /\ visit = [t \in Tabs |-> None]
    /\ seen = {}
    /\ decision = [t \in Tabs |-> {}]
    /\ told = {}
    /\ late = {}
    /\ brought = None

\* Another visit begins in t; what the last one decided may arrive later.
Go(t, c, ds) ==
    /\ visit' = [visit EXCEPT ![t] = c]
    /\ seen' = seen \ {t}
    /\ decision' = [decision EXCEPT ![t] = ds]
    /\ told' = told \ {t}
    /\ late' \in {late, late \cup decision[t]}
    /\ UNCHANGED request

Turn(t) ==
    /\ \E c \in Challenges \cup {None} : Go(t, c, {})
    /\ UNCHANGED brought

See(t) ==
    /\ visit[t] # None
    /\ seen' = seen \cup {t}
    /\ UNCHANGED <<request, visit, decision, told, late, brought>>

\* Nobody decides twice at a time, or after being told to go on, and nobody
\* grants what was not shown.
Decide(t) ==
    /\ visit[t] # None /\ decision[t] = {} /\ t \notin told
    /\ \E o \in Meant(visit[t]) :
          /\ Kind[visit[t]] = "consent" /\ o.state = "accepted" => t \in seen
          /\ decision' = [decision EXCEPT ![t] = {On(visit[t], o)}]
    /\ UNCHANGED <<request, visit, seen, told, late, brought>>

TakeUp(d, done) ==
    request' = IF done THEN [request EXCEPT ![d.challenge] = d.outcome] ELSE request

\* Hydra takes up what t has decided.  t may not be told what was recorded,
\* and decide again.
Hear(t) ==
    \E d \in decision[t], done \in BOOLEAN, answer \in BOOLEAN :
        /\ answer => done
        /\ TakeUp(d, done)
        /\ decision' = [decision EXCEPT ![t] = {}]
        /\ told' = IF answer THEN told \cup {t} ELSE told
        /\ UNCHANGED <<visit, seen, late, brought>>

HearLate ==
    \E d \in late, done \in BOOLEAN :
        /\ TakeUp(d, done)
        /\ late' = late \ {d}
        /\ UNCHANGED <<visit, seen, decision, told, brought>>

\* A login request is brought to Azure in place of the last one.
Bring(t) ==
    /\ visit[t] # None => Kind[visit[t]] = "login"
    /\ Go(t, None, {})
    /\ brought' = IF visit[t] = None THEN brought ELSE visit[t]

\* Somebody who may comes back from Azure, and has decided.
ComeBack(t) ==
    /\ visit[t] = None /\ brought # None
    /\ \E p \in People \ Barred : Go(t, brought, {On(brought, Accepted(p, {}))})
    /\ brought' = None

SignOff(t) ==
    /\ Go(t, None, {})
    /\ brought' = None

Next ==
    \/ \E t \in Tabs : Turn(t) \/ See(t) \/ Decide(t) \/ Hear(t)
                       \/ Bring(t) \/ ComeBack(t) \/ SignOff(t)
    \/ HearLate

Spec == Init /\ [][Next]_vars
=============================================================================
