----------------------------- MODULE AccountBook -----------------------------
(***************************************************************************)
(* What the portal promises about its administrators, without accesses,    *)
(* instances or starts: accounts appear whole and by authority, a password *)
(* changes only by a reset, and a token, a page or a new account is had    *)
(* only by someone who was entitled to it at some moment between the call  *)
(* and the answer.                                                         *)
(***************************************************************************)
EXTENDS AccountCalls

VARIABLES
    accounts,  \* by address
    tokens,    \* the accounts for which a token has been issued
    call,
    phase,     \* "idle", "asked", "entitled" or "answered"
    reply

vars == <<accounts, tokens, call, phase, reply>>

Init ==
    /\ accounts = [e \in {} |-> None]
    /\ tokens = {}
    /\ call = [j \in Jobs |-> CHOOSE c \in Calls[j] : TRUE]
    /\ phase = [j \in Jobs |-> "idle"]
    /\ reply = [j \in Jobs |-> None]

Move(j, from, to) ==
    phase[j] \in from /\ phase' = [phase EXCEPT ![j] = to]

End(j, from, answers) ==
    /\ Move(j, from, "answered")
    /\ \E a \in answers : reply' = [reply EXCEPT ![j] = a]

Ask(j) ==
    /\ Move(j, {"idle", "answered"}, "asked")
    /\ \E c \in Calls[j] : call' = [call EXCEPT ![j] = c]
    /\ reply' = [reply EXCEPT ![j] = None]
    /\ UNCHANGED <<accounts, tokens>>

\* To sign in by the password, to a request by a token.  A script is run by
\* who may.
Entitled(c) ==
    IF c.op \in {"login", "test"}
    THEN Address(c) \in DOMAIN accounts /\ Matches(c, accounts[Address(c)])
    ELSE /\ c.op \in Requests
         /\ c.by \in tokens \cap DOMAIN accounts
         /\ MayUse(c, accounts[c.by])

Entitle(j) ==
    /\ Move(j, {"asked"}, "entitled")
    /\ Entitled(call[j])
    /\ UNCHANGED <<accounts, tokens, call, reply>>

Creators == {"admin", "tenantAdmin", "onboard", "create"} \cup Starters

\* Scripts make the default super-admin, and administrators of tenants; with
\* a token a super-admin makes any account, an administrator those of its own
\* tenant and rank.
MayMake(c, new) ==
    CASE IsStandard(c) ->
            new.role = "super-admin" /\ new.tenant = None /\ new.password = Standard
      [] c.op = "onboard" -> new.role = "admin"
      [] c.op \in Requests ->
            \/ accounts[c.by].role = "super-admin"
            \/ /\ accounts[c.by].role = "admin" /\ new.role = "admin"
               /\ new.tenant = accounts[c.by].tenant

Enroll(j) ==
    LET c == call[j] IN
    /\ End(j, IF c.op \in Requests THEN {"entitled"} ELSE {"asked"},
           {"created", "initialised", "failed", "swallowed"})
    /\ c.op \in Creators
    /\ Address(c) \notin DOMAIN accounts
    /\ \E new \in Account :
          /\ MayMake(c, new)
          /\ accounts' = [e \in DOMAIN accounts \cup {Address(c)} |->
                 IF e = Address(c) THEN new ELSE accounts[e]]
    /\ UNCHANGED <<tokens, call>>

Grant(j) ==
    /\ End(j, {"entitled"}, {"token"})
    /\ call[j].op \in {"login", "test"}
    /\ tokens' = tokens \cup {Address(call[j])}
    /\ UNCHANGED <<accounts, call>>

Show(j) ==
    /\ End(j, {"asked", "entitled"}, {"shown"})
    /\ phase[j] = "asked" => Entitled(call[j])
    /\ UNCHANGED <<accounts, tokens, call>>

\* One half of a reset.
Reset(j) ==
    /\ Move(j, {"asked"}, "asked")
    /\ call[j].op = "reset"
    /\ \E e \in {Default, Second} \cap DOMAIN accounts :
          accounts' = [accounts EXCEPT ![e].password = Standard]
    /\ UNCHANGED <<tokens, call, reply>>

\* Anything else: a refusal, an error, a report.
Answer(j) ==
    /\ End(j, {"asked", "entitled"},
           {"refused", "failed", "ok", "initialised", "swallowed"})
    /\ UNCHANGED <<accounts, tokens, call>>

Deactivate ==
    /\ \E e \in DOMAIN accounts :
          accounts' = [accounts EXCEPT ![e].active = FALSE]
    /\ UNCHANGED <<tokens, call, phase, reply>>

\* A process ends and forgets what it was asked.
Forget ==
    /\ \E js \in SUBSET Jobs :
          phase' = [j \in Jobs |-> IF j \in js THEN "idle" ELSE phase[j]]
    /\ UNCHANGED <<accounts, tokens, call, reply>>

Next ==
    \/ \E j \in Jobs : \/ Ask(j) \/ Entitle(j) \/ Enroll(j) \/ Grant(j)
                       \/ Show(j) \/ Reset(j) \/ Answer(j)
    \/ Deactivate \/ Forget

Spec == Init /\ [][Next]_vars
=============================================================================
