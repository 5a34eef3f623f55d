--------------------------- MODULE ClientRegistry ---------------------------
(***************************************************************************)
(* What the client API promises, without handlers, calls to Hydra or       *)
(* timers.  A request looks at the clients once, at one moment between its *)
(* call and its answer, and what it saw decides: whether it is refused,    *)
(* what it shows, and whether it is cleared to write.  Once cleared it has *)
(* one effect before its answer, or none; who is given up may leave a      *)
(* write behind, which has its one effect at any later time, or never.     *)
(***************************************************************************)
EXTENDS ClientCalls

VARIABLES
    clients,  \* by client_id
    made,     \* the client_ids that were ever in use
    owed,     \* the write that each slot left behind
    phase,    \* "idle", "asked", "cleared" or "answered"
    call,
    seen,     \* what a request saw of the clients; None before it looks
    effects,  \* how often it took effect
    reply, shown

vars == <<clients, made, owed, phase, call, seen, effects, reply, shown>>

table == <<clients, made>>

Init ==
    /\ clients = [i \in {} |-> None]
    /\ made = {}
    /\ owed = [r \in Requests |-> None]
    /\ phase = [r \in Requests |-> "idle"]
    /\ call = [r \in Requests |-> CHOOSE c \in Calls : TRUE]
    /\ seen = [r \in Requests |-> None]
    /\ effects = [r \in Requests |-> 0]
    /\ reply = [r \in Requests |-> None]
    /\ shown = [r \in Requests |-> {}]

Ask(r) ==
    /\ phase[r] \in {"idle", "answered"}
    /\ \E c \in Calls : call' = [call EXCEPT ![r] = c]
    /\ phase' = [phase EXCEPT ![r] = "asked"]
    /\ effects' = [effects EXCEPT ![r] = 0]
    /\ reply' = [reply EXCEPT ![r] = None]
    /\ shown' = [shown EXCEPT ![r] = {}]
    /\ UNCHANGED <<table, owed, seen>>

Views(cs, S) == {[id |-> i, tenant |-> cs[i].tenant] : i \in S}

\* A list sees the first page of the clients, other calls the one they name.
Look(r) ==
    /\ phase[r] = "asked" /\ seen[r] = None
    /\ call[r].op # "create" /\ Entitled(call[r])
    /\ seen' = [seen EXCEPT ![r] =
          Views(clients, IF call[r].op = "list" THEN Page(DOMAIN clients)
                         ELSE {call[r].id} \cap DOMAIN clients)]
    /\ UNCHANGED <<table, owed, phase, call, effects, reply, shown>>

Sees(r) == seen[r] # None /\ seen[r] # {}
Mine(r) == \A v \in seen[r] : MayTouch(call[r], v.tenant)

Clear(r) ==
    /\ phase[r] = "asked"
    /\ Entitled(call[r]) /\ ~ Reads(call[r])
    /\ call[r].op # "create" => Sees(r) /\ Mine(r)
    /\ phase' = [phase EXCEPT ![r] = "cleared"]
    /\ seen' = [seen EXCEPT ![r] = None]
    /\ UNCHANGED <<table, owed, call, effects, reply, shown>>

-----------------------------------------------------------------------------
\* An effect.

\* The administrator had authority over the client when it was cleared; a
\* settled client is still its tenant's when the effect comes.
Rightful(m) ==
    Settled(m.id) /\ m.id \in DOMAIN clients => MayTouch(m, clients[m.id].tenant)

Added(m) ==
    /\ m.op = "create"
    /\ \E i \in Ids \ DOMAIN clients, s \in Secrets :
          /\ IF m.id = None THEN i \notin made ELSE i = m.id
          /\ clients' = [j \in DOMAIN clients \cup {i} |->
                IF j = i THEN [tenant |-> m.tenant, body |-> m.body, secret |-> s]
                ELSE clients[j]]
          /\ made' = made \cup {i}

Removed(m) ==
    /\ m.op = "delete" /\ m.id \in DOMAIN clients
    /\ clients' = [i \in DOMAIN clients \ {m.id} |-> clients[i]]
    /\ UNCHANGED made

\* The rest of the client stays, and so do the other clients.
Altered(m) ==
    /\ m.op \in {"put", "secret"} /\ m.id \in DOMAIN clients
    /\ \E new \in Client :
          /\ m.op = "put" => /\ new.tenant = m.tenant /\ new.body = m.body
                             /\ new.secret = clients[m.id].secret
          /\ m.op = "secret" => /\ new.tenant = clients[m.id].tenant
                                /\ new.body = clients[m.id].body
                                /\ new.secret # clients[m.id].secret
          /\ clients' = [clients EXCEPT ![m.id] = new]
    /\ UNCHANGED made

Effect(m) ==
    /\ RoleOf[m.admin] \in {"super-admin", "admin"}
    /\ Rightful(m)
    /\ Added(m) \/ Removed(m) \/ Altered(m)

TakeEffect(r) ==
    /\ phase[r] = "cleared" /\ effects[r] = 0 /\ seen[r] = None
    /\ Effect(Sent(call[r]))
    /\ effects' = [effects EXCEPT ![r] = 1]
    /\ seen' = [seen EXCEPT ![r] =
          Views(clients', {i \in DOMAIN clients' :
                             i = call[r].id \/ i \notin DOMAIN clients})]
    /\ UNCHANGED <<owed, phase, call, reply, shown>>

\* What was asked cannot be done any more.
Miss(r) ==
    /\ phase[r] = "cleared" /\ effects[r] = 0 /\ seen[r] = None
    /\ (call[r].id \in DOMAIN clients) <=> (call[r].op = "create" /\ call[r].id # None)
    /\ seen' = [seen EXCEPT ![r] = {}]
    /\ UNCHANGED <<table, owed, phase, call, effects, reply, shown>>

\* An effect that comes late, or never.
Settle(r) ==
    /\ owed[r] # None
    /\ owed' = [owed EXCEPT ![r] = None]
    /\ Effect(owed[r]) \/ UNCHANGED table
    /\ UNCHANGED <<phase, call, seen, effects, reply, shown>>

-----------------------------------------------------------------------------
\* Answers.

Reply(r, code, views) ==
    /\ phase' = [phase EXCEPT ![r] = "answered"]
    /\ seen' = [seen EXCEPT ![r] = None]
    /\ reply' = [reply EXCEPT ![r] = code]
    /\ shown' = [shown EXCEPT ![r] = views]
    /\ UNCHANGED <<table, call, effects>>

Refuse(r) ==
    /\ phase[r] = "asked"
    /\ ~ Entitled(call[r]) \/ (call[r].op # "list" /\ Sees(r) /\ ~ Mine(r))
    /\ Reply(r, 403, {})
    /\ UNCHANGED owed

NotFound(r) ==
    /\ phase[r] = "asked"
    /\ call[r].op # "list" /\ seen[r] = {}
    /\ Reply(r, 404, {})
    /\ UNCHANGED owed

\* A list leaves out what is not the caller's, and never fails for it.
Show(r) ==
    /\ phase[r] = "asked" /\ Reads(call[r]) /\ Entitled(call[r])
    /\ seen[r] # None
    /\ call[r].op = "get" => Sees(r) /\ Mine(r)
    /\ Reply(r, 200, {v \in seen[r] : Own(call[r], v)})
    /\ UNCHANGED owed

\* A success is told after the effect, and only then.
Confirm(r) ==
    /\ phase[r] = "cleared" /\ effects[r] = 1
    /\ \A v \in seen[r] : Own(call[r], v)
    /\ Reply(r, OkCode(call[r].op), seen[r])
    /\ UNCHANGED owed

\* The writes of the slots S that were cleared and not done may be left behind.
LeaveBehind(S) ==
    \E T \in SUBSET {r \in S : phase[r] = "cleared" /\ effects[r] = 0 /\ owed[r] = None} :
       owed' = [r \in Requests |-> IF r \in T THEN Sent(call[r]) ELSE owed[r]]

GiveUp(r) ==
    /\ phase[r] \in {"asked", "cleared"}
    /\ Reply(r, 500, {})
    /\ LeaveBehind({r})

\* The service dies and forgets what it was asked.
Forget ==
    /\ phase' = [r \in Requests |->
                   IF phase[r] \in {"asked", "cleared"} THEN "idle" ELSE phase[r]]
    /\ seen' = [r \in Requests |-> None]
    /\ LeaveBehind(Requests)
    /\ UNCHANGED <<table, call, effects, reply, shown>>

Next ==
    \/ \E r \in Requests :
          \/ Ask(r) \/ Look(r) \/ Clear(r) \/ TakeEffect(r) \/ Miss(r) \/ Settle(r)
          \/ Refuse(r) \/ NotFound(r) \/ Show(r) \/ Confirm(r) \/ GiveUp(r)
    \/ Forget

Spec == Init /\ [][Next]_vars
=============================================================================
