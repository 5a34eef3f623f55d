---------------------------- MODULE OAuthClients ----------------------------
(***************************************************************************)
(* The OAuth2 client API of the admin portal: routes/api/clients.js over   *)
(* services/hydra.js.  The clients are in Ory Hydra, another service; the  *)
(* portal keeps nothing.  A request that changes a client is two calls to  *)
(* Hydra: one reads the client and its metadata.tenant_id is checked, the  *)
(* other writes.  Each call has a timeout of five seconds (hydra.js:5):    *)
(* the request is then answered 500, but Hydra may still do later what it  *)
(* was asked (late).                                                       *)
(*                                                                         *)
(* authenticate is in UserDirectory; here callers have a valid token.      *)
(***************************************************************************)
EXTENDS ClientCalls

CONSTANTS
    Asks,       \* the calls that may come to each slot
    Faults      \* what may go wrong around the handlers

ASSUME AsksAssumption == \A r \in Requests : Asks[r] \subseteq Calls
ASSUME FaultAssumption == Faults \subseteq {"timeout", "late", "crash"}

Response == [code : {200, 404, 409}, seen : SUBSET View]

ASSUME NoResponseAssumption == None \notin Response

VARIABLES
    clients,  \* Hydra's clients, by client_id
    made,     \* the client_ids it has ever used; it generates new ones
    late,     \* a write of a slot whose caller has given up
    pc,       \* what each request waits for
    call,
    resp,     \* Hydra's response to the call that is waited for
    reply,    \* the HTTP status of the answer
    shown,    \* the clients it shows
    effects   \* how often Hydra did what the request asks (history)

hydra == <<clients, made, late>>
vars == <<clients, made, late, pc, call, resp, reply, shown, effects>>

Waiting == {"authenticate", "reading", "listing", "writing"}

----------------------------------------------------------------------------

\* Mutant: nothing is filtered out.
Unfiltered(c, seen) == seen

\* listTenantClients compares with ===, so null is the tenant of nobody else.
Filtered(c, seen) == {v \in seen : IsSuper(c) \/ v.tenant = TenantOf[c.admin]}

Views(S) == {[id |-> i, tenant |-> clients[i].tenant] : i \in S}

----------------------------------------------------------------------------

Init ==
    /\ clients = [i \in {} |-> None]
    /\ made = {}
    /\ late = [r \in Requests |-> None]
    /\ pc = [r \in Requests |-> "idle"]
    /\ call = [r \in Requests |-> CHOOSE c \in Calls : TRUE]
    /\ resp = [r \in Requests |-> None]
    /\ reply = [r \in Requests |-> None]
    /\ shown = [r \in Requests |-> {}]
    /\ effects = [r \in Requests |-> 0]

Arrive(r) ==
    /\ pc[r] \in {"idle", "answered"}
    /\ \E c \in Asks[r] : call' = [call EXCEPT ![r] = c]
    /\ pc' = [pc EXCEPT ![r] = "authenticate"]
    /\ reply' = [reply EXCEPT ![r] = None]
    /\ shown' = [shown EXCEPT ![r] = {}]
    /\ effects' = [effects EXCEPT ![r] = 0]
    /\ UNCHANGED <<hydra, resp>>

Answer(r, code, views) ==
    /\ pc' = [pc EXCEPT ![r] = "answered"]
    /\ resp' = [resp EXCEPT ![r] = None]
    /\ reply' = [reply EXCEPT ![r] = code]
    /\ shown' = [shown EXCEPT ![r] = views]
    /\ UNCHANGED <<call, effects>>

\* The next call to Hydra.
Ask(r, label) ==
    /\ pc' = [pc EXCEPT ![r] = label]
    /\ resp' = [resp EXCEPT ![r] = None]
    /\ UNCHANGED <<hydra, call, reply, shown, effects>>

Refuse(r) ==
    /\ pc[r] = "authenticate"
    /\ ~ Entitled(call[r])
    /\ Answer(r, 403, {})
    /\ UNCHANGED hydra

Admit(r) ==
    /\ pc[r] = "authenticate"
    /\ Entitled(call[r])
    /\ Ask(r, CASE call[r].op = "create" -> "writing"
                [] call[r].op = "list"   -> "listing"
                [] OTHER                 -> "reading")

----------------------------------------------------------------------------
\* Hydra, as services/hydra.js uses it.

\* The client_ids a create may get; beyond the bound Ids it is rejected.
Free(m) == IF m.id = None THEN Ids \ made ELSE {m.id} \ DOMAIN clients

Accepts(m) == IF m.op = "create" THEN Free(m) # {} ELSE m.id \in DOMAIN clients

\* What a write does: PUT replaces the client and keeps its secret.
Apply(m) ==
    \/ /\ m.op = "create"
       /\ \E i \in Free(m), s \in Secrets :
             /\ clients' = [j \in DOMAIN clients \cup {i} |->
                   IF j = i THEN [tenant |-> m.tenant, body |-> m.body, secret |-> s]
                   ELSE clients[j]]
             /\ made' = made \cup {i}
    \/ /\ m.op = "put"
       /\ clients' = [clients EXCEPT ![m.id].tenant = m.tenant, ![m.id].body = m.body]
       /\ UNCHANGED made
    \/ /\ m.op = "secret"
       /\ \E s \in Secrets \ {clients[m.id].secret} :
             clients' = [clients EXCEPT ![m.id].secret = s]
       /\ UNCHANGED made
    \/ /\ m.op = "delete"
       /\ clients' = [j \in DOMAIN clients \ {m.id} |-> clients[j]]
       /\ UNCHANGED made

Respond(r, code, seen) ==
    /\ resp' = [resp EXCEPT ![r] = [code |-> code, seen |-> seen]]
    /\ UNCHANGED <<late, pc, call, reply, shown>>

HydraReads(r) ==
    /\ resp[r] = None
    /\ \/ /\ pc[r] = "listing"
          /\ Respond(r, 200, Views(Page(DOMAIN clients)))
       \/ /\ pc[r] = "reading"
          /\ IF call[r].id \in DOMAIN clients
             THEN Respond(r, 200, Views({call[r].id}))
             ELSE Respond(r, 404, {})
    /\ UNCHANGED <<clients, made, effects>>

HydraWrites(r) ==
    /\ pc[r] = "writing"
    /\ resp[r] = None
    /\ Accepts(Sent(call[r]))
    /\ Apply(Sent(call[r]))
    /\ Respond(r, 200, {v \in Views(DOMAIN clients)' :
                          v.id = call[r].id \/ v.id \notin DOMAIN clients})
    /\ effects' = [effects EXCEPT ![r] = @ + 1]

HydraRejects(r) ==
    /\ pc[r] = "writing"
    /\ resp[r] = None
    /\ ~ Accepts(Sent(call[r]))
    /\ Respond(r, IF call[r].op = "create" THEN 409 ELSE 404, {})
    /\ UNCHANGED <<clients, made, effects>>

\* A write whose caller no longer waits.
HydraIsLate(r) ==
    /\ late[r] # None
    /\ late' = [late EXCEPT ![r] = None]
    /\ IF Accepts(late[r]) THEN Apply(late[r]) ELSE UNCHANGED <<clients, made>>
    /\ UNCHANGED <<pc, call, resp, reply, shown, effects>>

----------------------------------------------------------------------------
\* What the handlers make of the responses.

List(r) ==
    /\ pc[r] = "listing"
    /\ resp[r] # None
    /\ Answer(r, 200, Filtered(call[r], resp[r].seen))
    /\ UNCHANGED hydra

\* Mutant: no `return` after the 404.
MissingWritten(r) ==
    pc[r] = "reading" /\ resp[r] # None /\ resp[r].code = 404 /\ Ask(r, "writing")

Missing(r) ==
    /\ pc[r] = "reading"
    /\ resp[r] # None
    /\ resp[r].code = 404
    /\ Answer(r, 404, {})
    /\ UNCHANGED hydra

Found(r) ==
    /\ pc[r] = "reading"
    /\ resp[r] # None
    /\ resp[r].code = 200

\* Mutant: no tenant check.
PermittedAll(r) == TRUE

Permitted(r) == \A v \in resp[r].seen : MayTouch(call[r], v.tenant)

Forbid(r) ==
    /\ Found(r)
    /\ ~ Permitted(r)
    /\ Answer(r, 403, {})
    /\ UNCHANGED hydra

Show(r) ==
    /\ Found(r)
    /\ Permitted(r)
    /\ call[r].op = "get"
    /\ Answer(r, 200, resp[r].seen)
    /\ UNCHANGED hydra

Write(r) ==
    /\ Found(r)
    /\ Permitted(r)
    /\ call[r].op # "get"
    /\ Ask(r, "writing")

\* Mutant: the error of the write is taken for a success.
IgnoreError(r) ==
    /\ pc[r] = "writing" /\ resp[r] # None
    /\ Answer(r, OkCode(call[r].op), resp[r].seen)
    /\ UNCHANGED hydra

\* An error of the write, whatever it is, goes to the error handler.
Written(r) ==
    /\ pc[r] = "writing"
    /\ resp[r] # None
    /\ IF resp[r].code = 200
       THEN Answer(r, OkCode(call[r].op), resp[r].seen)
       ELSE Answer(r, 500, {})
    /\ UNCHANGED hydra

\* The callers S no longer wait.  Hydra may not have begun what they asked it
\* to write and may begin it yet; one such write is kept for each slot.
Abandon(S) ==
    \E T \in SUBSET {r \in S : pc[r] = "writing" /\ resp[r] = None /\ late[r] = None} :
       /\ "late" \notin Faults => T = {}
       /\ late' = [r \in Requests |-> IF r \in T THEN Sent(call[r]) ELSE late[r]]

\* Mutant: the timeout is not set for the writes.
TimeoutOfReads(r) ==
    /\ pc[r] \in {"reading", "listing"}
    /\ Answer(r, 500, {})
    /\ UNCHANGED hydra

\* Mutant: a write that times out is sent again.
TimeoutRetried(r) ==
    /\ "timeout" \in Faults /\ pc[r] = "writing" /\ Abandon({r})
    /\ UNCHANGED <<clients, made, pc, call, resp, reply, shown, effects>>

\* axios gives up after five seconds, or Hydra cannot be reached; or the
\* look-up of authenticate fails.
Timeout(r) ==
    /\ "timeout" \in Faults
    /\ pc[r] \in Waiting
    /\ Abandon({r})
    /\ Answer(r, 500, {})
    /\ UNCHANGED <<clients, made>>

\* The portal process dies; its writes may still be on their way.
Crash ==
    /\ "crash" \in Faults
    /\ \E r \in Requests : pc[r] \in Waiting
    /\ Abandon(Requests)
    /\ pc' = [r \in Requests |-> IF pc[r] \in Waiting THEN "idle" ELSE pc[r]]
    /\ resp' = [r \in Requests |-> None]
    /\ UNCHANGED <<clients, made, call, reply, shown, effects>>

Portal(r) ==
    \/ Refuse(r) \/ Admit(r)
    \/ List(r) \/ Missing(r) \/ Forbid(r) \/ Show(r) \/ Write(r) \/ Written(r)

Next ==
    \/ \E r \in Requests :
          \/ Arrive(r) \/ Portal(r) \/ Timeout(r)
          \/ HydraReads(r) \/ HydraWrites(r) \/ HydraRejects(r) \/ HydraIsLate(r)
    \/ Crash

Spec == Init /\ [][Next]_vars

\* The event loop runs every continuation, and axios gives up a call that
\* Hydra has not answered.  Nothing is assumed of Hydra.
FairSpec ==
    /\ Spec
    /\ \A r \in Requests : /\ WF_vars(Portal(r))
                            /\ WF_vars(resp[r] = None /\ Timeout(r))

----------------------------------------------------------------------------

TypeOK ==
    /\ DOMAIN clients \subseteq made
    /\ made \subseteq Ids
    /\ clients \in [DOMAIN clients -> Client]
    /\ late \in [Requests -> Messages \cup {None}]
    /\ pc \in [Requests -> Waiting \cup {"idle", "answered"}]
    /\ call \in [Requests -> Calls]
    /\ resp \in [Requests -> Response \cup {None}]
    /\ reply \in [Requests -> {200, 201, 204, 403, 404, 500, None}]
    /\ shown \in [Requests -> SUBSET View]
    /\ effects \in [Requests -> Nat]
    /\ \A r \in Requests :
          /\ pc[r] = "listing" => call[r].op = "list"
          /\ pc[r] \in {"reading", "writing"} => call[r].op # "list"
          /\ pc[r] = "writing" /\ call[r].op # "create" => call[r].id \in made

\* The write m is what Hydra does in this step.
Handled(m) ==
    \E r \in Requests :
       \/ pc[r] = "writing" /\ resp[r] = None /\ resp'[r] # None /\ m = Sent(call[r])
       \/ late[r] # None /\ late'[r] = None /\ m = late[r]

ChangedRightly(i) ==
    (i \notin DOMAIN clients' \/ clients'[i] # clients[i]) =>
       \E c \in Calls :
          c.id = i /\ Handled(Sent(c)) /\ MayTouch(c, clients[i].tenant)

\* "For tenant admins: only their tenant's clients" (clients.js:101, 148,
\* 188), for the settled ones: a write is within the authority of its caller
\* when Hydra does it, long after the check (clients.js:123) if it is late.
WritesInTenant ==
    [][\A i \in DOMAIN clients : Settled(i) => ChangedRightly(i)]_vars

\* "Ensure tenant ID remains the same" (clients.js:127): a settled client
\* stays in its tenant until it is deleted, and does not come back.
TenantStays ==
    [][\A i \in made : Settled(i) /\ i \in DOMAIN clients' =>
          i \in DOMAIN clients /\ clients'[i].tenant = clients[i].tenant]_vars

\* An answer shows a tenant's administrator clients of that tenant, also when
\* others move them; the new secret of a client that is not settled is the
\* exception (clients.js:25, 86, 137, 217).
AnswersInTenant == \A r \in Requests : \A v \in shown[r] : Own(call[r], v)

\* 201 and 204, and 200 to a write, mean that Hydra did it, once; 403 and 404
\* that it did not; 500 means nothing (clients.js:103-221).
AnswersTruthful ==
    \A r \in Requests : pc[r] = "answered" =>
       /\ reply[r] \in {403, 404} => effects[r] = 0
       /\ reply[r] \in {200, 201, 204} =>
             effects[r] = IF Reads(call[r]) THEN 0 ELSE 1

\* "List all clients for a specific tenant" (hydra.js:104): to who asks when
\* nobody else does, a list shows each client of the caller's tenant.
ListIsAll ==
    \A r \in Requests : pc[r] = "answered" /\ call[r].op = "list" /\ reply[r] = 200 =>
       shown[r] = Views({i \in DOMAIN clients :
          IsSuper(call[r]) \/ clients[i].tenant = TenantOf[call[r].admin]})

\* Every request that a living portal takes is answered, whatever Hydra does.
EveryRequestEnds ==
    \A r \in Requests : pc[r] \in Waiting ~> pc[r] \notin Waiting

\* A write to a settled client is for a client of its caller's tenant, if the
\* client is still there.
InTenant(m) ==
    m.op # "create" /\ Settled(m.id) =>
       /\ m.id \in made
       /\ m.id \in DOMAIN clients => MayTouch(m, clients[m.id].tenant)

\* What was read of a settled client still holds, if it is still there.
Current(v) ==
    /\ v.id \in made
    /\ Settled(v.id) /\ v.id \in DOMAIN clients => clients[v.id].tenant = v.tenant

ReadSound(r) ==
    pc[r] = "reading" /\ resp[r] # None =>
       /\ resp[r].code = 200 => resp[r].seen # {}
       /\ \A v \in resp[r].seen : v.id = call[r].id /\ Current(v)

WriteSound(r) ==
    pc[r] = "writing" =>
       /\ InTenant(Sent(call[r]))
       /\ ~ Reads(call[r])
       /\ resp[r] # None => \A v \in resp[r].seen : Own(call[r], v)

EffectSound(r) ==
    pc[r] \in Waiting =>
       effects[r] = IF pc[r] = "writing" /\ resp[r] # None /\ resp[r].code = 200
                    THEN 1 ELSE 0

\* The strengthening that makes the properties inductive.
RequestsSound ==
    \A r \in Requests :
       /\ ReadSound(r)
       /\ WriteSound(r)
       /\ EffectSound(r)
       /\ late[r] # None => InTenant(late[r])

\* The registry a client sees: what a request has been cleared for, and what
\* it saw of the clients.
Progress == [r \in Requests |->
    IF pc[r] = "writing" THEN "cleared" ELSE IF pc[r] \in Waiting THEN "asked" ELSE pc[r]]
Seen == [r \in Requests |-> IF resp[r] = None THEN None ELSE resp[r].seen]

Registry == INSTANCE ClientRegistry WITH
    clients <- clients, made <- made, owed <- late, phase <- Progress, call <- call,
    seen <- Seen, effects <- effects, reply <- reply, shown <- shown

\* The API promises ClientRegistry: a request is cleared by what it saw of the
\* clients at one moment after it was asked, has one effect after that or none,
\* and its answer tells which; but what was given up may leave one effect for
\* later (clients.js:108-221, hydra.js:5).
ImplementsRegistry == Registry!Spec
=============================================================================
