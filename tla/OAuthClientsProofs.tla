------------------------ MODULE OAuthClientsProofs --------------------------
(***************************************************************************)
(* The safety properties of OAuthClients, for any clients, calls, page     *)
(* limit and number of concurrent requests, with late writes and crashes.  *)
(***************************************************************************)
EXTENDS OAuthClients, TLAPS

\* A message is a call but for its tenant.
LEMMA SentFields ==
    ASSUME NEW c \in Calls
    PROVE  /\ Sent(c).op = c.op /\ Sent(c).id = c.id
           /\ Sent(c).admin = c.admin /\ Sent(c).body = c.body
           /\ Sent(c).tenant \in Tenants \cup {None, Absent}
           /\ c.op \in {"create", "put"} /\ ~ IsSuper(c) =>
                 Sent(c).tenant = TenantOf[c.admin]
  <1>1. c \in Call
    BY CallAssumption
  <1>2. TenantOf[c.admin] \in Tenants \cup {None}
    BY <1>1, AdminAssumption DEF Call
  <1>3. CASE c.op \in {"create", "put"} /\ ~ IsSuper(c)
    <2>1. Sent(c) = [c EXCEPT !.tenant = TenantOf[c.admin]]
      BY <1>3 DEF Sent
    <2> QED  BY <1>1, <1>2, <2>1 DEF Call
  <1>4. CASE ~ (c.op \in {"create", "put"} /\ ~ IsSuper(c))
    <2>1. Sent(c) = c
      BY <1>4 DEF Sent
    <2> QED  BY <1>1, <1>4, <2>1 DEF Call
  <1> QED  BY <1>3, <1>4

LEMMA MessageFields ==
    ASSUME NEW m \in Messages
    PROVE  /\ m.op \in {"create", "list", "get", "put", "delete", "secret"}
           /\ m.id \in Ids \cup {None}
           /\ m.op \notin {"create", "list"} => m.id \in Ids
           /\ m.body \in Bodies
           /\ m.tenant \in Tenants \cup {None, Absent}
           /\ m.admin \in Admins
           /\ \E c \in Calls : m = Sent(c) /\ c.op = m.op /\ c.id = m.id
                                 /\ IsSuper(c) = IsSuper(m) /\ c.admin = m.admin
           /\ m.op \in {"create", "put"} /\ ~ IsSuper(m) =>
                 m.tenant = TenantOf[m.admin]
  <1>1. PICK c \in Calls : m = Sent(c)
    BY DEF Messages
  <1>2. c \in Call
    BY CallAssumption
  <1>3. m.op = c.op /\ m.id = c.id /\ m.admin = c.admin /\ m.body = c.body
    BY <1>1, SentFields
  <1>4. IsSuper(c) = IsSuper(m)
    BY <1>3 DEF IsSuper
  <1> QED
    BY <1>1, <1>2, <1>3, <1>4, SentFields, CallAssumption DEF Call

\* The authority over a client is the same for a call and its message.
LEMMA SameAuthority ==
    ASSUME NEW c \in Calls, NEW tenant
    PROVE  MayTouch(Sent(c), tenant) = MayTouch(c, tenant)
  BY SentFields DEF MayTouch, IsSuper

LEMMA ViewsType ==
    ASSUME TypeOK, NEW S \in SUBSET DOMAIN clients
    PROVE  Views(S) \in SUBSET View
  BY DEF TypeOK, Views, View, Client

-----------------------------------------------------------------------------
\* What a write does to the clients.

ClientsOK ==
    DOMAIN clients \subseteq made /\ made \subseteq Ids /\ clients \in [DOMAIN clients -> Client]

\* Settled clients stay in their tenant and do not come back.
Stay ==
    /\ made \subseteq made'
    /\ \A i \in made : Settled(i) /\ i \in DOMAIN clients' =>
          i \in DOMAIN clients /\ clients'[i].tenant = clients[i].tenant

LEMMA CreateKeeps ==
    ASSUME ClientsOK, NEW m \in Messages, Accepts(m), Apply(m), m.op = "create"
    PROVE  /\ ClientsOK'
           /\ Stay
           /\ \A i \in DOMAIN clients : i \in DOMAIN clients' /\ clients'[i] = clients[i]
           /\ \A i \in DOMAIN clients' \ DOMAIN clients : clients'[i].tenant = m.tenant
           /\ m.id \notin DOMAIN clients
  <1>1. PICK i \in Free(m), s \in Secrets :
           /\ clients' = [j \in DOMAIN clients \cup {i} |->
                   IF j = i THEN [tenant |-> m.tenant, body |-> m.body, secret |-> s]
                   ELSE clients[j]]
           /\ made' = made \cup {i}
    BY DEF Apply
  <1>2. i \in Ids /\ i \notin DOMAIN clients
    BY MessageFields DEF Free, ClientsOK
  <1>3. [tenant |-> m.tenant, body |-> m.body, secret |-> s] \in Client
    BY MessageFields DEF Client
  <1>4. ClientsOK'
    BY <1>1, <1>2, <1>3 DEF ClientsOK
  <1>5. Settled(i) => i \notin made
    <2>1. CASE m.id = None
      BY <2>1 DEF Free
    <2>2. CASE m.id # None
      <3>1. m.id = i
        BY <2>2 DEF Free
      <3> QED  BY <3>1, MessageFields DEF Settled
    <2> QED  BY <2>1, <2>2
  <1>6. m.id \notin DOMAIN clients
    BY NoneAssumption DEF Free, Accepts, ClientsOK
  <1> QED  BY <1>1, <1>2, <1>4, <1>5, <1>6 DEF Stay

LEMMA ChangeKeeps ==
    ASSUME ClientsOK, NEW m \in Messages, Accepts(m), Apply(m), m.op # "create",
           InTenant(m)
    PROVE  /\ ClientsOK'
           /\ Stay
           /\ DOMAIN clients' \subseteq DOMAIN clients
           /\ \A i \in DOMAIN clients :
                 i # m.id => i \in DOMAIN clients' /\ clients'[i] = clients[i]
           /\ m.op = "delete" => m.id \notin DOMAIN clients'
           /\ m.op = "put" => clients'[m.id].tenant = m.tenant
           /\ m.op = "secret" => clients'[m.id].tenant = clients[m.id].tenant
  <1> DEFINE row == clients[m.id]
  <1>1. m.id \in DOMAIN clients /\ row \in Client
    BY DEF Accepts, ClientsOK
  <1>2. CASE m.op = "put"
    <2>1. clients' = [clients EXCEPT ![m.id].tenant = m.tenant, ![m.id].body = m.body]
          /\ made' = made
      BY <1>2 DEF Apply
    <2>2. clients' = [clients EXCEPT ![m.id] = [row EXCEPT !.tenant = m.tenant, !.body = m.body]]
      BY <1>1, <2>1
    <2>3. [row EXCEPT !.tenant = m.tenant, !.body = m.body] \in Client
      BY <1>1, MessageFields DEF Client
    <2>4. ClientsOK'
      BY <1>1, <2>1, <2>2, <2>3 DEF ClientsOK
    <2>5. clients'[m.id].tenant = m.tenant
      BY <1>1, <2>2 DEF Client
    <2>6. Settled(m.id) => m.tenant = row.tenant
      <3>1. Settled(m.id) => ~ IsSuper(m)
        BY <1>2, MessageFields DEF Settled
      <3>2. Settled(m.id) => MayTouch(m, row.tenant)
        BY <1>1, <1>2 DEF InTenant
      <3> QED  BY <1>2, <3>1, <3>2, MessageFields DEF MayTouch
    <2> QED  BY <1>2, <2>1, <2>2, <2>4, <2>5, <2>6 DEF Stay
  <1>3. CASE m.op = "secret"
    <2>1. PICK s \in Secrets : clients' = [clients EXCEPT ![m.id].secret = s] /\ made' = made
      BY <1>3 DEF Apply
    <2>2. clients' = [clients EXCEPT ![m.id] = [row EXCEPT !.secret = s]]
      BY <1>1, <2>1
    <2>3. [row EXCEPT !.secret = s] \in Client /\ [row EXCEPT !.secret = s].tenant = row.tenant
      BY <1>1 DEF Client
    <2>4. ClientsOK'
      BY <1>1, <2>1, <2>2, <2>3 DEF ClientsOK
    <2> QED  BY <1>1, <1>3, <2>1, <2>2, <2>3, <2>4 DEF Stay
  <1>4. CASE m.op = "delete"
    BY <1>1, <1>4 DEF Apply, ClientsOK, Stay
  <1> QED  BY <1>2, <1>3, <1>4 DEF Apply

LEMMA ApplyKeeps ==
    ASSUME ClientsOK, NEW m \in Messages, Accepts(m), Apply(m), InTenant(m)
    PROVE  ClientsOK' /\ Stay
  BY CreateKeeps, ChangeKeeps

\* What a write changes of the settled clients is its caller's.
LEMMA ApplyRightly ==
    ASSUME ClientsOK, NEW m \in Messages, Accepts(m), Apply(m), InTenant(m),
           NEW i \in DOMAIN clients, Settled(i),
           i \notin DOMAIN clients' \/ clients'[i] # clients[i]
    PROVE  i = m.id /\ MayTouch(m, clients[i].tenant)
  <1>1. m.op # "create"
    BY CreateKeeps
  <1>2. i = m.id
    BY <1>1, ChangeKeeps
  <1> QED  BY <1>1, <1>2 DEF InTenant

LEMMA StayKeeps ==
    ASSUME Stay
    PROVE  /\ \A m : InTenant(m) => InTenant(m)'
           /\ \A v : Current(v) => Current(v)'
  BY DEF Stay, InTenant, Current

-----------------------------------------------------------------------------
\* The inductive invariant, request by request.

Told(r) ==
    /\ \A v \in shown[r] : Own(call[r], v)
    /\ pc[r] = "answered" =>
          /\ reply[r] \in {403, 404} => effects[r] = 0
          /\ reply[r] \in {200, 201, 204} =>
                effects[r] = IF Reads(call[r]) THEN 0 ELSE 1

Sound(r) ==
    /\ ReadSound(r)
    /\ WriteSound(r)
    /\ EffectSound(r)
    /\ late[r] # None => InTenant(late[r])
    /\ Told(r)

LEMMA SoundIsAll ==
    (\A r \in Requests : Sound(r)) <=> RequestsSound /\ AnswersInTenant /\ AnswersTruthful
  BY DEF Sound, Told, RequestsSound, AnswersInTenant, AnswersTruthful

\* A request that does not move stays sound; its slot may get a late write.
Still(q) ==
    /\ pc'[q] = pc[q] /\ call'[q] = call[q] /\ resp'[q] = resp[q]
    /\ reply'[q] = reply[q] /\ shown'[q] = shown[q] /\ effects'[q] = effects[q]
    /\ late'[q] = late[q]

LEMMA SoundKept ==
    ASSUME Stay, NEW q, Sound(q), Still(q)
    PROVE  Sound(q)'
  <1>1. ReadSound(q)'
    BY StayKeeps DEF Sound, ReadSound, Still
  <1>2. WriteSound(q)'
    BY StayKeeps DEF Sound, WriteSound, Still, Own, IsSuper, Reads
  <1>3. EffectSound(q)'
    BY DEF Sound, EffectSound, Still
  <1>4. (late[q] # None => InTenant(late[q]))'
    BY StayKeeps DEF Sound, Still
  <1>5. Told(q)'
    BY DEF Sound, Told, Still, Own, IsSuper, Reads
  <1> QED  BY <1>1, <1>2, <1>3, <1>4, <1>5 DEF Sound

RequestsOK ==
    /\ pc \in [Requests -> Waiting \cup {"idle", "answered"}]
    /\ call \in [Requests -> Calls]
    /\ resp \in [Requests -> Response \cup {None}]
    /\ reply \in [Requests -> {200, 201, 204, 403, 404, 500, None}]
    /\ shown \in [Requests -> SUBSET View]
    /\ effects \in [Requests -> Nat]

Placed(r) ==
    /\ pc[r] = "listing" => call[r].op = "list"
    /\ pc[r] \in {"reading", "writing"} => call[r].op # "list"
    /\ pc[r] = "writing" /\ call[r].op # "create" => call[r].id \in made

TypeOKParts ==
    /\ ClientsOK
    /\ late \in [Requests -> Messages \cup {None}]
    /\ RequestsOK
    /\ \A r \in Requests : Placed(r)

LEMMA TypeParts == (TypeOK <=> TypeOKParts) /\ (TypeOK' <=> TypeOKParts')
  BY DEF TypeOK, TypeOKParts, ClientsOK, RequestsOK, Placed

LEMMA PlacedKept ==
    ASSUME NEW q, Placed(q), pc'[q] = pc[q], call'[q] = call[q], made \subseteq made'
    PROVE  Placed(q)'
  BY DEF Placed

LEMMA NoChange ==
    ASSUME ClientsOK, UNCHANGED <<clients, made>>
    PROVE  ClientsOK' /\ Stay
  BY DEF ClientsOK, Stay

\* An answer moves no request but its own.
LEMMA AnswerKeeps ==
    ASSUME RequestsOK, NEW r \in Requests,
           NEW code \in {200, 201, 204, 403, 404, 500}, NEW views \in SUBSET View,
           Answer(r, code, views)
    PROVE  /\ RequestsOK'
           /\ \A q \in Requests \ {r} : late'[q] = late[q] => Still(q)
           /\ pc'[r] = "answered" /\ call'[r] = call[r] /\ reply'[r] = code
           /\ shown'[r] = views /\ effects'[r] = effects[r] /\ call' = call
           /\ \A q \in Requests \ {r} : pc'[q] = pc[q]
  BY DEF Answer, RequestsOK, Still, Waiting

\* An answer that is within the caller's authority and tells the truth.
LEMMA AnswerStep ==
    ASSUME TypeOK, \A q \in Requests : Sound(q), NEW r \in Requests,
           NEW code \in {200, 201, 204, 403, 404, 500}, NEW views \in SUBSET View,
           Answer(r, code, views), UNCHANGED hydra,
           \A v \in views : Own(call[r], v),
           code \in {403, 404} => effects[r] = 0,
           code \in {200, 201, 204} => effects[r] = IF Reads(call[r]) THEN 0 ELSE 1
    PROVE  TypeOK' /\ Stay /\ \A q \in Requests : Sound(q)'
  <1>1. RequestsOK /\ ClientsOK
    BY TypeParts DEF TypeOKParts
  <1>2. ClientsOK' /\ Stay /\ late' = late
    BY <1>1, NoChange DEF hydra
  <1>3. TypeOK'
    <2>1. ASSUME NEW q \in Requests  PROVE Placed(q)'
      <3>1. CASE q = r
        BY <1>1, <3>1, AnswerKeeps DEF Placed
      <3>2. CASE q # r
        BY <1>1, <1>2, <3>2, AnswerKeeps, PlacedKept, TypeParts
           DEF TypeOKParts, Stay
      <3> QED  BY <3>1, <3>2
    <2> QED  BY <1>1, <1>2, <2>1, AnswerKeeps, TypeParts DEF TypeOKParts
  <1>4. Sound(r)'
    <2>1. ReadSound(r)' /\ WriteSound(r)' /\ EffectSound(r)'
      BY <1>1, AnswerKeeps DEF ReadSound, WriteSound, EffectSound, Waiting
    <2>2. Told(r)'
      BY <1>1, AnswerKeeps DEF Told, Own, IsSuper, Reads
    <2>3. (late[r] # None => InTenant(late[r]))'
      BY <1>2, StayKeeps DEF Sound
    <2> QED  BY <2>1, <2>2, <2>3 DEF Sound
  <1>5. ASSUME NEW q \in Requests \ {r}  PROVE Sound(q)'
    BY <1>1, <1>2, <1>5, AnswerKeeps, SoundKept
  <1> QED  BY <1>2, <1>3, <1>4, <1>5

-----------------------------------------------------------------------------
\* One lemma per action.

LEMMA ArriveStep ==
    ASSUME TypeOK, \A q \in Requests : Sound(q), NEW r \in Requests, Arrive(r)
    PROVE  TypeOK' /\ Stay /\ \A q \in Requests : Sound(q)'
  <1>1. RequestsOK /\ ClientsOK /\ late' = late /\ made' = made
    BY TypeParts DEF TypeOKParts, Arrive, hydra
  <1>2. ClientsOK' /\ Stay
    BY <1>1, NoChange DEF Arrive, hydra
  <1>3. RequestsOK'
    BY <1>1, AsksAssumption DEF Arrive, RequestsOK, Waiting
  <1>4. ASSUME NEW q \in Requests \ {r}  PROVE Still(q)
    BY <1>1 DEF Arrive, RequestsOK, Still
  <1>5. ASSUME NEW q \in Requests  PROVE Placed(q)'
    <2>1. CASE q = r
      BY <1>1, <2>1 DEF Arrive, RequestsOK, Placed
    <2>2. CASE q # r
      BY <1>1, <1>4, <2>2, PlacedKept, TypeParts DEF TypeOKParts, Still
    <2> QED  BY <2>1, <2>2
  <1>6. TypeOK'
    BY <1>1, <1>2, <1>3, <1>5, TypeParts DEF TypeOKParts
  <1>7. Sound(r)'
    <2>1. pc'[r] = "authenticate" /\ shown'[r] = {} /\ effects'[r] = 0
      BY <1>1 DEF Arrive, RequestsOK
    <2>2. (late[r] # None => InTenant(late[r]))'
      BY <1>1, <1>2, StayKeeps DEF Sound
    <2> QED  BY <2>1, <2>2 DEF Sound, Told, ReadSound, WriteSound, EffectSound
  <1> QED  BY <1>2, <1>4, <1>6, <1>7, SoundKept

\* The next call to Hydra, which is sound when what it writes is.
LEMMA AskStep ==
    ASSUME TypeOK, \A q \in Requests : Sound(q), NEW r \in Requests,
           NEW label \in {"reading", "listing", "writing"}, Ask(r, label),
           label = "listing" => call[r].op = "list",
           label # "listing" => call[r].op # "list",
           label = "writing" =>
              /\ InTenant(Sent(call[r])) /\ ~ Reads(call[r])
              /\ call[r].op # "create" => call[r].id \in made,
           effects[r] = 0
    PROVE  TypeOK' /\ Stay /\ \A q \in Requests : Sound(q)'
  <1>1. RequestsOK /\ ClientsOK /\ late' = late /\ made' = made
    BY TypeParts DEF TypeOKParts, Ask, hydra
  <1>2. ClientsOK' /\ Stay
    BY <1>1, NoChange DEF Ask, hydra
  <1>3. RequestsOK'
    BY <1>1 DEF Ask, RequestsOK, Waiting
  <1>4. ASSUME NEW q \in Requests \ {r}  PROVE Still(q)
    BY <1>1 DEF Ask, RequestsOK, Still
  <1>5. pc'[r] = label /\ resp'[r] = None /\ call' = call /\ effects' = effects
        /\ shown' = shown
    BY <1>1 DEF Ask, RequestsOK
  <1>6. ASSUME NEW q \in Requests  PROVE Placed(q)'
    <2>1. CASE q = r
      BY <1>1, <1>5, <2>1 DEF Placed
    <2>2. CASE q # r
      BY <1>1, <1>4, <2>2, PlacedKept, TypeParts DEF TypeOKParts, Still
    <2> QED  BY <2>1, <2>2
  <1>7. TypeOK'
    BY <1>1, <1>2, <1>3, <1>6, TypeParts DEF TypeOKParts
  <1>8. Sound(r)'
    <2>1. WriteSound(r)'
      BY <1>2, <1>5, StayKeeps DEF WriteSound, Reads
    <2>2. Told(r)'
      BY <1>5 DEF Sound, Told, Own, IsSuper, Reads
    <2>3. (late[r] # None => InTenant(late[r]))'
      BY <1>1, <1>2, StayKeeps DEF Sound
    <2> QED  BY <1>5, <2>1, <2>2, <2>3 DEF Sound, ReadSound, EffectSound
  <1> QED  BY <1>2, <1>4, <1>7, <1>8, SoundKept

\* A response of Hydra that changes nothing.
LEMMA RespondStep ==
    ASSUME TypeOK, \A q \in Requests : Sound(q), NEW r \in Requests,
           resp[r] = None,
           NEW code \in {200, 404, 409}, NEW seen \in SUBSET View,
           Respond(r, code, seen), UNCHANGED <<clients, made, effects>>,
           pc[r] = "reading" =>
              /\ code = 200 => seen # {}
              /\ \A v \in seen : v.id = call[r].id /\ Current(v),
           pc[r] = "writing" => code # 200 /\ \A v \in seen : Own(call[r], v),
           effects[r] = 0
    PROVE  TypeOK' /\ Stay /\ \A q \in Requests : Sound(q)'
  <1>1. RequestsOK /\ ClientsOK /\ late' = late /\ made' = made
    BY TypeParts DEF TypeOKParts, Respond
  <1>2. ClientsOK' /\ Stay
    BY <1>1, NoChange
  <1>3. [code |-> code, seen |-> seen] \in Response
    BY DEF Response
  <1>4. RequestsOK'
    BY <1>1, <1>3 DEF Respond, RequestsOK
  <1>5. ASSUME NEW q \in Requests \ {r}  PROVE Still(q)
    BY <1>1 DEF Respond, RequestsOK, Still
  <1>6. /\ pc' = pc /\ resp'[r] = [code |-> code, seen |-> seen] /\ call' = call
        /\ effects' = effects /\ shown' = shown /\ reply' = reply
    BY <1>1 DEF Respond, RequestsOK
  <1>7. ASSUME NEW q \in Requests  PROVE Placed(q)'
    BY <1>1, <1>6, PlacedKept, TypeParts DEF TypeOKParts
  <1>8. TypeOK'
    BY <1>1, <1>2, <1>4, <1>7, TypeParts DEF TypeOKParts
  <1>9. Sound(r)'
    <2>1. ReadSound(r)'
      BY <1>2, <1>6, StayKeeps DEF ReadSound
    <2>2. WriteSound(r)'
      BY <1>2, <1>6, StayKeeps DEF Sound, WriteSound, Reads, Own, IsSuper
    <2>3. EffectSound(r)'
      BY <1>6 DEF EffectSound
    <2>4. Told(r)'
      BY <1>6 DEF Sound, Told, Own, IsSuper, Reads
    <2>5. (late[r] # None => InTenant(late[r]))'
      BY <1>1, <1>2, StayKeeps DEF Sound
    <2> QED  BY <2>1, <2>2, <2>3, <2>4, <2>5 DEF Sound
  <1> QED  BY <1>2, <1>5, <1>8, <1>9, SoundKept

\* An answer shows what the check permits.
LEMMA PermittedOwn ==
    ASSUME TypeOK, NEW r \in Requests, resp[r] # None, Permitted(r)
    PROVE  \A v \in resp[r].seen : Own(call[r], v)
  BY DEF Permitted, Own, MayTouch

LEMMA ReplyStep ==
    ASSUME TypeOK, \A q \in Requests : Sound(q), NEW r \in Requests,
           \/ Refuse(r) \/ List(r) \/ Missing(r) \/ Forbid(r) \/ Show(r)
           \/ Written(r)
    PROVE  TypeOK' /\ Stay /\ \A q \in Requests : Sound(q)'
  <1>1. Sound(r) /\ resp[r] \in Response \cup {None}
    BY DEF TypeOK
  <1>2. resp[r] # None => resp[r].seen \in SUBSET View /\ resp[r].code \in {200, 404, 409}
    BY <1>1 DEF Response
  <1>3. {} \in SUBSET View
    OBVIOUS
  <1>4. CASE Refuse(r)
    BY <1>1, <1>3, <1>4, AnswerStep DEF Refuse, Sound, EffectSound, Waiting
  <1>5. CASE List(r)
    <2> DEFINE views == Filtered(call[r], resp[r].seen)
    <2>1. views \in SUBSET View /\ \A v \in views : Own(call[r], v)
      BY <1>2, <1>5 DEF List, Filtered, Own
    <2>2. effects[r] = 0 /\ Reads(call[r]) /\ Answer(r, 200, views) /\ UNCHANGED hydra
      BY <1>1, <1>5 DEF List, Sound, EffectSound, Waiting, Reads, TypeOK
    <2> QED  BY <2>1, <2>2, AnswerStep
  <1>6. CASE Missing(r) \/ Forbid(r)
    <2>1. effects[r] = 0
      BY <1>1, <1>6 DEF Missing, Forbid, Found, Sound, EffectSound, Waiting
    <2>2. \E code \in {403, 404} : Answer(r, code, {}) /\ UNCHANGED hydra
      BY <1>6 DEF Missing, Forbid
    <2> QED  BY <1>3, <2>1, <2>2, AnswerStep
  <1>7. CASE Show(r)
    <2>1. \A v \in resp[r].seen : Own(call[r], v)
      BY <1>7, PermittedOwn DEF Show, Found
    <2>2. effects[r] = 0 /\ Reads(call[r])
      BY <1>1, <1>7 DEF Show, Found, Sound, EffectSound, Waiting, Reads
    <2> QED  BY <1>2, <1>7, <2>1, <2>2, AnswerStep DEF Show, Found
  <1>8. CASE Written(r)
    <2>1. ~ Reads(call[r]) /\ \A v \in resp[r].seen : Own(call[r], v)
      BY <1>1, <1>8 DEF Written, Sound, WriteSound
    <2>2. resp[r].code = 200 => effects[r] = 1
      BY <1>1, <1>8 DEF Written, Sound, EffectSound, Waiting
    <2>3. CASE resp[r].code = 200
      <3>1. OkCode(call[r].op) \in {200, 201, 204}
        BY DEF OkCode
      <3>2. Answer(r, OkCode(call[r].op), resp[r].seen) /\ UNCHANGED hydra
        BY <1>8, <2>3 DEF Written
      <3> QED  BY <1>2, <1>8, <2>1, <2>2, <2>3, <3>1, <3>2, AnswerStep DEF Written
    <2>4. CASE resp[r].code # 200
      <3>1. Answer(r, 500, {}) /\ UNCHANGED hydra
        BY <1>8, <2>4 DEF Written
      <3> QED  BY <1>3, <3>1, AnswerStep
    <2> QED  BY <2>3, <2>4
  <1> QED  BY <1>4, <1>5, <1>6, <1>7, <1>8

\* What was read and permitted may be written.
LEMMA WriteStep ==
    ASSUME TypeOK, \A q \in Requests : Sound(q), NEW r \in Requests, Write(r)
    PROVE  TypeOK' /\ Stay /\ \A q \in Requests : Sound(q)'
  <1>1. /\ Sound(r) /\ call[r] \in Calls /\ Placed(r)
        /\ pc[r] = "reading" /\ resp[r] # None /\ Permitted(r)
    BY TypeParts DEF TypeOKParts, RequestsOK, Write, Found
  <1>2. effects[r] = 0 /\ ~ Reads(call[r])
    BY <1>1 DEF Write, Sound, EffectSound, Waiting, Reads, Placed
  <1>3. PICK v \in resp[r].seen :
           v.id = call[r].id /\ Current(v) /\ MayTouch(call[r], v.tenant)
    BY <1>1 DEF Write, Found, Sound, ReadSound, Permitted
  <1>4. call[r].id \in made
    BY <1>3 DEF Current
  <1>5. InTenant(Sent(call[r]))
    <2>1. /\ Sent(call[r]).id = v.id
          /\ MayTouch(Sent(call[r]), v.tenant)
      BY <1>1, <1>3, SentFields, SameAuthority
    <2> QED  BY <1>3, <2>1 DEF Current, InTenant
  <1> QED  BY <1>1, <1>2, <1>4, <1>5, AskStep DEF Write, Reads

LEMMA AdmitStep ==
    ASSUME TypeOK, \A q \in Requests : Sound(q), NEW r \in Requests, Admit(r)
    PROVE  TypeOK' /\ Stay /\ \A q \in Requests : Sound(q)'
  <1>1. effects[r] = 0
    BY DEF Admit, Sound, EffectSound, Waiting
  <1>2. call[r] \in Calls /\ Sent(call[r]).op = call[r].op
    BY SentFields DEF TypeOK
  <1>3. CASE call[r].op = "create"
    <2>1. Ask(r, "writing") /\ InTenant(Sent(call[r])) /\ ~ Reads(call[r])
      BY <1>2, <1>3 DEF Admit, InTenant, Reads
    <2> QED  BY <1>1, <1>3, <2>1, AskStep
  <1>4. CASE call[r].op = "list"
    <2>1. Ask(r, "listing")
      BY <1>4 DEF Admit
    <2> QED  BY <1>1, <1>4, <2>1, AskStep
  <1>5. CASE call[r].op \notin {"create", "list"}
    <2>1. Ask(r, "reading")
      BY <1>5 DEF Admit
    <2> QED  BY <1>1, <1>5, <2>1, AskStep
  <1> QED  BY <1>3, <1>4, <1>5

LEMMA HydraReadsStep ==
    ASSUME TypeOK, \A q \in Requests : Sound(q), NEW r \in Requests, HydraReads(r)
    PROVE  TypeOK' /\ Stay /\ \A q \in Requests : Sound(q)'
  <1>1. effects[r] = 0 /\ resp[r] = None /\ pc[r] \in {"listing", "reading"}
    BY DEF HydraReads, Sound, EffectSound, Waiting
  <1>2. CASE pc[r] = "listing"
    <2>1. Views(Page(DOMAIN clients)) \in SUBSET View
      BY ViewsType DEF Page
    <2>2. Respond(r, 200, Views(Page(DOMAIN clients))) /\ UNCHANGED <<clients, made, effects>>
      BY <1>2 DEF HydraReads
    <2> QED  BY <1>1, <1>2, <2>1, <2>2, RespondStep
  <1>3. CASE pc[r] = "reading" /\ call[r].id \in DOMAIN clients
    <2> DEFINE seen == Views({call[r].id})
    <2>1. seen \in SUBSET View /\ seen # {}
      BY <1>3, ViewsType DEF Views
    <2>2. \A v \in seen : v.id = call[r].id /\ Current(v)
      BY <1>3 DEF Views, Current, TypeOK
    <2>3. Respond(r, 200, seen) /\ UNCHANGED <<clients, made, effects>>
      BY <1>3 DEF HydraReads
    <2> HIDE DEF seen
    <2> QED  BY <1>1, <1>3, <2>1, <2>2, <2>3, RespondStep
  <1>4. CASE pc[r] = "reading" /\ call[r].id \notin DOMAIN clients
    <2>1. Respond(r, 404, {}) /\ UNCHANGED <<clients, made, effects>>
      BY <1>4 DEF HydraReads
    <2> QED  BY <1>1, <1>4, <2>1, RespondStep
  <1> QED  BY <1>1, <1>2, <1>3, <1>4

LEMMA HydraRejectsStep ==
    ASSUME TypeOK, \A q \in Requests : Sound(q), NEW r \in Requests, HydraRejects(r)
    PROVE  TypeOK' /\ Stay /\ \A q \in Requests : Sound(q)'
  <1>1. effects[r] = 0 /\ resp[r] = None /\ pc[r] = "writing"
    BY DEF HydraRejects, Sound, EffectSound, Waiting
  <1>2. \E code \in {404, 409} :
           Respond(r, code, {}) /\ UNCHANGED <<clients, made, effects>>
    BY DEF HydraRejects
  <1> QED  BY <1>1, <1>2, RespondStep

\* What Hydra answers to a write is in the tenant of its caller.
LEMMA WrittenOwn ==
    ASSUME TypeOK, NEW r \in Requests, WriteSound(r), HydraWrites(r), ClientsOK',
           NEW v \in Views(DOMAIN clients)',
           v.id = call[r].id \/ v.id \notin DOMAIN clients
    PROVE  Own(call[r], v)
  <1> DEFINE c == call[r]
             m == Sent(c)
  <1>1. /\ c \in Calls /\ m \in Messages /\ ClientsOK /\ InTenant(m)
        /\ Accepts(m) /\ Apply(m) /\ ~ Reads(c) /\ c.op # "list"
    BY DEF HydraWrites, WriteSound, TypeOK, Messages, ClientsOK, Reads
  <1>2. m.op = c.op /\ m.id = c.id /\ IsSuper(m) = IsSuper(c)
        /\ (c.op \in {"create", "put"} /\ ~ IsSuper(c) => m.tenant = TenantOf[c.admin])
    BY <1>1, SentFields DEF IsSuper
  <1>3. v.id \in DOMAIN clients' /\ v.tenant = clients'[v.id].tenant
    BY DEF Views
  <1>4. CASE c.op = "create"
    <2>1. v.id \notin DOMAIN clients
      BY <1>1, <1>2, <1>4, CreateKeeps
    <2>2. v.tenant = m.tenant
      BY <1>1, <1>2, <1>3, <1>4, <2>1, CreateKeeps
    <2> QED  BY <1>2, <1>4, <2>2 DEF Own
  <1>5. CASE c.op # "create"
    <2>1. v.id = m.id /\ v.id \in DOMAIN clients
      BY <1>1, <1>2, <1>3, <1>5, ChangeKeeps
    <2>2. CASE c.op = "put"
      BY <1>1, <1>2, <1>3, <1>5, <2>1, <2>2, ChangeKeeps DEF Own
    <2>3. CASE c.op = "secret"
      <3>1. v.tenant = clients[v.id].tenant
        BY <1>1, <1>2, <1>3, <1>5, <2>1, <2>3, ChangeKeeps
      <3>2. Settled(v.id) => MayTouch(c, v.tenant)
        BY <1>1, <1>2, <1>5, <2>1, <3>1, SameAuthority DEF InTenant
      <3> QED  BY <2>3, <3>2 DEF Own, MayTouch
    <2>4. CASE c.op = "delete"
      BY <1>1, <1>2, <1>3, <1>5, <2>1, <2>4, ChangeKeeps
    <2> QED
      BY <1>1, <1>5, <2>2, <2>3, <2>4, CallAssumption DEF Call, Reads
  <1> QED  BY <1>4, <1>5

LEMMA HydraWritesStep ==
    ASSUME TypeOK, \A q \in Requests : Sound(q), NEW r \in Requests, HydraWrites(r)
    PROVE  TypeOK' /\ Stay /\ \A q \in Requests : Sound(q)'
  <1> DEFINE m == Sent(call[r])
             seen == {v \in Views(DOMAIN clients)' :
                        v.id = call[r].id \/ v.id \notin DOMAIN clients}
  <1>1. RequestsOK /\ ClientsOK /\ WriteSound(r) /\ m \in Messages /\ effects[r] = 0
    BY TypeParts DEF TypeOKParts, HydraWrites, Sound, EffectSound, Waiting,
                     RequestsOK, Messages
  <1>2. ClientsOK' /\ Stay
    BY <1>1, ApplyKeeps DEF HydraWrites, WriteSound
  <1>3. seen \in SUBSET View /\ \A v \in seen : Own(call[r], v)
    <2>1. Views(DOMAIN clients)' \in SUBSET View
      BY <1>2 DEF Views, View, ClientsOK, Client
    <2> QED  BY <1>1, <1>2, <2>1, WrittenOwn
  <1>4. [code |-> 200, seen |-> seen] \in Response
    BY <1>3 DEF Response
  <1>5. /\ resp' = [resp EXCEPT ![r] = [code |-> 200, seen |-> seen]]
        /\ UNCHANGED <<late, pc, call, reply, shown>>
        /\ effects' = [effects EXCEPT ![r] = @ + 1]
    BY DEF HydraWrites, Respond
  <1>6. RequestsOK'
    BY <1>1, <1>4, <1>5 DEF RequestsOK
  <1>7. ASSUME NEW q \in Requests \ {r}  PROVE Still(q)
    BY <1>1, <1>5 DEF RequestsOK, Still
  <1>8. ASSUME NEW q \in Requests  PROVE Placed(q)'
    BY <1>2, <1>5, PlacedKept, TypeParts DEF TypeOKParts, Stay
  <1>9. TypeOK'
    BY <1>2, <1>5, <1>6, <1>8, TypeParts DEF TypeOKParts
  <1>10. Sound(r)'
    <2>1. /\ pc[r] = "writing" /\ pc'[r] = "writing" /\ call'[r] = call[r]
          /\ resp'[r] = [code |-> 200, seen |-> seen] /\ resp'[r] # None
          /\ effects'[r] = 1 /\ shown'[r] = shown[r]
      <3>1. pc[r] = "writing" /\ pc'[r] = "writing" /\ call'[r] = call[r]
            /\ shown'[r] = shown[r]
        BY <1>5 DEF HydraWrites
      <3>2. effects'[r] = 1
        BY <1>1, <1>5 DEF RequestsOK
      <3>3. resp'[r] = [code |-> 200, seen |-> seen]
        BY <1>1, <1>5 DEF RequestsOK
      <3>4. resp'[r] # None
        BY <1>4, <3>3, NoResponseAssumption
      <3> QED  BY <3>1, <3>2, <3>3, <3>4
    <2>2. WriteSound(r)'
      BY <1>1, <1>2, <1>3, <2>1, StayKeeps DEF WriteSound, Own, IsSuper, Reads
    <2>3. Told(r)'
      BY <2>1 DEF Sound, Told, Own, IsSuper
    <2>4. (late[r] # None => InTenant(late[r]))'
      BY <1>2, <1>5, StayKeeps DEF Sound
    <2> QED  BY <2>1, <2>2, <2>3, <2>4 DEF Sound, ReadSound, EffectSound
  <1>11. ASSUME NEW q \in Requests \ {r}  PROVE Sound(q)'
    BY <1>2, <1>7, SoundKept
  <1>12. \A q \in Requests : Sound(q)'
    BY <1>10, <1>11
  <1> QED  BY <1>2, <1>9, <1>12

LEMMA HydraIsLateStep ==
    ASSUME TypeOK, \A q \in Requests : Sound(q), NEW r \in Requests, HydraIsLate(r)
    PROVE  TypeOK' /\ Stay /\ \A q \in Requests : Sound(q)'
  <1>1. /\ ClientsOK /\ RequestsOK /\ late \in [Requests -> Messages \cup {None}]
        /\ late[r] \in Messages /\ InTenant(late[r])
    BY TypeParts DEF TypeOKParts, HydraIsLate, Sound
  <1>2. ClientsOK' /\ Stay
    <2>1. CASE Accepts(late[r])
      BY <1>1, <2>1, ApplyKeeps DEF HydraIsLate
    <2>2. CASE ~ Accepts(late[r])
      BY <1>1, <2>2, NoChange DEF HydraIsLate
    <2> QED  BY <2>1, <2>2
  <1>3. /\ UNCHANGED <<pc, call, resp, reply, shown, effects>>
        /\ late' = [late EXCEPT ![r] = None]
    BY DEF HydraIsLate
  <1>4. ASSUME NEW q \in Requests  PROVE Placed(q)'
    BY <1>2, <1>3, PlacedKept, TypeParts DEF TypeOKParts, Stay
  <1>5. TypeOK'
    <2>1. RequestsOK' /\ late' \in [Requests -> Messages \cup {None}]
      BY <1>1, <1>3 DEF RequestsOK
    <2> QED  BY <1>2, <1>4, <2>1, TypeParts DEF TypeOKParts
  <1>6. ASSUME NEW q \in Requests  PROVE Sound(q)'
    <2>1. CASE q # r
      BY <1>1, <1>2, <1>3, <2>1, SoundKept DEF Still
    <2>2. CASE q = r
      <3>1. WriteSound(r)'
        BY <1>2, <1>3, StayKeeps DEF Sound, WriteSound, Own, IsSuper, Reads
      <3>2. ReadSound(r)'
        BY <1>2, <1>3, StayKeeps DEF Sound, ReadSound
      <3>3. EffectSound(r)' /\ Told(r)'
        BY <1>3 DEF Sound, EffectSound, Told, Own, IsSuper, Reads
      <3>4. late'[r] = None
        BY <1>1, <1>3
      <3> QED  BY <2>2, <3>1, <3>2, <3>3, <3>4 DEF Sound
    <2> QED  BY <2>1, <2>2
  <1> QED  BY <1>2, <1>5, <1>6

\* A write that is given up is sound as it was.
LEMMA AbandonKeeps ==
    ASSUME TypeOK, \A q \in Requests : Sound(q), NEW S \in SUBSET Requests,
           Abandon(S), UNCHANGED <<clients, made>>
    PROVE  /\ late' \in [Requests -> Messages \cup {None}]
           /\ \A q \in Requests : late'[q] # None => InTenant(late[q])'
           /\ \A q \in Requests \ S : late'[q] = late[q]
  <1>1. PICK T \in SUBSET {r \in S : pc[r] = "writing" /\ resp[r] = None /\ late[r] = None} :
           late' = [r \in Requests |-> IF r \in T THEN Sent(call[r]) ELSE late[r]]
    BY DEF Abandon
  <1>2. late' \in [Requests -> Messages \cup {None}]
    BY <1>1 DEF TypeOK, Messages
  <1>3. Stay
    BY NoChange, TypeParts DEF TypeOKParts
  <1>4. ASSUME NEW q \in Requests, late'[q] # None  PROVE InTenant(late[q])'
    <2>1. PICK m : m = late'[q]
      OBVIOUS
    <2>2. InTenant(m)
      BY <1>1, <1>4, <2>1 DEF Sound, WriteSound
    <2>3. InTenant(m)'
      BY <1>3, <2>2, StayKeeps
    <2> QED  BY <2>1, <2>3 DEF InTenant
  <1> QED  BY <1>1, <1>2, <1>4

LEMMA TimeoutStep ==
    ASSUME TypeOK, \A q \in Requests : Sound(q), NEW r \in Requests, Timeout(r)
    PROVE  TypeOK' /\ Stay /\ \A q \in Requests : Sound(q)'
  <1>1. RequestsOK /\ ClientsOK /\ Abandon({r}) /\ Answer(r, 500, {})
        /\ UNCHANGED <<clients, made>>
    BY TypeParts DEF TypeOKParts, Timeout
  <1>2. ClientsOK' /\ Stay
    BY <1>1, NoChange
  <1>3. /\ late' \in [Requests -> Messages \cup {None}]
        /\ \A q \in Requests : late'[q] # None => InTenant(late[q])'
        /\ \A q \in Requests \ {r} : late'[q] = late[q]
    BY <1>1, AbandonKeeps
  <1>4. /\ RequestsOK' /\ \A q \in Requests \ {r} : Still(q)
        /\ pc'[r] = "answered" /\ reply'[r] = 500 /\ shown'[r] = {}
    BY <1>1, <1>3, AnswerKeeps
  <1>5. ASSUME NEW q \in Requests  PROVE Placed(q)'
    <2>1. CASE q = r
      BY <1>4, <2>1 DEF Placed
    <2>2. CASE q # r
      BY <1>1, <1>4, <2>2, PlacedKept, TypeParts DEF TypeOKParts, Still
    <2> QED  BY <2>1, <2>2
  <1>6. TypeOK'
    BY <1>2, <1>3, <1>4, <1>5, TypeParts DEF TypeOKParts
  <1>7. Sound(r)'
    BY <1>3, <1>4 DEF Sound, ReadSound, WriteSound, EffectSound, Told, Waiting
  <1>8. ASSUME NEW q \in Requests \ {r}  PROVE Sound(q)'
    BY <1>2, <1>4, SoundKept
  <1>9. \A q \in Requests : Sound(q)'
    BY <1>7, <1>8
  <1> QED  BY <1>2, <1>6, <1>9

LEMMA CrashStep ==
    ASSUME TypeOK, \A q \in Requests : Sound(q), Crash
    PROVE  TypeOK' /\ Stay /\ \A q \in Requests : Sound(q)'
  <1>1. /\ RequestsOK /\ ClientsOK /\ Abandon(Requests)
        /\ pc' = [r \in Requests |-> IF pc[r] \in Waiting THEN "idle" ELSE pc[r]]
        /\ resp' = [r \in Requests |-> None]
        /\ UNCHANGED <<clients, made, call, reply, shown, effects>>
    BY TypeParts DEF TypeOKParts, Crash
  <1>2. ClientsOK' /\ Stay
    BY <1>1, NoChange
  <1>3. /\ late' \in [Requests -> Messages \cup {None}]
        /\ \A q \in Requests : late'[q] # None => InTenant(late[q])'
    BY <1>1, AbandonKeeps
  <1>4. RequestsOK'
    BY <1>1 DEF RequestsOK
  <1>5. ASSUME NEW q \in Requests
        PROVE  pc'[q] \in {"idle", "answered"} /\ (pc'[q] = "answered" => pc[q] = "answered")
    BY <1>1 DEF RequestsOK, Waiting
  <1>6. TypeOK'
    <2>1. ASSUME NEW q \in Requests  PROVE Placed(q)'
      BY <1>5 DEF Placed
    <2> QED  BY <1>2, <1>3, <1>4, <2>1, TypeParts DEF TypeOKParts
  <1>7. ASSUME NEW q \in Requests  PROVE Sound(q)'
    <2>1. Told(q)'
      BY <1>1, <1>5 DEF Sound, Told, Own, IsSuper, Reads
    <2>2. ReadSound(q)' /\ WriteSound(q)' /\ EffectSound(q)'
      BY <1>5 DEF ReadSound, WriteSound, EffectSound, Waiting
    <2> QED  BY <1>3, <2>1, <2>2 DEF Sound
  <1> QED  BY <1>2, <1>6, <1>7

-----------------------------------------------------------------------------

LEMMA NextStep ==
    ASSUME TypeOK, \A q \in Requests : Sound(q), [Next]_vars
    PROVE  TypeOK' /\ Stay /\ \A q \in Requests : Sound(q)'
  <1>1. CASE UNCHANGED vars
    <2>1. UNCHANGED <<clients, made>> /\ late' = late /\ \A q : Still(q)
      BY <1>1 DEF vars, hydra, Still
    <2>2. TypeOK'
      BY <1>1 DEF vars, hydra, TypeOK
    <2>3. Stay
      BY <2>1, NoChange, TypeParts DEF TypeOKParts
    <2> QED  BY <2>1, <2>2, <2>3, SoundKept
  <1>2. CASE Next
    BY <1>2, ArriveStep, ReplyStep, AdmitStep, WriteStep, TimeoutStep, CrashStep,
       HydraReadsStep, HydraWritesStep, HydraRejectsStep, HydraIsLateStep
       DEF Next, Portal
  <1> QED  BY <1>1, <1>2

LEMMA InitSound == Init => TypeOK /\ \A q \in Requests : Sound(q)
  <1> SUFFICES ASSUME Init  PROVE TypeOK /\ \A q \in Requests : Sound(q)
    OBVIOUS
  <1>1. (CHOOSE c \in Calls : TRUE) \in Calls
    BY CallAssumption
  <1>2. clients \in [{} -> Client]
    BY DEF Init
  <1>3. TypeOK
    BY <1>1, <1>2 DEF Init, TypeOK
  <1>4. ASSUME NEW q \in Requests  PROVE Sound(q)
    BY DEF Init, Sound, ReadSound, WriteSound, EffectSound, Told, Waiting
  <1> QED  BY <1>3, <1>4

\* In every reachable state what a request waits to write, was shown and was
\* told is sound.
THEOREM Invariance ==
    Spec => [](TypeOK /\ RequestsSound /\ AnswersInTenant /\ AnswersTruthful)
  <1> DEFINE IInv == TypeOK /\ \A q \in Requests : Sound(q)
  <1>1. Init => IInv
    BY InitSound
  <1>2. IInv /\ [Next]_vars => IInv'
    BY NextStep
  <1>3. IInv => TypeOK /\ RequestsSound /\ AnswersInTenant /\ AnswersTruthful
    BY SoundIsAll
  <1> QED  BY <1>1, <1>2, <1>3, PTL DEF Spec

\* The variables keep their types.
THEOREM TypeCorrect == Spec => []TypeOK
  BY Invariance, PTL

\* Answers show an administrator clients of its tenant (clients.js:25, 81).
THEOREM AnswersStayInTenant == Spec => []AnswersInTenant
  BY Invariance, PTL

\* A success happened once, a refusal did not (clients.js:103-221).
THEOREM AnswersAreTruthful == Spec => []AnswersTruthful
  BY Invariance, PTL

\* Settled clients stay in their tenant (clients.js:127).
THEOREM TenantsStay == Spec => TenantStays
  <1>1. TypeOK /\ RequestsSound /\ AnswersInTenant /\ AnswersTruthful /\ [Next]_vars =>
           [\A i \in made : Settled(i) /\ i \in DOMAIN clients' =>
               i \in DOMAIN clients /\ clients'[i].tenant = clients[i].tenant]_vars
    BY NextStep, SoundIsAll DEF Stay
  <1> QED  BY Invariance, <1>1, PTL DEF Spec, TenantStays

\* Only Hydra's writes change a client.
LEMMA ClientsChange ==
    ASSUME [Next]_vars
    PROVE  \/ UNCHANGED clients
           \/ \E r \in Requests : HydraWrites(r) \/ HydraIsLate(r)
  BY DEF Next, vars, hydra, Portal, Arrive, Crash, Refuse, Admit, Ask, List,
         Missing, Forbid, Show, Write, Written, Timeout, HydraReads, HydraRejects

\* Every write to a settled client is in the tenant of its caller when Hydra
\* does it, although it was checked long before (clients.js:111-135).
THEOREM WritesStayInTenant == Spec => WritesInTenant
  <1>1. ASSUME TypeOK, TypeOK', RequestsSound, [Next]_vars,
               NEW i \in DOMAIN clients, Settled(i),
               i \notin DOMAIN clients' \/ clients'[i] # clients[i]
        PROVE  \E c \in Calls :
                  c.id = i /\ Handled(Sent(c)) /\ MayTouch(c, clients[i].tenant)
    <2>1. ClientsOK /\ RequestsOK /\ late \in [Requests -> Messages \cup {None}]
      BY <1>1, TypeParts DEF TypeOKParts
    <2>2. ASSUME NEW c \in Calls, Accepts(Sent(c)), Apply(Sent(c)), InTenant(Sent(c)),
                 Handled(Sent(c))
          PROVE  c.id = i /\ Handled(Sent(c)) /\ MayTouch(c, clients[i].tenant)
      <3>1. Sent(c) \in Messages
        BY DEF Messages
      <3>2. i = Sent(c).id /\ MayTouch(Sent(c), clients[i].tenant)
        BY <1>1, <2>1, <2>2, <3>1, ApplyRightly
      <3> QED  BY <2>2, <3>2, SentFields, SameAuthority
    <2>3. PICK r \in Requests : HydraWrites(r) \/ HydraIsLate(r)
      BY <1>1, ClientsChange
    <2>4. CASE HydraWrites(r)
      <3>1. /\ pc[r] = "writing" /\ resp[r] = None
            /\ Accepts(Sent(call[r])) /\ Apply(Sent(call[r]))
        BY <2>4 DEF HydraWrites
      <3>2. call[r] \in Calls /\ InTenant(Sent(call[r]))
        BY <1>1, <2>1, <3>1 DEF RequestsSound, WriteSound, RequestsOK
      <3>3. resp'[r] # None
        <4> DEFINE seen == {v \in Views(DOMAIN clients)' :
                              v.id = call[r].id \/ v.id \notin DOMAIN clients}
        <4>1. Views(DOMAIN clients)' \in SUBSET View
          BY <1>1 DEF TypeOK, Views, View, Client
        <4>2. [code |-> 200, seen |-> seen] \in Response
          BY <4>1 DEF Response
        <4>3. resp'[r] = [code |-> 200, seen |-> seen]
          BY <2>1, <2>4 DEF HydraWrites, Respond, RequestsOK
        <4> QED  BY <4>2, <4>3, NoResponseAssumption
      <3>4. Handled(Sent(call[r]))
        BY <3>1, <3>3 DEF Handled
      <3> QED  BY <2>2, <3>1, <3>2, <3>4
    <2>5. CASE HydraIsLate(r)
      <3>1. /\ late[r] # None /\ late'[r] = None
            /\ Accepts(late[r]) /\ Apply(late[r])
        BY <1>1, <2>1, <2>5 DEF HydraIsLate
      <3>2. PICK c \in Calls : late[r] = Sent(c)
        BY <2>1, <3>1 DEF Messages
      <3>3. InTenant(Sent(c)) /\ Handled(Sent(c))
        BY <1>1, <3>1, <3>2 DEF RequestsSound, Handled
      <3> QED  BY <2>2, <3>1, <3>2, <3>3
    <2> QED  BY <2>3, <2>4, <2>5
  <1>2. TypeOK /\ RequestsSound /\ AnswersInTenant /\ AnswersTruthful /\ [Next]_vars =>
           [\A i \in DOMAIN clients : Settled(i) => ChangedRightly(i)]_vars
    BY <1>1, NextStep, SoundIsAll DEF ChangedRightly
  <1> QED  BY Invariance, <1>2, PTL DEF Spec, WritesInTenant

-----------------------------------------------------------------------------
(***************************************************************************)
(* OAuthClients implements ClientRegistry.  A response of Hydra is what a  *)
(* request sees, or its effect; going on to write is to be cleared.        *)
(***************************************************************************)

\* What a request has passed when it waits for Hydra, and had passed when it
\* left a write behind.
Passed(r) ==
    /\ pc[r] \in {"reading", "listing", "writing"} => Entitled(call[r])
    /\ pc[r] \notin {"reading", "listing", "writing"} => resp[r] = None
    /\ pc[r] = "reading" =>
          /\ call[r].op # "create"
          /\ resp[r] # None /\ resp[r].code # 200 =>
                resp[r].code = 404 /\ resp[r].seen = {}
    /\ late[r] # None => RoleOf[late[r].admin] \in {"super-admin", "admin"}

AllPassed == \A q \in Requests : Passed(q)

\* Who has passed to write may write.
LEMMA WriterRole ==
    ASSUME NEW c \in Calls, Entitled(c), ~ Reads(c)
    PROVE  RoleOf[Sent(c).admin] \in {"super-admin", "admin"}
  BY SentFields DEF Entitled, AllowedRoles, Reads

LEMMA PassedKept ==
    ASSUME NEW q, Passed(q), pc'[q] = pc[q], call'[q] = call[q],
           resp'[q] = resp[q], late'[q] = late[q]
    PROVE  Passed(q)'
  BY DEF Passed, Entitled, AllowedRoles, ForeignTenant, IsSuper

\* A step of the request r that is not waiting for Hydra afterwards.
LEMMA PassedOut ==
    ASSUME NEW r, Passed(r), pc'[r] \notin {"reading", "listing", "writing"},
           resp'[r] = None, late'[r] = late[r]
    PROVE  Passed(r)'
  BY DEF Passed

\* What is left behind was to be written.
LEMMA AbandonPassed ==
    ASSUME TypeOK, RequestsSound, AllPassed, NEW S \in SUBSET Requests, Abandon(S),
           NEW q \in Requests, late'[q] # None
    PROVE  RoleOf[late'[q].admin] \in {"super-admin", "admin"}
  <1>1. PICK T \in SUBSET {r \in S : pc[r] = "writing" /\ resp[r] = None /\ late[r] = None} :
           late' = [r \in Requests |-> IF r \in T THEN Sent(call[r]) ELSE late[r]]
    BY DEF Abandon
  <1>2. CASE late'[q] = late[q]
    BY <1>2 DEF AllPassed, Passed
  <1>3. CASE pc[q] = "writing" /\ late'[q] = Sent(call[q])
    <2>1. call[q] \in Calls /\ Entitled(call[q]) /\ ~ Reads(call[q])
      BY <1>3 DEF TypeOK, RequestsSound, WriteSound, AllPassed, Passed
    <2> QED  BY <1>3, <2>1, WriterRole
  <1> QED  BY <1>1, <1>2, <1>3

LEMMA PassedStep ==
    ASSUME TypeOK, RequestsSound, AllPassed, [Next]_vars
    PROVE  AllPassed'
  <1> USE DEF hydra
  <1>1. /\ late \in [Requests -> Messages \cup {None}]
        /\ pc \in [Requests -> Waiting \cup {"idle", "answered"}]
        /\ call \in [Requests -> Calls]
        /\ resp \in [Requests -> Response \cup {None}]
    BY DEF TypeOK
  <1>2. CASE UNCHANGED vars
    BY <1>2, PassedKept DEF vars, AllPassed
  <1>3. ASSUME NEW r \in Requests,
               Arrive(r) \/ Portal(r) \/ HydraReads(r) \/ HydraWrites(r) \/ HydraRejects(r)
        PROVE  late' = late
    BY <1>3 DEF Arrive, Portal, Refuse, Admit, List, Missing, Forbid, Show, Write,
       Written, Ask, HydraReads, HydraWrites, HydraRejects, Respond
  <1>4. ASSUME NEW r \in Requests, Arrive(r)  PROVE AllPassed'
    <2>1. Passed(r)'
      <3>1. pc'[r] = "authenticate" /\ resp'[r] = None
        BY <1>1, <1>4 DEF Arrive, AllPassed, Passed
      <3> QED  BY <1>3, <1>4, <3>1, PassedOut DEF AllPassed
    <2>2. ASSUME NEW q \in Requests \ {r}  PROVE Passed(q)'
      BY <1>1, <1>3, <1>4, PassedKept DEF Arrive, AllPassed
    <2> QED  BY <2>1, <2>2 DEF AllPassed
  <1>5. ASSUME NEW r \in Requests, NEW code, NEW views, Answer(r, code, views), late' = late
        PROVE  AllPassed'
    <2>1. Passed(r)'
      BY <1>1, <1>5, PassedOut DEF Answer, AllPassed
    <2>2. ASSUME NEW q \in Requests \ {r}  PROVE Passed(q)'
      BY <1>1, <1>5, PassedKept DEF Answer, AllPassed
    <2> QED  BY <2>1, <2>2 DEF AllPassed
  <1>6. ASSUME NEW r \in Requests,
               Refuse(r) \/ List(r) \/ Missing(r) \/ Forbid(r) \/ Show(r) \/ Written(r)
        PROVE  AllPassed'
    <2>1. \E code, views : Answer(r, code, views)
      BY <1>6 DEF Refuse, List, Missing, Forbid, Show, Written
    <2> QED  BY <1>3, <1>5, <1>6, <2>1 DEF Portal
  <1>7. ASSUME NEW r \in Requests, Admit(r) \/ Write(r)  PROVE AllPassed'
    <2>1. /\ Entitled(call[r]) /\ call' = call /\ late' = late /\ resp'[r] = None
          /\ \A q \in Requests \ {r} : pc'[q] = pc[q] /\ resp'[q] = resp[q]
          /\ pc'[r] = "reading" => call[r].op # "create"
      BY <1>1, <1>7 DEF Admit, Write, Found, Ask, AllPassed, Passed
    <2>2. Passed(r)'
      BY <2>1 DEF AllPassed, Passed, Entitled, AllowedRoles, ForeignTenant, IsSuper
    <2>3. ASSUME NEW q \in Requests \ {r}  PROVE Passed(q)'
      BY <2>1, PassedKept DEF AllPassed
    <2> QED  BY <2>2, <2>3 DEF AllPassed
  <1>8. ASSUME NEW r \in Requests, HydraReads(r) \/ HydraWrites(r) \/ HydraRejects(r)
        PROVE  AllPassed'
    <2>1. /\ pc' = pc /\ call' = call /\ late' = late
          /\ pc[r] \in {"reading", "listing", "writing"}
          /\ \A q \in Requests \ {r} : resp'[q] = resp[q]
      BY <1>1, <1>8 DEF HydraReads, HydraWrites, HydraRejects, Respond
    <2>2. pc[r] = "reading" /\ resp'[r].code # 200 =>
             resp'[r].code = 404 /\ resp'[r].seen = {}
      BY <1>1, <1>8 DEF HydraReads, HydraWrites, HydraRejects, Respond
    <2>3. Passed(r)'
      BY <2>1, <2>2 DEF AllPassed, Passed, Entitled, AllowedRoles, ForeignTenant, IsSuper
    <2>4. ASSUME NEW q \in Requests \ {r}  PROVE Passed(q)'
      BY <2>1, PassedKept DEF AllPassed
    <2> QED  BY <2>3, <2>4 DEF AllPassed
  <1>9. ASSUME NEW r \in Requests, HydraIsLate(r)  PROVE AllPassed'
    <2>1. ASSUME NEW q \in Requests  PROVE Passed(q)'
      BY <1>1, <1>9 DEF HydraIsLate, AllPassed, Passed, Entitled, AllowedRoles,
         ForeignTenant, IsSuper
    <2> QED  BY <2>1 DEF AllPassed
  <1>10. ASSUME NEW r \in Requests, Timeout(r)  PROVE AllPassed'
    <2>1. Abandon({r}) /\ Answer(r, 500, {})
      BY <1>10 DEF Timeout
    <2>2. Passed(r)'
      BY <1>1, <2>1, AbandonPassed DEF Answer, Passed
    <2>3. ASSUME NEW q \in Requests \ {r}  PROVE Passed(q)'
      BY <1>1, <2>1, PassedKept DEF Answer, Abandon, AllPassed
    <2> QED  BY <2>2, <2>3 DEF AllPassed
  <1>11. CASE Crash
    <2>1. ASSUME NEW q \in Requests  PROVE Passed(q)'
      <3>1. Abandon(Requests) /\ resp'[q] = None
            /\ pc'[q] \notin {"reading", "listing", "writing"}
        BY <1>1, <1>11 DEF Crash, Waiting
      <3>2. late'[q] # None => RoleOf[late'[q].admin] \in {"super-admin", "admin"}
        BY <3>1, AbandonPassed
      <3> QED  BY <3>1, <3>2 DEF Passed
    <2> QED  BY <2>1 DEF AllPassed
  <1> QED
    BY <1>2, <1>4, <1>6, <1>7, <1>8, <1>9, <1>10, <1>11 DEF Next, Portal

LEMMA AlwaysPassed == Spec => []AllPassed
  <1>1. Init => AllPassed
    BY DEF Init, AllPassed, Passed
  <1>2. TypeOK /\ RequestsSound /\ AllPassed /\ [Next]_vars => AllPassed'
    BY PassedStep
  <1> QED  BY <1>1, <1>2, Invariance, PTL DEF Spec

\* Both modules mean the same by what they take from ClientCalls.
LEMMA SameTerms ==
    /\ \A c : /\ Registry!Entitled(c) <=> Entitled(c)
              /\ Registry!Reads(c) <=> Reads(c)
              /\ Registry!Sent(c) = Sent(c)
    /\ \A c, t : Registry!MayTouch(c, t) <=> MayTouch(c, t)
    /\ \A c, v : Registry!Own(c, v) <=> Own(c, v)
    /\ \A i : Registry!Settled(i) <=> Settled(i)
    /\ \A op : Registry!OkCode(op) = OkCode(op)
    /\ Registry!Client = Client
  BY DEF Entitled, Registry!Entitled, AllowedRoles, Registry!AllowedRoles, ForeignTenant,
     Registry!ForeignTenant, IsSuper, Registry!IsSuper, Reads, Registry!Reads, Sent,
     Registry!Sent, MayTouch, Registry!MayTouch, Own, Registry!Own, Settled,
     Registry!Settled, OkCode, Registry!OkCode, Client, Registry!Client

LEMMA SamePage ==
    \A ids : Registry!Page(ids) = Page(ids)
  BY DEF Page, Registry!Page, Cardinality, Registry!Cardinality

\* The phase of a request follows its place.
LEMMA PhaseMoves ==
    ASSUME TypeOK, NEW r \in Requests, NEW label, pc' = [pc EXCEPT ![r] = label]
    PROVE  /\ label = "answered" => Progress' = [Progress EXCEPT ![r] = "answered"]
           /\ label \in {"authenticate", "reading", "listing"} =>
                 Progress' = [Progress EXCEPT ![r] = "asked"]
           /\ label = "writing" => Progress' = [Progress EXCEPT ![r] = "cleared"]
  <1>1. pc'[r] = label /\ \A q \in Requests \ {r} : pc'[q] = pc[q]
    BY DEF TypeOK
  <1>2. ASSUME label = "answered"  PROVE Progress' = [Progress EXCEPT ![r] = "answered"]
    BY <1>1, <1>2 DEF Progress, Waiting
  <1>3. ASSUME label \in {"authenticate", "reading", "listing"}
        PROVE  Progress' = [Progress EXCEPT ![r] = "asked"]
    BY <1>1, <1>3 DEF Progress, Waiting
  <1>4. ASSUME label = "writing"  PROVE Progress' = [Progress EXCEPT ![r] = "cleared"]
    BY <1>1, <1>4 DEF Progress, Waiting
  <1> QED  BY <1>2, <1>3, <1>4

LEMMA Phases ==
    ASSUME TypeOK, NEW r \in Requests
    PROVE  /\ pc[r] \in {"authenticate", "reading", "listing"} => Progress[r] = "asked"
           /\ pc[r] = "writing" => Progress[r] = "cleared"
           /\ pc[r] \in {"idle", "answered"} => Progress[r] = pc[r]
           /\ Progress[r] = "cleared" => pc[r] = "writing"
  BY DEF TypeOK, Progress, Waiting

\* What is seen follows the response.
LEMMA SeenMoves ==
    ASSUME TypeOK, NEW r \in Requests, NEW response, resp' = [resp EXCEPT ![r] = response]
    PROVE  /\ response = None => Seen' = [Seen EXCEPT ![r] = None]
           /\ response # None => Seen' = [Seen EXCEPT ![r] = response.seen]
  BY DEF TypeOK, Seen

LEMMA SeenIs ==
    ASSUME TypeOK, NEW r \in Requests
    PROVE  /\ resp[r] = None => Seen[r] = None
           /\ resp[r] # None => Seen[r] = resp[r].seen /\ Seen[r] # None
  BY NoViewAssumption DEF TypeOK, Seen, Response

LEMMA ReplyImplements ==
    ASSUME TypeOK, NEW r \in Requests, NEW code, NEW views,
           Answer(r, code, views), UNCHANGED <<clients, made>>
    PROVE  Registry!Reply(r, code, views)
  <1>1. Progress' = [Progress EXCEPT ![r] = "answered"]
    BY PhaseMoves DEF Answer
  <1>2. Seen' = [Seen EXCEPT ![r] = None]
    BY SeenMoves DEF Answer
  <1> QED  BY <1>1, <1>2 DEF Answer, Registry!Reply, Registry!table

LEMMA RefuseImplements ==
    ASSUME TypeOK, RequestsSound, AllPassed, NEW r \in Requests,
           Refuse(r) \/ Missing(r) \/ Forbid(r)
    PROVE  Registry!Refuse(r) \/ Registry!NotFound(r)
  <1> USE DEF hydra
  <1>1. CASE Refuse(r)
    <2>1. Registry!Reply(r, 403, {})
      BY <1>1, ReplyImplements DEF Refuse
    <2>2. ~ Registry!Entitled(call[r])
      BY <1>1, SameTerms DEF Refuse
    <2> QED  BY <1>1, <2>1, <2>2, Phases DEF Refuse, Registry!Refuse
  <1>2. CASE Missing(r)
    <2>1. Registry!Reply(r, 404, {})
      BY <1>2, ReplyImplements DEF Missing
    <2>2. Seen[r] = {} /\ call[r].op # "list"
      BY <1>2, SeenIs DEF Missing, AllPassed, Passed, TypeOK
    <2> QED  BY <1>2, <2>1, <2>2, Phases DEF Missing, Registry!NotFound
  <1>3. CASE Forbid(r)
    <2>1. Registry!Reply(r, 403, {})
      BY <1>3, ReplyImplements DEF Forbid
    <2>2. Seen[r] = resp[r].seen /\ Seen[r] # None /\ call[r].op # "list"
      BY <1>3, SeenIs DEF Forbid, Found, TypeOK
    <2>3. Registry!Sees(r) /\ ~ Registry!Mine(r)
      BY <1>3, <2>2, SameTerms DEF Forbid, Permitted, Registry!Sees, Registry!Mine
    <2> QED  BY <1>3, <2>1, <2>2, <2>3, Phases DEF Forbid, Found, Registry!Refuse
  <1> QED  BY <1>1, <1>2, <1>3

LEMMA ShowImplements ==
    ASSUME TypeOK, RequestsSound, AllPassed, NEW r \in Requests, List(r) \/ Show(r)
    PROVE  Registry!Show(r)
  <1> USE DEF hydra
  <1>1. /\ resp[r] # None /\ Entitled(call[r]) /\ Reads(call[r])
        /\ Progress[r] = "asked" /\ Seen[r] = resp[r].seen /\ Seen[r] # None
    BY Phases, SeenIs DEF List, Show, Found, AllPassed, Passed, TypeOK, Reads
  <1>2. CASE List(r)
    <2>1. Filtered(call[r], resp[r].seen) = {v \in Seen[r] : Registry!Own(call[r], v)}
      BY <1>1, <1>2, SameTerms DEF List, Filtered, Own, TypeOK
    <2>2. Registry!Reply(r, 200, {v \in Seen[r] : Registry!Own(call[r], v)})
      BY <1>2, <2>1, ReplyImplements DEF List
    <2>3. call[r].op # "get"
      BY <1>2 DEF List, TypeOK
    <2> QED  BY <1>1, <1>2, <2>2, <2>3, SameTerms DEF List, Registry!Show
  <1>3. CASE Show(r)
    <2>1. \A v \in Seen[r] : Registry!Own(call[r], v)
      BY <1>1, <1>3, PermittedOwn, SameTerms DEF Show, Found
    <2>2. Registry!Reply(r, 200, {v \in Seen[r] : Registry!Own(call[r], v)})
      <3>1. {v \in Seen[r] : Registry!Own(call[r], v)} = resp[r].seen
        BY <1>1, <2>1
      <3> QED  BY <1>3, <3>1, ReplyImplements DEF Show
    <2>3. Registry!Sees(r) /\ Registry!Mine(r)
      BY <1>1, <1>3, SameTerms DEF Show, Found, Permitted, Registry!Sees, Registry!Mine,
         RequestsSound, ReadSound
    <2> QED  BY <1>1, <1>3, <2>2, <2>3, SameTerms DEF Show, Registry!Show
  <1> QED  BY <1>2, <1>3

LEMMA WrittenImplements ==
    ASSUME TypeOK, RequestsSound, AllPassed, NEW r \in Requests, Written(r)
    PROVE  Registry!Confirm(r) \/ Registry!GiveUp(r)
  <1> USE DEF hydra
  <1>1. /\ pc[r] = "writing" /\ resp[r] # None /\ Progress[r] = "cleared"
        /\ Seen[r] = resp[r].seen
    BY Phases, SeenIs DEF Written
  <1>2. CASE resp[r].code = 200
    <2>1. effects[r] = 1 /\ \A v \in Seen[r] : Registry!Own(call[r], v)
      BY <1>1, <1>2, SameTerms DEF RequestsSound, EffectSound, WriteSound, Waiting
    <2>2. Registry!Reply(r, Registry!OkCode(call[r].op), Seen[r])
      <3>1. Answer(r, OkCode(call[r].op), resp[r].seen)
        BY <1>2 DEF Written
      <3>2. Registry!Reply(r, OkCode(call[r].op), resp[r].seen)
        BY <3>1, ReplyImplements DEF Written
      <3> QED  BY <1>1, <3>2, SameTerms
    <2> QED  BY <1>1, <2>1, <2>2 DEF Written, Registry!Confirm
  <1>3. CASE resp[r].code # 200
    <2>1. Registry!Reply(r, 500, {})
      BY <1>3, ReplyImplements DEF Written
    <2>2. Registry!LeaveBehind({r})
      <3>1. late' = [q \in Requests |-> IF q \in {} THEN Registry!Sent(call[q]) ELSE late[q]]
        BY DEF Written, TypeOK
      <3>2. {} \in SUBSET {q \in {r} : Progress[q] = "cleared" /\ effects[q] = 0
                                       /\ late[q] = None}
        OBVIOUS
      <3> QED  BY <3>1, <3>2 DEF Registry!LeaveBehind
    <2> QED  BY <1>1, <2>1, <2>2 DEF Registry!GiveUp
  <1> QED  BY <1>2, <1>3

\* Only what is about to be written is left behind.
LEMMA AbandonImplements ==
    ASSUME TypeOK, RequestsSound, NEW S \in SUBSET Requests, Abandon(S)
    PROVE  Registry!LeaveBehind(S)
  <1>1. PICK T \in SUBSET {r \in S : pc[r] = "writing" /\ resp[r] = None /\ late[r] = None} :
           late' = [r \in Requests |-> IF r \in T THEN Sent(call[r]) ELSE late[r]]
    BY DEF Abandon
  <1>2. \A r \in T : Progress[r] = "cleared" /\ effects[r] = 0
    BY Phases DEF RequestsSound, EffectSound, Waiting
  <1>3. T \in SUBSET {r \in S : Progress[r] = "cleared" /\ effects[r] = 0 /\ late[r] = None}
    BY <1>2
  <1>4. late' = [r \in Requests |-> IF r \in T THEN Registry!Sent(call[r]) ELSE late[r]]
    BY <1>1, SameTerms
  <1> QED  BY <1>3, <1>4 DEF Registry!LeaveBehind

LEMMA TimeoutImplements ==
    ASSUME TypeOK, RequestsSound, NEW r \in Requests, Timeout(r)
    PROVE  Registry!GiveUp(r)
  <1>1. Registry!Reply(r, 500, {}) /\ Registry!LeaveBehind({r})
    BY ReplyImplements, AbandonImplements DEF Timeout
  <1>2. Progress[r] \in {"asked", "cleared"}
    BY Phases DEF Timeout, Waiting
  <1> QED  BY <1>1, <1>2 DEF Registry!GiveUp

LEMMA CrashImplements ==
    ASSUME TypeOK, RequestsSound, Crash
    PROVE  Registry!Forget
  <1>1. /\ pc' = [q \in Requests |-> IF pc[q] \in Waiting THEN "idle" ELSE pc[q]]
        /\ resp' = [q \in Requests |-> None] /\ Abandon(Requests)
        /\ UNCHANGED <<clients, made, call, reply, shown, effects>>
    BY DEF Crash
  <1>2. Progress' = [q \in Requests |->
           IF Progress[q] \in {"asked", "cleared"} THEN "idle" ELSE Progress[q]]
    <2>1. \A q \in Requests : Progress'[q] =
             IF Progress[q] \in {"asked", "cleared"} THEN "idle" ELSE Progress[q]
      BY <1>1 DEF Progress, TypeOK, Waiting
    <2> QED  BY <2>1 DEF Progress
  <1>3. Seen' = [q \in Requests |-> None]
    BY <1>1 DEF Seen
  <1> QED  BY <1>1, <1>2, <1>3, AbandonImplements DEF Registry!Forget, Registry!table

LEMMA ArriveImplements ==
    ASSUME TypeOK, NEW r \in Requests, Arrive(r)
    PROVE  Registry!Ask(r)
  <1>1. Progress' = [Progress EXCEPT ![r] = "asked"] /\ Progress[r] \in {"idle", "answered"}
    BY PhaseMoves, Phases DEF Arrive
  <1>2. Seen' = Seen
    BY DEF Arrive, Seen
  <1>3. \E c \in Calls : call' = [call EXCEPT ![r] = c]
    BY AsksAssumption DEF Arrive
  <1> QED  BY <1>1, <1>2, <1>3 DEF Arrive, hydra, Registry!Ask, Registry!table

\* To go on to write is to be cleared; to go on to read is not seen.
LEMMA AskImplements ==
    ASSUME TypeOK, RequestsSound, AllPassed, NEW r \in Requests, Admit(r) \/ Write(r)
    PROVE  Registry!Clear(r) \/ UNCHANGED Registry!vars
  <1> USE DEF hydra
  <1>1. /\ Entitled(call[r]) /\ Progress[r] = "asked"
        /\ UNCHANGED <<clients, made, late, call, reply, shown, effects>>
        /\ resp' = [resp EXCEPT ![r] = None]
        /\ Seen' = [Seen EXCEPT ![r] = None]
    BY Phases, SeenMoves DEF Admit, Write, Found, Ask, AllPassed, Passed
  <1>2. ASSUME Ask(r, "writing"), ~ Reads(call[r]),
               call[r].op # "create" => Registry!Sees(r) /\ Registry!Mine(r)
        PROVE  Registry!Clear(r)
    <2>1. Progress' = [Progress EXCEPT ![r] = "cleared"]
      BY <1>2, PhaseMoves DEF Ask
    <2> QED  BY <1>1, <1>2, <2>1, SameTerms DEF Registry!Clear, Registry!table
  <1>3. CASE Admit(r) /\ call[r].op = "create"
    BY <1>2, <1>3 DEF Admit, Reads
  <1>4. CASE Admit(r) /\ call[r].op # "create"
    <2>1. \E label \in {"reading", "listing"} : pc' = [pc EXCEPT ![r] = label]
      BY <1>4 DEF Admit, Ask
    <2>2. Progress' = Progress
      <3>1. Progress' = [Progress EXCEPT ![r] = "asked"]
        BY <2>1, PhaseMoves
      <3> QED  BY <1>1, <3>1 DEF Progress
    <2>3. Seen' = Seen
      <3>1. Seen[r] = None
        BY <1>4, SeenIs DEF Admit, AllPassed, Passed
      <3> QED  BY <1>1, <3>1 DEF Seen
    <2> QED  BY <1>1, <2>2, <2>3 DEF Registry!vars
  <1>5. CASE Write(r)
    <2>1. Seen[r] = resp[r].seen /\ Seen[r] # None /\ ~ Reads(call[r])
      BY <1>5, SeenIs DEF Write, Found, TypeOK, Reads
    <2>2. Registry!Sees(r) /\ Registry!Mine(r)
      BY <1>5, <2>1, SameTerms DEF Write, Found, Permitted, RequestsSound, ReadSound,
         Registry!Sees, Registry!Mine
    <2> QED  BY <1>2, <1>5, <2>1, <2>2 DEF Write
  <1> QED  BY <1>3, <1>4, <1>5

-----------------------------------------------------------------------------
\* Hydra.

LEMMA SameViews ==
    \A S : Registry!Views(clients, S) = Views(S)
  BY DEF Registry!Views, Views

LEMMA RespondImplements ==
    ASSUME TypeOK, NEW r \in Requests, NEW code \in {200, 404, 409},
           NEW views \in SUBSET View, Respond(r, code, views)
    PROVE  Seen' = [Seen EXCEPT ![r] = views] /\ Progress' = Progress
  <1>1. [code |-> code, seen |-> views] \in Response
    BY DEF Response
  <1> DEFINE response == [code |-> code, seen |-> views]
  <1>2. response # None /\ response.seen = views
    BY <1>1, NoResponseAssumption
  <1>3. resp' = [resp EXCEPT ![r] = response] /\ pc' = pc
    BY DEF Respond
  <1>4. Seen' = [Seen EXCEPT ![r] = views]
    <2>1. /\ resp'[r] # None /\ resp'[r].seen = views
          /\ \A q \in Requests \ {r} : resp'[q] = resp[q]
      BY <1>2, <1>3 DEF TypeOK
    <2>2. \A q \in Requests : Seen'[q] = IF q = r THEN views ELSE Seen[q]
      BY <2>1 DEF Seen
    <2>3. /\ Seen = [q \in Requests |-> Seen[q]]
          /\ Seen' = [q \in Requests |-> Seen'[q]]
      BY DEF Seen
    <2> QED  BY <2>2, <2>3
  <1> QED  BY <1>2, <1>3, <1>4 DEF Progress

LEMMA ReadImplements ==
    ASSUME TypeOK, AllPassed, NEW r \in Requests, HydraReads(r)
    PROVE  Registry!Look(r)
  <1>1. /\ Entitled(call[r]) /\ Progress[r] = "asked" /\ Seen[r] = None
        /\ call[r].op # "create"
        /\ UNCHANGED <<clients, made, late, call, reply, shown, effects>>
    BY Phases, SeenIs DEF HydraReads, Respond, AllPassed, Passed, TypeOK
  <1>2. ASSUME NEW S \in SUBSET DOMAIN clients, NEW code \in {200, 404},
               Respond(r, code, Views(S)),
               S = IF call[r].op = "list" THEN Registry!Page(DOMAIN clients)
                   ELSE {call[r].id} \cap DOMAIN clients
        PROVE  Registry!Look(r)
    <2>1. Seen' = [Seen EXCEPT ![r] = Views(S)] /\ Progress' = Progress
      BY <1>2, ViewsType, RespondImplements
    <2>2. Registry!Views(clients, S) = Views(S) /\ Registry!Entitled(call[r])
      BY <1>1, SameTerms, SameViews
    <2> QED  BY <1>1, <1>2, <2>1, <2>2 DEF Registry!Look, Registry!table
  <1>3. CASE pc[r] = "listing"
    <2>1. call[r].op = "list" /\ Page(DOMAIN clients) \in SUBSET DOMAIN clients
      BY <1>3 DEF Page, TypeOK
    <2> QED  BY <1>2, <1>3, <2>1, SamePage DEF HydraReads
  <1>4. CASE pc[r] = "reading" /\ call[r].id \in DOMAIN clients
    <2>1. {call[r].id} = {call[r].id} \cap DOMAIN clients /\ call[r].op # "list"
      BY <1>4 DEF TypeOK
    <2> QED  BY <1>2, <1>4, <2>1 DEF HydraReads
  <1>5. CASE pc[r] = "reading" /\ call[r].id \notin DOMAIN clients
    <2>1. Views({}) = {} /\ {} = {call[r].id} \cap DOMAIN clients /\ call[r].op # "list"
      BY <1>5 DEF Views, TypeOK
    <2>2. Respond(r, 404, Views({}))
      BY <1>5, <2>1 DEF HydraReads
    <2> QED  BY <1>2, <2>1, <2>2
  <1> QED  BY <1>3, <1>4, <1>5 DEF HydraReads

\* Who was cleared and writes to a settled client still has authority over it.
LEMMA RightfulWrite ==
    ASSUME NEW m, InTenant(m), m.op # "create"
    PROVE  Registry!Rightful(m)
  BY SameTerms DEF InTenant, Registry!Rightful

LEMMA CreateImplements ==
    ASSUME ClientsOK, NEW m \in Messages, Accepts(m), Apply(m), m.op = "create"
    PROVE  Registry!Added(m) /\ Registry!Rightful(m)
  <1>1. PICK i \in Free(m), s \in Secrets :
           /\ clients' = [j \in DOMAIN clients \cup {i} |->
                   IF j = i THEN [tenant |-> m.tenant, body |-> m.body, secret |-> s]
                   ELSE clients[j]]
           /\ made' = made \cup {i}
    BY DEF Apply
  <1>2. i \in Ids \ DOMAIN clients /\ (IF m.id = None THEN i \notin made ELSE i = m.id)
    BY MessageFields DEF Free, ClientsOK
  <1>3. m.id \notin DOMAIN clients
    BY CreateKeeps
  <1> QED  BY <1>1, <1>2, <1>3 DEF Registry!Added, Registry!Rightful

LEMMA ChangeImplements ==
    ASSUME ClientsOK, NEW m \in Messages, Accepts(m), Apply(m), m.op # "create"
    PROVE  Registry!Removed(m) \/ Registry!Altered(m)
  <1> DEFINE row == clients[m.id]
             new == clients'[m.id]
  <1>1. m.id \in DOMAIN clients /\ row \in Client
    BY DEF Accepts, ClientsOK
  <1>2. CASE m.op = "put"
    <2>1. clients' = [clients EXCEPT ![m.id].tenant = m.tenant, ![m.id].body = m.body]
          /\ made' = made
      BY <1>2 DEF Apply
    <2>2. new = [row EXCEPT !.tenant = m.tenant, !.body = m.body]
      BY <1>1, <2>1
    <2>3. /\ new \in Client /\ new.tenant = m.tenant /\ new.body = m.body
          /\ new.secret = row.secret
      BY <1>1, <2>2, MessageFields DEF Client
    <2>4. clients' = [clients EXCEPT ![m.id] = new]
      BY <1>1, <2>1, <2>2
    <2> QED  BY <1>1, <1>2, <2>1, <2>3, <2>4, SameTerms DEF Registry!Altered
  <1>3. CASE m.op = "secret"
    <2>1. PICK s \in Secrets \ {clients[m.id].secret} :
             clients' = [clients EXCEPT ![m.id].secret = s]
      BY <1>3 DEF Apply
    <2>2. new = [row EXCEPT !.secret = s] /\ made' = made
      BY <1>1, <1>3, <2>1 DEF Apply
    <2>3. /\ new \in Client /\ new.tenant = row.tenant /\ new.body = row.body
          /\ new.secret # row.secret
      BY <1>1, <2>1, <2>2 DEF Client
    <2>4. clients' = [clients EXCEPT ![m.id] = new]
      BY <1>1, <2>1, <2>2
    <2> QED  BY <1>1, <1>3, <2>2, <2>3, <2>4, SameTerms DEF Registry!Altered
  <1>4. CASE m.op = "delete"
    BY <1>1, <1>4 DEF Apply, Registry!Removed
  <1> QED  BY <1>2, <1>3, <1>4 DEF Apply

\* A write that Hydra does is an effect of the registry.
LEMMA EffectImplements ==
    ASSUME ClientsOK, NEW m \in Messages, Accepts(m), Apply(m), InTenant(m),
           RoleOf[m.admin] \in {"super-admin", "admin"}
    PROVE  Registry!Effect(m)
  <1>1. CASE m.op = "create"
    BY <1>1, CreateImplements DEF Registry!Effect
  <1>2. CASE m.op # "create"
    BY <1>2, ChangeImplements, RightfulWrite DEF Registry!Effect
  <1> QED  BY <1>1, <1>2

LEMMA WritesImplements ==
    ASSUME TypeOK, TypeOK', RequestsSound, AllPassed, NEW r \in Requests, HydraWrites(r)
    PROVE  Registry!TakeEffect(r)
  <1> DEFINE m == Sent(call[r])
             seen == {v \in Views(DOMAIN clients)' :
                        v.id = call[r].id \/ v.id \notin DOMAIN clients}
             told == {i \in DOMAIN clients' : i = call[r].id \/ i \notin DOMAIN clients}
  <1>1. /\ ClientsOK /\ call[r] \in Calls /\ m \in Messages /\ InTenant(m)
        /\ Entitled(call[r]) /\ ~ Reads(call[r])
        /\ Progress[r] = "cleared" /\ Seen[r] = None /\ effects[r] = 0
    BY Phases, SeenIs, TypeParts DEF TypeOK, TypeOKParts, HydraWrites, RequestsSound,
       WriteSound, EffectSound, AllPassed, Passed, Waiting, Messages
  <1>2. Accepts(m) /\ Apply(m) /\ Respond(r, 200, seen)
        /\ effects' = [effects EXCEPT ![r] = @ + 1]
    BY DEF HydraWrites
  <1>3. Registry!Effect(Registry!Sent(call[r]))
    <2>1. RoleOf[m.admin] \in {"super-admin", "admin"}
      BY <1>1, WriterRole
    <2>2. Registry!Effect(m)
      BY <1>1, <1>2, <2>1, EffectImplements
    <2> QED  BY <2>2, SameTerms
  <1>4. Registry!Views(clients', told) = seen
    <2>1. \A v : v \in seen <=> v \in Registry!Views(clients', told)
      BY DEF Views, Registry!Views
    <2> QED  BY <2>1
  <1>5. seen \in SUBSET View
    <2>1. Views(DOMAIN clients)' \in SUBSET View
      BY DEF TypeOK, Views, View, Client
    <2> QED  BY <2>1
  <1>6. Seen' = [Seen EXCEPT ![r] = seen] /\ Progress' = Progress
    BY <1>2, <1>5, RespondImplements
  <1>7. effects' = [effects EXCEPT ![r] = 1]
    BY <1>1, <1>2
  <1> QED  BY <1>1, <1>2, <1>3, <1>4, <1>6, <1>7 DEF Respond, Registry!TakeEffect

LEMMA RejectsImplements ==
    ASSUME TypeOK, RequestsSound, NEW r \in Requests, HydraRejects(r)
    PROVE  Registry!Miss(r)
  <1>1. /\ call[r] \in Calls /\ effects[r] = 0
        /\ Progress[r] = "cleared" /\ Seen[r] = None
    BY Phases, SeenIs DEF TypeOK, HydraRejects, RequestsSound, EffectSound, Waiting
  <1>2. Seen' = [Seen EXCEPT ![r] = {}] /\ Progress' = Progress
    BY RespondImplements DEF HydraRejects
  <1>3. (call[r].id \in DOMAIN clients) <=> (call[r].op = "create" /\ call[r].id # None)
    <2>1. Sent(call[r]).op = call[r].op /\ Sent(call[r]).id = call[r].id
      BY <1>1, SentFields
    <2>2. None \notin DOMAIN clients
      BY NoneAssumption DEF TypeOK
    <2> QED  BY <2>1, <2>2 DEF HydraRejects, Accepts, Free
  <1> QED  BY <1>1, <1>2, <1>3 DEF HydraRejects, Respond, Registry!Miss, Registry!table

LEMMA LateImplements ==
    ASSUME TypeOK, RequestsSound, AllPassed, NEW r \in Requests, HydraIsLate(r)
    PROVE  Registry!Settle(r)
  <1>1. /\ ClientsOK /\ late[r] \in Messages /\ InTenant(late[r])
        /\ RoleOf[late[r].admin] \in {"super-admin", "admin"}
    BY TypeParts DEF TypeOKParts, HydraIsLate, RequestsSound, AllPassed, Passed
  <1>2. Seen' = Seen /\ Progress' = Progress
    BY DEF HydraIsLate, Seen, Progress
  <1>3. Registry!Effect(late[r]) \/ UNCHANGED Registry!table
    BY <1>1, EffectImplements DEF HydraIsLate, Registry!table
  <1> QED  BY <1>2, <1>3 DEF HydraIsLate, Registry!Settle

LEMMA InitImplements == Init => Registry!Init
  <1> SUFFICES ASSUME Init  PROVE Registry!Init
    OBVIOUS
  <1>1. Progress = [r \in Requests |-> "idle"] /\ Seen = [r \in Requests |-> None]
    BY DEF Init, Progress, Seen, Waiting
  <1> QED  BY <1>1 DEF Init, Registry!Init

LEMMA StepImplements ==
    ASSUME TypeOK, TypeOK', RequestsSound, AllPassed, [Next]_vars
    PROVE  [Registry!Next]_(Registry!vars)
  <1>1. CASE UNCHANGED vars
    <2>1. Progress' = Progress /\ Seen' = Seen
      BY <1>1 DEF vars, Progress, Seen
    <2> QED  BY <1>1, <2>1 DEF vars, hydra, Registry!vars
  <1>2. ASSUME NEW r \in Requests, Arrive(r)  PROVE Registry!Next
    BY <1>2, ArriveImplements DEF Registry!Next
  <1>3. ASSUME NEW r \in Requests, Refuse(r) \/ Missing(r) \/ Forbid(r)
        PROVE  Registry!Next
    BY <1>3, RefuseImplements DEF Registry!Next
  <1>4. ASSUME NEW r \in Requests, List(r) \/ Show(r)  PROVE Registry!Next
    BY <1>4, ShowImplements DEF Registry!Next
  <1>5. ASSUME NEW r \in Requests, Admit(r) \/ Write(r)
        PROVE  Registry!Next \/ UNCHANGED Registry!vars
    BY <1>5, AskImplements DEF Registry!Next
  <1>6. ASSUME NEW r \in Requests, Written(r)  PROVE Registry!Next
    BY <1>6, WrittenImplements DEF Registry!Next
  <1>7. ASSUME NEW r \in Requests, Timeout(r)  PROVE Registry!Next
    BY <1>7, TimeoutImplements DEF Registry!Next
  <1>8. ASSUME NEW r \in Requests, HydraReads(r)  PROVE Registry!Next
    BY <1>8, ReadImplements DEF Registry!Next
  <1>9. ASSUME NEW r \in Requests, HydraWrites(r)  PROVE Registry!Next
    BY <1>9, WritesImplements DEF Registry!Next
  <1>10. ASSUME NEW r \in Requests, HydraRejects(r)  PROVE Registry!Next
    BY <1>10, RejectsImplements DEF Registry!Next
  <1>11. ASSUME NEW r \in Requests, HydraIsLate(r)  PROVE Registry!Next
    BY <1>11, LateImplements DEF Registry!Next
  <1>12. CASE Crash
    BY <1>12, CrashImplements DEF Registry!Next
  <1> QED
    BY <1>1, <1>2, <1>3, <1>4, <1>5, <1>6, <1>7, <1>8, <1>9, <1>10, <1>11, <1>12
    DEF Next, Portal

\* The API promises ClientRegistry for any clients, callers and calls: what one
\* look at the clients allowed has one effect or none before the answer tells,
\* and what was given up one later or none (clients.js:108-221, hydra.js:5).
THEOREM Implementation == Spec => ImplementsRegistry
  <1> DEFINE IInv == TypeOK /\ RequestsSound /\ AllPassed
  <1>1. Init => Registry!Init
    BY InitImplements
  <1>2. IInv /\ IInv' /\ [Next]_vars => [Registry!Next]_(Registry!vars)
    BY StepImplements
  <1>3. Spec => []IInv
    BY Invariance, AlwaysPassed, PTL
  <1> QED  BY <1>1, <1>2, <1>3, PTL DEF Spec, ImplementsRegistry, Registry!Spec
=============================================================================
