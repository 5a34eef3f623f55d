----------------------------- MODULE ClientCalls ----------------------------
(***************************************************************************)
(* What the client API of the admin portal is about: the OAuth2 clients in *)
(* Ory Hydra, the administrators who call, the calls of                    *)
(* routes/api/clients.js, what is sent to Hydra for them, and the          *)
(* authority an administrator has over a client.                           *)
(***************************************************************************)
EXTENDS Naturals, FiniteSets

CONSTANTS
    Requests,   \* slots for concurrent requests; a slot is used again
    Ids,        \* the client_ids that may exist; Hydra lists in this order
    Admins, Tenants, RoleOf, TenantOf,
    Bodies,     \* what a client is but for its tenant and its secret
    Secrets,
    PageLimit,  \* limit = 100
    None,       \* null
    Absent,     \* undefined, or metadata without a tenant_id
    Calls       \* the calls that clients make

ASSUME IdAssumption == Ids \subseteq Nat
ASSUME NoneAssumption ==
    /\ None \notin Tenants \cup {Absent}
    /\ None \notin Ids
    /\ Absent \notin Tenants
ASSUME AdminAssumption ==
    /\ RoleOf \in [Admins -> {"super-admin", "admin", "viewer"}]
    /\ TenantOf \in [Admins -> Tenants \cup {None}]

\* id is the :id of the path; a create may name its client_id in the body, or
\* Hydra generates one.  tenant is metadata.tenant_id of the body.
Call == [op : {"create", "list", "get", "put", "delete", "secret"},
         admin : Admins, id : Ids \cup {None},
         tenant : Tenants \cup {Absent}, body : Bodies]

ASSUME CallAssumption ==
    /\ Calls \subseteq Call /\ Calls # {}
    /\ \A c \in Calls : c.op \notin {"create", "list"} => c.id # None

Client == [tenant : Tenants \cup {None, Absent}, body : Bodies, secret : Secrets]

\* What a response shows of a client.
View == [id : Ids, tenant : Tenants \cup {None, Absent}]

ASSUME NoViewAssumption == \A S \in SUBSET View : S # None

-----------------------------------------------------------------------------

IsSuper(c) == RoleOf[c.admin] = "super-admin"

AllowedRoles(op) ==
    IF op \in {"list", "get"} THEN {"super-admin", "admin", "viewer"}
    ELSE {"super-admin", "admin"}

\* The write as it is sent to Hydra: but for super-admins, POST and PUT set
\* metadata.tenant_id to the caller's tenant.
Sent(c) ==
    IF c.op \in {"create", "put"} /\ ~ IsSuper(c)
    THEN [c EXCEPT !.tenant = TenantOf[c.admin]]
    ELSE c
Messages == {Sent(c) : c \in Calls}

\* POST: a tenant in the body must be the caller's own.
ForeignTenant(c) ==
    c.op = "create" /\ ~ IsSuper(c) /\ c.tenant \notin {Absent, TenantOf[c.admin]}

\* The tenant check: `!clientTenantId || clientTenantId !== req.user.tenantId`.
MayTouch(c, tenant) ==
    IsSuper(c) \/ (tenant \in Tenants /\ tenant = TenantOf[c.admin])

\* What GET /clients?limit=100&offset=0 answers when there are the clients ids.
Page(ids) == {i \in ids : Cardinality({j \in ids : j < i}) < PageLimit}

\* What is let through before Hydra is asked.
Entitled(c) == RoleOf[c.admin] \in AllowedRoles(c.op) /\ ~ ForeignTenant(c)

Reads(c) == c.op \in {"list", "get"}

OkCode(op) ==
    CASE op = "create" -> 201 [] op = "delete" -> 204 [] OTHER -> 200

\* Nobody gives the client_id i to a client, and no super-admin edits i.
Settled(i) ==
    \A c \in Calls : c.id = i => ~ (c.op = "create" \/ (c.op = "put" /\ IsSuper(c)))

\* What an answer to c may show: the exception is the new secret of a client
\* that is not settled.
Own(c, v) ==
    \/ IsSuper(c)
    \/ c.op = "secret" /\ ~ Settled(v.id)
    \/ v.tenant = TenantOf[c.admin]
=============================================================================
