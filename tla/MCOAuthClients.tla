--------------------------- MODULE MCOAuthClients ---------------------------
(***************************************************************************)
(* Instances of OAuthClients for TLC: two tenants with an administrator    *)
(* each, a viewer, a super-admin, and the calls that they make.            *)
(***************************************************************************)
EXTENDS OAuthClients, TLC

CONSTANTS r1, r2

MCAdmins == {"root", "adm1", "adm2", "view1"}
MCRoleOf == "root" :> "super-admin" @@ "view1" :> "viewer"
            @@ "adm1" :> "admin" @@ "adm2" :> "admin"
MCTenantOf == "root" :> None @@ "view1" :> "t1"
              @@ "adm1" :> "t1" @@ "adm2" :> "t2"

On(op, admin, i) ==
    [op |-> op, admin |-> admin, id |-> i, tenant |-> Absent, body |-> "b1"]
For(c, tenant) == [c EXCEPT !.tenant = tenant]

\* Clients 1 and 2 get their client_ids from Hydra.  The first slot makes
\* them, lets a super-admin move client 1, and deletes client 2, which is
\* settled; the second edits, reads and lists them beside it.
MovingAsks ==
    r1 :> {On("create", "adm2", None), For(On("put", "root", 1), "t1"),
           On("delete", "adm2", 2)}
    @@ r2 :> {On("secret", "adm2", 1), For(On("put", "adm1", 2), "t1"),
              For(On("put", "adm2", 2), "t1"), On("list", "adm1", None),
              On("get", "adm2", 1), On("create", "view1", None)}

\* One slot that makes clients of both tenants and lists them.
PageAsks ==
    r1 :> {On("create", "adm1", None), On("create", "adm2", None),
           On("list", "adm2", None)}

AllOf(asks) == UNION {asks[r] : r \in Requests}
MovingCalls == AllOf(MovingAsks)
PageCalls == AllOf(PageAsks)
=============================================================================
