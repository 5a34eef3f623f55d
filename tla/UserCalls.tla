--------------------------- MODULE UserCalls -------------------------------
(***************************************************************************)
(* What the user API of the admin portal is about: the rows of the users   *)
(* table (models/user.js), the administrators who call                     *)
(* (models/tenant.js, TenantAdmin), the calls of routes/api/users.js, and  *)
(* the authority an administrator has over a row.                          *)
(***************************************************************************)
EXTENDS Naturals

CONSTANTS
    Requests,      \* slots for concurrent requests; a slot is used again
    Ids,           \* the primary keys a row may get; bounds the table
    Admins,        \* rows of tenant_admins that hold a token
    Tenants,
    Usernames, Emails, Passwords,
    Keys, Values,  \* the keys of a profile and what they may hold
    None,          \* null, undefined, or a field the body leaves out
    RoleOf,        \* nothing in the repository changes the role or the
    TenantOf,      \* tenant of an existing administrator
    Calls          \* the calls that clients make

Roles    == {"super-admin", "admin", "viewer"}
Statuses == {"active", "inactive", "pending"}
Ops      == {"create", "list", "get", "put", "password", "delete"}
Profiles == [Keys -> Values \cup {None}]

Row == [username : Usernames, email : Emails, password : Passwords,
        status : Statuses, tenantId : Tenants \cup {None}, profile : Profiles]

\* save() may write these; no handler assigns tenantId after the insert.
Columns == {"username", "email", "password", "status", "profile"}

\* A call with admin = None carries no token that verifies.
Call == [op : Ops, admin : Admins \cup {None}, id : Ids,
         username : Usernames \cup {None}, email : Emails \cup {None},
         password : Passwords \cup {None}, status : Statuses \cup {None},
         tenantId : Tenants \cup {None}, profile : Profiles]

ASSUME NoneAssumption ==
    None \notin Admins \cup Tenants \cup Usernames \cup Emails
                 \cup Passwords \cup Statuses \cup Values \cup Profiles

ASSUME AdminAssumption ==
    /\ RoleOf \in [Admins -> Roles]
    /\ TenantOf \in [Admins -> Tenants \cup {None}]

ASSUME CallAssumption == Calls \subseteq Call /\ Calls # {}

-----------------------------------------------------------------------------

IsSuper(c) == RoleOf[c.admin] = "super-admin"

\* Mutant: the tenant of the body is not overridden.
TargetOfBody(c) == c.tenantId

\* The tenant a create is for: targetTenantId.
Target(c) == IF IsSuper(c) THEN c.tenantId ELSE TenantOf[c.admin]

\* The tenant check of every handler that loads a row.
MayTouch(c, row) == IsSuper(c) \/ row.tenantId = TenantOf[c.admin]

AllowedRoles(op) ==
    IF op \in {"list", "get"} THEN Roles ELSE {"super-admin", "admin"}

\* The columns a call means to change.
Asked(c) ==
    CASE c.op = "put" ->
            {k \in {"username", "email", "status"} : c[k] # None} \cup {"profile"}
      [] c.op = "password" -> {"password"}
      [] c.op = "delete"   -> {"status"}
      [] OTHER             -> {}

\* The columns cs of the row d hold what the call asks for them.
AsAsked(c, d, cs) ==
    /\ cs \subseteq Asked(c)
    /\ \A k \in cs \ {"profile"} :
          d[k] = IF c.op = "delete" THEN "inactive" ELSE c[k]
    /\ "profile" \in cs =>
          \A k \in Keys : c.profile[k] # None => d.profile[k] = c.profile[k]

\* User.build in createUser: role and status have fixed values.
NewRow(c) == [username |-> c.username, email |-> c.email,
              password |-> c.password, status |-> "active",
              tenantId |-> Target(c), profile |-> c.profile]
=============================================================================
