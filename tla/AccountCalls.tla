---------------------------- MODULE AccountCalls ----------------------------
(***************************************************************************)
(* The administrators of the portal (TenantAdmin of models/tenant.js), and *)
(* what is asked about them: requests to routes/auth.js and to the HTML    *)
(* dashboard, the scripts, and the start of the portal (index.js).         *)
(***************************************************************************)

CONSTANTS
    Jobs,      \* slots for requests, scripts and starts; a slot is used again
    Emails,    \* an address names at most one account (models/tenant.js:195)
    Passwords, Tenants,
    Default,   \* admin@example.com
    Second,    \* tenant-admin@example.com
    Standard,  \* Password123!
    None,      \* null, undefined, or a field that is left out
    Calls      \* what each slot is used for

Roles == {"super-admin", "admin", "viewer"}
Pages == {"home", "tenants", "clients", "branding", "users", "client"}

\* Sign-in, the profile, the two ways to create, and the dashboard.
Requests == {"login", "me", "admin", "tenantAdmin", "page"}
Scripts  == {"init", "create", "reset", "onboard", "test"}
Starters == {"start", "init"}
Ops      == Requests \cup Scripts \cup {"start"}

Account == [password : Passwords, role : Roles, tenant : Tenants \cup {None},
            active : BOOLEAN]

\* by is the account whose token the request carries; the rest is its body.
\* The role of a body may be none that the model knows.
Call == [op : Ops, by : Emails \cup {None}, email : Emails \cup {None},
         password : Passwords \cup {None}, role : Roles \cup {None, "other"},
         tenant : Tenants \cup {None}, page : Pages]

ASSUME NameAssumption ==
    /\ {Default, Second} \subseteq Emails /\ Standard \in Passwords
    /\ None \notin Emails \cup Passwords \cup Tenants \cup Roles \cup {"other"}
\* onboardTenant passes on an address and a password.
ASSUME CallAssumption ==
    \A j \in Jobs :
        /\ Calls[j] \subseteq Call /\ Calls[j] # {}
        /\ \A c \in Calls[j] : c.op = "onboard" => None \notin {c.email, c.password}

-----------------------------------------------------------------------------

IsStandard(c) == c.op \in Starters \cup {"create"}

\* The account that the call creates, or signs in to.
Address(c) == IF IsStandard(c) \/ c.op = "test" THEN Default ELSE c.email
Secret(c)  == IF IsStandard(c) \/ c.op = "test" THEN Standard ELSE c.password

RoleFor(c) ==
    CASE IsStandard(c)                   -> "super-admin"
      [] c.op = "admin" /\ c.role # None -> c.role
      [] OTHER                           -> "admin"

AllowedRoles(op) ==
    CASE op = "admin"       -> {"super-admin"}
      [] op = "tenantAdmin" -> {"admin"}
      [] OTHER              -> Roles

\* With one token an account may read or create, as its role says.
MayUse(c, user) == user.active /\ user.role \in AllowedRoles(c.op)

Matches(c, user) == user.active /\ user.password = Secret(c)
=============================================================================
