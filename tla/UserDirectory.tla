--------------------------- MODULE UserDirectory ---------------------------
(***************************************************************************)
(* The user API of the admin portal: routes/api/users.js over the User     *)
(* model (models/user.js), behind authenticate (middleware/auth.js).       *)
(*                                                                         *)
(* Express serves requests concurrently and each `await` of a handler lets *)
(* the others run, so a request is a process that makes one database       *)
(* access per step; what a handler does between two awaits belongs to the  *)
(* step that ends the first of them.  A Sequelize instance is a private    *)
(* copy of a row (doc); save() writes only the columns that differ from    *)
(* what was loaded (cols).                                                 *)
(***************************************************************************)
EXTENDS UserCalls

CONSTANTS
    Leavers,       \* the administrators an operator may deactivate
    Faults         \* what may go wrong around the handlers

ASSUME LeaverAssumption == Leavers \subseteq Admins
ASSUME FaultAssumption == Faults \subseteq {"access", "commit", "crash"}

VARIABLES
    users,   \* the table: a function from the keys in use to rows
    active,  \* tenant_admins.active
    pc,      \* the access each request waits for
    call,    \* what the request asks
    doc,     \* the instance it loaded and edited
    cols,    \* the columns of doc that its save() will write
    reply,   \* the HTTP status it was answered with
    shown    \* the rows its answer shows

vars == <<users, active, pc, call, doc, cols, reply, shown>>

Waiting == {"authenticate", "checkUsername", "checkEmail", "insert",
            "load", "save", "list"}
Codes   == {200, 201, 204, 400, 401, 403, 404, 409, 500}

----------------------------------------------------------------------------

\* Mutant: the null tenant filters like any other.
InScopeStrict(row, tenant) == row.tenantId = tenant

\* findByUsername and findByEmail: an empty tenant does not filter.
InScope(row, tenant) == tenant = None \/ row.tenantId = tenant
UsernameFound(name, tenant) ==
    \E i \in DOMAIN users : users[i].username = name /\ InScope(users[i], tenant)
EmailFound(email, tenant) ==
    \E i \in DOMAIN users : users[i].email = email /\ InScope(users[i], tenant)

\* Mutant: no unique index.
UsernameNeverTaken(name, except) == FALSE

\* The unique index on users.username.
UsernameTaken(name, except) ==
    \E i \in DOMAIN users \ except : users[i].username = name

Given(new, old) == IF new = None THEN old ELSE new

\* Mutant: the profile is replaced.
Replace(old, patch) == patch

Merge(old, patch) == [k \in Keys |-> Given(patch[k], old[k])]

\* Mutant: a PUT that names no status means "active".
EditedActive(row, c) ==
    [row EXCEPT !.status = IF c.op = "put" THEN Given(c.status, "active") ELSE "inactive"]

\* What a handler makes of the row it loaded: of a PUT, of a new password, of
\* a DELETE, which keeps the row.
Amended(row, c) ==
    [row EXCEPT !.username = Given(c.username, @),
                !.email    = Given(c.email, @),
                !.profile  = Merge(@, c.profile),
                !.status   = Given(c.status, @)]
Rekeyed(row, c) == [row EXCEPT !.password = c.password]
Retired(row) == [row EXCEPT !.status = "inactive"]

Edited(row, c) ==
    CASE c.op = "put"      -> Amended(row, c)
      [] c.op = "password" -> Rekeyed(row, c)
      [] OTHER             -> Retired(row)

\* The columns save() finds changed; a new hash has a new salt.
Dirty(row, new, c) ==
    {k \in Columns : new[k] # row[k]}
        \cup (IF c.op = "password" THEN {"password"} ELSE {})

\* Mutant: the UPDATE writes the instance as it was loaded.
WrittenWhole(row, d, dirty) == [d EXCEPT !.tenantId = row.tenantId]

\* The UPDATE statement: the dirty columns of d over the row as it now is.
Written(row, d, dirty) ==
    LET col(k) == IF k \in dirty THEN d[k] ELSE row[k]
    IN  [username |-> col("username"), email |-> col("email"),
         password |-> col("password"), status |-> col("status"),
         profile |-> col("profile"), tenantId |-> row.tenantId]

----------------------------------------------------------------------------

Init ==
    /\ users = [i \in {} |-> None]
    /\ active = [a \in Admins |-> TRUE]
    /\ pc = [r \in Requests |-> "idle"]
    /\ call = [r \in Requests |-> CHOOSE c \in Calls : TRUE]
    /\ doc = [r \in Requests |-> None]
    /\ cols = [r \in Requests |-> {}]
    /\ reply = [r \in Requests |-> None]
    /\ shown = [r \in Requests |-> {}]

Arrive(r) ==
    /\ pc[r] \in {"idle", "answered"}
    /\ \E c \in Calls : call' = [call EXCEPT ![r] = c]
    /\ pc' = [pc EXCEPT ![r] = "authenticate"]
    /\ reply' = [reply EXCEPT ![r] = None]
    /\ shown' = [shown EXCEPT ![r] = {}]
    /\ UNCHANGED <<users, active, doc, cols>>

\* res.status(code): the handler returns and its instance is dropped.
Answer(r, code, ids) ==
    /\ pc' = [pc EXCEPT ![r] = "answered"]
    /\ reply' = [reply EXCEPT ![r] = code]
    /\ shown' = [shown EXCEPT ![r] = ids]
    /\ doc' = [doc EXCEPT ![r] = None]
    /\ cols' = [cols EXCEPT ![r] = {}]
    /\ UNCHANGED <<active, call>>

Goto(r, label) ==
    /\ pc' = [pc EXCEPT ![r] = label]
    /\ UNCHANGED <<users, active, call, reply, shown>>

\* Mutant: `active: true` is missing from the lookup.
AuthenticatedInactive(c) == c.admin \in Admins

Authenticated(c) == c.admin \in Admins /\ active[c.admin]

\* authenticate: no payload, or no active administrator with that id.
RefuseUnauthenticated(r) ==
    /\ pc[r] = "authenticate"
    /\ ~ Authenticated(call[r])
    /\ Answer(r, 401, {})
    /\ UNCHANGED users

RefuseRole(r) ==
    /\ pc[r] = "authenticate"
    /\ Authenticated(call[r])
    /\ RoleOf[call[r].admin] \notin AllowedRoles(call[r].op)
    /\ Answer(r, 403, {})
    /\ UNCHANGED users

\* Mutant: POST does not require its fields.
MalformedPassword(c) == c.op = "password" /\ c.password = None

\* The checks a handler makes before its first access.
Malformed(c) ==
    \/ c.op = "create" /\ None \in {c.username, c.email, c.password}
    \/ c.op = "password" /\ c.password = None
ForeignTenant(c) ==
    c.op = "create" /\ ~ IsSuper(c) /\ c.tenantId \notin {None, TenantOf[c.admin]}

Admitted(c) ==
    Authenticated(c) /\ RoleOf[c.admin] \in AllowedRoles(c.op)

RefuseCall(r) ==
    /\ pc[r] = "authenticate"
    /\ Admitted(call[r])
    /\ \/ Malformed(call[r]) /\ Answer(r, 400, {})
       \/ ~ Malformed(call[r]) /\ ForeignTenant(call[r]) /\ Answer(r, 403, {})
    /\ UNCHANGED users

FirstAccess(op) ==
    CASE op = "create" -> "checkUsername"
      [] op = "list"   -> "list"
      [] OTHER         -> "load"

Admit(r) ==
    /\ pc[r] = "authenticate"
    /\ Admitted(call[r])
    /\ ~ Malformed(call[r])
    /\ ~ ForeignTenant(call[r])
    /\ Goto(r, FirstAccess(call[r].op))
    /\ UNCHANGED <<doc, cols>>

\* GET /
List(r) ==
    /\ pc[r] = "list"
    /\ LET wanted == Target(call[r])
           all == IsSuper(call[r]) /\ wanted = None
       IN  Answer(r, 200, {i \in DOMAIN users : all \/ users[i].tenantId = wanted})
    /\ UNCHANGED users

\* POST /
CheckUsername(r) ==
    /\ pc[r] = "checkUsername"
    /\ IF UsernameFound(call[r].username, Target(call[r]))
       THEN Answer(r, 409, {}) /\ UNCHANGED users
       ELSE Goto(r, "checkEmail") /\ UNCHANGED <<doc, cols>>

\* Mutant: a create that names no tenant looks for no address.
EmailOfTenant(r) ==
    /\ pc[r] = "checkEmail"
    /\ IF call[r].tenantId # None /\ EmailFound(call[r].email, Target(call[r]))
       THEN Answer(r, 409, {}) /\ UNCHANGED users
       ELSE Goto(r, "insert") /\ UNCHANGED <<doc, cols>>

CheckEmail(r) ==
    /\ pc[r] = "checkEmail"
    /\ IF EmailFound(call[r].email, Target(call[r]))
       THEN Answer(r, 409, {}) /\ UNCHANGED users
       ELSE Goto(r, "insert") /\ UNCHANGED <<doc, cols>>

\* The connection may break after the INSERT commits: 500, with the row in.
Insert(r) ==
    /\ pc[r] = "insert"
    /\ ~ UsernameTaken(call[r].username, {})
    /\ \E i \in Ids \ DOMAIN users :
          /\ users' = [j \in DOMAIN users \cup {i} |->
                          IF j = i THEN NewRow(call[r]) ELSE users[j]]
          /\ \/ Answer(r, 201, {i})
             \/ "commit" \in Faults /\ Answer(r, 500, {})

\* A unique violation rejects the INSERT; the error handler answers 500.
InsertRejected(r) ==
    /\ pc[r] = "insert"
    /\ UsernameTaken(call[r].username, {})
    /\ Answer(r, 500, {})
    /\ UNCHANGED users

\* Mutant: the handler forgets to answer.
MissingUnanswered(r) == FALSE

\* GET, PUT, PUT password and DELETE on /:id load the row by its key.
RefuseMissing(r) ==
    /\ pc[r] = "load"
    /\ call[r].id \notin DOMAIN users
    /\ Answer(r, 404, {})
    /\ UNCHANGED users

RefuseForeignRow(r) ==
    /\ pc[r] = "load"
    /\ call[r].id \in DOMAIN users
    /\ ~ MayTouch(call[r], users[call[r].id])
    /\ Answer(r, 403, {})
    /\ UNCHANGED users

Get(r) ==
    /\ pc[r] = "load"
    /\ call[r].op = "get"
    /\ call[r].id \in DOMAIN users
    /\ MayTouch(call[r], users[call[r].id])
    /\ Answer(r, 200, {call[r].id})
    /\ UNCHANGED users

\* Mutant: no tenant check.
LoadUnchecked(r) ==
    /\ pc[r] = "load" /\ call[r].op # "get" /\ call[r].id \in DOMAIN users
    /\ doc' = [doc EXCEPT ![r] = Edited(users[call[r].id], call[r])]
    /\ cols' = [cols EXCEPT ![r] = Asked(call[r])]
    /\ Goto(r, "save")

Load(r) ==
    /\ pc[r] = "load"
    /\ call[r].op # "get"
    /\ call[r].id \in DOMAIN users
    /\ LET row == users[call[r].id]
           new == Edited(row, call[r])
       IN  /\ MayTouch(call[r], row)
           /\ doc' = [doc EXCEPT ![r] = new]
           /\ cols' = [cols EXCEPT ![r] = Dirty(row, new, call[r])]
    /\ Goto(r, "save")

SaveRejected(r) ==
    /\ pc[r] = "save"
    /\ "username" \in cols[r]
    /\ UsernameTaken(doc[r].username, {call[r].id})
    /\ Answer(r, 500, {})
    /\ UNCHANGED users

\* Mutant: DELETE destroys the row.
SaveDestroys(r) ==
    /\ pc[r] = "save" /\ call[r].op = "delete"
    /\ users' = [i \in DOMAIN users \ {call[r].id} |-> users[i]]
    /\ Answer(r, 204, {})

Save(r) ==
    /\ pc[r] = "save"
    /\ "username" \in cols[r] => ~ UsernameTaken(doc[r].username, {call[r].id})
    /\ users' = [users EXCEPT ![call[r].id] = Written(@, doc[r], cols[r])]
    /\ \/ call[r].op = "put" /\ Answer(r, 200, {call[r].id})
       \/ call[r].op # "put" /\ Answer(r, 204, {})
       \/ "commit" \in Faults /\ Answer(r, 500, {})

\* The access fails: a broken connection, a failed validation.
Fail(r) ==
    /\ "access" \in Faults
    /\ pc[r] \in Waiting
    /\ Answer(r, 500, {})
    /\ UNCHANGED users

Step(r) ==
    \/ RefuseUnauthenticated(r) \/ RefuseRole(r) \/ RefuseCall(r) \/ Admit(r)
    \/ List(r)
    \/ CheckUsername(r) \/ CheckEmail(r) \/ Insert(r) \/ InsertRejected(r)
    \/ RefuseMissing(r) \/ RefuseForeignRow(r) \/ Get(r) \/ Load(r)
    \/ SaveRejected(r) \/ Save(r)

\* The portal process dies: what it was serving is never answered.
Crash ==
    /\ "crash" \in Faults
    /\ \E r \in Requests : pc[r] \in Waiting
    /\ pc' = [r \in Requests |-> IF pc[r] \in Waiting THEN "idle" ELSE pc[r]]
    /\ doc' = [r \in Requests |-> None]
    /\ cols' = [r \in Requests |-> {}]
    /\ UNCHANGED <<users, active, call, reply, shown>>

\* No handler does this: an operator clears tenant_admins.active by hand.
Deactivate(a) ==
    /\ active[a]
    /\ active' = [active EXCEPT ![a] = FALSE]
    /\ UNCHANGED <<users, pc, call, doc, cols, reply, shown>>

Next ==
    \/ \E r \in Requests : Arrive(r) \/ Step(r) \/ Fail(r)
    \/ Crash
    \/ \E a \in Leavers : Deactivate(a)

Spec == Init /\ [][Next]_vars

\* The event loop runs every continuation, the driver settles every query; no
\* query need fail.
FairSpec == Spec /\ \A r \in Requests : WF_vars(Step(r))

----------------------------------------------------------------------------

TypeOK ==
    /\ DOMAIN users \subseteq Ids
    /\ users \in [DOMAIN users -> Row]
    /\ active \in [Admins -> BOOLEAN]
    /\ pc \in [Requests -> Waiting \cup {"idle", "answered"}]
    /\ call \in [Requests -> Call]
    /\ doc \in [Requests -> Row \cup {None}]
    /\ cols \in [Requests -> SUBSET Columns]
    /\ reply \in [Requests -> Codes \cup {None}]
    /\ shown \in [Requests -> SUBSET Ids]

\* The username of a row is unique over all tenants, although the handler
\* looks only in one tenant, other requests insert between its check and its
\* insert, and PUT renames without a check (users.js:62-81, 141).
UsernamesUnique ==
    \A i, j \in DOMAIN users : users[i].username = users[j].username => i = j

\* What an answer shows to an administrator of a tenant are rows of that
\* tenant, and stay so (the list, get, create and put handlers).
ShownInTenant ==
    \A r \in Requests : pc[r] = "answered" =>
        \A i \in shown[r] : i \in DOMAIN users /\ MayTouch(call[r], users[i])

\* A row is inserted or changed only by a request whose administrator has
\* authority over the tenant the row then belongs to, although the check
\* (users.js:136, 177, 209) and the write are separate accesses.
WritesInTenant ==
    [][\A i \in DOMAIN users' :
          (i \in DOMAIN users => users'[i] # users[i]) =>
             \E r \in Requests :
                /\ pc[r] \in {"insert", "save"} /\ pc'[r] = "answered"
                /\ RoleOf[call[r].admin] \in {"super-admin", "admin"}
                /\ MayTouch(call[r], users'[i])]_vars

\* Deletion is soft and no call moves a user: rows stay, in their tenant.
RowsStay ==
    [][\A i \in DOMAIN users :
          i \in DOMAIN users' /\ users'[i].tenantId = users[i].tenantId]_vars

\* Concurrent changes of different columns of a row do not undo each other:
\* a column changes only when a request that asks for it saves (save() of an
\* instance loaded earlier, users.js:146, 183, 218).
ColumnsAsAsked ==
    [][\A i \in DOMAIN users, k \in Columns : users'[i][k] # users[i][k] =>
          \E r \in Requests :
             pc[r] = "save" /\ call[r].id = i /\ k \in Asked(call[r])]_vars

\* PUT merges the profile: a key it does not name keeps its value.  True of
\* requests served one after another; save() writes the merged column whole.
KeysAsAsked ==
    [][\A i \in DOMAIN users, k \in Keys :
          users'[i].profile[k] # users[i].profile[k] =>
             \E r \in Requests :
                /\ pc[r] = "save" /\ call[r].id = i
                /\ None # call[r].profile[k] /\ call[r].profile[k] = users'[i].profile[k]]_vars

\* 409 "Email already exists in this tenant" (users.js:71): two users of a
\* tenant have different e-mail addresses.
EmailsDistinctInTenant ==
    \A i, j \in DOMAIN users :
        users[i].email = users[j].email /\ users[i].tenantId = users[j].tenantId
            => i = j

\* Every request a living portal takes is answered: each branch of each
\* handler ends in an answer or in next(error).
EveryRequestEnds ==
    \A r \in Requests : pc[r] \in Waiting ~> pc[r] \notin Waiting

\* authenticate reads `active` once, so requests it let through before a
\* deactivation go on; once these have ended the administrator does nothing.
DeactivationDrains ==
    \A a \in Admins : ~ active[a] ~>
        [](\A r \in Requests : call[r].admin = a =>
              pc[r] \in {"idle", "authenticate", "answered"})

\* Where a request is decides what it is known to be: the checks behind it
\* held when they were made, and still hold at the access it waits for.
InCreate(r) ==
    /\ call[r].op = "create"
    /\ ~ Malformed(call[r])
    /\ ~ ForeignTenant(call[r])
InRow(r) ==
    /\ call[r].op \in {"get", "put", "password", "delete"}
    /\ ~ Malformed(call[r])
InSave(r) ==
    /\ InRow(r) /\ call[r].op # "get"
    /\ call[r].id \in DOMAIN users
    /\ MayTouch(call[r], users[call[r].id])
    /\ doc[r] \in Row
    /\ AsAsked(call[r], doc[r], cols[r])
Known(r) ==
    call[r].admin \in Admins /\ RoleOf[call[r].admin] \in AllowedRoles(call[r].op)

Sound(r) ==
    /\ pc[r] \in Waiting \ {"authenticate"} => Known(r)
    /\ pc[r] \in {"checkUsername", "checkEmail", "insert"} => InCreate(r)
    /\ pc[r] = "load" => InRow(r)
    /\ pc[r] = "save" => InSave(r)
    /\ pc[r] = "list" => call[r].op = "list"

\* The strengthening that makes the safety properties inductive: a save that
\* waits is for a row its administrator has authority over, and what it will
\* write is what the call asks.
RequestsSound == \A r \in Requests : Sound(r)

\* The registry a client sees: a request between its call and its answer.
Progress == [r \in Requests |-> IF pc[r] \in Waiting THEN "asked" ELSE pc[r]]

\* What a request is about to write of the profile.
Draft == [r \in Requests |->
    CASE pc[r] = "insert" -> call[r].profile
      [] pc[r] = "save"   -> doc[r].profile
      [] OTHER            -> None]

Registry == INSTANCE UserRegistry WITH
    users <- users, phase <- Progress, call <- call, draft <- Draft, reply <- reply

\* The API promises UserRegistry: between its call and its answer a request
\* has at most one effect, whole and within its authority; a 4xx means none
\* and is true when told; and what is written rests on one look at the table
\* before it, which other requests may outdate: an address that was free
\* (users.js:69), a profile as it was, key by key (users.js:143).
ImplementsRegistry == Registry!Spec
=============================================================================
