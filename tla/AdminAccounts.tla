--------------------------- MODULE AdminAccounts ---------------------------
(***************************************************************************)
(* The administrators of the portal from an empty database on: the start   *)
(* of the portal (index.js) and its first data (init-db.js), sign-in and   *)
(* the creation of accounts (routes/auth.js, models/tenant.js), the HTML   *)
(* dashboard (routes/dashboard.js), and the scripts that are run beside    *)
(* the portal: init-db.js, create-admin.js, reset-password.js,             *)
(* test-auth.js, and onboarding, of which the tenant part is in Tenants.   *)
(*                                                                         *)
(* A job is a request, a script or a start; it makes one access to the     *)
(* database or to Hydra per step.                                          *)
(***************************************************************************)
EXTENDS AccountCalls

CONSTANTS
    Leavers,   \* the accounts that may be deactivated
    Faults     \* what may go wrong around the jobs

ASSUME FaultAssumption == Faults \subseteq {"access", "commit", "crash", "taken"}

VARIABLES
    accounts,  \* tenant_admins, by address; lastLogin is left out
    tokens,    \* the accounts for which a token has been issued
    synced,    \* the tables exist
    serving,   \* the portal listens
    holder,    \* the role of the user named "admin" in users, or None
    pc, call,
    doc,       \* the instance or req.user that a job has loaded
    halves,    \* the two functions of reset-password.js
    reply

portal == <<tokens, synced, serving, holder>>
vars == <<accounts, portal, pc, call, doc, halves, reply>>

SignIns == {"login", "test"}
Working == {"lookup", "saveLogin", "auth", "hydra", "createAdmin", "sync",
            "findSuper", "createUser", "reset"}
Halves  == [{Default, Second} -> {"none", "find", "save", "ok", "failed"}]
Replies == {"refused", "failed", "token", "created", "shown",
            "initialised", "swallowed", "ok"}

ASSUME ReplyAssumption == None \notin Replies

Idle == [e \in {Default, Second} |-> "none"]

-----------------------------------------------------------------------------

Init ==
    /\ accounts = [e \in {} |-> None]
    /\ tokens = {}
    /\ synced = FALSE
    /\ serving = FALSE
    /\ holder = None
    /\ pc = [j \in Jobs |-> "idle"]
    /\ call = [j \in Jobs |-> CHOOSE c \in Calls[j] : TRUE]
    /\ doc = [j \in Jobs |-> None]
    /\ halves = [j \in Jobs |-> Idle]
    /\ reply = [j \in Jobs |-> None]

Goto(j, label, d) ==
    /\ pc' = [pc EXCEPT ![j] = label]
    /\ doc' = [doc EXCEPT ![j] = d]
    /\ UNCHANGED <<call, halves, reply>>

\* The job ends; a start, whatever became of it, by listening.
End(j, r) ==
    /\ pc' = [pc EXCEPT ![j] = "done"]
    /\ doc' = [doc EXCEPT ![j] = None]
    /\ reply' = [reply EXCEPT ![j] = r]
    /\ serving' = (serving \/ call[j].op = "start")
    /\ UNCHANGED <<synced, call, halves>>

Answer(j, r) == End(j, r) /\ UNCHANGED <<tokens, holder>>

First(op) ==
    CASE op \in SignIns                -> "lookup"
      [] op \in Requests \ {"login"}   -> "auth"
      [] op \in {"create", "onboard"}  -> "createAdmin"
      [] op = "start"                  -> "sync"
      [] op = "init"                   -> "findSuper"
      [] op = "reset"                  -> "reset"

Starting == \E j \in Jobs : pc[j] \in Working /\ call[j].op = "start"

Begin(j) ==
    /\ pc[j] \in {"idle", "done"}
    /\ \E c \in Calls[j] :
          /\ c.op \in Requests => serving
          /\ c.op = "start" => ~ serving /\ ~ Starting
          /\ c.by \in tokens \cup {None}
          /\ call' = [call EXCEPT ![j] = c]
          /\ pc' = [pc EXCEPT ![j] = First(c.op)]
          /\ halves' = [halves EXCEPT ![j] =
                IF c.op = "reset" THEN [e \in {Default, Second} |-> "find"] ELSE Idle]
    /\ reply' = [reply EXCEPT ![j] = None]
    /\ UNCHANGED <<accounts, portal, doc>>

Incomplete(c) == ~ IsStandard(c) /\ None \in {Address(c), Secret(c)}

\* What answers without an access: a body without address or password, a
\* header without a token that verifies.
RefuseUnread(j) ==
    /\ \/ pc[j] = "lookup" /\ Incomplete(call[j])
       \/ pc[j] = "auth" /\ call[j].by = None
    /\ Answer(j, "refused")
    /\ UNCHANGED accounts

-----------------------------------------------------------------------------

\* Mutant: the account is found whether it is active or not.
LookupAny(j) ==
    LET c == call[j] IN
    /\ pc[j] = "lookup" /\ synced /\ ~ Incomplete(c)
    /\ IF Address(c) \in DOMAIN accounts /\ accounts[Address(c)].password = Secret(c)
       THEN Goto(j, "saveLogin", accounts[Address(c)]) /\ UNCHANGED portal
       ELSE Answer(j, "refused")
    /\ UNCHANGED accounts

\* authenticateAdmin: findOne, validatePassword.  What test-auth.js looks up
\* after a refusal it only prints.
Lookup(j) ==
    LET c == call[j]
        found == Address(c) \in DOMAIN accounts /\ Matches(c, accounts[Address(c)])
    IN  /\ pc[j] = "lookup" /\ synced /\ ~ Incomplete(c)
        /\ IF found
           THEN Goto(j, "saveLogin", accounts[Address(c)]) /\ UNCHANGED portal
           ELSE Answer(j, "refused")
        /\ UNCHANGED accounts

\* The columns that save() writes: those the job has assigned.
\* Mutant: all of them.
DirtyAll(c) == {"password", "role", "tenant", "active"}
Dirty(c) == IF c.op = "reset" THEN {"password"} ELSE {}

Written(row, d, columns) ==
    [k \in DOMAIN row |-> IF k \in columns THEN d[k] ELSE row[k]]

\* The save of lastLogin, and generateToken.
SaveLogin(j) ==
    LET e == Address(call[j]) IN
    /\ pc[j] = "saveLogin"
    /\ accounts' = [accounts EXCEPT ![e] = Written(@, doc[j], Dirty(call[j]))]
    /\ tokens' = tokens \cup {e}
    /\ End(j, "token")
    /\ UNCHANGED holder

\* authenticate, and what the handlers of auth.js check before their access.
Authenticate(j) ==
    LET c == call[j] IN
    /\ pc[j] = "auth" /\ c.op # "page" /\ c.by # None
    /\ IF ~ MayUse(c, accounts[c.by])
       THEN Answer(j, "refused")
       ELSE IF c.op = "me"
       THEN Answer(j, "shown")
       ELSE IF Incomplete(c)
       THEN Answer(j, "refused")
       ELSE Goto(j, "createAdmin", accounts[c.by]) /\ UNCHANGED portal
    /\ UNCHANGED accounts

\* optionalAuth, and the pages that need no more than req.user.  A page is
\* "shown" when it is handed to the view engine, "refused" when the caller is
\* taken for a stranger or sent elsewhere.
MaySee(page, user) ==
    CASE page = "tenants"  -> user.role = "super-admin"
      [] page = "branding" -> user.role # "super-admin" \/ user.tenant # None
      [] OTHER             -> TRUE

ViewPage(j) ==
    LET c == call[j] IN
    /\ pc[j] = "auth" /\ c.op = "page" /\ c.by # None
    /\ IF ~ accounts[c.by].active \/ ~ MaySee(c.page, accounts[c.by])
       THEN Answer(j, "refused")
       ELSE IF c.page \in {"home", "client"}
       THEN Goto(j, "hydra", accounts[c.by]) /\ UNCHANGED portal
       ELSE Answer(j, "shown")
    /\ UNCHANGED accounts

\* The home page counts clients, and does without if it cannot.
Home(j) ==
    /\ pc[j] = "hydra" /\ call[j].page = "home"
    /\ Answer(j, "shown")
    /\ UNCHANGED accounts

\* The page of a client is for the administrators of its tenant, unless it
\* cannot be read.
ClientDetail(j) ==
    /\ pc[j] = "hydra" /\ call[j].page = "client"
    /\ \/ \E tenant \in Tenants \cup {None} :
             Answer(j, IF doc[j].role = "super-admin" \/ tenant = doc[j].tenant
                       THEN "shown" ELSE "refused")
       \/ Answer(j, "refused")
    /\ UNCHANGED accounts

-----------------------------------------------------------------------------

\* An exception: the error handler's 500 or exit code 1; a start goes on to
\* listen; init-db.js goes on when the account cannot be created; a page is
\* shown as to a stranger.
Report(j) ==
    CASE pc[j] = "createAdmin" /\ call[j].op \in Starters -> "swallowed"
      [] pc[j] = "auth" /\ call[j].op = "page"            -> "refused"
      [] OTHER                                           -> "failed"

\* Mutant: an error that is not passed to next() is never answered.
ThrowSilently(j) ==
    IF call[j].op \in Requests
    THEN UNCHANGED <<portal, pc, call, doc, halves, reply>>
    ELSE Answer(j, Report(j))

Throw(j) == Answer(j, Report(j))

\* sequelize.authenticate and sequelize.sync.
Sync(j) ==
    /\ pc[j] = "sync"
    /\ synced' = TRUE
    /\ Goto(j, "findSuper", None)
    /\ UNCHANGED <<accounts, tokens, serving, holder>>

\* Mutant: with a super-admin in users nothing is left to do.
FindSuperOnly(j) ==
    /\ pc[j] = "findSuper" /\ synced
    /\ IF holder = "super-admin"
       THEN Answer(j, "initialised")
       ELSE Goto(j, "createUser", None) /\ UNCHANGED portal
    /\ UNCHANGED accounts

\* initDb: is there a super-admin in users?  Only createUser makes one here.
FindSuper(j) ==
    /\ pc[j] = "findSuper" /\ synced
    /\ Goto(j, IF holder = "super-admin" THEN "createAdmin" ELSE "createUser", None)
    /\ UNCHANGED <<accounts, portal>>

\* createUser; the name is unique over all users (models/user.js:30).
CreateUser(j) ==
    /\ pc[j] = "createUser"
    /\ IF holder = None
       THEN /\ holder' = "super-admin"
            /\ \/ Goto(j, "createAdmin", None) /\ UNCHANGED <<synced, serving>>
               \/ "commit" \in Faults /\ End(j, "failed")
            /\ UNCHANGED tokens
       ELSE Throw(j)
    /\ UNCHANGED accounts

\* user is the account of req.user.
TenantFor(c, user) ==
    CASE IsStandard(c)          -> None
      [] c.op = "tenantAdmin"   -> user.tenant
      [] OTHER                  -> c.tenant

\* createTenantAdmin: the object that is saved.
Built(c, user) == [password |-> Secret(c), role |-> RoleFor(c),
                   tenant |-> TenantFor(c, user), active |-> TRUE]

\* Mutant: any role is taken from the body.
UniqueOnly(c) == Address(c) \notin DOMAIN accounts

\* The unique address and the validator of the role (models/tenant.js:195, 216).
Acceptable(c) == Address(c) \notin DOMAIN accounts /\ RoleFor(c) \in Roles

\* createTenantAdmin.  That the address is in use is as well for init-db.js.
InsertAdmin(j) ==
    LET c == call[j]
        e == Address(c)
        result == IF c.op \in Starters THEN "initialised" ELSE "created"
    IN  /\ pc[j] = "createAdmin" /\ synced
        /\ IF Acceptable(c)
           THEN /\ accounts' = [f \in DOMAIN accounts \cup {e} |->
                       IF f = e THEN Built(c, doc[j]) ELSE accounts[f]]
                /\ \/ Answer(j, result)
                   \/ "commit" \in Faults /\ Throw(j)
           ELSE /\ Answer(j, IF c.op \in Starters THEN result ELSE "failed")
                /\ UNCHANGED accounts

-----------------------------------------------------------------------------

Half(j, e, from, to) ==
    /\ halves[j][e] \in from
    /\ halves' = [halves EXCEPT ![j][e] = to]
    /\ UNCHANGED <<portal, pc, call, doc, reply>>

FindHalf(j, e) ==
    /\ pc[j] = "reset" /\ synced
    /\ Half(j, e, {"find"}, IF e \in DOMAIN accounts THEN "save" ELSE "failed")
    /\ UNCHANGED accounts

\* setPassword and save.
SaveHalf(j, e) ==
    /\ pc[j] = "reset"
    /\ \/ Half(j, e, {"save"}, "ok")
       \/ "commit" \in Faults /\ Half(j, e, {"save"}, "failed")
    /\ accounts' = [accounts EXCEPT ![e] =
           Written(@, [@ EXCEPT !.password = Standard], Dirty(call[j]))]

\* Each half catches its errors.
FailHalf(j, e) ==
    /\ pc[j] = "reset" /\ ("access" \in Faults \/ ~ synced)
    /\ Half(j, e, {"find", "save"}, "failed")
    /\ UNCHANGED accounts

Summarise(j) ==
    /\ pc[j] = "reset"
    /\ \A e \in {Default, Second} : halves[j][e] \in {"ok", "failed"}
    /\ Answer(j, IF \E e \in {Default, Second} : halves[j][e] = "ok"
                 THEN "ok" ELSE "failed")
    /\ UNCHANGED accounts

-----------------------------------------------------------------------------

\* Every access but sync needs the tables.
NoTable(j) ==
    /\ ~ synced
    /\ pc[j] \in {"lookup", "findSuper", "createUser", "createAdmin"}
    /\ ~ Incomplete(call[j])
    /\ Throw(j)
    /\ UNCHANGED accounts

Fail(j) ==
    /\ "access" \in Faults
    /\ pc[j] \in Working \ {"reset", "hydra"}
    /\ pc[j] = "auth" => call[j].by # None
    /\ pc[j] = "lookup" => ~ Incomplete(call[j])
    /\ Throw(j)
    /\ UNCHANGED accounts

\* An operator sets tenant_admins.active.
Deactivate ==
    /\ \E e \in Leavers \cap DOMAIN accounts :
          accounts' = [accounts EXCEPT ![e].active = FALSE]
    /\ UNCHANGED <<portal, pc, call, doc, halves, reply>>

\* An administrator creates a user with the name "admin" (UserDirectory).
TakeName ==
    /\ "taken" \in Faults
    /\ holder = None /\ serving /\ tokens # {}
    /\ holder' = "user"
    /\ UNCHANGED <<accounts, tokens, synced, serving, pc, call, doc, halves, reply>>

\* An administrator renames that user; a DELETE would keep the row.
GiveName ==
    /\ "taken" \in Faults
    /\ holder = "user" /\ serving /\ tokens # {}
    /\ holder' = None
    /\ UNCHANGED <<accounts, tokens, synced, serving, pc, call, doc, halves, reply>>

\* The portal's process ends, with its requests; or that of a script.
Lost(js) ==
    /\ "crash" \in Faults
    /\ pc' = [j \in Jobs |-> IF j \in js THEN "idle" ELSE pc[j]]
    /\ doc' = [j \in Jobs |-> IF j \in js THEN None ELSE doc[j]]
    /\ halves' = [j \in Jobs |-> IF j \in js THEN Idle ELSE halves[j]]
    /\ UNCHANGED <<accounts, tokens, synced, holder, call, reply>>

CrashPortal ==
    /\ serving \/ Starting
    /\ serving' = FALSE
    /\ Lost({j \in Jobs : pc[j] \in Working /\ call[j].op \notin Scripts})

CrashScript(j) ==
    /\ pc[j] \in Working /\ call[j].op \in Scripts
    /\ UNCHANGED serving
    /\ Lost({j})

Step(j) ==
    \/ RefuseUnread(j) \/ Lookup(j) \/ SaveLogin(j)
    \/ Authenticate(j) \/ ViewPage(j) \/ Home(j) \/ ClientDetail(j)
    \/ Sync(j) \/ FindSuper(j) \/ CreateUser(j) \/ InsertAdmin(j)
    \/ \E e \in {Default, Second} : FindHalf(j, e) \/ SaveHalf(j, e)
    \/ Summarise(j) \/ NoTable(j)

Next ==
    \/ \E j \in Jobs :
          \/ Begin(j) \/ Step(j) \/ Fail(j) \/ CrashScript(j)
          \/ \E e \in {Default, Second} : FailHalf(j, e)
    \/ Deactivate \/ TakeName \/ GiveName \/ CrashPortal

Spec == Init /\ [][Next]_vars

\* The event loop runs every continuation and the driver settles every query.
FairSpec ==
    /\ Spec
    /\ \A j \in Jobs : WF_vars(Step(j))
    /\ \A j \in Jobs, e \in {Default, Second} : WF_vars(~ synced /\ FailHalf(j, e))
-----------------------------------------------------------------------------

TypeOK ==
    /\ DOMAIN accounts \subseteq Emails
    /\ accounts \in [DOMAIN accounts -> Account]
    /\ tokens \subseteq DOMAIN accounts
    /\ synced \in BOOLEAN /\ serving \in BOOLEAN
    /\ holder \in {None, "super-admin", "user"}
    /\ pc \in [Jobs -> Working \cup {"idle", "done"}]
    /\ call \in [Jobs -> Call]
    /\ doc \in [Jobs -> Account \cup {None}]
    /\ halves \in [Jobs -> Halves]
    /\ reply \in [Jobs -> Replies \cup {None}]

\* reset-password.js tells the truth, and lastingly: an address it reports as
\* reset has the new password, although sign-ins save instances that they
\* loaded before (tenant.js:313).
ResetsStick ==
    \A j \in Jobs, e \in {Default, Second} : halves[j][e] = "ok" =>
        e \in DOMAIN accounts /\ accounts[e].password = Standard

\* An initialisation that went through leaves a super-admin in users and the
\* default account, although another may run at the same time and earlier
\* ones may have ended between the two inserts (init-db.js:30, 50).
FirstAdmin ==
    (\E j \in Jobs : reply[j] = "initialised") =>
        holder = "super-admin" /\ Default \in DOMAIN accounts

\* Every request is answered, every script ends, every start listens, with
\* or without tables and accounts (index.js:153).
EveryJobEnds == \A j \in Jobs : pc[j] \in Working ~> pc[j] \notin Working

\* Where a job is, as the one who asked sees it.
Stage(label, op) ==
    CASE label = "idle" -> "idle"
      [] label = "done" -> "answered"
      [] label \in {"saveLogin", "hydra"} -> "entitled"
      [] label = "createAdmin" /\ op \in Requests -> "entitled"
      [] OTHER -> "asked"

Progress == [j \in Jobs |-> Stage(pc[j], call[j].op)]

Book == INSTANCE AccountBook WITH
    accounts <- accounts, tokens <- tokens, call <- call,
    phase <- Progress, reply <- reply

\* The promise of AccountBook: accounts appear whole and by authority, only
\* resets change passwords, and a token, a page or a new account is had only
\* by who was entitled to it since the call.
ImplementsBook == Book!Spec
=============================================================================
