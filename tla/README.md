# A TLA+ model of the ory-sso-service

The repository is a multi-tenant single sign-on service around Ory Hydra: an
admin portal (Express, Sequelize, PostgreSQL) that keeps tenants, their
administrators, users and OAuth clients; scripts that fill its database; React
pages for login, consent and logout; a sign-in with Azure AD; and an admin
console. This directory holds TLA+ modules of its stateful parts, TLC
configurations that check them on small instances, and proofs that TLAPS checks
for every value of the constants.

Paths below are relative to `src/`; `AP` stands for
`services/admin-portal/src`, `LR` for `services/login-consent-app-react/src`,
`AR` for `services/admin-portal-react/src`.

## Inventory

| component | state it keeps | operations | what makes it hard |
|---|---|---|---|
| **User API** (`AP/routes/api/users.js`, `AP/models/user.js`) | table `users`; the instance a handler has loaded | list, get, create, update, set password, soft delete | each handler awaits several accesses; checks and writes are separate, `save()` writes an instance loaded earlier, the database may lose a connection after it has committed |
| **Authentication middleware** (`AP/middleware/auth.js`) | none; reads `tenant_admins` | verify the token, look up the active administrator, check the role | `active` is read once, before the handler's own accesses |
| **Tenant store and API** (`AP/models/tenant.js`, `AP/routes/api/tenants.js`) | tables `tenants`, `tenant_brandings`, `tenant_admins` | create tenant with branding (transaction), create administrator, PUT (transaction), DELETE | transactions that must be closed on every path, locks, partial failures, failure after the commit |
| **Onboarding scripts** (`AP/scripts/create-tenant.js`, `bulk-import-tenants.js`) | the results of the entries | for each entry: look for the slug, create tenant, create administrator | three separate commits for one entry, the loop goes on after errors, several scripts at once |
| **OAuth client API** (`AP/routes/api/clients.js`, `AP/services/hydra.js`) | nothing of its own; Hydra's clients, with the tenant in `metadata.tenant_id` | list, get, create, update, delete, new secret | the tenant check and the write are two calls to Hydra; a call that has timed out may still be done |
| **Login, consent, logout pages** (`LR/pages`, `LR/components/EnterpriseLogin.js`, `LR/services/hydraService.js`) | React state of each page; Hydra's requests | fetch the request, accept, reject, follow the redirect | closures over an old render, reloads, two tabs on one request, lost answers |
| **Azure sign-in** (`config/entra-id/azure-routes.js`) | the browser's session: passport's states and one `login_challenge` | begin, verify callback, callback, logout | all tabs share one session |
| **Administrator accounts** (`AP/routes/auth.js`, `AP/models/tenant.js:178-341`, `AP/scripts/reset-password.js`, `create-admin.js`, `test-auth.js`) | table `tenant_admins`; tokens that live 7 days | sign in, profile, create, reset password | a sign-in loads an instance, checks its password and saves it later; a reset, a deactivation or a second creation may come in between |
| **Start and initialisation** (`AP/index.js:140-168`, `AP/scripts/init-db.js`, `AP/config/database.js`) | first rows of `users` and `tenant_admins` | connect, sync, initialise, listen | the portal and the script at once, a crash between the two inserts, failures that are swallowed |
| **HTML dashboard** (`AP/routes/dashboard.js`) | none | six pages after `optionalAuth`, two of them after a call to Hydra | a failing look-up makes a stranger of the caller |
| **Admin console** (`AR`) | `localStorage`, shared by all tabs; per page its form, list and timers | sign in and out, protected routes, lists with a form to add, settings | timers of earlier actions, answers that replace state, an exception after success |
| Login-consent backend, test client, deployment | none | - | - |

How they interact: every route of the portal goes through the authentication
middleware, which reads `tenant_admins`; the user and tenant routes and the
scripts share the PostgreSQL database; the client routes and the pages both talk
to Hydra, the first directly, the second through `/api` of the login-consent
backend, whose login, consent and logout routes are not there yet
(`services/login-consent-app/src/index.js:56-61`); the login page hands the
browser to the Azure routes, which come back to Hydra or to the page.

What makes each component correct:

- *User API*: an administrator of a tenant sees and writes rows of that tenant
  only, however requests interleave; usernames stay unique; e-mail addresses
  stay distinct in a tenant; concurrent changes of different columns do not undo
  each other; each request has at most one effect, all of it or nothing; every
  request is answered.
- *Tenants and onboarding*: slugs and domains stay unique; every tenant that can
  be seen has its branding; an entry reported as successful is complete; a PUT
  is applied as a whole; every job ends (no transaction stays open).
- *OAuth clients*: writes, late ones included, and answers stay within the
  caller's tenant; a success means exactly one effect and a refusal none; lists
  are complete.
- *Pages and Azure*: what is granted was requested, shown and ticked; a page
  waits for one call at a time and leaves only when its own request is decided;
  a challenge that goes to Azure comes back; spinners end.
- *Administrator accounts and start*: a reset that is reported lasts; an
  initialisation that went through leaves the first administrators, whatever
  crashed or ran beside it; only who was entitled gets a token, a page or a new
  account; every request, script and start ends.
- *Console*: a list loses nothing that was added to it; every spinner and message
  goes; a logout leaves the pages.

`PROJECT.json` lists the places of the code where these can go wrong
("hazards") with the properties that would notice.

## Modules

```
UserCalls ── UserRegistry                       the promise of the user API
    └─────── UserDirectory ── MCUserDirectory   the handlers, and UserRegistry as refinement
                    └──────── UserDirectoryProofs
TenantCalls ── TenantRegistry                   the promise of the tenant store
    └───────── Tenants ── MCTenants             tenant store, tenant API, onboarding scripts
                  └────── TenantsProofs
ClientCalls ── ClientRegistry                   the promise of the client API
    └───────── OAuthClients ── MCOAuthClients   client routes over Hydra
                   └────────── OAuthClientsProofs
AccountCalls ── AccountBook                     the promise about administrators
    └────────── AdminAccounts ── MCAdminAccounts   start, accounts, dashboard, scripts
                       └──────── AdminAccountsProofs
AdminConsole ── MCAdminConsole                  tabs, pages and timers of the console
    └────────── AdminConsoleProofs
Decisions                                       the promise of the pages
    └─────── LoginFlow ── MCLoginFlow           pages, Azure sign-in, Hydra's requests
                 └─────── LoginFlowProofs
```

Each abstract specification (`UserRegistry`, `TenantRegistry`, `ClientRegistry`,
`AccountBook`, `Decisions`) is what a caller may rely on without knowing of
accesses, calls, transactions or documents. The detailed module instantiates it
at its end, with a refinement mapping over its own variables, and the property
`Implements...` says that every behaviour of the detailed specification is one
of the abstract one. `AdminConsole` has none: nobody else relies on its state.

Each model makes one *access* of the code per step: a query of Sequelize, a
call to Hydra, a call of a page to `/api`. What runs between two awaits is one
step with the access before it. A definition whose comment begins with
"Mutant:" is not part of the model: it is a plausible slip of the code in the
definition that follows, kept to show that the properties notice it.

### UserCalls, UserRegistry, UserDirectory

`UserCalls` has the rows, the calls and the authority of an administrator
(`Target`, `MayTouch`). `UserDirectory` has one action for each access of a
handler: `RefuseUnauthenticated`, `RefuseRole`, `RefuseCall` and `Admit` are
`authenticate` and the checks of the body; `CheckUsername`, `CheckEmail`,
`Insert`/`InsertRejected` are POST; `RefuseMissing`, `RefuseForeignRow`, `Get`,
`Load` are the `findByPk` of the `/:id` routes with the tenant check and the
assignments that follow (`Edited`: `Amended`, `Rekeyed` or `Retired`); `Save`/`SaveRejected` is `save()`, which writes the
columns that the instance has changed and no others (`Dirty`, `Written`); `List`
is the list. `Fail` is an access that fails; an insert or save may commit and
still be answered 500 (a lost commit); `Crash` ends the process. A null tenant
does not filter (`InScope`), as in `models/user.js:84-105`.

State: `users` is the table, `active` the column of `tenant_admins`, and for
each slot of a concurrent request `pc` (the access it waits for), `call`, `doc`
(the loaded instance), `cols` (what its `save()` will write), `reply`, `shown`
(the rows in the answer). A slot is used again after its answer, so the number
of requests is not bounded, only how many are under way.

`UserRegistry` is the abstract specification: between its call and its answer a
request looks at the table once (`Look`) and changes it at most once, in one
step, as asked and within the caller's authority (`Enroll`, `Amend`). What it
sees when it looks binds it: the address of a create is not in use where the
create looks, which is every tenant when it is for none; a change draws up the
profile that it will write (`draft`). A refusal has a reason that holds when it is
told (`Refused`); the answer 2xx means that the change was made.
`ImplementsRegistry` is the refinement (`UserDirectory!Spec =>
UserRegistry!Spec`, with `phase` read off `pc` by `Progress` and `draft` off the
loaded instance by `Draft`). It is what a client may rely on without knowing of
accesses: no half-applied updates of columns, no resurrected rows, and no key of a
profile lost, no address given twice, unless another request wrote between one
look and one effect, or a PUT brought the address, for which nothing looks.

### TenantCalls, TenantRegistry, Tenants

`TenantCalls` has the calls, the entries of an import, who may make them and the
rows that they ask for. In `Tenants` a job is a request to the tenant API or a run of an onboarding script. Inside
a transaction, what the job wrote is in `pending`, unseen by others; statements
wait that want the same row or the same unique value (`WaitsFor`). `FindSlug`,
`InsertTenant`, `InsertBranding`, `Commit`, `Reread`, `InsertAdmin` are
`onboardTenant` over `createTenant` and `createTenantAdmin`; `NextEntry` is the
loop of `importTenantsFromFile` with what it skips; `UpdateTenant`,
`UpdateBranding`, `Commit` are PUT; `Delete` is DELETE. `Throw` is what a
failure does: roll back, and answer 500 or report the entry as failed. A PUT that
leaves its domain out (`Absent`) keeps it, one with `domain: null` takes it away
(`Updated`; Sequelize leaves `undefined` out of the update of `tenants.js:90`). A
`Commit` may be done and its answer lost; the read after the commit (`Reread`)
may fail, in which case `rollback()` throws on a finished transaction.
`create-tenant.js` is an import of one entry.

State: `tenants`, `brandings` and `admins` are what is committed; for each job
`pc`, `call`, `pending` (what its open transaction wrote), `outcomes` (of the
entries of an import) and `reply`.

`TenantRegistry` has no transactions and no locks: a tenant is one record, its
row with the looks of its brandings. It appears in one moment (`Found`), under a
slug and a domain that no other has at that moment; it changes in one moment
(`Amend`), as the PUT asks of the row as it is then; an entry appoints an
administrator only for the tenant that it has made (`Appoint`) and is `ok` only
after that. `GiveUp` and `Answer` allow a failure to be reported after the
effect, never a success before it. The refinement mapping is what other
connections see (`Visible`) and `Phase`, which reads off `pc` whether the entry
or the PUT at hand is committed. `ImplementsRegistry` says of PUT more than
`PutIsWhole`, which it replaces in the runs: row and branding change together,
and as asked.

### ClientCalls, ClientRegistry, OAuthClients

`ClientCalls` has the clients, the calls, the authority of an administrator and
the body as it is sent. In `OAuthClients` `Arrive` and the decision actions (`Admit`, `Forbid`, `Missing`, `Show`,
`Write`, `Written`, `List`) are the portal; `HydraReads`, `HydraWrites`,
`HydraRejects`, `HydraIsLate` are Hydra, which is external. `Timeout` is axios
giving up after five seconds; a write whose caller has gone may still be done,
any time later (`late`). `Sent` is the body as it is sent, with the tenant of the
caller put in. A client is *settled* (`Settled`) when nobody chooses its
client_id and no super-admin edits it; only for those does the code keep
tenants apart, and the isolation properties say so. `effects` is a history
variable: how often Hydra did what a request asks.

`ClientRegistry` has no calls to Hydra: a request looks at the clients at most
once before it decides (`Look`), what it saw then refuses it, is shown, or clears
it to write (`Clear`); a cleared request has one effect, after which its success
may be told (`TakeEffect`, `Confirm`), or finds that it cannot be done (`Miss`),
or is given up and leaves its write behind (`GiveUp`, `Settle`: at any later
time, once, or never). A list sees the first `Page` of all clients as they are at
that one moment and is answered with the caller's part of it. Authority is asked when the request looks, and for a
settled client it still holds when the effect comes (`Rightful`). In the mapping,
`seen` is the answer of Hydra that the portal has and not used, `owed` is `late`.

### LoginFlow

A tab holds a document (`page`): one of the three pages, Azure's, the callback
or none. `Open` loads a page with a challenge in its address; `Return` is the
continuation of a call; `SignIn`, `Toggle`, `Allow`, `SignOut`, `Reject`,
`GoToAzure` are the handlers; `Follow` is the browser obeying
`window.location.href`; `AzureFails`, `AzureBars`, `Callback`,
`CallbackReturns`, `AzureLogout` are `azure-routes.js` and its verify callback.
`Backend` is Hydra behind `/api`: it records a decision (`Record`) or refuses it
if there is no challenge; a request that is decided already may be refused or
decided again (`Outcome`); an answer may be lost. A decision sent by
a document that has gone may still arrive (`behind`, `BackendLate`).
`InFirstRender` is the value that handlers called from the first render's effect
see: `''`.

`Decisions` has no documents, forms or calls. A tab visits the request of one
challenge; it may be shown it (`See`), decides one thing at a time and nothing
after it has been told to go on (`Decide`), and grants only scopes that were
requested, of a request that it was shown; Hydra takes up what was decided, and
what a former visit left behind (`Hear`, `HearLate`); with Azure, a person who
is not barred decides on the request that was brought last (`Bring`, `ComeBack`).
The mapping reads a tab's visit off its address, or off what the callback holds,
and its decision off the call it waits for. `SkipAccept`, which sends no
challenge, decides nothing: it maps to a stutter.

### AccountCalls, AccountBook, AdminAccounts

`AccountCalls` has the accounts, the calls and what the code derives from them:
the address and password (`Address`, `Secret`; fixed ones for the scripts), the
role that is asked for (`RoleFor`), the roles that are let in
(`AllowedRoles`). `AdminAccounts` starts from an empty database. A job is a
request, a script or a start of the portal: `Sync`, `FindSuper`, `CreateUser`,
`InsertAdmin` are `init()` of `index.js` over `initDb`, or the script
`init-db.js`, which has no `Sync`; `Lookup`, `SaveLogin` are
`authenticateAdmin` for `POST /auth/login` and `test-auth.js`; `Authenticate`
is the middleware with what the handlers of `auth.js` check before their
access; `InsertAdmin` is `createTenantAdmin` for all who call it; `ViewPage`,
`Home`, `ClientDetail` are the dashboard; `FindHalf`, `SaveHalf`, `FailHalf`,
`Summarise` are the two functions that `reset-password.js` runs concurrently.
`Throw` is what an exception comes to, which differs (`Report`): a 500, an exit
code, a start that listens all the same, an error that `init-db.js` logs
(`"swallowed"`), a page as for a stranger. `TakeName` and `GiveName` are what
users may do meanwhile: take the name `admin`, and give it back by a PUT. A
super-admin's own row is not renamed, or deactivated, here.

State: `accounts` is `tenant_admins` by address, `tokens` the accounts that have
ever got a token (it is not taken back), `holder` who has the unique name
`admin` in `users`, `synced` whether the tables exist, `serving` whether the
portal listens; for each slot `pc`, `call`, `doc` (the loaded instance),
`halves` and `reply`. The rest of `users` is in `UserDirectory`, the tenants of
onboarding in `Tenants`.

`AccountBook` is the abstract specification: a call is asked, its caller becomes
entitled at some moment before the answer, and then an account appears whole and
by authority, a token is had or a page shown; a password changes only by a
reset. `ImplementsBook` is the refinement, with `phase` read off `pc`
(`Progress`). It says what a sign-in that races a reset or a deactivation may
come to: a token for who knew the password after asking, never for others.

### AdminConsole

The console as it is built: all its data are mocks, every answer of a server is
a timer. `token` is `localStorage`, shared by the tabs. In each tab `place` is
what the document shows (`"checking"` is `ProtectedRoute`), `view` the route,
`page` the state of the mounted page, `logouts` the clicks on Logout whose timer
runs. One record stands for the state of all four pages, since at most one is
mounted; `Mount` replaces it. `SignIn` ends in an error also when the name and
password are right (below). `Hide` is the timer that a message started; there
may be one of an earlier message.

## Runs

Expected to pass (TLC explores every reachable state of the instance):

| run | instance | distinct states | shows |
|---|---|---|---|
| `users_meeting` | 2 requests (symmetric), 2 rows, 2 tenants, 9 calls that meet on names, an address, one row and two keys of its profile; failing accesses, lost commits, crashes | 256,000 | `TypeOK`, `RequestsSound` (what a request has passed still holds when it writes), `UsernamesUnique`, `ShownInTenant`, `WritesInTenant`, `RowsStay`, `ColumnsAsAsked`, `ImplementsRegistry` |
| `users_serial` | 1 request at a time, every way to be refused, an administrator of no tenant, deactivation of another, failing accesses, crashes; fair | 50,000 | `KeysAsAsked` (true only of requests one after another), `ImplementsRegistry` (with creates for no tenant, whose look-ups search all), `EveryRequestEnds`, `DeactivationDrains` |
| `tenants` | 2 jobs, 2 tenants, imports of two entries, PUTs of both domain and branding, of branding alone and of a null domain, one refused, DELETE, POST; failing accesses, lost commits, crashes; fair | 176,000 | `TypeOK`, `NamesUnique`, `OneBrandingEach`, `OkMeansComplete`, `ImplementsRegistry`, `EveryJobEnds` |
| `clients` | 2 requests, client 1 moved by a super-admin, client 2 settled; changes, reads and lists of a page that is shorter than the clients; timeouts, late writes, crashes; fair | 218,000 | `TypeOK`, `AnswersInTenant`, `AnswersTruthful`, `WritesInTenant`, `ImplementsRegistry`, `EveryRequestEnds` |
| `login_pages` | 1 tab; a login, a logout, a consent for two scopes, a consent without any that skips; calls fail or lose their answer, one decision behind; fair | 370,000 | `TypeOK`, `OneCall`, `GrantsTicked`, `ImplementsDecisions`, `SpinnersEnd` |
| `login_azure` | 2 tabs (symmetric), 2 logins, 2 people of whom Azure's list bars one | 1,084,000 | `ChallengeKept`, `LeavesDecided` |
| `accounts` | 2 jobs: one of requests by three accounts, one of starts, scripts and the sign-ins that race them; from an empty database, one account that may be deactivated, the name `admin` that a user may take and give back; failing accesses, lost commits, crashes; fair | 163,000 | `TypeOK`, `ResetsStick`, `FirstAdmin`, `ImplementsBook`, `EveryJobEnds` |
| `console` | 2 tabs, in one everything, in the other sign-in, pages and sign-out; right and wrong input; fair | 32,000 | `TypeOK`, `RowsKept`, `WaitsEnd` |

Expected to find a violation, each of what a comment or a document says:

| run | property | what happens |
|---|---|---|
| `users_email_race` | `EmailsDistinctInTenant` | two concurrent creates both find the address free (`users.js:69`) and both insert: no index backs the check |
| `tenants_orphan` | `NoOrphans` | the administrator's address is in use: `createTenant` has committed when `createTenantAdmin` fails; the tenant stays without an administrator and a corrected repetition is refused because the slug exists |
| `clients_page` | `ListIsAll` | two tenants have three clients and a page holds two: the page is full of one tenant's clients, and the other's administrator, with nobody else asking, is shown none of its own (`hydra.js:44, 112`; "List all clients for a specific tenant", line 104) |
| `login_skip` | `AcceptsOwn` | with `skip` set, the pages accept the challenge `''` of the first render |

Deadlock is checked in every run.

### Bounds, and why they are enough

- *Slots.* Two requests, jobs or tabs under way at once: every property relates
  one actor to one other (check and write of one, a write of another between).
  Slots are reused without limit.
- *Rows.* `Ids` bounds the tables. There are as many keys as usernames or slugs,
  so `users` and `tenants` are never too full for an insert that the indexes
  would allow; Hydra refuses a client when the keys are used up. Two rows are
  what uniqueness and isolation need, three clients what `PageLimit` needs.
- *Values.* Two of each kind that can collide (tenants, usernames, addresses,
  slugs, domains, scopes), one or two contents.
- *Calls.* Each run names the calls that clients make (`MC*` modules): those
  that meet on the same keys, and, in `users_serial`, one for every refusal.
- *Faults.* `Faults` names what may go wrong: `access` (an access fails),
  `commit` (it is done and the answer lost), `crash`; `timeout`, `late` (Hydra
  does a write that its caller has given up) and `crash` for Hydra; `down` and
  `lost` for the pages.
- *Accounts.* Each slot has calls of its own (`MCCalls`): what can meet is a
  request with a script or a start. Every pair that shares a row or an address is
  there: a sign-in and a reset, two initialisations, a creation and onboarding.
- *Console.* `Bounds` per tab: one row more than the mocks, two messages (a save
  takes 1.5 seconds and a message 3, so that no third can start before the first
  has gone), two clicks on Logout.
- *Late writes.* One abandoned write per slot (`late`), `MaxBehind` abandoned
  decisions for the pages.
- *`PageLimit`* is 100 in the code. In the runs it is smaller than the number of
  clients (1 of 2, 2 of 3), so that lists are cut as they are beyond 100.
- *Slots of the client API.* Each slot has calls of its own (`Asks`): one makes the
  clients, moves one and deletes the other, the second edits, reads and lists them.
- *Symmetry* of the requests in `users_meeting` and of the tabs in `login_azure`,
  which check no liveness; nothing tells the slots apart.

### Fairness

- *Users:* weak fairness of each request's steps: Node's event loop runs every
  continuation and the driver settles every query. A failing access (`Fail`) is
  not fair: a handler may not rely on a failure to get out of a wait.
- *Tenants:* strong fairness of each job's steps, since a step may be enabled
  and disabled again by other transactions that take the same lock; PostgreSQL
  serves the waiters of a lock in order. `Fail` is not fair: a statement that
  waits for a lock may wait for ever.
- *Clients:* weak fairness of the portal's steps, and of axios' timer while Hydra
  has not answered (`resp[r] = None /\ Timeout(r)`). Nothing is assumed of Hydra.
- *Login:* weak fairness of the calls' ends (nginx answers 504 when the backend
  does not), of continuations, and of the browser following a redirect. Nothing
  is assumed of the person.

- *Accounts:* weak fairness of each job's steps, and of the failure of a reset
  when the tables are missing: then every access fails, and that is an answer.
- *Console:* weak fairness of the timers. One that a page has set counts only
  while that page is mounted: who goes to and fro faster than a second sees
  nothing but spinners, so `Fetch` is fair for each view by itself. `Leave` drops
  the timers with the document.

Arrivals, faults, deactivations and whatever a person does are never fair.

## Proofs

TLAPS proves, for all values of the constants that satisfy the named
assumptions (that `None` and `Absent` are no proper values, that roles, tenants
and calls have their types, that faults are among those named):

- `UserDirectoryProofs`: `TypeCorrect`, `Invariance`, `UsernamesStayUnique`,
  `AnswersStayInTenant`, `WritesStayInTenant`, `RowsStayed`,
  `ColumnsChangeAsAsked` and `Implementation` (the refinement of
  `UserRegistry`). The inductive invariant is `TypeOK /\ RequestsSound`: a
  request waiting for its insert may create in its target tenant, one waiting
  for its save has loaded a row that its administrator may touch, and what it
  is about to write is what was asked. It is needed because authority is
  checked at one access and used at a later one; it survives the steps of others
  because rows never change tenant. Uniqueness of usernames follows from the
  guard of the index, not from the handler's check.
  For `Implementation` the instance that a request has loaded is tied to the
  profile drawn up at its look (`DraftIs`), which no step of others touches; a
  refusal for a name or address in use is the row that the look-up finds
  (`UsernameUsed`, `EmailUsed`), and the address of a create that goes on was free
  at that step. None of the theorems assumes that requests come one at a time.
- `OAuthClientsProofs`: `TypeCorrect`, `Invariance` (`RequestsSound`),
  `AnswersStayInTenant`, `AnswersAreTruthful`, `TenantsStay`,
  `WritesStayInTenant`. The invariant says that a write to a settled client that
  is asked for, or given up and late, is for a client of its caller's tenant if
  the client is still there: a client_id that Hydra generated is not used again,
  so a late write to a deleted client finds nothing. `effects` is tied to the
  place of the request, which gives `AnswersTruthful`.
  `Implementation` is the refinement of `ClientRegistry`. It needs also what a
  request has passed (`AllPassed`): who waits for Hydra was entitled, an answer of
  Hydra is there only while somebody waits for it, and whoever left a write behind
  had a role that may write; `Rightful`, the authority at the moment of an effect,
  is `RequestsSound` for settled clients.
- `TenantsProofs`: `TypeCorrect`, `NamesAreUnique`, `OneBranding`,
  `SuccessIsComplete`, `PutsAreWhole`, `Implementation` (the refinement of
  `TenantRegistry`). Uniqueness of what is committed is not
  inductive: a commit brings in values that were free when they were written. The
  invariant says that they still are: what an open transaction wrote agrees with
  the place of its job and with what its call asks (`Written`), its values are
  apart from those of the tables, and any two transactions are apart from each
  other (`Locked`), since a statement waits until its values and its row are
  free. A success of onboarding stays true because no tenant, slug or
  administrator is ever taken back. `OneBranding`, `PutsAreWhole` and
  `Implementation` assume that no call names a `tenantId` inside its branding
  section (`NoOwners`), without which they are false. For the refinement a
  transaction's branding is tied to its call as its row is (`Branded`), so that
  its commit is one `Found` or `Amend`; every step before the commit, and a
  rollback, is a stutter, or the failure of an entry or a request.
- `AdminAccountsProofs`: `TypeCorrect`, `ResetSticks`, `FirstAdminExists`,
  `Implementation` (the refinement of `AccountBook`). The invariant (`Sound`)
  ties a job's place to what it has passed: who waits to insert an account for a
  request has a token and a role that allows it, and both outlive whatever
  others do; an initialisation that waits for its second insert has a super-admin
  in `users`. An address whose reset is reported has the standard password, which
  a sign-in's save leaves alone because it writes only `lastLogin`.
- `AdminConsoleProofs`: `TypeCorrect`, `RowsAreKept`. The invariant says that
  while a page is loading its list is empty and no form is open, so that the
  fetch, which replaces the list, replaces nothing; and that the ids of the rows
  are their places.
- `LoginFlowProofs`: `Invariance` (`TypeOK /\ FlowSound`), `TypeCorrect`,
  `OneCallAtATime`, `GrantsAreTicked`, `LeavesWhenDecided`, `ChallengesKept`.
  `FlowSound` says of each document that its state is about the challenge of its
  address, that its buttons are hidden while it waits, that a leaving page's
  request is decided, and that whatever is on its way to Hydra grants what was
  ticked. `Implementation` is the refinement of `Decisions`; besides `FlowSound`
  it needs that what is on its way without a document is a decision that Hydra
  has not answered (`BehindUndone`). A document that is replaced, by a reload, a
  redirect or another address, is a visit that is over and whose decision may
  come late.

Only model-checked: the liveness properties (`EveryRequestEnds`, `EveryJobEnds`,
`DeactivationDrains`, `SpinnersEnd`, `WaitsEnd`: fairness and ENABLED are outside
the prover's reach), and `KeysAsAsked`, which is false of concurrent requests;
what remains true of them is in `UserRegistry` and proved. Every other invariant
and action property of a passing run is stated by a theorem, `OneBrandingEach` and the `ImplementsRegistry` of
`Tenants` under the hypothesis named above. `RequestsSound` of `OAuthClients`,
`FlowSound`, `PutIsWhole` and `TenantStays` are proved and not run: the first two
are inductive invariants, whose meaning for a caller the refinements state, and
the refinements say more than the others. `EmailsDistinctInTenant`, `NoOrphans`,
`ListIsAll` and `AcceptsOwn` are violated, as the runs show.

## Other disagreements between code and documents

Seen while modelling, not given a run:

- `users.js:62` checks the username "in the tenant", the index is over all
  tenants (`models/user.js:30`): a name that another tenant uses is answered 500,
  not the 409 of `docs/api-docs.md:872`.
- `tenants.js:141-143` "soft delete": it sets `active`, a column that `Tenant`
  does not have, and answers 204; the tenant is as before.
- `tenants.js:32`: POST passes no slug, which is mandatory
  (`models/tenant.js:24`): every creation is answered 500.
- `models/tenant.js:267` and the PUT of a branding: a `tenantId` inside the
  branding section wins and moves the branding to that tenant (`owner` in
  `Tenants`; `OneBrandingEach` is about calls without it).
- `clients.js:175`: a client deleted between check and write makes the answer
  500, not 404.
- `README.md:72` and `docs/business-customer-onboarding.md:103` call
  `create-tenant.js` without `--slug` and with `--adminPassword`; the script
  requires `--slug` and `--adminPass`.
- `clients.js:101` "only their tenant's clients": the tenant is checked on a copy
  read earlier (lines 111, 175) and Hydra writes unconditionally, so a client
  that a super-admin moves in between is changed by, and for PUT moved back to,
  its former tenant. The properties of `OAuthClients` are therefore about settled
  clients.
- `azure-routes.js:99` "Accept the login request with Hydra using the user's
  profile": the challenge is the session's one (lines 46, 67, 93). With two tabs
  at Azure, the person who returns in the first is accepted for the request of
  the second.
- `README.md:59-61` initialises the database with `reset-password.js`, which only
  resets accounts that exist. `DEFAULT_ADMIN_PASSWORD` (`README.md:127`) is read
  by `init-db.js:12` and never used: the password is `Password123!`.
- `init-db.js:30`: when an ordinary user has the name `admin` before there is a
  super-admin, every initialisation fails and none reaches the account.
- `init-db.js:50`: an account with the default address that onboarding has made
  stays an administrator of its tenant; the initialisation says "completed
  successfully". It says so too when the account could not be made at all
  (`"swallowed"` in the model).
- A token is good for seven days whatever becomes of the password (`auth.js:50`
  looks only at `active`); a sign-in that has checked the old password gets its
  token after the reset.
- `dashboard.js` renders `tenants`, `clients`, `branding`, `users` and
  `client-detail`, and `express-handlebars` wants a layout `main`: none of these
  is in `AP/views`, so that pages end in an error after the checks that the model
  has.
- `AR/App.js:54`: the console's login page is used without the
  `setIsAuthenticated` that it calls (`LoginPage.js:34`). A right password stores
  the token and shows "Authentication failed"; going to `/` by hand then works.
- `AR/pages/SettingsPage.js:81`: "Settings saved successfully!" although nothing
  is saved. The message of a second save within three seconds is hidden early, by
  the timer of the first.
- `AR/pages/ClientsPage.js:115`: the description that was typed is dropped; the
  edit and delete buttons of the lists have no handlers.
- `AR/App.js:35`: the token is looked at once for each document; after a logout
  the other tabs go on showing their pages.

## Not modelled

- The read-only routes of tenants: they change nothing.
- The login-consent backend (a health check, its routes are commented out), the
  test client, the deployment: they have no behaviour of their own.
- Passwords and hashes, tokens' signatures and the seven days they last,
  `lastLogin`, pagination and sorting of users, texts and layout. A token is the
  administrator it names.
- Two requests of one browser that load and save the session of the Azure routes
  at the same time: how they overlap is decided inside `express-session` and its
  store, neither of which the repository configures here; in the model the
  session is read and written in one step of a request.
- A POST to Hydra that timed out and is repeated without a `client_id` may create
  two clients (`hydra.js:15`). Both are in `OAuthClients`; no property forbids
  it, since nothing in the repository promises otherwise.
- What the view engine makes of a page of the dashboard.
- Of the console: `refreshToken`, `getCurrentUser`, `getToken` and
  `getAuthStatus`, which nothing calls; the browser's back button, which mounts
  pages as `Navigate` and `Open` do; the real lengths of timers.
- Development builds of the React programs, in which effects run twice.

## Plan

Done: `UserDirectory`, `Tenants`, `OAuthClients`, `LoginFlow` and `AdminAccounts`
with their abstract specifications, `AdminConsole`, and the proofs of each. Worth
stating next:

1. what the refinements give a caller, as theorems of the abstract
   specifications (of `TenantRegistry`: slugs stay unique, an `ok` is a tenant
   with an administrator), to be carried over to the detailed ones;
2. a session that two Azure callbacks load and save concurrently, once its store
   is configured.
