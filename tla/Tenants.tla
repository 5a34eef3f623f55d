------------------------------ MODULE Tenants ------------------------------
(***************************************************************************)
(* Tenants, their branding and their first administrators: createTenant    *)
(* and createTenantAdmin (models/tenant.js), POST, PUT and DELETE of       *)
(* routes/api/tenants.js, and the onboarding scripts create-tenant.js      *)
(* (an import of one entry) and bulk-import-tenants.js.                    *)
(*                                                                         *)
(* A job is a request to the portal or a run of a script; it makes one     *)
(* database access per step.  Inside a transaction what it wrote is in     *)
(* pending: not seen by others, but PostgreSQL makes a statement wait that *)
(* would write the same row or the same unique value (models/tenant.js:25, *)
(* 30) until the transaction ends.  A rollback is one step with the        *)
(* failure it answers.  authenticate is in UserDirectory.                  *)
(***************************************************************************)
EXTENDS TenantCalls

CONSTANT Faults    \* what may go wrong around the jobs

ASSUME FaultAssumption == Faults \subseteq {"access", "commit", "crash"}

VARIABLES
    tenants,    \* committed rows, by key
    brandings,  \* committed rows, by the key of the tenant made with them
    admins,     \* tenant_admins: the tenant of each e-mail address
    pc, call,
    pending,    \* the rows a job's transaction has written, or None
    outcomes,   \* the results of an import, entry by entry
    reply       \* the status of an answer; 0 when a script has reported

tables == <<tenants, brandings, admins>>
vars == <<tenants, brandings, admins, pc, call, pending, outcomes, reply>>

BrandRow  == [owner : Ids, look : Looks]
Pending   == [id : Ids, row : TenantRow,
              brands : UNION {[S -> BrandRow] : S \in SUBSET Ids}]
Codes     == {200, 201, 204, 403, 404, 500, 0}
InTransaction == {"insertBranding", "updateBranding", "commit"}
Working == InTransaction \cup
    {"start", "entry", "findSlug", "insertTenant", "insertAdmin", "reread",
     "updateTenant", "delete"}

ASSUME PendingAssumption == None \notin Pending

----------------------------------------------------------------------------

\* f with the rows of g added, or in place of its own.
Upsert(f, g) ==
    [i \in DOMAIN f \cup DOMAIN g |-> IF i \in DOMAIN g THEN g[i] ELSE f[i]]

Single(i, row) == [k \in {i} |-> row]
Nothing == [k \in {} |-> None]

\* Mutant: domain is not unique.
TakenSlug(i, row) ==
    \E j \in DOMAIN tenants \ {i} : tenants[j].slug = row.slug

\* The unique indexes, over the committed rows other than row i.
Taken(i, row) ==
    \E j \in DOMAIN tenants \ {i} :
        tenants[j].slug = row.slug \/ Same(tenants[j].domain, row.domain)

\* Writing row i must wait for a transaction that wrote it, or that wrote or
\* gives up one of its unique values.
WaitsFor(i, row, q) ==
    /\ pending[q] # None
    /\ \/ pending[q].id = i
       \/ pending[q].row.slug = row.slug
       \/ Same(pending[q].row.domain, row.domain)
       \/ /\ pending[q].id \in DOMAIN tenants
          /\ Same(tenants[pending[q].id].domain, row.domain)

Free(j, i, row) == \A q \in Jobs \ {j} : ~ WaitsFor(i, row, q)

\* The entry a job is at: after those that have a result.
Current(j) == call[j].entries[Len(outcomes[j]) + 1]

\* The tenant that onboarding has made; a slug never changes.
Onboarded(j) == CHOOSE i \in DOMAIN tenants : tenants[i].slug = Current(j).slug

----------------------------------------------------------------------------

Init ==
    /\ tenants = Nothing
    /\ brandings = Nothing
    /\ admins = Nothing
    /\ pc = [j \in Jobs |-> "idle"]
    /\ call = [j \in Jobs |-> CHOOSE c \in Calls : TRUE]
    /\ pending = [j \in Jobs |-> None]
    /\ outcomes = [j \in Jobs |-> <<>>]
    /\ reply = [j \in Jobs |-> None]

Goto(j, label) == pc' = [pc EXCEPT ![j] = label]

\* The job ends; a transaction that is open is rolled back.
Reply(j, code) ==
    /\ Goto(j, "done")
    /\ reply' = [reply EXCEPT ![j] = code]
    /\ pending' = [pending EXCEPT ![j] = None]
    /\ UNCHANGED <<call, outcomes>>

\* The import goes on with the next entry, in a transaction no more.
EndEntry(j, result) ==
    /\ Goto(j, "entry")
    /\ outcomes' = [outcomes EXCEPT ![j] = Append(@, result)]
    /\ pending' = [pending EXCEPT ![j] = None]
    /\ UNCHANGED <<call, reply>>

\* Mutant: the catch clause of PUT does not roll back.
ThrowOpen(j) ==
    IF call[j].op = "import" THEN EndEntry(j, "failed")
    ELSE Goto(j, "done") /\ UNCHANGED <<call, pending, outcomes, reply>>

\* An exception: caught for the entry, or passed to the error handler.
Throw(j) ==
    IF call[j].op = "import" THEN EndEntry(j, "failed") ELSE Reply(j, 500)

Start(j) ==
    /\ pc[j] \in {"idle", "done"}
    /\ \E c \in Calls : call' = [call EXCEPT ![j] = c]
    /\ Goto(j, "start")
    /\ outcomes' = [outcomes EXCEPT ![j] = <<>>]
    /\ reply' = [reply EXCEPT ![j] = None]
    /\ UNCHANGED <<tables, pending>>

Dispatch(j) ==
    /\ pc[j] = "start"
    /\ IF Allowed(call[j])
       THEN /\ Goto(j, CASE call[j].op = "post"   -> "insertTenant"
                         [] call[j].op = "put"    -> "updateTenant"
                         [] call[j].op = "delete" -> "delete"
                         [] call[j].op = "import" -> "entry")
            /\ UNCHANGED <<call, pending, outcomes, reply>>
       ELSE Reply(j, 403)
    /\ UNCHANGED tables

\* importTenantsFromFile: the loop over the entries.
NextEntry(j) ==
    /\ pc[j] = "entry"
    /\ IF Len(outcomes[j]) = Len(call[j].entries)
       THEN Reply(j, 0)
       ELSE IF Valid(Current(j))
       THEN Goto(j, "findSlug") /\ UNCHANGED <<call, pending, outcomes, reply>>
       ELSE EndEntry(j, "failed")
    /\ UNCHANGED tables

\* onboardTenant: the slug must not be in use.
FindSlug(j) ==
    /\ pc[j] = "findSlug"
    /\ IF \E i \in DOMAIN tenants : tenants[i].slug = Current(j).slug
       THEN EndEntry(j, "failed")
       ELSE Goto(j, "insertTenant") /\ UNCHANGED <<call, pending, outcomes, reply>>
    /\ UNCHANGED tables

\* createTenant: BEGIN and the first INSERT; slug must not be null.
InsertTenant(j) ==
    /\ pc[j] = "insertTenant"
    /\ LET row == Created(Current(j))
           keys == Ids \ (DOMAIN tenants \cup
                          {pending[q].id : q \in {p \in Jobs : pending[p] # None}})
       IN  /\ Free(j, None, row)
           /\ IF row.slug = None \/ Taken(None, row) \/ keys = {}
              THEN Throw(j)
              ELSE \E i \in keys :
                     /\ pending' = [pending EXCEPT ![j] =
                            [id |-> i, row |-> row, brands |-> Nothing]]
                     /\ Goto(j, "insertBranding")
                     /\ UNCHANGED <<call, outcomes, reply>>
    /\ UNCHANGED tables

\* The transaction writes the rows keys of tenant_brandings; they refer to a
\* tenant (tenant.js:69).
WriteBranding(j, keys, owner, look) ==
    /\ IF owner \in DOMAIN tenants \cup {pending[j].id}
       THEN /\ pending' = [pending EXCEPT ![j].brands =
                   [k \in keys |-> [owner |-> owner, look |-> look]]]
            /\ Goto(j, "commit")
            /\ UNCHANGED <<call, outcomes, reply>>
       ELSE Throw(j)
    /\ UNCHANGED tables

\* Mutant: branding only "if provided" (models/tenant.js:266).
SkipBranding(j) ==
    /\ pc[j] = "insertBranding" /\ Goto(j, "commit")
    /\ UNCHANGED <<tables, call, pending, outcomes, reply>>

InsertBranding(j) ==
    /\ pc[j] = "insertBranding"
    /\ LET i == pending[j].id
       IN  WriteBranding(j, {i}, Given(Current(j).owner, i), Current(j).look)

\* PUT: Tenant.update, TenantBranding.update, commit.
UpdateTenant(j) ==
    /\ pc[j] = "updateTenant"
    /\ LET i == call[j].id
       IN  IF i \notin DOMAIN tenants
           THEN Reply(j, 404)
           ELSE LET row == Updated(tenants[i], call[j])
                IN  /\ Free(j, i, row)
                    /\ IF Taken(i, row)
                       THEN Throw(j)
                       ELSE /\ pending' = [pending EXCEPT ![j] =
                                   [id |-> i, row |-> row, brands |-> Nothing]]
                            /\ Goto(j, IF call[j].look = None THEN "commit"
                                       ELSE "updateBranding")
                            /\ UNCHANGED <<call, outcomes, reply>>
    /\ UNCHANGED tables

\* Mutant: the update has no `where`.
UpdateBrandings(j) ==
    /\ pc[j] = "updateBranding"
    /\ WriteBranding(j, DOMAIN brandings, call[j].id, call[j].look)

UpdateBranding(j) ==
    /\ pc[j] = "updateBranding"
    /\ LET c == call[j]
           keys == {k \in DOMAIN brandings : brandings[k].owner = c.id}
       IN  WriteBranding(j, keys, Given(c.owner, c.id), c.look)

Commit(j) ==
    /\ pc[j] = "commit"
    /\ tenants' = Upsert(tenants, Single(pending[j].id, pending[j].row))
    /\ brandings' = Upsert(brandings, pending[j].brands)
    /\ \/ /\ Goto(j, "reread")
          /\ pending' = [pending EXCEPT ![j] = None]
          /\ UNCHANGED <<call, outcomes, reply>>
       \/ "commit" \in Faults /\ Throw(j)
    /\ UNCHANGED admins

\* getTenantById after the commit.  If it fails, so does the rollback of a
\* transaction that is finished, and the caller hears of a failure.
Reread(j) ==
    /\ pc[j] = "reread"
    /\ IF call[j].op = "import"
       THEN Goto(j, "insertAdmin") /\ UNCHANGED <<call, pending, outcomes, reply>>
       ELSE Reply(j, IF call[j].op = "post" THEN 201 ELSE 200)
    /\ UNCHANGED tables

\* Mutant: an address in use is not an error.
KeepAdmin(j) ==
    /\ pc[j] = "insertAdmin"
    /\ admins' = Upsert(Single(Current(j).email, Onboarded(j)), admins)
    /\ EndEntry(j, "ok")
    /\ UNCHANGED <<tenants, brandings>>

\* createTenantAdmin; the address is unique over all tenants (tenant.js:195).
InsertAdmin(j) ==
    /\ pc[j] = "insertAdmin"
    /\ LET e == Current(j)
       IN  IF e.email \in DOMAIN admins
           THEN EndEntry(j, "failed") /\ UNCHANGED admins
           ELSE /\ admins' = Upsert(admins, Single(e.email, Onboarded(j)))
                /\ \/ EndEntry(j, "ok")
                   \/ "commit" \in Faults /\ EndEntry(j, "failed")
    /\ UNCHANGED <<tenants, brandings>>

\* Tenant.update({ active: false }): the table has no such column, so the
\* statement only sets updatedAt.
Delete(j) ==
    /\ pc[j] = "delete"
    /\ IF call[j].id \in DOMAIN tenants
       THEN /\ \A q \in Jobs \ {j} : pending[q] # None => pending[q].id # call[j].id
            /\ Reply(j, 204)
       ELSE Reply(j, 404)
    /\ UNCHANGED tables

\* An access fails; an open transaction is rolled back.
Fail(j) ==
    /\ "access" \in Faults
    /\ pc[j] \in Working \ {"start", "entry"}
    /\ Throw(j)
    /\ UNCHANGED tables

\* The process of the job dies; PostgreSQL rolls its transaction back.
Crash(j) ==
    /\ "crash" \in Faults
    /\ pc[j] \in Working
    /\ Goto(j, "idle")
    /\ pending' = [pending EXCEPT ![j] = None]
    /\ UNCHANGED <<tables, call, outcomes, reply>>

Step(j) ==
    \/ Dispatch(j) \/ NextEntry(j)
    \/ FindSlug(j) \/ InsertTenant(j) \/ InsertBranding(j) \/ Commit(j)
    \/ Reread(j) \/ InsertAdmin(j)
    \/ UpdateTenant(j) \/ UpdateBranding(j) \/ Delete(j)

Next == \E j \in Jobs : Start(j) \/ Step(j) \/ Fail(j) \/ Crash(j)

Spec == Init /\ [][Next]_vars

\* Strong fairness: PostgreSQL grants a lock in the order of the waiters.  A
\* statement that waits need not fail.
FairSpec == Spec /\ \A j \in Jobs : SF_vars(Step(j))

----------------------------------------------------------------------------

TypeOK ==
    /\ DOMAIN tenants \subseteq Ids /\ tenants \in [DOMAIN tenants -> TenantRow]
    /\ DOMAIN brandings \subseteq Ids /\ brandings \in [DOMAIN brandings -> BrandRow]
    /\ DOMAIN admins \subseteq Emails /\ admins \in [DOMAIN admins -> DOMAIN tenants]
    /\ pc \in [Jobs -> Working \cup {"idle", "done"}]
    /\ call \in [Jobs -> Call]
    /\ pending \in [Jobs -> Pending \cup {None}]
    /\ outcomes \in [Jobs -> Seq({"ok", "failed"})]
    /\ \A j \in Jobs :
          /\ pending[j] # None <=> pc[j] \in InTransaction
          /\ Len(outcomes[j]) <= Len(call[j].entries)
    /\ reply \in [Jobs -> Codes \cup {None}]

\* No two tenants share a slug or a domain, although onboardTenant looks in
\* one access and inserts in another (create-tenant.js:23, 30) and PUT does
\* not look at all.
NamesUnique ==
    \A i, j \in DOMAIN tenants :
        \/ tenants[i].slug = tenants[j].slug
        \/ Same(tenants[i].domain, tenants[j].domain)
        => i = j

BrandingsOf(i) == {k \in DOMAIN brandings : brandings[k].owner = i}

\* A tenant has one branding whenever it can be seen, whatever fails between
\* the two inserts of createTenant (Tenant.hasOne(TenantBranding)).
OneBrandingEach ==
    \A i \in DOMAIN tenants : \E k \in Ids : BrandingsOf(i) = {k}

\* No call carries a tenantId inside its branding.
NoOwners ==
    \A c \in Calls : c.owner = None /\
        \A n \in 1..Len(c.entries) : c.entries[n].owner = None

\* An entry reported as successful is a whole tenant: the row, its branding
\* and its own administrator, whatever other jobs did meanwhile.
OkMeansComplete ==
    \A j \in Jobs : \A n \in 1..Len(outcomes[j]) : outcomes[j][n] = "ok" =>
        LET e == call[j].entries[n]
        IN  \E i \in DOMAIN tenants :
               /\ tenants[i].slug = e.slug
               /\ NoOwners => BrandingsOf(i) # {}
               /\ e.email \in DOMAIN admins /\ admins[e.email] = i

\* A tenant that can be seen changes only by the commit of a PUT, which
\* applies all of it, to the row as it is then, and never to another tenant.
PutIsWhole ==
    [][\A i \in DOMAIN tenants :
          \/ tenants'[i] # tenants[i]
          \/ \E k \in BrandingsOf(i) : brandings'[k] # brandings[k]
          => \E j \in Jobs :
                /\ pc[j] = "commit" /\ call[j].op = "put" /\ call[j].id = i
                /\ call[j].by \in {Root, i}
                /\ tenants'[i] = Updated(tenants[i], call[j])
                /\ call[j].look # None =>
                      \A k \in BrandingsOf(i) : brandings'[k].look = call[j].look]_vars

\* Every job of a living process comes to its end: no path leaves a
\* transaction open on which the others wait.
EveryJobEnds == \A j \in Jobs : pc[j] \in Working ~> pc[j] \notin Working

\* "Create a new tenant with branding and admin user" (create-tenant.js:12):
\* when nothing runs and nothing failed, a tenant has an administrator.
NoOrphans ==
    (\A j \in Jobs : pc[j] \in {"idle", "done"}) =>
        \A i \in DOMAIN tenants : \E e \in DOMAIN admins : admins[e] = i

\* What can be seen of the tenants, and of the jobs: the registry.
Visible ==
    [i \in DOMAIN tenants |->
        [row |-> tenants[i], looks |-> {brandings[k].look : k \in BrandingsOf(i)}]]
Phase ==
    [j \in Jobs |-> CASE pc[j] = "idle" -> "idle"
                      [] pc[j] = "done" -> "answered"
                      [] pc[j] \in {"reread", "insertAdmin"} -> "made"
                      [] OTHER          -> "asked"]

Registry == INSTANCE TenantRegistry WITH tenants <- Visible, phase <- Phase

\* The store keeps the promise of TenantRegistry: no other job ever sees a
\* tenant without its branding or half of a PUT, an entry is "ok" only if it
\* made its tenant and its administrator itself, and a 200 is told after the
\* change, whatever fails between the accesses of a transaction.
ImplementsRegistry == Registry!Spec
=============================================================================
