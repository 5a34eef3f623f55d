---------------------------- MODULE TenantCalls ----------------------------
(***************************************************************************)
(* What is asked about tenants: the entries of the onboarding scripts, the *)
(* calls of routes/api/tenants.js, who may make them, and the row that     *)
(* they ask for (models/tenant.js).                                        *)
(***************************************************************************)
EXTENDS Naturals, Sequences

CONSTANTS
    Jobs,     \* slots for requests and scripts; a slot is used again
    Ids,      \* the primary keys a tenant may get; bounds the table
    Slugs, Domains, Emails,
    Looks,    \* the contents of a branding
    None,     \* null, or a field of an entry that is left out
    Absent,   \* a domain that a PUT leaves out; its null is None
    Calls     \* what the jobs do

Root == "super-admin"

\* One tenant to create.  owner is a tenantId inside the branding section:
\* `{ tenantId: tenant.id, ...brandingData }` lets it win.  POST passes
\* name, domain, active and config of its body, and no slug (tenants.js:32).
Entry == [slug : Slugs \cup {None}, domain : Domains \cup {None},
          status : {"active", "pending"}, look : Looks,
          owner : Ids \cup {None}, email : Emails \cup {None}]

\* by is the super-admin or an administrator of that tenant.
Call == [op : {"post", "put", "delete", "import"}, by : Ids \cup {Root},
         id : Ids, domain : Domains \cup {None, Absent}, look : Looks \cup {None},
         owner : Ids \cup {None}, entries : Seq(Entry)]

ASSUME NoneAssumption ==
    /\ None \notin Slugs \cup Domains \cup Emails \cup Looks \cup Ids \cup {Absent}
    /\ Absent \notin Domains
ASSUME CallAssumption ==
    /\ Calls \subseteq Call /\ Calls # {}
    /\ \A c \in Calls : c.op = "post" =>
          Len(c.entries) = 1 /\ c.entries[1].slug = None

TenantRow == [slug : Slugs, domain : Domains \cup {None},
              status : {"active", "pending", "inactive"}]

-----------------------------------------------------------------------------

Given(new, old) == IF new = None THEN old ELSE new

Same(a, b) == a # None /\ a = b

Created(e) == [slug |-> e.slug, domain |-> e.domain, status |-> e.status]

\* Tenant.update drops undefined values and what is not a column, so `active`
\* and `config` change nothing.
Updated(row, c) == [row EXCEPT !.domain = IF c.domain = Absent THEN @ ELSE c.domain]

\* authenticate([...]) and the access check of PUT.
Allowed(c) ==
    CASE c.op \in {"post", "delete"} -> c.by = Root
      [] c.op = "put"               -> c.by \in {Root, c.id}
      [] OTHER                      -> TRUE

\* What importTenantsFromFile requires of an entry.
Valid(e) == None \notin {e.slug, e.email}
=============================================================================
