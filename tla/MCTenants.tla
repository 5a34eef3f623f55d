----------------------------- MODULE MCTenants -----------------------------
(***************************************************************************)
(* Instances of Tenants for TLC: two keys, two slugs, two domains, and     *)
(* scripts and requests that meet on them.                                 *)
(***************************************************************************)
EXTENDS Tenants

CONSTANTS j1, j2, i1, i2

E(slug, domain, email) ==
    [slug |-> slug, domain |-> domain, status |-> "active", look |-> "blue",
     owner |-> None, email |-> email]
Blank == [op |-> "put", by |-> Root, id |-> i1, domain |-> Absent, look |-> None,
          owner |-> None, entries |-> <<>>]
Import(entries) == [Blank EXCEPT !.op = "import", !.entries = entries]
Put(by, i, domain, look) ==
    [Blank EXCEPT !.by = by, !.id = i, !.domain = domain, !.look = look]
Delete_(i) == [Blank EXCEPT !.op = "delete", !.id = i]
Post == [Blank EXCEPT !.op = "post", !.entries = <<E(None, None, None)>>]

\* Two imports of the same tenant, one of which goes on with another that
\* wants the same administrator; updates by the super-admin, a stranger, and
\* the owner, who gives the domain back; an entry without a slug.
MCCalls ==
    {Import(<<E("acme", "a.com", "ann"), E("beta", "b.com", "bob")>>),
     Import(<<E(None, None, "bob"), E("acme", None, "bob")>>),
     Put(Root, i1, "b.com", "red"), Put(i1, i2, Absent, "red"),
     Put(i2, i2, None, None),
     Delete_(i1), Post}
=============================================================================
