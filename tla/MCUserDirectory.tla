-------------------------- MODULE MCUserDirectory --------------------------
(***************************************************************************)
(* Instances of UserDirectory for TLC: two tenants with an administrator   *)
(* each, a super-admin, a viewer, and an administrator of no tenant; each  *)
(* run chooses the calls that they make.                                   *)
(***************************************************************************)
EXTENDS UserDirectory, TLC

CONSTANTS r1, r2, i1, i2

MCAdmins == {"root", "adm1", "adm2", "view1", "adm0"}
MCRoleOf == "root" :> "super-admin" @@ "view1" :> "viewer"
            @@ "adm1" :> "admin" @@ "adm2" :> "admin" @@ "adm0" :> "admin"
MCTenantOf == "root" :> None @@ "view1" :> "t1"
              @@ "adm1" :> "t1" @@ "adm2" :> "t2" @@ "adm0" :> None

NoPatch == [k \in Keys |-> None]
Blank(op, admin) ==
    [op |-> op, admin |-> admin, id |-> i1, username |-> None, email |-> None,
     password |-> None, status |-> None, tenantId |-> None, profile |-> NoPatch]
Create(admin, name, mail, tenant) ==
    [Blank("create", admin) EXCEPT !.username = name, !.email = mail,
                                   !.password = "p1", !.tenantId = tenant]
Rename(admin, i, name) == [Blank("put", admin) EXCEPT !.id = i, !.username = name]
Patch(admin, i, k, v) == [Blank("put", admin) EXCEPT !.id = i, !.profile[k] = v]
Restore(admin, i, k, v) == [Patch(admin, i, k, v) EXCEPT !.status = "active"]
On(op, admin, i) == [Blank(op, admin) EXCEPT !.id = i, !.password = "p2"]

\* Calls of two tenants that meet on names, addresses and rows.
MeetingCalls ==
    {Create("adm1", "ann", "e1", None), Create("root", "ann", "e2", "t2"),
     Rename("adm1", i1, "bob"), On("delete", "root", i1), On("password", "adm1", i1),
     Restore("adm1", i1, "lang", "v1"), Patch("root", i1, "zone", "v1"),
     Blank("list", "adm2"), Create("adm1", None, "e1", None)}

Slots == Permutations(Requests)

\* Two clients register the same person.
CreateCalls ==
    {Create("adm1", "ann", "e1", None), Create("adm1", "bob", "e1", None),
     Create("root", "bob", "e1", "t2"), Create("adm2", "ann", "e2", "t2")}

\* With every way to be refused.
AllCalls ==
    MeetingCalls \cup CreateCalls \cup
    {Create("adm2", "bob", "e1", "t1"), Create("adm0", "bob", "e2", None),
     On("get", "view1", i1), On("delete", "adm2", i1),
     Blank("list", "root"), On("get", None, i1), On("delete", "view1", i1),
     On("delete", "root", i2), On("get", "root", i1), Blank("password", "adm1")}
=============================================================================
