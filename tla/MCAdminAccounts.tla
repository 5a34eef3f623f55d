-------------------------- MODULE MCAdminAccounts --------------------------
(***************************************************************************)
(* Instances of AdminAccounts for TLC: an empty database, a portal that is *)
(* started on it, scripts beside it, and the administrators that come of   *)
(* it.                                                                     *)
(***************************************************************************)
EXTENDS AdminAccounts, TLC

CONSTANTS j1, j2

Plain(op) == [op |-> op, by |-> None, email |-> None, password |-> None,
              role |-> None, tenant |-> None, page |-> "home"]
SignIn(e, p) == [Plain("login") EXCEPT !.email = e, !.password = p]
Make(op, by, e, role, t) ==
    [Plain(op) EXCEPT !.by = by, !.email = e, !.password = "old",
                      !.role = role, !.tenant = t]
View(by, page) == [Plain("page") EXCEPT !.by = by, !.page = page]

\* The first slot serves requests, the second runs starts and scripts, and
\* the sign-ins that race them.
MCCalls ==
    j1 :> {SignIn("admin", "new"), SignIn("tadmin", "old"), SignIn("tadmin", None),
           Make("admin", "admin", "tadmin", None, "t1"),
           Make("admin", "admin", "eve", "other", "t1"),
           Make("tenantAdmin", "tadmin", "eve", None, "t2"),
           [Plain("me") EXCEPT !.by = "tadmin"],
           View(None, "home"), View("admin", "home"),
           View("tadmin", "client"), View("tadmin", "tenants")}
    @@ j2 :> {Plain("start"), Plain("init"), Plain("create"), Plain("reset"),
              Plain("test"), Make("onboard", None, "eve", None, "t2")}
=============================================================================
