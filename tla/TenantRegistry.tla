--------------------------- MODULE TenantRegistry ---------------------------
(***************************************************************************)
(* What the tenant store promises, without accesses, transactions and      *)
(* locks.  A tenant appears in one moment, with its branding, under names  *)
(* that no other tenant has, and changes in one moment, as a PUT asks.     *)
(* Each entry of an import makes at most one tenant and then at most one   *)
(* administrator, and is "ok" only if it made both; a request is told of a *)
(* success only after its one effect.  A job that fails or dies may have   *)
(* had its effect.                                                         *)
(***************************************************************************)
EXTENDS TenantCalls

VARIABLES
    tenants,   \* what can be seen: the row of a tenant and its looks
    admins,    \* the tenant of each address
    phase,     \* "idle", "asked", "answered", or "made" when the request, or
               \* the entry at hand, took effect
    call, outcomes, reply

vars == <<tenants, admins, phase, call, outcomes, reply>>

Init ==
    /\ tenants = [i \in {} |-> None]
    /\ admins = [e \in {} |-> None]
    /\ phase = [j \in Jobs |-> "idle"]
    /\ call = [j \in Jobs |-> CHOOSE c \in Calls : TRUE]
    /\ outcomes = [j \in Jobs |-> <<>>]
    /\ reply = [j \in Jobs |-> None]

Ask(j) ==
    /\ phase[j] \in {"idle", "answered"}
    /\ \E c \in Calls : call' = [call EXCEPT ![j] = c]
    /\ phase' = [phase EXCEPT ![j] = "asked"]
    /\ outcomes' = [outcomes EXCEPT ![j] = <<>>]
    /\ reply' = [reply EXCEPT ![j] = None]
    /\ UNCHANGED <<tenants, admins>>

\* A slug and a domain belong to one tenant.
Fresh(i, row) ==
    \A k \in DOMAIN tenants \ {i} :
        tenants[k].row.slug # row.slug /\ ~ Same(tenants[k].row.domain, row.domain)

Open(j) == phase[j] \in {"asked", "made"}
InEntry(j) == call[j].op = "import" /\ Len(outcomes[j]) < Len(call[j].entries)
Current(j) == call[j].entries[Len(outcomes[j]) + 1]

\* The job has had its effect and goes on.
Done(j) ==
    /\ phase' = [phase EXCEPT ![j] = "made"]
    /\ UNCHANGED <<outcomes, reply>>

EndEntry(j, result) ==
    /\ outcomes' = [outcomes EXCEPT ![j] = Append(@, result)]
    /\ phase' = [phase EXCEPT ![j] = "asked"]
    /\ UNCHANGED reply

Reply(j, code) ==
    /\ phase' = [phase EXCEPT ![j] = "answered"]
    /\ reply' = [reply EXCEPT ![j] = code]
    /\ UNCHANGED outcomes

-----------------------------------------------------------------------------
\* Effects.

Found(j) ==
    /\ phase[j] = "asked"
    /\ InEntry(j) /\ Valid(Current(j))
    /\ \E i \in Ids \ DOMAIN tenants :
          /\ Fresh(i, Created(Current(j)))
          /\ tenants' = [k \in DOMAIN tenants \cup {i} |->
                IF k = i
                THEN [row |-> Created(Current(j)), looks |-> {Current(j).look}]
                ELSE tenants[k]]
    /\ Done(j) \/ EndEntry(j, "failed")
    /\ UNCHANGED <<admins, call>>

\* The administrator of the tenant that this entry made.
Appoint(j) ==
    /\ phase[j] = "made"
    /\ InEntry(j)
    /\ Current(j).email \notin DOMAIN admins
    /\ \E i \in DOMAIN tenants :
          /\ tenants[i].row.slug = Current(j).slug
          /\ admins' = [e \in DOMAIN admins \cup {Current(j).email} |->
                           IF e = Current(j).email THEN i ELSE admins[e]]
    /\ EndEntry(j, "ok") \/ EndEntry(j, "failed")
    /\ UNCHANGED <<tenants, call>>

\* All that a PUT asks, of the row as it is at this moment.
Amended(t, c) ==
    [row   |-> Updated(t.row, c),
     looks |-> IF c.look = None THEN t.looks ELSE {c.look}]

Amend(j) ==
    /\ phase[j] = "asked"
    /\ call[j].op = "put" /\ Allowed(call[j])
    /\ LET i == call[j].id
       IN  /\ i \in DOMAIN tenants
           /\ Fresh(i, Updated(tenants[i].row, call[j]))
           /\ tenants' = [tenants EXCEPT ![i] = Amended(@, call[j])]
    /\ Done(j) \/ Reply(j, 500)
    /\ UNCHANGED <<admins, call>>

-----------------------------------------------------------------------------
\* What has no effect: an entry that fails, an answer, a death.

GiveUp(j) ==
    /\ Open(j) /\ InEntry(j)
    /\ EndEntry(j, "failed")
    /\ UNCHANGED <<tenants, admins, call>>

\* No 201: a POST carries no slug, so it never founds a tenant.
Justified(j, code) ==
    LET c == call[j]
        known == c.id \in DOMAIN tenants
    IN  CASE code = 403 -> ~ Allowed(c)
          [] code = 404 -> c.op \in {"put", "delete"} /\ Allowed(c) /\ ~ known
          [] code = 204 -> c.op = "delete" /\ Allowed(c) /\ known
          [] code = 200 -> c.op = "put" /\ phase[j] = "made"
          [] code = 500 -> c.op # "import"
          [] code = 0   -> c.op = "import" /\ Len(outcomes[j]) = Len(c.entries)

Answer(j) ==
    /\ Open(j)
    /\ \E code \in {200, 204, 403, 404, 500, 0} :
          Justified(j, code) /\ Reply(j, code)
    /\ UNCHANGED <<tenants, admins, call>>

Forget(j) ==
    /\ Open(j)
    /\ phase' = [phase EXCEPT ![j] = "idle"]
    /\ UNCHANGED <<tenants, admins, call, outcomes, reply>>

Next ==
    \E j \in Jobs :
        \/ Ask(j) \/ Found(j) \/ Appoint(j) \/ Amend(j)
        \/ GiveUp(j) \/ Answer(j) \/ Forget(j)

Spec == Init /\ [][Next]_vars
=============================================================================
