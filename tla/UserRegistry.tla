---------------------------- MODULE UserRegistry ----------------------------
(***************************************************************************)
(* What the user API promises its clients, without handlers, accesses or   *)
(* instances.  Between its call and its answer a request looks at the      *)
(* table once and changes it at most once, in one step, and only where its *)
(* administrator has authority: a create looks whether its address is in   *)
(* use, a change draws up the profile it will write.  The answer tells     *)
(* whether the table was changed, and why not.                             *)
(***************************************************************************)
EXTENDS UserCalls

VARIABLES
    users,  \* the table
    phase,  \* "idle", "asked" or "answered"
    call,
    draft,  \* the profile a request will write; None before it looks
    reply

vars == <<users, phase, call, draft, reply>>

Init ==
    /\ users = [i \in {} |-> None]
    /\ phase = [r \in Requests |-> "idle"]
    /\ call = [r \in Requests |-> CHOOSE c \in Calls : TRUE]
    /\ draft = [r \in Requests |-> None]
    /\ reply = [r \in Requests |-> None]

Ask(r) ==
    /\ phase[r] # "asked"
    /\ \E c \in Calls : call' = [call EXCEPT ![r] = c]
    /\ phase' = [phase EXCEPT ![r] = "asked"]
    /\ reply' = [reply EXCEPT ![r] = None]
    /\ UNCHANGED <<users, draft>>

Reply(r, code) ==
    /\ phase[r] = "asked"
    /\ phase' = [phase EXCEPT ![r] = "answered"]
    /\ draft' = [draft EXCEPT ![r] = None]
    /\ reply' = [reply EXCEPT ![r] = code]
    /\ UNCHANGED call

-----------------------------------------------------------------------------

OnRow(c) == c.op \in {"get", "put", "password", "delete"}
Writes(c) == c.op \in {"put", "password", "delete"}
Entitled(c) == c.admin \in Admins /\ RoleOf[c.admin] \in AllowedRoles(c.op)

\* The row a call is about is there, and its administrator's.
Mine(c) == c.id \in DOMAIN users /\ MayTouch(c, users[c.id])

\* A user of the tenant that a create is for has the name, or the address;
\* a create for no tenant looks in all of them.
Used(c, column) ==
    \E i \in DOMAIN users :
       /\ users[i][column] = c[column]
       /\ Target(c) \in {None, users[i].tenantId}

\* A refusal has a reason, which holds when it is told; any request may fail.
Refused(r) ==
    LET c == call[r] IN
    /\ \/ Reply(r, 401) \/ Reply(r, 500)
       \/ Reply(r, 400) /\ None \in {c.username, c.email, c.password}
       \/ /\ Reply(r, 403)
          /\ \/ c.admin \in Admins /\ ~ Entitled(c)
             \/ c.op = "create" /\ c.tenantId \notin {None, Target(c)}
             \/ OnRow(c) /\ c.id \in DOMAIN users /\ ~ Mine(c)
       \/ Reply(r, 404) /\ OnRow(c) /\ c.id \notin DOMAIN users
       \/ /\ Reply(r, 409) /\ c.op = "create"
          /\ Used(c, "username") \/ Used(c, "email")
    /\ UNCHANGED users

Read(r) ==
    /\ Entitled(call[r])
    /\ call[r].op = "list" \/ (call[r].op = "get" /\ Mine(call[r]))
    /\ Reply(r, 200)
    /\ UNCHANGED users

\* At one moment before it writes, the address of a create is not in use; a
\* change sees the profile, of which it draws up the keys that it names.
Look(r) ==
    LET c == call[r] IN
    /\ phase[r] = "asked" /\ draft[r] = None
    /\ Entitled(c)
    /\ \/ /\ c.op = "create" /\ ~ Used(c, "email")
          /\ draft' = [draft EXCEPT ![r] = c.profile]
       \/ /\ Writes(c) /\ Mine(c)
          /\ draft' = [draft EXCEPT ![r] = [k \in Keys |->
                IF c.op = "put" /\ c.profile[k] # None THEN c.profile[k]
                ELSE users[c.id].profile[k]]]
    /\ UNCHANGED <<users, phase, call, reply>>

Fresh(name, except) ==
    \A i \in DOMAIN users \ except : users[i].username # name

\* A create adds the row it asks for, for a tenant it may create in.
Enroll(r) ==
    /\ call[r].op = "create" /\ draft[r] # None
    /\ Entitled(call[r])
    /\ MayTouch(call[r], NewRow(call[r]))
    /\ Fresh(call[r].username, {})
    /\ \E i \in Ids \ DOMAIN users :
          users' = [j \in DOMAIN users \cup {i} |->
                       IF j = i THEN NewRow(call[r]) ELSE users[j]]
    /\ Reply(r, 201) \/ Reply(r, 500)

\* A change of a row changes columns that the call asks for, as it asks, and
\* the profile as it was drawn up; a column that already was so when the
\* request looked may stay as it is.
Amend(r) ==
    LET i == call[r].id IN
    /\ Writes(call[r]) /\ draft[r] # None
    /\ Entitled(call[r])
    /\ Mine(call[r])
    /\ users' \in [DOMAIN users -> Row]
    /\ users'[i].tenantId = users[i].tenantId
    /\ LET changed == {k \in Columns : users'[i][k] # users[i][k]}
       IN  /\ AsAsked(call[r], users'[i], changed)
           /\ "profile" \in changed => users'[i].profile = draft[r]
           /\ "username" \in changed => Fresh(users'[i].username, {i})
    /\ \A j \in DOMAIN users \ {i} : users'[j] = users[j]
    /\ \/ Reply(r, IF call[r].op = "put" THEN 200 ELSE 204)
       \/ Reply(r, 500)

\* The service dies and forgets what it was asked.
Forget ==
    /\ phase' = [r \in Requests |-> IF phase[r] = "asked" THEN "idle" ELSE phase[r]]
    /\ draft' = [r \in Requests |-> None]
    /\ UNCHANGED <<users, call, reply>>

Next ==
    \/ \E r \in Requests :
          Ask(r) \/ Refused(r) \/ Read(r) \/ Look(r) \/ Enroll(r) \/ Amend(r)
    \/ Forget

Spec == Init /\ [][Next]_vars
=============================================================================
