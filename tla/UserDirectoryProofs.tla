------------------------ MODULE UserDirectoryProofs ------------------------
(***************************************************************************)
(* The safety properties of UserDirectory, for every table, every set of   *)
(* calls and any number of concurrent requests.                            *)
(***************************************************************************)
EXTENDS UserDirectory, TLAPS

\* What every answer does to the variables of its request.
LEMMA AnswerType ==
    ASSUME TypeOK, NEW r \in Requests, NEW code \in Codes,
           NEW ids \in SUBSET Ids, Answer(r, code, ids)
    PROVE  /\ active' \in [Admins -> BOOLEAN]
           /\ pc' \in [Requests -> Waiting \cup {"idle", "answered"}]
           /\ call' \in [Requests -> Call]
           /\ doc' \in [Requests -> Row \cup {None}]
           /\ cols' \in [Requests -> SUBSET Columns]
           /\ reply' \in [Requests -> Codes \cup {None}]
           /\ shown' \in [Requests -> SUBSET Ids]
    BY DEF Answer, TypeOK

LEMMA EditedType ==
    ASSUME NEW c \in Call, NEW row \in Row,
           c.op \in {"put", "password", "delete"}, ~ Malformed(c)
    PROVE  Edited(row, c) \in Row
  <1>1. CASE c.op = "put"
    <2>1. /\ Given(c.username, row.username) \in Usernames
          /\ Given(c.email, row.email) \in Emails
          /\ Given(c.status, row.status) \in Statuses
      BY DEF Given, Call, Row
    <2>2. Merge(row.profile, c.profile) \in Profiles
      BY DEF Merge, Given, Call, Row, Profiles
    <2> QED  BY <1>1, <2>1, <2>2 DEF Edited, Amended, Row
  <1>2. CASE c.op = "password"
    BY <1>2 DEF Edited, Rekeyed, Malformed, Row, Call
  <1>3. CASE c.op = "delete"
    BY <1>3 DEF Edited, Retired, Row, Statuses
  <1> QED  BY <1>1, <1>2, <1>3

LEMMA WrittenType ==
    ASSUME NEW row \in Row, NEW d \in Row, NEW cs \in SUBSET Columns
    PROVE  Written(row, d, cs) \in Row
  BY DEF Written, Row

LEMMA NewRowType ==
    ASSUME NEW c \in Call, c.op = "create", ~ Malformed(c), c.admin \in Admins
    PROVE  NewRow(c) \in Row
  BY AdminAssumption DEF NewRow, Row, Call, Malformed, Statuses, Profiles, Target

\* A handler's edit is what the call asks, on the columns it makes dirty.
LEMMA EditedAsAsked ==
    ASSUME NEW c \in Call, NEW row \in Row,
           c.op \in {"put", "password", "delete"}
    PROVE  AsAsked(c, Edited(row, c), Dirty(row, Edited(row, c), c))
  <1> DEFINE new == Edited(row, c)
             cs == Dirty(row, new, c)
  <1>1. CASE c.op = "put"
    <2>1. new = [row EXCEPT !.username = Given(c.username, @),
                            !.email    = Given(c.email, @),
                            !.profile  = Merge(@, c.profile),
                            !.status   = Given(c.status, @)]
      BY <1>1 DEF Edited, Amended
    <2>2. cs = {k \in Columns : new[k] # row[k]}
      BY <1>1 DEF Dirty
    <2>3. /\ new["username"] = Given(c.username, row.username)
          /\ new["email"] = Given(c.email, row.email)
          /\ new["status"] = Given(c.status, row.status)
          /\ new["password"] = row["password"]
          /\ new["profile"] = Merge(row.profile, c.profile)
      BY <2>1 DEF Row
    <2>4. cs \subseteq Asked(c)
      BY <1>1, <2>2, <2>3 DEF Asked, Columns, Given
    <2>5. \A k \in cs \ {"profile"} : new[k] = c[k]
      BY <2>2, <2>3 DEF Columns, Given
    <2>6. \A k \in Keys : c.profile[k] # None => new.profile[k] = c.profile[k]
      BY <2>3 DEF Merge, Given
    <2> QED  BY <1>1, <2>4, <2>5, <2>6 DEF AsAsked
  <1>2. CASE c.op = "password"
    <2>1. new = [row EXCEPT !.password = c.password]
      BY <1>2 DEF Edited, Rekeyed
    <2>2. /\ \A k \in Columns \ {"password"} : new[k] = row[k]
          /\ new["password"] = c["password"]
      BY <2>1 DEF Row, Columns
    <2>3. cs = {"password"}
      BY <1>2, <2>2 DEF Dirty, Columns
    <2> QED  BY <1>2, <2>2, <2>3 DEF AsAsked, Asked
  <1>3. CASE c.op = "delete"
    <2>1. new = [row EXCEPT !.status = "inactive"]
      BY <1>3 DEF Edited, Retired
    <2>2. /\ \A k \in Columns \ {"status"} : new[k] = row[k]
          /\ new["status"] = "inactive"
      BY <2>1 DEF Row, Columns
    <2>3. cs \subseteq {"status"}
      BY <1>3, <2>2 DEF Dirty, Columns
    <2> QED  BY <1>3, <2>2, <2>3 DEF AsAsked, Asked
  <1> QED  BY <1>1, <1>2, <1>3

\* What a step may do to the table as far as other requests are concerned.
RowsKept ==
    \A i \in DOMAIN users :
        i \in DOMAIN users' /\ users'[i].tenantId = users[i].tenantId

\* A request that a step does not touch stays sound if the rows are kept.
LEMMA SoundKept ==
    ASSUME NEW q \in Requests, Sound(q), RowsKept,
           pc'[q] = pc[q], call'[q] = call[q], doc'[q] = doc[q], cols'[q] = cols[q]
    PROVE  Sound(q)'
  BY DEF Sound, Known, InCreate, InRow, InSave, RowsKept, Malformed,
         ForeignTenant, MayTouch, IsSuper, AsAsked, Asked

\* A request that is not in a handler is sound.
LEMMA SoundOutside ==
    ASSUME NEW q \in Requests, pc'[q] \in {"idle", "authenticate", "answered"}
    PROVE  Sound(q)'
  BY DEF Sound, Waiting

LEMMA AnswerSound ==
    ASSUME TypeOK, RequestsSound, RowsKept,
           NEW r \in Requests, NEW code, NEW ids, Answer(r, code, ids)
    PROVE  RequestsSound'
  <1> SUFFICES ASSUME NEW q \in Requests  PROVE Sound(q)'
    BY DEF RequestsSound
  <1>1. CASE q = r
    BY <1>1, SoundOutside DEF Answer, TypeOK
  <1>2. CASE q # r
    BY <1>2, SoundKept DEF Answer, TypeOK, RequestsSound
  <1> QED  BY <1>1, <1>2

\* Going to the next access keeps the others sound.
LEMMA GotoSound ==
    ASSUME TypeOK, RequestsSound, NEW r \in Requests, NEW label, Goto(r, label),
           \A q \in Requests \ {r} : doc'[q] = doc[q] /\ cols'[q] = cols[q],
           Sound(r)'
    PROVE  RequestsSound'
  <1> SUFFICES ASSUME NEW q \in Requests \ {r}  PROVE Sound(q)'
    BY DEF RequestsSound
  <1>1. RowsKept
    BY DEF Goto, RowsKept
  <1> QED  BY <1>1, SoundKept DEF Goto, TypeOK, RequestsSound

\* A refusal, a reading or an error: an answer that leaves the table alone.
LEMMA AnswerInv ==
    ASSUME TypeOK, RequestsSound, NEW r \in Requests, NEW code \in Codes,
           NEW ids \in SUBSET Ids, Answer(r, code, ids), UNCHANGED users
    PROVE  TypeOK' /\ RequestsSound' /\ RowsKept
  <1>1. RowsKept
    BY DEF RowsKept
  <1>2. TypeOK'
    BY AnswerType DEF TypeOK
  <1> QED  BY <1>1, <1>2, AnswerSound

LEMMA InsertInv ==
    ASSUME TypeOK, RequestsSound, NEW r \in Requests, Insert(r)
    PROVE  TypeOK' /\ RequestsSound' /\ RowsKept
  <1>1. PICK i \in Ids \ DOMAIN users :
          /\ users' = [j \in DOMAIN users \cup {i} |->
                          IF j = i THEN NewRow(call[r]) ELSE users[j]]
          /\ Answer(r, 201, {i}) \/ Answer(r, 500, {})
    BY DEF Insert
  <1>2. NewRow(call[r]) \in Row
    <2>1. call[r].op = "create" /\ ~ Malformed(call[r]) /\ call[r].admin \in Admins
      BY DEF Insert, RequestsSound, Sound, InCreate, Known, Waiting
    <2> QED  BY <2>1, NewRowType DEF TypeOK
  <1>3. RowsKept
    BY <1>1 DEF RowsKept
  <1>4. DOMAIN users' \subseteq Ids /\ users' \in [DOMAIN users' -> Row]
    BY <1>1, <1>2 DEF TypeOK
  <1>5. TypeOK'
    BY <1>1, <1>4, AnswerType DEF TypeOK, Codes
  <1> QED  BY <1>1, <1>3, <1>5, AnswerSound

LEMMA SaveInv ==
    ASSUME TypeOK, RequestsSound, NEW r \in Requests, Save(r)
    PROVE  TypeOK' /\ RequestsSound' /\ RowsKept
  <1> DEFINE i == call[r].id
  <1>1. InSave(r)
    BY DEF Save, RequestsSound, Sound
  <1>2. /\ i \in DOMAIN users
        /\ users' = [users EXCEPT ![i] = Written(users[i], doc[r], cols[r])]
    BY <1>1 DEF Save, InSave
  <1>3. Written(users[i], doc[r], cols[r]) \in Row
    BY <1>1, <1>2, WrittenType DEF InSave, TypeOK
  <1>4. Written(users[i], doc[r], cols[r]).tenantId = users[i].tenantId
    BY DEF Written
  <1>5. RowsKept
    BY <1>2, <1>4 DEF RowsKept
  <1>6. DOMAIN users' \subseteq Ids /\ users' \in [DOMAIN users' -> Row]
    BY <1>2, <1>3 DEF TypeOK
  <1>7. \E code \in Codes, ids \in SUBSET Ids : Answer(r, code, ids)
    BY <1>2 DEF Save, Codes, TypeOK
  <1>8. TypeOK'
    BY <1>6, <1>7, AnswerType DEF TypeOK
  <1> QED  BY <1>5, <1>7, <1>8, AnswerSound

LEMMA AdmitInv ==
    ASSUME TypeOK, RequestsSound, NEW r \in Requests, Admit(r)
    PROVE  TypeOK' /\ RequestsSound' /\ RowsKept
  <1> DEFINE label == FirstAccess(call[r].op)
  <1>1. Goto(r, label) /\ UNCHANGED <<doc, cols>>
    BY DEF Admit
  <1>2. call[r].op \in Ops
    BY DEF TypeOK, Call
  <1>3. /\ call[r].op = "create" => label = "checkUsername"
        /\ call[r].op = "list" => label = "list"
        /\ call[r].op \notin {"create", "list"} => label = "load"
    BY DEF FirstAccess
  <1>4. pc'[r] = label /\ UNCHANGED <<call, users>>
    BY <1>1 DEF Goto, TypeOK
  <1>5. TypeOK'
    BY <1>1, <1>2, <1>3 DEF TypeOK, Goto, Waiting, Ops
  <1>6. Known(r) /\ ~ Malformed(call[r]) /\ ~ ForeignTenant(call[r])
    BY DEF Admit, Admitted, Authenticated, Known
  <1>7. Sound(r)'
    BY <1>2, <1>3, <1>4, <1>6
       DEF Sound, Known, InCreate, InRow, Malformed, ForeignTenant, IsSuper, Ops
  <1>8. RowsKept
    BY <1>4 DEF RowsKept
  <1> QED  BY <1>1, <1>5, <1>7, <1>8, GotoSound

LEMMA LoadInv ==
    ASSUME TypeOK, RequestsSound, NEW r \in Requests, Load(r)
    PROVE  TypeOK' /\ RequestsSound' /\ RowsKept
  <1> DEFINE row == users[call[r].id]
             new == Edited(row, call[r])
  <1>1. InRow(r) /\ Known(r) /\ call[r].op # "get"
    BY DEF Load, RequestsSound, Sound, Waiting
  <1>2. /\ call[r].id \in DOMAIN users
        /\ MayTouch(call[r], row)
        /\ doc' = [doc EXCEPT ![r] = new]
        /\ cols' = [cols EXCEPT ![r] = Dirty(row, new, call[r])]
        /\ Goto(r, "save")
    BY DEF Load
  <1>3. row \in Row /\ call[r] \in Call
    BY <1>2 DEF TypeOK
  <1>4. new \in Row
    BY <1>1, <1>3, EditedType DEF InRow
  <1>5. AsAsked(call[r], new, Dirty(row, new, call[r]))
    BY <1>1, <1>3, EditedAsAsked DEF InRow
  <1>6. Dirty(row, new, call[r]) \in SUBSET Columns
    BY DEF Dirty, Columns
  <1>7. TypeOK'
    BY <1>2, <1>4, <1>6 DEF TypeOK, Goto, Waiting
  <1>8. /\ pc'[r] = "save" /\ doc'[r] = new /\ cols'[r] = Dirty(row, new, call[r])
        /\ UNCHANGED <<call, users>>
    BY <1>2 DEF Goto, TypeOK
  <1>9. Sound(r)'
    BY <1>1, <1>2, <1>4, <1>5, <1>8
       DEF Sound, Known, InSave, InRow, Malformed, MayTouch, IsSuper, AsAsked, Asked
  <1>10. RowsKept
    BY <1>8 DEF RowsKept
  <1>11. \A q \in Requests \ {r} : doc'[q] = doc[q] /\ cols'[q] = cols[q]
    BY <1>2 DEF TypeOK
  <1> QED  BY <1>2, <1>7, <1>9, <1>10, <1>11, GotoSound

\* The step from one check of a create to the next.
LEMMA CheckInv ==
    ASSUME TypeOK, RequestsSound, NEW r \in Requests,
           pc[r] \in {"checkUsername", "checkEmail"},
           NEW label \in {"checkEmail", "insert"},
           Goto(r, label), UNCHANGED <<doc, cols>>
    PROVE  TypeOK' /\ RequestsSound' /\ RowsKept
  <1>1. InCreate(r) /\ Known(r)
    BY DEF RequestsSound, Sound, Waiting
  <1>2. pc'[r] = label /\ UNCHANGED <<call, users>>
    BY DEF Goto, TypeOK
  <1>3. TypeOK'
    BY DEF TypeOK, Goto, Waiting
  <1>4. Sound(r)'
    BY <1>1, <1>2
       DEF Sound, Known, InCreate, Malformed, ForeignTenant, IsSuper
  <1>5. RowsKept
    BY <1>2 DEF RowsKept
  <1> QED  BY <1>3, <1>4, <1>5, GotoSound

LEMMA StepInv ==
    ASSUME TypeOK, RequestsSound, NEW r \in Requests,
           Step(r) \/ Fail(r)
    PROVE  TypeOK' /\ RequestsSound' /\ RowsKept
  <1>1. CASE \/ RefuseUnauthenticated(r) \/ RefuseRole(r) \/ RefuseCall(r)
             \/ List(r) \/ InsertRejected(r) \/ SaveRejected(r) \/ Fail(r)
             \/ RefuseMissing(r) \/ RefuseForeignRow(r) \/ Get(r)
    <2>1. /\ \E code \in Codes, ids \in SUBSET Ids : Answer(r, code, ids)
          /\ UNCHANGED users
      <3>1. CASE RefuseUnauthenticated(r) \/ RefuseRole(r) \/ RefuseCall(r)
        BY <3>1 DEF RefuseUnauthenticated, RefuseRole, RefuseCall, Codes
      <3>2. CASE List(r)
        <4>1. {j \in DOMAIN users :
                  (IsSuper(call[r]) /\ Target(call[r]) = None)
                     \/ users[j].tenantId = Target(call[r])} \in SUBSET Ids
          BY DEF TypeOK
        <4> QED  BY <3>2, <4>1 DEF List, Codes
      <3>3. CASE InsertRejected(r) \/ SaveRejected(r) \/ Fail(r)
                 \/ RefuseMissing(r) \/ RefuseForeignRow(r)
        BY <3>3 DEF InsertRejected, SaveRejected, Fail, RefuseMissing,
                    RefuseForeignRow, Codes
      <3>4. CASE Get(r)
        <4>1. {call[r].id} \in SUBSET Ids
          BY <3>4 DEF Get, TypeOK
        <4> QED  BY <3>4, <4>1 DEF Get, Codes
      <3> QED  BY <1>1, <3>1, <3>2, <3>3, <3>4
    <2> QED  BY <2>1, AnswerInv
  <1>2. CASE CheckUsername(r) \/ CheckEmail(r)
    <2>1. CASE (\E code \in Codes : Answer(r, code, {})) /\ UNCHANGED users
      BY <2>1, AnswerInv
    <2>2. CASE \E label \in {"checkEmail", "insert"} :
                  Goto(r, label) /\ UNCHANGED <<doc, cols>>
      BY <1>2, <2>2, CheckInv DEF CheckUsername, CheckEmail
    <2> QED  BY <1>2, <2>1, <2>2 DEF CheckUsername, CheckEmail, Codes
  <1> QED
    BY <1>1, <1>2, AdmitInv, InsertInv, LoadInv, SaveInv DEF Step

LEMMA ArriveInv ==
    ASSUME TypeOK, RequestsSound, NEW r \in Requests, Arrive(r)
    PROVE  TypeOK' /\ RequestsSound' /\ RowsKept
  <1>1. TypeOK'
    BY CallAssumption DEF Arrive, TypeOK, Waiting
  <1>2. RowsKept
    BY DEF Arrive, RowsKept
  <1>3. ASSUME NEW q \in Requests  PROVE Sound(q)'
    <2>1. CASE q = r
      BY <2>1, SoundOutside DEF Arrive, TypeOK
    <2>2. CASE q # r
      BY <1>2, <2>2, SoundKept DEF Arrive, TypeOK, RequestsSound
    <2> QED  BY <2>1, <2>2
  <1> QED  BY <1>1, <1>2, <1>3 DEF RequestsSound

\* Two steps that no request takes.
LEMMA CrashInv ==
    ASSUME TypeOK, RequestsSound, Crash
    PROVE  TypeOK' /\ RequestsSound' /\ RowsKept
  <1>1. TypeOK'
    BY DEF Crash, TypeOK
  <1>2. RowsKept
    BY DEF Crash, RowsKept
  <1>3. ASSUME NEW q \in Requests  PROVE Sound(q)'
    BY SoundOutside DEF Crash, TypeOK
  <1> QED  BY <1>1, <1>2, <1>3 DEF RequestsSound

LEMMA DeactivateInv ==
    ASSUME TypeOK, RequestsSound, NEW a \in Leavers, Deactivate(a)
    PROVE  TypeOK' /\ RequestsSound' /\ RowsKept
  <1>1. TypeOK'
    BY DEF Deactivate, TypeOK
  <1>2. RowsKept
    BY DEF Deactivate, RowsKept
  <1> QED  BY <1>1, <1>2, SoundKept DEF Deactivate, RequestsSound

LEMMA NextInv ==
    ASSUME TypeOK, RequestsSound, [Next]_vars
    PROVE  TypeOK' /\ RequestsSound' /\ RowsKept
  <1>1. CASE UNCHANGED vars
    <2>1. TypeOK' /\ RowsKept
      BY <1>1 DEF vars, TypeOK, RowsKept
    <2> QED  BY <1>1, <2>1, SoundKept DEF vars, RequestsSound
  <1>2. CASE Next
    BY <1>2, StepInv, ArriveInv, CrashInv, DeactivateInv DEF Next
  <1> QED  BY <1>1, <1>2

LEMMA InitInv == Init => TypeOK /\ RequestsSound
  <1> SUFFICES ASSUME Init  PROVE TypeOK /\ RequestsSound
    OBVIOUS
  <1>1. (CHOOSE c \in Calls : TRUE) \in Call
    BY CallAssumption
  <1>2. users \in [{} -> Row]
    BY DEF Init
  <1>3. TypeOK
    BY <1>1, <1>2 DEF Init, TypeOK
  <1>4. RequestsSound
    BY DEF Init, RequestsSound, Sound, Waiting
  <1> QED  BY <1>3, <1>4

\* TypeOK and the inductive invariant hold in every reachable state.
THEOREM Invariance == Spec => [](TypeOK /\ RequestsSound)
  <1>1. TypeOK /\ RequestsSound /\ [Next]_vars => TypeOK' /\ RequestsSound'
    BY NextInv
  <1> QED  BY InitInv, <1>1, PTL DEF Spec

\* The variables keep their types.
THEOREM TypeCorrect == Spec => []TypeOK
  BY Invariance, PTL

\* Rows are never removed and never change tenant.
THEOREM RowsStayed == Spec => RowsStay
  <1>1. TypeOK /\ RequestsSound /\ [Next]_vars =>
           [\A i \in DOMAIN users :
               i \in DOMAIN users' /\ users'[i].tenantId = users[i].tenantId]_vars
    BY NextInv DEF RowsKept
  <1> QED  BY Invariance, <1>1, PTL DEF Spec, RowsStay

-----------------------------------------------------------------------------

\* Only two steps change the table.
LEMMA TableChange ==
    ASSUME [Next]_vars
    PROVE  UNCHANGED users \/ \E r \in Requests : Insert(r) \/ Save(r)
  BY DEF Next, vars, Step, Arrive, Crash, Deactivate, RefuseUnauthenticated,
         RefuseRole, RefuseCall, Admit, Goto, List, CheckUsername, CheckEmail,
         InsertRejected, RefuseMissing, RefuseForeignRow, Get, Load,
         SaveRejected, Fail

LEMMA InsertTable ==
    ASSUME TypeOK, RequestsSound, NEW r \in Requests, Insert(r)
    PROVE  /\ call[r].op = "create" /\ ~ Malformed(call[r]) /\ Known(r)
           /\ ~ ForeignTenant(call[r])
           /\ ~ UsernameTaken(call[r].username, {})
           /\ \E i \in Ids \ DOMAIN users :
                 users' = [j \in DOMAIN users \cup {i} |->
                              IF j = i THEN NewRow(call[r]) ELSE users[j]]
           /\ pc[r] = "insert" /\ pc'[r] = "answered"
           /\ call' = call
  BY DEF Insert, RequestsSound, Sound, InCreate, Waiting, Answer, TypeOK

LEMMA SaveTable ==
    ASSUME TypeOK, RequestsSound, NEW r \in Requests, Save(r)
    PROVE  /\ InSave(r) /\ Known(r)
           /\ users' = [users EXCEPT ![call[r].id] =
                           Written(users[call[r].id], doc[r], cols[r])]
           /\ pc[r] = "save" /\ pc'[r] = "answered"
           /\ call' = call
  <1>1. InSave(r) /\ Known(r)
    BY DEF Save, RequestsSound, Sound, Waiting
  <1> QED  BY <1>1 DEF Save, InSave, Answer, TypeOK

\* A column that the UPDATE does not write keeps its value.
LEMMA WrittenColumns ==
    ASSUME NEW row \in Row, NEW d \in Row, NEW cs \in SUBSET Columns
    PROVE  /\ \A k \in cs : Written(row, d, cs)[k] = d[k]
           /\ \A k \in Columns \ cs : Written(row, d, cs)[k] = row[k]
           /\ Written(row, d, cs).tenantId = row.tenantId
  BY DEF Written, Row, Columns

\* Usernames stay unique over all tenants (the index on users.username).
THEOREM UsernamesStayUnique == Spec => []UsernamesUnique
  <1>1. Init => UsernamesUnique
    BY DEF Init, UsernamesUnique
  <1>2. TypeOK /\ RequestsSound /\ UsernamesUnique /\ [Next]_vars => UsernamesUnique'
    <2> SUFFICES ASSUME TypeOK, RequestsSound, UsernamesUnique, [Next]_vars
                 PROVE  UsernamesUnique'
      OBVIOUS
    <2>1. CASE UNCHANGED users
      BY <2>1 DEF UsernamesUnique
    <2>2. ASSUME NEW r \in Requests, Insert(r)  PROVE UsernamesUnique'
      <3>1. PICK i \in Ids \ DOMAIN users :
              users' = [j \in DOMAIN users \cup {i} |->
                              IF j = i THEN NewRow(call[r]) ELSE users[j]]
        BY <2>2, InsertTable
      <3>2. ~ UsernameTaken(call[r].username, {})
        BY <2>2, InsertTable
      <3>3. NewRow(call[r]).username = call[r].username
        BY DEF NewRow
      <3> QED  BY <3>1, <3>2, <3>3 DEF UsernamesUnique, UsernameTaken
    <2>3. ASSUME NEW r \in Requests, Save(r)  PROVE UsernamesUnique'
      <3> DEFINE i == call[r].id
                 new == Written(users[i], doc[r], cols[r])
      <3>1. users' = [users EXCEPT ![i] = new] /\ InSave(r)
        BY <2>3, SaveTable
      <3>2. i \in DOMAIN users /\ users[i] \in Row /\ doc[r] \in Row
        BY <3>1 DEF InSave, TypeOK
      <3>3. CASE "username" \in cols[r]
        <4>1. new.username = doc[r].username
          BY <3>3 DEF Written
        <4>2. ~ UsernameTaken(doc[r].username, {i})
          BY <2>3, <3>3 DEF Save
        <4> QED  BY <3>1, <3>2, <4>1, <4>2 DEF UsernamesUnique, UsernameTaken, TypeOK
      <3>4. CASE "username" \notin cols[r]
        <4>1. new.username = users[i].username
          BY <3>4 DEF Written
        <4> QED  BY <3>1, <3>2, <4>1 DEF UsernamesUnique, TypeOK
      <3> QED  BY <3>3, <3>4
    <2> QED  BY <2>1, <2>2, <2>3, TableChange
  <1> QED  BY <1>1, <1>2, Invariance, PTL DEF Spec

\* A request that writes has authority over the row it writes.
LEMMA WriteAuthority ==
    ASSUME TypeOK, RequestsSound, [Next]_vars, NEW i \in DOMAIN users',
           i \in DOMAIN users => users'[i] # users[i]
    PROVE  \E r \in Requests :
              /\ pc[r] \in {"insert", "save"} /\ pc'[r] = "answered"
              /\ RoleOf[call[r].admin] \in {"super-admin", "admin"}
              /\ MayTouch(call[r], users'[i])
  <1>1. ~ UNCHANGED users
    OBVIOUS
  <1>2. ASSUME NEW r \in Requests, Insert(r)
        PROVE  /\ pc[r] \in {"insert", "save"} /\ pc'[r] = "answered"
               /\ RoleOf[call[r].admin] \in {"super-admin", "admin"}
               /\ MayTouch(call[r], users'[i])
    <2>1. PICK n \in Ids \ DOMAIN users :
            users' = [j \in DOMAIN users \cup {n} |->
                              IF j = n THEN NewRow(call[r]) ELSE users[j]]
      BY <1>2, InsertTable
    <2>2. i = n
      BY <2>1
    <2>3. MayTouch(call[r], NewRow(call[r]))
      BY DEF MayTouch, NewRow, Target
    <2> QED  BY <1>2, <2>1, <2>2, <2>3, InsertTable DEF Known, AllowedRoles
  <1>3. ASSUME NEW r \in Requests, Save(r)
        PROVE  /\ pc[r] \in {"insert", "save"} /\ pc'[r] = "answered"
               /\ RoleOf[call[r].admin] \in {"super-admin", "admin"}
               /\ MayTouch(call[r], users'[i])
    <2>1. /\ users' = [users EXCEPT ![call[r].id] =
                           Written(users[call[r].id], doc[r], cols[r])]
          /\ InSave(r) /\ Known(r)
      BY <1>3, SaveTable
    <2>2. i = call[r].id
      BY <2>1 DEF TypeOK
    <2>3. MayTouch(call[r], users'[i])
      BY <2>1, <2>2 DEF InSave, MayTouch, Written, TypeOK
    <2>4. RoleOf[call[r].admin] \in {"super-admin", "admin"}
      BY <2>1 DEF Known, AllowedRoles, InSave, InRow
    <2> QED  BY <1>3, <2>3, <2>4, SaveTable
  <1> QED  BY <1>1, <1>2, <1>3, TableChange

\* Every write is within the writer's authority, for any interleaving.
THEOREM WritesStayInTenant == Spec => WritesInTenant
  <1>1. TypeOK /\ RequestsSound /\ [Next]_vars =>
          [\A i \in DOMAIN users' :
             (i \in DOMAIN users => users'[i] # users[i]) =>
                \E r \in Requests :
                   /\ pc[r] \in {"insert", "save"} /\ pc'[r] = "answered"
                   /\ RoleOf[call[r].admin] \in {"super-admin", "admin"}
                   /\ MayTouch(call[r], users'[i])]_vars
    BY WriteAuthority
  <1> QED  BY Invariance, <1>1, PTL DEF Spec, WritesInTenant

\* Concurrent changes of different columns never undo each other.
THEOREM ColumnsChangeAsAsked == Spec => ColumnsAsAsked
  <1>1. ASSUME TypeOK, RequestsSound, [Next]_vars,
               NEW i \in DOMAIN users, NEW k \in Columns,
               users'[i][k] # users[i][k]
        PROVE  \E r \in Requests :
                  pc[r] = "save" /\ call[r].id = i /\ k \in Asked(call[r])
    <2>1. PICK r \in Requests : Insert(r) \/ Save(r)
      BY <1>1, TableChange
    <2>2. ~ Insert(r)
      BY <1>1, InsertTable
    <2>3. /\ InSave(r) /\ pc[r] = "save"
          /\ users' = [users EXCEPT ![call[r].id] =
                           Written(users[call[r].id], doc[r], cols[r])]
      BY <1>1, <2>1, <2>2, SaveTable
    <2>4. i = call[r].id
      BY <1>1, <2>3 DEF TypeOK
    <2>5. users'[i] = Written(users[i], doc[r], cols[r])
      BY <2>3, <2>4 DEF TypeOK
    <2>6. users[i] \in Row /\ doc[r] \in Row /\ cols[r] \in SUBSET Columns
      BY <1>1, <2>3 DEF TypeOK, InSave
    <2>7. k \in cols[r]
      BY <1>1, <2>5, <2>6, WrittenColumns
    <2> QED  BY <2>3, <2>4, <2>7 DEF InSave, AsAsked
  <1>2. TypeOK /\ RequestsSound /\ [Next]_vars =>
          [\A i \in DOMAIN users, k \in Columns : users'[i][k] # users[i][k] =>
              \E r \in Requests :
                 pc[r] = "save" /\ call[r].id = i /\ k \in Asked(call[r])]_vars
    BY <1>1
  <1> QED  BY Invariance, <1>2, PTL DEF Spec, ColumnsAsAsked

\* What one answered request shows: the body of ShownInTenant.
Shows(r) ==
    pc[r] = "answered" =>
        \A i \in shown[r] : i \in DOMAIN users /\ MayTouch(call[r], users[i])

LEMMA ShowsKept ==
    ASSUME NEW q \in Requests, Shows(q), RowsKept,
           pc'[q] = pc[q], call'[q] = call[q], shown'[q] = shown[q]
    PROVE  Shows(q)'
  BY DEF Shows, RowsKept, MayTouch, IsSuper

\* The step of one request: the others keep what they show.
LEMMA StepShows ==
    ASSUME TypeOK, RequestsSound, ShownInTenant, NEW r \in Requests,
           Step(r) \/ Fail(r)
    PROVE  ShownInTenant'
  <1>1. RowsKept
    BY StepInv
  <1>2. ASSUME NEW code, NEW ids, Answer(r, code, ids),
               \A i \in ids : i \in DOMAIN users' /\ MayTouch(call[r], users'[i])
        PROVE  ShownInTenant'
    <2>1. Shows(r)'
      BY <1>2 DEF Shows, Answer, TypeOK, MayTouch, IsSuper
    <2>2. ASSUME NEW q \in Requests \ {r}  PROVE Shows(q)'
      <3>1. pc'[q] = pc[q] /\ call'[q] = call[q] /\ shown'[q] = shown[q]
        BY <1>2 DEF Answer, TypeOK
      <3>2. Shows(q)
        BY DEF Shows, ShownInTenant
      <3> QED  BY <1>1, <3>1, <3>2, ShowsKept
    <2> QED  BY <2>1, <2>2 DEF ShownInTenant, Shows
  <1>3. ASSUME NEW label \in Waiting, Goto(r, label)  PROVE ShownInTenant'
    BY <1>3 DEF Goto, ShownInTenant, TypeOK, Waiting, MayTouch, IsSuper
  <1>4. CASE \E code : Answer(r, code, {})
    BY <1>2, <1>4
  <1>5. CASE List(r)
    <2>1. call[r].op = "list" /\ UNCHANGED users
      BY <1>5 DEF List, RequestsSound, Sound
    <2>2. \A i \in DOMAIN users :
             (IsSuper(call[r]) /\ Target(call[r]) = None)
                \/ users[i].tenantId = Target(call[r]) => MayTouch(call[r], users[i])
      BY DEF MayTouch, Target
    <2> QED  BY <1>2, <1>5, <2>1, <2>2 DEF List
  <1>6. CASE Get(r)
    BY <1>2, <1>6 DEF Get
  <1>7. CASE Insert(r)
    <2>1. PICK i \in Ids \ DOMAIN users :
            /\ users' = [j \in DOMAIN users \cup {i} |->
                            IF j = i THEN NewRow(call[r]) ELSE users[j]]
            /\ Answer(r, 201, {i}) \/ Answer(r, 500, {})
      BY <1>7 DEF Insert
    <2>2. MayTouch(call[r], NewRow(call[r]))
      BY DEF MayTouch, NewRow, Target
    <2>3. i \in DOMAIN users' /\ users'[i] = NewRow(call[r])
      BY <2>1
    <2> QED  BY <1>2, <1>4, <2>1, <2>2, <2>3
  <1>8. CASE Save(r)
    <2>1. InSave(r)
      BY <1>8, SaveTable
    <2>2. call[r].id \in DOMAIN users' /\ MayTouch(call[r], users'[call[r].id])
      BY <1>1, <2>1 DEF InSave, RowsKept, MayTouch
    <2>3. \/ Answer(r, 200, {call[r].id})
          \/ \E code : Answer(r, code, {})
      BY <1>8 DEF Save
    <2> QED  BY <1>2, <1>4, <2>2, <2>3
  <1>9. CASE Admit(r) \/ Load(r)
    BY <1>3, <1>9 DEF Admit, Load, FirstAccess, Waiting
  <1>10. CASE CheckUsername(r) \/ CheckEmail(r)
    BY <1>3, <1>4, <1>10 DEF CheckUsername, CheckEmail, Waiting
  <1>11. CASE \/ RefuseUnauthenticated(r) \/ RefuseRole(r) \/ RefuseCall(r)
              \/ RefuseMissing(r) \/ RefuseForeignRow(r)
              \/ InsertRejected(r) \/ SaveRejected(r) \/ Fail(r)
    BY <1>4, <1>11 DEF RefuseUnauthenticated, RefuseRole, RefuseCall, RefuseMissing,
         RefuseForeignRow, InsertRejected, SaveRejected, Fail
  <1> QED  BY <1>5, <1>6, <1>7, <1>8, <1>9, <1>10, <1>11 DEF Step

\* An answer shows an administrator rows of its own tenant only.
THEOREM AnswersStayInTenant == Spec => []ShownInTenant
  <1>1. Init => ShownInTenant
    BY DEF Init, ShownInTenant
  <1>2. TypeOK /\ RequestsSound /\ ShownInTenant /\ [Next]_vars => ShownInTenant'
    <2> SUFFICES ASSUME TypeOK, RequestsSound, ShownInTenant, [Next]_vars
                 PROVE  ShownInTenant'
      OBVIOUS
    <2>1. ASSUME NEW r \in Requests, Arrive(r)  PROVE ShownInTenant'
      BY <2>1 DEF Arrive, ShownInTenant, TypeOK, MayTouch, IsSuper
    <2>2. CASE Crash \/ \E a \in Leavers : Deactivate(a)
      BY <2>2 DEF Crash, Deactivate, ShownInTenant, TypeOK, MayTouch, IsSuper
    <2>3. CASE UNCHANGED vars
      BY <2>3 DEF vars, ShownInTenant, MayTouch, IsSuper
    <2> QED  BY <2>1, <2>2, <2>3, StepShows DEF Next
  <1> QED  BY <1>1, <1>2, Invariance, PTL DEF Spec

-----------------------------------------------------------------------------
(***************************************************************************)
(* UserDirectory implements UserRegistry.  Arrive is Ask; the look-up of   *)
(* the address and the load of a row are Look; an answer is the one effect *)
(* of a request, a crash is Forget, and the rest are stutters.             *)
(***************************************************************************)

\* Both modules mean the same by what they take from UserCalls.
LEMMA SameTerms ==
    /\ \A c : /\ Registry!IsSuper(c) <=> IsSuper(c)
              /\ Registry!Target(c) = Target(c)
              /\ Registry!NewRow(c) = NewRow(c)
              /\ Registry!Asked(c) = Asked(c)
    /\ \A c, row : Registry!MayTouch(c, row) <=> MayTouch(c, row)
    /\ \A op : Registry!AllowedRoles(op) = AllowedRoles(op)
    /\ Registry!Columns = Columns /\ Registry!Row = Row
  BY DEF IsSuper, Registry!IsSuper, Target, Registry!Target, NewRow, Registry!NewRow,
     Asked, Registry!Asked, MayTouch, Registry!MayTouch, AllowedRoles,
     Registry!AllowedRoles, Roles, Registry!Roles, Columns, Registry!Columns, Row,
     Registry!Row, Statuses, Registry!Statuses, Profiles, Registry!Profiles

LEMMA KnownEntitled ==
    ASSUME NEW r \in Requests, Known(r)
    PROVE  Registry!Entitled(call[r])
  BY SameTerms DEF Known, Registry!Entitled

LEMMA SameMine ==
    ASSUME NEW c
    PROVE  Registry!Mine(c) <=> c.id \in DOMAIN users /\ MayTouch(c, users[c.id])
  BY SameTerms DEF Registry!Mine

\* The draft of a request follows its place and its instance.
LEMMA DraftIs ==
    ASSUME NEW r \in Requests
    PROVE  /\ Draft[r] = CASE pc[r] = "insert" -> call[r].profile
                           [] pc[r] = "save"   -> doc[r].profile
                           [] OTHER            -> None
           /\ Progress[r] = IF pc[r] \in Waiting THEN "asked" ELSE pc[r]
  BY DEF Draft, Progress

\* A step of one request moves its own phase and its own draft.
LEMMA OthersKeep ==
    ASSUME TypeOK, NEW r \in Requests, NEW phase, NEW draft,
           Progress'[r] = phase, Draft'[r] = draft,
           \A q \in Requests \ {r} :
              pc'[q] = pc[q] /\ call'[q] = call[q] /\ doc'[q] = doc[q]
    PROVE  /\ Progress' = [Progress EXCEPT ![r] = phase]
           /\ Draft' = [Draft EXCEPT ![r] = draft]
  <1>1. \A q \in Requests \ {r} : Progress'[q] = Progress[q]
    BY DEF Progress
  <1>2. \A q \in Requests \ {r} : Draft'[q] = Draft[q]
    BY DEF Draft
  <1>3. /\ Progress = [q \in Requests |-> Progress[q]]
        /\ Progress' = [q \in Requests |-> Progress'[q]]
    BY DEF Progress
  <1>4. /\ Draft = [q \in Requests |-> Draft[q]]
        /\ Draft' = [q \in Requests |-> Draft'[q]]
    BY DEF Draft
  <1> QED  BY <1>1, <1>2, <1>3, <1>4

LEMMA AnswerReplies ==
    ASSUME TypeOK, NEW r \in Requests, pc[r] \in Waiting,
           NEW code, NEW ids, Answer(r, code, ids)
    PROVE  Registry!Reply(r, code)
  <1>1. /\ pc'[r] = "answered"
        /\ \A q \in Requests \ {r} :
              pc'[q] = pc[q] /\ call'[q] = call[q] /\ doc'[q] = doc[q]
    BY DEF Answer, TypeOK
  <1>2. Progress[r] = "asked"
    BY DraftIs
  <1>3. Progress'[r] = "answered" /\ Draft'[r] = None
    BY <1>1 DEF Progress, Draft, Waiting
  <1>4. /\ Progress' = [Progress EXCEPT ![r] = "answered"]
        /\ Draft' = [Draft EXCEPT ![r] = None]
    BY <1>1, <1>3, OthersKeep
  <1> QED  BY <1>2, <1>4 DEF Registry!Reply, Answer

\* Going from one access to the next is not seen, but for the write.
LEMMA GotoStutters ==
    ASSUME TypeOK, NEW r \in Requests, pc[r] \in Waiting \ {"insert", "save"},
           NEW label \in Waiting \ {"insert", "save"}, Goto(r, label), doc' = doc
    PROVE  UNCHANGED Registry!vars
  <1>1. Progress' = Progress
    BY DEF Goto, Progress, TypeOK
  <1>2. Draft' = Draft
    BY DEF Goto, Draft, TypeOK
  <1> QED  BY <1>1, <1>2 DEF Goto, Registry!vars

\* Going to the write is to have looked.
LEMMA GotoLooks ==
    ASSUME TypeOK, NEW r \in Requests, pc[r] \in Waiting \ {"insert", "save"},
           NEW label \in {"insert", "save"}, Goto(r, label),
           \A q \in Requests \ {r} : doc'[q] = doc[q],
           NEW profile, Draft'[r] = profile
    PROVE  /\ Progress[r] = "asked" /\ Draft[r] = None
           /\ Draft' = [Draft EXCEPT ![r] = profile]
           /\ UNCHANGED <<users, Progress, call, reply>>
  <1>1. Progress[r] = "asked" /\ Draft[r] = None
    BY DraftIs DEF Waiting
  <1>2. /\ pc'[r] = label /\ UNCHANGED <<users, call, reply>>
        /\ \A q \in Requests \ {r} : pc'[q] = pc[q]
    BY DEF Goto, TypeOK
  <1>3. Progress'[r] = "asked"
    BY <1>2 DEF Progress, Waiting
  <1>4. /\ Progress' = [Progress EXCEPT ![r] = "asked"]
        /\ Draft' = [Draft EXCEPT ![r] = profile]
    BY <1>2, <1>3, OthersKeep
  <1>5. Progress' = Progress
    BY <1>1, <1>4 DEF Progress
  <1> QED  BY <1>1, <1>2, <1>4, <1>5

LEMMA UsernameUsed ==
    ASSUME NEW c, UsernameFound(c.username, Target(c))
    PROVE  Registry!Used(c, "username")
  <1>1. PICK i \in DOMAIN users :
           users[i].username = c.username /\ InScope(users[i], Target(c))
    BY DEF UsernameFound
  <1>2. users[i]["username"] = c["username"]
    BY <1>1
  <1> QED  BY <1>1, <1>2, SameTerms DEF InScope, Registry!Used

LEMMA EmailUsed ==
    ASSUME NEW c
    PROVE  EmailFound(c.email, Target(c)) <=> Registry!Used(c, "email")
  <1>1. \A i : users[i]["email"] = users[i].email /\ c["email"] = c.email
    OBVIOUS
  <1>2. \A i : InScope(users[i], Target(c)) <=>
                  Registry!Target(c) \in {None, users[i].tenantId}
    BY SameTerms DEF InScope
  <1> QED  BY <1>1, <1>2 DEF EmailFound, Registry!Used

\* A refusal has the reason that the registry asks for.
LEMMA RefusalImplements ==
    ASSUME TypeOK, RequestsSound, NEW r \in Requests,
           \/ RefuseUnauthenticated(r) \/ RefuseRole(r) \/ RefuseCall(r)
           \/ RefuseMissing(r) \/ RefuseForeignRow(r)
           \/ InsertRejected(r) \/ SaveRejected(r) \/ Fail(r)
    PROVE  Registry!Refused(r)
  <1> DEFINE c == call[r]
  <1>1. CASE RefuseUnauthenticated(r) \/ InsertRejected(r) \/ SaveRejected(r) \/ Fail(r)
    <2>1. /\ pc[r] \in Waiting /\ UNCHANGED users
          /\ Answer(r, 401, {}) \/ Answer(r, 500, {})
      BY <1>1 DEF RefuseUnauthenticated, InsertRejected, SaveRejected, Fail, Waiting
    <2> QED  BY <2>1, AnswerReplies DEF Registry!Refused
  <1>2. CASE RefuseRole(r)
    <2>1. Registry!Reply(r, 403) /\ UNCHANGED users
      BY <1>2, AnswerReplies DEF RefuseRole, Waiting
    <2>2. c.admin \in Admins /\ ~ Registry!Entitled(c)
      BY <1>2, SameTerms DEF RefuseRole, Authenticated, Registry!Entitled
    <2> QED  BY <2>1, <2>2 DEF Registry!Refused
  <1>3. CASE RefuseCall(r)
    <2>1. pc[r] \in Waiting /\ UNCHANGED users
      BY <1>3 DEF RefuseCall, Waiting
    <2>2. CASE Malformed(c) /\ Answer(r, 400, {})
      <3>1. Registry!Reply(r, 400) /\ None \in {c.username, c.email, c.password}
        BY <2>1, <2>2, AnswerReplies DEF Malformed
      <3> QED  BY <2>1, <3>1 DEF Registry!Refused
    <2>3. CASE ForeignTenant(c) /\ Answer(r, 403, {})
      <3>1. c.op = "create" /\ c.tenantId \notin {None, Registry!Target(c)}
        BY <2>3, SameTerms DEF ForeignTenant, Target
      <3>2. Registry!Reply(r, 403)
        BY <2>1, <2>3, AnswerReplies
      <3> QED  BY <2>1, <3>1, <3>2 DEF Registry!Refused
    <2> QED  BY <1>3, <2>2, <2>3 DEF RefuseCall
  <1>4. CASE RefuseMissing(r) \/ RefuseForeignRow(r)
    <2>1. Registry!OnRow(c) /\ pc[r] \in Waiting /\ UNCHANGED users
      BY <1>4 DEF RefuseMissing, RefuseForeignRow, RequestsSound, Sound, InRow,
         Registry!OnRow, Waiting
    <2>2. CASE RefuseMissing(r)
      <3>1. Registry!Reply(r, 404) /\ c.id \notin DOMAIN users
        BY <2>1, <2>2, AnswerReplies DEF RefuseMissing
      <3> QED  BY <2>1, <3>1 DEF Registry!Refused
    <2>3. CASE RefuseForeignRow(r)
      <3>1. Registry!Reply(r, 403) /\ c.id \in DOMAIN users /\ ~ Registry!Mine(c)
        BY <2>1, <2>3, AnswerReplies, SameMine DEF RefuseForeignRow
      <3> QED  BY <2>1, <3>1 DEF Registry!Refused
    <2> QED  BY <1>4, <2>2, <2>3
  <1> QED  BY <1>1, <1>2, <1>3, <1>4

LEMMA ReadImplements ==
    ASSUME TypeOK, RequestsSound, NEW r \in Requests, List(r) \/ Get(r)
    PROVE  Registry!Read(r)
  <1>1. Registry!Entitled(call[r])
    BY KnownEntitled DEF List, Get, RequestsSound, Sound, Waiting
  <1>2. /\ pc[r] \in Waiting /\ UNCHANGED users
        /\ \E ids : Answer(r, 200, ids)
    BY DEF List, Get, Waiting
  <1>3. call[r].op = "list" \/ (call[r].op = "get" /\ Registry!Mine(call[r]))
    BY SameMine DEF List, Get, RequestsSound, Sound
  <1> QED  BY <1>1, <1>2, <1>3, AnswerReplies DEF Registry!Read

\* A create that finds something in use is refused; one that finds the address
\* free has looked.
LEMMA CheckImplements ==
    ASSUME TypeOK, RequestsSound, NEW r \in Requests,
           CheckUsername(r) \/ CheckEmail(r)
    PROVE  \/ Registry!Refused(r) \/ Registry!Look(r)
           \/ UNCHANGED Registry!vars
  <1> DEFINE c == call[r]
  <1>1. InCreate(r) /\ Known(r) /\ pc[r] \in {"checkUsername", "checkEmail"}
    BY DEF CheckUsername, CheckEmail, RequestsSound, Sound, Waiting
  <1>2. ASSUME Answer(r, 409, {}), UNCHANGED users,
               Registry!Used(c, "username") \/ Registry!Used(c, "email")
        PROVE  Registry!Refused(r)
    <2>1. Registry!Reply(r, 409)
      BY <1>1, <1>2, AnswerReplies DEF Waiting
    <2> QED  BY <1>1, <1>2, <2>1 DEF InCreate, Registry!Refused
  <1>3. CASE CheckUsername(r) /\ UsernameFound(c.username, Target(c))
    BY <1>2, <1>3, UsernameUsed DEF CheckUsername
  <1>4. CASE CheckUsername(r) /\ ~ UsernameFound(c.username, Target(c))
    BY <1>4, GotoStutters DEF CheckUsername, Waiting
  <1>5. CASE CheckEmail(r) /\ EmailFound(c.email, Target(c))
    BY <1>2, <1>5, EmailUsed DEF CheckEmail
  <1>6. CASE CheckEmail(r) /\ ~ EmailFound(c.email, Target(c))
    <2>1. Goto(r, "insert") /\ UNCHANGED <<doc, cols>>
      BY <1>6 DEF CheckEmail
    <2>2. Draft'[r] = c.profile
      BY <2>1 DEF Goto, Draft, TypeOK
    <2>3. /\ Progress[r] = "asked" /\ Draft[r] = None
          /\ Draft' = [Draft EXCEPT ![r] = c.profile]
          /\ UNCHANGED <<users, Progress, call, reply>>
      BY <1>1, <2>1, <2>2, GotoLooks DEF Waiting
    <2>4. c.op = "create" /\ ~ Registry!Used(c, "email") /\ Registry!Entitled(c)
      BY <1>1, <1>6, EmailUsed, KnownEntitled DEF InCreate
    <2> QED  BY <2>3, <2>4 DEF Registry!Look
  <1> QED  BY <1>3, <1>4, <1>5, <1>6

\* What a handler makes of the profile it loaded.
LEMMA EditedProfile ==
    ASSUME NEW c \in Call, NEW row \in Row, c.op \in {"put", "password", "delete"}
    PROVE  Edited(row, c).profile =
              [k \in Keys |-> IF c.op = "put" /\ c.profile[k] # None THEN c.profile[k]
                              ELSE row.profile[k]]
  <1>1. row.profile = [k \in Keys |-> row.profile[k]]
    BY DEF Row, Profiles
  <1>2. CASE c.op = "put"
    <2>1. Edited(row, c).profile = Merge(row.profile, c.profile)
      BY <1>2 DEF Edited, Amended, Row
    <2> QED  BY <1>2, <2>1 DEF Merge, Given
  <1>3. CASE c.op # "put"
    <2>1. Edited(row, c).profile = row.profile
      BY <1>3 DEF Edited, Rekeyed, Retired, Row
    <2> QED  BY <1>1, <1>3, <2>1
  <1> QED  BY <1>2, <1>3

LEMMA LoadImplements ==
    ASSUME TypeOK, RequestsSound, NEW r \in Requests, Load(r)
    PROVE  Registry!Look(r)
  <1> DEFINE c == call[r]
             row == users[c.id]
             drawn == [k \in Keys |-> IF c.op = "put" /\ c.profile[k] # None
                                      THEN c.profile[k] ELSE row.profile[k]]
  <1>1. Known(r) /\ c.op \in {"put", "password", "delete"} /\ pc[r] = "load"
    BY DEF Load, RequestsSound, Sound, InRow, Waiting
  <1>2. /\ c.id \in DOMAIN users /\ MayTouch(c, row) /\ Goto(r, "save")
        /\ doc' = [doc EXCEPT ![r] = Edited(row, c)]
    BY DEF Load
  <1>3. row \in Row /\ c \in Call
    BY <1>2 DEF TypeOK
  <1>4. Draft'[r] = drawn
    <2>1. Draft'[r] = Edited(row, c).profile
      BY <1>2 DEF Goto, Draft, TypeOK
    <2> QED  BY <1>1, <1>3, <2>1, EditedProfile
  <1>5. \A q \in Requests \ {r} : doc'[q] = doc[q]
    BY <1>2 DEF TypeOK
  <1>6. /\ Progress[r] = "asked" /\ Draft[r] = None
        /\ Draft' = [Draft EXCEPT ![r] = drawn]
        /\ UNCHANGED <<users, Progress, call, reply>>
    <2> HIDE DEF drawn
    <2> QED  BY <1>1, <1>2, <1>4, <1>5, GotoLooks DEF Waiting
  <1>7. Registry!Writes(c) /\ Registry!Mine(c) /\ Registry!Entitled(c)
    BY <1>1, <1>2, SameMine, KnownEntitled DEF Registry!Writes
  <1> QED  BY <1>6, <1>7 DEF Registry!Look

LEMMA InsertImplements ==
    ASSUME TypeOK, RequestsSound, NEW r \in Requests, Insert(r)
    PROVE  Registry!Enroll(r)
  <1>1. /\ call[r].op = "create" /\ Known(r)
        /\ ~ UsernameTaken(call[r].username, {})
        /\ \E i \in Ids \ DOMAIN users :
              users' = [j \in DOMAIN users \cup {i} |->
                           IF j = i THEN NewRow(call[r]) ELSE users[j]]
    BY InsertTable
  <1>2. Registry!Entitled(call[r]) /\ Draft[r] # None
    <2>1. Draft[r] = call[r].profile /\ call[r].profile \in Profiles
      BY DraftIs DEF Insert, TypeOK, Call
    <2> QED  BY <1>1, <2>1, KnownEntitled, NoneAssumption
  <1>3. MayTouch(call[r], NewRow(call[r]))
    BY DEF MayTouch, NewRow, Target
  <1>4. Registry!Fresh(call[r].username, {})
    BY <1>1 DEF Registry!Fresh, UsernameTaken
  <1>5. Registry!Reply(r, 201) \/ Registry!Reply(r, 500)
    BY AnswerReplies DEF Insert, Waiting
  <1>6. /\ Registry!MayTouch(call[r], Registry!NewRow(call[r]))
        /\ \E i \in Ids \ DOMAIN users :
              users' = [j \in DOMAIN users \cup {i} |->
                           IF j = i THEN Registry!NewRow(call[r]) ELSE users[j]]
    BY <1>1, <1>3, SameTerms
  <1> QED  BY <1>1, <1>2, <1>4, <1>5, <1>6 DEF Registry!Enroll

LEMMA SaveImplements ==
    ASSUME TypeOK, RequestsSound, NEW r \in Requests, Save(r)
    PROVE  Registry!Amend(r)
  <1> DEFINE i == call[r].id
             new == Written(users[i], doc[r], cols[r])
             changed == {k \in Columns : users'[i][k] # users[i][k]}
  <1>1. InSave(r) /\ Known(r) /\ users' = [users EXCEPT ![i] = new]
    BY SaveTable
  <1>2. /\ i \in DOMAIN users /\ users[i] \in Row /\ doc[r] \in Row
        /\ cols[r] \in SUBSET Columns
    BY <1>1 DEF InSave, TypeOK
  <1>3. users'[i] = new
    BY <1>1, <1>2 DEF TypeOK
  <1>4. new \in Row
    BY <1>2, WrittenType
  <1>5. changed \subseteq cols[r]
    BY <1>2, <1>3, WrittenColumns
  <1>6. \A k \in changed : users'[i][k] = doc[r][k]
    BY <1>2, <1>3, <1>5, WrittenColumns
  <1>7. Registry!AsAsked(call[r], users'[i], changed)
    <2>1. AsAsked(call[r], doc[r], cols[r])
      BY <1>1 DEF InSave
    <2>2. Registry!Asked(call[r]) = Asked(call[r])
      BY SameTerms
    <2>3. changed \subseteq Asked(call[r])
      BY <1>5, <2>1 DEF AsAsked
    <2>4. \A k \in changed \ {"profile"} :
             users'[i][k] = IF call[r].op = "delete" THEN "inactive" ELSE call[r][k]
      BY <1>5, <1>6, <2>1 DEF AsAsked
    <2>5. "profile" \in changed =>
             \A k \in Keys : call[r].profile[k] # None =>
                users'[i].profile[k] = call[r].profile[k]
      <3> SUFFICES ASSUME "profile" \in changed
                   PROVE  \A k \in Keys : call[r].profile[k] # None =>
                             users'[i].profile[k] = call[r].profile[k]
        OBVIOUS
      <3>1. users'[i].profile = doc[r].profile
        BY <1>6
      <3>2. "profile" \in cols[r]
        BY <1>5
      <3> QED  BY <3>1, <3>2, <2>1 DEF AsAsked
    <2> QED  BY <2>2, <2>3, <2>4, <2>5 DEF Registry!AsAsked
  <1>8. "username" \in changed => Registry!Fresh(users'[i].username, {i})
    BY <1>5, <1>6 DEF Save, UsernameTaken, Registry!Fresh
  <1>9. /\ users' \in [DOMAIN users -> Row]
        /\ users'[i].tenantId = users[i].tenantId
        /\ \A j \in DOMAIN users \ {i} : users'[j] = users[j]
    BY <1>1, <1>3, <1>4 DEF TypeOK, Written
  <1>10. /\ Registry!Writes(call[r])
         /\ Registry!Entitled(call[r])
         /\ Registry!Mine(call[r])
    BY <1>1, KnownEntitled, SameMine DEF InSave, InRow, Registry!Writes
  <1>11. \/ Registry!Reply(r, IF call[r].op = "put" THEN 200 ELSE 204)
         \/ Registry!Reply(r, 500)
    BY AnswerReplies DEF Save, Waiting
  <1>12. /\ Registry!Columns = Columns /\ Registry!Row = Row
    BY SameTerms
  <1>13. Draft[r] # None /\ ("profile" \in changed => users'[i].profile = Draft[r])
    <2>1. Draft[r] = doc[r].profile /\ doc[r].profile \in Profiles
      BY <1>2, DraftIs DEF Save, Row
    <2>2. "profile" \in changed => users'[i].profile = doc[r].profile
      BY <1>6
    <2> QED  BY <2>1, <2>2, NoneAssumption
  <1> QED
    BY <1>2, <1>7, <1>8, <1>9, <1>10, <1>11, <1>12, <1>13 DEF Registry!Amend

LEMMA StepImplements ==
    ASSUME TypeOK, RequestsSound, NEW r \in Requests,
           Step(r) \/ Fail(r)
    PROVE  [Registry!Next]_Registry!vars
  <1>1. CASE \/ RefuseUnauthenticated(r) \/ RefuseRole(r) \/ RefuseCall(r)
             \/ RefuseMissing(r) \/ RefuseForeignRow(r)
             \/ InsertRejected(r) \/ SaveRejected(r) \/ Fail(r)
    BY <1>1, RefusalImplements DEF Registry!Next
  <1>2. CASE List(r) \/ Get(r)
    BY <1>2, ReadImplements DEF Registry!Next
  <1>3. CASE CheckUsername(r) \/ CheckEmail(r)
    BY <1>3, CheckImplements DEF Registry!Next
  <1>4. CASE Admit(r)
    BY <1>4, GotoStutters DEF Admit, FirstAccess, Waiting
  <1>5. CASE Load(r)
    BY <1>5, LoadImplements DEF Registry!Next
  <1> QED
    BY <1>1, <1>2, <1>3, <1>4, <1>5, InsertImplements, SaveImplements
       DEF Step, Registry!Next

\* The user API keeps the promise of UserRegistry, for any interleaving of
\* any number of requests, with failures and crashes.
THEOREM Implementation == Spec => ImplementsRegistry
  <1>1. Init => Registry!Init
    BY DEF Init, Registry!Init, Progress, Draft, Waiting
  <1>2. ASSUME TypeOK, RequestsSound, [Next]_vars
        PROVE  [Registry!Next]_Registry!vars
    <2>1. ASSUME NEW r \in Requests, Arrive(r)  PROVE Registry!Ask(r)
      <3>1. Progress[r] # "asked"
        BY <2>1 DEF Arrive, Progress, Waiting
      <3>2. Progress' = [Progress EXCEPT ![r] = "asked"]
        <4>1. pc' = [pc EXCEPT ![r] = "authenticate"]
          BY <2>1 DEF Arrive
        <4>2. \A q \in Requests : Progress'[q] = [Progress EXCEPT ![r] = "asked"][q]
          BY <1>2, <4>1 DEF Progress, TypeOK, Waiting
        <4> QED  BY <4>2 DEF Progress
      <3>3. Draft' = Draft
        BY <1>2, <2>1 DEF Arrive, Draft, TypeOK
      <3> QED  BY <2>1, <3>1, <3>2, <3>3 DEF Arrive, Registry!Ask
    <2>2. ASSUME Crash  PROVE Registry!Forget
      <3>1. pc' = [q \in Requests |-> IF pc[q] \in Waiting THEN "idle" ELSE pc[q]]
        BY <2>2 DEF Crash
      <3>2. \A q \in Requests :
               Progress'[q] = IF Progress[q] = "asked" THEN "idle" ELSE Progress[q]
        BY <1>2, <3>1 DEF Progress, TypeOK, Waiting
      <3>3. Progress' = [q \in Requests |->
                        IF Progress[q] = "asked" THEN "idle" ELSE Progress[q]]
        BY <3>2 DEF Progress
      <3>4. Draft' = [q \in Requests |-> None]
        BY <1>2, <3>1 DEF Draft, TypeOK, Waiting
      <3> QED  BY <2>2, <3>3, <3>4 DEF Crash, Registry!Forget
    <2>3. CASE \E a \in Leavers : Deactivate(a)
      BY <2>3 DEF Deactivate, Registry!vars, Progress, Draft
    <2>4. CASE UNCHANGED vars
      BY <2>4 DEF vars, Registry!vars, Progress, Draft
    <2> QED  BY <1>2, <2>1, <2>2, <2>3, <2>4, StepImplements DEF Next, Registry!Next
  <1>3. TypeOK /\ RequestsSound /\ [Next]_vars => [Registry!Next]_Registry!vars
    BY <1>2
  <1> QED  BY <1>1, <1>3, Invariance, PTL DEF Spec, ImplementsRegistry, Registry!Spec

=============================================================================
