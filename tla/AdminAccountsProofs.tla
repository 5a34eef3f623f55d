------------------------ MODULE AdminAccountsProofs ------------------------
(***************************************************************************)
(* The safety properties of AdminAccounts and its refinement of            *)
(* AccountBook, for every set of calls and any number of jobs.             *)
(***************************************************************************)
EXTENDS AdminAccounts, TLAPS

AccountsOK ==
    /\ DOMAIN accounts \subseteq Emails
    /\ accounts \in [DOMAIN accounts -> Account]
    /\ tokens \subseteq DOMAIN accounts

HolderOK == holder \in {None, "super-admin", "user"}

JobsOK ==
    /\ synced \in BOOLEAN /\ serving \in BOOLEAN
    /\ pc \in [Jobs -> Working \cup {"idle", "done"}]
    /\ call \in [Jobs -> Call]
    /\ doc \in [Jobs -> Account \cup {None}]
    /\ halves \in [Jobs -> Halves]
    /\ reply \in [Jobs -> Replies \cup {None}]

LEMMA TypeParts == TypeOK <=> AccountsOK /\ HolderOK /\ JobsOK
  BY DEF TypeOK, AccountsOK, HolderOK, JobsOK

\* What a job with this call and instance knows when it comes to a label; h
\* is the holder of the name.
InPlace(label, c, d, h) ==
    /\ label = "lookup" => c.op \in SignIns
    /\ label = "saveLogin" =>
          c.op \in SignIns /\ Address(c) \in DOMAIN accounts /\ d \in Account
    /\ label = "auth" =>
          c.op \in Requests \ {"login"} /\ c.by \in tokens \cup {None}
    /\ label = "hydra" => c.op = "page" /\ d \in Account
    /\ label = "createAdmin" =>
          /\ c.op \in {"admin", "tenantAdmin", "create", "onboard"} \cup Starters
          /\ ~ Incomplete(c)
          /\ c.op \in Starters => h = "super-admin"
          /\ c.op \in Requests =>
                /\ c.by \in DOMAIN accounts /\ d \in Account
                /\ accounts[c.by].role \in AllowedRoles(c.op)
                /\ accounts[c.by].tenant = d.tenant
    /\ label \in {"sync", "findSuper", "createUser"} => c.op \in Starters
    /\ label = "reset" => c.op = "reset"

HalvesSound(h) ==
    \A e \in {Default, Second} :
        /\ h[e] \in {"save", "ok"} => e \in DOMAIN accounts
        /\ h[e] = "ok" => accounts[e].password = Standard

ReplySound(r) ==
    r = "initialised" => holder = "super-admin" /\ Default \in DOMAIN accounts

Sound(j) ==
    /\ InPlace(pc[j], call[j], doc[j], holder)
    /\ HalvesSound(halves[j])
    /\ ReplySound(reply[j])

IInv == TypeOK /\ \A j \in Jobs : Sound(j)

\* What no step undoes.
Kept ==
    /\ DOMAIN accounts \subseteq DOMAIN accounts' /\ tokens \subseteq tokens'
    /\ \A e \in DOMAIN accounts :
          /\ accounts'[e].role = accounts[e].role
          /\ accounts'[e].tenant = accounts[e].tenant
          /\ accounts[e].password = Standard => accounts'[e].password = Standard
    /\ holder = "super-admin" => holder' = "super-admin"

Others(j) ==
    \A q \in Jobs \ {j} :
        /\ pc'[q] = pc[q] /\ call'[q] = call[q] /\ doc'[q] = doc[q]
        /\ halves'[q] = halves[q] /\ reply'[q] = reply[q]

Good(j) == TypeOK' /\ Sound(j)' /\ Kept /\ Others(j)

LEMMA OthersSound ==
    ASSUME Kept, NEW q \in Jobs, Sound(q),
           pc'[q] = pc[q], call'[q] = call[q], doc'[q] = doc[q],
           halves'[q] = halves[q], reply'[q] = reply[q]
    PROVE  Sound(q)'
  <1> DEFINE label == pc[q]
             c == call[q]
  <1>1. InPlace(label, c, doc[q], holder)
    BY DEF Sound
  <1>2. label' = label /\ c' = c /\ doc'[q] = doc[q]
    OBVIOUS
  <1>3. Address(c)' = Address(c) /\ Incomplete(c)' = Incomplete(c)
        /\ AllowedRoles(c.op)' = AllowedRoles(c.op)
    BY <1>2 DEF Incomplete, Address, Secret, IsStandard, AllowedRoles
  <1> HIDE DEF label, c
  <1>4. InPlace(label, c, doc[q], holder)'
    <2>1. label = "createAdmin" /\ c.op \in Requests =>
             /\ accounts'[c.by].role \in AllowedRoles(c.op)
             /\ accounts'[c.by].tenant = doc[q].tenant
      BY <1>1 DEF InPlace, Kept
    <2> QED  BY <1>1, <1>2, <1>3, <2>1 DEF InPlace, Kept
  <1>5. HalvesSound(halves[q])' /\ ReplySound(reply[q])'
    BY DEF Sound, Kept, HalvesSound, ReplySound
  <1> QED  BY <1>4, <1>5 DEF Sound, label, c

-----------------------------------------------------------------------------

LEMMA SecretType ==
    ASSUME NEW c \in Call
    PROVE  /\ Address(c) \in Emails \cup {None} /\ Secret(c) \in Passwords \cup {None}
           /\ ~ Incomplete(c) => Address(c) \in Emails /\ Secret(c) \in Passwords
           /\ c.op \in Starters => Address(c) = Default /\ RoleFor(c) = "super-admin"
  <1>1. /\ c.email \in Emails \cup {None} /\ c.password \in Passwords \cup {None}
        /\ Default \in Emails /\ Standard \in Passwords
    BY NameAssumption DEF Call
  <1>2. /\ Address(c) \in {Default, c.email} /\ Secret(c) \in {Standard, c.password}
        /\ IsStandard(c) => Address(c) = Default /\ Secret(c) = Standard
    BY DEF Address, Secret
  <1>3. IsStandard(c) => RoleFor(c) = "super-admin"
    BY DEF RoleFor, IsStandard, Starters
  <1>4. c.op \in Starters => IsStandard(c)
    BY DEF IsStandard
  <1> HIDE DEF Call
  <1> QED  BY <1>1, <1>2, <1>3, <1>4, NameAssumption DEF Incomplete

LEMMA BuiltType ==
    ASSUME NEW c \in Call, NEW user, ~ Incomplete(c), RoleFor(c) \in Roles,
           c.op = "tenantAdmin" => user \in Account
    PROVE  Built(c, user) \in Account
  <1>1. TenantFor(c, user) \in Tenants \cup {None}
    BY DEF TenantFor, Call, Account
  <1> QED  BY <1>1, SecretType DEF Built, Account

LEMMA EndGood ==
    ASSUME TypeOK, NEW j \in Jobs, Sound(j), NEW r \in Replies, End(j, r),
           AccountsOK', HolderOK', Kept,
           r = "initialised" => ReplySound(r)'
    PROVE  Good(j)
  <1>1. JobsOK' /\ Others(j)
    BY DEF End, TypeOK, JobsOK, Others
  <1>2. pc'[j] = "done" /\ halves'[j] = halves[j] /\ reply'[j] = r
    BY DEF End, TypeOK
  <1>3. HalvesSound(halves[j])'
    BY <1>2 DEF Sound, Kept, HalvesSound
  <1>4. InPlace(pc[j], call[j], doc[j], holder)'
    BY <1>2 DEF InPlace
  <1>5. ReplySound(reply[j])'
    BY <1>2 DEF ReplySound
  <1> QED  BY <1>1, <1>3, <1>4, <1>5, TypeParts DEF Good, Sound, TypeOK, AccountsOK,
            HolderOK, JobsOK

LEMMA GotoGood ==
    ASSUME TypeOK, NEW j \in Jobs, Sound(j), NEW label \in Working,
           NEW d \in Account \cup {None}, Goto(j, label, d),
           UNCHANGED <<accounts, tokens, serving>>, synced' \in BOOLEAN,
           HolderOK', holder = "super-admin" => holder' = "super-admin",
           InPlace(label, call[j], d, holder')
    PROVE  Good(j)
  <1>1. JobsOK' /\ Others(j)
    BY DEF Goto, TypeOK, JobsOK, Others
  <1>2. /\ pc'[j] = label /\ doc'[j] = d /\ call' = call
        /\ halves' = halves /\ reply' = reply
    BY DEF Goto, TypeOK
  <1>3. Kept /\ AccountsOK'
    BY DEF Kept, TypeOK, AccountsOK
  <1>4. Sound(j)'
    BY <1>2, <1>3 DEF Sound, Kept, HalvesSound, ReplySound, InPlace
  <1> QED  BY <1>1, <1>3, <1>4 DEF Good, TypeOK, AccountsOK, HolderOK, JobsOK

\* An answer that touches nothing but its job.
LEMMA AnswerGood ==
    ASSUME TypeOK, NEW j \in Jobs, Sound(j), NEW r \in Replies, Answer(j, r),
           UNCHANGED accounts, r # "initialised"
    PROVE  Good(j)
  <1>1. AccountsOK' /\ HolderOK' /\ Kept
    BY DEF Answer, Kept, TypeOK, AccountsOK, HolderOK
  <1> QED  BY <1>1, EndGood DEF Answer

LEMMA ReportType == \A j \in Jobs : Report(j) \in {"swallowed", "refused", "failed"}
  BY DEF Report

LEMMA ThrowGood ==
    ASSUME TypeOK, NEW j \in Jobs, Sound(j), Throw(j), UNCHANGED accounts
    PROVE  Good(j)
  BY AnswerGood, ReportType DEF Throw, Replies

-----------------------------------------------------------------------------

LEMMA SameWritten ==
    ASSUME NEW row \in Account, NEW d
    PROVE  Written(row, d, {}) = row
  BY DEF Written, Account

LEMMA SignInGood ==
    ASSUME IInv, NEW j \in Jobs,
           RefuseUnread(j) \/ Lookup(j) \/ SaveLogin(j)
    PROVE  Good(j)
  <1>0. TypeOK /\ Sound(j)
    BY DEF IInv
  <1>1. CASE RefuseUnread(j)
    BY <1>0, <1>1, AnswerGood DEF RefuseUnread, Replies
  <1>2. CASE Lookup(j)
    <2>1. CASE Answer(j, "refused")
      BY <1>0, <1>2, <2>1, AnswerGood DEF Lookup, Replies
    <2>2. CASE /\ Address(call[j]) \in DOMAIN accounts
               /\ Goto(j, "saveLogin", accounts[Address(call[j])])
               /\ UNCHANGED portal
      <3>1. accounts[Address(call[j])] \in Account /\ UNCHANGED accounts
        BY <1>0, <1>2, <2>2 DEF TypeOK, Lookup
      <3>2. call[j].op \in SignIns
        BY <1>0, <1>2 DEF Sound, InPlace, Lookup
      <3>3. InPlace("saveLogin", call[j], accounts[Address(call[j])], holder')
        BY <2>2, <3>1, <3>2 DEF InPlace
      <3>4. synced' \in BOOLEAN /\ HolderOK' /\ UNCHANGED <<tokens, serving, holder>>
        BY <1>0, <2>2 DEF TypeOK, HolderOK, portal
      <3> QED  BY <1>0, <2>2, <3>1, <3>3, <3>4, GotoGood DEF Working
    <2> QED  BY <1>2, <2>1, <2>2 DEF Lookup
  <1>3. CASE SaveLogin(j)
    <2> DEFINE e == Address(call[j])
    <2>1. e \in DOMAIN accounts /\ call[j].op \in SignIns
      BY <1>0, <1>3 DEF SaveLogin, Sound, InPlace
    <2>2. Dirty(call[j]) = {} /\ accounts[e] \in Account
      BY <1>0, <2>1 DEF Dirty, SignIns, TypeOK
    <2>3. accounts' = [accounts EXCEPT ![e] = accounts[e]]
      BY <1>3, <2>2, SameWritten DEF SaveLogin
    <2>4. accounts' = accounts
      BY <1>0, <2>1, <2>3 DEF TypeOK
    <2>5. tokens' = tokens \cup {e} /\ holder' = holder
      BY <1>3 DEF SaveLogin
    <2>6. AccountsOK' /\ HolderOK' /\ Kept
      BY <1>0, <2>1, <2>4, <2>5 DEF Kept, TypeOK, AccountsOK, HolderOK
    <2> QED  BY <1>0, <1>3, <2>6, EndGood DEF SaveLogin, Replies
  <1> QED  BY <1>1, <1>2, <1>3

-----------------------------------------------------------------------------

LEMMA CreateAdminInPlace ==
    ASSUME NEW c, NEW d, NEW h, ~ Incomplete(c), c.op \notin Requests,
           c.op \in {"create", "onboard"} \cup Starters,
           c.op \in Starters => h = "super-admin"
    PROVE  InPlace("createAdmin", c, d, h)
  BY DEF InPlace

LEMMA PageGood ==
    ASSUME IInv, NEW j \in Jobs, Authenticate(j) \/ ViewPage(j) \/ Home(j) \/ ClientDetail(j)
    PROVE  Good(j)
  <1>0. TypeOK /\ Sound(j) /\ call[j] \in Call
    BY DEF IInv, TypeOK
  <1>1. CASE \E r \in {"refused", "shown"} : Answer(j, r) /\ UNCHANGED accounts
    BY <1>0, <1>1, AnswerGood DEF Replies
  <1>2. CASE Authenticate(j) /\ Goto(j, "createAdmin", accounts[call[j].by])
    <2> DEFINE c == call[j]
               d == accounts[c.by]
    <2>1. /\ c.by \in DOMAIN accounts /\ c.op \in Requests \ {"login", "page", "me"}
          /\ ~ Incomplete(c) /\ d.role \in AllowedRoles(c.op)
      BY <1>0, <1>2 DEF Authenticate, Sound, InPlace, TypeOK, Goto, Answer, End, MayUse
    <2>2. d \in Account /\ UNCHANGED <<accounts, portal>>
      BY <1>0, <1>2, <2>1 DEF TypeOK, Authenticate, Goto, Answer, End
    <2>3. InPlace("createAdmin", c, d, holder')
      BY <2>1, <2>2 DEF InPlace, Requests, Starters
    <2>4. synced' \in BOOLEAN /\ HolderOK' /\ UNCHANGED <<tokens, serving, holder>>
      BY <1>0, <2>2 DEF TypeOK, HolderOK, portal
    <2> QED  BY <1>0, <1>2, <2>2, <2>3, <2>4, GotoGood DEF Working
  <1>3. CASE ViewPage(j) /\ Goto(j, "hydra", accounts[call[j].by])
    <2> DEFINE c == call[j]
               d == accounts[c.by]
    <2>1. c.by \in DOMAIN accounts /\ c.op = "page"
      BY <1>0, <1>3 DEF ViewPage, Sound, InPlace, TypeOK
    <2>2. d \in Account /\ UNCHANGED <<accounts, portal>>
      BY <1>0, <1>3, <2>1 DEF TypeOK, ViewPage, Goto, Answer, End
    <2>3. InPlace("hydra", c, d, holder')
      BY <2>1, <2>2 DEF InPlace
    <2>4. synced' \in BOOLEAN /\ HolderOK' /\ UNCHANGED <<tokens, serving, holder>>
      BY <1>0, <2>2 DEF TypeOK, HolderOK, portal
    <2> QED  BY <1>0, <1>3, <2>2, <2>3, <2>4, GotoGood DEF Working
  <1>4. CASE Home(j) \/ ClientDetail(j)
    BY <1>1, <1>4 DEF Home, ClientDetail
  <1> QED  BY <1>1, <1>2, <1>3, <1>4 DEF Authenticate, ViewPage

LEMMA StartGood ==
    ASSUME IInv, NEW j \in Jobs, Sync(j) \/ FindSuper(j) \/ CreateUser(j)
    PROVE  Good(j)
  <1>0. TypeOK /\ Sound(j) /\ call[j] \in Call
    BY DEF IInv, TypeOK
  <1>1. call[j].op \in Starters
    BY <1>0 DEF Sound, InPlace, Sync, FindSuper, CreateUser
  <1>2. ~ Incomplete(call[j]) /\ call[j].op \notin Requests
    BY <1>1 DEF Incomplete, IsStandard, Starters, Requests
  <1>3. None \in Account \cup {None} /\ HolderOK
    BY <1>0 DEF TypeOK, HolderOK
  <1>4. CASE Sync(j)
    <2>1. InPlace("findSuper", call[j], None, holder')
      BY <1>1 DEF InPlace
    <2> QED  BY <1>0, <1>3, <1>4, <2>1, GotoGood DEF Sync, Working, HolderOK
  <1>5. CASE FindSuper(j)
    <2>1. InPlace("createUser", call[j], None, holder)
      BY <1>1 DEF InPlace
    <2>2. holder = "super-admin" => InPlace("createAdmin", call[j], None, holder)
      BY <1>1, <1>2, CreateAdminInPlace
    <2>3. UNCHANGED <<accounts, tokens, synced, serving, holder>>
      BY <1>5 DEF FindSuper, portal
    <2>4. synced' \in BOOLEAN /\ HolderOK'
      BY <1>0, <2>3 DEF TypeOK, HolderOK
    <2>5. CASE Goto(j, "createUser", None)
      BY <1>0, <1>3, <2>1, <2>3, <2>4, <2>5, GotoGood DEF Working
    <2>6. CASE holder = "super-admin" /\ Goto(j, "createAdmin", None)
      BY <1>0, <1>3, <2>2, <2>3, <2>4, <2>6, GotoGood DEF Working
    <2> QED  BY <1>5, <2>5, <2>6 DEF FindSuper
  <1>6. CASE CreateUser(j)
    <2>1. CASE holder' = "super-admin" /\ Goto(j, "createAdmin", None)
               /\ UNCHANGED <<accounts, tokens, synced, serving>>
      <3>1. InPlace("createAdmin", call[j], None, holder')
        BY <1>1, <1>2, <2>1, CreateAdminInPlace
      <3>2. synced' \in BOOLEAN /\ HolderOK'
        BY <1>0, <2>1 DEF TypeOK, HolderOK
      <3> QED  BY <1>0, <1>3, <2>1, <3>1, <3>2, GotoGood DEF Working
    <2>2. CASE holder' = "super-admin" /\ End(j, "failed")
               /\ UNCHANGED <<accounts, tokens>>
      <3>1. AccountsOK' /\ HolderOK' /\ Kept
        BY <1>0, <2>2 DEF Kept, TypeOK, AccountsOK, HolderOK
      <3> QED  BY <1>0, <2>2, <3>1, EndGood DEF Replies
    <2>3. CASE Throw(j) /\ UNCHANGED accounts
      BY <1>0, <2>3, ThrowGood
    <2> QED  BY <1>6, <2>1, <2>2, <2>3 DEF CreateUser
  <1> QED  BY <1>4, <1>5, <1>6

LEMMA InsertGood ==
    ASSUME IInv, NEW j \in Jobs, InsertAdmin(j)
    PROVE  Good(j)
  <1> DEFINE c == call[j]
             e == Address(c)
             result == IF c.op \in Starters THEN "initialised" ELSE "created"
  <1>0. TypeOK /\ Sound(j) /\ c \in Call
    BY DEF IInv, TypeOK
  <1>1. /\ ~ Incomplete(c)
        /\ c.op \in Starters => holder = "super-admin"
        /\ c.op = "tenantAdmin" => doc[j] \in Account
    BY <1>0 DEF InsertAdmin, Sound, InPlace, Requests
  <1>2. e \in Emails /\ (c.op \in Starters => e = Default /\ RoleFor(c) \in Roles)
    <2>1. /\ ~ Incomplete(c) => e \in Emails
          /\ c.op \in Starters => e = Default /\ RoleFor(c) = "super-admin"
      BY <1>0, SecretType
    <2> QED  BY <1>1, <2>1 DEF Roles
  <1>3. result \in Replies
    BY DEF Replies
  <1>4. CASE Acceptable(c)
    <2>1. e \notin DOMAIN accounts /\ RoleFor(c) \in Roles
      BY <1>4 DEF Acceptable
    <2>9. Built(c, doc[j]) \in Account
      BY <1>0, <1>1, <2>1, BuiltType
    <2>2. accounts' = [f \in DOMAIN accounts \cup {e} |->
                         IF f = e THEN Built(c, doc[j]) ELSE accounts[f]]
      BY <1>4 DEF InsertAdmin
    <2>3. UNCHANGED <<tokens, holder>> /\ \E r \in {result, Report(j)} : End(j, r)
      BY <1>4 DEF InsertAdmin, Answer, Throw
    <2>4. AccountsOK' /\ HolderOK' /\ Kept
      BY <1>0, <1>2, <2>1, <2>2, <2>3, <2>9 DEF Kept, TypeOK, AccountsOK, HolderOK
    <2>5. c.op \in Starters =>
             holder' = "super-admin" /\ Default \in DOMAIN accounts'
      BY <1>1, <1>2, <2>2, <2>3
    <2>6. PICK r \in {result, Report(j)} : End(j, r)
      BY <2>3
    <2>7. r \in Replies /\ (r = "initialised" => c.op \in Starters)
      BY <1>3, ReportType DEF Replies
    <2>8. r = "initialised" => ReplySound(r)'
      BY <2>5, <2>7 DEF ReplySound
    <2> QED  BY <1>0, <2>4, <2>6, <2>7, <2>8, EndGood
  <1>5. CASE ~ Acceptable(c)
    <2>1. PICK r \in {result, "failed"} : Answer(j, r)
      BY <1>5 DEF InsertAdmin
    <2>2. UNCHANGED <<accounts, tokens, holder>> /\ End(j, r)
      BY <1>5, <2>1 DEF InsertAdmin, Answer
    <2>3. AccountsOK' /\ HolderOK' /\ Kept
      BY <1>0, <2>2 DEF Kept, TypeOK, AccountsOK, HolderOK
    <2>4. r \in Replies /\ (r = "initialised" => c.op \in Starters)
      BY <1>3 DEF Replies
    <2>5. c.op \in Starters => Default \in DOMAIN accounts
      BY <1>2, <1>5 DEF Acceptable
    <2>6. r = "initialised" => ReplySound(r)'
      BY <1>1, <2>2, <2>4, <2>5 DEF ReplySound
    <2> QED  BY <1>0, <2>2, <2>3, <2>4, <2>6, EndGood
  <1> QED  BY <1>4, <1>5

LEMMA HalfGood ==
    ASSUME IInv, NEW j \in Jobs, NEW e \in {Default, Second},
           FindHalf(j, e) \/ SaveHalf(j, e) \/ FailHalf(j, e)
    PROVE  Good(j)
  <1>0. TypeOK /\ Sound(j)
    BY DEF IInv
  <1>1. pc[j] = "reset" /\ UNCHANGED <<portal, pc, call, doc, reply>>
    BY DEF FindHalf, SaveHalf, FailHalf, Half
  <1>2. PICK to \in {"save", "ok", "failed"} :
           /\ halves' = [halves EXCEPT ![j][e] = to]
           /\ to = "save" => e \in DOMAIN accounts
           /\ to = "ok" => SaveHalf(j, e)
           /\ UNCHANGED accounts \/ SaveHalf(j, e)
    BY DEF FindHalf, SaveHalf, FailHalf, Half
  <1>3. /\ halves' \in [Jobs -> Halves]
        /\ \A f \in {Default, Second} :
              halves'[j][f] = IF f = e THEN to ELSE halves[j][f]
        /\ \A q \in Jobs \ {j} : halves'[q] = halves[q]
    BY <1>0, <1>2 DEF TypeOK, Halves
  <1>4. SaveHalf(j, e) =>
           /\ e \in DOMAIN accounts
           /\ accounts' = [accounts EXCEPT ![e] = [@ EXCEPT !.password = Standard]]
    <2> SUFFICES ASSUME SaveHalf(j, e)
                 PROVE  /\ e \in DOMAIN accounts
                        /\ accounts' = [accounts EXCEPT ![e] =
                                           [@ EXCEPT !.password = Standard]]
      OBVIOUS
    <2>1. e \in DOMAIN accounts
      BY <1>0 DEF SaveHalf, Half, Sound, HalvesSound
    <2>2. Dirty(call[j]) = {"password"}
      BY <1>0, <1>1 DEF Sound, InPlace, Dirty
    <2> DEFINE row == accounts[e]
               new == [row EXCEPT !.password = Standard]
    <2>3. row \in Account
      BY <1>0, <2>1 DEF TypeOK
    <2>4. Written(row, new, {"password"}) = new
      BY <2>3 DEF Written, Account
    <2> QED  BY <2>1, <2>2, <2>4 DEF SaveHalf
  <1>5. /\ AccountsOK' /\ Kept
        /\ SaveHalf(j, e) =>
              e \in DOMAIN accounts' /\ accounts'[e].password = Standard
    <2>1. CASE UNCHANGED accounts /\ ~ SaveHalf(j, e)
      BY <1>0, <1>1, <2>1 DEF TypeOK, AccountsOK, Kept, portal
    <2>2. CASE SaveHalf(j, e)
      <3>1. accounts[e] \in Account
        BY <1>0, <1>4, <2>2 DEF TypeOK
      <3>2. [accounts[e] EXCEPT !.password = Standard] \in Account
        BY <3>1, NameAssumption DEF Account
      <3>3. /\ [accounts[e] EXCEPT !.password = Standard].password = Standard
            /\ [accounts[e] EXCEPT !.password = Standard].role = accounts[e].role
            /\ [accounts[e] EXCEPT !.password = Standard].tenant = accounts[e].tenant
        BY <3>1 DEF Account
      <3>4. UNCHANGED <<tokens, holder>>
        BY <1>1 DEF portal
      <3>5. /\ DOMAIN accounts' = DOMAIN accounts
            /\ \A f \in DOMAIN accounts \ {e} : accounts'[f] = accounts[f]
            /\ accounts'[e] = [accounts[e] EXCEPT !.password = Standard]
            /\ accounts' \in [DOMAIN accounts -> Account]
        BY <1>0, <1>4, <2>2, <3>2 DEF TypeOK
      <3> QED  BY <1>0, <1>4, <2>2, <3>3, <3>4, <3>5 DEF TypeOK, AccountsOK, Kept
    <2> QED  BY <1>2, <2>1, <2>2
  <1>6. HalvesSound(halves[j])'
    BY <1>0, <1>2, <1>3, <1>5 DEF Sound, HalvesSound, Kept
  <1>7. InPlace(pc[j], call[j], doc[j], holder)' /\ ReplySound(reply[j])'
    BY <1>0, <1>1, <1>5 DEF Sound, InPlace, ReplySound, Kept
  <1>8. HolderOK' /\ JobsOK' /\ Others(j)
    BY <1>0, <1>1, <1>3 DEF TypeOK, HolderOK, JobsOK, Others, portal
  <1> QED  BY <1>5, <1>6, <1>7, <1>8
           DEF Good, Sound, TypeOK, AccountsOK, HolderOK, JobsOK

LEMMA StepGood ==
    ASSUME IInv, NEW j \in Jobs,
           \/ Step(j) \/ Fail(j)
           \/ \E e \in {Default, Second} : FailHalf(j, e)
    PROVE  Good(j)
  <1>0. TypeOK /\ Sound(j)
    BY DEF IInv
  <1>1. CASE Summarise(j)
    BY <1>0, <1>1, AnswerGood DEF Summarise, Replies
  <1>2. CASE NoTable(j) \/ Fail(j)
    BY <1>0, <1>2, ThrowGood DEF NoTable, Fail
  <1> QED  BY <1>1, <1>2, SignInGood, PageGood, StartGood, InsertGood, HalfGood
           DEF Step

LEMMA BeginGood ==
    ASSUME IInv, NEW j \in Jobs, Begin(j)
    PROVE  Good(j)
  <1>0. TypeOK /\ Sound(j)
    BY DEF IInv
  <1>1. PICK c \in Calls[j] :
          /\ c.by \in tokens \cup {None}
          /\ call' = [call EXCEPT ![j] = c]
          /\ pc' = [pc EXCEPT ![j] = First(c.op)]
          /\ halves' = [halves EXCEPT ![j] = IF c.op = "reset"
                THEN [e \in {Default, Second} |-> "find"] ELSE Idle]
    BY DEF Begin
  <1>2. /\ c \in Call /\ c.op \in Ops
        /\ c.op = "onboard" => None \notin {c.email, c.password}
    BY CallAssumption DEF Call
  <1>3. reply' = [reply EXCEPT ![j] = None] /\ UNCHANGED <<accounts, portal, doc>>
    BY DEF Begin
  <1>4. InPlace(First(c.op), c, doc[j], holder) /\ First(c.op) \in Working
    <2>1. CASE c.op \in {"create", "onboard"}
      <3>1. First(c.op) = "createAdmin"
        BY <2>1 DEF First, SignIns, Requests
      <3>2. ~ Incomplete(c)
        BY <1>2, <2>1 DEF Incomplete, IsStandard, Address, Secret, Starters
      <3> QED  BY <2>1, <3>1, <3>2, CreateAdminInPlace
               DEF Requests, Starters, Working
    <2>2. CASE c.op \in SignIns
      BY <2>2 DEF First, SignIns, Requests, InPlace, Working
    <2>3. CASE c.op \in Requests \ {"login"}
      <3>1. First(c.op) = "auth"
        BY <2>3 DEF First, SignIns, Requests
      <3> QED  BY <1>1, <2>3, <3>1 DEF InPlace, Working
    <2>4. CASE c.op \in {"start", "init", "reset"}
      BY <2>4 DEF First, SignIns, Requests, InPlace, Working, Starters
    <2> QED  BY <1>2, <2>1, <2>2, <2>3, <2>4 DEF Ops, Requests, Scripts, SignIns
  <1>5. HalvesSound(halves[j])' /\ ReplySound(reply[j])' /\ Kept /\ AccountsOK'
        /\ HolderOK'
    <2>1. \A e \in {Default, Second} : halves'[j][e] \in {"none", "find"}
      BY <1>0, <1>1 DEF TypeOK, Idle
    <2>2. reply'[j] = None /\ None # "initialised"
      BY <1>0, <1>3, ReplyAssumption DEF TypeOK, Replies
    <2> QED  BY <1>0, <1>3, <2>1, <2>2 DEF HalvesSound, ReplySound, Kept, portal,
             TypeOK, AccountsOK, HolderOK
  <1>6. InPlace(pc[j], call[j], doc[j], holder)'
    <2>1. /\ pc'[j] = First(c.op) /\ call'[j] = c /\ doc'[j] = doc[j]
          /\ UNCHANGED <<accounts, tokens, holder>>
      BY <1>0, <1>1, <1>3 DEF TypeOK, portal
    <2> HIDE DEF First
    <2> QED  BY <1>4, <2>1 DEF InPlace, Incomplete
  <1>7. JobsOK' /\ Others(j)
    <2>1. (IF c.op = "reset" THEN [e \in {Default, Second} |-> "find"] ELSE Idle)
             \in Halves
      BY DEF Halves, Idle
    <2> QED  BY <1>0, <1>1, <1>2, <1>3, <1>4, <2>1 DEF TypeOK, JobsOK, Others, portal
  <1> QED  BY <1>5, <1>6, <1>7 DEF Good, Sound, TypeOK, AccountsOK, HolderOK, JobsOK

-----------------------------------------------------------------------------

\* A step outside of the jobs.
LEMMA AroundJobs ==
    ASSUME IInv, Deactivate \/ TakeName \/ GiveName
    PROVE  IInv'
  <1>0. TypeOK
    BY DEF IInv
  <1>1. UNCHANGED <<tokens, synced, serving, pc, call, doc, halves, reply>>
    BY DEF Deactivate, TakeName, GiveName, portal
  <1>2. AccountsOK' /\ HolderOK' /\ Kept
    <2>1. CASE Deactivate
      <3>1. PICK e \in DOMAIN accounts :
               accounts' = [accounts EXCEPT ![e].active = FALSE]
        BY <2>1 DEF Deactivate
      <3> DEFINE new == [accounts[e] EXCEPT !.active = FALSE]
      <3>2. /\ accounts[e] \in Account /\ new \in Account
            /\ new.password = accounts[e].password
            /\ new.role = accounts[e].role /\ new.tenant = accounts[e].tenant
        BY <1>0 DEF TypeOK, Account
      <3>3. accounts' = [accounts EXCEPT ![e] = new]
        BY <3>1
      <3> HIDE DEF new
      <3>4. /\ DOMAIN accounts' = DOMAIN accounts
            /\ \A f \in DOMAIN accounts \ {e} : accounts'[f] = accounts[f]
            /\ accounts'[e] = new /\ accounts' \in [DOMAIN accounts -> Account]
        BY <1>0, <3>2, <3>3 DEF TypeOK
      <3>5. UNCHANGED <<tokens, holder>>
        BY <2>1 DEF Deactivate, portal
      <3> QED  BY <1>0, <3>2, <3>4, <3>5 DEF TypeOK, AccountsOK, HolderOK, Kept
    <2>2. CASE TakeName \/ GiveName
      BY <1>0, <2>2, NameAssumption
         DEF TakeName, GiveName, Roles, TypeOK, AccountsOK, HolderOK, Kept
    <2> QED  BY <2>1, <2>2
  <1>3. JobsOK'
    BY <1>0, <1>1 DEF TypeOK, JobsOK
  <1>4. \A q \in Jobs : Sound(q)'
    BY <1>1, <1>2, OthersSound DEF IInv
  <1> QED  BY <1>2, <1>3, <1>4 DEF IInv, TypeOK, AccountsOK, HolderOK, JobsOK

LEMMA Crashes ==
    ASSUME IInv, NEW js \in SUBSET Jobs, Lost(js), serving' \in BOOLEAN
    PROVE  IInv'
  <1>0. TypeOK
    BY DEF IInv
  <1>1. AccountsOK' /\ HolderOK' /\ Kept
    BY <1>0 DEF Lost, TypeOK, AccountsOK, HolderOK, Kept
  <1>2. JobsOK'
    <2>1. Idle \in Halves
      BY DEF Idle, Halves
    <2> QED  BY <1>0, <2>1 DEF Lost, TypeOK, JobsOK
  <1>3. ASSUME NEW q \in Jobs \ js  PROVE Sound(q)'
    <2>1. /\ pc'[q] = pc[q] /\ call'[q] = call[q] /\ doc'[q] = doc[q]
          /\ halves'[q] = halves[q] /\ reply'[q] = reply[q]
      BY DEF Lost
    <2> QED  BY <1>1, <1>3, <2>1, OthersSound DEF IInv
  <1>4. ASSUME NEW q \in js  PROVE Sound(q)'
    <2>1. pc'[q] = "idle" /\ halves'[q] = Idle /\ reply'[q] = reply[q]
      BY DEF Lost
    <2>2. InPlace(pc[q], call[q], doc[q], holder)'
      BY <2>1 DEF InPlace
    <2>3. HalvesSound(halves[q])'
      BY <2>1 DEF HalvesSound, Idle
    <2>4. ReplySound(reply[q])'
      BY <1>1, <2>1 DEF IInv, Sound, ReplySound, Kept
    <2> QED  BY <2>2, <2>3, <2>4 DEF Sound
  <1> QED  BY <1>1, <1>2, <1>3, <1>4 DEF IInv, TypeOK, AccountsOK, HolderOK, JobsOK

LEMMA GoodStep ==
    ASSUME IInv, NEW j \in Jobs, Good(j)
    PROVE  IInv'
  <1>1. \A q \in Jobs \ {j} : Sound(q)'
    BY OthersSound DEF Good, Others, IInv
  <1> QED  BY <1>1 DEF Good, IInv

LEMMA Invariance == Spec => []IInv
  <1>1. Init => IInv
    <2> SUFFICES ASSUME Init  PROVE IInv
      OBVIOUS
    <2>1. \A j \in Jobs : (CHOOSE c \in Calls[j] : TRUE) \in Call
      BY CallAssumption
    <2>2. Idle \in Halves
      BY DEF Idle, Halves
    <2>3. TypeOK
      BY <2>1, <2>2 DEF Init, TypeOK
    <2>4. \A j \in Jobs : Sound(j)
      BY ReplyAssumption
         DEF Init, Sound, InPlace, HalvesSound, ReplySound, Idle, Replies
    <2> QED  BY <2>3, <2>4 DEF IInv
  <1>2. IInv /\ [Next]_vars => IInv'
    <2> SUFFICES ASSUME IInv, [Next]_vars  PROVE IInv'
      OBVIOUS
    <2>1. CASE UNCHANGED vars
      BY <2>1 DEF vars, portal, IInv, TypeOK, Sound, InPlace, HalvesSound,
         ReplySound, Incomplete
    <2>2. CASE CrashPortal
      <3>1. PICK js \in SUBSET Jobs : Lost(js)
        BY <2>2 DEF CrashPortal
      <3>2. serving' \in BOOLEAN
        BY <2>2 DEF CrashPortal
      <3> QED  BY <3>1, <3>2, Crashes
    <2>3. ASSUME NEW j \in Jobs, CrashScript(j)  PROVE IInv'
      <3>1. Lost({j}) /\ serving' \in BOOLEAN
        BY <2>3 DEF CrashScript, IInv, TypeOK
      <3> QED  BY <3>1, Crashes
    <2> QED  BY <2>1, <2>2, <2>3, AroundJobs, BeginGood, StepGood, GoodStep DEF Next
  <1> QED  BY <1>1, <1>2, PTL DEF Spec

\* For any calls of any number of jobs.
THEOREM TypeCorrect == Spec => []TypeOK
  <1>1. IInv => TypeOK
    BY DEF IInv
  <1> QED  BY <1>1, Invariance, PTL

\* An address that a reset reports as done has the new password from then on,
\* whatever instances other jobs save.
THEOREM ResetSticks == Spec => []ResetsStick
  <1>1. IInv => ResetsStick
    BY DEF IInv, Sound, HalvesSound, ResetsStick
  <1> QED  BY <1>1, Invariance, PTL

\* An initialisation that went through leaves the administrator behind.
THEOREM FirstAdminExists == Spec => []FirstAdmin
  <1>1. IInv => FirstAdmin
    BY DEF IInv, Sound, ReplySound, FirstAdmin
  <1> QED  BY <1>1, Invariance, PTL

-----------------------------------------------------------------------------

LEMMA StageMoves ==
    ASSUME TypeOK, NEW j \in Jobs, NEW label, NEW c,
           pc' = [pc EXCEPT ![j] = label], call' = [call EXCEPT ![j] = c]
    PROVE  Progress' = [Progress EXCEPT ![j] = Stage(label, c.op)]
  <1>1. \A q \in Jobs : Stage(pc'[q], call'[q].op)
                         = IF q = j THEN Stage(label, c.op) ELSE Stage(pc[q], call[q].op)
    BY DEF TypeOK
  <1> QED  BY <1>1 DEF Progress

LEMMA GotoMoves ==
    ASSUME TypeOK, NEW j \in Jobs, NEW label, NEW d, Goto(j, label, d)
    PROVE  Progress' = [Progress EXCEPT ![j] = Stage(label, call[j].op)]
  <1>1. pc' = [pc EXCEPT ![j] = label] /\ call' = [call EXCEPT ![j] = call[j]]
    BY DEF Goto, TypeOK
  <1> QED  BY <1>1, StageMoves

LEMMA EndMoves ==
    ASSUME TypeOK, NEW j \in Jobs, NEW r, End(j, r)
    PROVE  /\ Progress' = [Progress EXCEPT ![j] = "answered"]
           /\ reply' = [reply EXCEPT ![j] = r] /\ call' = call
  <1>1. pc' = [pc EXCEPT ![j] = "done"] /\ call' = [call EXCEPT ![j] = call[j]]
    BY DEF End, TypeOK
  <1>2. Stage("done", call[j].op) = "answered"
    BY DEF Stage
  <1>3. Progress' = [Progress EXCEPT ![j] = Stage("done", call[j].op)]
    BY <1>1, StageMoves
  <1> QED  BY <1>2, <1>3 DEF End

LEMMA Stages ==
    ASSUME NEW j \in Jobs
    PROVE  /\ pc[j] \in Working => Progress[j] \in {"asked", "entitled"}
           /\ pc[j] \in {"idle", "done"} => Progress[j] \in {"idle", "answered"}
           /\ pc[j] \in {"lookup", "auth", "sync", "findSuper", "createUser", "reset"}
                 => Progress[j] = "asked"
           /\ pc[j] \in {"saveLogin", "hydra"} => Progress[j] = "entitled"
           /\ pc[j] = "createAdmin" =>
                 Progress[j] = IF call[j].op \in Requests THEN "entitled" ELSE "asked"
  BY DEF Progress, Stage, Working

Refusals == {"refused", "failed", "ok", "initialised", "swallowed"}

\* An answer that grants nothing.
LEMMA AnswerImplements ==
    ASSUME TypeOK, NEW j \in Jobs, pc[j] \in Working, NEW r \in Refusals,
           Answer(j, r) \/ (End(j, r) /\ UNCHANGED tokens), UNCHANGED accounts
    PROVE  Book!Answer(j)
  <1>1. End(j, r) /\ UNCHANGED tokens
    BY DEF Answer
  <1>2. Progress[j] \in {"asked", "entitled"}
    BY Stages
  <1> QED  BY <1>1, <1>2, EndMoves
           DEF Book!Answer, Book!End, Book!Move, Refusals

LEMMA ThrowImplements ==
    ASSUME TypeOK, NEW j \in Jobs, pc[j] \in Working, Throw(j), UNCHANGED accounts
    PROVE  Book!Answer(j)
  BY AnswerImplements, ReportType DEF Throw, Refusals

\* A step by which the one who asked gets nothing and notices nothing.
LEMMA Stutters ==
    ASSUME TypeOK, NEW j \in Jobs, NEW label, NEW d, Goto(j, label, d),
           UNCHANGED <<accounts, tokens>>, Stage(label, call[j].op) = Progress[j]
    PROVE  UNCHANGED Book!vars
  <1>1. Progress' = Progress
    <2>1. Progress' = [Progress EXCEPT ![j] = Progress[j]]
      BY GotoMoves
    <2>2. Progress = [q \in Jobs |-> Progress[q]]
      BY DEF Progress
    <2> QED  BY <2>1, <2>2
  <1> QED  BY <1>1 DEF Goto, Book!vars

LEMMA Entitles ==
    ASSUME TypeOK, NEW j \in Jobs, NEW label \in {"saveLogin", "hydra", "createAdmin"},
           NEW d, Goto(j, label, d), Progress[j] = "asked",
           label = "createAdmin" => call[j].op \in Requests,
           UNCHANGED <<accounts, tokens>>, Book!Entitled(call[j])
    PROVE  Book!Entitle(j)
  <1>1. Stage(label, call[j].op) = "entitled"
    BY DEF Stage
  <1> QED  BY <1>1, GotoMoves DEF Goto, Book!Entitle, Book!Move

LEMMA Shows ==
    ASSUME TypeOK, NEW j \in Jobs, Answer(j, "shown"), UNCHANGED accounts,
           Progress[j] = "entitled" \/ (Progress[j] = "asked" /\ Book!Entitled(call[j]))
    PROVE  Book!Show(j)
  BY EndMoves DEF Answer, Book!Show, Book!End, Book!Move

-----------------------------------------------------------------------------

\* Both modules mean the same by a call.
LEMMA SameCalls ==
    /\ Book!Requests = Requests /\ Book!Account = Account
    /\ Book!Creators = {"admin", "tenantAdmin", "onboard", "create"} \cup Starters
    /\ \A c : /\ Book!Address(c) = Address(c)
              /\ Book!IsStandard(c) <=> IsStandard(c)
    /\ \A c, user : /\ Book!Matches(c, user) <=> Matches(c, user)
                    /\ Book!MayUse(c, user) <=> MayUse(c, user)
  <1>1. Book!Requests = Requests /\ Book!Roles = Roles /\ Book!Starters = Starters
    BY DEF Book!Requests, Requests, Book!Roles, Roles, Book!Starters, Starters
  <1>2. Book!Account = Account
    BY <1>1 DEF Book!Account, Account
  <1>3. Book!Creators = {"admin", "tenantAdmin", "onboard", "create"} \cup Starters
    BY <1>1 DEF Book!Creators
  <1>4. ASSUME NEW c
        PROVE  Book!Address(c) = Address(c) /\ (Book!IsStandard(c) <=> IsStandard(c))
    BY <1>1 DEF Book!Address, Address, Book!IsStandard, IsStandard
  <1>5. ASSUME NEW c, NEW user
        PROVE  Book!Matches(c, user) <=> Matches(c, user)
    BY <1>1 DEF Book!Matches, Matches, Book!Secret, Secret, Book!IsStandard, IsStandard
  <1>6. ASSUME NEW c, NEW user
        PROVE  Book!MayUse(c, user) <=> MayUse(c, user)
    <2>1. Book!AllowedRoles(c.op) = AllowedRoles(c.op)
      BY <1>1 DEF Book!AllowedRoles, AllowedRoles
    <2> QED  BY <2>1 DEF Book!MayUse, MayUse
  <1> QED  BY <1>1, <1>2, <1>3, <1>4, <1>5, <1>6

\* A sign-in is entitled by the password, another request by its token.
LEMMA EntitledCalls ==
    ASSUME NEW c
    PROVE  /\ /\ c.op \in SignIns /\ Address(c) \in DOMAIN accounts
              /\ Matches(c, accounts[Address(c)])
              => Book!Entitled(c)
           /\ /\ c.op \in Requests \ {"login"}
              /\ c.by \in tokens \cap DOMAIN accounts /\ MayUse(c, accounts[c.by])
              => Book!Entitled(c)
  <1>1. CASE c.op \in SignIns
    <2>1. c.op \notin Requests \ {"login"}
      BY <1>1 DEF SignIns, Requests
    <2> QED  BY <1>1, <2>1, SameCalls DEF Book!Entitled, SignIns
  <1>2. CASE c.op \in Requests \ {"login"}
    <2>1. c.op \notin {"login", "test"} /\ c.op \notin SignIns
      BY <1>2 DEF Requests, SignIns
    <2> QED  BY <1>2, <2>1, SameCalls DEF Book!Entitled
  <1> QED  BY <1>1, <1>2

LEMMA SignInImplements ==
    ASSUME IInv, NEW j \in Jobs, RefuseUnread(j) \/ Lookup(j) \/ SaveLogin(j)
    PROVE  Book!Answer(j) \/ Book!Entitle(j) \/ Book!Grant(j)
  <1>0. TypeOK /\ Sound(j)
    BY DEF IInv
  <1> DEFINE c == call[j]
             e == Address(c)
  <1>1. CASE RefuseUnread(j) \/ (Lookup(j) /\ Answer(j, "refused"))
    BY <1>0, <1>1, AnswerImplements DEF RefuseUnread, Lookup, Working, Refusals
  <1>2. CASE Lookup(j) /\ ~ Answer(j, "refused")
    <2>1. /\ e \in DOMAIN accounts /\ Matches(c, accounts[e])
          /\ Goto(j, "saveLogin", accounts[e]) /\ UNCHANGED <<accounts, tokens>>
          /\ pc[j] = "lookup"
      BY <1>2 DEF Lookup, portal
    <2>2. c.op \in SignIns
      BY <1>0, <2>1 DEF Sound, InPlace
    <2>3. Book!Entitled(c)
      BY <2>1, <2>2, EntitledCalls
    <2> QED  BY <1>0, <2>1, <2>3, Stages, Entitles
  <1>3. CASE SaveLogin(j)
    <2>1. /\ pc[j] = "saveLogin" /\ End(j, "token") /\ tokens' = tokens \cup {e}
          /\ accounts' = [accounts EXCEPT ![e] = Written(@, doc[j], Dirty(c))]
      BY <1>3 DEF SaveLogin
    <2>2. e \in DOMAIN accounts /\ c.op \in SignIns
      BY <1>0, <2>1 DEF Sound, InPlace
    <2>3. Dirty(c) = {} /\ accounts[e] \in Account
      BY <1>0, <2>2 DEF Dirty, SignIns, TypeOK
    <2>4. accounts' = [accounts EXCEPT ![e] = accounts[e]]
      BY <2>1, <2>3, SameWritten
    <2>5. UNCHANGED accounts
      BY <1>0, <2>2, <2>4 DEF TypeOK
    <2>6. Progress[j] = "entitled"
      BY <2>1, Stages
    <2>7. Book!Address(c) = e /\ c.op \in {"login", "test"}
      BY <2>2, SameCalls DEF SignIns
    <2> HIDE DEF e
    <2> QED  BY <1>0, <2>1, <2>5, <2>6, <2>7, EndMoves
             DEF Book!Grant, Book!End, Book!Move
  <1> QED  BY <1>1, <1>2, <1>3

LEMMA PageImplements ==
    ASSUME IInv, NEW j \in Jobs, Authenticate(j) \/ ViewPage(j) \/ Home(j) \/ ClientDetail(j)
    PROVE  Book!Answer(j) \/ Book!Entitle(j) \/ Book!Show(j)
  <1>0. TypeOK /\ Sound(j)
    BY DEF IInv
  <1> DEFINE c == call[j]
  <1>1. CASE Answer(j, "refused") /\ UNCHANGED accounts
    BY <1>0, <1>1, AnswerImplements
       DEF Authenticate, ViewPage, Home, ClientDetail, Working, Refusals
  <1>2. ASSUME pc[j] = "auth", c.by # None, MayUse(c, accounts[c.by])
        PROVE  Progress[j] = "asked" /\ Book!Entitled(c)
    <2>1. c.op \in Requests \ {"login"} /\ c.by \in tokens
      BY <1>0, <1>2 DEF Sound, InPlace
    <2>2. c.by \in tokens \cap DOMAIN accounts
      BY <1>0, <2>1 DEF TypeOK
    <2> QED  BY <1>2, <2>1, <2>2, Stages, EntitledCalls
  <1>3. CASE Authenticate(j) /\ ~ Answer(j, "refused")
    <2>1. /\ pc[j] = "auth" /\ c.by # None /\ MayUse(c, accounts[c.by])
          /\ UNCHANGED accounts /\ c.op # "page"
          /\ \/ Answer(j, "shown")
             \/ c.op # "me" /\ UNCHANGED portal
                /\ Goto(j, "createAdmin", accounts[c.by])
      BY <1>3 DEF Authenticate
    <2>2. Progress[j] = "asked" /\ Book!Entitled(c)
      BY <1>2, <2>1
    <2>3. c.op \in Requests
      BY <1>0, <2>1 DEF Sound, InPlace
    <2>4. CASE Answer(j, "shown")
      BY <1>0, <2>1, <2>2, <2>4, Shows
    <2>5. CASE UNCHANGED portal /\ Goto(j, "createAdmin", accounts[c.by])
      BY <1>0, <2>1, <2>2, <2>3, <2>5, Entitles DEF portal
    <2> QED  BY <2>1, <2>4, <2>5
  <1>4. CASE ViewPage(j) /\ ~ Answer(j, "refused")
    <2>1. /\ pc[j] = "auth" /\ c.by # None /\ accounts[c.by].active
          /\ UNCHANGED accounts /\ c.op = "page"
          /\ \/ Answer(j, "shown")
             \/ UNCHANGED portal /\ Goto(j, "hydra", accounts[c.by])
      BY <1>4 DEF ViewPage
    <2>2. c.by \in DOMAIN accounts
      BY <1>0, <2>1 DEF Sound, InPlace, TypeOK
    <2>3. accounts[c.by].role \in Roles /\ AllowedRoles(c.op) = Roles
      BY <1>0, <2>1, <2>2 DEF TypeOK, Account, AllowedRoles
    <2>4. MayUse(c, accounts[c.by])
      BY <2>1, <2>3 DEF MayUse
    <2>5. Progress[j] = "asked" /\ Book!Entitled(c)
      BY <1>2, <2>1, <2>4
    <2>6. CASE Answer(j, "shown")
      BY <1>0, <2>1, <2>5, <2>6, Shows
    <2>7. CASE UNCHANGED portal /\ Goto(j, "hydra", accounts[c.by])
      BY <1>0, <2>1, <2>5, <2>7, Entitles DEF portal
    <2> QED  BY <2>1, <2>6, <2>7
  <1>5. CASE (Home(j) \/ ClientDetail(j)) /\ ~ Answer(j, "refused")
    <2>1. pc[j] = "hydra" /\ Answer(j, "shown") /\ UNCHANGED accounts
      BY <1>5 DEF Home, ClientDetail
    <2>2. Progress[j] = "entitled"
      BY <2>1, Stages
    <2> QED  BY <1>0, <2>1, <2>2, Shows
  <1> QED  BY <1>1, <1>3, <1>4, <1>5 DEF Authenticate, ViewPage, Home, ClientDetail

LEMMA StartImplements ==
    ASSUME IInv, NEW j \in Jobs, Sync(j) \/ FindSuper(j) \/ CreateUser(j)
    PROVE  Book!Answer(j) \/ UNCHANGED Book!vars
  <1>0. TypeOK /\ Sound(j)
    BY DEF IInv
  <1>1. /\ pc[j] \in {"sync", "findSuper", "createUser"}
        /\ UNCHANGED <<accounts, tokens>>
    BY DEF Sync, FindSuper, CreateUser, portal, Throw, Answer
  <1>2. call[j].op \in Starters /\ call[j].op \notin Requests
    BY <1>0, <1>1 DEF Sound, InPlace, Starters, Requests
  <1>3. Progress[j] = "asked"
    BY <1>1, Stages
  <1>4. \A label \in {"findSuper", "createUser", "createAdmin"} :
           Stage(label, call[j].op) = "asked"
    BY <1>2 DEF Stage
  <1>5. CASE \E label \in {"findSuper", "createUser", "createAdmin"} :
                Goto(j, label, None)
    BY <1>0, <1>1, <1>3, <1>4, <1>5, Stutters
  <1>6. CASE End(j, "failed") \/ Throw(j)
    <2>1. pc[j] \in Working
      BY <1>1 DEF Working
    <2>2. "failed" \in Refusals
      BY DEF Refusals
    <2>3. CASE End(j, "failed")
      BY <1>0, <1>1, <2>1, <2>2, <2>3, AnswerImplements
    <2>4. CASE Throw(j)
      BY <1>0, <1>1, <2>1, <2>4, ThrowImplements
    <2> QED  BY <1>6, <2>3, <2>4
  <1> QED  BY <1>5, <1>6 DEF Sync, FindSuper, CreateUser

LEMMA InsertImplements ==
    ASSUME IInv, NEW j \in Jobs, InsertAdmin(j)
    PROVE  Book!Answer(j) \/ Book!Enroll(j)
  <1> DEFINE c == call[j]
             e == Address(c)
             new == Built(c, doc[j])
             result == IF c.op \in Starters THEN "initialised" ELSE "created"
  <1>0. TypeOK /\ Sound(j) /\ c \in Call /\ pc[j] = "createAdmin"
    BY DEF IInv, TypeOK, InsertAdmin
  <1>1. InPlace("createAdmin", c, doc[j], holder)
    BY <1>0 DEF Sound
  <1>2. CASE ~ Acceptable(c)
    <2>1. PICK r \in {result, "failed"} :
             Answer(j, r) /\ UNCHANGED accounts /\ r # "created"
      BY <1>2 DEF InsertAdmin
    <2>2. r \in Refusals /\ pc[j] \in Working
      BY <1>0, <2>1 DEF Refusals, Working
    <2> QED  BY <1>0, <2>1, <2>2, AnswerImplements
  <1>3. CASE Acceptable(c)
    <2>1. e \notin DOMAIN accounts /\ RoleFor(c) \in Roles
      BY <1>3 DEF Acceptable
    <2>2. /\ ~ Incomplete(c)
          /\ c.op \in {"admin", "tenantAdmin", "create", "onboard"} \cup Starters
          /\ c.op = "tenantAdmin" => doc[j] \in Account
      BY <1>1 DEF InPlace, Requests
    <2>3. new \in Account
      BY <1>0, <2>1, <2>2, BuiltType
    <2>4. accounts' = [f \in DOMAIN accounts \cup {e} |->
                         IF f = e THEN new ELSE accounts[f]]
      BY <1>3 DEF InsertAdmin
    <2>5. PICK r \in {result, Report(j)} : End(j, r) /\ UNCHANGED tokens
      BY <1>3 DEF InsertAdmin, Answer, Throw
    <2>6. r \in {"created", "initialised", "failed", "swallowed"}
      BY <1>0, <2>5 DEF Report
    <2>7. Book!MayMake(c, new)
      <3>1. /\ new.password = Secret(c) /\ new.role = RoleFor(c)
            /\ new.tenant = TenantFor(c, doc[j])
        BY DEF Built
      <3> HIDE DEF new
      <3>2. CASE IsStandard(c)
        <4>1. /\ Secret(c) = Standard /\ RoleFor(c) = "super-admin"
              /\ TenantFor(c, doc[j]) = None
          BY <3>2 DEF Secret, RoleFor, TenantFor, IsStandard, Starters
        <4>2. Book!IsStandard(c) /\ c.op # "onboard" /\ c.op \notin Book!Requests
          BY <3>2, SameCalls DEF IsStandard, Starters, Requests
        <4> QED  BY <3>1, <4>1, <4>2 DEF Book!MayMake
      <3>3. CASE c.op = "onboard"
        <4>1. RoleFor(c) = "admin" /\ ~ IsStandard(c)
          BY <3>3 DEF RoleFor, IsStandard, Starters
        <4>2. ~ Book!IsStandard(c) /\ c.op \notin Book!Requests
          BY <3>3, <4>1, SameCalls DEF Requests
        <4> QED  BY <3>1, <3>3, <4>1, <4>2 DEF Book!MayMake
      <3>4. CASE c.op = "admin"
        <4>1. ~ IsStandard(c) /\ accounts[c.by].role = "super-admin"
          BY <1>1, <3>4 DEF InPlace, Requests, AllowedRoles, IsStandard, Starters
        <4>2. ~ Book!IsStandard(c) /\ c.op # "onboard" /\ c.op \in Book!Requests
          BY <3>4, <4>1, SameCalls DEF Requests
        <4> QED  BY <4>1, <4>2 DEF Book!MayMake
      <3>5. CASE c.op = "tenantAdmin"
        <4>1. /\ ~ IsStandard(c) /\ RoleFor(c) = "admin"
              /\ TenantFor(c, doc[j]) = doc[j].tenant
          BY <3>5 DEF IsStandard, Starters, RoleFor, TenantFor
        <4>2. accounts[c.by].role = "admin" /\ doc[j].tenant = accounts[c.by].tenant
          BY <1>1, <3>5 DEF InPlace, Requests, AllowedRoles
        <4>3. ~ Book!IsStandard(c) /\ c.op # "onboard" /\ c.op \in Book!Requests
          BY <3>5, <4>1, SameCalls DEF Requests
        <4> QED  BY <3>1, <4>1, <4>2, <4>3 DEF Book!MayMake
      <3> QED  BY <2>2, <3>2, <3>3, <3>4, <3>5 DEF IsStandard
    <2>8. Progress[j] = IF c.op \in Requests THEN "entitled" ELSE "asked"
      BY <1>0, Stages
    <2>9. /\ c.op \in Book!Creators /\ Book!Address(c) = e
          /\ Book!Requests = Requests /\ Book!Account = Account
      BY <2>2, SameCalls
    <2> HIDE DEF new, e
    <2>10. Book!End(j, IF c.op \in Book!Requests THEN {"entitled"} ELSE {"asked"},
                    {"created", "initialised", "failed", "swallowed"})
      BY <1>0, <2>5, <2>6, <2>8, <2>9, EndMoves DEF Book!End, Book!Move
    <2>11. UNCHANGED <<tokens, call>>
      BY <1>0, <2>5, EndMoves
    <2> QED  BY <2>1, <2>3, <2>4, <2>7, <2>9, <2>10, <2>11 DEF Book!Enroll
  <1> QED  BY <1>2, <1>3

LEMMA HalfImplements ==
    ASSUME IInv, NEW j \in Jobs, NEW e \in {Default, Second},
           FindHalf(j, e) \/ SaveHalf(j, e) \/ FailHalf(j, e)
    PROVE  Book!Reset(j) \/ UNCHANGED Book!vars
  <1>0. TypeOK /\ Sound(j)
    BY DEF IInv
  <1>1. pc[j] = "reset" /\ UNCHANGED <<tokens, pc, call, reply>>
    BY DEF FindHalf, SaveHalf, FailHalf, Half, portal
  <1>2. Progress' = Progress
    BY <1>1 DEF Progress
  <1>3. CASE UNCHANGED accounts
    BY <1>1, <1>2, <1>3 DEF Book!vars
  <1>4. CASE SaveHalf(j, e)
    <2>1. e \in DOMAIN accounts
      BY <1>0, <1>4 DEF SaveHalf, Half, Sound, HalvesSound
    <2>2. call[j].op = "reset" /\ Progress[j] = "asked"
      BY <1>0, <1>1, Stages DEF Sound, InPlace
    <2>3. Dirty(call[j]) = {"password"} /\ accounts[e] \in Account
      BY <1>0, <2>1, <2>2 DEF Dirty, TypeOK
    <2>4. Written(accounts[e], [accounts[e] EXCEPT !.password = Standard], {"password"})
            = [accounts[e] EXCEPT !.password = Standard]
      BY <2>3 DEF Written, Account
    <2>5. accounts' = [accounts EXCEPT ![e] = [accounts[e] EXCEPT !.password = Standard]]
      BY <1>4, <2>3, <2>4 DEF SaveHalf
    <2>6. Progress' = [Progress EXCEPT ![j] = "asked"]
      <3>1. Progress = [q \in Jobs |-> Progress[q]]
        BY DEF Progress
      <3> QED  BY <1>2, <2>2, <3>1
    <2>7. accounts' = [accounts EXCEPT ![e].password = Standard]
      BY <2>5
    <2> QED  BY <1>1, <2>1, <2>2, <2>6, <2>7 DEF Book!Reset, Book!Move
  <1> QED  BY <1>3, <1>4 DEF FindHalf, FailHalf

LEMMA StepImplements ==
    ASSUME IInv, NEW j \in Jobs,
           \/ Step(j) \/ Fail(j)
           \/ \E e \in {Default, Second} : FailHalf(j, e)
    PROVE  Book!Next \/ UNCHANGED Book!vars
  <1>0. TypeOK
    BY DEF IInv
  <1>1. CASE Summarise(j)
    <2>1. PICK r \in {"ok", "failed"} : Answer(j, r) /\ UNCHANGED accounts
      BY <1>1 DEF Summarise
    <2>2. r \in Refusals /\ pc[j] \in Working
      BY <1>1 DEF Summarise, Refusals, Working
    <2> QED  BY <1>0, <2>1, <2>2, AnswerImplements DEF Book!Next
  <1>2. CASE NoTable(j) \/ Fail(j)
    <2>1. Throw(j) /\ UNCHANGED accounts /\ pc[j] \in Working
      BY <1>2 DEF NoTable, Fail, Working
    <2> QED  BY <1>0, <2>1, ThrowImplements DEF Book!Next
  <1> QED  BY <1>1, <1>2, SignInImplements, PageImplements, StartImplements,
            InsertImplements, HalfImplements DEF Step, Book!Next

LEMMA BeginImplements ==
    ASSUME IInv, NEW j \in Jobs, Begin(j)
    PROVE  Book!Ask(j)
  <1>0. TypeOK
    BY DEF IInv
  <1>1. PICK c \in Calls[j] :
          /\ call' = [call EXCEPT ![j] = c]
          /\ pc' = [pc EXCEPT ![j] = First(c.op)]
    BY DEF Begin
  <1>2. c.op \in Ops
    BY CallAssumption DEF Call
  <1>3. Stage(First(c.op), c.op) = "asked"
    <2>1. CASE c.op \in {"create", "onboard"}
      BY <2>1 DEF First, SignIns, Requests, Stage
    <2>2. CASE c.op \in SignIns
      BY <2>2 DEF First, SignIns, Requests, Stage
    <2>3. CASE c.op \in Requests \ {"login"}
      BY <2>3 DEF First, SignIns, Requests, Stage
    <2>4. CASE c.op \in {"start", "init", "reset"}
      BY <2>4 DEF First, SignIns, Requests, Stage
    <2> QED  BY <1>2, <2>1, <2>2, <2>3, <2>4 DEF Ops, Requests, Scripts, SignIns
  <1>4. Progress' = [Progress EXCEPT ![j] = "asked"]
    <2>1. Progress' = [Progress EXCEPT ![j] = Stage(First(c.op), c.op)]
      BY <1>0, <1>1, StageMoves
    <2> QED  BY <1>3, <2>1
  <1>5. Progress[j] \in {"idle", "answered"}
    BY Stages DEF Begin
  <1>6. \E d \in Calls[j] : call' = [call EXCEPT ![j] = d]
    BY <1>1
  <1> QED  BY <1>4, <1>5, <1>6 DEF Begin, portal, Book!Ask, Book!Move

LEMMA CrashImplements ==
    ASSUME IInv, NEW js \in SUBSET Jobs, Lost(js)
    PROVE  Book!Forget
  <1>1. \A q \in Jobs : Stage(pc'[q], call'[q].op)
                         = IF q \in js THEN "idle" ELSE Stage(pc[q], call[q].op)
    BY DEF Lost, Stage
  <1>2. Progress' = [q \in Jobs |-> IF q \in js THEN "idle" ELSE Progress[q]]
    BY <1>1 DEF Progress
  <1> QED  BY <1>2 DEF Lost, Book!Forget

\* The portal keeps the promise of AccountBook, with failures, crashes and
\* scripts beside it.
THEOREM Implementation == Spec => ImplementsBook
  <1>1. Init => Book!Init
    <2> SUFFICES ASSUME Init  PROVE Book!Init
      OBVIOUS
    <2>1. Progress = [j \in Jobs |-> "idle"]
      BY DEF Init, Progress, Stage
    <2> QED  BY <2>1 DEF Init, Book!Init
  <1>2. IInv /\ [Next]_vars => [Book!Next]_Book!vars
    <2> SUFFICES ASSUME IInv, [Next]_vars  PROVE Book!Next \/ UNCHANGED Book!vars
      OBVIOUS
    <2>1. CASE UNCHANGED vars
      BY <2>1 DEF vars, portal, Book!vars, Progress
    <2>2. CASE Deactivate
      BY <2>2 DEF Deactivate, portal, Progress, Book!Next, Book!Deactivate
    <2>3. CASE TakeName \/ GiveName
      BY <2>3 DEF TakeName, GiveName, Progress, Book!vars
    <2>4. CASE CrashPortal \/ \E j \in Jobs : CrashScript(j)
      <3>1. PICK js \in SUBSET Jobs : Lost(js)
        BY <2>4 DEF CrashPortal, CrashScript
      <3> QED  BY <3>1, CrashImplements DEF Book!Next
    <2>5. CASE \E j \in Jobs : Begin(j)
      BY <2>5, BeginImplements DEF Book!Next
    <2> QED  BY <2>1, <2>2, <2>3, <2>4, <2>5, StepImplements DEF Next
  <1> QED  BY <1>1, <1>2, Invariance, PTL DEF Spec, ImplementsBook, Book!Spec
=============================================================================
