--------------------------- MODULE TenantsProofs ---------------------------
(***************************************************************************)
(* The invariants of Tenants, for any number of jobs, keys and calls.  The *)
(* argument is the one of the row locks: what a transaction wrote stays    *)
(* free of conflicts until it commits.                                     *)
(***************************************************************************)
EXTENDS Tenants, TLAPS

TablesOK ==
    /\ DOMAIN tenants \subseteq Ids /\ tenants \in [DOMAIN tenants -> TenantRow]
    /\ DOMAIN brandings \subseteq Ids /\ brandings \in [DOMAIN brandings -> BrandRow]
    /\ DOMAIN admins \subseteq Emails /\ admins \in [DOMAIN admins -> DOMAIN tenants]

JobsOK ==
    /\ pc \in [Jobs -> Working \cup {"idle", "done"}]
    /\ call \in [Jobs -> Call]
    /\ pending \in [Jobs -> Pending \cup {None}]
    /\ outcomes \in [Jobs -> Seq({"ok", "failed"})]
    /\ reply \in [Jobs -> Codes \cup {None}]

\* With no tenantId inside a branding, a branding has the key of its tenant.
BrandingsSound ==
    NoOwners => /\ DOMAIN brandings = DOMAIN tenants
                /\ \A k \in DOMAIN brandings : brandings[k].owner = k

InEntry == {"findSlug", "insertTenant", "insertBranding", "commit", "reread",
            "insertAdmin"}

\* What a job with this call is sure of at a label.
AtLabel(label, c, results) ==
    /\ label \in {"entry", "findSlug", "insertAdmin", "insertBranding"} => c.op = "import"
    /\ label = "insertTenant" => c.op \in {"import", "post"}
    /\ label \in {"commit", "reread"} => c.op \in {"import", "put"}
    /\ label \in {"updateTenant", "updateBranding"} => c.op = "put"
    /\ label = "updateBranding" => c.look # None
    /\ label = "delete" => c.op = "delete" /\ Allowed(c)
    /\ label = "start" => results = <<>>
    /\ label = "insertTenant" /\ c.op = "post" => results = <<>>
    /\ label \in InEntry /\ c.op = "import" =>
          Len(results) < Len(c.entries) /\ Valid(c.entries[Len(results) + 1])
    /\ label \in Working \ {"start"} /\ c.op = "put" => c.by \in {Root, c.id}
    /\ label \in {"reread", "insertAdmin"} /\ c.op = "import" =>
          \E i \in DOMAIN tenants : tenants[i].slug = c.entries[Len(results) + 1].slug

\* The branding part of a transaction, when no branding names a tenant.
Branded(c, results, p) ==
    /\ DOMAIN p.brands = IF c.op = "put" /\ c.look = None THEN {} ELSE {p.id}
    /\ \A k \in DOMAIN p.brands :
          /\ p.brands[k].owner = k
          /\ c.op = "put" => p.brands[k].look = c.look
          /\ c.op = "import" =>
                p.brands[k].look = c.entries[Len(results) + 1].look

\* What a transaction has written is what was asked of it, and is free.
Written(label, c, results, p) ==
    /\ ~ Taken(p.id, p.row)
    /\ c.op = "import" =>
          /\ p.id \notin DOMAIN tenants
          /\ p.row = Created(c.entries[Len(results) + 1])
    /\ c.op = "put" =>
          /\ p.id = c.id /\ p.id \in DOMAIN tenants
          /\ p.row = Updated(tenants[p.id], c)
    /\ label \in {"insertBranding", "updateBranding"} => p.brands = Nothing
    /\ NoOwners /\ label = "commit" => Branded(c, results, p)

\* Two transactions that both wrote.
Apart(p, q) ==
    /\ p.id # q.id /\ p.row.slug # q.row.slug
    /\ ~ Same(p.row.domain, q.row.domain)

Complete(e) ==
    \E i \in DOMAIN tenants :
        /\ tenants[i].slug = e.slug
        /\ NoOwners => BrandingsOf(i) # {}
        /\ e.email \in DOMAIN admins /\ admins[e.email] = i

Sound(j) ==
    /\ call[j] \in Calls
    /\ pending[j] # None <=> pc[j] \in InTransaction
    /\ Len(outcomes[j]) <= Len(call[j].entries)
    /\ AtLabel(pc[j], call[j], outcomes[j])
    /\ pending[j] # None => Written(pc[j], call[j], outcomes[j], pending[j])
    /\ \A n \in 1..Len(outcomes[j]) :
          outcomes[j][n] = "ok" => Complete(call[j].entries[n])

Locked ==
    \A j, q \in Jobs :
        j # q /\ pending[j] # None /\ pending[q] # None => Apart(pending[j], pending[q])

IInv ==
    /\ TablesOK /\ JobsOK /\ BrandingsSound /\ NamesUnique
    /\ Locked /\ \A j \in Jobs : Sound(j)

Others(j) ==
    \A q \in Jobs \ {j} :
        /\ pc'[q] = pc[q] /\ call'[q] = call[q] /\ pending'[q] = pending[q]
        /\ outcomes'[q] = outcomes[q]

\* Nothing is ever taken back.
Grow ==
    /\ DOMAIN tenants \subseteq DOMAIN tenants'
    /\ \A i \in DOMAIN tenants : tenants'[i].slug = tenants[i].slug
    /\ DOMAIN admins \subseteq DOMAIN admins'
    /\ \A e \in DOMAIN admins : admins'[e] = admins[e]

Good(j) ==
    /\ TablesOK' /\ JobsOK' /\ BrandingsSound' /\ NamesUnique' /\ Grow
    /\ Sound(j)' /\ Others(j)
    /\ \A q \in Jobs \ {j} :
          /\ pending'[q] # None =>
                Written(pc[q], call[q], outcomes[q], pending[q])'
          /\ pending'[j] # None /\ pending'[q] # None =>
                Apart(pending'[j], pending'[q])

-----------------------------------------------------------------------------

LEMMA EntryType ==
    ASSUME NEW c \in Call, NEW n \in 1..Len(c.entries)
    PROVE  c.entries[n] \in Entry
  BY DEF Call

LEMMA CompleteGrows ==
    ASSUME Grow, BrandingsSound', NEW e, Complete(e)
    PROVE  Complete(e)'
  <1>1. PICK i \in DOMAIN tenants :
           tenants[i].slug = e.slug /\ e.email \in DOMAIN admins /\ admins[e.email] = i
    BY DEF Complete
  <1>2. /\ i \in DOMAIN tenants' /\ tenants'[i].slug = e.slug
        /\ e.email \in DOMAIN admins' /\ admins'[e.email] = i
    BY <1>1 DEF Grow
  <1>3. NoOwners => i \in BrandingsOf(i)'
    BY <1>2 DEF BrandingsSound, BrandingsOf
  <1> QED  BY <1>2, <1>3 DEF Complete, NoOwners

LEMMA AtLabelGrows ==
    ASSUME Grow, NEW label, NEW c, NEW results, AtLabel(label, c, results)
    PROVE  AtLabel(label, c, results)'
  BY DEF Grow, AtLabel, Valid, NoOwners

\* The other jobs after a step.
LEMMA OthersSound ==
    ASSUME NEW j \in Jobs, Good(j), NEW q \in Jobs \ {j}, Sound(q)
    PROVE  Sound(q)'
  <1>1. /\ pc'[q] = pc[q] /\ call'[q] = call[q] /\ pending'[q] = pending[q]
        /\ outcomes'[q] = outcomes[q]
    BY DEF Good, Others
  <1>2. AtLabel(pc[q], call[q], outcomes[q])'
    BY <1>1 DEF Sound, Good, Grow, AtLabel, Valid
  <1>3. \A n \in 1..Len(outcomes[q]) :
           outcomes[q][n] = "ok" => Complete(call[q].entries[n])'
    <2> SUFFICES ASSUME NEW n \in 1..Len(outcomes[q]), outcomes[q][n] = "ok"
                 PROVE  Complete(call[q].entries[n])'
      OBVIOUS
    <2>1. PICK i \in DOMAIN tenants :
             /\ tenants[i].slug = call[q].entries[n].slug
             /\ call[q].entries[n].email \in DOMAIN admins
             /\ admins[call[q].entries[n].email] = i
      BY DEF Sound, Complete
    <2>2. /\ i \in DOMAIN tenants' /\ tenants'[i].slug = call[q].entries[n].slug
          /\ call[q].entries[n].email \in DOMAIN admins'
          /\ admins'[call[q].entries[n].email] = i
      BY <2>1 DEF Good, Grow
    <2>3. NoOwners => i \in BrandingsOf(i)'
      BY <2>2 DEF Good, BrandingsSound, BrandingsOf
    <2> QED  BY <1>1, <2>2, <2>3 DEF Complete
  <1> QED  BY <1>1, <1>2, <1>3 DEF Sound, Good

LEMMA GoodStep ==
    ASSUME IInv, NEW j \in Jobs, Good(j)
    PROVE  IInv'
  <1>1. \A q \in Jobs : Sound(q)'
    BY OthersSound DEF IInv, Good
  <1>2. Locked'
    <2> SUFFICES ASSUME NEW p \in Jobs, NEW q \in Jobs, p # q,
                        pending'[p] # None, pending'[q] # None
                 PROVE  Apart(pending'[p], pending'[q])
      BY DEF Locked, Apart, Same
    <2>1. CASE p = j
      BY <2>1 DEF Good
    <2>2. CASE q = j
      <3>1. Apart(pending'[q], pending'[p])
        BY <2>2 DEF Good
      <3> QED  BY <3>1 DEF Apart, Same
    <2>3. CASE p # j /\ q # j
      BY <2>3 DEF Good, Others, IInv, Locked
    <2> QED  BY <2>1, <2>2, <2>3
  <1> QED  BY <1>1, <1>2 DEF IInv, Good

-----------------------------------------------------------------------------

\* What a job changes of its own keeps the types and leaves the others alone.
LEMMA GotoJobs ==
    ASSUME JobsOK, NEW j \in Jobs, NEW label \in Working \cup {"idle", "done"},
           Goto(j, label), UNCHANGED <<call, pending, outcomes, reply>>
    PROVE  /\ JobsOK' /\ Others(j) /\ pc'[j] = label
           /\ call' = call /\ pending' = pending /\ outcomes' = outcomes
  BY DEF JobsOK, Others, Goto

LEMMA WriteJobs ==
    ASSUME JobsOK, NEW j \in Jobs, NEW label \in Working,
           NEW p \in Pending \cup {None},
           Goto(j, label), pending' = [pending EXCEPT ![j] = p],
           UNCHANGED <<call, outcomes, reply>>
    PROVE  /\ JobsOK' /\ Others(j) /\ pc'[j] = label
           /\ pending'[j] = p /\ call' = call /\ outcomes' = outcomes
  BY DEF JobsOK, Others, Goto

LEMMA ReplyJobs ==
    ASSUME JobsOK, NEW j \in Jobs, NEW code \in Codes, Reply(j, code)
    PROVE  /\ JobsOK' /\ Others(j) /\ pc'[j] = "done" /\ pending'[j] = None
           /\ call' = call /\ outcomes' = outcomes
  BY DEF JobsOK, Others, Reply, Goto

LEMMA EndEntryJobs ==
    ASSUME JobsOK, NEW j \in Jobs, NEW result \in {"ok", "failed"},
           EndEntry(j, result)
    PROVE  /\ JobsOK' /\ Others(j) /\ pc'[j] = "entry" /\ pending'[j] = None
           /\ call' = call
           /\ outcomes'[j] = Append(outcomes[j], result)
           /\ Len(outcomes'[j]) = Len(outcomes[j]) + 1
           /\ outcomes'[j][Len(outcomes[j]) + 1] = result
           /\ \A n \in 1..Len(outcomes[j]) : outcomes'[j][n] = outcomes[j][n]
  <1>1. outcomes[j] \in Seq({"ok", "failed"})
    BY DEF JobsOK
  <1>2. Append(outcomes[j], result) \in Seq({"ok", "failed"})
    BY <1>1
  <1>3. /\ pc' = [pc EXCEPT ![j] = "entry"]
        /\ outcomes' = [outcomes EXCEPT ![j] = Append(outcomes[j], result)]
        /\ pending' = [pending EXCEPT ![j] = None]
        /\ call' = call /\ reply' = reply
    BY DEF EndEntry, Goto
  <1>4. JobsOK'
    BY <1>2, <1>3 DEF JobsOK, Working, InTransaction
  <1>5. /\ Others(j) /\ pc'[j] = "entry" /\ pending'[j] = None
        /\ outcomes'[j] = Append(outcomes[j], result)
    BY <1>3 DEF JobsOK, Others
  <1> QED  BY <1>1, <1>3, <1>4, <1>5

\* A step that writes no table and ends outside a transaction.
LEMMA QuietGood ==
    ASSUME IInv, NEW j \in Jobs, UNCHANGED tables, JobsOK', Others(j),
           Sound(j)', pending'[j] = None
    PROVE  Good(j)
  <1>1. tenants' = tenants /\ brandings' = brandings /\ admins' = admins
    BY DEF tables
  <1>2. TablesOK' /\ BrandingsSound' /\ NamesUnique' /\ Grow
    BY <1>1 DEF IInv, TablesOK, BrandingsSound, NamesUnique, Same, NoOwners, Grow
  <1>3. \A q \in Jobs \ {j} : pending'[q] # None =>
           Written(pc[q], call[q], outcomes[q], pending[q])'
    <2> SUFFICES ASSUME NEW q \in Jobs \ {j}, pending'[q] # None
                 PROVE  Written(pc[q], call[q], outcomes[q], pending[q])'
      OBVIOUS
    <2>1. /\ pc'[q] = pc[q] /\ call'[q] = call[q] /\ pending'[q] = pending[q]
          /\ outcomes'[q] = outcomes[q]
      BY DEF Others
    <2>2. Written(pc[q], call[q], outcomes[q], pending[q])
      BY <2>1 DEF IInv, Sound
    <2> QED  BY <1>1, <2>1, <2>2 DEF Written, Taken, Same, NoOwners
  <1> QED  BY <1>2, <1>3 DEF Good

\* With the tables unchanged, a result stays what it was.
LEMMA SameComplete ==
    ASSUME UNCHANGED tables, NEW j \in Jobs, call'[j] = call[j], NEW n,
           Complete(call[j].entries[n])
    PROVE  Complete(call[j].entries[n])'
  BY DEF tables, Complete, BrandingsOf, NoOwners

LEMMA ReplyGood ==
    ASSUME IInv, NEW j \in Jobs, NEW code \in Codes, Reply(j, code), UNCHANGED tables
    PROVE  Good(j)
  <1>1. /\ JobsOK' /\ Others(j) /\ pc'[j] = "done" /\ pending'[j] = None
        /\ call' = call /\ outcomes' = outcomes
    BY ReplyJobs DEF IInv
  <1>2. AtLabel("done", call[j], outcomes[j])'
    BY DEF AtLabel, InEntry, Working, InTransaction
  <1>3. Sound(j)'
    BY <1>1, <1>2, SameComplete DEF IInv, Sound, InTransaction
  <1> QED  BY <1>1, <1>3, QuietGood

LEMMA GotoGood ==
    ASSUME IInv, NEW j \in Jobs, NEW label \in Working \ InTransaction,
           Goto(j, label), UNCHANGED <<call, pending, outcomes, reply>>,
           pending[j] = None, AtLabel(label, call[j], outcomes[j]),
           UNCHANGED tables
    PROVE  Good(j)
  <1>1. /\ JobsOK' /\ Others(j) /\ pc'[j] = label
        /\ call' = call /\ pending' = pending /\ outcomes' = outcomes
    BY GotoJobs DEF IInv
  <1>2. AtLabel(pc[j], call[j], outcomes[j])'
    BY <1>1 DEF AtLabel, tables, Valid
  <1>3. Sound(j)'
    BY <1>1, <1>2, SameComplete DEF IInv, Sound
  <1> QED  BY <1>1, <1>3, QuietGood

LEMMA FailedGood ==
    ASSUME IInv, NEW j \in Jobs, EndEntry(j, "failed"), UNCHANGED tables,
           Len(outcomes[j]) < Len(call[j].entries), call[j].op = "import"
    PROVE  Good(j)
  <1>1. /\ JobsOK' /\ Others(j) /\ pc'[j] = "entry" /\ pending'[j] = None
        /\ call' = call
        /\ Len(outcomes'[j]) = Len(outcomes[j]) + 1
        /\ outcomes'[j][Len(outcomes[j]) + 1] = "failed"
        /\ \A n \in 1..Len(outcomes[j]) : outcomes'[j][n] = outcomes[j][n]
    BY EndEntryJobs DEF IInv
  <1>2. Len(outcomes[j]) \in Nat /\ Len(call[j].entries) \in Nat
    BY DEF IInv, JobsOK, Call
  <1>3. AtLabel("entry", call[j], outcomes[j])'
    BY <1>1 DEF AtLabel, InEntry, Working, InTransaction
  <1>4. \A n \in 1..Len(outcomes'[j]) :
           outcomes'[j][n] = "ok" => Complete(call[j].entries[n])'
    <2> SUFFICES ASSUME NEW n \in 1..Len(outcomes'[j]), outcomes'[j][n] = "ok"
                 PROVE  Complete(call[j].entries[n])'
      BY <1>1 DEF Complete
    <2>1. n \in 1..Len(outcomes[j]) /\ outcomes[j][n] = "ok"
      BY <1>1, <1>2
    <2>2. Complete(call[j].entries[n])
      BY <2>1 DEF IInv, Sound
    <2> QED  BY <1>1, <2>2, SameComplete DEF Complete
  <1>5. Sound(j)'
    BY <1>1, <1>2, <1>3, <1>4 DEF IInv, Sound, InTransaction
  <1> QED  BY <1>1, <1>5, QuietGood

LEMMA ThrowGood ==
    ASSUME IInv, NEW j \in Jobs, pc[j] \in Working \ {"start", "entry"},
           Throw(j), UNCHANGED tables
    PROVE  Good(j)
  <1>1. CASE call[j].op = "import"
    <2>1. EndEntry(j, "failed")
      BY <1>1 DEF Throw
    <2>2. Len(outcomes[j]) < Len(call[j].entries)
      BY <1>1 DEF IInv, Sound, AtLabel, InEntry, Working, InTransaction
    <2> QED  BY <1>1, <2>1, <2>2, FailedGood
  <1>2. CASE call[j].op # "import"
    BY <1>2, ReplyGood DEF Throw, Codes
  <1> QED  BY <1>1, <1>2

-----------------------------------------------------------------------------

LEMMA JobType ==
    ASSUME IInv, NEW j \in Jobs
    PROVE  /\ call[j] \in Call /\ outcomes[j] \in Seq({"ok", "failed"})
           /\ Len(outcomes[j]) \in Nat /\ Len(call[j].entries) \in Nat
           /\ pc[j] \in InTransaction => pending[j] \in Pending
           /\ pc[j] \notin InTransaction => pending[j] = None
  BY DEF IInv, JobsOK, Call, Sound

LEMMA StartGood ==
    ASSUME IInv, NEW j \in Jobs, Start(j)
    PROVE  Good(j)
  <1>1. PICK c \in Calls : call' = [call EXCEPT ![j] = c]
    BY DEF Start
  <1>2. /\ pc[j] \in {"idle", "done"} /\ pc' = [pc EXCEPT ![j] = "start"]
        /\ outcomes' = [outcomes EXCEPT ![j] = <<>>]
        /\ reply' = [reply EXCEPT ![j] = None]
        /\ pending' = pending /\ UNCHANGED tables
    BY DEF Start, Goto
  <1>3. c \in Call
    BY CallAssumption
  <1>4. JobsOK'
    BY <1>1, <1>2, <1>3 DEF IInv, JobsOK, Working
  <1>5. /\ Others(j) /\ pc'[j] = "start" /\ call'[j] = c /\ outcomes'[j] = <<>>
        /\ pending'[j] = None
    BY <1>1, <1>2, JobType DEF IInv, JobsOK, Others, InTransaction
  <1>6. AtLabel("start", call[j], outcomes[j])'
    BY <1>5 DEF AtLabel, InEntry
  <1>7. Sound(j)'
    BY <1>3, <1>5, <1>6 DEF Sound, InTransaction, Call
  <1> QED  BY <1>2, <1>4, <1>5, <1>7, QuietGood

LEMMA DispatchGood ==
    ASSUME IInv, NEW j \in Jobs, Dispatch(j)
    PROVE  Good(j)
  <1>1. pc[j] = "start" /\ UNCHANGED tables /\ pending[j] = None /\ outcomes[j] = <<>>
    BY JobType DEF Dispatch, InTransaction, IInv, Sound, AtLabel
  <1>2. CASE ~ Allowed(call[j])
    BY <1>1, <1>2, ReplyGood DEF Dispatch, Codes
  <1>3. CASE Allowed(call[j])
    <2>1. PICK label : /\ Goto(j, label) /\ UNCHANGED <<call, pending, outcomes, reply>>
                       /\ label = CASE call[j].op = "post"   -> "insertTenant"
                                    [] call[j].op = "put"    -> "updateTenant"
                                    [] call[j].op = "delete" -> "delete"
                                    [] call[j].op = "import" -> "entry"
      BY <1>3 DEF Dispatch
    <2>2. call[j].op \in {"post", "put", "delete", "import"}
      BY JobType DEF Call
    <2>3. label \in Working \ InTransaction
      BY <2>1, <2>2 DEF Working, InTransaction
    <2>4. call[j].op = "put" => call[j].by \in {Root, call[j].id}
      BY <1>3 DEF Allowed
    <2>5. AtLabel(label, call[j], outcomes[j])
      BY <1>1, <1>3, <2>1, <2>2, <2>4 DEF AtLabel, InEntry, Working, InTransaction
    <2> QED  BY <1>1, <2>1, <2>3, <2>5, GotoGood
  <1> QED  BY <1>2, <1>3

LEMMA NextEntryGood ==
    ASSUME IInv, NEW j \in Jobs, NextEntry(j)
    PROVE  Good(j)
  <1>1. /\ pc[j] = "entry" /\ UNCHANGED tables /\ pending[j] = None
        /\ call[j].op = "import" /\ Len(outcomes[j]) <= Len(call[j].entries)
    BY JobType DEF NextEntry, InTransaction, IInv, Sound, AtLabel
  <1>2. CASE Len(outcomes[j]) = Len(call[j].entries)
    BY <1>1, <1>2, ReplyGood DEF NextEntry, Codes
  <1>3. CASE Len(outcomes[j]) # Len(call[j].entries)
    <2>1. Len(outcomes[j]) < Len(call[j].entries)
      BY <1>1, <1>3, JobType
    <2>2. CASE Valid(Current(j))
      <3>1. AtLabel("findSlug", call[j], outcomes[j])
        BY <1>1, <2>1, <2>2 DEF AtLabel, Current
      <3> QED  BY <1>1, <1>3, <2>2, <3>1, GotoGood DEF NextEntry, Working, InTransaction
    <2>3. CASE ~ Valid(Current(j))
      BY <1>1, <1>3, <2>1, <2>3, FailedGood DEF NextEntry
    <2> QED  BY <2>2, <2>3
  <1> QED  BY <1>2, <1>3

LEMMA FindSlugGood ==
    ASSUME IInv, NEW j \in Jobs, FindSlug(j)
    PROVE  Good(j)
  <1>1. /\ pc[j] = "findSlug" /\ UNCHANGED tables /\ pending[j] = None
        /\ call[j].op = "import" /\ Len(outcomes[j]) < Len(call[j].entries)
        /\ Valid(call[j].entries[Len(outcomes[j]) + 1])
    BY JobType DEF FindSlug, InTransaction, IInv, Sound, AtLabel, InEntry
  <1>2. AtLabel("insertTenant", call[j], outcomes[j])
    BY <1>1 DEF AtLabel
  <1> QED
    BY <1>1, <1>2, FailedGood, GotoGood DEF FindSlug, Working, InTransaction

LEMMA RereadGood ==
    ASSUME IInv, NEW j \in Jobs, Reread(j)
    PROVE  Good(j)
  <1>1. pc[j] = "reread" /\ UNCHANGED tables /\ pending[j] = None
    BY JobType DEF Reread, InTransaction
  <1>2. CASE call[j].op = "import"
    <2>1. AtLabel("insertAdmin", call[j], outcomes[j])
      BY <1>1, <1>2 DEF IInv, Sound, AtLabel, InEntry
    <2> QED  BY <1>1, <1>2, <2>1, GotoGood DEF Reread, Working, InTransaction
  <1>3. CASE call[j].op # "import"
    BY <1>1, <1>3, ReplyGood DEF Reread, Codes
  <1> QED  BY <1>2, <1>3

LEMMA DeleteGood ==
    ASSUME IInv, NEW j \in Jobs, Delete(j)
    PROVE  Good(j)
  BY ReplyGood DEF Delete, Codes

LEMMA FailGood ==
    ASSUME IInv, NEW j \in Jobs, Fail(j)
    PROVE  Good(j)
  BY ThrowGood DEF Fail

LEMMA CrashGood ==
    ASSUME IInv, NEW j \in Jobs, Crash(j)
    PROVE  Good(j)
  <1>1. /\ pc' = [pc EXCEPT ![j] = "idle"] /\ pending' = [pending EXCEPT ![j] = None]
        /\ UNCHANGED tables /\ UNCHANGED <<call, outcomes, reply>>
    BY DEF Crash, Goto
  <1>2. JobsOK' /\ Others(j) /\ pc'[j] = "idle" /\ pending'[j] = None
    BY <1>1 DEF IInv, JobsOK, Others
  <1>3. AtLabel("idle", call[j], outcomes[j])'
    BY DEF AtLabel, InEntry, Working, InTransaction
  <1>4. Sound(j)'
    BY <1>1, <1>2, <1>3, SameComplete DEF IInv, Sound, InTransaction
  <1> QED  BY <1>1, <1>2, <1>4, QuietGood

-----------------------------------------------------------------------------

\* A step inside a transaction.
LEMMA WriteGood ==
    ASSUME IInv, NEW j \in Jobs, NEW label \in InTransaction, NEW p \in Pending,
           Goto(j, label), pending' = [pending EXCEPT ![j] = p],
           UNCHANGED <<call, outcomes, reply>>, UNCHANGED tables,
           AtLabel(label, call[j], outcomes[j]),
           Written(label, call[j], outcomes[j], p),
           \A q \in Jobs \ {j} : pending[q] # None => Apart(p, pending[q])
    PROVE  Good(j)
  <1>1. tenants' = tenants /\ brandings' = brandings /\ admins' = admins
    BY DEF tables
  <1>2. label \in Working /\ p \in Pending \cup {None} /\ p # None
    BY PendingAssumption DEF Working
  <1>3. /\ JobsOK' /\ Others(j) /\ pc'[j] = label
        /\ pending'[j] = p /\ call' = call /\ outcomes' = outcomes
    BY <1>2, WriteJobs DEF IInv
  <1>4. TablesOK' /\ BrandingsSound' /\ NamesUnique' /\ Grow
    BY <1>1 DEF IInv, TablesOK, BrandingsSound, NamesUnique, Same, NoOwners, Grow
  <1>5. AtLabel(pc[j], call[j], outcomes[j])'
    BY <1>1, <1>3 DEF AtLabel, Valid
  <1>6. Written(pc[j], call[j], outcomes[j], pending[j])'
    BY <1>1, <1>3 DEF Written, Taken, Same, NoOwners
  <1>7. Sound(j)'
    BY <1>1, <1>2, <1>3, <1>5, <1>6, SameComplete DEF IInv, Sound
  <1>8. ASSUME NEW q \in Jobs \ {j}, pending'[q] # None
        PROVE  /\ Written(pc[q], call[q], outcomes[q], pending[q])'
               /\ Apart(pending'[j], pending'[q])
    <2>1. /\ pc'[q] = pc[q] /\ call'[q] = call[q] /\ pending'[q] = pending[q]
          /\ outcomes'[q] = outcomes[q]
      BY <1>3 DEF Others
    <2>2. Written(pc[q], call[q], outcomes[q], pending[q])
      BY <1>8, <2>1 DEF IInv, Sound
    <2>3. Written(pc[q], call[q], outcomes[q], pending[q])'
      BY <1>1, <2>1, <2>2 DEF Written, Taken, Same, NoOwners
    <2> QED  BY <1>3, <1>8, <2>1, <2>3
  <1> QED  BY <1>3, <1>4, <1>7, <1>8 DEF Good

LEMMA CurrentType ==
    ASSUME IInv, NEW j \in Jobs, Len(outcomes[j]) < Len(call[j].entries)
    PROVE  Current(j) \in Entry
  <1>1. Len(outcomes[j]) + 1 \in 1..Len(call[j].entries)
    BY JobType
  <1> QED  BY <1>1, JobType, EntryType DEF Current

LEMMA InsertTenantGood ==
    ASSUME IInv, NEW j \in Jobs, InsertTenant(j)
    PROVE  Good(j)
  <1> DEFINE row == Created(Current(j))
             keys == Ids \ (DOMAIN tenants \cup
                          {pending[q].id : q \in {p \in Jobs : pending[p] # None}})
  <1>1. pc[j] = "insertTenant" /\ UNCHANGED tables /\ Free(j, None, row)
    BY DEF InsertTenant
  <1>2. CASE row.slug = None \/ Taken(None, row) \/ keys = {}
    <2>1. Throw(j)
      BY <1>2 DEF InsertTenant
    <2> QED  BY <1>1, <2>1, ThrowGood DEF Working
  <1>3. CASE ~ (row.slug = None \/ Taken(None, row) \/ keys = {})
    <2>1. PICK i \in keys :
             /\ pending' = [pending EXCEPT ![j] =
                    [id |-> i, row |-> row, brands |-> Nothing]]
             /\ Goto(j, "insertBranding") /\ UNCHANGED <<call, outcomes, reply>>
      BY <1>3 DEF InsertTenant
    <2> DEFINE p == [id |-> i, row |-> row, brands |-> Nothing]
    <2>2. call[j].op = "import"
      <3>1. call[j].op = "post" => Current(j).slug = None
        BY <1>1, CallAssumption DEF IInv, Sound, AtLabel, Current
      <3> QED  BY <1>1, <1>3, <3>1 DEF IInv, Sound, AtLabel, Created
    <2>3. Len(outcomes[j]) < Len(call[j].entries) /\ Valid(Current(j))
      BY <1>1, <2>2 DEF IInv, Sound, AtLabel, InEntry, Current
    <2>4. Current(j) \in Entry /\ Current(j).slug # None
      BY <2>3, CurrentType DEF Valid
    <2>5. row \in TenantRow /\ Nothing \in [{} -> BrandRow] /\ DOMAIN Nothing = {}
      BY <2>4 DEF Created, TenantRow, Entry, Nothing
    <2>6. p \in Pending
      BY <2>5 DEF Pending
    <2>7. AtLabel("insertBranding", call[j], outcomes[j])
      BY <2>2, <2>3 DEF AtLabel, InEntry, Current
    <2>8. Written("insertBranding", call[j], outcomes[j], p)
      <3>1. ~ Taken(i, row)
        BY <1>3, NoneAssumption DEF Taken, IInv, TablesOK
      <3> QED  BY <2>1, <2>2, <3>1 DEF Written, Current
    <2>9. ASSUME NEW q \in Jobs \ {j}, pending[q] # None
          PROVE  Apart(p, pending[q])
      <3>1. ~ WaitsFor(None, row, q) /\ i # pending[q].id
        BY <1>1, <2>1, <2>9 DEF Free
      <3> QED  BY <2>9, <3>1 DEF WaitsFor, Apart, Same
    <2> QED
      BY <1>1, <2>1, <2>6, <2>7, <2>8, <2>9, WriteGood DEF InTransaction
  <1> QED  BY <1>2, <1>3

LEMMA UpdateTenantGood ==
    ASSUME IInv, NEW j \in Jobs, UpdateTenant(j)
    PROVE  Good(j)
  <1> DEFINE i == call[j].id
             c == call[j]
             row == Updated(tenants[i], c)
             p == [id |-> i, row |-> row, brands |-> Nothing]
             label == IF c.look = None THEN "commit" ELSE "updateBranding"
  <1>1. pc[j] = "updateTenant" /\ UNCHANGED tables
    BY DEF UpdateTenant
  <1>2. CASE i \notin DOMAIN tenants
    BY <1>1, <1>2, ReplyGood DEF UpdateTenant, Codes
  <1>3. CASE i \in DOMAIN tenants /\ Taken(i, row)
    <2>1. Throw(j)
      BY <1>3 DEF UpdateTenant
    <2> QED  BY <1>1, <2>1, ThrowGood DEF Working
  <1>4. CASE i \in DOMAIN tenants /\ ~ Taken(i, row)
    <2>1. /\ Free(j, i, row) /\ pending' = [pending EXCEPT ![j] = p]
          /\ Goto(j, label) /\ UNCHANGED <<call, outcomes, reply>>
      BY <1>4 DEF UpdateTenant
    <2>2. c.op = "put" /\ c \in Call /\ c.by \in {Root, c.id}
      BY <1>1, JobType DEF IInv, Sound, AtLabel, Working
    <2>3. tenants[i] \in TenantRow /\ i \in Ids
      BY <1>4 DEF IInv, TablesOK
    <2>4. row \in TenantRow
      BY <2>2, <2>3 DEF Updated, TenantRow, Call
    <2>5. Nothing \in [{} -> BrandRow] /\ DOMAIN Nothing = {}
      BY DEF Nothing
    <2>6. p \in Pending
      BY <2>3, <2>4, <2>5 DEF Pending
    <2>7. AtLabel(label, c, outcomes[j])
      BY <2>2 DEF AtLabel, InEntry, Working, InTransaction
    <2>8. Written(label, c, outcomes[j], p)
      BY <1>4, <2>2, <2>5 DEF Written, Branded
    <2>9. ASSUME NEW q \in Jobs \ {j}, pending[q] # None
          PROVE  Apart(p, pending[q])
      <3>1. ~ WaitsFor(i, row, q)
        BY <2>1, <2>9 DEF Free
      <3> QED  BY <2>9, <3>1 DEF WaitsFor, Apart, Same
    <2>10. label \in InTransaction
      BY DEF InTransaction
    <2> HIDE DEF label, p
    <2> QED
      BY <1>1, <2>1, <2>6, <2>7, <2>8, <2>9, <2>10, WriteGood
  <1> QED  BY <1>2, <1>3, <1>4

\* What WriteBranding puts into the transaction, if the owner is a tenant.
LEMMA BrandingGood ==
    ASSUME IInv, NEW j \in Jobs, pc[j] \in {"insertBranding", "updateBranding"},
           NEW keys \in SUBSET Ids, NEW owner \in Ids, NEW look \in Looks,
           WriteBranding(j, keys, owner, look),
           NoOwners => keys = {pending[j].id} /\ owner = pending[j].id,
           call[j].op = "put" => call[j].look = look,
           call[j].op = "import" => Current(j).look = look
    PROVE  Good(j)
  <1> DEFINE brands == [k \in keys |-> [owner |-> owner, look |-> look]]
             p == [pending[j] EXCEPT !.brands = brands]
  <1>1. UNCHANGED tables /\ pc[j] \in Working \ {"start", "entry"}
    BY DEF WriteBranding, Working, InTransaction
  <1>2. CASE owner \notin DOMAIN tenants \cup {pending[j].id}
    BY <1>1, <1>2, ThrowGood DEF WriteBranding
  <1>3. CASE owner \in DOMAIN tenants \cup {pending[j].id}
    <2>1. /\ pending' = [pending EXCEPT ![j].brands = brands]
          /\ Goto(j, "commit") /\ UNCHANGED <<call, outcomes, reply>>
      BY <1>3 DEF WriteBranding
    <2>2. pending[j] \in Pending /\ pending[j] # None
      BY JobType, PendingAssumption DEF InTransaction
    <2>3. brands \in [keys -> BrandRow]
      BY DEF BrandRow
    <2>4. [keys -> BrandRow] \in {[S -> BrandRow] : S \in SUBSET Ids}
      OBVIOUS
    <2>5. brands \in UNION {[S -> BrandRow] : S \in SUBSET Ids}
      BY <2>3, <2>4
    <2> HIDE DEF brands
    <2>6. /\ p = [id |-> pending[j].id, row |-> pending[j].row, brands |-> brands]
          /\ p \in Pending
      BY <2>2, <2>5 DEF Pending
    <2>7. pending' = [pending EXCEPT ![j] = p]
      BY <2>1
    <2>8. Written(pc[j], call[j], outcomes[j], pending[j])
      BY <2>2 DEF IInv, Sound
    <2>9. AtLabel("commit", call[j], outcomes[j])
      BY DEF IInv, Sound, AtLabel, InEntry, Working, InTransaction
    <2>10. /\ p.id = pending[j].id /\ p.row = pending[j].row /\ p.brands = brands
           /\ DOMAIN brands = keys
           /\ \A k \in keys : brands[k].owner = owner /\ brands[k].look = look
      BY <2>6 DEF brands
    <2>11. ~ (call[j].op = "put" /\ call[j].look = None)
      BY NoneAssumption
    <2> HIDE DEF p
    <2>12. NoOwners => Branded(call[j], outcomes[j], p)
      BY <2>10, <2>11 DEF Branded, Current
    <2>13. Written("commit", call[j], outcomes[j], p)
      BY <2>8, <2>10, <2>12 DEF Written
    <2>14. \A q \in Jobs \ {j} : pending[q] # None => Apart(p, pending[q])
      BY <2>2, <2>10 DEF IInv, Locked, Apart
    <2> QED
      BY <1>1, <2>1, <2>6, <2>7, <2>9, <2>13, <2>14, WriteGood DEF InTransaction
  <1> QED  BY <1>2, <1>3

LEMMA InsertBrandingGood ==
    ASSUME IInv, NEW j \in Jobs, InsertBranding(j)
    PROVE  Good(j)
  <1> DEFINE i == pending[j].id
             owner == Given(Current(j).owner, i)
  <1>1. /\ pc[j] = "insertBranding"
        /\ WriteBranding(j, {i}, owner, Current(j).look)
    BY DEF InsertBranding
  <1>2. /\ call[j].op = "import" /\ Len(outcomes[j]) < Len(call[j].entries)
    BY <1>1 DEF IInv, Sound, AtLabel, InEntry
  <1>3. Current(j) \in Entry /\ pending[j] \in Pending
    BY <1>1, <1>2, CurrentType, JobType DEF InTransaction
  <1>4. i \in Ids /\ owner \in Ids /\ Current(j).look \in Looks
    BY <1>3 DEF Entry, Pending, Given
  <1>5. NoOwners => owner = i
    <2>1. Len(outcomes[j]) + 1 \in 1..Len(call[j].entries)
      BY <1>2, JobType
    <2>2. call[j] \in Calls
      BY DEF IInv, Sound
    <2> QED  BY <2>1, <2>2 DEF NoOwners, Given, Current
  <1> HIDE DEF owner, i
  <1>6. i = pending[j].id
    BY DEF i
  <1> QED  BY <1>1, <1>2, <1>4, <1>5, <1>6, BrandingGood

LEMMA UpdateBrandingGood ==
    ASSUME IInv, NEW j \in Jobs, UpdateBranding(j)
    PROVE  Good(j)
  <1> DEFINE c == call[j]
             keys == {k \in DOMAIN brandings : brandings[k].owner = c.id}
             owner == Given(c.owner, c.id)
  <1>1. pc[j] = "updateBranding" /\ WriteBranding(j, keys, owner, c.look)
    BY DEF UpdateBranding
  <1>2. c.op = "put" /\ c.look # None /\ c \in Call /\ c \in Calls
    BY <1>1, JobType DEF IInv, Sound, AtLabel
  <1>3. owner \in Ids /\ c.look \in Looks /\ keys \in SUBSET Ids
    BY <1>2 DEF Call, Given, IInv, TablesOK
  <1>4. pending[j].id = c.id /\ c.id \in DOMAIN tenants
    <2>1. pending[j] # None
      BY <1>1 DEF IInv, Sound, InTransaction
    <2> QED  BY <1>2, <2>1 DEF IInv, Sound, Written
  <1>5. NoOwners => keys = {pending[j].id} /\ owner = pending[j].id
    BY <1>2, <1>4 DEF NoOwners, Given, IInv, BrandingsSound
  <1> HIDE DEF keys, owner
  <1> QED  BY <1>1, <1>2, <1>3, <1>5, BrandingGood

\* The tables after createTenantAdmin.
LEMMA InsertAdminGood ==
    ASSUME IInv, NEW j \in Jobs, InsertAdmin(j)
    PROVE  Good(j)
  <1> DEFINE e == Current(j)
  <1>1. /\ pc[j] = "insertAdmin" /\ UNCHANGED <<tenants, brandings>>
        /\ pending[j] = None /\ call[j].op = "import"
        /\ Len(outcomes[j]) < Len(call[j].entries) /\ Valid(e)
        /\ \E i \in DOMAIN tenants : tenants[i].slug = e.slug
    BY JobType DEF InsertAdmin, InTransaction, IInv, Sound, AtLabel, InEntry, Current
  <1>2. e \in Entry /\ e.email \in Emails
    BY <1>1, CurrentType DEF Valid, Entry
  <1>3. CASE e.email \in DOMAIN admins
    <2>1. EndEntry(j, "failed") /\ UNCHANGED tables
      BY <1>1, <1>3 DEF InsertAdmin, tables
    <2> QED  BY <1>1, <2>1, FailedGood
  <1>4. CASE e.email \notin DOMAIN admins
    <2>1. PICK i \in DOMAIN tenants : i = Onboarded(j) /\ tenants[i].slug = e.slug
      BY <1>1 DEF Onboarded
    <2>2. admins' = Upsert(admins, Single(e.email, i))
      BY <1>4, <2>1 DEF InsertAdmin
    <2> HIDE DEF e
    <2>3. /\ DOMAIN admins' = DOMAIN admins \cup {e.email}
          /\ admins'[e.email] = i
          /\ \A a \in DOMAIN admins : admins'[a] = admins[a]
          /\ admins' = [a \in DOMAIN admins' |-> admins'[a]]
      BY <1>4, <2>2 DEF Upsert, Single
    <2>4. TablesOK'
      <3>1. \A a \in DOMAIN admins : admins[a] \in DOMAIN tenants
        BY DEF IInv, TablesOK
      <3>2. \A a \in DOMAIN admins' : admins'[a] \in DOMAIN tenants
        BY <2>1, <2>3, <3>1
      <3>3. admins' \in [DOMAIN admins' -> DOMAIN tenants]
        BY <2>3, <3>2
      <3> QED  BY <1>1, <1>2, <2>3, <3>3 DEF IInv, TablesOK
    <2>5. BrandingsSound' /\ NamesUnique' /\ Grow
      BY <1>1, <2>3 DEF IInv, BrandingsSound, NamesUnique, Same, NoOwners, Grow
    <2>6. PICK result \in {"ok", "failed"} : EndEntry(j, result)
      BY <1>4 DEF InsertAdmin, e
    <2>7. /\ JobsOK' /\ Others(j) /\ pc'[j] = "entry" /\ pending'[j] = None
          /\ call' = call
          /\ Len(outcomes'[j]) = Len(outcomes[j]) + 1
          /\ outcomes'[j][Len(outcomes[j]) + 1] = result
          /\ \A n \in 1..Len(outcomes[j]) : outcomes'[j][n] = outcomes[j][n]
      BY <2>6, EndEntryJobs DEF IInv
    <2>8. /\ i \in DOMAIN tenants' /\ tenants'[i].slug = e.slug
          /\ e.email \in DOMAIN admins' /\ admins'[e.email] = i
      BY <1>1, <2>1, <2>3
    <2>9. NoOwners => BrandingsOf(i)' # {}
      BY <2>5, <2>8 DEF BrandingsSound, BrandingsOf
    <2>10. \A n \in 1..Len(outcomes'[j]) :
              outcomes'[j][n] = "ok" => Complete(call[j].entries[n])'
      <3> SUFFICES ASSUME NEW n \in 1..Len(outcomes'[j]), outcomes'[j][n] = "ok"
                   PROVE  Complete(call[j].entries[n])'
        OBVIOUS
      <3>1. CASE n = Len(outcomes[j]) + 1
        BY <2>7, <2>8, <2>9, <3>1 DEF Complete, NoOwners, Current, e
      <3>2. CASE n # Len(outcomes[j]) + 1
        <4>1. n \in 1..Len(outcomes[j]) /\ outcomes[j][n] = "ok"
          BY <2>7, <3>2, JobType
        <4>2. PICK k \in DOMAIN tenants :
                 /\ tenants[k].slug = call[j].entries[n].slug
                 /\ call[j].entries[n].email \in DOMAIN admins
                 /\ admins[call[j].entries[n].email] = k
          BY <4>1 DEF IInv, Sound, Complete
        <4>3. NoOwners => BrandingsOf(k)' # {}
          BY <1>1, <2>5, <4>2 DEF BrandingsSound, BrandingsOf
        <4> QED  BY <1>1, <2>3, <2>7, <4>2, <4>3 DEF Complete, NoOwners
      <3> QED  BY <3>1, <3>2
    <2>11. AtLabel("entry", call[j], outcomes[j])'
      BY <1>1, <2>7 DEF AtLabel, InEntry, Working, InTransaction
    <2>12. Sound(j)'
      BY <1>1, <2>7, <2>10, <2>11, JobType DEF IInv, Sound, InTransaction
    <2>13. \A q \in Jobs \ {j} : pending'[q] # None =>
              Written(pc[q], call[q], outcomes[q], pending[q])'
      <3> SUFFICES ASSUME NEW q \in Jobs \ {j}, pending'[q] # None
                   PROVE  Written(pc[q], call[q], outcomes[q], pending[q])'
        OBVIOUS
      <3>1. /\ pc'[q] = pc[q] /\ call'[q] = call[q] /\ pending'[q] = pending[q]
            /\ outcomes'[q] = outcomes[q]
        BY <2>7 DEF Others
      <3>2. Written(pc[q], call[q], outcomes[q], pending[q])
        BY <3>1 DEF IInv, Sound
      <3> QED  BY <1>1, <3>1, <3>2 DEF Written, Taken, Same, NoOwners
    <2> QED  BY <2>4, <2>5, <2>7, <2>12, <2>13 DEF Good
  <1> QED  BY <1>3, <1>4

-----------------------------------------------------------------------------

LEMMA UpdatedRow ==
    ASSUME NEW row \in TenantRow, NEW c \in Call
    PROVE  Updated(row, c) \in TenantRow /\ Updated(row, c).slug = row.slug
  BY DEF Updated, TenantRow, Call

\* What a commit does to the tables.
LEMMA CommitTables ==
    ASSUME IInv, NEW j \in Jobs, Commit(j)
    PROVE  /\ DOMAIN tenants' = DOMAIN tenants \cup {pending[j].id}
           /\ tenants'[pending[j].id] = pending[j].row
           /\ \A i \in DOMAIN tenants \ {pending[j].id} : tenants'[i] = tenants[i]
           /\ DOMAIN brandings' = DOMAIN brandings \cup DOMAIN pending[j].brands
           /\ \A k \in DOMAIN brandings' :
                 brandings'[k] = IF k \in DOMAIN pending[j].brands
                                 THEN pending[j].brands[k] ELSE brandings[k]
           /\ admins' = admins
           /\ TablesOK' /\ BrandingsSound' /\ NamesUnique' /\ Grow
  <1> DEFINE p == pending[j]
  <1>1. /\ pc[j] = "commit" /\ admins' = admins
        /\ tenants' = Upsert(tenants, Single(p.id, p.row))
        /\ brandings' = Upsert(brandings, p.brands)
    BY DEF Commit
  <1>2. p \in Pending /\ p # None
    BY <1>1, JobType, PendingAssumption DEF InTransaction
  <1>3. Written("commit", call[j], outcomes[j], p) /\ call[j].op \in {"import", "put"}
    BY <1>1, <1>2 DEF IInv, Sound, AtLabel
  <1> HIDE DEF p
  <1>4. /\ p.id \in Ids /\ p.row \in TenantRow
        /\ p.brands \in UNION {[S -> BrandRow] : S \in SUBSET Ids}
    BY <1>2 DEF Pending
  <1>5. PICK S \in SUBSET Ids : p.brands \in [S -> BrandRow]
    BY <1>4
  <1>6. /\ DOMAIN tenants' = DOMAIN tenants \cup {p.id}
        /\ tenants'[p.id] = p.row
        /\ \A i \in DOMAIN tenants \ {p.id} : tenants'[i] = tenants[i]
        /\ tenants' = [i \in DOMAIN tenants' |-> tenants'[i]]
    BY <1>1 DEF Upsert, Single
  <1>7. /\ DOMAIN brandings' = DOMAIN brandings \cup DOMAIN p.brands
        /\ \A k \in DOMAIN brandings' :
              brandings'[k] = IF k \in DOMAIN p.brands THEN p.brands[k] ELSE brandings[k]
        /\ brandings' = [k \in DOMAIN brandings' |-> brandings'[k]]
    BY <1>1 DEF Upsert
  <1>8. \A i \in DOMAIN tenants : tenants[i] \in TenantRow
    BY DEF IInv, TablesOK
  <1>9. /\ \A i \in DOMAIN tenants : tenants'[i].slug = tenants[i].slug
    <2>1. CASE call[j].op = "import"
      BY <1>3, <1>6, <2>1 DEF Written
    <2>2. CASE call[j].op = "put"
      <3>1. p.row.slug = tenants[p.id].slug
        BY <1>3, <1>8, <2>2, JobType, UpdatedRow DEF Written
      <3> QED  BY <1>6, <3>1
    <2> QED  BY <1>3, <2>1, <2>2
  <1>10. TablesOK'
    <2>1. \A i \in DOMAIN tenants' : tenants'[i] \in TenantRow
      BY <1>4, <1>6, <1>8
    <2>2. tenants' \in [DOMAIN tenants' -> TenantRow] /\ DOMAIN tenants' \subseteq Ids
      BY <1>4, <1>6, <2>1 DEF IInv, TablesOK
    <2>3. \A k \in DOMAIN brandings' : brandings'[k] \in BrandRow
      BY <1>5, <1>7 DEF IInv, TablesOK
    <2>4. brandings' \in [DOMAIN brandings' -> BrandRow] /\ DOMAIN brandings' \subseteq Ids
      BY <1>5, <1>7, <2>3 DEF IInv, TablesOK
    <2>5. admins' \in [DOMAIN admins' -> DOMAIN tenants'] /\ DOMAIN admins' \subseteq Emails
      BY <1>1, <1>6 DEF IInv, TablesOK
    <2> QED  BY <2>2, <2>4, <2>5 DEF TablesOK
  <1>11. NamesUnique'
    BY <1>3, <1>6 DEF Written, Taken, Same, IInv, NamesUnique
  <1>12. BrandingsSound'
    <2> SUFFICES ASSUME NoOwners
                 PROVE  /\ DOMAIN brandings' = DOMAIN tenants'
                        /\ \A k \in DOMAIN brandings' : brandings'[k].owner = k
      BY DEF BrandingsSound, NoOwners
    <2>1. /\ DOMAIN p.brands \subseteq {p.id}
          /\ call[j].op = "import" => DOMAIN p.brands = {p.id}
          /\ \A k \in DOMAIN p.brands : p.brands[k].owner = k
          /\ call[j].op = "put" => p.id \in DOMAIN tenants
      BY <1>3 DEF Written, Branded
    <2> QED  BY <1>3, <1>6, <1>7, <2>1 DEF IInv, BrandingsSound
  <1>13. Grow
    BY <1>1, <1>6, <1>9 DEF Grow
  <1> QED  BY <1>1, <1>6, <1>7, <1>10, <1>11, <1>12, <1>13 DEF p

\* What the other transactions wrote is still free after a commit.
LEMMA CommitOthers ==
    ASSUME IInv, NEW j \in Jobs, Commit(j), NEW q \in Jobs \ {j}, pending[q] # None,
           pc'[q] = pc[q], call'[q] = call[q], pending'[q] = pending[q],
           outcomes'[q] = outcomes[q]
    PROVE  Written(pc[q], call[q], outcomes[q], pending[q])'
  <1> DEFINE p == pending[j]
             r == pending[q]
  <1>1. /\ DOMAIN tenants' = DOMAIN tenants \cup {p.id}
        /\ tenants'[p.id] = p.row
        /\ \A i \in DOMAIN tenants \ {p.id} : tenants'[i] = tenants[i]
    BY CommitTables
  <1>2. pending[j] # None
    BY DEF Commit, IInv, Sound, InTransaction
  <1>3. Apart(p, r)
    BY <1>2 DEF IInv, Locked
  <1>4. Written(pc[q], call[q], outcomes[q], r)
    BY DEF IInv, Sound
  <1>5. ~ Taken(r.id, r.row)'
    BY <1>1, <1>3, <1>4 DEF Apart, Written, Taken, Same
  <1> QED  BY <1>1, <1>3, <1>4, <1>5 DEF Apart, Written, NoOwners

LEMMA CommitGood ==
    ASSUME IInv, NEW j \in Jobs, Commit(j)
    PROVE  Good(j)
  <1>1. /\ TablesOK' /\ BrandingsSound' /\ NamesUnique' /\ Grow
        /\ DOMAIN tenants' = DOMAIN tenants \cup {pending[j].id}
        /\ tenants'[pending[j].id] = pending[j].row
    BY CommitTables
  <1>2. /\ pc[j] = "commit" /\ call[j].op \in {"import", "put"}
        /\ Written("commit", call[j], outcomes[j], pending[j])
    BY DEF Commit, IInv, Sound, AtLabel, InTransaction
  <1>3. \A n \in 1..Len(outcomes[j]) :
           outcomes[j][n] = "ok" /\ call'[j] = call[j] => Complete(call[j].entries[n])'
    <2> SUFFICES ASSUME NEW n \in 1..Len(outcomes[j]), outcomes[j][n] = "ok",
                        call'[j] = call[j]
                 PROVE  Complete(call[j].entries[n])'
      OBVIOUS
    <2>1. PICK k \in DOMAIN tenants :
             /\ tenants[k].slug = call[j].entries[n].slug
             /\ call[j].entries[n].email \in DOMAIN admins
             /\ admins[call[j].entries[n].email] = k
      BY DEF IInv, Sound, Complete
    <2>2. /\ k \in DOMAIN tenants' /\ tenants'[k].slug = call[j].entries[n].slug
          /\ call[j].entries[n].email \in DOMAIN admins'
          /\ admins'[call[j].entries[n].email] = k
      BY <1>1, <2>1 DEF Grow
    <2>3. NoOwners => BrandingsOf(k)' # {}
      BY <1>1, <2>2 DEF BrandingsSound, BrandingsOf
    <2> QED  BY <2>2, <2>3 DEF Complete, NoOwners
  <1>4. /\ JobsOK' /\ Others(j) /\ pending'[j] = None /\ Sound(j)'
    <2>1. CASE Goto(j, "reread") /\ pending' = [pending EXCEPT ![j] = None]
               /\ UNCHANGED <<call, outcomes, reply>>
      <3>1. /\ JobsOK' /\ Others(j) /\ pc'[j] = "reread"
            /\ pending'[j] = None /\ call' = call /\ outcomes' = outcomes
        BY <2>1, WriteJobs DEF IInv, Working
      <3>2. call[j].op = "import" => \E i \in DOMAIN tenants' :
               tenants'[i].slug = call[j].entries[Len(outcomes[j]) + 1].slug
        BY <1>1, <1>2 DEF Written, Created
      <3>3. AtLabel("reread", call[j], outcomes[j])'
        BY <1>2, <3>1, <3>2 DEF IInv, Sound, AtLabel, InEntry, Working, InTransaction, Valid
      <3> QED  BY <1>3, <3>1, <3>3 DEF IInv, Sound, InTransaction
    <2>2. CASE call[j].op = "import" /\ EndEntry(j, "failed")
      <3>1. /\ JobsOK' /\ Others(j) /\ pc'[j] = "entry" /\ pending'[j] = None
            /\ call' = call
            /\ Len(outcomes'[j]) = Len(outcomes[j]) + 1
            /\ outcomes'[j][Len(outcomes[j]) + 1] = "failed"
            /\ \A n \in 1..Len(outcomes[j]) : outcomes'[j][n] = outcomes[j][n]
        BY <2>2, EndEntryJobs DEF IInv
      <3>2. Len(outcomes[j]) < Len(call[j].entries)
        BY <1>2, <2>2 DEF IInv, Sound, AtLabel, InEntry
      <3>3. \A n \in 1..Len(outcomes'[j]) :
               outcomes'[j][n] = "ok" => Complete(call[j].entries[n])'
        <4> SUFFICES ASSUME NEW n \in 1..Len(outcomes'[j]), outcomes'[j][n] = "ok"
                     PROVE  Complete(call[j].entries[n])'
          OBVIOUS
        <4>1. n \in 1..Len(outcomes[j]) /\ outcomes[j][n] = "ok"
          BY <3>1, JobType
        <4> QED  BY <1>3, <3>1, <4>1
      <3>4. AtLabel("entry", call[j], outcomes[j])'
        BY <2>2, <3>1 DEF AtLabel, InEntry, Working, InTransaction
      <3> QED  BY <3>1, <3>2, <3>3, <3>4, JobType DEF IInv, Sound, InTransaction
    <2>3. CASE call[j].op # "import" /\ Reply(j, 500)
      <3>1. /\ JobsOK' /\ Others(j) /\ pc'[j] = "done" /\ pending'[j] = None
            /\ call' = call /\ outcomes' = outcomes
        BY <2>3, ReplyJobs DEF IInv, Codes
      <3>2. AtLabel("done", call[j], outcomes[j])'
        BY DEF AtLabel, InEntry, Working, InTransaction
      <3> QED  BY <1>3, <3>1, <3>2 DEF IInv, Sound, InTransaction
    <2> QED  BY <2>1, <2>2, <2>3 DEF Commit, Throw
  <1>5. \A q \in Jobs \ {j} : pending'[q] # None =>
           Written(pc[q], call[q], outcomes[q], pending[q])'
    BY <1>4, CommitOthers DEF Others
  <1> QED  BY <1>1, <1>4, <1>5 DEF Good

-----------------------------------------------------------------------------

LEMMA StepGood ==
    ASSUME IInv, NEW j \in Jobs, Start(j) \/ Step(j) \/ Fail(j) \/ Crash(j)
    PROVE  Good(j)
  BY StartGood, DispatchGood, NextEntryGood, FindSlugGood, InsertTenantGood,
     InsertBrandingGood, CommitGood, RereadGood, InsertAdminGood,
     UpdateTenantGood, UpdateBrandingGood, DeleteGood, FailGood, CrashGood
     DEF Step

LEMMA InitInv == Init => IInv
  <1> SUFFICES ASSUME Init PROVE IInv
    OBVIOUS
  <1> DEFINE c == CHOOSE x \in Calls : TRUE
  <1>1. c \in Calls /\ c \in Call
    BY CallAssumption
  <1>2. /\ DOMAIN tenants = {} /\ DOMAIN brandings = {} /\ DOMAIN admins = {}
        /\ tenants \in [{} -> TenantRow] /\ brandings \in [{} -> BrandRow]
        /\ admins \in [{} -> {}]
    BY DEF Init, Nothing
  <1> HIDE DEF c
  <1>3. /\ pc = [j \in Jobs |-> "idle"] /\ call = [j \in Jobs |-> c]
        /\ pending = [j \in Jobs |-> None] /\ outcomes = [j \in Jobs |-> <<>>]
        /\ reply = [j \in Jobs |-> None]
    BY DEF Init, c
  <1>4. TablesOK /\ BrandingsSound /\ NamesUnique
    BY <1>2 DEF TablesOK, BrandingsSound, NamesUnique
  <1>5. JobsOK
    BY <1>1, <1>3 DEF JobsOK
  <1>6. Locked
    BY <1>3 DEF Locked
  <1>7. ASSUME NEW j \in Jobs PROVE Sound(j)
    <2>1. AtLabel("idle", c, <<>>)
      BY DEF AtLabel, InEntry, Working, InTransaction
    <2> QED  BY <1>1, <1>3, <2>1 DEF Sound, InTransaction, Call
  <1> QED  BY <1>4, <1>5, <1>6, <1>7 DEF IInv

LEMMA NextInv == IInv /\ [Next]_vars => IInv'
  <1> SUFFICES ASSUME IInv, [Next]_vars PROVE IInv'
    OBVIOUS
  <1>1. CASE Next
    BY <1>1, StepGood, GoodStep DEF Next
  <1>2. CASE UNCHANGED vars
    <2>1. UNCHANGED tables /\ UNCHANGED <<pc, call, pending, outcomes, reply>>
      BY <1>2 DEF vars, tables
    <2>2. TablesOK' /\ JobsOK' /\ BrandingsSound' /\ NamesUnique' /\ Locked'
      BY <2>1 DEF tables, IInv, TablesOK, JobsOK, BrandingsSound, NamesUnique, Locked,
                  Same, NoOwners
    <2>3. ASSUME NEW j \in Jobs PROVE Sound(j)'
      <3>1. Sound(j)
        BY DEF IInv
      <3>2. AtLabel(pc[j], call[j], outcomes[j])'
        BY <2>1, <3>1 DEF tables, Sound, AtLabel, Valid
      <3>3. pending'[j] # None => Written(pc[j], call[j], outcomes[j], pending[j])'
        BY <2>1, <3>1 DEF tables, Sound, Written, Taken, Same, NoOwners
      <3>4. \A n \in 1..Len(outcomes[j]) :
               outcomes[j][n] = "ok" => Complete(call[j].entries[n])'
        BY <2>1, <3>1, SameComplete DEF Sound
      <3> QED  BY <2>1, <3>1, <3>2, <3>3, <3>4 DEF Sound
    <2> QED  BY <2>2, <2>3 DEF IInv
  <1> QED  BY <1>1, <1>2

LEMMA Invariance == Spec => []IInv
  BY InitInv, NextInv, PTL DEF Spec

\* Every row and every job is what the code declares; a transaction is open
\* exactly at its labels (tenant.js:244-283, tenants.js:75-110).
THEOREM TypeCorrect == Spec => []TypeOK
  <1>1. IInv => TypeOK
    BY DEF IInv, TablesOK, JobsOK, Sound, TypeOK
  <1> QED  BY <1>1, Invariance, PTL

\* Slugs and domains are unique although onboarding looks before it inserts
\* and PUT does not look (create-tenant.js:23-30, tenants.js:79).
THEOREM NamesAreUnique == Spec => []NamesUnique
  <1>1. IInv => NamesUnique
    BY DEF IInv
  <1> QED  BY <1>1, Invariance, PTL

\* createTenant leaves a tenant with one branding, whatever fails or dies, if
\* no branding carries a tenantId (tenant.js:266-270).
THEOREM OneBranding ==
    ASSUME NoOwners
    PROVE  Spec => []OneBrandingEach
  <1>1. IInv => OneBrandingEach
    <2> SUFFICES ASSUME IInv, NEW i \in DOMAIN tenants
                 PROVE  \E k \in Ids : BrandingsOf(i) = {k}
      BY DEF OneBrandingEach
    <2>1. BrandingsOf(i) = {i} /\ i \in Ids
      BY DEF IInv, TablesOK, BrandingsSound, BrandingsOf
    <2> QED  BY <2>1
  <1> QED  BY <1>1, Invariance, PTL

\* An entry that an import reports as successful has its tenant, branding and
\* administrator (bulk-import-tenants.js, onboardTenant).
THEOREM SuccessIsComplete == Spec => []OkMeansComplete
  <1>1. IInv => OkMeansComplete
    BY DEF IInv, Sound, Complete, OkMeansComplete
  <1> QED  BY <1>1, Invariance, PTL

\* A tenant that can be seen changes only by the commit of a PUT by the
\* super-admin or its own administrator, and then as that call asks, if no
\* branding carries a tenantId (tenants.js:60-110).
THEOREM PutsAreWhole ==
    ASSUME NoOwners
    PROVE  Spec => PutIsWhole
  <1> DEFINE Asked(i, j) ==
                /\ pc[j] = "commit" /\ call[j].op = "put" /\ call[j].id = i
                /\ call[j].by \in {Root, i}
                /\ tenants'[i] = Updated(tenants[i], call[j])
                /\ call[j].look # None =>
                      \A k \in BrandingsOf(i) : brandings'[k].look = call[j].look
             Changed(i) ==
                \/ tenants'[i] # tenants[i]
                \/ \E k \in BrandingsOf(i) : brandings'[k] # brandings[k]
             Whole == \A i \in DOMAIN tenants : Changed(i) => \E j \in Jobs : Asked(i, j)
  <1>1. IInv /\ [Next]_vars => [Whole]_vars
    <2> SUFFICES ASSUME IInv, Next, NEW i \in DOMAIN tenants, Changed(i)
                 PROVE  \E j \in Jobs : Asked(i, j)
      OBVIOUS
    <2>1. ~ UNCHANGED <<tenants, brandings>>
      OBVIOUS
    <2>2. PICK j \in Jobs : Start(j) \/ Step(j) \/ Fail(j) \/ Crash(j)
      BY DEF Next
    <2>3. Commit(j)
      BY <2>1, <2>2 DEF Start, Step, Fail, Crash, tables, Dispatch, NextEntry, FindSlug,
                        InsertTenant, InsertBranding, WriteBranding, Reread,
                        InsertAdmin, UpdateTenant, UpdateBranding, Delete
    <2> DEFINE p == pending[j]
    <2>4. /\ DOMAIN tenants' = DOMAIN tenants \cup {p.id} /\ tenants'[p.id] = p.row
          /\ \A k \in DOMAIN tenants \ {p.id} : tenants'[k] = tenants[k]
          /\ DOMAIN brandings' = DOMAIN brandings \cup DOMAIN p.brands
          /\ \A k \in DOMAIN brandings' :
                brandings'[k] = IF k \in DOMAIN p.brands THEN p.brands[k] ELSE brandings[k]
      BY <2>3, CommitTables
    <2>5. /\ pc[j] = "commit" /\ call[j].op \in {"import", "put"}
          /\ Written("commit", call[j], outcomes[j], p)
          /\ call[j].op = "put" => call[j].by \in {Root, call[j].id}
      BY <2>3 DEF Commit, IInv, Sound, AtLabel, InTransaction, Working
    <2>6. BrandingsOf(i) = {i} /\ i \in DOMAIN brandings
      BY DEF IInv, BrandingsSound, BrandingsOf
    <2>7. DOMAIN p.brands \subseteq {p.id}
      BY <2>5 DEF Written, Branded
    <2>8. i = p.id
      BY <2>4, <2>6, <2>7
    <2>9. call[j].op = "put"
      BY <2>5, <2>8 DEF Written
    <2>10. call[j].look # None =>
              \A k \in BrandingsOf(i) : brandings'[k].look = call[j].look
      BY <2>4, <2>5, <2>6, <2>8, <2>9 DEF Written, Branded
    <2>11. call[j].id = i /\ tenants'[i] = Updated(tenants[i], call[j])
      BY <2>4, <2>5, <2>8, <2>9 DEF Written
    <2> QED  BY <2>5, <2>9, <2>10, <2>11
  <1> QED  BY <1>1, Invariance, PTL DEF Spec, PutIsWhole

-----------------------------------------------------------------------------
(***************************************************************************)
(* Tenants implements TenantRegistry.  Start is Ask; a commit is the one   *)
(* moment at which an onboarding founds a tenant or a PUT amends one; the  *)
(* accesses before it and the one after it are not seen.                   *)
(***************************************************************************)

\* What can be seen of the tables.
LEMMA VisibleTables ==
    ASSUME NoOwners, BrandingsSound
    PROVE  Visible = [i \in DOMAIN tenants |->
                         [row |-> tenants[i], looks |-> {brandings[i].look}]]
  <1>1. \A i \in DOMAIN tenants : BrandingsOf(i) = {i}
    BY DEF BrandingsSound, BrandingsOf
  <1>2. \A i \in DOMAIN tenants :
           {brandings[k].look : k \in BrandingsOf(i)} = {brandings[i].look}
    BY <1>1
  <1> QED  BY <1>2 DEF Visible

LEMMA VisibleTablesAfter ==
    ASSUME NoOwners, BrandingsSound'
    PROVE  Visible' = [i \in DOMAIN tenants' |->
                         [row |-> tenants'[i], looks |-> {brandings'[i].look}]]
  <1>1. \A i \in DOMAIN tenants' : BrandingsOf(i)' = {i}
    BY DEF BrandingsSound, BrandingsOf, NoOwners
  <1>2. \A i \in DOMAIN tenants' :
           {brandings'[k].look : k \in BrandingsOf(i)'} = {brandings'[i].look}
    BY <1>1
  <1> QED  BY <1>2 DEF Visible

LEMMA VisibleStays ==
    ASSUME UNCHANGED <<tenants, brandings>>
    PROVE  Visible' = Visible
  BY DEF Visible, BrandingsOf

\* What can be seen of a job as it goes from label to label.
LEMMA Moves ==
    ASSUME JobsOK, NEW j \in Jobs, NEW label, Goto(j, label)
    PROVE  Phase' = [Phase EXCEPT ![j] =
                        CASE label = "idle" -> "idle"
                          [] label = "done" -> "answered"
                          [] label \in {"reread", "insertAdmin"} -> "made"
                          [] OTHER          -> "asked"]
  <1>1. pc' = [pc EXCEPT ![j] = label] /\ pc \in [Jobs -> Working \cup {"idle", "done"}]
    BY DEF Goto, JobsOK
  <1> QED  BY <1>1 DEF Phase

LEMMA Place ==
    ASSUME NEW j \in Jobs, pc[j] \in Working
    PROVE  /\ Registry!Open(j)
           /\ Phase[j] = IF pc[j] \in {"reread", "insertAdmin"} THEN "made" ELSE "asked"
  BY DEF Phase, Working, InTransaction, Registry!Open

\* Going on inside a job is not seen, but for the commit.
LEMMA GotoStutters ==
    ASSUME JobsOK, NEW j \in Jobs, NEW label \in Working, pc[j] \in Working,
           pc[j] \in {"reread", "insertAdmin"} <=> label \in {"reread", "insertAdmin"},
           Goto(j, label), UNCHANGED <<tables, call, outcomes, reply>>
    PROVE  UNCHANGED Registry!vars
  <1>1. Visible' = Visible
    BY VisibleStays DEF tables
  <1>2. Phase' = Phase
    <2>1. label \notin {"idle", "done"}
      BY DEF Working, InTransaction
    <2>2. Phase' = [Phase EXCEPT ![j] = Phase[j]]
      BY <2>1, Moves, Place
    <2> QED  BY <2>2 DEF Phase
  <1> QED  BY <1>1, <1>2 DEF Registry!vars, tables

LEMMA ReplyImplements ==
    ASSUME JobsOK, NEW j \in Jobs, NEW code, Reply(j, code)
    PROVE  /\ Registry!Reply(j, code) /\ UNCHANGED call
  <1>1. Phase' = [Phase EXCEPT ![j] = "answered"]
    BY Moves DEF Reply
  <1> QED  BY <1>1 DEF Reply, Registry!Reply

LEMMA EndEntryImplements ==
    ASSUME JobsOK, NEW j \in Jobs, NEW result, EndEntry(j, result)
    PROVE  Registry!EndEntry(j, result) /\ UNCHANGED call
  <1>1. Phase' = [Phase EXCEPT ![j] = "asked"]
    BY Moves DEF EndEntry
  <1> QED  BY <1>1 DEF EndEntry, Registry!EndEntry

LEMMA AnswerImplements ==
    ASSUME JobsOK, NEW j \in Jobs, pc[j] \in Working,
           NEW code \in {200, 204, 403, 404, 500, 0}, Reply(j, code),
           UNCHANGED tables, Registry!Justified(j, code)
    PROVE  Registry!Answer(j)
  BY ReplyImplements, Place, VisibleStays DEF Registry!Answer, tables

LEMMA GiveUpImplements ==
    ASSUME JobsOK, NEW j \in Jobs, pc[j] \in Working, EndEntry(j, "failed"),
           UNCHANGED tables, call[j].op = "import",
           Len(outcomes[j]) < Len(call[j].entries)
    PROVE  Registry!GiveUp(j)
  BY EndEntryImplements, Place, VisibleStays
     DEF Registry!GiveUp, Registry!InEntry, tables

LEMMA ThrowImplements ==
    ASSUME IInv, NEW j \in Jobs, pc[j] \in Working \ {"start", "entry"},
           Throw(j), UNCHANGED tables
    PROVE  Registry!GiveUp(j) \/ Registry!Answer(j)
  <1>1. CASE call[j].op = "import"
    <2>1. Len(outcomes[j]) < Len(call[j].entries)
      BY <1>1 DEF IInv, Sound, AtLabel, InEntry, Working, InTransaction
    <2> QED  BY <1>1, <2>1, GiveUpImplements DEF Throw, IInv
  <1>2. CASE call[j].op # "import"
    <2>1. Registry!Justified(j, 500)
      BY <1>2 DEF Registry!Justified
    <2> QED  BY <1>2, <2>1, AnswerImplements DEF Throw, IInv
  <1> QED  BY <1>1, <1>2

\* An answer with a status that only speaks of the call and the table.
LEMMA AllowedSame == \A c : Registry!Allowed(c) <=> Allowed(c)
  BY DEF Registry!Allowed, Allowed, Registry!Root, Root

LEMMA StartImplements ==
    ASSUME IInv, NEW j \in Jobs, Start(j)
    PROVE  Registry!Ask(j)
  <1>1. /\ pc[j] \in {"idle", "done"} /\ Goto(j, "start") /\ UNCHANGED tables
        /\ \E c \in Calls : call' = [call EXCEPT ![j] = c]
        /\ outcomes' = [outcomes EXCEPT ![j] = <<>>]
        /\ reply' = [reply EXCEPT ![j] = None]
    BY DEF Start
  <1>2. Phase' = [Phase EXCEPT ![j] = "asked"]
    BY <1>1, Moves DEF IInv
  <1>3. Phase[j] \in {"idle", "answered"}
    BY <1>1 DEF Phase
  <1>4. Visible' = Visible /\ admins' = admins
    BY <1>1, VisibleStays DEF tables
  <1> QED  BY <1>1, <1>2, <1>3, <1>4 DEF Registry!Ask

LEMMA DispatchImplements ==
    ASSUME IInv, NEW j \in Jobs, Dispatch(j)
    PROVE  [Registry!Next]_Registry!vars
  <1>1. /\ pc[j] = "start" /\ pc[j] \in Working /\ UNCHANGED tables
        /\ call[j].op \in {"post", "put", "delete", "import"}
    BY JobType DEF Dispatch, Working, Call
  <1>2. CASE Allowed(call[j])
    <2>1. PICK label \in {"insertTenant", "updateTenant", "delete", "entry"} :
             Goto(j, label) /\ UNCHANGED <<call, pending, outcomes, reply>>
      BY <1>1, <1>2 DEF Dispatch
    <2>2. UNCHANGED Registry!vars
      BY <1>1, <2>1, GotoStutters DEF IInv, Working, InTransaction
    <2> QED  BY <2>2
  <1>3. CASE ~ Allowed(call[j])
    <2>1. Registry!Justified(j, 403)
      BY <1>3, AllowedSame DEF Registry!Justified
    <2>2. Registry!Answer(j)
      BY <1>1, <1>3, <2>1, AnswerImplements DEF Dispatch, IInv
    <2> QED  BY <2>2 DEF Registry!Next
  <1> QED  BY <1>2, <1>3

LEMMA NextEntryImplements ==
    ASSUME IInv, NEW j \in Jobs, NextEntry(j)
    PROVE  [Registry!Next]_Registry!vars
  <1>1. /\ pc[j] = "entry" /\ pc[j] \in Working /\ UNCHANGED tables
        /\ call[j].op = "import"
    BY DEF NextEntry, Working, IInv, Sound, AtLabel
  <1>2. CASE Len(outcomes[j]) = Len(call[j].entries)
    <2>1. Registry!Justified(j, 0)
      BY <1>1, <1>2 DEF Registry!Justified
    <2>2. Registry!Answer(j)
      BY <1>1, <1>2, <2>1, AnswerImplements DEF NextEntry, IInv
    <2> QED  BY <2>2 DEF Registry!Next
  <1>3. CASE Len(outcomes[j]) # Len(call[j].entries) /\ Valid(Current(j))
    <2>1. Goto(j, "findSlug") /\ UNCHANGED <<call, pending, outcomes, reply>>
      BY <1>3 DEF NextEntry
    <2>2. UNCHANGED Registry!vars
      BY <1>1, <2>1, GotoStutters DEF IInv, Working, InTransaction
    <2> QED  BY <2>2
  <1>4. CASE Len(outcomes[j]) # Len(call[j].entries) /\ ~ Valid(Current(j))
    <2>1. Len(outcomes[j]) < Len(call[j].entries)
      BY <1>4, JobType DEF IInv, Sound
    <2>2. Registry!GiveUp(j)
      BY <1>1, <1>4, <2>1, GiveUpImplements DEF NextEntry, IInv
    <2> QED  BY <2>2 DEF Registry!Next
  <1> QED  BY <1>2, <1>3, <1>4

LEMMA FindSlugImplements ==
    ASSUME IInv, NEW j \in Jobs, FindSlug(j)
    PROVE  [Registry!Next]_Registry!vars
  <1>1. /\ pc[j] = "findSlug" /\ pc[j] \in Working /\ UNCHANGED tables
        /\ call[j].op = "import" /\ Len(outcomes[j]) < Len(call[j].entries)
    BY DEF FindSlug, Working, IInv, Sound, AtLabel, InEntry
  <1>2. CASE EndEntry(j, "failed")
    <2>1. Registry!GiveUp(j)
      BY <1>1, <1>2, GiveUpImplements DEF IInv
    <2> QED  BY <2>1 DEF Registry!Next
  <1>3. CASE Goto(j, "insertTenant") /\ UNCHANGED <<call, pending, outcomes, reply>>
    BY <1>1, <1>3, GotoStutters DEF IInv, Working, InTransaction
  <1> QED  BY <1>2, <1>3 DEF FindSlug

\* The writes inside a transaction.
LEMMA InsideImplements ==
    ASSUME IInv, NEW j \in Jobs,
           InsertTenant(j) \/ InsertBranding(j) \/ UpdateBranding(j) \/ UpdateTenant(j)
    PROVE  [Registry!Next]_Registry!vars
  <1>1. /\ pc[j] \in {"insertTenant", "insertBranding", "updateBranding", "updateTenant"}
        /\ UNCHANGED tables
    BY DEF InsertTenant, InsertBranding, UpdateBranding, UpdateTenant, WriteBranding
  <1>2. pc[j] \in Working \ {"start", "entry"}
    BY <1>1 DEF Working, InTransaction
  <1>3. CASE Throw(j)
    BY <1>1, <1>2, <1>3, ThrowImplements DEF Registry!Next
  <1>4. CASE \E label \in InTransaction :
                Goto(j, label) /\ UNCHANGED <<call, outcomes, reply>>
    BY <1>1, <1>2, <1>4, GotoStutters DEF IInv, Working, InTransaction
  <1>5. CASE Reply(j, 404) /\ UpdateTenant(j) /\ call[j].id \notin DOMAIN tenants
    <2>1. call[j].op = "put" /\ call[j].by \in {Root, call[j].id}
      BY <1>2, <1>5 DEF UpdateTenant, IInv, Sound, AtLabel
    <2>2. Registry!Justified(j, 404)
      BY <1>5, <2>1, AllowedSame DEF Registry!Justified, Allowed, Visible
    <2>3. Registry!Answer(j)
      BY <1>1, <1>2, <1>5, <2>2, AnswerImplements DEF IInv
    <2> QED  BY <2>3 DEF Registry!Next
  <1>6. CASE InsertTenant(j)
    BY <1>3, <1>4, <1>6 DEF InsertTenant, InTransaction
  <1>7. CASE InsertBranding(j) \/ UpdateBranding(j)
    BY <1>3, <1>4, <1>7 DEF InsertBranding, UpdateBranding, WriteBranding, InTransaction
  <1>8. CASE UpdateTenant(j)
    BY <1>3, <1>4, <1>5, <1>8 DEF UpdateTenant, InTransaction
  <1> QED  BY <1>6, <1>7, <1>8

LEMMA RereadImplements ==
    ASSUME IInv, NEW j \in Jobs, Reread(j)
    PROVE  [Registry!Next]_Registry!vars
  <1>1. /\ pc[j] = "reread" /\ pc[j] \in Working /\ UNCHANGED tables
        /\ call[j].op \in {"import", "put"}
    BY DEF Reread, Working, IInv, Sound, AtLabel
  <1>2. CASE call[j].op = "import"
    <2>1. Goto(j, "insertAdmin") /\ UNCHANGED <<call, pending, outcomes, reply>>
      BY <1>2 DEF Reread
    <2> QED  BY <1>1, <2>1, GotoStutters DEF IInv, Working, InTransaction
  <1>3. CASE call[j].op = "put"
    <2>1. Phase[j] = "made"
      BY <1>1, Place
    <2>2. Registry!Justified(j, 200)
      BY <1>3, <2>1 DEF Registry!Justified
    <2>3. Registry!Answer(j)
      BY <1>1, <1>3, <2>2, AnswerImplements DEF Reread, IInv
    <2> QED  BY <2>3 DEF Registry!Next
  <1> QED  BY <1>1, <1>2, <1>3

LEMMA DeleteImplements ==
    ASSUME IInv, NEW j \in Jobs, Delete(j)
    PROVE  [Registry!Next]_Registry!vars
  <1>1. /\ pc[j] = "delete" /\ pc[j] \in Working /\ UNCHANGED tables
        /\ call[j].op = "delete"
    BY DEF Delete, Working, IInv, Sound, AtLabel
  <1>2. Allowed(call[j])
    BY <1>1 DEF IInv, Sound, AtLabel
  <1>3. DOMAIN Visible = DOMAIN tenants
    BY DEF Visible
  <1>4. PICK code \in {204, 404} :
           Reply(j, code) /\ (code = 204 <=> call[j].id \in DOMAIN tenants)
    BY DEF Delete
  <1>5. Registry!Justified(j, code)
    <2>1. CASE code = 204
      BY <1>1, <1>2, <1>3, <1>4, <2>1, AllowedSame DEF Registry!Justified
    <2>2. CASE code = 404
      BY <1>1, <1>2, <1>3, <1>4, <2>2, AllowedSame DEF Registry!Justified
    <2> QED  BY <2>1, <2>2
  <1>6. Registry!Answer(j)
    BY <1>1, <1>4, <1>5, AnswerImplements DEF IInv
  <1> QED  BY <1>6 DEF Registry!Next

LEMMA InsertAdminImplements ==
    ASSUME IInv, NEW j \in Jobs, InsertAdmin(j)
    PROVE  Registry!Appoint(j) \/ Registry!GiveUp(j)
  <1> DEFINE e == Current(j)
  <1>1. /\ pc[j] = "insertAdmin" /\ pc[j] \in Working
        /\ UNCHANGED <<tenants, brandings>>
        /\ call[j].op = "import" /\ Len(outcomes[j]) < Len(call[j].entries)
        /\ \E i \in DOMAIN tenants : tenants[i].slug = e.slug
    BY DEF InsertAdmin, Working, IInv, Sound, AtLabel, InEntry, Current
  <1>2. CASE e.email \in DOMAIN admins
    <2>1. EndEntry(j, "failed") /\ UNCHANGED tables
      BY <1>1, <1>2 DEF InsertAdmin, tables
    <2> QED  BY <1>1, <2>1, GiveUpImplements DEF IInv
  <1>3. CASE e.email \notin DOMAIN admins
    <2>1. Onboarded(j) \in DOMAIN tenants /\ tenants[Onboarded(j)].slug = e.slug
      BY <1>1 DEF Onboarded
    <2>2. PICK i \in DOMAIN tenants : i = Onboarded(j) /\ tenants[i].slug = e.slug
      BY <2>1
    <2>3. admins' = [a \in DOMAIN admins \cup {e.email} |->
                        IF a = e.email THEN i ELSE admins[a]]
      BY <1>3, <2>2 DEF InsertAdmin, Upsert, Single
    <2>4. i \in DOMAIN Visible /\ Visible[i].row.slug = e.slug
      BY <2>2 DEF Visible
    <2>5. Registry!EndEntry(j, "ok") \/ Registry!EndEntry(j, "failed")
      BY <1>1, <1>3, EndEntryImplements DEF InsertAdmin, IInv
    <2>6. call' = call /\ Visible' = Visible
      BY <1>1, <1>3, VisibleStays DEF InsertAdmin, EndEntry
    <2>7. Phase[j] = "made"
      BY <1>1, Place
    <2>8. Registry!InEntry(j) /\ Registry!Current(j) = e
      BY <1>1 DEF Registry!InEntry, Registry!Current, Current
    <2> QED
      BY <1>3, <2>3, <2>4, <2>5, <2>6, <2>7, <2>8 DEF Registry!Appoint
  <1> QED  BY <1>2, <1>3

\* What a transaction commits is fresh among what can be seen.
LEMMA FreshVisible ==
    ASSUME NEW i, NEW row, ~ Taken(i, row)
    PROVE  Registry!Fresh(i, row)
  BY DEF Registry!Fresh, Registry!Same, Taken, Same, Visible

LEMMA CommitImplements ==
    ASSUME NoOwners, IInv, NEW j \in Jobs, Commit(j)
    PROVE  Registry!Found(j) \/ Registry!Amend(j)
  <1> DEFINE p == pending[j]
             before(i) == [row |-> tenants[i], looks |-> {brandings[i].look}]
             after(i) == [row |-> tenants'[i], looks |-> {brandings'[i].look}]
  <1>1. /\ DOMAIN tenants' = DOMAIN tenants \cup {p.id}
        /\ tenants'[p.id] = p.row
        /\ \A i \in DOMAIN tenants \ {p.id} : tenants'[i] = tenants[i]
        /\ DOMAIN brandings' = DOMAIN brandings \cup DOMAIN p.brands
        /\ \A k \in DOMAIN brandings' :
              brandings'[k] = IF k \in DOMAIN p.brands THEN p.brands[k] ELSE brandings[k]
        /\ admins' = admins
        /\ BrandingsSound' /\ BrandingsSound
    BY CommitTables DEF IInv
  <1>2. /\ pc[j] = "commit" /\ pc[j] \in Working /\ p \in Pending /\ p # None
        /\ call[j].op \in {"import", "put"}
        /\ Written("commit", call[j], outcomes[j], p)
    BY JobType DEF Commit, IInv, Sound, AtLabel, InTransaction, Working
  <1>3. /\ ~ Taken(p.id, p.row) /\ Branded(call[j], outcomes[j], p)
        /\ p.id \in Ids
    BY <1>2 DEF Written, Pending
  <1>4. /\ Visible = [i \in DOMAIN tenants |-> before(i)]
        /\ Visible' = [i \in DOMAIN tenants' |-> after(i)]
        /\ DOMAIN brandings = DOMAIN tenants
    BY <1>1, VisibleTables, VisibleTablesAfter DEF BrandingsSound
  <1>5. \A i \in DOMAIN tenants \ {p.id} : after(i) = before(i)
    <2>1. \A i \in DOMAIN tenants \ {p.id} : brandings'[i] = brandings[i]
      BY <1>1, <1>3, <1>4 DEF Branded
    <2> QED  BY <1>1, <2>1
  <1>6. Phase[j] = "asked"
    BY <1>2, Place
  <1>7. Registry!Fresh(p.id, p.row)
    BY <1>3, FreshVisible
  <1>8. /\ \/ Registry!Done(j)
           \/ call[j].op = "import" /\ Registry!EndEntry(j, "failed")
           \/ call[j].op = "put" /\ Registry!Reply(j, 500)
        /\ call' = call
    <2>1. CASE Goto(j, "reread") /\ UNCHANGED <<call, outcomes, reply>>
      <3>1. Phase' = [Phase EXCEPT ![j] = "made"]
        BY <2>1, Moves DEF IInv
      <3> QED  BY <2>1, <3>1 DEF Registry!Done
    <2>2. CASE Throw(j)
      BY <1>2, <2>2, EndEntryImplements, ReplyImplements DEF Throw, IInv
    <2> QED  BY <2>1, <2>2 DEF Commit
  <1>9. CASE call[j].op = "import"
    <2> DEFINE e == Current(j)
    <2>1. /\ p.id \notin DOMAIN tenants /\ p.row = Created(e)
          /\ Len(outcomes[j]) < Len(call[j].entries) /\ Valid(e)
      BY <1>2, <1>9 DEF Written, IInv, Sound, AtLabel, InEntry, Current
    <2>2. after(p.id) = [row |-> Created(e), looks |-> {e.look}]
      <3>1. brandings'[p.id].look = e.look
        BY <1>1, <1>3, <1>9 DEF Branded, Current
      <3> QED  BY <1>1, <2>1, <3>1
    <2>3. Visible' = [k \in DOMAIN tenants \cup {p.id} |->
                         IF k = p.id THEN [row |-> Created(e), looks |-> {e.look}]
                         ELSE Visible[k]]
      BY <1>1, <1>4, <1>5, <2>2
    <2>4. /\ Registry!InEntry(j) /\ Registry!Current(j) = e
          /\ Registry!Valid(e) /\ Registry!Created(e) = Created(e)
      BY <1>9, <2>1 DEF Registry!InEntry, Registry!Current, Current,
         Registry!Valid, Valid, Registry!Created, Created
    <2>5. DOMAIN Visible = DOMAIN tenants
      BY DEF Visible
    <2> HIDE DEF e, p
    <2>6. \E i \in Ids \ DOMAIN Visible :
             /\ Registry!Fresh(i, Registry!Created(e))
             /\ Visible' = [k \in DOMAIN Visible \cup {i} |->
                   IF k = i THEN [row |-> Registry!Created(e), looks |-> {e.look}]
                   ELSE Visible[k]]
      BY <1>3, <1>7, <2>1, <2>3, <2>4, <2>5
    <2> QED
      BY <1>1, <1>6, <1>8, <1>9, <2>4, <2>6 DEF Registry!Found
  <1>10. CASE call[j].op = "put"
    <2> DEFINE c == call[j]
    <2>1. /\ p.id = c.id /\ c.id \in DOMAIN tenants
          /\ p.row = Updated(tenants[c.id], c) /\ Allowed(c)
      BY <1>2, <1>10 DEF Written, IInv, Sound, AtLabel, Working, InTransaction, Allowed
    <2>2. after(c.id) = Registry!Amended(Visible[c.id], c)
      <3>1. brandings'[c.id].look = IF c.look = None THEN brandings[c.id].look ELSE c.look
        BY <1>1, <1>3, <1>4, <1>10, <2>1 DEF Branded
      <3>2. Visible[c.id] = before(c.id)
        BY <1>4, <2>1
      <3>3. Registry!Updated(tenants[c.id], c) = Updated(tenants[c.id], c)
        BY DEF Registry!Updated, Updated
      <3> QED  BY <1>1, <2>1, <3>1, <3>2, <3>3 DEF Registry!Amended
    <2>3. Visible' = [Visible EXCEPT ![c.id] = Registry!Amended(Visible[c.id], c)]
      <3>1. Visible' = [i \in DOMAIN tenants |-> after(i)]
        BY <1>1, <1>4, <2>1
      <3> QED  BY <1>4, <1>5, <2>1, <2>2, <3>1
    <2>4. /\ c.id \in DOMAIN Visible /\ Registry!Allowed(c)
          /\ Registry!Fresh(c.id, Registry!Updated(Visible[c.id].row, c))
      <3>1. Visible[c.id].row = tenants[c.id] /\ c.id \in DOMAIN Visible
        BY <1>4, <2>1
      <3>2. Registry!Updated(tenants[c.id], c) = Updated(tenants[c.id], c)
        BY DEF Registry!Updated, Updated
      <3> QED  BY <1>7, <2>1, <3>1, <3>2, AllowedSame
    <2> QED
      BY <1>1, <1>6, <1>8, <1>10, <2>3, <2>4 DEF Registry!Amend
  <1> QED  BY <1>2, <1>9, <1>10

LEMMA CrashImplements ==
    ASSUME IInv, NEW j \in Jobs, Crash(j)
    PROVE  Registry!Forget(j)
  <1>1. Phase' = [Phase EXCEPT ![j] = "idle"]
    BY Moves DEF Crash, IInv
  <1> QED
    BY <1>1, Place, VisibleStays DEF Crash, Registry!Forget, tables

LEMMA StepImplements ==
    ASSUME NoOwners, IInv, NEW j \in Jobs, Start(j) \/ Step(j) \/ Fail(j) \/ Crash(j)
    PROVE  [Registry!Next]_Registry!vars
  <1>1. CASE Start(j) \/ Commit(j) \/ InsertAdmin(j) \/ Crash(j)
    BY <1>1, StartImplements, CommitImplements, InsertAdminImplements, CrashImplements
       DEF Registry!Next
  <1>2. CASE Fail(j)
    BY <1>2, ThrowImplements DEF Fail, Registry!Next
  <1> QED
    BY <1>1, <1>2, DispatchImplements, NextEntryImplements, FindSlugImplements,
       InsideImplements, RereadImplements, DeleteImplements DEF Step

\* The store keeps the promise of TenantRegistry, for any number of jobs, with
\* failures, lost commits and crashes, if no branding carries a tenantId.
THEOREM Implementation ==
    ASSUME NoOwners
    PROVE  Spec => ImplementsRegistry
  <1>1. Init => Registry!Init
    <2> SUFFICES ASSUME Init PROVE Registry!Init
      OBVIOUS
    <2>1. DOMAIN tenants = {} /\ Visible = [i \in {} |-> None] /\ admins = [i \in {} |-> None]
      BY DEF Init, Visible, Nothing
    <2>2. Phase = [j \in Jobs |-> "idle"]
      BY DEF Init, Phase
    <2> QED  BY <2>1, <2>2 DEF Init, Registry!Init
  <1>2. IInv /\ [Next]_vars => [Registry!Next]_Registry!vars
    <2>1. CASE UNCHANGED vars
      BY <2>1, VisibleStays DEF vars, Registry!vars, Phase
    <2> QED  BY <2>1, StepImplements DEF Next
  <1> QED
    BY <1>1, <1>2, Invariance, PTL DEF Spec, ImplementsRegistry, Registry!Spec
=============================================================================
