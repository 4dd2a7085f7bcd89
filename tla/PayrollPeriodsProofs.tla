------------------------ MODULE PayrollPeriodsProofs ------------------------
(***************************************************************************)
(* Proofs about PayrollPeriods, for every set of requests, employees, rule *)
(* sets and payroll types, and every bound of the version.                 *)
(***************************************************************************)
EXTENDS PayrollPeriods, TLAPS

-----------------------------------------------------------------------------
(* The inductive invariant.                                                *)

\* The steps at which a request holds a copy of the period row.
WithPeriod == {"employees", "rules", "items", "novelties", "transaction", "claimed"}

\* What a calculation has gathered so far is complete and was taken from the
\* rows that are there now, if the version has not moved.
GatheredOK(q) ==
    /\ q.pc \in {"employees", "rules"} => q.rules = None
    /\ q.pc = "rules" => UsesRuleSet
    /\ q.pc \in {"rules", "items", "novelties", "transaction", "claimed"} => q.team # {}
    /\ q.pc \in {"items", "novelties", "transaction", "claimed"} =>
          IF UsesRuleSet THEN q.rules \in RuleSets /\ (q.read.pin # None => q.rules = q.read.pin)
                         ELSE q.rules = None
    /\ ~LoadsNovelties => q.loaded = {} /\ q.pc # "novelties"
    /\ q.read.version = period.version =>
          /\ q.pc \in {"novelties", "transaction", "claimed"} => q.seen = items
          /\ q.pc \in {"transaction", "claimed"} /\ LoadsNovelties =>
                q.loaded = {n \in novelties : n.employee \in q.team}

\* The state q of request r agrees with the rows it has read.
RequestOK(r, q) ==
    /\ q.pc \in {"idle", "period"} => q.read = None
    /\ q.pc = "period" => q.op \in {"CREATE_NOVELTY", "REMOVE_NOVELTY"}
    /\ q.pc \in {"employees", "rules", "items", "novelties"} => q.op = "CALCULATE"
    /\ q.pc # "idle" /\ q.op = "CREATE_NOVELTY" => q.target \in Employees
    /\ q.pc \in WithPeriod =>
          /\ q.read \in Period
          /\ q.read.version =< period.version
          /\ q.read.version = period.version => q.read = period
          /\ q.op = "CALCULATE" => GatheredOK(q)
    /\ q.pc = "claimed" =>
          /\ rowLock = r
          /\ q.read.version = period.version
          /\ period.version < MaxVersion
          /\ period.status \in ClaimableStatuses(q.op)

RequestsOK == \A r \in Requests : RequestOK(r, req[r])

\* What is true of the rows themselves.
RowsOK ==
    /\ period.version =< MaxVersion
    /\ ~UsesRuleSet => period.pin = None
    /\ OnePayrollPerPeriod
    /\ ItemsPriceTheNovelties
    /\ ItemsUseThePin
    /\ CalculatedHasItems
    /\ AuditTellsTheHistory
    /\ StampsFollowTheStatus

Inv == TypeOK /\ RequestsOK /\ RowsOK

-----------------------------------------------------------------------------
(* Steps before the transaction.                                           *)

LEMMA IdleOK ==
    ASSUME NEW r
    PROVE  Idle \in Request /\ RequestOK(r, Idle)
BY DEF Idle, Request, Steps, RequestOK, WithPeriod

\* A step that only changes what one request knows preserves the invariant if
\* the new knowledge is right.
LEMMA LocalStep ==
    ASSUME Inv, NEW r \in Requests, NEW q \in Request, RequestOK(r, q),
           req' = [req EXCEPT ![r] = q], ReadsOnly
    PROVE  Inv'
<1>1. TypeOK'
  BY DEF Inv, TypeOK, ReadsOnly, Period, Item, Novelty, AuditEntry
<1>2. RequestsOK'
  <2> SUFFICES ASSUME NEW x \in Requests
               PROVE  RequestOK(x, req[x])'
    BY DEF RequestsOK
  <2>1. req'[x] = IF x = r THEN q ELSE req[x]
    BY DEF Inv, TypeOK
  <2>2. RequestOK(x, req'[x])
    BY <2>1 DEF Inv, RequestsOK
  <2> QED
    BY <2>2 DEF RequestOK, GatheredOK, ReadsOnly, UsesRuleSet, LoadsNovelties
<1>3. RowsOK'
  BY DEF Inv, RowsOK, ReadsOnly, OnePayrollPerPeriod, ItemsPriceTheNovelties, ItemsUseThePin,
         CalculatedHasItems, AuditTellsTheHistory, StampsFollowTheStatus, UsesRuleSet,
         LoadsNovelties
<1> QED BY <1>1, <1>2, <1>3 DEF Inv

LEMMA BeginStep ==
    ASSUME Inv, NEW r \in Requests, Start(r)
    PROVE  Inv'
<1>0. period \in Period /\ ReadsOnly
  BY DEF Inv, TypeOK, Start, BeginCalculate, BeginApprove, BeginClose, BeginReopen, Begin,
         BeginCreateNovelty, BeginRemoveNovelty
<1>1. ASSUME NEW op \in Operations \ {"CREATE_NOVELTY", "REMOVE_NOVELTY"}, NEW allowed,
             Begin(r, op, allowed)
      PROVE  Inv'
  <2> DEFINE q == [Idle EXCEPT !.pc = IF op = "CALCULATE" THEN "employees" ELSE "transaction",
                               !.op = op, !.read = period]
  <2>1. /\ q.pc = IF op = "CALCULATE" THEN "employees" ELSE "transaction"
        /\ q.op = op /\ q.read = period /\ q.rules = None /\ q.loaded = {} /\ q \in Request
    BY <1>0 DEF Idle, Request, Steps
  <2>2. RequestOK(r, q)
    BY <1>0, <2>1 DEF RequestOK, GatheredOK, WithPeriod, Period
  <2>3. req' = [req EXCEPT ![r] = q]
    BY <1>1 DEF Begin
  <2> QED BY LocalStep, <1>0, <2>1, <2>2, <2>3
<1>2. CASE BeginCalculate(r) \/ BeginApprove(r) \/ BeginClose(r) \/ BeginReopen(r)
  BY <1>1, <1>2 DEF BeginCalculate, BeginApprove, BeginClose, BeginReopen, Operations
<1>3. CASE BeginCreateNovelty(r)
  <2>1. PICK e \in Active : req' = [req EXCEPT ![r] =
            [Idle EXCEPT !.pc = "period", !.op = "CREATE_NOVELTY", !.target = e]]
    BY <1>3 DEF BeginCreateNovelty
  <2> DEFINE q == [Idle EXCEPT !.pc = "period", !.op = "CREATE_NOVELTY", !.target = e]
  <2>2. e \in Employees
    BY DEF Active
  <2>3. q \in Request /\ RequestOK(r, q)
    BY <2>2 DEF Idle, Request, Steps, Operations, RequestOK, WithPeriod
  <2> QED BY LocalStep, <1>0, <2>1, <2>3
<1>4. CASE BeginRemoveNovelty(r)
  <2>1. PICK n \in novelties : req' = [req EXCEPT ![r] =
            [Idle EXCEPT !.pc = "period", !.op = "REMOVE_NOVELTY", !.target = n]]
    BY <1>4 DEF BeginRemoveNovelty
  <2> DEFINE q == [Idle EXCEPT !.pc = "period", !.op = "REMOVE_NOVELTY", !.target = n]
  <2>2. n \in Novelty
    BY DEF Inv, TypeOK
  <2>3. q \in Request /\ RequestOK(r, q)
    BY <2>2 DEF Idle, Request, Steps, Operations, RequestOK, WithPeriod
  <2> QED BY LocalStep, <1>0, <2>1, <2>3
<1> QED BY <1>2, <1>3, <1>4 DEF Start

LEMMA ReadStep ==
    ASSUME Inv, NEW r \in Requests, Read(r)
    PROVE  Inv'
<1>0. period \in Period /\ items \in SUBSET Item /\ novelties \in SUBSET Novelty /\ ReadsOnly
  BY DEF Inv, TypeOK, Read, ReadPeriodForNovelty, ReadEmployees, SelectRules, ReadItems,
         ReadNovelties
<1>00. req[r] \in Request /\ RequestOK(r, req[r]) /\ Idle \in Request /\ RequestOK(r, Idle)
  BY IdleOK DEF Inv, TypeOK, RequestsOK
<1>1. CASE ReadPeriodForNovelty(r)
  <2>1. CASE period.status \in NoveltyMutableStatuses
    <3> DEFINE q == [req[r] EXCEPT !.pc = "transaction", !.read = period]
    <3>1. /\ q.pc = "transaction" /\ q.op = req[r].op /\ q.read = period
          /\ q.target = req[r].target /\ q \in Request
      BY <1>0, <1>00 DEF Request, Steps
    <3>2. req[r].pc = "period"
      BY <1>1 DEF ReadPeriodForNovelty
    <3>3. RequestOK(r, q)
      BY <1>0, <1>00, <3>1, <3>2 DEF RequestOK, WithPeriod, Period
    <3> QED BY LocalStep, <1>0, <1>1, <2>1, <3>1, <3>3 DEF ReadPeriodForNovelty
  <2>2. CASE period.status \notin NoveltyMutableStatuses
    BY LocalStep, <1>0, <1>00, <1>1, <2>2 DEF ReadPeriodForNovelty
  <2> QED BY LocalStep, <1>0, <2>1, <2>2
<1>2. CASE ReadEmployees(r)
  <2>1. CASE Active # {}
    <3> DEFINE q == [req[r] EXCEPT !.pc = IF UsesRuleSet THEN "rules" ELSE "items",
                                   !.team = Active]
    <3>1. q \in Request
      BY <1>00 DEF Request, Steps, Active
    <3>2. RequestOK(r, q)
      BY <1>00, <1>2, <2>1 DEF ReadEmployees, Request, RequestOK, GatheredOK, WithPeriod
    <3> QED BY LocalStep, <1>0, <1>2, <2>1, <3>1, <3>2 DEF ReadEmployees
  <2>2. CASE Active = {}
    BY LocalStep, <1>0, <1>00, <1>2, <2>2 DEF ReadEmployees
  <2> QED BY LocalStep, <1>0, <2>1, <2>2
<1>3. CASE SelectRules(r)
  <2>1. PICK s \in Selectable(req[r].read.pin) :
            req' = [req EXCEPT ![r].pc = "items", ![r].rules = s]
    BY <1>3 DEF SelectRules
  <2> DEFINE q == [req[r] EXCEPT !.pc = "items", !.rules = s]
  <2>2. req[r].pc = "rules" /\ req[r].read \in Period
    BY <1>00, <1>3 DEF SelectRules, RequestOK, WithPeriod
  <2>3. s \in RuleSets /\ (req[r].read.pin # None => s = req[r].read.pin)
    BY <2>2 DEF Selectable, Period
  <2>4. UsesRuleSet
    BY <1>3, <1>00 DEF SelectRules, RequestOK, GatheredOK, WithPeriod
  <2>5. q \in Request
    BY <1>00, <2>3 DEF Request, Steps
  <2>6. RequestOK(r, q)
    BY <1>00, <2>2, <2>3, <2>4 DEF Request, RequestOK, GatheredOK, WithPeriod
  <2> QED BY LocalStep, <1>0, <2>1, <2>5, <2>6
<1>4. CASE ReadItems(r)
  <2> DEFINE q == [req[r] EXCEPT !.pc = IF LoadsNovelties THEN "novelties" ELSE "transaction",
                                 !.seen = items]
  <2>1. q \in Request
    BY <1>0, <1>00 DEF Request, Steps
  <2>2. RequestOK(r, q)
    BY <1>00, <1>4 DEF ReadItems, Request, RequestOK, GatheredOK, WithPeriod
  <2> QED BY LocalStep, <1>0, <1>4, <2>1, <2>2 DEF ReadItems
<1>5. CASE ReadNovelties(r)
  <2> DEFINE q == [req[r] EXCEPT !.pc = "transaction",
                                 !.loaded = {n \in novelties : n.employee \in req[r].team}]
  <2>1. q \in Request
    BY <1>0, <1>00 DEF Request, Steps
  <2>2. RequestOK(r, q)
    BY <1>00, <1>5 DEF ReadNovelties, Request, RequestOK, GatheredOK, WithPeriod
  <2> QED BY LocalStep, <1>0, <1>5, <2>1, <2>2 DEF ReadNovelties
<1> QED BY <1>1, <1>2, <1>3, <1>4, <1>5 DEF Read

LEMMA GiveUpStep ==
    ASSUME Inv, NEW r \in Requests, ClaimFails(r) \/ Abandon(r)
    PROVE  Inv'
BY IdleOK, LocalStep DEF ClaimFails, Abandon

-----------------------------------------------------------------------------
(* The transaction.                                                        *)

\* A claim locks the row at the version the request read: the lock is free, so
\* no other request is in its transaction.
LEMMA ClaimStep ==
    ASSUME Inv, NEW r \in Requests, Claim(r)
    PROVE  Inv'
<1>1. TypeOK'
  <2>1. req' \in [Requests -> Request]
    BY SMTT(30) DEF Inv, TypeOK, Claim, Request, Steps
  <2> QED BY <2>1 DEF Inv, TypeOK, Claim, Period, Item, Novelty, AuditEntry
<1>2. RequestsOK'
  <2> SUFFICES ASSUME NEW x \in Requests
               PROVE  RequestOK(x, req[x])'
    BY DEF RequestsOK
  <2>0. RequestOK(x, req[x]) /\ req[x] \in Request /\ None \notin Requests
    BY PayrollAssumption DEF Inv, RequestsOK, TypeOK
  <2>1. CASE x # r
    <3>1. req'[x] = req[x] /\ req[x].pc # "claimed"
      BY <2>0, <2>1 DEF Claim, RequestOK, Inv, TypeOK
    <3> QED BY <2>0, <3>1 DEF Claim, RequestOK, GatheredOK, UsesRuleSet, LoadsNovelties
  <2>2. CASE x = r
    <3>1. /\ req'[r].pc = "claimed" /\ req'[r].op = req[r].op /\ req'[r].read = req[r].read
          /\ req'[r].team = req[r].team /\ req'[r].rules = req[r].rules
          /\ req'[r].seen = req[r].seen /\ req'[r].loaded = req[r].loaded
          /\ req'[r].target = req[r].target
      BY <2>0, <2>2 DEF Claim, Inv, TypeOK, Request
    <3>2. req[r].pc = "transaction" /\ ClaimMatches(r) /\ period.version < MaxVersion /\ rowLock' = r
      BY DEF Claim
    <3> QED BY <2>0, <2>2, <3>1, <3>2
      DEF Claim, ClaimMatches, RequestOK, GatheredOK, WithPeriod, UsesRuleSet, LoadsNovelties
  <2> QED BY <2>1, <2>2
<1>3. RowsOK'
  BY DEF Inv, RowsOK, Claim, OnePayrollPerPeriod, ItemsPriceTheNovelties, ItemsUseThePin,
         CalculatedHasItems, AuditTellsTheHistory, StampsFollowTheStatus, UsesRuleSet,
         LoadsNovelties
<1> QED BY <1>1, <1>2, <1>3 DEF Inv

\* What a commit leaves to the other requests: the version has moved past
\* everything they have read, and none of them is in its transaction.
LEMMA CommitLeavesOthers ==
    ASSUME Inv, NEW r \in Requests, req[r].pc = "claimed", Release(r),
           period'.version = period.version + 1
    PROVE  RequestsOK'
<1> SUFFICES ASSUME NEW x \in Requests
             PROVE  RequestOK(x, req[x])'
  BY DEF RequestsOK
<1>1. period.version \in Nat /\ RequestOK(x, req[x]) /\ RequestOK(r, req[r])
  BY DEF Inv, TypeOK, RequestsOK, Period
<1>2. CASE x = r
  <2>1. req'[x] = Idle
    BY <1>2 DEF Release, Inv, TypeOK
  <2> QED BY <2>1 DEF Idle, RequestOK, WithPeriod
<1>3. CASE x # r
  <2>1. req'[x] = req[x] /\ req[x].pc # "claimed"
    BY <1>1, <1>3 DEF Release, RequestOK, Inv, TypeOK
  <2>2. req[x].pc \in WithPeriod => req[x].read.version # period'.version /\ req[x].read.version =< period'.version
    BY <1>1 DEF RequestOK, Period
  <2> QED BY <1>1, <2>1, <2>2 DEF Release, RequestOK, GatheredOK, UsesRuleSet, LoadsNovelties
<1> QED BY <1>2, <1>3

\* The types of everything a commit writes.
LEMMA CommitTypes ==
    ASSUME Inv, NEW r \in Requests, Release(r), period' \in Period, items' \in SUBSET Item,
           novelties' \in SUBSET Novelty, NEW entry \in AuditEntry, audit' = Append(audit, entry)
    PROVE  TypeOK'
<1>1. req' \in [Requests -> Request]
  BY IdleOK DEF Inv, TypeOK, Release
<1>2. audit' \in Seq(AuditEntry)
  BY DEF Inv, TypeOK
<1>3. /\ payrollType' \in Types
      /\ employees' \in [Employees -> EmployeeStatuses]
      /\ rowLock' \in Requests \cup {None}
  BY DEF Inv, TypeOK, Release
<1> QED BY <1>1, <1>2, <1>3 DEF TypeOK, Period, Item, Novelty, AuditEntry

\* One more record, of the version and the status the commit gives the period.
LEMMA CommitAudit ==
    ASSUME Inv, audit' = Append(audit, [status |-> period'.status, version |-> period'.version]),
           period'.version = period.version + 1
    PROVE  AuditTellsTheHistory'
<1> DEFINE entry == [status |-> period'.status, version |-> period'.version]
<1>1. audit \in Seq(AuditEntry) /\ period.version \in Nat /\ Len(audit) = period.version
  BY DEF Inv, TypeOK, RowsOK, AuditTellsTheHistory, Period
<1>2. Len(audit') = Len(audit) + 1
  BY <1>1
<1>3. \A k \in 1..Len(audit') : audit'[k] = IF k = Len(audit) + 1 THEN entry ELSE audit[k]
  BY <1>1, <1>2
<1>4. \A k \in 1..Len(audit) : audit[k].version = k
  BY DEF Inv, RowsOK, AuditTellsTheHistory
<1> QED BY <1>1, <1>2, <1>3, <1>4 DEF AuditTellsTheHistory

\* What the claim still guarantees at the commit.
LEMMA ClaimedFacts ==
    ASSUME Inv, NEW r \in Requests, req[r].pc = "claimed"
    PROVE  /\ period \in Period /\ req[r] \in Request
           /\ req[r].read = period
           /\ period.version < MaxVersion
           /\ period.status \in ClaimableStatuses(req[r].op)
           /\ req[r].op = "CALCULATE" => GatheredOK(req[r])
           /\ req[r].op = "CREATE_NOVELTY" => req[r].target \in Employees
BY DEF Inv, TypeOK, RequestsOK, RequestOK, WithPeriod

\* The values the transactions write.
LEMMA RowValues ==
    /\ "COLLECTING_NOVELTIES" \in Statuses /\ "CALCULATED" \in Statuses
    /\ "APPROVED" \in Statuses /\ "CLOSED" \in Statuses /\ "REOPENED" \in Statuses
    /\ "null" \in Stamp /\ "set" \in Stamp
    /\ \A p \in Period : p.version + 1 \in Nat
BY DEF Statuses, Stamp, Period

\* Approving, closing and reopening move the status and its stamps and keep the
\* calculation.
LEMMA MoveStep ==
    ASSUME Inv, NEW r \in Requests, CommitApprove(r) \/ CommitClose(r) \/ CommitReopen(r)
    PROVE  Inv'
<1>1. /\ req[r].pc = "claimed" /\ Release(r) /\ UNCHANGED <<items, novelties>>
      /\ period.status \in {"CALCULATED", "APPROVED", "CLOSED"}
      /\ period' \in Period /\ period'.version = period.version + 1 /\ period'.pin = period.pin
      /\ period'.status \in {"APPROVED", "CLOSED", "REOPENED"}
      /\ (period'.closedAt = "set" <=> period'.status = "CLOSED")
      /\ period'.approvedAt = "set"
      /\ period.version < MaxVersion
      /\ audit' = Append(audit, [status |-> period'.status, version |-> period'.version])
  <2>1. req[r].pc = "claimed"
    BY DEF CommitApprove, CommitClose, CommitReopen, Claimed
  <2>2. StampsFollowTheStatus
    BY DEF Inv, RowsOK
  <2>0. period \in Period /\ period.version < MaxVersion /\ period.status \in ClaimableStatuses(req[r].op)
    BY <2>1, ClaimedFacts
  <2>3. CASE CommitApprove(r)
    <3>1. period.status = "CALCULATED"
      BY <2>0, <2>3 DEF CommitApprove, Claimed, ClaimableStatuses
    <3>2. /\ period' \in Period /\ period'.status = "APPROVED" /\ period'.version = period.version + 1
          /\ period'.pin = period.pin
          /\ period'.approvedAt = "set" /\ period'.closedAt = period.closedAt
      BY RowValues, <2>0, <2>3 DEF CommitApprove, Period
    <3>3. audit' = Append(audit, [status |-> period'.status, version |-> period'.version])
      <4>1. audit' = Append(audit, [status |-> "APPROVED", version |-> period.version + 1])
        BY <2>3 DEF CommitApprove, Log
      <4> QED BY <3>2, <4>1, Zenon
    <3>4. (period'.closedAt = "set" <=> period'.status = "CLOSED") /\ period'.approvedAt = "set"
      BY <2>2, <3>1, <3>2 DEF StampsFollowTheStatus
    <3> QED BY <2>0, <2>1, <2>3, <3>1, <3>2, <3>3, <3>4 DEF CommitApprove
  <2>4. CASE CommitClose(r)
    <3>1. period.status = "APPROVED"
      BY <2>0, <2>4 DEF CommitClose, Claimed, ClaimableStatuses
    <3>2. /\ period' \in Period /\ period'.status = "CLOSED" /\ period'.version = period.version + 1
          /\ period'.pin = period.pin
          /\ period'.approvedAt = period.approvedAt /\ period'.closedAt = "set"
      BY RowValues, <2>0, <2>4 DEF CommitClose, Period
    <3>3. audit' = Append(audit, [status |-> period'.status, version |-> period'.version])
      <4>1. audit' = Append(audit, [status |-> "CLOSED", version |-> period.version + 1])
        BY <2>4 DEF CommitClose, Log
      <4> QED BY <3>2, <4>1, Zenon
    <3>4. (period'.closedAt = "set" <=> period'.status = "CLOSED") /\ period'.approvedAt = "set"
      BY <2>2, <3>1, <3>2 DEF StampsFollowTheStatus
    <3> QED BY <2>0, <2>1, <2>4, <3>1, <3>2, <3>3, <3>4 DEF CommitClose
  <2>5. CASE CommitReopen(r)
    <3>1. period.status = "CLOSED"
      BY <2>0, <2>5 DEF CommitReopen, Claimed, ClaimableStatuses
    <3>2. /\ period' \in Period /\ period'.status = "REOPENED" /\ period'.version = period.version + 1
          /\ period'.pin = period.pin
          /\ period'.approvedAt = period.approvedAt /\ period'.closedAt = "null"
      BY RowValues, <2>0, <2>5 DEF CommitReopen, Period
    <3>3. audit' = Append(audit, [status |-> period'.status, version |-> period'.version])
      <4>1. audit' = Append(audit, [status |-> "REOPENED", version |-> period.version + 1])
        BY <2>5 DEF CommitReopen, Log
      <4> QED BY <3>2, <4>1, Zenon
    <3>4. (period'.closedAt = "set" <=> period'.status = "CLOSED") /\ period'.approvedAt = "set"
      BY <2>2, <3>1, <3>2 DEF StampsFollowTheStatus
    <3> QED BY <2>0, <2>1, <2>5, <3>1, <3>2, <3>3, <3>4 DEF CommitReopen
  <2> QED BY <2>3, <2>4, <2>5
<1>2. TypeOK'
  <2>1. [status |-> period'.status, version |-> period'.version] \in AuditEntry
    BY <1>1 DEF AuditEntry, Period
  <2> QED BY <1>1, <2>1, CommitTypes DEF Inv, TypeOK
<1>3. RequestsOK'
  BY <1>1, CommitLeavesOthers
<1>4. AuditTellsTheHistory'
  BY <1>1, CommitAudit
<1>5. payrollType' = payrollType /\ period.version \in Nat /\ MaxVersion \in Nat
  BY <1>1, PayrollAssumption DEF Release, Inv, TypeOK, Period
<1>6. RowsOK'
  <2>0. RowsOK
    BY DEF Inv
  <2>1. OnePayrollPerPeriod' /\ ItemsPriceTheNovelties'
    BY <1>1, <1>5, <2>0 DEF RowsOK, OnePayrollPerPeriod, ItemsPriceTheNovelties, LoadsNovelties
  <2>2. ItemsUseThePin'
    BY <1>1, <1>5, <2>0 DEF RowsOK, ItemsUseThePin, UsesRuleSet
  <2>3. CalculatedHasItems'
    BY <1>1, <1>5, <2>0 DEF RowsOK, CalculatedHasItems, LoadsNovelties
  <2>4. StampsFollowTheStatus'
    BY <1>1 DEF StampsFollowTheStatus
  <2> QED BY <1>1, <1>4, <1>5, <2>0, <2>1, <2>2, <2>3, <2>4 DEF RowsOK, UsesRuleSet
<1> QED BY <1>2, <1>3, <1>6 DEF Inv

\* A change of novelties discards the calculation, so nothing is left that
\* could disagree with the novelties.
LEMMA NoveltyStep ==
    ASSUME Inv, NEW r \in Requests, CommitCreateNovelty(r) \/ CommitRemoveNovelty(r)
    PROVE  Inv'
<1>1. /\ req[r].pc = "claimed" /\ Release(r) /\ PreparePeriodForNoveltyMutation(r)
  BY DEF CommitCreateNovelty, CommitRemoveNovelty, Claimed
<1>2. /\ period' \in Period /\ period'.version = period.version + 1 /\ period'.pin = period.pin
      /\ period'.status = "COLLECTING_NOVELTIES" /\ items' = {}
      /\ period'.closedAt = period.closedAt /\ period.status # "CLOSED"
      /\ period.version < MaxVersion /\ period.version \in Nat
      /\ audit' = Append(audit, [status |-> period'.status, version |-> period'.version])
  <2>1. period.status # "CLOSED"
    BY <1>1, ClaimedFacts
    DEF CommitCreateNovelty, CommitRemoveNovelty, Claimed, ClaimableStatuses,
        NoveltyMutableStatuses
  <2>2. period \in Period /\ req[r].read = period /\ period.version < MaxVersion
    BY <1>1, ClaimedFacts
  <2>3. /\ period' \in Period /\ period'.version = period.version + 1 /\ period'.pin = period.pin
        /\ period'.status = "COLLECTING_NOVELTIES" /\ items' = {}
        /\ period'.closedAt = period.closedAt
    BY RowValues, <1>1, <2>2 DEF PreparePeriodForNoveltyMutation, Period
  <2>4. audit' = Append(audit, [status |-> "COLLECTING_NOVELTIES", version |-> period.version + 1])
    BY <1>1, <2>2, Zenon DEF PreparePeriodForNoveltyMutation, Log
  <2>5. audit' = Append(audit, [status |-> period'.status, version |-> period'.version])
    BY <2>3, <2>4, Zenon
  <2> QED BY <2>1, <2>2, <2>3, <2>5 DEF Period
<1>3. novelties' \in SUBSET Novelty
  <2>1. CASE CommitCreateNovelty(r)
    <3>1. req[r].target \in Employees
      BY <1>1, <2>1, ClaimedFacts DEF CommitCreateNovelty, Claimed
    <3> QED BY <1>2, <2>1, <3>1 DEF CommitCreateNovelty, Novelty, Inv, TypeOK
  <2>2. CASE CommitRemoveNovelty(r)
    BY <2>2 DEF CommitRemoveNovelty, Inv, TypeOK
  <2> QED BY <2>1, <2>2
<1>4. TypeOK'
  <2>1. [status |-> period'.status, version |-> period'.version] \in AuditEntry
    BY <1>2 DEF AuditEntry, Period
  <2> QED BY <1>1, <1>2, <1>3, <2>1, CommitTypes
<1>5. RequestsOK'
  BY <1>1, <1>2, CommitLeavesOthers
<1>6. AuditTellsTheHistory'
  BY <1>2, CommitAudit
<1>7. payrollType' = payrollType /\ MaxVersion \in Nat
  BY <1>1, PayrollAssumption DEF Release
<1>8. RowsOK'
  BY <1>2, <1>6, <1>7
  DEF Inv, RowsOK, OnePayrollPerPeriod, ItemsPriceTheNovelties, ItemsUseThePin,
      CalculatedHasItems, StampsFollowTheStatus, UsesRuleSet, LoadsNovelties
<1> QED BY <1>4, <1>5, <1>8 DEF Inv

\* A calculation leaves its own items alone: what it deletes is all there was,
\* and what it inserts prices the novelties that are there.
LEMMA CalculateStep ==
    ASSUME Inv, NEW r \in Requests, CommitCalculate(r)
    PROVE  Inv'
<1> DEFINE q == req[r]
           v == period.version + 1
<1>1. /\ q.pc = "claimed" /\ q.op = "CALCULATE" /\ Release(r) /\ novelties' = novelties
      /\ audit' = Append(audit, [status |-> "CALCULATED", version |-> q.read.version + 1])
  BY DEF CommitCalculate, Claimed, Log
<1>2. /\ period \in Period /\ q \in Request /\ q.read = period
      /\ period.version \in Nat /\ period.version < MaxVersion /\ MaxVersion \in Nat
      /\ period.status \in CalculableStatuses /\ GatheredOK(q)
  BY <1>1, ClaimedFacts, PayrollAssumption DEF ClaimableStatuses, Period
<1>3. /\ q.team # {} /\ q.seen = items
      /\ LoadsNovelties => q.loaded = {n \in novelties : n.employee \in q.team}
      /\ ~LoadsNovelties => q.loaded = {}
      /\ IF UsesRuleSet THEN q.rules \in RuleSets /\ (period.pin # None => q.rules = period.pin)
                        ELSE q.rules = None
  BY <1>1, <1>2 DEF GatheredOK
<1>4. q.team \in SUBSET Employees /\ q.loaded \in SUBSET Novelty /\ q.rules \in RuleSets \cup {None}
  BY <1>2 DEF Request
<1>5. items' = Payroll(q.team, q.loaded, q.rules, v)
  BY <1>3 DEF CommitCalculate
<1> DEFINE pin == IF q.rules = None THEN period.pin ELSE q.rules
<1>6. /\ period' \in Period /\ period'.version = v /\ period'.status = "CALCULATED"
      /\ period'.pin = pin /\ period'.closedAt = period.closedAt
  <2>1. pin \in RuleSets \cup {None}
    BY <1>2, <1>4 DEF Period
  <2>2. period' = [period EXCEPT !.status = "CALCULATED", !.version = v, !.pin = pin]
    BY DEF CommitCalculate
  <2> HIDE DEF pin
  <2> QED BY RowValues, <1>2, <2>1, <2>2 DEF Period
<1>7. /\ payrollType' = payrollType /\ pin = q.rules
      /\ UsesRuleSet => pin # None
      /\ ~UsesRuleSet => pin = None
  <2>1. ~UsesRuleSet => period.pin = None
    BY DEF Inv, RowsOK
  <2> QED BY <1>1, <1>3, <2>1, PayrollAssumption DEF Release
<1> HIDE DEF q, v, pin
<1>8. audit' = Append(audit, [status |-> period'.status, version |-> period'.version])
  <2>1. audit' = Append(audit, [status |-> "CALCULATED", version |-> v])
    BY <1>1, <1>2, Zenon DEF v
  <2> QED BY <1>6, <2>1, Zenon
<1>9. v \in Nat /\ v =< MaxVersion
  BY <1>2 DEF v
<1>10. Paid(q.team) \in SUBSET q.team /\ (LoadsNovelties => Paid(q.team) = q.team)
  BY DEF Paid
<1>11. ASSUME NEW i \in items'
       PROVE  \E e \in Paid(q.team) :
                 i = [calc |-> v, employee |-> e, rules |-> q.rules,
                      novelties |-> {n \in q.loaded : n.employee = e}]
  BY <1>5, <1>11 DEF Payroll
<1>12. TypeOK'
  <2>1. items' \in SUBSET Item
    BY <1>4, <1>9, <1>10, <1>11 DEF Item
  <2>2. [status |-> period'.status, version |-> period'.version] \in AuditEntry
    BY <1>6 DEF AuditEntry, Period
  <2>3. novelties' \in SUBSET Novelty
    BY <1>1 DEF Inv, TypeOK
  <2> QED BY <1>1, <1>6, <1>8, <2>1, <2>2, <2>3, CommitTypes
<1>13. RequestsOK'
  BY <1>1, <1>6, CommitLeavesOthers DEF q, v
<1>14. RowsOK'
  <2>1. OnePayrollPerPeriod'
    <3> SUFFICES ASSUME NEW i \in items', NEW j \in items'
                 PROVE  i.calc = j.calc /\ (i.employee = j.employee => i = j)
      BY DEF OnePayrollPerPeriod
    <3> DEFINE Slip(e) == [calc |-> v, employee |-> e, rules |-> q.rules,
                           novelties |-> {n \in q.loaded : n.employee = e}]
    <3>1. PICK e \in Paid(q.team) : i = Slip(e)
      BY <1>11
    <3>2. PICK f \in Paid(q.team) : j = Slip(f)
      BY <1>11
    <3>3. /\ i.calc = v /\ i.employee = e
          /\ j.calc = v /\ j.employee = f
      BY <3>1, <3>2
    <3> HIDE DEF Slip
    <3> QED BY <3>1, <3>2, <3>3
  <2>2. ItemsPriceTheNovelties'
    <3>1. ASSUME NEW i \in items'
          PROVE  i.novelties = IF LoadsNovelties THEN {n \in novelties : n.employee = i.employee}
                                                 ELSE {}
      <4>1. PICK e \in Paid(q.team) :
                 i = [calc |-> v, employee |-> e, rules |-> q.rules,
                      novelties |-> {n \in q.loaded : n.employee = e}]
        BY <1>11
      <4>2. i.employee = e /\ i.novelties = {n \in q.loaded : n.employee = e} /\ e \in q.team
        BY <1>10, <4>1
      <4>3. CASE LoadsNovelties
        BY <1>3, <4>2, <4>3
      <4>4. CASE ~LoadsNovelties
        BY <1>3, <4>2, <4>4
      <4> QED BY <4>3, <4>4
    <3> QED BY <1>1, <1>6, <1>7, <3>1 DEF ItemsPriceTheNovelties, LoadsNovelties
  <2>3. ItemsUseThePin'
    BY <1>6, <1>7, <1>11 DEF ItemsUseThePin, UsesRuleSet
  <2>4. CalculatedHasItems'
    <3>1. ASSUME LoadsNovelties
          PROVE  items' # {}
      <4>1. PICK e \in Paid(q.team) : TRUE
        BY <1>3, <1>10, <3>1
      <4>2. [calc |-> v, employee |-> e, rules |-> q.rules,
             novelties |-> {n \in q.loaded : n.employee = e}] \in items'
        BY <1>5, <4>1 DEF Payroll
      <4> QED BY <4>2
    <3> QED BY <1>7, <3>1 DEF CalculatedHasItems, LoadsNovelties
  <2>5. AuditTellsTheHistory'
    BY <1>6, <1>8, CommitAudit DEF v
  <2>6. StampsFollowTheStatus'
    BY <1>2, <1>6 DEF StampsFollowTheStatus, Inv, RowsOK, CalculableStatuses
  <2> QED BY <1>6, <1>7, <1>9, <2>1, <2>2, <2>3, <2>4, <2>5, <2>6 DEF RowsOK, UsesRuleSet
<1> QED BY <1>12, <1>13, <1>14 DEF Inv

\* A rollback releases the lock and undoes nothing, for nothing was visible.
LEMMA RollbackStep ==
    ASSUME Inv, NEW r \in Requests, Rollback(r)
    PROVE  Inv'
<1>1. TypeOK'
  <2>1. req' \in [Requests -> Request]
    BY IdleOK DEF Inv, TypeOK, Rollback, Release
  <2> QED BY <2>1 DEF Inv, TypeOK, Rollback, Release, Period, Item, Novelty, AuditEntry
<1>2. RequestsOK'
  <2> SUFFICES ASSUME NEW x \in Requests
               PROVE  RequestOK(x, req[x])'
    BY DEF RequestsOK
  <2>1. RequestOK(x, req[x]) /\ RequestOK(r, req[r])
    BY DEF Inv, RequestsOK
  <2>2. CASE x = r
    <3>1. req'[x] = Idle
      BY <2>2 DEF Rollback, Release, Inv, TypeOK
    <3> QED BY <3>1 DEF Idle, RequestOK, WithPeriod
  <2>3. CASE x # r
    <3>1. req'[x] = req[x] /\ req[x].pc # "claimed"
      BY <2>1, <2>3 DEF Rollback, Release, RequestOK, Inv, TypeOK
    <3> QED BY <2>1, <3>1 DEF Rollback, Release, RequestOK, GatheredOK, UsesRuleSet, LoadsNovelties
  <2> QED BY <2>2, <2>3
<1>3. RowsOK'
  BY DEF Inv, RowsOK, Rollback, Release, OnePayrollPerPeriod, ItemsPriceTheNovelties,
         ItemsUseThePin, CalculatedHasItems, AuditTellsTheHistory, StampsFollowTheStatus,
         UsesRuleSet, LoadsNovelties
<1> QED BY <1>1, <1>2, <1>3 DEF Inv

\* Employees come and go without the period noticing.
LEMMA EmployeeStep ==
    ASSUME Inv, NEW e \in Employees, Hire(e) \/ Deactivate(e)
    PROVE  Inv'
<1>1. TypeOK'
  <2>1. employees' \in [Employees -> EmployeeStatuses]
    BY DEF Inv, TypeOK, Hire, Deactivate, EmployeeStatuses
  <2> QED BY <2>1 DEF Inv, TypeOK, Hire, Deactivate, Period, Item, Novelty, AuditEntry
<1>2. RequestsOK'
  BY DEF Inv, RequestsOK, RequestOK, GatheredOK, Hire, Deactivate, UsesRuleSet, LoadsNovelties
<1>3. RowsOK'
  BY DEF Inv, RowsOK, Hire, Deactivate, OnePayrollPerPeriod, ItemsPriceTheNovelties,
         ItemsUseThePin, CalculatedHasItems, AuditTellsTheHistory, StampsFollowTheStatus,
         UsesRuleSet, LoadsNovelties
<1> QED BY <1>1, <1>2, <1>3 DEF Inv

LEMMA StutteringStep ==
    ASSUME Inv, UNCHANGED vars
    PROVE  Inv'
<1>1. TypeOK'
  BY DEF Inv, TypeOK, vars
<1>2. RequestsOK'
  BY DEF Inv, RequestsOK, RequestOK, GatheredOK, vars, UsesRuleSet, LoadsNovelties
<1>3. RowsOK'
  BY DEF Inv, RowsOK, vars, OnePayrollPerPeriod, ItemsPriceTheNovelties, ItemsUseThePin,
         CalculatedHasItems, AuditTellsTheHistory, StampsFollowTheStatus, UsesRuleSet,
         LoadsNovelties
<1> QED BY <1>1, <1>2, <1>3 DEF Inv

-----------------------------------------------------------------------------
(* The theorems.                                                           *)

LEMMA InitInv == Init => Inv
<1> SUFFICES ASSUME Init PROVE Inv
  OBVIOUS
<1>1. period.version = 0 /\ period.status = "DRAFT" /\ period.closedAt = "null" /\ period.pin = None
  BY DEF Init
<1>2. TypeOK
  <2>1. period \in Period
    <3>1. "DRAFT" \in Statuses /\ "null" \in Stamp
      BY DEF Statuses, Stamp
    <3> QED BY <3>1 DEF Init, Period
  <2>2. req \in [Requests -> Request]
    BY IdleOK DEF Init
  <2>3. employees \in [Employees -> EmployeeStatuses]
    BY DEF Init, EmployeeStatuses
  <2> QED BY <2>1, <2>2, <2>3 DEF Init, TypeOK
<1>3. RequestsOK
  BY IdleOK DEF Init, RequestsOK
<1>4. RowsOK
  BY <1>1, PayrollAssumption
  DEF Init, RowsOK, OnePayrollPerPeriod, ItemsPriceTheNovelties, ItemsUseThePin,
      CalculatedHasItems, AuditTellsTheHistory, StampsFollowTheStatus
<1> QED BY <1>2, <1>3, <1>4 DEF Inv

LEMMA NextInv == Inv /\ [Next]_vars => Inv'
<1> SUFFICES ASSUME Inv, [Next]_vars PROVE Inv'
  OBVIOUS
<1>1. ASSUME NEW r \in Requests, Start(r) PROVE Inv'
  BY <1>1, BeginStep
<1>2. ASSUME NEW r \in Requests, Read(r) PROVE Inv'
  BY <1>2, ReadStep
<1>3. ASSUME NEW r \in Requests, Claim(r) PROVE Inv'
  BY <1>3, ClaimStep
<1>4. ASSUME NEW r \in Requests, ClaimFails(r) \/ Abandon(r) PROVE Inv'
  BY <1>4, GiveUpStep
<1>5. ASSUME NEW r \in Requests, Commit(r) PROVE Inv'
  BY <1>5, CalculateStep, MoveStep, NoveltyStep DEF Commit
<1>6. ASSUME NEW r \in Requests, Rollback(r) PROVE Inv'
  BY <1>6, RollbackStep
<1>7. ASSUME NEW e \in Employees, Hire(e) \/ Deactivate(e) PROVE Inv'
  BY <1>7, EmployeeStep
<1>8. CASE UNCHANGED vars
  BY <1>8, StutteringStep
<1> QED BY <1>1, <1>2, <1>3, <1>4, <1>5, <1>6, <1>7, <1>8 DEF Next

\* Every reachable state satisfies the inductive invariant: whatever the
\* requests interleave, what each has read is guarded by the version.
THEOREM InvHolds == Spec => []Inv
BY InitInv, NextInv, PTL DEF Spec

\* The variables keep their types in every run of calculations, approvals,
\* closings, reopenings and changes of novelties.
THEOREM TypeCorrect == Spec => []TypeOK
<1>1. Inv => TypeOK
  BY DEF Inv
<1> QED BY <1>1, InvHolds, PTL

\* However many recalculations race, the items of a period are one
\* calculation's, one per employee, although no unique key says so.
THEOREM NoDoublePay == Spec => []OnePayrollPerPeriod
<1>1. Inv => OnePayrollPerPeriod
  BY DEF Inv, RowsOK
<1> QED BY <1>1, InvHolds, PTL

\* What is calculated, approved, closed or reopened has priced exactly the
\* period's novelties, although the calculation reads them without a lock.
THEOREM NoStalePayroll == Spec => []ItemsPriceTheNovelties
<1>1. Inv => ItemsPriceTheNovelties
  BY DEF Inv, RowsOK
<1> QED BY <1>1, InvHolds, PTL

\* The items always stem from the rule set the period is pinned to.
THEOREM PinnedRules == Spec => []ItemsUseThePin
<1>1. Inv => ItemsUseThePin
  BY DEF Inv, RowsOK
<1> QED BY <1>1, InvHolds, PTL

\* A request whose version still matches knows the rows as they are, which is
\* what entitles its claim to act on them.
THEOREM VersionIsAGuard == Spec => []VersionGuardsWhatWasRead
<1>1. Inv => VersionGuardsWhatWasRead
  <2> SUFFICES ASSUME Inv, NEW r \in Requests, req[r].read # None,
                      req[r].read.version = period.version
               PROVE  /\ req[r].read = period
                      /\ req[r].op = "CALCULATE" => GatheredOK(req[r])
    BY DEF VersionGuardsWhatWasRead, GatheredOK
  <2>1. RequestOK(r, req[r]) /\ req[r].pc \in Steps
    BY DEF Inv, RequestsOK, TypeOK, Request
  <2> QED BY <2>1 DEF RequestOK, WithPeriod, Steps
<1> QED BY <1>1, InvHolds, PTL

\* The audit log has exactly one record for each version of the period, and
\* the last one states its status.
THEOREM AuditIsComplete == Spec => []AuditTellsTheHistory
<1>1. Inv => AuditTellsTheHistory
  BY DEF Inv, RowsOK
<1> QED BY <1>1, InvHolds, PTL

\* What was calculated has items, so what is approved or closed was calculated.
THEOREM PayrollHasItems == Spec => []CalculatedHasItems
<1>1. Inv => CalculatedHasItems
  BY DEF Inv, RowsOK
<1> QED BY <1>1, InvHolds, PTL

\* The approval and closing stamps agree with the status.
THEOREM StampsAreRight == Spec => []StampsFollowTheStatus
<1>1. Inv => StampsFollowTheStatus
  BY DEF Inv, RowsOK
<1> QED BY <1>1, InvHolds, PTL

\* Every step that is not a commit leaves the rows of the period alone.
LEMMA OnlyCommitsWrite ==
    ASSUME Next, ~(\E r \in Requests : Commit(r))
    PROVE  UNCHANGED <<payrollType, period, items, novelties, audit>>
<1>1. ASSUME NEW r \in Requests, Start(r) PROVE UNCHANGED <<payrollType, period, items, novelties, audit>>
  BY <1>1 DEF Start, BeginCalculate, BeginApprove, BeginClose, BeginReopen, Begin,
              BeginCreateNovelty, BeginRemoveNovelty, ReadsOnly
<1>2. ASSUME NEW r \in Requests, Read(r) PROVE UNCHANGED <<payrollType, period, items, novelties, audit>>
  BY <1>2 DEF Read, ReadPeriodForNovelty, ReadEmployees, SelectRules, ReadItems, ReadNovelties,
              ReadsOnly
<1>3. ASSUME NEW r \in Requests, Claim(r) \/ ClaimFails(r) \/ Rollback(r) \/ Abandon(r)
      PROVE  UNCHANGED <<payrollType, period, items, novelties, audit>>
  BY <1>3 DEF Claim, ClaimFails, Rollback, Abandon, Release, ReadsOnly
<1>4. ASSUME NEW e \in Employees, Hire(e) \/ Deactivate(e)
      PROVE  UNCHANGED <<payrollType, period, items, novelties, audit>>
  BY <1>4 DEF Hire, Deactivate
<1> QED BY <1>1, <1>2, <1>3, <1>4 DEF Next

\* Nothing approved changes before the period is reopened: a calculation or a
\* change of novelties that read the period earlier finds its claim refused.
THEOREM ApprovalFreezes == Spec => ApprovedIsFrozen
<1>1. ASSUME Inv, [Next]_vars
      PROVE  [period.status \in {"APPROVED", "CLOSED"}
                 => UNCHANGED <<items, novelties>> /\ period'.pin = period.pin]_vars
  <2> SUFFICES ASSUME period.status \in {"APPROVED", "CLOSED"}, Next
               PROVE  UNCHANGED <<items, novelties>> /\ period'.pin = period.pin
    BY <1>1
  <2>1. ASSUME NEW r \in Requests, Commit(r)
        PROVE  UNCHANGED <<items, novelties>> /\ period'.pin = period.pin
    <3>1. req[r].pc = "claimed"
      BY <2>1 DEF Commit, CommitCalculate, CommitApprove, CommitClose, CommitReopen,
                  CommitCreateNovelty, CommitRemoveNovelty, Claimed
    <3>2. period.status \in ClaimableStatuses(req[r].op) /\ period \in Period
      BY <1>1, <3>1, ClaimedFacts
    <3>3. req[r].op \notin {"CALCULATE", "CREATE_NOVELTY", "REMOVE_NOVELTY"}
      BY <3>2 DEF ClaimableStatuses, CalculableStatuses, NoveltyMutableStatuses
    <3>4. CommitApprove(r) \/ CommitClose(r) \/ CommitReopen(r)
      BY <2>1, <3>3 DEF Commit, CommitCalculate, CommitCreateNovelty, CommitRemoveNovelty, Claimed
    <3> QED BY <3>2, <3>4 DEF CommitApprove, CommitClose, CommitReopen, Period
  <2> QED BY <2>1, OnlyCommitsWrite
<1> QED BY <1>1, InvHolds, PTL DEF Spec, ApprovedIsFrozen

\* A period keeps the rule set of its first calculation for good.
THEOREM PinIsStable == Spec => PinIsNeverReplaced
<1>1. ASSUME Inv, [Next]_vars
      PROVE  [period.pin # None => period'.pin = period.pin]_vars
  <2> SUFFICES ASSUME period.pin # None, Next
               PROVE  period'.pin = period.pin
    BY <1>1
  <2>1. ASSUME NEW r \in Requests, Commit(r)
        PROVE  period'.pin = period.pin
    <3>1. req[r].pc = "claimed"
      BY <2>1 DEF Commit, CommitCalculate, CommitApprove, CommitClose, CommitReopen,
                  CommitCreateNovelty, CommitRemoveNovelty, Claimed
    <3>2. period \in Period
      BY <1>1, <3>1, ClaimedFacts
    <3>3. CASE CommitCalculate(r)
      <4>1. req[r].read = period /\ GatheredOK(req[r])
        BY <1>1, <3>1, <3>3, ClaimedFacts DEF CommitCalculate, Claimed
      <4>2. req[r].rules = None \/ req[r].rules = period.pin
        BY <3>1, <4>1 DEF GatheredOK
      <4> QED BY <3>2, <3>3, <4>2 DEF CommitCalculate, Period
    <3>4. CASE ~CommitCalculate(r)
      BY <2>1, <3>2, <3>4
      DEF Commit, CommitApprove, CommitClose, CommitReopen, CommitCreateNovelty,
          CommitRemoveNovelty, PreparePeriodForNoveltyMutation, Period
    <3> QED BY <3>3, <3>4
  <2> QED BY <2>1, OnlyCommitsWrite
<1> QED BY <1>1, InvHolds, PTL DEF Spec, PinIsNeverReplaced

\* Whatever a commit changes, the version tells: no two contents of a period, its items,
\* its novelties or its history ever had the same one.
THEOREM ChangesAreVersioned == Spec => EveryChangeHasItsVersion
<1>1. ASSUME Inv, [Next]_vars,
             <<period, items, novelties, audit>>' # <<period, items, novelties, audit>>
      PROVE  period'.version = period.version + 1
  <2>1. PICK r \in Requests : Commit(r)
    BY <1>1, OnlyCommitsWrite DEF vars
  <2>2. period \in Period
    BY <1>1 DEF Inv, TypeOK
  <2> QED
    BY <2>1, <2>2
    DEF Commit, CommitCalculate, CommitApprove, CommitClose, CommitReopen, CommitCreateNovelty,
        CommitRemoveNovelty, PreparePeriodForNoveltyMutation, Period
<1>2. Inv /\ [Next]_vars =>
         [<<period, items, novelties, audit>>' # <<period, items, novelties, audit>>
             => period'.version = period.version + 1]_vars
  BY <1>1
<1> QED BY <1>2, InvHolds, PTL DEF Spec, EveryChangeHasItsVersion

\* The period was in a status the request may claim when it was read.
ReadClaimable ==
    \A r \in Requests :
        req[r].pc \in WithPeriod => req[r].read.status \in ClaimableStatuses(req[r].op)

LEMMA ReadClaimableStep ==
    ASSUME Inv, ReadClaimable, [Next]_vars
    PROVE  ReadClaimable'
<1> DEFINE Claimable(q) == q.pc \in WithPeriod => q.read.status \in ClaimableStatuses(q.op)
<1>1. /\ req \in [Requests -> Request]
      /\ \A r \in Requests : Claimable(req[r])
  BY DEF Inv, TypeOK, ReadClaimable
<1>2. Claimable(Idle)
  BY DEF Idle, WithPeriod
<1>3. ASSUME NEW r \in Requests, NEW q, Claimable(q), req' = [req EXCEPT ![r] = q]
      PROVE  ReadClaimable'
  BY <1>1, <1>3 DEF ReadClaimable
<1>4. ASSUME NEW r \in Requests, NEW op, NEW allowed, Begin(r, op, allowed),
             allowed \subseteq ClaimableStatuses(op)
      PROVE  ReadClaimable'
  <2> DEFINE q == [Idle EXCEPT !.pc = IF op = "CALCULATE" THEN "employees" ELSE "transaction",
                               !.op = op, !.read = period]
  <2>1. q.op = op /\ q.read.status \in allowed
    BY <1>4 DEF Begin, Idle
  <2>2. Claimable(q)
    BY <1>4, <2>1
  <2> QED BY <1>3, <1>4, <2>2 DEF Begin
<1>5. ASSUME NEW r \in Requests, BeginCreateNovelty(r) \/ BeginRemoveNovelty(r)
      PROVE  ReadClaimable'
  <2>1. PICK op, target : req' = [req EXCEPT ![r] = [Idle EXCEPT !.pc = "period", !.op = op,
                                                                 !.target = target]]
    BY <1>5 DEF BeginCreateNovelty, BeginRemoveNovelty
  <2>2. Claimable([Idle EXCEPT !.pc = "period", !.op = op, !.target = target])
    BY DEF Idle, WithPeriod
  <2> QED BY <1>3, <2>1, <2>2
<1>6. ASSUME NEW r \in Requests, ReadPeriodForNovelty(r)
      PROVE  ReadClaimable'
  <2>1. CASE req' = [req EXCEPT ![r] = Idle]
    BY <1>2, <1>3, <2>1
  <2>2. CASE /\ period.status \in NoveltyMutableStatuses
             /\ req' = [req EXCEPT ![r] = [@ EXCEPT !.pc = "transaction", !.read = period]]
    <3>1. req[r].op \in {"CREATE_NOVELTY", "REMOVE_NOVELTY"} /\ req[r] \in Request
      BY <1>1, <1>6 DEF ReadPeriodForNovelty, Inv, RequestsOK, RequestOK
    <3>2. Claimable([req[r] EXCEPT !.pc = "transaction", !.read = period])
      BY <2>2, <3>1 DEF Request, ClaimableStatuses
    <3> QED BY <1>3, <2>2, <3>2
  <2> QED BY <1>6, <2>1, <2>2 DEF ReadPeriodForNovelty
<1>7. ASSUME NEW r \in Requests,
             ReadEmployees(r) \/ SelectRules(r) \/ ReadItems(r) \/ ReadNovelties(r) \/ Claim(r)
      PROVE  ReadClaimable'
  <2>1. Claimable(req[r]) /\ req[r] \in Request /\ req[r].pc \in WithPeriod
    BY <1>1, <1>7
    DEF ReadEmployees, SelectRules, ReadItems, ReadNovelties, Claim, WithPeriod
  <2>2. \A q : req' = [req EXCEPT ![r] = q] /\ q.op = req[r].op /\ q.read = req[r].read
               => ReadClaimable'
    BY <1>3, <2>1
  <2>3. CASE ReadEmployees(r)
    <3> DEFINE q == [req[r] EXCEPT !.pc = IF UsesRuleSet THEN "rules" ELSE "items", !.team = Active]
    <3>1. q.op = req[r].op /\ q.read = req[r].read
      BY <2>1 DEF Request
    <3>2. req' = [req EXCEPT ![r] = Idle] \/ req' = [req EXCEPT ![r] = q]
      BY <2>3 DEF ReadEmployees
    <3> HIDE DEF q
    <3> QED BY <1>2, <1>3, <2>2, <3>1, <3>2
  <2>4. CASE SelectRules(r)
    <3>1. PICK s : req' = [req EXCEPT ![r].pc = "items", ![r].rules = s]
      BY <2>4 DEF SelectRules
    <3> DEFINE q == [req[r] EXCEPT !.pc = "items", !.rules = s]
    <3>2. q.op = req[r].op /\ q.read = req[r].read
      BY <2>1 DEF Request
    <3>3. req' = [req EXCEPT ![r] = q]
      BY <3>1
    <3> HIDE DEF q
    <3> QED BY <2>2, <3>2, <3>3
  <2>5. CASE ReadItems(r)
    <3> DEFINE q == [req[r] EXCEPT !.pc = IF LoadsNovelties THEN "novelties" ELSE "transaction",
                                   !.seen = items]
    <3>1. q.op = req[r].op /\ q.read = req[r].read
      BY <2>1 DEF Request
    <3>2. req' = [req EXCEPT ![r] = q]
      BY <2>5 DEF ReadItems
    <3> HIDE DEF q
    <3> QED BY <2>2, <3>1, <3>2
  <2>6. CASE ReadNovelties(r) \/ Claim(r)
    BY <1>1, <2>1, <2>6 DEF ReadNovelties, Claim, Request, ReadClaimable
  <2> QED BY <1>7, <2>3, <2>4, <2>5, <2>6
<1>8. ASSUME NEW r \in Requests, ClaimFails(r) \/ Commit(r) \/ Rollback(r) \/ Abandon(r)
      PROVE  ReadClaimable'
  <2>1. req' = [req EXCEPT ![r] = Idle]
    BY <1>8
    DEF ClaimFails, Commit, CommitCalculate, CommitApprove, CommitClose, CommitReopen,
        CommitCreateNovelty, CommitRemoveNovelty, Rollback, Abandon, Release
  <2> QED BY <1>2, <1>3, <2>1
<1>9. CASE UNCHANGED req
  BY <1>1, <1>9 DEF ReadClaimable
<1>10. ASSUME NEW r \in Requests, Start(r)
       PROVE  ReadClaimable'
  <2>1. CASE BeginCalculate(r)
    BY <1>4, <2>1 DEF BeginCalculate, ClaimableStatuses
  <2>2. CASE BeginApprove(r)
    BY <1>4, <2>2 DEF BeginApprove, ClaimableStatuses
  <2>3. CASE BeginClose(r)
    BY <1>4, <2>3 DEF BeginClose, ClaimableStatuses
  <2>4. CASE BeginReopen(r)
    BY <1>4, <2>4 DEF BeginReopen, ClaimableStatuses
  <2> QED BY <1>5, <1>10, <2>1, <2>2, <2>3, <2>4 DEF Start
<1>11. CASE Next
  BY <1>6, <1>7, <1>8, <1>9, <1>10, <1>11 DEF Next, Read, Hire, Deactivate
<1> QED BY <1>9, <1>11 DEF vars

\* A request is refused its claim only when another has committed since it read the
\* period: a conflict that is answered is never a false one.
THEOREM RefusalsAreConflicts == Spec => ConflictsAreReal
<1>1. Init => ReadClaimable
  BY DEF Init, ReadClaimable, Idle, WithPeriod
<1>2. Inv /\ ReadClaimable /\ [Next]_vars => ReadClaimable'
  BY ReadClaimableStep
<1>3. ASSUME Inv, ReadClaimable, NEW r \in Requests, req[r].pc = "transaction", ClaimFails(r)
      PROVE  period.version > req[r].read.version \/ period.version >= MaxVersion
  <2>1. /\ req[r].read \in Period /\ req[r].read.version =< period.version
        /\ req[r].read.version = period.version => req[r].read = period
        /\ req[r].read.status \in ClaimableStatuses(req[r].op)
    BY <1>3 DEF Inv, RequestsOK, RequestOK, ReadClaimable, WithPeriod
  <2>2. period.version \in Nat /\ req[r].read.version \in Nat /\ MaxVersion \in Nat
    BY <1>3, <2>1, PayrollAssumption DEF Inv, TypeOK, Period
  <2>3. CASE req[r].read.version = period.version
    BY <1>3, <2>1, <2>2, <2>3 DEF ClaimFails, ClaimMatches
  <2>4. CASE req[r].read.version # period.version
    BY <2>1, <2>2, <2>4
  <2> QED BY <2>3, <2>4
<1>4. Inv /\ ReadClaimable /\ [Next]_vars =>
         [\A r \in Requests :
             req[r].pc = "transaction" /\ ClaimFails(r)
                => period.version > req[r].read.version \/ period.version >= MaxVersion]_vars
  BY <1>3
<1> QED BY <1>1, <1>2, <1>4, InvHolds, PTL DEF Spec, ConflictsAreReal

-----------------------------------------------------------------------------
(* Refinement: every commit is one step of the lifecycle in which requests *)
(* run alone, on the rows of that moment; every other step is a stutter.   *)

LEMMA InitRefines == Init => Lifecycle!Init
BY DEF Init, Lifecycle!Init

LEMMA CalculateRefines ==
    ASSUME Inv, NEW r \in Requests, CommitCalculate(r)
    PROVE  Lifecycle!Next
<1> DEFINE q == req[r]
           v == period.version + 1
<1>1. q.pc = "claimed" /\ q.op = "CALCULATE" /\ Release(r) /\ novelties' = novelties
  BY DEF CommitCalculate, Claimed
<1>2. /\ period \in Period /\ q \in Request /\ q.read = period /\ period.version < MaxVersion
      /\ period.status \in CalculableStatuses /\ GatheredOK(q)
  BY <1>1, ClaimedFacts DEF ClaimableStatuses
<1>3. /\ q.team # {} /\ q.seen = items /\ q.team \in SUBSET Employees
      /\ LoadsNovelties => q.loaded = {n \in novelties : n.employee \in q.team}
      /\ ~LoadsNovelties => q.loaded = {}
      /\ IF UsesRuleSet THEN q.rules \in RuleSets /\ (period.pin # None => q.rules = period.pin)
                        ELSE q.rules = None
  BY <1>1, <1>2 DEF GatheredOK, Request
<1>4. items' = Payroll(q.team, q.loaded, q.rules, v)
  BY <1>3 DEF CommitCalculate
<1>5. /\ period'.version = v /\ period'.status = "CALCULATED" /\ period'.pin = q.rules
      /\ payrollType' = payrollType
  <2>1. q.rules = None => period.pin = None
    BY <1>3, PayrollAssumption DEF Inv, RowsOK
  <2> QED BY <1>1, <1>2, <2>1 DEF CommitCalculate, Period, Release
<1>6. Lifecycle!PricesNovelties <=> LoadsNovelties
  BY DEF Lifecycle!PricesNovelties, LoadsNovelties, AccrualTypes
<1>7. Lifecycle!NeedsRules <=> UsesRuleSet
  BY DEF Lifecycle!NeedsRules, UsesRuleSet, PeriodicTypes
<1> HIDE DEF q
<1>8. items' = {Lifecycle!Payslip(e, q.rules) :
                  e \in IF Lifecycle!PricesNovelties THEN q.team ELSE q.team \cap Accruing}
  <2>1. Paid(q.team) = IF Lifecycle!PricesNovelties THEN q.team ELSE q.team \cap Accruing
    BY <1>6 DEF Paid
  <2>2. ASSUME NEW e \in Paid(q.team)
        PROVE  [calc |-> v, employee |-> e, rules |-> q.rules,
                novelties |-> {n \in q.loaded : n.employee = e}] = Lifecycle!Payslip(e, q.rules)
    <3>1. e \in q.team
      BY DEF Paid
    <3>2. {n \in q.loaded : n.employee = e}
             = IF Lifecycle!PricesNovelties THEN {n \in novelties : n.employee = e} ELSE {}
      <4>1. CASE LoadsNovelties
        BY <1>3, <1>6, <3>1, <4>1
      <4>2. CASE ~LoadsNovelties
        BY <1>3, <1>6, <4>2
      <4> QED BY <4>1, <4>2
    <3> QED BY <3>2 DEF Lifecycle!Payslip
  <2>3. items' = {Lifecycle!Payslip(e, q.rules) : e \in Paid(q.team)}
    BY <1>4, <2>2 DEF Payroll
  <2> QED BY <2>1, <2>3
<1>9. Lifecycle!Calculate(q.team, q.rules)
  <2>1. Lifecycle!Move(Lifecycle!Open, "CALCULATED")
    BY <1>2, <1>5 DEF Lifecycle!Move, Lifecycle!Open, CalculableStatuses, v
  <2>2. period.pin # None => q.rules = period.pin
    BY <1>3 DEF Inv, RowsOK
  <2> QED BY <1>1, <1>3, <1>5, <1>8, <2>1, <2>2 DEF Lifecycle!Calculate
<1>10. q.team \in SUBSET Employees /\ q.rules \in IF Lifecycle!NeedsRules THEN RuleSets ELSE {None}
  BY <1>3, <1>7
<1> QED BY <1>9, <1>10 DEF Lifecycle!Next

LEMMA MoveRefines ==
    ASSUME Inv, NEW r \in Requests, CommitApprove(r) \/ CommitClose(r) \/ CommitReopen(r)
    PROVE  Lifecycle!Next
<1>1. req[r].pc = "claimed" /\ Release(r)
  BY DEF CommitApprove, CommitClose, CommitReopen, Claimed
<1>2. /\ period \in Period /\ period.version < MaxVersion /\ payrollType' = payrollType
      /\ period.status \in ClaimableStatuses(req[r].op)
  BY <1>1, ClaimedFacts DEF Release
<1>3. CASE CommitApprove(r)
  <2>1. period.status = "CALCULATED"
    BY <1>2, <1>3 DEF CommitApprove, Claimed, ClaimableStatuses
  <2>2. Lifecycle!Approve
    BY <1>2, <1>3, <2>1 DEF CommitApprove, Lifecycle!Approve, Lifecycle!Move, Period
  <2> QED BY <2>2 DEF Lifecycle!Next
<1>4. CASE CommitClose(r)
  <2>1. period.status = "APPROVED"
    BY <1>2, <1>4 DEF CommitClose, Claimed, ClaimableStatuses
  <2>2. Lifecycle!Close
    BY <1>2, <1>4, <2>1 DEF CommitClose, Lifecycle!Close, Lifecycle!Move, Period
  <2> QED BY <2>2 DEF Lifecycle!Next
<1>5. CASE CommitReopen(r)
  <2>1. period.status = "CLOSED"
    BY <1>2, <1>5 DEF CommitReopen, Claimed, ClaimableStatuses
  <2>2. Lifecycle!Reopen
    BY <1>2, <1>5, <2>1 DEF CommitReopen, Lifecycle!Reopen, Lifecycle!Move, Period
  <2> QED BY <2>2 DEF Lifecycle!Next
<1> QED BY <1>3, <1>4, <1>5

LEMMA NoveltyRefines ==
    ASSUME Inv, NEW r \in Requests, CommitCreateNovelty(r) \/ CommitRemoveNovelty(r)
    PROVE  Lifecycle!Next
<1>1. req[r].pc = "claimed" /\ Release(r) /\ PreparePeriodForNoveltyMutation(r)
  BY DEF CommitCreateNovelty, CommitRemoveNovelty, Claimed
<1>2. /\ period \in Period /\ period.version < MaxVersion /\ payrollType' = payrollType
      /\ period.status \in ClaimableStatuses(req[r].op)
      /\ req[r].op = "CREATE_NOVELTY" => req[r].target \in Employees
  BY <1>1, ClaimedFacts DEF Release
<1>3. /\ Lifecycle!Move(Lifecycle!Open, "COLLECTING_NOVELTIES") /\ items' = {}
      /\ period'.pin = period.pin
  <2>1. period.status \in NoveltyMutableStatuses
    BY <1>2 DEF CommitCreateNovelty, CommitRemoveNovelty, Claimed, ClaimableStatuses
  <2> QED BY <1>1, <1>2, <2>1
      DEF PreparePeriodForNoveltyMutation, Lifecycle!Move, Lifecycle!Open,
          NoveltyMutableStatuses, Period
<1>4. CASE CommitCreateNovelty(r)
  <2>1. req[r].target \in Employees
    BY <1>2, <1>4 DEF CommitCreateNovelty, Claimed
  <2>2. Lifecycle!AddNovelty(req[r].target)
    BY <1>3, <1>4 DEF CommitCreateNovelty, Lifecycle!AddNovelty
  <2> QED BY <2>1, <2>2 DEF Lifecycle!Next
<1>5. CASE CommitRemoveNovelty(r)
  <2>1. Lifecycle!RemoveNovelty(req[r].target) /\ req[r].target \in novelties
    BY <1>3, <1>5 DEF CommitRemoveNovelty, Lifecycle!RemoveNovelty
  <2> QED BY <2>1 DEF Lifecycle!Next
<1> QED BY <1>4, <1>5

\* The concurrent requests, with their stale reads, lost claims and rollbacks,
\* implement the lifecycle in which each operation is one atomic step.
THEOREM Refinement == Spec => ImplementsLifecycle
<1>1. Init => Lifecycle!Init
  BY InitRefines
<1>2. ASSUME Inv, [Next]_vars
      PROVE  [Lifecycle!Next]_(Lifecycle!vars)
  <2>1. ASSUME NEW r \in Requests, Commit(r) PROVE Lifecycle!Next
    BY <1>2, <2>1, CalculateRefines, MoveRefines, NoveltyRefines DEF Commit
  <2>2. CASE Next /\ ~(\E r \in Requests : Commit(r))
    BY <2>2, OnlyCommitsWrite DEF Lifecycle!vars
  <2>3. CASE UNCHANGED vars
    BY <2>3 DEF vars, Lifecycle!vars
  <2> QED BY <1>2, <2>1, <2>2, <2>3
<1> QED BY <1>1, <1>2, InvHolds, PTL DEF Spec, ImplementsLifecycle, Lifecycle!Spec
=============================================================================
