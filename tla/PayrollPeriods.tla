--------------------------- MODULE PayrollPeriods ---------------------------
(***************************************************************************)
(* The lifecycle of one payroll period under concurrent HTTP requests.     *)
(*                                                                         *)
(* A request is a process.  It reads the period, then whatever else its    *)
(* use case needs, each read seeing the rows committed at that moment      *)
(* (PostgreSQL READ COMMITTED), and only then opens one transaction.  The  *)
(* transaction starts with a claim: an updateMany on the period row that   *)
(* matches the version read at the start.  From the claim to the commit    *)
(* the request holds the row lock; another claim waits for it and is then  *)
(* evaluated on the committed row.                                         *)
(*                                                                         *)
(* Requests   identities of concurrent requests; a request that ends may   *)
(*            start again as another call or a retry                       *)
(* Employees  the company's collaborators, hired or not yet                *)
(* RuleSets   published rule sets the period may be calculated with        *)
(* Accruing   the employees with accruedDays > 0 for the period; it        *)
(*            matters for SEVERANCE and BONUS only                         *)
(* Types      the payroll types considered, among the program's             *)
(* MaxVersion the bound of the version column: an increment beyond it is   *)
(*            an error of the database and rolls the transaction back      *)
(***************************************************************************)
EXTENDS Integers, Sequences

CONSTANTS Requests, Employees, RuleSets, Accruing, Types, MaxVersion, None

PeriodicTypes == {"MONTHLY", "SEMIMONTHLY", "WEEKLY", "BIWEEKLY"}
AccrualTypes == {"SEVERANCE", "BONUS"}
PayrollTypes == PeriodicTypes \cup AccrualTypes \cup {"TERMINATION", "EXTRAORDINARY"}

ASSUME PayrollAssumption ==
    /\ Types \subseteq PayrollTypes
    /\ Accruing \subseteq Employees
    /\ None \notin Requests \cup Employees \cup RuleSets
    /\ MaxVersion \in Nat

VARIABLES
    payrollType, \* the period's type, which nothing updates
    period,      \* the rest of the PayrollPeriod row
    items,       \* its PayrollItem rows, each with its concepts
    novelties,   \* its PayrollNovelty rows
    employees,   \* Employee.status
    audit,       \* the AuditLog rows of the period, in commit order
    rowLock,     \* the request whose transaction holds the period's row lock
    req          \* what each request is doing and what it has read

vars == <<payrollType, period, items, novelties, employees, audit, rowLock, req>>

-----------------------------------------------------------------------------
Statuses == {"DRAFT", "COLLECTING_NOVELTIES", "CALCULATED", "APPROVED", "CLOSED", "REOPENED"}
EmployeeStatuses == {"ABSENT", "ACTIVE", "INACTIVE"}

CalculableStatuses == {"DRAFT", "COLLECTING_NOVELTIES", "CALCULATED", "REOPENED"}
NoveltyMutableStatuses == {"DRAFT", "COLLECTING_NOVELTIES", "CALCULATED", "REOPENED"}

UsesRuleSet == payrollType \in PeriodicTypes
LoadsNovelties == payrollType \notin AccrualTypes

Active == {e \in Employees : employees[e] = "ACTIVE"}

\* A novelty is identified by the version its creation gave the period.
Novelty == [id : Nat, employee : Employees]

\* An item is identified by the version its calculation gave the period.
Item == [calc : Nat, employee : Employees, novelties : SUBSET Novelty,
         rules : RuleSets \cup {None}]

\* A timestamp column, with the user column set along with it.
Stamp == {"null", "set"}

Period == [status : Statuses, version : Nat, pin : RuleSets \cup {None},
           approvedAt : Stamp, closedAt : Stamp]

AuditEntry == [status : Statuses, version : Nat]

Operations == {"CALCULATE", "APPROVE", "CLOSE", "REOPEN", "CREATE_NOVELTY", "REMOVE_NOVELTY"}
Steps == {"idle", "period", "employees", "rules", "items", "novelties", "transaction", "claimed"}

Request == [pc : Steps, op : Operations \cup {None}, read : Period \cup {None},
            team : SUBSET Employees, rules : RuleSets \cup {None},
            seen : SUBSET Item, loaded : SUBSET Novelty,
            target : Employees \cup Novelty \cup {None}]

Idle == [pc |-> "idle", op |-> None, read |-> None, team |-> {}, rules |-> None,
         seen |-> {}, loaded |-> {}, target |-> None]

TypeOK ==
    /\ payrollType \in Types
    /\ period \in Period
    /\ items \in SUBSET Item
    /\ novelties \in SUBSET Novelty
    /\ employees \in [Employees -> EmployeeStatuses]
    /\ audit \in Seq(AuditEntry)
    /\ rowLock \in Requests \cup {None}
    /\ req \in [Requests -> Request]

-----------------------------------------------------------------------------
Init ==
    /\ payrollType \in Types
    /\ period = [status |-> "DRAFT", version |-> 0, pin |-> None,
                 approvedAt |-> "null", closedAt |-> "null"]
    /\ items = {}
    /\ novelties = {}
    /\ employees \in [Employees -> {"ABSENT", "ACTIVE"}]
    /\ audit = <<>>
    /\ rowLock = None
    /\ req = [r \in Requests |-> Idle]

-----------------------------------------------------------------------------
(* Before the transaction: reads of committed rows, no lock.               *)

ReadsOnly == UNCHANGED <<payrollType, period, items, novelties, employees, audit, rowLock>>

\* The first read of a calculation, approval, close or reopening; a period in
\* another status is rejected at once.
Begin(r, op, allowed) ==
    /\ req[r].pc = "idle"
    /\ period.status \in allowed
    /\ req' = [req EXCEPT ![r] = [Idle EXCEPT
                  !.pc = IF op = "CALCULATE" THEN "employees" ELSE "transaction",
                  !.op = op, !.read = period]]
    /\ ReadsOnly

BeginCalculate(r) == Begin(r, "CALCULATE", CalculableStatuses)
BeginApprove(r) == Begin(r, "APPROVE", {"CALCULATED"})
BeginClose(r) == Begin(r, "CLOSE", {"APPROVED"})
BeginReopen(r) == Begin(r, "REOPEN", {"CLOSED"})

\* A novelty is created for an employee found ACTIVE ...
BeginCreateNovelty(r) ==
    /\ req[r].pc = "idle"
    /\ \E e \in Active :
          req' = [req EXCEPT ![r] = [Idle EXCEPT
                     !.pc = "period", !.op = "CREATE_NOVELTY", !.target = e]]
    /\ ReadsOnly

\* ... and removed once it has been found.
BeginRemoveNovelty(r) ==
    /\ req[r].pc = "idle"
    /\ \E n \in novelties :
          req' = [req EXCEPT ![r] = [Idle EXCEPT
                     !.pc = "period", !.op = "REMOVE_NOVELTY", !.target = n]]
    /\ ReadsOnly

\* The period is read after the employee or the novelty it belongs with.
ReadPeriodForNovelty(r) ==
    /\ req[r].pc = "period"
    /\ req' = [req EXCEPT ![r] =
                  IF period.status \in NoveltyMutableStatuses
                  THEN [@ EXCEPT !.pc = "transaction", !.read = period]
                  ELSE Idle]
    /\ ReadsOnly

\* Mutant: a company with no active employee is calculated all the same.
ReadEmployeesAllowingNone(r) ==
    /\ req[r].pc = "employees"
    /\ req' = [req EXCEPT ![r].pc = IF UsesRuleSet THEN "rules" ELSE "items",
                          ![r].team = Active]
    /\ ReadsOnly

ReadEmployees(r) ==
    /\ req[r].pc = "employees"
    /\ req' = [req EXCEPT ![r] =
                  IF Active = {} THEN Idle
                  ELSE [@ EXCEPT !.pc = IF UsesRuleSet THEN "rules" ELSE "items",
                                 !.team = Active]]
    /\ ReadsOnly

\* Mutant: a recalculation selects the rules of the day again.
SelectableIgnoringPin(pin) == RuleSets

\* The pinned rule set is used again; an unpinned period takes the one the
\* selection policy resolves, which this module leaves open.
Selectable(pin) == IF pin = None THEN RuleSets ELSE {pin}

SelectRules(r) ==
    /\ req[r].pc = "rules"
    /\ \E s \in Selectable(req[r].read.pin) :
          req' = [req EXCEPT ![r].pc = "items", ![r].rules = s]
    /\ ReadsOnly

ReadItems(r) ==
    /\ req[r].pc = "items"
    /\ req' = [req EXCEPT ![r].pc = IF LoadsNovelties THEN "novelties" ELSE "transaction",
                          ![r].seen = items]
    /\ ReadsOnly

ReadNovelties(r) ==
    /\ req[r].pc = "novelties"
    /\ req' = [req EXCEPT ![r].pc = "transaction",
                          ![r].loaded = {n \in novelties : n.employee \in req[r].team}]
    /\ ReadsOnly

-----------------------------------------------------------------------------
(* The transaction.                                                        *)

\* Mutant: a CALCULATED period no longer accepts a change of its novelties.
ClaimableStatusesForgettingCalculated(op) ==
    CASE op = "CALCULATE" -> CalculableStatuses
      [] op = "APPROVE" -> {"CALCULATED"}
      [] op = "CLOSE" -> {"APPROVED"}
      [] op = "REOPEN" -> {"CLOSED"}
      [] OTHER -> NoveltyMutableStatuses \ {"CALCULATED"}

\* The where clause of the claim.
ClaimableStatuses(op) ==
    CASE op = "CALCULATE" -> CalculableStatuses
      [] op = "APPROVE" -> {"CALCULATED"}
      [] op = "CLOSE" -> {"APPROVED"}
      [] op = "REOPEN" -> {"CLOSED"}
      [] OTHER -> NoveltyMutableStatuses

\* Mutants: the claim checks the status alone, or only that the period exists.
ClaimMatchesStatusOnly(r) == period.status \in ClaimableStatuses(req[r].op)
ClaimMatchesById(r) == TRUE

ClaimMatches(r) ==
    /\ period.version = req[r].read.version
    /\ period.status \in ClaimableStatuses(req[r].op)

\* The update matches one row and takes its lock.
Claim(r) ==
    /\ req[r].pc = "transaction"
    /\ rowLock = None
    /\ ClaimMatches(r)
    /\ period.version < MaxVersion
    /\ rowLock' = r
    /\ req' = [req EXCEPT ![r].pc = "claimed"]
    /\ UNCHANGED <<payrollType, period, items, novelties, employees, audit>>

\* The update matches no row, or the increment overflows the column.
ClaimFails(r) ==
    /\ req[r].pc = "transaction"
    /\ rowLock = None
    /\ ~ClaimMatches(r) \/ period.version >= MaxVersion
    /\ req' = [req EXCEPT ![r] = Idle]
    /\ ReadsOnly

\* Mutant: a connection returned to its pool with the row still locked.
ReleaseKeepingLock(r) ==
    /\ req' = [req EXCEPT ![r] = Idle]
    /\ UNCHANGED <<payrollType, employees, rowLock>>

\* The end of every transaction, with or without its writes.
Release(r) ==
    /\ rowLock' = None
    /\ req' = [req EXCEPT ![r] = Idle]
    /\ UNCHANGED <<payrollType, employees>>

Claimed(r, op) == req[r].pc = "claimed" /\ req[r].op = op

\* The row audited with the version it was given.
Log(status, version) ==
    audit' = Append(audit, [status |-> status, version |-> version])

\* The items of a calculation that gives the period version v.
Paid(team) == IF LoadsNovelties THEN team ELSE team \cap Accruing

Payroll(team, loaded, rules, v) ==
    {[calc |-> v, employee |-> e, rules |-> rules,
      novelties |-> {n \in loaded : n.employee = e}] : e \in Paid(team)}

\* Mutant: the rule set a period was calculated with is not recorded.
CommitCalculateUnpinned(r) ==
    LET q == req[r] IN
    /\ Claimed(r, "CALCULATE")
    /\ period' = [period EXCEPT !.status = "CALCULATED", !.version = @ + 1]
    /\ items' = (items \ q.seen) \cup Payroll(q.team, q.loaded, q.rules, period.version + 1)
    /\ Log("CALCULATED", q.read.version + 1)
    /\ Release(r)
    /\ UNCHANGED novelties

\* The items deleted are the ones seen before the transaction was opened, and
\* the version logged is computed from the one read there.
CommitCalculate(r) ==
    LET q == req[r] IN
    /\ Claimed(r, "CALCULATE")
    /\ period' = [period EXCEPT !.status = "CALCULATED", !.version = @ + 1,
                                !.pin = IF q.rules = None THEN @ ELSE q.rules]
    /\ items' = (items \ q.seen) \cup Payroll(q.team, q.loaded, q.rules, period.version + 1)
    /\ Log("CALCULATED", q.read.version + 1)
    /\ Release(r)
    /\ UNCHANGED novelties

CommitApprove(r) ==
    /\ Claimed(r, "APPROVE")
    /\ period' = [period EXCEPT !.status = "APPROVED", !.version = @ + 1, !.approvedAt = "set"]
    /\ Log("APPROVED", period.version + 1)
    /\ Release(r)
    /\ UNCHANGED <<items, novelties>>

CommitClose(r) ==
    /\ Claimed(r, "CLOSE")
    /\ period' = [period EXCEPT !.status = "CLOSED", !.version = @ + 1, !.closedAt = "set"]
    /\ Log("CLOSED", period.version + 1)
    /\ Release(r)
    /\ UNCHANGED <<items, novelties>>

\* Mutant: a reopened period still says when it was closed.
CommitReopenKeepingStamp(r) ==
    /\ Claimed(r, "REOPEN")
    /\ period' = [period EXCEPT !.status = "REOPENED", !.version = @ + 1]
    /\ Log("REOPENED", period.version + 1)
    /\ Release(r)
    /\ UNCHANGED <<items, novelties>>

\* The approval and the items outlive the reopening.
CommitReopen(r) ==
    /\ Claimed(r, "REOPEN")
    /\ period' = [period EXCEPT !.status = "REOPENED", !.version = @ + 1, !.closedAt = "null"]
    /\ Log("REOPENED", period.version + 1)
    /\ Release(r)
    /\ UNCHANGED <<items, novelties>>

\* Mutants: the calculated items survive the change, or the version stays.
PrepareKeepingItems(r) ==
    /\ period' = [period EXCEPT !.status = "COLLECTING_NOVELTIES", !.version = @ + 1]
    /\ Log("COLLECTING_NOVELTIES", req[r].read.version + 1)
    /\ UNCHANGED items

PrepareKeepingVersion(r) ==
    /\ period' = [period EXCEPT !.status = "COLLECTING_NOVELTIES"]
    /\ items' = {}
    /\ Log("COLLECTING_NOVELTIES", req[r].read.version + 1)

\* Every item of the period is read again in the transaction and deleted.
PreparePeriodForNoveltyMutation(r) ==
    /\ period' = [period EXCEPT !.status = "COLLECTING_NOVELTIES", !.version = @ + 1]
    /\ items' = {}
    /\ Log("COLLECTING_NOVELTIES", req[r].read.version + 1)

CommitCreateNovelty(r) ==
    /\ Claimed(r, "CREATE_NOVELTY")
    /\ PreparePeriodForNoveltyMutation(r)
    /\ novelties' = novelties \cup {[id |-> period.version + 1, employee |-> req[r].target]}
    /\ Release(r)

CommitRemoveNovelty(r) ==
    /\ Claimed(r, "REMOVE_NOVELTY")
    /\ req[r].target \in novelties
    /\ PreparePeriodForNoveltyMutation(r)
    /\ novelties' = novelties \ {req[r].target}
    /\ Release(r)

\* Mutant: the audit record is written outside the transaction.
RollbackKeepingAudit(r) ==
    /\ req[r].pc = "claimed"
    /\ Log("CALCULATED", req[r].read.version + 1)
    /\ Release(r)
    /\ UNCHANGED <<period, items, novelties>>

\* The transaction rolls back: the novelty to delete is gone, a write or the
\* audit record fails, the transaction times out or the process dies.
Rollback(r) ==
    /\ req[r].pc = "claimed"
    /\ Release(r)
    /\ UNCHANGED <<period, items, novelties, audit>>

\* The request ends before its transaction: a read fails, no rule set is
\* published for the period, the process dies.
Abandon(r) ==
    /\ req[r].pc \notin {"idle", "claimed"}
    /\ req' = [req EXCEPT ![r] = Idle]
    /\ ReadsOnly

-----------------------------------------------------------------------------
(* Employees change without touching the period.                           *)

Hire(e) ==
    /\ employees[e] = "ABSENT"
    /\ employees' = [employees EXCEPT ![e] = "ACTIVE"]
    /\ UNCHANGED <<payrollType, period, items, novelties, audit, rowLock, req>>

Deactivate(e) ==
    /\ employees[e] = "ACTIVE"
    /\ employees' = [employees EXCEPT ![e] = "INACTIVE"]
    /\ UNCHANGED <<payrollType, period, items, novelties, audit, rowLock, req>>

-----------------------------------------------------------------------------
Start(r) ==
    \/ BeginCalculate(r)
    \/ BeginApprove(r)
    \/ BeginClose(r)
    \/ BeginReopen(r)
    \/ BeginCreateNovelty(r)
    \/ BeginRemoveNovelty(r)

Read(r) ==
    \/ ReadPeriodForNovelty(r)
    \/ ReadEmployees(r)
    \/ SelectRules(r)
    \/ ReadItems(r)
    \/ ReadNovelties(r)

Commit(r) ==
    \/ CommitCalculate(r)
    \/ CommitApprove(r)
    \/ CommitClose(r)
    \/ CommitReopen(r)
    \/ CommitCreateNovelty(r)
    \/ CommitRemoveNovelty(r)

Next ==
    \/ \E r \in Requests :
          Start(r) \/ Read(r) \/ Claim(r) \/ ClaimFails(r) \/ Commit(r) \/ Rollback(r) \/ Abandon(r)
    \/ \E e \in Employees : Hire(e) \/ Deactivate(e)

Spec == Init /\ [][Next]_vars

\* A request that is reading goes on, and a transaction ends: it commits or,
\* by the client's timeout at the latest, rolls back.  The database queues the
\* claims waiting for a row lock, so a claim is not passed over for ever.  No
\* request is assumed to give up while it waits for the lock.
Fairness ==
    \A r \in Requests :
        /\ WF_vars(Read(r) \/ (req[r].pc # "transaction" /\ Abandon(r)))
        /\ WF_vars(Commit(r) \/ Rollback(r))
        /\ SF_vars(Claim(r) \/ ClaimFails(r))

FairSpec == Spec /\ Fairness

-----------------------------------------------------------------------------
(* Properties.                                                             *)

\* No employee is paid twice by one period, and all its items come from one
\* calculation.  Nothing in the database forbids it (PayrollItem has no unique
\* key), and a calculation deletes only the items it saw before its
\* transaction: two recalculations could each leave theirs behind.
OnePayrollPerPeriod ==
    \A i, j \in items : i.calc = j.calc /\ (i.employee = j.employee => i = j)

\* What is calculated, approved, closed or reopened has priced exactly the
\* novelties the period has, and a period still collecting novelties has no
\* items.  The calculation reads the novelties long before it writes.
ItemsPriceTheNovelties ==
    /\ period.status \in {"DRAFT", "COLLECTING_NOVELTIES"} => items = {}
    /\ \A i \in items :
          i.novelties = IF LoadsNovelties THEN {n \in novelties : n.employee = i.employee} ELSE {}

\* The items were calculated with the rule set the period is pinned to, and a
\* periodic payroll is pinned as soon as it has been calculated.
ItemsUseThePin ==
    /\ \A i \in items : i.rules = period.pin
    /\ UsesRuleSet /\ period.status \in {"CALCULATED", "APPROVED", "CLOSED", "REOPENED"}
          => period.pin # None

\* A payroll can be approved, closed or reopened only with the items of a
\* calculation, whatever races lead there.  A BONUS or SEVERANCE payroll in
\* which nobody has accrued a day is calculated without any.
CalculatedHasItems ==
    LoadsNovelties /\ period.status \in {"CALCULATED", "APPROVED", "CLOSED", "REOPENED"}
        => items # {}

\* The version stands for everything a request has read: as long as it has not
\* moved, the status, the pin, the items and the novelties are still those the
\* request read, each in a query of its own.
VersionGuardsWhatWasRead ==
    \A r \in Requests :
        LET q == req[r] IN
        q.read # None /\ q.read.version = period.version =>
            /\ q.read = period
            /\ q.op = "CALCULATE" /\ q.pc \in {"novelties", "transaction", "claimed"}
                  => q.seen = items
            /\ q.op = "CALCULATE" /\ q.pc \in {"transaction", "claimed"} /\ LoadsNovelties
                  => q.loaded = {n \in novelties : n.employee \in q.team}

\* The audit trail has one record for each version the period has had, in
\* order, and ends in the period's status: no change escapes it, and the
\* versions it states, computed by some handlers from a stale read, are the
\* versions the period was really given.
AuditTellsTheHistory ==
    /\ Len(audit) = period.version
    /\ \A k \in 1..Len(audit) : audit[k].version = k
    /\ audit # <<>> => audit[Len(audit)].status = period.status

\* A period carries a closing stamp exactly while it is CLOSED and an approval
\* stamp at least from its approval to its recalculation.
StampsFollowTheStatus ==
    /\ period.closedAt = "set" <=> period.status = "CLOSED"
    /\ period.status \in {"APPROVED", "CLOSED", "REOPENED"} => period.approvedAt = "set"

\* From the approval until the period is reopened nothing that was approved
\* changes, whatever the requests that read it before the approval still do.
ApprovedIsFrozen ==
    [][period.status \in {"APPROVED", "CLOSED"}
          => UNCHANGED <<items, novelties>> /\ period'.pin = period.pin]_vars

\* A period never changes the rule set it was calculated with, although two
\* calculations of an unpinned period may have selected different ones.
PinIsNeverReplaced ==
    [][period.pin # None => period'.pin = period.pin]_vars

\* A committed change of the period, its items or its novelties is one step of
\* the version; a version never stands for two contents.
EveryChangeHasItsVersion ==
    [][<<period, items, novelties, audit>>' # <<period, items, novelties, audit>>
          => period'.version = period.version + 1]_vars

\* A request loses its claim only to another request that committed since it
\* read the period (or to the limit of the version column): of the requests
\* that read the same version one can always go through.
ConflictsAreReal ==
    [][\A r \in Requests :
          req[r].pc = "transaction" /\ ClaimFails(r)
             => period.version > req[r].read.version \/ period.version >= MaxVersion]_vars

\* Every request ends, so no transaction keeps the period locked for ever.
RequestsEnd == \A r \in Requests : req[r].pc # "idle" ~> req[r].pc = "idle"

\* The concurrent requests implement the lifecycle in which each runs alone.
Lifecycle ==
    INSTANCE PayrollLifecycle WITH
        status <- period.status, version <- period.version, pin <- period.pin

ImplementsLifecycle == Lifecycle!Spec
=============================================================================
