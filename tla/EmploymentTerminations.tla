----------------------- MODULE EmploymentTerminations -----------------------
(***************************************************************************)
(* The settlement of employees who leave: EmploymentTerminationsService,   *)
(* with EmployeesService.remove, which deactivates an employee too.        *)
(*                                                                         *)
(* Requests are processes, as in PayrollPeriods: committed rows are read   *)
(* one query at a time and a transaction begins by claiming its row.  Here *)
(* the claims differ from handler to handler: a calculation matches status *)
(* and version, an approval too but without advancing the version, and a   *)
(* closing matches the status alone and then claims the employee's row.    *)
(* Opening a termination checks first and inserts afterwards, with no      *)
(* transaction and no unique key.                                          *)
(*                                                                         *)
(* Terminations  identities of the rows that may be created                *)
(* Inputs        what the caller of a calculation supplies (the start of   *)
(*               the unpaid salary and the pending vacation days)          *)
(* MaxVersion    the bound of the version column                           *)
(***************************************************************************)
EXTENDS Integers, FiniteSets

CONSTANTS Requests, Employees, Terminations, RuleSets, Inputs, MaxVersion, None

VARIABLES
    employees,     \* Employee.status
    terminations,  \* the EmploymentTermination rows
    concepts,      \* the EmploymentTerminationConcept rows of each termination
    audit,         \* the AuditLog rows of the terminations
    rowLock,       \* who holds the lock of each termination's row
    employeeLock,  \* who holds the lock of each employee's row
    req            \* what each request is doing and what it has read

vars == <<employees, terminations, concepts, audit, rowLock, employeeLock, req>>

-----------------------------------------------------------------------------
ActiveStatuses == {"DRAFT", "CALCULATED", "APPROVED"}
CalculableStatuses == {"DRAFT", "CALCULATED"}
Actions == {"CREATE", "CALCULATE", "APPROVE", "CLOSE"}

\* What was settled: the inputs and the rules the amounts were computed from.
Settlement == [input : Inputs, rules : RuleSets]

Termination == [employee : Employees, status : ActiveStatuses \cup {"CLOSED"}, version : Nat,
                pin : RuleSets \cup {None}, totals : Settlement \cup {None}]

ASSUME TerminationAssumption ==
    /\ None \notin Requests \cup Employees \cup Terminations \cup RuleSets \cup Inputs
    /\ None \notin Settlement \cup Termination
    /\ MaxVersion \in Nat

AuditEntry == [id : Terminations, action : Actions, version : Nat]

Steps == {"idle", "check", "insert", "audit", "rules", "transaction", "claimed", "settling"}

Request == [pc : Steps, op : Actions \cup {None}, id : Terminations \cup {None},
            employee : Employees \cup {None}, read : Termination \cup {None},
            input : Inputs \cup {None}, rules : RuleSets \cup {None}]

Idle == [pc |-> "idle", op |-> None, id |-> None, employee |-> None, read |-> None,
         input |-> None, rules |-> None]

TypeOK ==
    /\ employees \in [Employees -> {"ACTIVE", "INACTIVE"}]
    /\ terminations \in [Terminations -> Termination \cup {None}]
    /\ concepts \in [Terminations -> SUBSET Settlement]
    /\ audit \in SUBSET AuditEntry
    /\ rowLock \in [Terminations -> Requests \cup {None}]
    /\ employeeLock \in [Employees -> Requests \cup {None}]
    /\ req \in [Requests -> Request]

Created == {t \in Terminations : terminations[t] # None}

Init ==
    /\ employees = [e \in Employees |-> "ACTIVE"]
    /\ terminations = [t \in Terminations |-> None]
    /\ concepts = [t \in Terminations |-> {}]
    /\ audit = {}
    /\ rowLock = [t \in Terminations |-> None]
    /\ employeeLock = [e \in Employees |-> None]
    /\ req = [r \in Requests |-> Idle]

-----------------------------------------------------------------------------
Rows == <<employees, terminations, concepts, audit>>
Locks == <<rowLock, employeeLock>>

Log(t, action, version) ==
    audit' = audit \cup {[id |-> t, action |-> action, version |-> version]}

(* Opening a termination.                                                  *)

BeginCreate(r) ==
    /\ req[r].pc = "idle"
    /\ \E e \in Employees :
          /\ employees[e] = "ACTIVE"
          /\ req' = [req EXCEPT ![r] = [Idle EXCEPT !.pc = "check", !.op = "CREATE", !.employee = e]]
    /\ UNCHANGED <<Rows, Locks>>

HasActiveTermination(e) ==
    \E t \in Created : terminations[t].employee = e /\ terminations[t].status \in ActiveStatuses

CheckActiveTermination(r) ==
    /\ req[r].pc = "check"
    /\ req' = [req EXCEPT ![r] =
                  IF HasActiveTermination(@.employee) THEN Idle ELSE [@ EXCEPT !.pc = "insert"]]
    /\ UNCHANGED <<Rows, Locks>>

InsertTermination(r) ==
    /\ req[r].pc = "insert"
    /\ \E t \in Terminations \ Created :
          /\ terminations' = [terminations EXCEPT ![t] =
                [employee |-> req[r].employee, status |-> "DRAFT", version |-> 0,
                 pin |-> None, totals |-> None]]
          /\ req' = [req EXCEPT ![r].pc = "audit", ![r].id = t]
    /\ UNCHANGED <<employees, concepts, audit, Locks>>

\* The record is a write of its own, after the row is there.
AuditCreation(r) ==
    /\ req[r].pc = "audit"
    /\ Log(req[r].id, "CREATE", 0)
    /\ req' = [req EXCEPT ![r] = Idle]
    /\ UNCHANGED <<employees, terminations, concepts, Locks>>

-----------------------------------------------------------------------------
(* Calculating, approving and closing: the reads.                          *)

BeginCalculate(r) ==
    /\ req[r].pc = "idle"
    /\ \E t \in Created, i \in Inputs :
          /\ terminations[t].status \in CalculableStatuses
          /\ req' = [req EXCEPT ![r] = [Idle EXCEPT !.pc = "rules", !.op = "CALCULATE", !.id = t,
                                                   !.read = terminations[t], !.input = i]]
    /\ UNCHANGED <<Rows, Locks>>

Selectable(pin) == IF pin = None THEN RuleSets ELSE {pin}

SelectRules(r) ==
    /\ req[r].pc = "rules"
    /\ \E s \in Selectable(req[r].read.pin) :
          req' = [req EXCEPT ![r].pc = "transaction", ![r].rules = s]
    /\ UNCHANGED <<Rows, Locks>>

BeginApprove(r) ==
    /\ req[r].pc = "idle"
    /\ \E t \in Created :
          /\ terminations[t].status = "CALCULATED"
          /\ terminations[t].totals # None
          /\ req' = [req EXCEPT ![r] = [Idle EXCEPT !.pc = "transaction", !.op = "APPROVE", !.id = t,
                                                   !.read = terminations[t]]]
    /\ UNCHANGED <<Rows, Locks>>

BeginClose(r) ==
    /\ req[r].pc = "idle"
    /\ \E t \in Created :
          /\ terminations[t].status = "APPROVED"
          /\ employees[terminations[t].employee] = "ACTIVE"
          /\ req' = [req EXCEPT ![r] = [Idle EXCEPT !.pc = "transaction", !.op = "CLOSE", !.id = t,
                                                   !.read = terminations[t]]]
    /\ UNCHANGED <<Rows, Locks>>

-----------------------------------------------------------------------------
(* The transactions.                                                       *)

\* Mutants: a calculation claims whatever the status is; nothing compares versions.
ClaimMatchesVersionOnly(r) ==
    LET row == terminations[req[r].id] IN
    CASE req[r].op = "CALCULATE" -> row.version = req[r].read.version
      [] req[r].op = "APPROVE" -> row.status = "CALCULATED" /\ row.version = req[r].read.version
      [] OTHER -> row.status = "APPROVED"

ClaimMatchesStatusOnly(r) ==
    LET row == terminations[req[r].id] IN
    CASE req[r].op = "CALCULATE" -> row.status \in CalculableStatuses
      [] req[r].op = "APPROVE" -> row.status = "CALCULATED"
      [] OTHER -> row.status = "APPROVED"

\* The where clauses of the claims on the termination.
ClaimMatches(r) ==
    LET row == terminations[req[r].id] IN
    CASE req[r].op = "CALCULATE" ->
            row.status \in CalculableStatuses /\ row.version = req[r].read.version
      [] req[r].op = "APPROVE" -> row.status = "CALCULATED" /\ row.version = req[r].read.version
      [] OTHER -> row.status = "APPROVED"

Overflows(r) == req[r].op = "CALCULATE" /\ terminations[req[r].id].version >= MaxVersion

Claim(r) ==
    /\ req[r].pc = "transaction"
    /\ rowLock[req[r].id] = None
    /\ ClaimMatches(r) /\ ~Overflows(r)
    /\ rowLock' = [rowLock EXCEPT ![req[r].id] = r]
    /\ req' = [req EXCEPT ![r].pc = "claimed"]
    /\ UNCHANGED <<Rows, employeeLock>>

ClaimFails(r) ==
    /\ req[r].pc = "transaction"
    /\ rowLock[req[r].id] = None
    /\ ~ClaimMatches(r) \/ Overflows(r)
    /\ req' = [req EXCEPT ![r] = Idle]
    /\ UNCHANGED <<Rows, Locks>>

\* The end of every transaction: all its row locks are released.
Release(r) ==
    /\ rowLock' = [t \in Terminations |-> IF rowLock[t] = r THEN None ELSE rowLock[t]]
    /\ employeeLock' = [e \in Employees |-> IF employeeLock[e] = r THEN None ELSE employeeLock[e]]
    /\ req' = [req EXCEPT ![r] = Idle]

\* Mutant: the concepts of an earlier calculation stay.
CommitCalculateAddingConcepts(r) ==
    LET q == req[r]
        settlement == [input |-> q.input, rules |-> q.rules] IN
    /\ q.pc = "claimed" /\ q.op = "CALCULATE"
    /\ terminations' = [terminations EXCEPT
          ![q.id].status = "CALCULATED", ![q.id].version = @ + 1, ![q.id].pin = q.rules,
          ![q.id].totals = settlement]
    /\ concepts' = [concepts EXCEPT ![q.id] = @ \cup {settlement}]
    /\ Log(q.id, "CALCULATE", q.read.version + 1)
    /\ Release(r)
    /\ UNCHANGED employees

\* Totals and concepts are replaced together.
CommitCalculate(r) ==
    LET q == req[r]
        settlement == [input |-> q.input, rules |-> q.rules] IN
    /\ q.pc = "claimed" /\ q.op = "CALCULATE"
    /\ terminations' = [terminations EXCEPT
          ![q.id].status = "CALCULATED", ![q.id].version = @ + 1, ![q.id].pin = q.rules,
          ![q.id].totals = settlement]
    /\ concepts' = [concepts EXCEPT ![q.id] = {settlement}]
    /\ Log(q.id, "CALCULATE", q.read.version + 1)
    /\ Release(r)
    /\ UNCHANGED employees

\* The version stays: from here on the status alone guards the row.
CommitApprove(r) ==
    LET q == req[r] IN
    /\ q.pc = "claimed" /\ q.op = "APPROVE"
    /\ terminations' = [terminations EXCEPT ![q.id].status = "APPROVED"]
    /\ Log(q.id, "APPROVE", q.read.version)
    /\ Release(r)
    /\ UNCHANGED <<employees, concepts>>

\* Mutant: an employee who has already left is settled once more.
ClaimAnyEmployee(r) ==
    LET e == req[r].read.employee IN
    /\ req[r].pc = "claimed" /\ req[r].op = "CLOSE"
    /\ employeeLock[e] = None
    /\ employeeLock' = [employeeLock EXCEPT ![e] = r]
    /\ req' = [req EXCEPT ![r].pc = "settling"]
    /\ UNCHANGED <<Rows, rowLock>>

\* A closing claims the employee's row as well, and waits for whoever holds it.
ClaimEmployee(r) ==
    LET e == req[r].read.employee IN
    /\ req[r].pc = "claimed" /\ req[r].op = "CLOSE"
    /\ employeeLock[e] = None
    /\ employees[e] = "ACTIVE"
    /\ employeeLock' = [employeeLock EXCEPT ![e] = r]
    /\ req' = [req EXCEPT ![r].pc = "settling"]
    /\ UNCHANGED <<Rows, rowLock>>

\* The employee has left: the claim matches no row and the closing rolls back.
ClaimEmployeeFails(r) ==
    LET e == req[r].read.employee IN
    /\ req[r].pc = "claimed" /\ req[r].op = "CLOSE"
    /\ employeeLock[e] = None
    /\ employees[e] # "ACTIVE"
    /\ Release(r)
    /\ UNCHANGED Rows

\* Mutants: the employee stays ACTIVE; the closing is not audited; the closing
\* updates the employee's other terminations too, for whose rows it has to wait.
CommitCloseKeepingActive(r) ==
    LET q == req[r] IN
    /\ q.pc = "settling"
    /\ terminations' = [terminations EXCEPT ![q.id].status = "CLOSED"]
    /\ Log(q.id, "CLOSE", q.read.version)
    /\ Release(r)
    /\ UNCHANGED <<employees, concepts>>

CommitCloseUnaudited(r) ==
    LET q == req[r] IN
    /\ q.pc = "settling"
    /\ terminations' = [terminations EXCEPT ![q.id].status = "CLOSED"]
    /\ employees' = [employees EXCEPT ![q.read.employee] = "INACTIVE"]
    /\ Release(r)
    /\ UNCHANGED <<concepts, audit>>

CommitCloseLockingOthers(r) ==
    LET q == req[r] IN
    /\ q.pc = "settling"
    /\ \A t \in Created : terminations[t].employee = q.read.employee => rowLock[t] \in {None, r}
    /\ terminations' = [terminations EXCEPT ![q.id].status = "CLOSED"]
    /\ employees' = [employees EXCEPT ![q.read.employee] = "INACTIVE"]
    /\ Log(q.id, "CLOSE", q.read.version)
    /\ Release(r)
    /\ UNCHANGED concepts

CommitClose(r) ==
    LET q == req[r] IN
    /\ q.pc = "settling"
    /\ terminations' = [terminations EXCEPT ![q.id].status = "CLOSED"]
    /\ employees' = [employees EXCEPT ![q.read.employee] = "INACTIVE"]
    /\ Log(q.id, "CLOSE", q.read.version)
    /\ Release(r)
    /\ UNCHANGED concepts

\* A write fails, the transaction times out, the process dies: nothing of the
\* transaction is kept.
Rollback(r) ==
    /\ req[r].pc \in {"claimed", "settling"}
    /\ Release(r)
    /\ UNCHANGED Rows

\* The request ends before its transaction, or between the insertion of a
\* termination and its audit record.
Abandon(r) ==
    /\ req[r].pc \in {"check", "insert", "audit", "rules", "transaction"}
    /\ req' = [req EXCEPT ![r] = Idle]
    /\ UNCHANGED <<Rows, Locks>>

\* EmployeesService.remove: one update that looks at no termination.  It waits
\* for a closing that holds the row.
RemoveEmployee(e) ==
    /\ employees[e] = "ACTIVE"
    /\ employeeLock[e] = None
    /\ employees' = [employees EXCEPT ![e] = "INACTIVE"]
    /\ UNCHANGED <<terminations, concepts, audit, Locks, req>>

-----------------------------------------------------------------------------
Read(r) ==
    \/ CheckActiveTermination(r)
    \/ InsertTermination(r)
    \/ AuditCreation(r)
    \/ SelectRules(r)

Commit(r) ==
    \/ CommitCalculate(r)
    \/ CommitApprove(r)
    \/ CommitClose(r)

Next ==
    \/ \E r \in Requests :
          \/ BeginCreate(r) \/ BeginCalculate(r) \/ BeginApprove(r) \/ BeginClose(r)
          \/ Read(r) \/ Claim(r) \/ ClaimFails(r) \/ ClaimEmployee(r) \/ ClaimEmployeeFails(r)
          \/ Commit(r) \/ Rollback(r) \/ Abandon(r)
    \/ \E e \in Employees : RemoveEmployee(e)

Spec == Init /\ [][Next]_vars

\* A request that waits for nobody goes on, a transaction that has its locks is
\* committed unless something fails, and the database serves the requests queued
\* for a row lock.  No rollback is fair: what waits is not assumed to give up.
Fairness ==
    \A r \in Requests :
        /\ WF_vars(Read(r) \/ (req[r].pc # "transaction" /\ Abandon(r)))
        /\ WF_vars(Commit(r))
        /\ SF_vars(Claim(r) \/ ClaimFails(r))
        /\ SF_vars(ClaimEmployee(r) \/ ClaimEmployeeFails(r))

FairSpec == Spec /\ Fairness

-----------------------------------------------------------------------------
(* Properties.                                                             *)

\* The concepts a termination lists are those of the calculation its totals
\* and its pinned rule set come from, also after two calculations raced.
ConceptsMatchTotals ==
    \A t \in Created :
        IF terminations[t].totals = None
        THEN concepts[t] = {} /\ terminations[t].pin = None
        ELSE concepts[t] = {terminations[t].totals}
             /\ terminations[t].pin = terminations[t].totals.rules

\* An employee is settled once: although two terminations of one employee can
\* be open at the same time, only one of them can ever be CLOSED.
SettledOnce ==
    \A t, u \in Created :
        terminations[t].status = "CLOSED" /\ terminations[u].status = "CLOSED"
        /\ terminations[t].employee = terminations[u].employee => t = u

\* A closed termination has deactivated its employee in the same transaction.
ClosedMeansInactive ==
    \A t \in Created :
        terminations[t].status = "CLOSED" => employees[terminations[t].employee] = "INACTIVE"

\* What was calculated, approved and closed has its audit records, with the
\* version the row has.
TransitionsAreAudited ==
    \A t \in Created :
        LET row == terminations[t]
            Logged(action) == [id |-> t, action |-> action, version |-> row.version] \in audit IN
        /\ row.status \in {"CALCULATED", "APPROVED", "CLOSED"} => Logged("CALCULATE")
        /\ row.status \in {"APPROVED", "CLOSED"} => Logged("APPROVE")
        /\ row.status = "CLOSED" => Logged("CLOSE")

\* An approved termination keeps its amounts, although approving leaves the
\* version a calculation in progress will compare.
ApprovedIsFinal ==
    [][\A t \in Created : terminations[t].status \in {"APPROVED", "CLOSED"} =>
          /\ terminations'[t].totals = terminations[t].totals
          /\ concepts'[t] = concepts[t]
          /\ terminations'[t].status \in {"APPROVED", "CLOSED"}
          /\ terminations[t].status = "CLOSED" => terminations'[t].status = "CLOSED"]_vars

\* What is approved is the calculation the approving request found: a
\* recalculation in between takes the approval back.
ApprovalIsOfWhatWasRead ==
    [][\A r \in Requests : CommitApprove(r) =>
          req[r].read.totals = terminations[req[r].id].totals]_vars

\* A termination keeps the rule set of its first calculation.
PinIsNeverReplaced ==
    [][\A t \in Created : terminations[t].pin # None =>
          terminations'[t].pin = terminations[t].pin]_vars

\* Every request ends without a timeout's help: closings, which take the locks
\* of two rows, never wait for each other in a circle.
RequestsEnd == \A r \in Requests : req[r].pc # "idle" ~> req[r].pc = "idle"

\* The message of create says that an employee with a termination in progress
\* gets no second one: "El colaborador ya tiene un proceso de terminacion
\* activo".  Two requests can both pass the check.
OneActiveTermination ==
    \A t, u \in Created :
        terminations[t].status \in ActiveStatuses /\ terminations[u].status \in ActiveStatuses
        /\ terminations[t].employee = terminations[u].employee => t = u
=============================================================================
