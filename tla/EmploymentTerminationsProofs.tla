-------------------- MODULE EmploymentTerminationsProofs --------------------
(***************************************************************************)
(* Proofs about EmploymentTerminations, for any number of requests,        *)
(* employees and terminations and any bound of the version.                *)
(*                                                                         *)
(* The inductive invariant says what a request still knows of the rows it  *)
(* has read: RequestOK.  A request without a lock knows that the row was   *)
(* at most as new as it is now, and that a row of the same version has the *)
(* same amounts; one that holds the row's lock knows that the claim's      *)
(* where clause still holds; one that holds the employee's lock too, that  *)
(* the employee is still ACTIVE.                                           *)
(*                                                                         *)
(* Every action preserves it for the request that moves, by a lemma of its *)
(* own, and for the others by OthersKeepOrder: a transaction changes no    *)
(* row but those it has locked, and a row only by a RowStep.               *)
(***************************************************************************)
EXTENDS EmploymentTerminations, TLAPS

Final == {"APPROVED", "CLOSED"}

Working(q) == q.pc \in {"rules", "transaction", "claimed", "settling"}

\* What a request has read of its termination is an earlier state of the row.
\* A closing has read an approved one, whose version stays.
ReadOK(q) ==
    LET row == terminations[q.id] IN
    /\ q.id \in Created
    /\ q.read \in Termination
    /\ q.read.employee = row.employee
    /\ q.read.version =< row.version
    /\ q.read.version = row.version => q.read.pin = row.pin /\ q.read.totals = row.totals
    /\ q.op = "CLOSE" => q.read.version = row.version /\ row.status \in Final

\* What a calculation has chosen does not replace the pin it has read.
ChoiceOK(q) ==
    q.op = "CALCULATE" =>
        /\ q.input \in Inputs
        /\ q.pc # "rules" => q.rules \in RuleSets /\ q.read.pin \in {None, q.rules}

RequestOK(r) ==
    LET q == req[r] IN
    /\ q.pc \in {"check", "insert"} => q.employee \in Employees
    /\ q.pc = "audit" => q.id \in Terminations
    /\ q.pc = "rules" => q.op = "CALCULATE"
    /\ q.pc = "settling" => q.op = "CLOSE"
    /\ Working(q) => q.op \in {"CALCULATE", "APPROVE", "CLOSE"} /\ ReadOK(q) /\ ChoiceOK(q)
    /\ q.pc \in {"claimed", "settling"} => rowLock[q.id] = r /\ ClaimMatches(r)
    /\ q.pc = "settling" =>
          employeeLock[q.read.employee] = r /\ employees[q.read.employee] = "ACTIVE"

RequestsOK == \A r \in Requests : RequestOK(r)

NothingBeforeCreation == \A t \in Terminations \ Created : concepts[t] = {}

RowsOK ==
    /\ NothingBeforeCreation
    /\ ConceptsMatchTotals
    /\ SettledOnce
    /\ ClosedMeansInactive
    /\ TransitionsAreAudited

Inv == TypeOK /\ RequestsOK /\ RowsOK

\* How a transaction may change a termination: its version grows, unchanged
\* amounts or not, and an approved row keeps version and approval.
RowStep(t) ==
    LET row == terminations[t]
        new == terminations'[t] IN
    row # None =>
        /\ new # None
        /\ new.employee = row.employee
        /\ row.version =< new.version
        /\ row.version = new.version => new.pin = row.pin /\ new.totals = row.totals
        /\ row.status \in Final => new.version = row.version /\ new.status \in Final

-----------------------------------------------------------------------------
(* What a step leaves of another request's knowledge.                      *)

\* A request that does not move keeps what it knows, if every row makes a
\* RowStep or stays and nothing it has locked changes.
LEMMA OthersKeepOrder ==
    ASSUME TypeOK, TypeOK', NEW x \in Requests, RequestOK(x), req'[x] = req[x],
           \A t \in Terminations : RowStep(t),
           \A t \in Created : rowLock[t] = x =>
               rowLock'[t] = x /\ terminations'[t] = terminations[t],
           \A e \in Employees : employeeLock[e] = x =>
               employeeLock'[e] = x /\ employees'[e] = employees[e]
    PROVE  RequestOK(x)'
<1> DEFINE q == req[x]
<1>1. q \in Request
    BY DEF TypeOK
<1>2. ASSUME Working(q)
      PROVE  ReadOK(req[x])'
    <2>1. ReadOK(q)
        BY <1>2 DEF RequestOK
    <2>2. /\ q.id \in Terminations /\ terminations[q.id] # None
          /\ terminations[q.id] \in Termination
        BY <2>1 DEF ReadOK, Created, TypeOK
    <2>3. RowStep(q.id) /\ terminations'[q.id] \in Termination
        BY <2>2 DEF RowStep, TypeOK
    <2>4. q.id \in Created'
        BY <2>2, <2>3 DEF RowStep, Created
    <2>5. /\ q.read.version \in Nat /\ terminations[q.id].version \in Nat
          /\ terminations'[q.id].version \in Nat
        BY <2>1, <2>2, <2>3 DEF ReadOK, Termination
    <2> QED
        BY <2>1, <2>2, <2>3, <2>4, <2>5 DEF ReadOK, RowStep
<1>3. ASSUME q.pc \in {"claimed", "settling"}
      PROVE  (rowLock[req[x].id] = x /\ ClaimMatches(x))'
    <2>1. Working(q)
        BY <1>3 DEF Working
    <2>2. q.id \in Created /\ rowLock[q.id] = x /\ ClaimMatches(x)
        BY <1>3, <2>1 DEF RequestOK, ReadOK
    <2>3. rowLock'[q.id] = x /\ terminations'[q.id] = terminations[q.id]
        BY <2>2
    <2> QED
        BY <2>2, <2>3 DEF ClaimMatches
<1>4. ASSUME q.pc = "settling"
      PROVE  /\ employeeLock'[q.read.employee] = x
             /\ employees'[q.read.employee] = "ACTIVE"
    <2>1. ReadOK(q)
        BY <1>4 DEF RequestOK, Working
    <2>2. q.read.employee \in Employees
        BY <2>1 DEF ReadOK, Termination
    <2> QED
        BY <1>4, <2>2 DEF RequestOK
<1> QED
    BY <1>1, <1>2, <1>3, <1>4 DEF RequestOK, Working, ChoiceOK

\* The request that moves, to an unlocked state q, when no row changes.
LEMMA ReadInv ==
    ASSUME Inv, NEW r \in Requests, NEW q \in Request,
           req' = [req EXCEPT ![r] = q], UNCHANGED <<Rows, Locks>>, RequestOK(r)'
    PROVE  Inv'
<1>1. TypeOK'
    BY DEF Inv, TypeOK, Rows, Locks
<1>2. ASSUME NEW x \in Requests, x # r
      PROVE  RequestOK(x)'
    <2>1. RequestOK(x) /\ req'[x] = req[x]
        BY <1>2 DEF Inv, RequestsOK, TypeOK
    <2>2. \A t \in Terminations : RowStep(t)
        <3> SUFFICES ASSUME NEW t \in Terminations, terminations[t] # None
                     PROVE  RowStep(t)
            BY DEF RowStep
        <3>1. terminations[t].version \in Nat
            BY DEF Inv, TypeOK, Termination
        <3> QED
            BY <3>1 DEF RowStep, Rows
    <2> QED
        BY <1>1, <2>1, <2>2, OthersKeepOrder DEF Inv, Rows, Locks
<1>3. RowsOK'
    BY DEF Inv, RowsOK, NothingBeforeCreation, ConceptsMatchTotals, SettledOnce,
           ClosedMeansInactive, TransitionsAreAudited, Rows, Created
<1> QED
    BY <1>1, <1>2, <1>3 DEF Inv, RequestsOK

LEMMA InitInv == Init => Inv
<1> SUFFICES ASSUME Init PROVE Inv
    OBVIOUS
<1>1. Idle \in Request
    BY DEF Idle, Request, Steps
<1>2. TypeOK
    BY <1>1 DEF Init, TypeOK
<1>3. RequestsOK
    BY DEF Init, RequestsOK, RequestOK, Working, Idle
<1>4. RowsOK
    BY DEF Init, RowsOK, NothingBeforeCreation, ConceptsMatchTotals, SettledOnce,
           ClosedMeansInactive, TransitionsAreAudited, Created
<1> QED
    BY <1>2, <1>3, <1>4 DEF Inv

LEMMA IdleInRequest == Idle \in Request
    BY DEF Idle, Request, Steps

\* A request that ends without a change of any row or lock.
LEMMA StopInv ==
    ASSUME Inv, NEW r \in Requests, req' = [req EXCEPT ![r] = Idle],
           UNCHANGED <<Rows, Locks>>
    PROVE  Inv'
<1>1. req'[r] = Idle
    BY DEF Inv, TypeOK
<1>2. RequestOK(r)'
    BY <1>1 DEF RequestOK, Working, Idle
<1> QED
    BY <1>2, IdleInRequest, ReadInv

-----------------------------------------------------------------------------
(* The steps without a lock.                                               *)

LEMMA BeginCreateInv == ASSUME Inv, NEW r \in Requests, BeginCreate(r) PROVE Inv'
<1>1. PICK e \in Employees :
        req' = [req EXCEPT ![r] = [Idle EXCEPT !.pc = "check", !.op = "CREATE", !.employee = e]]
    BY DEF BeginCreate
<1> DEFINE q == [Idle EXCEPT !.pc = "check", !.op = "CREATE", !.employee = e]
<1>2. /\ q \in Request
      /\ q.pc = "check" /\ q.employee = e
    BY DEF Idle, Request, Steps, Actions
<1>3. req' = [req EXCEPT ![r] = q] /\ UNCHANGED <<Rows, Locks>>
    BY <1>1 DEF BeginCreate
<1> HIDE DEF q
<1>4. req'[r] = q
    BY <1>3 DEF Inv, TypeOK
<1>5. RequestOK(r)'
    BY <1>2, <1>4 DEF RequestOK, Working
<1> QED
    BY <1>2, <1>3, <1>5, ReadInv

LEMMA CheckActiveTerminationInv ==
    ASSUME Inv, NEW r \in Requests, CheckActiveTermination(r) PROVE Inv'
<1>1. CASE HasActiveTermination(req[r].employee)
    <2>1. req' = [req EXCEPT ![r] = Idle] /\ UNCHANGED <<Rows, Locks>>
        BY <1>1 DEF CheckActiveTermination
    <2> QED
        BY <2>1, StopInv
<1>2. CASE ~HasActiveTermination(req[r].employee)
    <2> DEFINE q == [req[r] EXCEPT !.pc = "insert"]
    <2>1. req[r] \in Request /\ req[r].pc = "check" /\ req[r].employee \in Employees
        BY DEF CheckActiveTermination, Inv, TypeOK, RequestsOK, RequestOK
    <2>2. q \in Request /\ q.pc = "insert" /\ q.employee \in Employees
        BY <2>1 DEF Request, Steps
    <2>3. req' = [req EXCEPT ![r] = q] /\ UNCHANGED <<Rows, Locks>>
        BY <1>2 DEF CheckActiveTermination
    <2> HIDE DEF q
    <2>4. req'[r] = q
        BY <2>3 DEF Inv, TypeOK
    <2>5. RequestOK(r)'
        BY <2>2, <2>4 DEF RequestOK, Working
    <2> QED
        BY <2>2, <2>3, <2>5, ReadInv
<1> QED
    BY <1>1, <1>2

\* A calculation, an approval or a closing begins with a row as it is.
LEMMA BeginInv ==
    ASSUME Inv, NEW r \in Requests, NEW q \in Request,
           req' = [req EXCEPT ![r] = q], UNCHANGED <<Rows, Locks>>,
           q.id \in Created, q.read = terminations[q.id],
           q.op \in {"CALCULATE", "APPROVE", "CLOSE"},
           q.pc = (IF q.op = "CALCULATE" THEN "rules" ELSE "transaction"),
           q.op = "CALCULATE" => q.input \in Inputs,
           q.op = "CLOSE" => q.read.status = "APPROVED"
    PROVE  Inv'
<1>1. req'[r] = q
    BY DEF Inv, TypeOK
<1>2. terminations[q.id] \in Termination /\ terminations[q.id].version \in Nat
    BY DEF Inv, TypeOK, Created, Termination
<1>3. ReadOK(req[r])'
    BY <1>1, <1>2 DEF ReadOK, Created, Rows, Final
<1>4. ChoiceOK(req[r])'
    BY <1>1 DEF ChoiceOK
<1>5. RequestOK(r)'
    BY <1>1, <1>3, <1>4 DEF RequestOK, Working
<1> QED
    BY <1>5, ReadInv

LEMMA BeginCalculateInv == ASSUME Inv, NEW r \in Requests, BeginCalculate(r) PROVE Inv'
<1>1. PICK t \in Created, i \in Inputs :
        req' = [req EXCEPT ![r] = [Idle EXCEPT !.pc = "rules", !.op = "CALCULATE", !.id = t,
                                               !.read = terminations[t], !.input = i]]
    BY DEF BeginCalculate
<1> DEFINE q == [Idle EXCEPT !.pc = "rules", !.op = "CALCULATE", !.id = t,
                             !.read = terminations[t], !.input = i]
<1>2. t \in Terminations /\ terminations[t] \in Termination
    BY DEF Inv, TypeOK, Created
<1>3. /\ q \in Request
      /\ q.pc = "rules" /\ q.op = "CALCULATE" /\ q.id = t /\ q.read = terminations[t]
      /\ q.input \in Inputs
    BY <1>2 DEF Idle, Request, Steps, Actions
<1>4. req' = [req EXCEPT ![r] = q] /\ UNCHANGED <<Rows, Locks>>
    BY <1>1 DEF BeginCalculate
<1> HIDE DEF q
<1> QED
    BY <1>3, <1>4, BeginInv

LEMMA BeginApproveInv == ASSUME Inv, NEW r \in Requests, BeginApprove(r) PROVE Inv'
<1>1. PICK t \in Created :
        req' = [req EXCEPT ![r] = [Idle EXCEPT !.pc = "transaction", !.op = "APPROVE", !.id = t,
                                               !.read = terminations[t]]]
    BY DEF BeginApprove
<1> DEFINE q == [Idle EXCEPT !.pc = "transaction", !.op = "APPROVE", !.id = t,
                             !.read = terminations[t]]
<1>2. t \in Terminations /\ terminations[t] \in Termination
    BY DEF Inv, TypeOK, Created
<1>3. /\ q \in Request
      /\ q.pc = "transaction" /\ q.op = "APPROVE" /\ q.id = t /\ q.read = terminations[t]
    BY <1>2 DEF Idle, Request, Steps, Actions
<1>4. req' = [req EXCEPT ![r] = q] /\ UNCHANGED <<Rows, Locks>>
    BY <1>1 DEF BeginApprove
<1> HIDE DEF q
<1> QED
    BY <1>3, <1>4, BeginInv

LEMMA BeginCloseInv == ASSUME Inv, NEW r \in Requests, BeginClose(r) PROVE Inv'
<1>1. PICK t \in Created :
        /\ terminations[t].status = "APPROVED"
        /\ req' = [req EXCEPT ![r] = [Idle EXCEPT !.pc = "transaction", !.op = "CLOSE", !.id = t,
                                                  !.read = terminations[t]]]
    BY DEF BeginClose
<1> DEFINE q == [Idle EXCEPT !.pc = "transaction", !.op = "CLOSE", !.id = t,
                             !.read = terminations[t]]
<1>2. t \in Terminations /\ terminations[t] \in Termination
    BY DEF Inv, TypeOK, Created
<1>3. /\ q \in Request
      /\ q.pc = "transaction" /\ q.op = "CLOSE" /\ q.id = t /\ q.read = terminations[t]
    BY <1>2 DEF Idle, Request, Steps, Actions
<1>4. req' = [req EXCEPT ![r] = q] /\ UNCHANGED <<Rows, Locks>>
    BY <1>1 DEF BeginClose
<1> HIDE DEF q
<1> QED
    BY <1>1, <1>3, <1>4, BeginInv

LEMMA SelectRulesInv == ASSUME Inv, NEW r \in Requests, SelectRules(r) PROVE Inv'
<1>1. PICK s \in Selectable(req[r].read.pin) :
        req' = [req EXCEPT ![r].pc = "transaction", ![r].rules = s]
    BY DEF SelectRules
<1> DEFINE q == [req[r] EXCEPT !.pc = "transaction", !.rules = s]
<1>2. /\ req[r] \in Request /\ req[r].pc = "rules" /\ req[r].op = "CALCULATE"
      /\ ReadOK(req[r]) /\ ChoiceOK(req[r])
    BY DEF SelectRules, Inv, TypeOK, RequestsOK, RequestOK, Working
<1>3. req[r].read.pin \in RuleSets \cup {None}
    BY <1>2 DEF ReadOK, Termination
<1>4. s \in RuleSets /\ req[r].read.pin \in {None, s}
    BY <1>3 DEF Selectable
<1>5. /\ q \in Request
      /\ q.pc = "transaction" /\ q.op = "CALCULATE" /\ q.rules = s
      /\ q.id = req[r].id /\ q.read = req[r].read /\ q.input = req[r].input
    BY <1>2, <1>4 DEF Request, Steps
<1>6. req' = [req EXCEPT ![r] = q] /\ UNCHANGED <<Rows, Locks>>
    BY <1>1, <1>2 DEF SelectRules, Inv, TypeOK
<1> HIDE DEF q
<1>7. req'[r] = q
    BY <1>6 DEF Inv, TypeOK
<1>8. ReadOK(req[r])'
    BY <1>2, <1>5, <1>6, <1>7 DEF ReadOK, Rows, Created
<1>9. ChoiceOK(req[r])'
    BY <1>2, <1>4, <1>5, <1>7 DEF ChoiceOK
<1>10. RequestOK(r)'
    BY <1>5, <1>7, <1>8, <1>9 DEF RequestOK, Working
<1> QED
    BY <1>5, <1>6, <1>10, ReadInv

-----------------------------------------------------------------------------
(* Locking.                                                                *)

\* A request that moves to q and is granted locks nobody held.
LEMMA GrantInv ==
    ASSUME Inv, TypeOK', NEW r \in Requests, UNCHANGED Rows,
           \A x \in Requests : x # r => req'[x] = req[x],
           \A t \in Terminations : rowLock[t] # None => rowLock'[t] = rowLock[t],
           \A e \in Employees : employeeLock[e] # None => employeeLock'[e] = employeeLock[e],
           RequestOK(r)'
    PROVE  Inv'
<1>1. ASSUME NEW x \in Requests, x # r
      PROVE  RequestOK(x)'
    <2>1. RequestOK(x) /\ req'[x] = req[x] /\ x # None
        BY <1>1, TerminationAssumption DEF Inv, RequestsOK
    <2>2. \A t \in Terminations : RowStep(t)
        <3> SUFFICES ASSUME NEW t \in Terminations, terminations[t] # None
                     PROVE  RowStep(t)
            BY DEF RowStep
        <3>1. terminations[t].version \in Nat
            BY DEF Inv, TypeOK, Termination
        <3> QED
            BY <3>1 DEF RowStep, Rows
    <2>3. \A t \in Created : rowLock[t] = x =>
            rowLock'[t] = x /\ terminations'[t] = terminations[t]
        BY <2>1 DEF Rows, Created
    <2>4. \A e \in Employees : employeeLock[e] = x =>
            employeeLock'[e] = x /\ employees'[e] = employees[e]
        BY <2>1 DEF Rows
    <2> QED
        BY <2>1, <2>2, <2>3, <2>4, OthersKeepOrder DEF Inv
<1>2. RowsOK'
    BY DEF Inv, RowsOK, NothingBeforeCreation, ConceptsMatchTotals, SettledOnce,
           ClosedMeansInactive, TransitionsAreAudited, Rows, Created
<1> QED
    BY <1>1, <1>2 DEF Inv, RequestsOK

LEMMA ClaimInv == ASSUME Inv, NEW r \in Requests, Claim(r) PROVE Inv'
<1> DEFINE q == [req[r] EXCEPT !.pc = "claimed"]
<1>1. /\ req[r] \in Request /\ req[r].pc = "transaction"
      /\ req[r].op \in {"CALCULATE", "APPROVE", "CLOSE"}
      /\ ReadOK(req[r]) /\ ChoiceOK(req[r])
      /\ ClaimMatches(r) /\ rowLock[req[r].id] = None
    BY DEF Claim, Inv, TypeOK, RequestsOK, RequestOK, Working
<1>2. /\ q \in Request
      /\ q.pc = "claimed" /\ q.op = req[r].op /\ q.rules = req[r].rules
      /\ q.id = req[r].id /\ q.read = req[r].read /\ q.input = req[r].input
    BY <1>1 DEF Request, Steps
<1>3. req' = [req EXCEPT ![r] = q] /\ rowLock' = [rowLock EXCEPT ![req[r].id] = r]
      /\ UNCHANGED <<Rows, employeeLock>>
    BY DEF Claim
<1> HIDE DEF q
<1>4. req'[r] = q /\ req[r].id \in Terminations
    BY <1>1, <1>3 DEF Inv, TypeOK, ReadOK, Created
<1>5. TypeOK'
    BY <1>2, <1>3, <1>4 DEF Inv, TypeOK, Rows
<1>6. ReadOK(req[r])'
    BY <1>1, <1>2, <1>3, <1>4 DEF ReadOK, Rows, Created
<1>7. ChoiceOK(req[r])'
    BY <1>1, <1>2, <1>4 DEF ChoiceOK
<1>8. rowLock'[q.id] = r
    BY <1>2, <1>3, <1>4 DEF Inv, TypeOK
<1>9. ClaimMatches(r)'
    BY <1>1, <1>2, <1>3, <1>4 DEF ClaimMatches, Rows
<1>10. RequestOK(r)'
    BY <1>1, <1>2, <1>4, <1>6, <1>7, <1>8, <1>9 DEF RequestOK, Working
<1> QED
    BY <1>1, <1>3, <1>4, <1>5, <1>10, GrantInv DEF Inv, TypeOK

LEMMA ClaimEmployeeInv == ASSUME Inv, NEW r \in Requests, ClaimEmployee(r) PROVE Inv'
<1> DEFINE q == [req[r] EXCEPT !.pc = "settling"]
           e == req[r].read.employee
<1>1. /\ req[r] \in Request /\ req[r].pc = "claimed" /\ req[r].op = "CLOSE"
      /\ ReadOK(req[r]) /\ ClaimMatches(r) /\ rowLock[req[r].id] = r
      /\ employeeLock[e] = None /\ employees[e] = "ACTIVE"
    BY DEF ClaimEmployee, Inv, TypeOK, RequestsOK, RequestOK, Working
<1>2. /\ q \in Request
      /\ q.pc = "settling" /\ q.op = "CLOSE" /\ q.id = req[r].id /\ q.read = req[r].read
    BY <1>1 DEF Request, Steps
<1>3. req' = [req EXCEPT ![r] = q] /\ employeeLock' = [employeeLock EXCEPT ![e] = r]
      /\ UNCHANGED <<Rows, rowLock>>
    BY DEF ClaimEmployee
<1> HIDE DEF q
<1>4. req'[r] = q /\ e \in Employees
    BY <1>1, <1>3 DEF Inv, TypeOK, ReadOK, Termination
<1>5. TypeOK'
    BY <1>2, <1>3, <1>4 DEF Inv, TypeOK, Rows
<1>6. ReadOK(req[r])'
    BY <1>1, <1>2, <1>3, <1>4 DEF ReadOK, Rows, Created
<1>7. ChoiceOK(req[r])'
    BY <1>2, <1>4 DEF ChoiceOK
<1>8. employeeLock'[q.read.employee] = r /\ employees'[q.read.employee] = "ACTIVE"
    BY <1>1, <1>2, <1>3, <1>4 DEF Inv, TypeOK, Rows
<1>9. ClaimMatches(r)'
    BY <1>1, <1>2, <1>3, <1>4 DEF ClaimMatches, Rows
<1>10. RequestOK(r)'
    BY <1>1, <1>2, <1>3, <1>4, <1>6, <1>7, <1>8, <1>9 DEF RequestOK, Working
<1> QED
    BY <1>1, <1>3, <1>4, <1>5, <1>10, GrantInv DEF Inv, TypeOK

-----------------------------------------------------------------------------
(* Creating.                                                               *)

LEMMA InsertTerminationInv ==
    ASSUME Inv, NEW r \in Requests, InsertTermination(r) PROVE Inv'
<1>1. PICK t \in Terminations \ Created :
        /\ terminations' = [terminations EXCEPT ![t] =
              [employee |-> req[r].employee, status |-> "DRAFT", version |-> 0,
               pin |-> None, totals |-> None]]
        /\ req' = [req EXCEPT ![r].pc = "audit", ![r].id = t]
    BY DEF InsertTermination
<1> DEFINE q == [req[r] EXCEPT !.pc = "audit", !.id = t]
           new == [employee |-> req[r].employee, status |-> "DRAFT", version |-> 0,
                   pin |-> None, totals |-> None]
<1>2. req[r] \in Request /\ req[r].employee \in Employees
    BY DEF InsertTermination, Inv, TypeOK, RequestsOK, RequestOK
<1>3. q \in Request /\ q.pc = "audit" /\ q.id = t
    BY <1>2 DEF Request, Steps
<1>4. /\ new \in Termination /\ new # None
      /\ new.status = "DRAFT" /\ new.pin = None /\ new.totals = None
    BY <1>2, TerminationAssumption DEF Termination, ActiveStatuses
<1>5. /\ req' = [req EXCEPT ![r] = q]
      /\ terminations' = [terminations EXCEPT ![t] = new]
      /\ UNCHANGED <<employees, concepts, audit, Locks>>
    BY <1>1, <1>2 DEF InsertTermination, Inv, TypeOK
<1> HIDE DEF q, new
<1>6. TypeOK'
    BY <1>3, <1>4, <1>5 DEF Inv, TypeOK, Locks
<1>7. req'[r] = q /\ terminations[t] = None /\ terminations'[t] = new
      /\ \A u \in Terminations : u # t => terminations'[u] = terminations[u]
    BY <1>5 DEF Inv, TypeOK, Created
<1>8. Created' = Created \cup {t}
    BY <1>4, <1>7 DEF Created
<1>9. ASSUME NEW x \in Requests
      PROVE  RequestOK(x)'
    <2>1. CASE x = r
        BY <2>1, <1>3, <1>7 DEF RequestOK, Working
    <2>2. CASE x # r
        <3>1. RequestOK(x) /\ req'[x] = req[x]
            BY <2>2, <1>5 DEF Inv, RequestsOK, TypeOK
        <3>2. \A u \in Terminations : RowStep(u)
            <4> SUFFICES ASSUME NEW u \in Terminations, terminations[u] # None
                         PROVE  RowStep(u)
                BY DEF RowStep
            <4>1. terminations[u].version \in Nat /\ terminations'[u] = terminations[u]
                BY <1>7 DEF Inv, TypeOK, Termination
            <4> QED
                BY <4>1 DEF RowStep
        <3>3. \A u \in Created : terminations'[u] = terminations[u]
            BY <1>7 DEF Created
        <3> QED
            BY <1>5, <1>6, <3>1, <3>2, <3>3, OthersKeepOrder DEF Inv, Locks
    <2> QED
        BY <2>1, <2>2
<1>10. NothingBeforeCreation' /\ ConceptsMatchTotals'
    BY <1>4, <1>5, <1>7, <1>8 DEF Inv, RowsOK, NothingBeforeCreation, ConceptsMatchTotals, Created
<1>11. SettledOnce' /\ ClosedMeansInactive' /\ TransitionsAreAudited'
    BY <1>4, <1>5, <1>7, <1>8 DEF Inv, RowsOK, SettledOnce, ClosedMeansInactive,
                                  TransitionsAreAudited, Created
<1> QED
    BY <1>6, <1>9, <1>10, <1>11 DEF Inv, RequestsOK, RowsOK

LEMMA AuditCreationInv == ASSUME Inv, NEW r \in Requests, AuditCreation(r) PROVE Inv'
<1>1. /\ req' = [req EXCEPT ![r] = Idle]
      /\ audit' = audit \cup {[id |-> req[r].id, action |-> "CREATE", version |-> 0]}
      /\ UNCHANGED <<employees, terminations, concepts, Locks>>
    BY DEF AuditCreation, Log
<1>2. req[r].id \in Terminations
    BY DEF AuditCreation, Inv, RequestsOK, RequestOK
<1>3. TypeOK'
    BY <1>1, <1>2, IdleInRequest DEF Inv, TypeOK, Locks, AuditEntry, Actions
<1>4. req'[r] = Idle
    BY <1>1 DEF Inv, TypeOK
<1>5. RequestOK(r)'
    BY <1>4 DEF RequestOK, Working, Idle
<1>6. ASSUME NEW x \in Requests, x # r
      PROVE  RequestOK(x)'
    <2>1. RequestOK(x) /\ req'[x] = req[x]
        BY <1>1, <1>6 DEF Inv, RequestsOK, TypeOK
    <2>2. \A t \in Terminations : RowStep(t)
        <3> SUFFICES ASSUME NEW t \in Terminations, terminations[t] # None
                     PROVE  RowStep(t)
            BY DEF RowStep
        <3>1. terminations[t].version \in Nat
            BY DEF Inv, TypeOK, Termination
        <3> QED
            BY <1>1, <3>1 DEF RowStep
    <2> QED
        BY <1>1, <1>3, <2>1, <2>2, OthersKeepOrder DEF Inv, Locks
<1>7. RowsOK'
    BY <1>1 DEF Inv, RowsOK, NothingBeforeCreation, ConceptsMatchTotals, SettledOnce,
                ClosedMeansInactive, TransitionsAreAudited, Created
<1> QED
    BY <1>3, <1>5, <1>6, <1>7 DEF Inv, RequestsOK

-----------------------------------------------------------------------------
(* The ends of transactions.                                               *)

\* A transaction that ends having changed no row but those it had locked.
LEMMA EndInv ==
    ASSUME Inv, NEW r \in Requests, Release(r),
           employees' \in [Employees -> {"ACTIVE", "INACTIVE"}],
           terminations' \in [Terminations -> Termination \cup {None}],
           concepts' \in [Terminations -> SUBSET Settlement],
           audit' \in SUBSET AuditEntry,
           \A t \in Terminations : RowStep(t),
           \A t \in Terminations : rowLock[t] # r => terminations'[t] = terminations[t],
           \A e \in Employees : employeeLock[e] # r => employees'[e] = employees[e],
           RowsOK'
    PROVE  Inv'
<1>1. TypeOK'
    BY IdleInRequest DEF Release, Inv, TypeOK
<1>2. ASSUME NEW x \in Requests
      PROVE  RequestOK(x)'
    <2>1. CASE x = r
        <3>1. req'[r] = Idle
            BY DEF Release, Inv, TypeOK
        <3> QED
            BY <2>1, <3>1 DEF RequestOK, Working, Idle
    <2>2. CASE x # r
        <3>1. RequestOK(x) /\ req'[x] = req[x]
            BY <2>2 DEF Release, Inv, RequestsOK, TypeOK
        <3>2. \A t \in Created : rowLock[t] = x =>
                rowLock'[t] = x /\ terminations'[t] = terminations[t]
            BY <2>2 DEF Release, Created
        <3>3. \A e \in Employees : employeeLock[e] = x =>
                employeeLock'[e] = x /\ employees'[e] = employees[e]
            BY <2>2 DEF Release
        <3> QED
            BY <1>1, <3>1, <3>2, <3>3, OthersKeepOrder DEF Inv
    <2> QED
        BY <2>1, <2>2
<1> QED
    BY <1>1, <1>2 DEF Inv, RequestsOK

LEMMA RollbackInv ==
    ASSUME Inv, NEW r \in Requests, Rollback(r) \/ ClaimEmployeeFails(r)
    PROVE  Inv'
<1>1. Release(r) /\ UNCHANGED Rows
    BY DEF Rollback, ClaimEmployeeFails
<1>2. \A t \in Terminations : RowStep(t)
    <2> SUFFICES ASSUME NEW t \in Terminations, terminations[t] # None
                 PROVE  RowStep(t)
        BY DEF RowStep
    <2>1. terminations[t].version \in Nat
        BY DEF Inv, TypeOK, Termination
    <2> QED
        BY <1>1, <2>1 DEF RowStep, Rows
<1>3. RowsOK'
    BY <1>1 DEF Inv, RowsOK, NothingBeforeCreation, ConceptsMatchTotals, SettledOnce,
                ClosedMeansInactive, TransitionsAreAudited, Rows, Created
<1> QED
    BY <1>1, <1>2, <1>3, EndInv DEF Inv, TypeOK, Rows

\* What a transaction that has claimed its row knows.
LEMMA ClaimedFacts ==
    ASSUME Inv, NEW r \in Requests, req[r].pc \in {"claimed", "settling"}
    PROVE  /\ req[r] \in Request /\ req[r].id \in Terminations
           /\ req[r].op \in {"CALCULATE", "APPROVE", "CLOSE"}
           /\ terminations[req[r].id] # None /\ terminations[req[r].id] \in Termination
           /\ rowLock[req[r].id] = r
           /\ ReadOK(req[r]) /\ ChoiceOK(req[r]) /\ ClaimMatches(r)
    BY DEF Inv, TypeOK, RequestsOK, RequestOK, Working, ReadOK, Created

LEMMA ClaimMeans ==
    ASSUME NEW r \in Requests, ClaimMatches(r),
           req[r].op \in {"CALCULATE", "APPROVE", "CLOSE"}
    PROVE  LET row == terminations[req[r].id] IN
           /\ req[r].op = "CALCULATE" =>
                 row.status \in CalculableStatuses /\ row.version = req[r].read.version
           /\ req[r].op = "APPROVE" =>
                 row.status = "CALCULATED" /\ row.version = req[r].read.version
           /\ req[r].op = "CLOSE" => row.status = "APPROVED"
    BY DEF ClaimMatches

\* A commit writes one row; the other terminations, their concepts and their
\* audit records stay, and so does what the rows promise of them.
LEMMA OthersKeepRows ==
    ASSUME Inv, NEW u \in Terminations, terminations'[u] = terminations[u],
           concepts'[u] = concepts[u], audit \subseteq audit'
    PROVE  /\ u \notin Created' => concepts'[u] = {}
           /\ u \in Created' =>
                 /\ IF terminations'[u].totals = None
                    THEN concepts'[u] = {} /\ terminations'[u].pin = None
                    ELSE concepts'[u] = {terminations'[u].totals}
                         /\ terminations'[u].pin = terminations'[u].totals.rules
                 /\ LET row == terminations'[u]
                        Logged(action) ==
                            [id |-> u, action |-> action, version |-> row.version] \in audit' IN
                    /\ row.status \in {"CALCULATED", "APPROVED", "CLOSED"} => Logged("CALCULATE")
                    /\ row.status \in {"APPROVED", "CLOSED"} => Logged("APPROVE")
                    /\ row.status = "CLOSED" => Logged("CLOSE")
<1>1. u \in Created' <=> u \in Created
    BY DEF Created
<1>2. NothingBeforeCreation /\ ConceptsMatchTotals /\ TransitionsAreAudited
    BY DEF Inv, RowsOK
<1> QED
    BY <1>1, <1>2 DEF NothingBeforeCreation, ConceptsMatchTotals, TransitionsAreAudited

LEMMA CommitCalculateInv == ASSUME Inv, NEW r \in Requests, CommitCalculate(r) PROVE Inv'
<1> DEFINE id == req[r].id
           version == req[r].read.version + 1
           settlement == [input |-> req[r].input, rules |-> req[r].rules]
           new == [terminations[id] EXCEPT
                      !.status = "CALCULATED", !.version = @ + 1, !.pin = req[r].rules,
                      !.totals = settlement]
<1>1. /\ req[r].pc = "claimed" /\ req[r].op = "CALCULATE"
      /\ audit' = audit \cup {[id |-> id, action |-> "CALCULATE", version |-> version]}
      /\ concepts' = [concepts EXCEPT ![id] = {settlement}]
      /\ Release(r) /\ UNCHANGED employees
    BY DEF CommitCalculate, Log
<1>2. /\ id \in Terminations
      /\ terminations[id] # None /\ terminations[id] \in Termination
      /\ rowLock[id] = r
      /\ terminations[id].status \in CalculableStatuses
      /\ terminations[id].version + 1 = version
      /\ req[r].input \in Inputs /\ req[r].rules \in RuleSets
    BY <1>1, ClaimedFacts, ClaimMeans DEF ChoiceOK
<1>3. settlement \in Settlement /\ settlement # None /\ settlement.rules = req[r].rules
    BY <1>2, TerminationAssumption DEF Settlement
<1>4. version \in Nat /\ terminations[id].version \in Nat
    BY <1>2 DEF Termination
<1>5. /\ new \in Termination
      /\ new # None
      /\ new.employee = terminations[id].employee
      /\ new.status = "CALCULATED" /\ new.version = version
      /\ new.pin = req[r].rules /\ new.totals = settlement
    <2> HIDE DEF settlement
    <2>1. new \in Termination
        BY <1>2, <1>3, <1>4 DEF Termination, ActiveStatuses
    <2> QED
        BY <1>2, <2>1, TerminationAssumption DEF Termination
<1>6. terminations' = [terminations EXCEPT ![id] = new]
    BY DEF CommitCalculate
<1> HIDE DEF new, settlement, version
<1>7. /\ terminations'[id] = new
      /\ \A u \in Terminations : u # id => terminations'[u] = terminations[u]
      /\ terminations' \in [Terminations -> Termination \cup {None}]
      /\ concepts' \in [Terminations -> SUBSET Settlement]
      /\ concepts'[id] = {settlement}
      /\ \A u \in Terminations : u # id => concepts'[u] = concepts[u]
      /\ audit' \in SUBSET AuditEntry
    BY <1>1, <1>2, <1>3, <1>4, <1>5, <1>6 DEF Inv, TypeOK, AuditEntry, Actions
<1>8. \A t \in Terminations : RowStep(t)
    <2> SUFFICES ASSUME NEW t \in Terminations, terminations[t] # None
                 PROVE  RowStep(t)
        BY DEF RowStep
    <2>1. terminations[t].version \in Nat
        BY DEF Inv, TypeOK, Termination
    <2>2. CASE t = id
        BY <1>2, <1>4, <1>5, <1>7, <2>2 DEF RowStep, CalculableStatuses, Final
    <2>3. CASE t # id
        BY <1>7, <2>1, <2>3 DEF RowStep
    <2> QED
        BY <2>2, <2>3
<1>9. NothingBeforeCreation' /\ ConceptsMatchTotals' /\ TransitionsAreAudited'
    <2>1. \A u \in Terminations : u # id =>
            terminations'[u] = terminations[u] /\ concepts'[u] = concepts[u]
        BY <1>7
    <2>2. audit \subseteq audit'
        BY <1>1
    <2>3. NothingBeforeCreation'
        BY <1>5, <1>7, <2>1, <2>2, OthersKeepRows DEF NothingBeforeCreation, Created
    <2>4. ConceptsMatchTotals'
        BY <1>3, <1>5, <1>7, <2>1, <2>2, OthersKeepRows, ZenonT(30) DEF ConceptsMatchTotals, Created
    <2>5. TransitionsAreAudited'
        BY <1>1, <1>5, <1>7, <2>1, <2>2, OthersKeepRows DEF TransitionsAreAudited, Created
    <2> QED
        BY <2>3, <2>4, <2>5
<1>10. SettledOnce' /\ ClosedMeansInactive'
    BY <1>1, <1>5, <1>7 DEF Inv, RowsOK, SettledOnce, ClosedMeansInactive, Created
<1>11. RowsOK'
    BY <1>9, <1>10 DEF RowsOK
<1> QED
    BY <1>1, <1>2, <1>7, <1>8, <1>11, EndInv DEF Inv, TypeOK

LEMMA CommitApproveInv == ASSUME Inv, NEW r \in Requests, CommitApprove(r) PROVE Inv'
<1> DEFINE id == req[r].id
           new == [terminations[id] EXCEPT !.status = "APPROVED"]
<1>1. /\ req[r].pc = "claimed" /\ req[r].op = "APPROVE"
      /\ audit' = audit \cup
            {[id |-> id, action |-> "APPROVE", version |-> req[r].read.version]}
      /\ Release(r) /\ UNCHANGED <<employees, concepts>>
    BY DEF CommitApprove, Log
<1>2. /\ id \in Terminations
      /\ terminations[id] # None /\ terminations[id] \in Termination
      /\ rowLock[id] = r
      /\ terminations[id].status = "CALCULATED"
      /\ terminations[id].version = req[r].read.version
    BY <1>1, ClaimedFacts, ClaimMeans
<1>3. terminations[id].version \in Nat
    BY <1>2 DEF Termination
<1>4. /\ new \in Termination
      /\ new # None
      /\ new.employee = terminations[id].employee
      /\ new.status = "APPROVED" /\ new.version = terminations[id].version
      /\ new.pin = terminations[id].pin /\ new.totals = terminations[id].totals
    <2>1. new \in Termination
        BY <1>2 DEF Termination, ActiveStatuses
    <2> QED
        BY <1>2, <2>1, TerminationAssumption DEF Termination
<1>5. terminations' = [terminations EXCEPT ![id] = new]
    BY DEF CommitApprove
<1> HIDE DEF new
<1>6. /\ terminations'[id] = new
      /\ \A u \in Terminations : u # id => terminations'[u] = terminations[u]
      /\ terminations' \in [Terminations -> Termination \cup {None}]
      /\ audit' \in SUBSET AuditEntry
    BY <1>1, <1>2, <1>3, <1>4, <1>5 DEF Inv, TypeOK, AuditEntry, Actions
<1>7. \A t \in Terminations : RowStep(t)
    <2> SUFFICES ASSUME NEW t \in Terminations, terminations[t] # None
                 PROVE  RowStep(t)
        BY DEF RowStep
    <2>1. terminations[t].version \in Nat
        BY DEF Inv, TypeOK, Termination
    <2>2. CASE t = id
        BY <1>2, <1>3, <1>4, <1>6, <2>2 DEF RowStep, Final
    <2>3. CASE t # id
        BY <1>6, <2>1, <2>3 DEF RowStep
    <2> QED
        BY <2>2, <2>3
<1>8. NothingBeforeCreation' /\ ConceptsMatchTotals' /\ TransitionsAreAudited'
    <2>1. \A u \in Terminations : u # id =>
            terminations'[u] = terminations[u] /\ concepts'[u] = concepts[u]
        BY <1>1, <1>6
    <2>2. audit \subseteq audit'
        BY <1>1
    <2>3. id \in Created /\ id \in Created'
        BY <1>2, <1>4, <1>6 DEF Created
    <2>4. NothingBeforeCreation'
        BY <1>4, <1>6, <2>1, <2>2, OthersKeepRows DEF NothingBeforeCreation, Created
    <2>5. ConceptsMatchTotals'
        <3>1. IF new.totals = None
              THEN concepts'[id] = {} /\ new.pin = None
              ELSE concepts'[id] = {new.totals} /\ new.pin = new.totals.rules
            BY <1>1, <1>4, <2>3 DEF Inv, RowsOK, ConceptsMatchTotals
        <3> QED
            BY <1>6, <2>1, <2>2, <3>1, OthersKeepRows DEF ConceptsMatchTotals, Created
    <2>6. TransitionsAreAudited'
        <3>1. [id |-> id, action |-> "CALCULATE", version |-> new.version] \in audit'
            BY <1>1, <1>2, <1>4, <2>3 DEF Inv, RowsOK, TransitionsAreAudited
        <3> QED
            BY <1>1, <1>2, <1>4, <1>6, <2>1, <2>2, <3>1, OthersKeepRows
            DEF TransitionsAreAudited, Created
    <2> QED
        BY <2>4, <2>5, <2>6
<1>9. SettledOnce' /\ ClosedMeansInactive'
    BY <1>1, <1>4, <1>6 DEF Inv, RowsOK, SettledOnce, ClosedMeansInactive, Created
<1>10. RowsOK'
    BY <1>8, <1>9 DEF RowsOK
<1> QED
    BY <1>1, <1>2, <1>6, <1>7, <1>10, EndInv DEF Inv, TypeOK

\* No termination of an employee who is still ACTIVE is closed, so a closing
\* closes the only one.
LEMMA CommitCloseInv == ASSUME Inv, NEW r \in Requests, CommitClose(r) PROVE Inv'
<1> DEFINE id == req[r].id
           e == req[r].read.employee
           new == [terminations[id] EXCEPT !.status = "CLOSED"]
<1>1. /\ req[r].pc = "settling"
      /\ employees' = [employees EXCEPT ![e] = "INACTIVE"]
      /\ audit' = audit \cup
            {[id |-> id, action |-> "CLOSE", version |-> req[r].read.version]}
      /\ Release(r) /\ UNCHANGED concepts
    BY DEF CommitClose, Log
<1>2. /\ req[r].op = "CLOSE"
      /\ employeeLock[e] = r /\ employees[e] = "ACTIVE"
    BY <1>1 DEF Inv, RequestsOK, RequestOK
<1>3. /\ id \in Terminations
      /\ terminations[id] # None /\ terminations[id] \in Termination
      /\ rowLock[id] = r
      /\ terminations[id].status = "APPROVED"
      /\ terminations[id].version = req[r].read.version
      /\ terminations[id].employee = e
    BY <1>1, <1>2, ClaimedFacts, ClaimMeans DEF ReadOK
<1>4. terminations[id].version \in Nat /\ e \in Employees
    BY <1>3 DEF Termination
<1>5. /\ new \in Termination
      /\ new # None
      /\ new.employee = e
      /\ new.status = "CLOSED" /\ new.version = terminations[id].version
      /\ new.pin = terminations[id].pin /\ new.totals = terminations[id].totals
    <2>1. new \in Termination
        BY <1>3 DEF Termination, ActiveStatuses
    <2> QED
        BY <1>3, <2>1, TerminationAssumption DEF Termination
<1>6. terminations' = [terminations EXCEPT ![id] = new]
    BY DEF CommitClose
<1> HIDE DEF new, e
<1>7. /\ terminations'[id] = new
      /\ \A u \in Terminations : u # id => terminations'[u] = terminations[u]
      /\ terminations' \in [Terminations -> Termination \cup {None}]
      /\ employees' \in [Employees -> {"ACTIVE", "INACTIVE"}]
      /\ employees'[e] = "INACTIVE"
      /\ \A f \in Employees : f # e => employees'[f] = employees[f]
      /\ audit' \in SUBSET AuditEntry
    BY <1>1, <1>3, <1>4, <1>5, <1>6 DEF Inv, TypeOK, AuditEntry, Actions
<1>8. \A t \in Terminations : RowStep(t)
    <2> SUFFICES ASSUME NEW t \in Terminations, terminations[t] # None
                 PROVE  RowStep(t)
        BY DEF RowStep
    <2>1. terminations[t].version \in Nat
        BY DEF Inv, TypeOK, Termination
    <2>2. CASE t = id
        BY <1>3, <1>4, <1>5, <1>7, <2>2 DEF RowStep, Final
    <2>3. CASE t # id
        BY <1>7, <2>1, <2>3 DEF RowStep
    <2> QED
        BY <2>2, <2>3
<1>9. NothingBeforeCreation' /\ ConceptsMatchTotals' /\ TransitionsAreAudited'
    <2>1. \A u \in Terminations : u # id =>
            terminations'[u] = terminations[u] /\ concepts'[u] = concepts[u]
        BY <1>1, <1>7
    <2>2. audit \subseteq audit'
        BY <1>1
    <2>3. id \in Created /\ id \in Created'
        BY <1>3, <1>5, <1>7 DEF Created
    <2>4. NothingBeforeCreation'
        BY <1>5, <1>7, <2>1, <2>2, OthersKeepRows DEF NothingBeforeCreation, Created
    <2>5. ConceptsMatchTotals'
        <3>1. IF new.totals = None
              THEN concepts'[id] = {} /\ new.pin = None
              ELSE concepts'[id] = {new.totals} /\ new.pin = new.totals.rules
            BY <1>1, <1>5, <2>3 DEF Inv, RowsOK, ConceptsMatchTotals
        <3> QED
            BY <1>7, <2>1, <2>2, <3>1, OthersKeepRows DEF ConceptsMatchTotals, Created
    <2>6. TransitionsAreAudited'
        <3>1. /\ [id |-> id, action |-> "CALCULATE", version |-> new.version] \in audit'
              /\ [id |-> id, action |-> "APPROVE", version |-> new.version] \in audit'
            BY <1>1, <1>3, <1>5, <2>3 DEF Inv, RowsOK, TransitionsAreAudited
        <3> QED
            BY <1>1, <1>3, <1>5, <1>7, <2>1, <2>2, <3>1, OthersKeepRows
            DEF TransitionsAreAudited, Created
    <2> QED
        BY <2>4, <2>5, <2>6
<1>10. ASSUME NEW u \in Created', u # id, terminations'[u].status = "CLOSED"
       PROVE  terminations'[u].employee # e /\ employees'[terminations'[u].employee] = "INACTIVE"
    <2>1. u \in Created /\ terminations'[u] = terminations[u] /\ terminations[u].status = "CLOSED"
        BY <1>7, <1>10 DEF Created
    <2>2. employees[terminations[u].employee] = "INACTIVE"
        BY <2>1 DEF Inv, RowsOK, ClosedMeansInactive
    <2>3. terminations[u].employee \in Employees
        BY <2>1 DEF Inv, TypeOK, Created, Termination
    <2> QED
        BY <1>2, <1>7, <2>1, <2>2, <2>3 DEF e
<1>11. ClosedMeansInactive'
    BY <1>5, <1>7, <1>10 DEF ClosedMeansInactive
<1>12. SettledOnce'
    <2> SUFFICES ASSUME NEW t \in Created', NEW u \in Created', t # u,
                        terminations'[t].status = "CLOSED", terminations'[u].status = "CLOSED",
                        terminations'[t].employee = terminations'[u].employee
                 PROVE  FALSE
        BY DEF SettledOnce
    <2>1. CASE t = id \/ u = id
        BY <1>5, <1>7, <1>10, <2>1
    <2>2. CASE t # id /\ u # id
        BY <1>7, <2>2 DEF Inv, RowsOK, SettledOnce, Created
    <2> QED
        BY <2>1, <2>2
<1>13. RowsOK'
    BY <1>9, <1>11, <1>12 DEF RowsOK
<1>14. \A f \in Employees : employeeLock[f] # r => employees'[f] = employees[f]
    BY <1>2, <1>7 DEF e
<1> QED
    BY <1>1, <1>3, <1>7, <1>8, <1>13, <1>14, EndInv DEF Inv, TypeOK

LEMMA RemoveEmployeeInv == ASSUME Inv, NEW e \in Employees, RemoveEmployee(e) PROVE Inv'
<1>1. /\ employeeLock[e] = None
      /\ employees' = [employees EXCEPT ![e] = "INACTIVE"]
      /\ UNCHANGED <<terminations, concepts, audit, Locks, req>>
    BY DEF RemoveEmployee
<1>2. TypeOK'
    BY <1>1 DEF Inv, TypeOK, Locks
<1>3. \A f \in Employees : f # e => employees'[f] = employees[f]
    BY <1>1 DEF Inv, TypeOK
<1>4. ASSUME NEW x \in Requests
      PROVE  RequestOK(x)'
    <2>1. RequestOK(x) /\ x # None
        BY TerminationAssumption DEF Inv, RequestsOK
    <2>2. \A t \in Terminations : RowStep(t)
        <3> SUFFICES ASSUME NEW t \in Terminations, terminations[t] # None
                     PROVE  RowStep(t)
            BY DEF RowStep
        <3>1. terminations[t].version \in Nat
            BY DEF Inv, TypeOK, Termination
        <3> QED
            BY <1>1, <3>1 DEF RowStep
    <2> QED
        BY <1>1, <1>2, <1>3, <2>1, <2>2, OthersKeepOrder DEF Inv, Locks
<1>5. ClosedMeansInactive'
    <2> SUFFICES ASSUME NEW t \in Created, terminations[t].status = "CLOSED"
                 PROVE  employees'[terminations[t].employee] = "INACTIVE"
        BY <1>1 DEF ClosedMeansInactive, Created
    <2>1. terminations[t].employee \in Employees
        BY DEF Inv, TypeOK, Created, Termination
    <2>2. employees[terminations[t].employee] = "INACTIVE"
        BY DEF Inv, RowsOK, ClosedMeansInactive
    <2> QED
        BY <1>1, <2>1, <2>2 DEF Inv, TypeOK
<1>6. RowsOK'
    BY <1>1, <1>5 DEF Inv, RowsOK, NothingBeforeCreation, ConceptsMatchTotals, SettledOnce,
                      TransitionsAreAudited, Created
<1> QED
    BY <1>2, <1>4, <1>6 DEF Inv, RequestsOK

-----------------------------------------------------------------------------
(* The theorems.                                                           *)

LEMMA NextInv == Inv /\ [Next]_vars => Inv'
<1> SUFFICES ASSUME Inv, [Next]_vars PROVE Inv'
    OBVIOUS
<1>1. CASE UNCHANGED vars
    <2>1. TypeOK' /\ RowsOK'
        BY <1>1 DEF Inv, TypeOK, RowsOK, NothingBeforeCreation, ConceptsMatchTotals,
                    SettledOnce, ClosedMeansInactive, TransitionsAreAudited, Created, vars
    <2>2. RequestsOK'
        BY <1>1 DEF Inv, RequestsOK, RequestOK, ReadOK, ChoiceOK, ClaimMatches, Created, vars
    <2> QED
        BY <2>1, <2>2 DEF Inv
<1>2. ASSUME NEW r \in Requests,
             ClaimFails(r) \/ Abandon(r)
      PROVE  Inv'
    BY <1>2, StopInv DEF ClaimFails, Abandon
<1>3. ASSUME NEW r \in Requests,
             BeginCreate(r) \/ BeginCalculate(r) \/ BeginApprove(r) \/ BeginClose(r)
      PROVE  Inv'
    BY <1>3, BeginCreateInv, BeginCalculateInv, BeginApproveInv, BeginCloseInv
<1>4. ASSUME NEW r \in Requests, Read(r)
      PROVE  Inv'
    BY <1>4, CheckActiveTerminationInv, InsertTerminationInv, AuditCreationInv,
       SelectRulesInv DEF Read
<1>5. ASSUME NEW r \in Requests, Commit(r) \/ Rollback(r) \/ ClaimEmployeeFails(r)
      PROVE  Inv'
    BY <1>5, CommitCalculateInv, CommitApproveInv, CommitCloseInv, RollbackInv
    DEF Commit
<1>6. ASSUME NEW r \in Requests, Claim(r) \/ ClaimEmployee(r)
      PROVE  Inv'
    BY <1>6, ClaimInv, ClaimEmployeeInv
<1>7. ASSUME NEW e \in Employees, RemoveEmployee(e)
      PROVE  Inv'
    BY <1>7, RemoveEmployeeInv
<1> QED
    BY <1>1, <1>2, <1>3, <1>4, <1>5, <1>6, <1>7 DEF Next

LEMMA InvHolds == Spec => []Inv
    BY InitInv, NextInv, PTL DEF Spec

\* Every reachable state has its type.
THEOREM TypeCorrect == Spec => []TypeOK
<1>1. Inv => TypeOK
    BY DEF Inv
<1> QED
    BY <1>1, InvHolds, PTL

\* The concepts of a termination are those of the calculation its totals and
\* its pinned rule set come from, whatever calculations raced.
THEOREM ConceptsAreOfTheTotals == Spec => []ConceptsMatchTotals
<1>1. Inv => ConceptsMatchTotals
    BY DEF Inv, RowsOK
<1> QED
    BY <1>1, InvHolds, PTL

\* No employee is settled twice, although two terminations of one employee can
\* be open at once: a closing claims the employee's row.
THEOREM EmployeesAreSettledOnce == Spec => []SettledOnce
<1>1. Inv => SettledOnce
    BY DEF Inv, RowsOK
<1> QED
    BY <1>1, InvHolds, PTL

\* A closed termination has deactivated its employee.
THEOREM ClosingDeactivates == Spec => []ClosedMeansInactive
<1>1. Inv => ClosedMeansInactive
    BY DEF Inv, RowsOK
<1> QED
    BY <1>1, InvHolds, PTL

\* Calculations, approvals and closings have audit records of the version the
\* row has.
THEOREM TransitionsHaveRecords == Spec => []TransitionsAreAudited
<1>1. Inv => TransitionsAreAudited
    BY DEF Inv, RowsOK
<1> QED
    BY <1>1, InvHolds, PTL

\* A row is changed by a commit of its own transaction, and nothing else.
LEMMA RowWriters ==
    ASSUME Inv, [Next]_vars, NEW t \in Created
    PROVE  \/ terminations'[t] = terminations[t] /\ concepts'[t] = concepts[t]
           \/ \E r \in Requests :
                 /\ req[r].id = t
                 /\ CommitCalculate(r) \/ CommitApprove(r) \/ CommitClose(r)
<1>1. CASE UNCHANGED <<terminations, concepts>>
    BY <1>1
<1>2. ASSUME NEW r \in Requests, InsertTermination(r)
      PROVE  terminations'[t] = terminations[t] /\ concepts'[t] = concepts[t]
    BY <1>2 DEF InsertTermination, Inv, TypeOK
<1>3. ASSUME NEW r \in Requests,
             CommitCalculate(r) \/ CommitApprove(r) \/ CommitClose(r), req[r].id # t
      PROVE  terminations'[t] = terminations[t] /\ concepts'[t] = concepts[t]
    BY <1>3 DEF CommitCalculate, CommitApprove, CommitClose, Inv, TypeOK, Created
<1>4. CASE Next
    <2>1. \/ UNCHANGED <<terminations, concepts>>
          \/ \E r \in Requests :
                InsertTermination(r) \/ CommitCalculate(r) \/ CommitApprove(r) \/ CommitClose(r)
        BY <1>4 DEF Next, BeginCreate, BeginCalculate, BeginApprove, BeginClose, Read,
                    CheckActiveTermination, AuditCreation, SelectRules, Claim, ClaimFails,
                    ClaimEmployee, ClaimEmployeeFails, Commit, Rollback, Abandon, RemoveEmployee,
                    Rows
    <2> QED
        BY <1>2, <1>3, <2>1
<1> QED
    BY <1>1, <1>4 DEF vars

\* What a commit does to the row its transaction has claimed.
LEMMA CommitFacts ==
    ASSUME Inv, NEW r \in Requests,
           CommitCalculate(r) \/ CommitApprove(r) \/ CommitClose(r)
    PROVE  LET t == req[r].id
               old == terminations[t]
               new == terminations'[t] IN
           \/ CommitCalculate(r) /\ old.status \in CalculableStatuses
              /\ old.pin \in {None, new.pin}
           \/ /\ new.pin = old.pin /\ new.totals = old.totals /\ concepts'[t] = concepts[t]
              /\ new.status \in Final /\ old.status # "CLOSED"
<1>1. req[r].pc \in {"claimed", "settling"}
    BY DEF CommitCalculate, CommitApprove, CommitClose
<1>2. /\ req[r].id \in Terminations /\ terminations[req[r].id] \in Termination
      /\ ReadOK(req[r]) /\ ChoiceOK(req[r])
    BY <1>1, ClaimedFacts
<1>3. terminations \in [Terminations -> Termination \cup {None}]
    BY DEF Inv, TypeOK
<1>4. CASE CommitCalculate(r)
    <2>1. /\ req[r].pc = "claimed" /\ req[r].op = "CALCULATE"
          /\ terminations[req[r].id].status \in CalculableStatuses
          /\ terminations[req[r].id].version = req[r].read.version
        BY <1>1, <1>4, ClaimedFacts, ClaimMeans DEF CommitCalculate
    <2>2. terminations[req[r].id].pin \in {None, req[r].rules}
        BY <1>2, <2>1 DEF ReadOK, ChoiceOK
    <2>3. terminations'[req[r].id].pin = req[r].rules
        BY <1>2, <1>3, <1>4 DEF CommitCalculate, Termination
    <2> QED
        BY <1>4, <2>1, <2>2, <2>3
<1>5. CASE CommitApprove(r)
    <2>1. terminations[req[r].id].status = "CALCULATED"
        BY <1>1, <1>5, ClaimedFacts, ClaimMeans DEF CommitApprove
    <2> QED
        BY <1>2, <1>3, <1>5, <2>1 DEF CommitApprove, Termination, Final
<1>6. CASE CommitClose(r)
    <2>1. req[r].op = "CLOSE"
        BY <1>6 DEF CommitClose, Inv, RequestsOK, RequestOK
    <2>2. terminations[req[r].id].status = "APPROVED"
        BY <1>1, <2>1, ClaimedFacts, ClaimMeans
    <2> QED
        BY <1>2, <1>3, <1>6, <2>2 DEF CommitClose, Termination, Final
<1> QED
    BY <1>4, <1>5, <1>6

\* An approved termination keeps its amounts, its concepts and its approval,
\* although approving leaves the version that a calculation in progress compares.
THEOREM ApprovalIsFinal == Spec => ApprovedIsFinal
<1> DEFINE Kept(t) ==
        terminations[t].status \in {"APPROVED", "CLOSED"} =>
          /\ terminations'[t].totals = terminations[t].totals
          /\ concepts'[t] = concepts[t]
          /\ terminations'[t].status \in {"APPROVED", "CLOSED"}
          /\ terminations[t].status = "CLOSED" => terminations'[t].status = "CLOSED"
<1>1. ASSUME Inv, [Next]_vars
      PROVE  [\A t \in Created : Kept(t)]_vars
    <2> SUFFICES ASSUME NEW t \in Created PROVE Kept(t)
        OBVIOUS
    <2>1. CASE terminations'[t] = terminations[t] /\ concepts'[t] = concepts[t]
        BY <2>1
    <2>2. ASSUME NEW r \in Requests, req[r].id = t,
                 CommitCalculate(r) \/ CommitApprove(r) \/ CommitClose(r)
          PROVE  Kept(t)
        BY <1>1, <2>2, CommitFacts DEF CalculableStatuses, Final
    <2> QED
        BY <1>1, <2>1, <2>2, RowWriters
<1> QED
    BY <1>1, InvHolds, PTL DEF Spec, ApprovedIsFinal

\* What is approved is the calculation the approving request has read.
THEOREM ApprovalIsOfTheRead == Spec => ApprovalIsOfWhatWasRead
<1> DEFINE AsRead(r) ==
        CommitApprove(r) => req[r].read.totals = terminations[req[r].id].totals
<1>1. ASSUME Inv, [Next]_vars
      PROVE  [\A r \in Requests : AsRead(r)]_vars
    <2> SUFFICES ASSUME NEW r \in Requests, CommitApprove(r)
                 PROVE  req[r].read.totals = terminations[req[r].id].totals
        OBVIOUS
    <2>1. req[r].pc = "claimed" /\ req[r].op = "APPROVE"
        BY DEF CommitApprove
    <2>2. ReadOK(req[r]) /\ terminations[req[r].id].version = req[r].read.version
        BY <1>1, <2>1, ClaimedFacts, ClaimMeans
    <2> QED
        BY <2>2 DEF ReadOK
<1> QED
    BY <1>1, InvHolds, PTL DEF Spec, ApprovalIsOfWhatWasRead

\* A termination keeps the rule set of its first calculation.
THEOREM PinIsKept == Spec => PinIsNeverReplaced
<1> DEFINE Kept(t) ==
        terminations[t].pin # None => terminations'[t].pin = terminations[t].pin
<1>1. ASSUME Inv, [Next]_vars
      PROVE  [\A t \in Created : Kept(t)]_vars
    <2> SUFFICES ASSUME NEW t \in Created PROVE Kept(t)
        OBVIOUS
    <2>1. CASE terminations'[t] = terminations[t]
        BY <2>1
    <2>2. ASSUME NEW r \in Requests, req[r].id = t,
                 CommitCalculate(r) \/ CommitApprove(r) \/ CommitClose(r)
          PROVE  Kept(t)
        BY <1>1, <2>2, CommitFacts
    <2> QED
        BY <1>1, <2>1, <2>2, RowWriters
<1> QED
    BY <1>1, InvHolds, PTL DEF Spec, PinIsNeverReplaced
=============================================================================
