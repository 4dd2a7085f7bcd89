-------------------------- MODULE PayrollLifecycle --------------------------
(***************************************************************************)
(* What a payroll period promises, as if every request ran alone: each     *)
(* operation is one atomic step on the current rows.  A calculation prices *)
(* the novelties the period has now, for a set of employees, and keeps the *)
(* rule set it was first calculated with; a change of novelties discards   *)
(* what was calculated; approving, closing and reopening never touch       *)
(* items or novelties.                                                     *)
(***************************************************************************)
EXTENDS Integers

CONSTANTS Employees, RuleSets, Accruing, Types, MaxVersion, None

VARIABLES payrollType, status, version, pin, items, novelties

vars == <<payrollType, status, version, pin, items, novelties>>

\* Statuses in which a period may be calculated and its novelties changed.
Open == {"DRAFT", "COLLECTING_NOVELTIES", "CALCULATED", "REOPENED"}

\* Periodic payrolls are calculated with a rule set, accrued benefits and the
\* others with fixed rules; accrued benefits do not depend on novelties.
NeedsRules == payrollType \in {"MONTHLY", "SEMIMONTHLY", "WEEKLY", "BIWEEKLY"}
PricesNovelties == payrollType \notin {"SEVERANCE", "BONUS"}

Init ==
    /\ payrollType \in Types
    /\ status = "DRAFT"
    /\ version = 0
    /\ pin = None
    /\ items = {}
    /\ novelties = {}

\* Every operation moves the period to its status and to the next version.
Move(from, to) ==
    /\ status \in from
    /\ version < MaxVersion
    /\ status' = to
    /\ version' = version + 1
    /\ UNCHANGED payrollType

\* What one employee is paid from the novelties registered now.
Payslip(e, rules) ==
    [calc |-> version + 1, employee |-> e, rules |-> rules,
     novelties |-> IF PricesNovelties THEN {n \in novelties : n.employee = e} ELSE {}]

\* Some employees are paid once each; a period that accrues benefits leaves
\* out those who have accrued nothing.
Calculate(team, rules) ==
    /\ Move(Open, "CALCULATED")
    /\ team # {}
    /\ pin # None => rules = pin
    /\ pin' = rules
    /\ items' = {Payslip(e, rules) : e \in IF PricesNovelties THEN team ELSE team \cap Accruing}
    /\ UNCHANGED novelties

Approve == Move({"CALCULATED"}, "APPROVED") /\ UNCHANGED <<pin, items, novelties>>

Close == Move({"APPROVED"}, "CLOSED") /\ UNCHANGED <<pin, items, novelties>>

Reopen == Move({"CLOSED"}, "REOPENED") /\ UNCHANGED <<pin, items, novelties>>

AddNovelty(e) ==
    /\ Move(Open, "COLLECTING_NOVELTIES")
    /\ novelties' = novelties \cup {[id |-> version + 1, employee |-> e]}
    /\ items' = {}
    /\ UNCHANGED pin

RemoveNovelty(n) ==
    /\ Move(Open, "COLLECTING_NOVELTIES")
    /\ novelties' = novelties \ {n}
    /\ items' = {}
    /\ UNCHANGED pin

Next ==
    \/ \E team \in SUBSET Employees, rules \in IF NeedsRules THEN RuleSets ELSE {None} :
          Calculate(team, rules)
    \/ Approve
    \/ Close
    \/ Reopen
    \/ \E e \in Employees : AddNovelty(e)
    \/ \E n \in novelties : RemoveNovelty(n)

Spec == Init /\ [][Next]_vars
=============================================================================
