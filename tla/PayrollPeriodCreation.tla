------------------------ MODULE PayrollPeriodCreation ------------------------
(***************************************************************************)
(* Opening payroll periods: CreatePayrollPeriodUseCase under concurrent    *)
(* requests.                                                               *)
(*                                                                         *)
(* Periodic payrolls of one company and type must not overlap in time.  No *)
(* constraint of the database says so: the transaction takes an advisory   *)
(* lock named after company and type, looks for a committed period that    *)
(* overlaps, and inserts.  PostgreSQL hashes the name to 64 bits, so two   *)
(* names may share a lock.                                                 *)
(*                                                                         *)
(* Days are numbers and months have MonthLength of them; a period's year   *)
(* and month are one number.  The payment date, which is compared with the *)
(* start date when the request arrives and never read again, and the name  *)
(* are left out.                                                           *)
(*                                                                         *)
(* Requests    identities of concurrent requests                           *)
(* Companies   tenants                                                     *)
(* Types       the payroll types considered                                *)
(* Locks       advisory lock keys, and Hash the key of a company and type  *)
(* LastDay, MonthLength   the calendar: days are 0..LastDay                *)
(* MaxPeriods  the bound of the number of rows                             *)
(***************************************************************************)
EXTENDS Integers, Sequences

CONSTANTS Requests, Companies, Types, Locks, Hash, LastDay, MonthLength, MaxPeriods, None

PERIODIC_PAYROLL_TYPES == {"MONTHLY", "SEMIMONTHLY", "WEEKLY", "BIWEEKLY"}

ASSUME CreationAssumption ==
    /\ LastDay \in Nat
    /\ MonthLength \in Nat \ {0}
    /\ MaxPeriods \in Nat
    /\ None \notin Requests \cup Int
    /\ Hash \in [Companies \X Types -> Locks]

VARIABLES
    periods,       \* the committed PayrollPeriod rows, in the order of their commits
    advisoryLock,  \* the request whose transaction holds each advisory lock
    req            \* what each request is creating, and where it is

vars == <<periods, advisoryLock, req>>

-----------------------------------------------------------------------------
Days == 0..LastDay
MonthOf(day) == day \div MonthLength
Months == {MonthOf(day) : day \in Days}

Period == [company : Companies, payrollType : Types, month : Months,
           startDate : Days \cup {None}, endDate : Days \cup {None}]

Steps == {"idle", "lock", "check", "insert"}

Request == [pc : Steps, data : Period \cup {None}]

Idle == [pc |-> "idle", data |-> None]

Periodic(p) == p.payrollType \in PERIODIC_PAYROLL_TYPES

TypeOK ==
    /\ periods \in Seq(Period)
    /\ advisoryLock \in [Locks -> Requests \cup {None}]
    /\ req \in [Requests -> Request]

Init ==
    /\ periods = <<>>
    /\ advisoryLock = [k \in Locks |-> None]
    /\ req = [r \in Requests |-> Idle]

-----------------------------------------------------------------------------
\* A periodic payroll has an interval; the others may have one.  An interval
\* starts in the month of the period.
TemporalSemantics(data) ==
    \/ /\ data.startDate # None /\ data.endDate # None
       /\ data.startDate =< data.endDate
       /\ MonthOf(data.startDate) = data.month
    \/ data.startDate = None /\ data.endDate = None /\ ~Periodic(data)

\* A request that fails the validation ends at once.
Begin(r) ==
    /\ req[r].pc = "idle"
    /\ \E data \in Period :
          /\ TemporalSemantics(data)
          /\ req' = [req EXCEPT ![r] =
                [pc |-> IF Periodic(data) THEN "lock" ELSE "insert", data |-> data]]
    /\ UNCHANGED <<periods, advisoryLock>>

\* Mutant: the lock is named after the start date too.
LockKeyOfStart(data) ==
    IF data.startDate % 2 = 0 THEN Hash[data.company, data.payrollType]
    ELSE CHOOSE k \in Locks : k # Hash[data.company, data.payrollType]

LockKey(data) == Hash[data.company, data.payrollType]

\* pg_advisory_xact_lock waits for the transaction that holds the key.
AcquireLock(r) ==
    /\ req[r].pc = "lock"
    /\ advisoryLock[LockKey(req[r].data)] = None
    /\ advisoryLock' = [advisoryLock EXCEPT ![LockKey(req[r].data)] = r]
    /\ req' = [req EXCEPT ![r].pc = "check"]
    /\ UNCHANGED periods

\* Mutant: a period that starts on another's last day does not overlap it.
OverlapsStrictly(p, data) ==
    /\ p.company = data.company
    /\ p.payrollType = data.payrollType
    /\ p.startDate # None /\ p.endDate # None
    /\ p.startDate =< data.endDate
    /\ p.endDate > data.startDate

\* The where clause: both intervals are closed, and rows without dates never
\* match.
Overlaps(p, data) ==
    /\ p.company = data.company
    /\ p.payrollType = data.payrollType
    /\ p.startDate # None /\ p.endDate # None
    /\ p.startDate =< data.endDate
    /\ p.endDate >= data.startDate

OverlappingPeriod(data) == \E i \in 1..Len(periods) : Overlaps(periods[i], data)

FindNoOverlap(r) ==
    /\ req[r].pc = "check"
    /\ ~OverlappingPeriod(req[r].data)
    /\ req' = [req EXCEPT ![r].pc = "insert"]
    /\ UNCHANGED <<periods, advisoryLock>>

\* Mutant: a transaction that fails keeps its session's locks.
ReleaseNothing(r) ==
    /\ req' = [req EXCEPT ![r] = Idle]
    /\ UNCHANGED advisoryLock

\* The end of every transaction releases its advisory lock.
Release(r) ==
    /\ advisoryLock' = [k \in Locks |-> IF advisoryLock[k] = r THEN None ELSE advisoryLock[k]]
    /\ req' = [req EXCEPT ![r] = Idle]

Conflict(r) ==
    /\ req[r].pc = "check"
    /\ OverlappingPeriod(req[r].data)
    /\ Release(r)
    /\ UNCHANGED periods

\* The insertion and the commit, which makes the row visible.
Create(r) ==
    /\ req[r].pc = "insert"
    /\ Len(periods) < MaxPeriods
    /\ periods' = Append(periods, req[r].data)
    /\ Release(r)

\* A query fails, the wait for the lock or the transaction times out, the
\* process dies.
Rollback(r) ==
    /\ req[r].pc # "idle"
    /\ Release(r)
    /\ UNCHANGED periods

-----------------------------------------------------------------------------
Next ==
    \E r \in Requests :
        Begin(r) \/ AcquireLock(r) \/ FindNoOverlap(r) \/ Conflict(r) \/ Create(r) \/ Rollback(r)

Spec == Init /\ [][Next]_vars

\* A transaction that holds its lock ends, and PostgreSQL serves the requests
\* waiting for an advisory lock in the order of their arrival.
Fairness ==
    \A r \in Requests :
        /\ WF_vars(FindNoOverlap(r) \/ Conflict(r))
        /\ WF_vars(Create(r) \/ (req[r].pc = "insert" /\ Rollback(r)))
        /\ SF_vars(AcquireLock(r))

FairSpec == Spec /\ Fairness

-----------------------------------------------------------------------------
(* Properties.                                                             *)

\* Two periodic payrolls of one company and one type never share a day,
\* whatever requests were under way when each looked for an overlap.
Covers(p, day) == p.startDate =< day /\ day =< p.endDate

NoSharedDay ==
    \A i, j \in 1..Len(periods) :
        /\ i # j
        /\ periods[i].company = periods[j].company
        /\ periods[i].payrollType = periods[j].payrollType
        /\ Periodic(periods[i])
        => \A day \in Days : ~(Covers(periods[i], day) /\ Covers(periods[j], day))

\* A search that found no overlap stays right until the row is inserted: the
\* lock keeps every insertion that could contradict it away.
CheckStaysTrue ==
    \A r \in Requests :
        req[r].pc = "insert" /\ Periodic(req[r].data) => ~OverlappingPeriod(req[r].data)

\* Every request ends: nobody waits for an advisory lock for ever.
RequestsEnd == \A r \in Requests : req[r].pc # "idle" ~> req[r].pc = "idle"

=============================================================================
