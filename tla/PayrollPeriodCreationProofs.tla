--------------------- MODULE PayrollPeriodCreationProofs ---------------------
(***************************************************************************)
(* Proofs about PayrollPeriodCreation, for every calendar, every set of    *)
(* requests and every hash of the lock names.                              *)
(***************************************************************************)
EXTENDS PayrollPeriodCreation, TLAPS

\* A request from its validation on: its data are well formed, and a periodic
\* one holds its lock while it looks and inserts.
RequestOK(r, q) ==
    q.pc # "idle" =>
        /\ q.data \in Period
        /\ TemporalSemantics(q.data)
        /\ q.pc \in {"lock", "check"} => Periodic(q.data)
        /\ q.pc \in {"check", "insert"} /\ Periodic(q.data) => advisoryLock[LockKey(q.data)] = r

RequestsOK == \A r \in Requests : RequestOK(r, req[r])

RowsOK == \A i \in 1..Len(periods) : TemporalSemantics(periods[i])

Inv == TypeOK /\ RequestsOK /\ RowsOK /\ CheckStaysTrue /\ NoSharedDay

-----------------------------------------------------------------------------
\* An interval that shares a day with a stored one is found by the search.
LEMMA SharedDayOverlaps ==
    ASSUME NEW p \in Period, NEW data \in Period, NEW day \in Days,
           TemporalSemantics(p), TemporalSemantics(data), Periodic(data),
           p.company = data.company, p.payrollType = data.payrollType,
           Covers(p, day), Covers(data, day)
    PROVE  Overlaps(p, data)
<1>1. Periodic(p)
  BY DEF Periodic
<1>2. /\ p.startDate # None /\ p.endDate # None
      /\ data.startDate # None /\ data.endDate # None
  BY <1>1 DEF TemporalSemantics
<1>3. /\ p.startDate \in Int /\ p.endDate \in Int /\ data.startDate \in Int
      /\ data.endDate \in Int /\ day \in Int
  BY <1>2, CreationAssumption DEF Period, Days
<1> QED
  BY <1>2, <1>3 DEF Overlaps, Covers

\* A step that inserts nothing preserves the invariant if every request is
\* still in order and no request claims a search it has not made.
LEMMA NoInsertion ==
    ASSUME Inv, UNCHANGED periods, TypeOK', RequestsOK',
           \A r \in Requests :
              req'[r].pc = "insert" /\ Periodic(req'[r].data)
                 => \/ req'[r] = req[r]
                    \/ ~OverlappingPeriod(req'[r].data)
    PROVE  Inv'
<1>1. RowsOK' /\ NoSharedDay'
  BY DEF Inv, RowsOK, NoSharedDay, TemporalSemantics, Periodic, MonthOf, Covers, Days
<1>2. CheckStaysTrue'
  <2> SUFFICES ASSUME NEW r \in Requests, req'[r].pc = "insert", Periodic(req'[r].data)
               PROVE  ~OverlappingPeriod(req[r].data)'
    BY DEF CheckStaysTrue, Periodic
  <2>1. ~OverlappingPeriod(req'[r].data)
    BY DEF Inv, CheckStaysTrue
  <2> QED
    BY <2>1 DEF OverlappingPeriod, Overlaps
<1> QED
  BY <1>1, <1>2 DEF Inv

\* What the end of a transaction leaves in order.
LEMMA ReleaseKeepsOrder ==
    ASSUME TypeOK, RequestsOK, NEW r \in Requests, Release(r)
    PROVE  /\ advisoryLock' \in [Locks -> Requests \cup {None}]
           /\ req' \in [Requests -> Request]
           /\ RequestsOK'
           /\ \A x \in Requests : req'[x] = IF x = r THEN Idle ELSE req[x]
<1>1. Idle \in Request
  BY DEF Idle, Request, Steps
<1>2. /\ advisoryLock' \in [Locks -> Requests \cup {None}]
      /\ req' \in [Requests -> Request]
      /\ \A x \in Requests : req'[x] = IF x = r THEN Idle ELSE req[x]
  BY <1>1 DEF TypeOK, Release
<1>3. ASSUME NEW x \in Requests
      PROVE  RequestOK(x, req[x])'
  <2>1. CASE x = r
    BY <1>2, <2>1 DEF RequestOK, Idle
  <2>2. CASE x # r
    <3>1. req'[x] = req[x] /\ RequestOK(x, req[x])
      BY <1>2, <2>2 DEF RequestsOK
    <3>2. ASSUME req[x].pc # "idle"
          PROVE  LockKey(req[x].data) \in Locks
      BY <3>1, <3>2, CreationAssumption DEF RequestOK, LockKey, Period
    <3>3. ASSUME req[x].pc # "idle", advisoryLock[LockKey(req[x].data)] = x
          PROVE  advisoryLock'[LockKey(req[x].data)] = x
      BY <3>2, <3>3, <2>2 DEF Release
    <3> QED
      BY <3>1, <3>3 DEF RequestOK, TemporalSemantics, Periodic, LockKey, MonthOf
  <2> QED
    BY <2>1, <2>2
<1> QED
  BY <1>2, <1>3 DEF RequestsOK

-----------------------------------------------------------------------------
LEMMA BeginInv == ASSUME Inv, NEW r \in Requests, Begin(r) PROVE Inv'
<1> USE DEF Begin
<1>1. PICK data \in Period :
         /\ TemporalSemantics(data)
         /\ req' = [req EXCEPT ![r] =
               [pc |-> IF Periodic(data) THEN "lock" ELSE "insert", data |-> data]]
  OBVIOUS
<1>2. TypeOK'
  BY <1>1 DEF Inv, TypeOK, Request, Steps
<1>3. \A x \in Requests : req'[x] = IF x = r
         THEN [pc |-> IF Periodic(data) THEN "lock" ELSE "insert", data |-> data] ELSE req[x]
  BY <1>1 DEF Inv, TypeOK
<1>4. RequestsOK'
  <2> SUFFICES ASSUME NEW x \in Requests PROVE RequestOK(x, req[x])'
    BY DEF RequestsOK
  <2>1. CASE x = r
    BY <1>1, <1>3, <2>1 DEF RequestOK, TemporalSemantics, Periodic, MonthOf
  <2>2. CASE x # r
    BY <1>3, <2>2 DEF Inv, RequestsOK, RequestOK, TemporalSemantics, Periodic, LockKey, MonthOf
  <2> QED
    BY <2>1, <2>2
<1>5. \A x \in Requests : req'[x].pc = "insert" /\ Periodic(req'[x].data) => req'[x] = req[x]
  BY <1>3
<1> QED
  BY <1>2, <1>4, <1>5, NoInsertion

LEMMA AcquireInv == ASSUME Inv, NEW r \in Requests, AcquireLock(r) PROVE Inv'
<1> DEFINE key == LockKey(req[r].data)
<1> USE DEF AcquireLock
<1>0. req[r] \in Request /\ RequestOK(r, req[r])
  BY DEF Inv, TypeOK, RequestsOK
<1>1. key \in Locks /\ Periodic(req[r].data)
  BY <1>0, CreationAssumption DEF RequestOK, LockKey, Period
<1>2. \A x \in Requests : req'[x] = IF x = r THEN [req[r] EXCEPT !.pc = "check"] ELSE req[x]
  BY DEF Inv, TypeOK
<1>3. [req[r] EXCEPT !.pc = "check"] \in Request
  BY <1>0 DEF Request, Steps
<1>4. TypeOK'
  BY <1>1, <1>2, <1>3 DEF Inv, TypeOK
<1>5. RequestsOK'
  <2> SUFFICES ASSUME NEW x \in Requests PROVE RequestOK(x, req[x])'
    BY DEF RequestsOK
  <2>1. CASE x = r
    <3>1. req'[r].pc = "check" /\ req'[r].data = req[r].data
      BY <1>0, <1>2 DEF Request
    <3>2. advisoryLock'[key] = r
      BY <1>1 DEF Inv, TypeOK
    <3> QED
      BY <1>0, <1>1, <3>1, <3>2, <2>1 DEF RequestOK, TemporalSemantics, Periodic, LockKey, MonthOf
  <2>2. CASE x # r
    <3>1. req'[x] = req[x] /\ RequestOK(x, req[x])
      BY <1>2, <2>2 DEF Inv, RequestsOK
    <3>2. \A k \in Locks : advisoryLock[k] = x => advisoryLock'[k] = x
      BY <1>1, CreationAssumption DEF Inv, TypeOK
    <3>3. req[x].pc # "idle" => LockKey(req[x].data) \in Locks
      BY <3>1, CreationAssumption DEF RequestOK, LockKey, Period
    <3> QED
      BY <3>1, <3>2, <3>3 DEF RequestOK, TemporalSemantics, Periodic, LockKey, MonthOf
  <2> QED
    BY <2>1, <2>2
<1>6. \A x \in Requests : req'[x].pc = "insert" => req'[x] = req[x]
  BY <1>0, <1>2 DEF Request
<1> QED
  BY <1>4, <1>5, <1>6, NoInsertion

LEMMA FindInv == ASSUME Inv, NEW r \in Requests, FindNoOverlap(r) PROVE Inv'
<1> USE DEF FindNoOverlap
<1>0. req[r] \in Request /\ RequestOK(r, req[r])
  BY DEF Inv, TypeOK, RequestsOK
<1>1. \A x \in Requests : req'[x] = IF x = r THEN [req[r] EXCEPT !.pc = "insert"] ELSE req[x]
  BY DEF Inv, TypeOK
<1>2. /\ [req[r] EXCEPT !.pc = "insert"] \in Request
      /\ req'[r].data = req[r].data /\ req'[r].pc = "insert"
  BY <1>0, <1>1 DEF Request, Steps
<1>3. TypeOK'
  BY <1>1, <1>2 DEF Inv, TypeOK
<1>4. RequestsOK'
  <2> SUFFICES ASSUME NEW x \in Requests PROVE RequestOK(x, req[x])'
    BY DEF RequestsOK
  <2>1. CASE x = r
    BY <1>0, <1>2, <2>1 DEF RequestOK, TemporalSemantics, Periodic, LockKey, MonthOf
  <2>2. CASE x # r
    BY <1>1, <2>2 DEF Inv, RequestsOK, RequestOK, TemporalSemantics, Periodic, LockKey, MonthOf
  <2> QED
    BY <2>1, <2>2
<1>5. \A x \in Requests : req'[x] = req[x] \/ ~OverlappingPeriod(req'[x].data)
  BY <1>1, <1>2
<1> QED
  BY <1>3, <1>4, <1>5, NoInsertion

LEMMA EndInv == ASSUME Inv, NEW r \in Requests, Release(r), UNCHANGED periods PROVE Inv'
<1>1. TypeOK'
  BY ReleaseKeepsOrder DEF Inv, TypeOK
<1>2. RequestsOK' /\ \A x \in Requests : req'[x].pc = "insert" => req'[x] = req[x]
  BY ReleaseKeepsOrder DEF Inv, Idle
<1> QED
  BY <1>1, <1>2, NoInsertion

\* The new row overlaps no row that was there, and contradicts the search of no
\* other request: that request would hold the same lock.
LEMMA CreateInv == ASSUME Inv, NEW r \in Requests, Create(r) PROVE Inv'
<1> DEFINE data == req[r].data
           n == Len(periods)
<1> USE DEF Create
<1>0. /\ req[r] \in Request /\ RequestOK(r, req[r]) /\ data \in Period
      /\ TemporalSemantics(data)
  BY DEF Inv, TypeOK, RequestsOK, RequestOK
<1>1. /\ periods' \in Seq(Period) /\ Len(periods') = n + 1 /\ periods'[n + 1] = data
      /\ \A i \in 1..n : periods'[i] = periods[i]
      /\ n \in Nat
  BY <1>0 DEF Inv, TypeOK
<1>2. /\ TypeOK' /\ RequestsOK'
      /\ \A x \in Requests : req'[x] = IF x = r THEN Idle ELSE req[x]
  BY <1>1, ReleaseKeepsOrder DEF Inv, TypeOK
<1>3. RowsOK'
  BY <1>0, <1>1 DEF Inv, RowsOK, TemporalSemantics, Periodic, MonthOf
<1>4. NoSharedDay'
  <2> SUFFICES ASSUME NEW i \in 1..(n + 1), NEW j \in 1..(n + 1), i # j, NEW day \in Days,
                      periods'[i].company = periods'[j].company,
                      periods'[i].payrollType = periods'[j].payrollType,
                      Periodic(periods'[i]),
                      Covers(periods'[i], day), Covers(periods'[j], day)
               PROVE  FALSE
    BY <1>1 DEF NoSharedDay, Periodic, Covers, Days
  <2>1. CASE i \in 1..n /\ j \in 1..n
    BY <1>1, <2>1 DEF Inv, NoSharedDay
  <2>2. ASSUME NEW k \in 1..n, periods[k].company = data.company,
               periods[k].payrollType = data.payrollType,
               Periodic(data), Covers(periods[k], day), Covers(data, day)
        PROVE  FALSE
    <3>1. periods[k] \in Period /\ TemporalSemantics(periods[k])
      BY DEF Inv, TypeOK, RowsOK
    <3>2. Overlaps(periods[k], data)
      BY <1>0, <3>1, <2>2, SharedDayOverlaps
    <3> QED
      BY <3>2, <2>2 DEF Inv, CheckStaysTrue, OverlappingPeriod
  <2>3. CASE i = n + 1 /\ j \in 1..n
    BY <1>1, <2>3, <2>2
  <2>4. CASE i \in 1..n /\ j = n + 1
    <3>1. Periodic(data)
      BY <1>1, <2>4 DEF Periodic
    <3> QED
      BY <1>1, <2>4, <3>1, <2>2
  <2> QED
    BY <1>1, <2>1, <2>3, <2>4
<1>5. CheckStaysTrue'
  <2> SUFFICES ASSUME NEW x \in Requests, req'[x].pc = "insert", Periodic(req'[x].data),
                      NEW i \in 1..(n + 1), Overlaps(periods'[i], req'[x].data)
               PROVE  FALSE
    BY <1>1 DEF CheckStaysTrue, OverlappingPeriod, Periodic, Overlaps
  <2>1. x # r /\ req'[x] = req[x]
    BY <1>2 DEF Idle
  <2>2. RequestOK(x, req[x])
    BY DEF Inv, RequestsOK
  <2>3. CASE i \in 1..n
    BY <1>1, <2>1, <2>3 DEF Inv, CheckStaysTrue, OverlappingPeriod
  <2>4. CASE i = n + 1
    <3>1. data.company = req[x].data.company /\ data.payrollType = req[x].data.payrollType
      BY <1>1, <2>1, <2>4 DEF Overlaps
    <3>2. LockKey(data) = LockKey(req[x].data) /\ Periodic(data)
      BY <3>1, <2>1 DEF LockKey, Periodic
    <3>3. advisoryLock[LockKey(data)] = r /\ advisoryLock[LockKey(data)] = x
      BY <1>0, <2>1, <2>2, <3>2 DEF RequestOK
    <3> QED
      BY <3>3, <2>1
  <2> QED
    BY <1>1, <2>3, <2>4
<1> QED
  BY <1>2, <1>3, <1>4, <1>5 DEF Inv

-----------------------------------------------------------------------------
LEMMA InitInv == Init => Inv
<1> SUFFICES ASSUME Init PROVE Inv
  OBVIOUS
<1>1. TypeOK
  BY DEF Init, TypeOK, Idle, Request, Steps
<1>2. RequestsOK /\ RowsOK /\ CheckStaysTrue /\ NoSharedDay
  BY DEF Init, RequestsOK, RequestOK, RowsOK, CheckStaysTrue, NoSharedDay, Idle
<1> QED
  BY <1>1, <1>2 DEF Inv

LEMMA NextInv == Inv /\ [Next]_vars => Inv'
<1> SUFFICES ASSUME Inv, [Next]_vars PROVE Inv'
  OBVIOUS
<1>1. ASSUME NEW r \in Requests,
             Begin(r) \/ AcquireLock(r) \/ FindNoOverlap(r) \/ Conflict(r) \/ Create(r) \/ Rollback(r)
      PROVE  Inv'
  <2>1. CASE Begin(r)
    BY <2>1, BeginInv
  <2>2. CASE AcquireLock(r)
    BY <2>2, AcquireInv
  <2>3. CASE FindNoOverlap(r)
    BY <2>3, FindInv
  <2>4. CASE Conflict(r)
    BY <2>4, EndInv DEF Conflict
  <2>5. CASE Create(r)
    BY <2>5, CreateInv
  <2>6. CASE Rollback(r)
    BY <2>6, EndInv DEF Rollback
  <2> QED
    BY <1>1, <2>1, <2>2, <2>3, <2>4, <2>5, <2>6
<1>2. CASE UNCHANGED vars
  <2>1. TypeOK' /\ RequestsOK'
    BY <1>2 DEF Inv, vars, TypeOK, RequestsOK, RequestOK, TemporalSemantics, Periodic, LockKey, MonthOf
  <2> QED
    BY <1>2, <2>1, NoInsertion DEF vars
<1> QED
  BY <1>1, <1>2 DEF Next

\* The invariant holds in every reachable state.
THEOREM InvHolds == Spec => []Inv
BY InitInv, NextInv, PTL DEF Spec

\* Rows, locks and requests have the shape the code gives them.
THEOREM CreationTypeCorrect == Spec => []TypeOK
<1>1. Inv => TypeOK
  BY DEF Inv
<1> QED
  BY <1>1, InvHolds, PTL

\* Periodic payrolls of one company and type never share a day, although no
\* constraint of the database forbids it and whatever lock names collide.
THEOREM PeriodsAreDisjoint == Spec => []NoSharedDay
<1>1. Inv => NoSharedDay
  BY DEF Inv
<1> QED
  BY <1>1, InvHolds, PTL

\* Between the search for an overlap and the insertion no other request can
\* make the answer wrong.
THEOREM SearchIsStable == Spec => []CheckStaysTrue
<1>1. Inv => CheckStaysTrue
  BY DEF Inv
<1> QED
  BY <1>1, InvHolds, PTL
=============================================================================
