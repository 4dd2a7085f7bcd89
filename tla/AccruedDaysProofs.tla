-------------------------- MODULE AccruedDaysProofs --------------------------
(***************************************************************************)
(* Proofs about the 360-day calendar, for dates of any year: the bounds    *)
(* settlements rest on (no count is negative, none exceeds the months it   *)
(* is of), that the days before and after the end of a month add up, and   *)
(* that the calculator's arithmetic agrees with a count of the days.       *)
(***************************************************************************)
EXTENDS AccruedDays, FiniteSetTheorems, WellFoundedInduction, TLAPS

-----------------------------------------------------------------------------
(* Induction, stated about sets: the provers cannot instantiate predicates.  *)

\* Every set of natural numbers has a least one.
LEMMA NatLeast ==
    ASSUME NEW S \in SUBSET Nat, S # {}
    PROVE  \E m \in S : \A n \in S : m =< n
<1> DEFINE R == OpToRel(<, Nat)
<1>1. IsWellFoundedOn(R, Nat)
  BY NatLessThanWellFounded
<1>2. \A m, n \in Nat : m < n => <<m, n>> \in R
  BY DEF OpToRel
<1> HIDE DEF R
<1>3. PICK m \in S : \A n \in S : <<n, m>> \notin R
  BY <1>1, WFMin, S \subseteq Nat
<1>4. \A n \in S : ~(n < m)
  BY <1>2, <1>3
<1>5. \A n \in S : m =< n
  BY <1>4
<1> QED BY <1>5

\* Induction: a set with 0 and with the successor of each of its numbers has them all.
LEMMA NatSetInduction ==
    ASSUME NEW S, 0 \in S, \A n \in Nat : n \in S => n + 1 \in S
    PROVE  Nat \subseteq S
<1> DEFINE B == Nat \ S
<1>1. SUFFICES ASSUME B # {} PROVE FALSE
  OBVIOUS
<1>2. B \in SUBSET Nat
  OBVIOUS
<1>3. PICK m \in B : \A n \in B : m =< n
  BY <1>1, <1>2, NatLeast
<1>4. m - 1 \in Nat /\ m - 1 \notin B /\ m - 1 + 1 = m
  BY <1>3, m # 0
<1> QED
  BY <1>4

-----------------------------------------------------------------------------
(* Bounds of the count.                                                      *)

AnyDate == [year : Int, month : 1..12, day : 1..31]

\* A later of two dates is one of them, and after neither of them.
LEMMA LaterOfTwo ==
    ASSUME NEW d \in AnyDate, NEW e \in AnyDate
    PROVE  /\ Later(d, e) \in {d, e}
           /\ NotAfter(d, Later(d, e)) /\ NotAfter(e, Later(d, e))
BY DEF Later, NotAfter, AnyDate

LEMMA MonthLengths ==
    ASSUME NEW year \in Int, NEW month \in 1..12
    PROVE  MonthLength(year, month) \in 28..31
BY DEF MonthLength

LEMMA LeastOfTwo ==
    ASSUME NEW m \in Int, NEW n \in Int
    PROVE  Least(m, n) \in {m, n} /\ Least(m, n) =< m /\ Least(m, n) =< n
BY DEF Least

\* The days from the beginning of time, on the calendar of 360 days.
Ordinal(d) == d.year * 360 + d.month * 30 + Least(d.day, 30)

\* The ordinal of the day after a month of thirty days.
Turn(year, month) == year * 360 + month * 30 + 31

\* The two counts of the calculator: up to a day, and up to the end of a month.
UpTo(d, e) == Calculate360Days(d, e, FALSE)
UpToMonth(d, year, month) == Calculate360Days(d, EndOf(year, month), TRUE)

LEMMA OrdinalTyped ==
    ASSUME NEW d \in AnyDate
    PROVE  Ordinal(d) \in Int
<1>1. Least(d.day, 30) \in Int /\ d.year \in Int /\ d.month \in Int
  BY LeastOfTwo DEF AnyDate
<1> QED
  BY <1>1 DEF Ordinal

\* Up to a day the calculator counts the difference of two days and one.
LEMMA UpToADay ==
    ASSUME NEW d \in AnyDate, NEW e \in AnyDate
    PROVE  UpTo(d, e) = Ordinal(e) - Ordinal(d) + 1
<1> DEFINE p == Least(d.day, 30)
           q == Least(e.day, 30)
           days == UpTo(d, e)
<1>1. /\ p \in Int /\ d.year \in Int /\ d.month \in Int
      /\ q \in Int /\ e.year \in Int /\ e.month \in Int
  BY LeastOfTwo DEF AnyDate
<1>2. days = (e.year - d.year) * 360 + (e.month - d.month) * 30 + q - p + 1
  BY DEF UpTo, Calculate360Days
<1>3. /\ Ordinal(d) = d.year * 360 + d.month * 30 + p
      /\ Ordinal(e) = e.year * 360 + e.month * 30 + q
  BY DEF Ordinal
<1> HIDE DEF p, q, days
<1>4. days = Ordinal(e) - Ordinal(d) + 1
  BY <1>1, <1>2, <1>3
<1> QED
  BY <1>4 DEF days

\* Up to the end of a month it counts the days before the first of the next.
LEMMA UpToTheEndOfAMonth ==
    ASSUME NEW d \in AnyDate, NEW year \in Int, NEW month \in 1..12
    PROVE  UpToMonth(d, year, month) = Turn(year, month) - Ordinal(d)
<1> DEFINE p == Least(d.day, 30)
           days == UpToMonth(d, year, month)
<1>1. p \in Int /\ d.year \in Int /\ d.month \in Int /\ month \in Int
  BY LeastOfTwo DEF AnyDate
<1>2. days = (year - d.year) * 360 + (month - d.month) * 30 + 30 - p + 1
  BY DEF UpToMonth, Calculate360Days, EndOf, Date
<1>3. Ordinal(d) = d.year * 360 + d.month * 30 + p
  BY DEF Ordinal
<1> DEFINE dy == d.year
           dm == d.month
           ordinal == Ordinal(d)
           turn == Turn(year, month)
<1>4. /\ dy \in Int /\ dm \in Int
      /\ days = (year - dy) * 360 + (month - dm) * 30 + 30 - p + 1
      /\ ordinal = dy * 360 + dm * 30 + p
      /\ turn = year * 360 + month * 30 + 31
  BY <1>1, <1>2, <1>3 DEF Turn
<1> HIDE DEF p, days, dy, dm, ordinal, turn
<1>5. days = turn - ordinal
  BY <1>1, <1>4
<1> QED
  BY <1>5 DEF days, ordinal, turn

\* The payroll of a month (calculate) accrues no negative number of days,
\* and at most thirty for each month it looks back on: a severance pays a year at most,
\* a bonus a semester, whoever started whenever.
THEOREM AccruedWithinMonths ==
    ASSUME NEW start \in AnyDate, NEW year \in Int, NEW month \in 1..12,
           NEW startMonth \in 1..month
    PROVE  AccruedInPayroll(start, year, month, startMonth) \in 0..(30 * (month - startMonth + 1))
<1> DEFINE end == EndOf(year, month)
           first == FirstOf(year, startMonth)
           begin == Later(start, first)
<1>1. CASE ~NotAfter(start, end)
  BY <1>1 DEF AccruedInPayroll
<1>2. CASE NotAfter(start, end)
  <2>1. /\ end \in AnyDate /\ end.year = year /\ end.month = month /\ end.day >= 28
        /\ first \in AnyDate /\ first.year = year /\ first.month = startMonth /\ first.day = 1
    BY MonthLengths DEF EndOf, FirstOf, Date, AnyDate
  <2> HIDE DEF end, first
  <2>2. begin \in AnyDate /\ NotAfter(first, begin) /\ (begin = start \/ begin = first)
    BY <2>1, LaterOfTwo
  <2> HIDE DEF begin
  <2>3. begin.year = year /\ begin.month \in startMonth..month
    BY <1>2, <2>1, <2>2 DEF NotAfter, AnyDate
  <2>4. Least(begin.day, 30) \in 1..30
    BY <2>2, LeastOfTwo DEF AnyDate
  <2>5. AccruedInPayroll(start, year, month, startMonth)
           = (month - begin.month) * 30 + 30 - Least(begin.day, 30) + 1
    BY <1>2, <2>1, <2>3, <2>4 DEF AccruedInPayroll, Calculate360Days, begin, end, first
  <2> QED
    BY <2>3, <2>4, <2>5
<1> QED
  BY <1>1, <1>2

\* A termination (calculateUntilDate) counts a day at least for whoever has worked since
\* the first day it looks back to, even if the last day is a 31st or the end of February.
THEOREM WorkIsCounted ==
    ASSUME NEW start \in AnyDate, NEW end \in AnyDate, NEW from \in AnyDate,
           NotAfter(Later(start, from), end), NotAfter(start, end)
    PROVE  AccruedUntil(start, end, from) \in Nat \ {0}
<1> DEFINE begin == Later(start, from)
<1>1. begin \in AnyDate /\ NotAfter(begin, end)
  BY LaterOfTwo
<1>2. AccruedUntil(start, end, from) = UpTo(begin, end)
  BY DEF AccruedUntil, UpTo
<1> HIDE DEF begin
<1>3. /\ Least(begin.day, 30) \in 1..30 /\ Least(end.day, 30) \in 1..30
      /\ begin.day =< end.day => Least(begin.day, 30) =< Least(end.day, 30)
  BY <1>1, LeastOfTwo DEF AnyDate, Least
<1>4. /\ begin.year \in Int /\ end.year \in Int
      /\ begin.month \in 1..12 /\ end.month \in 1..12
  BY <1>1 DEF AnyDate
<1>5. Ordinal(begin) =< Ordinal(end)
  <2> DEFINE p == Least(begin.day, 30)
             q == Least(end.day, 30)
  <2>1. \/ begin.year < end.year
        \/ begin.year = end.year /\ begin.month < end.month
        \/ begin.year = end.year /\ begin.month = end.month /\ p =< q
    BY <1>1, <1>3 DEF NotAfter
  <2>2. p \in 1..30 /\ q \in 1..30
    BY <1>3
  <2>3. /\ Ordinal(begin) = begin.year * 360 + begin.month * 30 + p
        /\ Ordinal(end) = end.year * 360 + end.month * 30 + q
    BY DEF Ordinal
  <2> HIDE DEF p, q
  <2> DEFINE by == begin.year
             bm == begin.month
             ey == end.year
             em == end.month
  <2>4. /\ by \in Int /\ ey \in Int /\ bm \in 1..12 /\ em \in 1..12
        /\ \/ by < ey
           \/ by = ey /\ bm < em
           \/ by = ey /\ bm = em /\ p =< q
    BY <1>4, <2>1
  <2>5. /\ Ordinal(begin) = by * 360 + bm * 30 + p
        /\ Ordinal(end) = ey * 360 + em * 30 + q
    BY <2>3
  <2> HIDE DEF by, bm, ey, em
  <2>6. by * 360 + bm * 30 + p =< ey * 360 + em * 30 + q
    BY <2>2, <2>4
  <2> QED
    BY <2>5, <2>6
<1> DEFINE days == UpTo(begin, end)
<1>6. AccruedUntil(start, end, from) = days /\ days = Ordinal(end) - Ordinal(begin) + 1
  BY <1>1, <1>2, UpToADay
<1>7. Ordinal(begin) \in Int /\ Ordinal(end) \in Int
  BY <1>1, OrdinalTyped
<1> HIDE DEF days
<1> QED
  BY <1>5, <1>6, <1>7

\* What the payrolls have counted up to the end of a month and what is left to a
\* termination from the next month on are together the days from the first to the last:
\* nothing is counted twice and nothing is lost at the turn of a month or a year.
THEOREM TurnsOfMonthsLoseNothing ==
    ASSUME NEW start \in AnyDate, NEW end \in AnyDate, NEW year \in Int, NEW month \in 1..12
    PROVE  LET next == IF month = 12 THEN FirstOf(year + 1, 1) ELSE FirstOf(year, month + 1)
           IN  Calculate360Days(start, EndOf(year, month), TRUE)
               + Calculate360Days(next, end, FALSE)
                   = Calculate360Days(start, end, FALSE)
<1> DEFINE next == IF month = 12 THEN FirstOf(year + 1, 1) ELSE FirstOf(year, month + 1)
<1>1. next \in AnyDate /\ Ordinal(next) = Turn(year, month)
  <2>1. Least(1, 30) = 1
    BY DEF Least
  <2>2. CASE month = 12
    BY <2>1, <2>2 DEF FirstOf, Date, AnyDate, Ordinal, Turn
  <2>3. CASE month # 12
    BY <2>1, <2>3 DEF FirstOf, Date, AnyDate, Ordinal, Turn
  <2> QED
    BY <2>2, <2>3
<1> HIDE DEF next
<1>2. Ordinal(start) \in Int /\ Ordinal(end) \in Int /\ Ordinal(next) \in Int
  BY <1>1, OrdinalTyped
<1>3. UpToMonth(start, year, month) = Turn(year, month) - Ordinal(start)
  BY UpToTheEndOfAMonth
<1>4. UpTo(next, end) = Ordinal(end) - Ordinal(next) + 1
  BY <1>1, UpToADay
<1>5. UpTo(start, end) = Ordinal(end) - Ordinal(start) + 1
  BY UpToADay
<1> DEFINE before == UpToMonth(start, year, month)
           after == UpTo(next, end)
           together == UpTo(start, end)
           first == Ordinal(start)
           last == Ordinal(end)
           turn == Ordinal(next)
<1>6. /\ before = turn - first
      /\ after = last - turn + 1 /\ together = last - first + 1
  BY <1>1, <1>3, <1>4, <1>5
<1>7. first \in Int /\ last \in Int /\ turn \in Int
  BY <1>2
<1> HIDE DEF before, after, together, first, last, turn
<1>8. before + after = together
  BY <1>6, <1>7
<1> QED
  BY <1>8 DEF next, before, after, together, UpTo, UpToMonth

-----------------------------------------------------------------------------
(* The count against the calendar, day by day.                               *)

\* Day p is the day before day e.
Follows(p, e) ==
    \/ p.year = e.year /\ p.month = e.month /\ p.day + 1 = e.day
    \/ /\ e.day = 1 /\ p.day = MonthLength(p.year, p.month)
       /\ \/ p.year = e.year /\ p.month + 1 = e.month
          \/ p.year + 1 = e.year /\ p.month = 12 /\ e.month = 1

\* Days in their order, with gaps where months are short.
Rank(d) == d.year * 372 + d.month * 31 + d.day

\* What a set of days counts for, and what one day does.
CountOf(worked) ==
    Cardinality({d \in worked : d.day # 31})
    + 2 * Cardinality({d \in worked : LastOfFebruary(d) /\ ~Leap(d.year)})
    + Cardinality({d \in worked : LastOfFebruary(d) /\ Leap(d.year)})

Weight(d) ==
    (IF d.day # 31 THEN 1 ELSE 0)
    + 2 * (IF LastOfFebruary(d) /\ ~Leap(d.year) THEN 1 ELSE 0)
    + (IF LastOfFebruary(d) /\ Leap(d.year) THEN 1 ELSE 0)

LEMMA CalendarTyped ==
    ASSUME NEW d \in Calendar
    PROVE  /\ d \in AnyDate
           /\ d.year \in Years /\ d.year \in Int /\ d.month \in 1..12 /\ d.day \in 1..31
           /\ d.day =< MonthLength(d.year, d.month)
           /\ d = Date(d.year, d.month, d.day)
BY YearsAssumption DEF Calendar, AnyDate, Date

LEMMA InCalendar ==
    ASSUME NEW y \in Years, NEW m \in 1..12, NEW n \in 1..31, n =< MonthLength(y, m)
    PROVE  Date(y, m, n) \in Calendar
BY DEF Date, Calendar

\* Every day after the first has a day before it.
LEMMA DayBefore ==
    ASSUME NEW start \in Calendar, NEW e \in Calendar, NotAfter(start, e), start # e
    PROVE  \E p \in Calendar : NotAfter(start, p) /\ Follows(p, e)
<1> DEFINE sy == start.year
           sm == start.month
           sd == start.day
           y == e.year
           m == e.month
           n == e.day
<1>1. /\ sy \in Years /\ sy \in Int /\ sm \in 1..12 /\ sd \in 1..31 /\ sd =< MonthLength(sy, sm)
      /\ y \in Years /\ y \in Int /\ m \in 1..12 /\ n \in 1..31 /\ n =< MonthLength(y, m)
      /\ start = Date(sy, sm, sd) /\ e = Date(y, m, n)
  BY CalendarTyped
<1>2. \/ sy < y
      \/ sy = y /\ sm < m
      \/ sy = y /\ sm = m /\ sd < n
  <2>1. ~(sy = y /\ sm = m /\ sd = n)
    BY <1>1
  <2>2. \/ sy < y
        \/ sy = y /\ sm < m
        \/ sy = y /\ sm = m /\ sd =< n
    BY DEF NotAfter
  <2> HIDE DEF sy, sm, sd, y, m, n
  <2> QED BY <1>1, <2>1, <2>2
<1>3. ASSUME NEW py \in Years, NEW pm \in 1..12, NEW pn \in 1..31, pn =< MonthLength(py, pm),
             \/ sy < py
             \/ sy = py /\ sm < pm
             \/ sy = py /\ sm = pm /\ sd =< pn,
             \/ py = y /\ pm = m /\ pn + 1 = n
             \/ /\ n = 1 /\ pn = MonthLength(py, pm)
                /\ \/ py = y /\ pm + 1 = m
                   \/ py + 1 = y /\ pm = 12 /\ m = 1
      PROVE  \E p \in Calendar : NotAfter(start, p) /\ Follows(p, e)
  <2>1. Date(py, pm, pn) \in Calendar
    BY <1>3, InCalendar
  <2>2. NotAfter(start, Date(py, pm, pn))
    BY <1>3 DEF NotAfter, Date
  <2>3. Follows(Date(py, pm, pn), e)
    BY <1>3 DEF Follows, Date
  <2> QED BY <2>1, <2>2, <2>3
<1> HIDE DEF sy, sm, sd, y, m, n
<1>4. CASE n > 1
  <2>1. n - 1 \in 1..31 /\ n - 1 =< MonthLength(y, m)
    BY <1>1, <1>4, MonthLengths
  <2>2. \/ sy < y
        \/ sy = y /\ sm < m
        \/ sy = y /\ sm = m /\ sd =< n - 1
    BY <1>1, <1>2
  <2>3. n - 1 + 1 = n
    BY <1>1
  <2> QED BY <1>1, <1>3, <2>1, <2>2, <2>3
<1>5. CASE n = 1 /\ m > 1
  <2> DEFINE k == m - 1
             last == MonthLength(y, k)
  <2>1. k \in 1..12 /\ k + 1 = m
    BY <1>1, <1>5
  <2>2. last \in 1..31 /\ last =< last
    BY <1>1, <2>1, MonthLengths
  <2>3. \/ sy < y
        \/ sy = y /\ sm < k
        \/ sy = y /\ sm = k /\ sd =< last
    BY <1>1, <1>2, <1>5, <2>1
  <2> HIDE DEF k
  <2> QED BY <1>1, <1>3, <1>5, <2>1, <2>2, <2>3
<1>6. CASE n = 1 /\ m = 1
  <2> DEFINE z == y - 1
             last == MonthLength(z, 12)
  <2>1. sy =< z /\ z \in Int /\ z + 1 = y
    BY <1>1, <1>2, <1>6
  <2>2. z \in Years
    BY <1>1, <2>1, YearsAssumption
  <2>3. last = 31
    BY DEF MonthLength
  <2>4. \/ sy < z
        \/ sy = z /\ sm < 12
        \/ sy = z /\ sm = 12 /\ sd =< last
    BY <1>1, <2>1, <2>3
  <2> HIDE DEF z
  <2> QED BY <1>1, <1>3, <1>6, <2>1, <2>2, <2>3, <2>4
<1> QED BY <1>1, <1>4, <1>5, <1>6

LEMMA RankGrows ==
    ASSUME NEW p \in Calendar, NEW e \in Calendar, Follows(p, e)
    PROVE  Rank(p) < Rank(e) /\ Rank(p) \in Int /\ Rank(e) \in Int
<1> DEFINE py == p.year
           pm == p.month
           pn == p.day
           y == e.year
           m == e.month
           n == e.day
<1>1. /\ py \in Int /\ pm \in 1..12 /\ pn \in 1..31
      /\ y \in Int /\ m \in 1..12 /\ n \in 1..31
  BY CalendarTyped
<1>2. \/ py = y /\ pm = m /\ pn + 1 = n
      \/ n = 1 /\ py = y /\ pm + 1 = m
      \/ n = 1 /\ py + 1 = y /\ pm = 12 /\ m = 1
  BY DEF Follows
<1>3. Rank(p) = py * 372 + pm * 31 + pn /\ Rank(e) = y * 372 + m * 31 + n
  BY DEF Rank
<1> HIDE DEF py, pm, pn, y, m, n
<1>4. py * 372 + pm * 31 + pn < y * 372 + m * 31 + n \/ (pn = 31 /\ n = 1)
  BY <1>1, <1>2
<1>5. py * 372 + pm * 31 + pn < y * 372 + m * 31 + n
  BY <1>1, <1>2, <1>4
<1> QED BY <1>1, <1>3, <1>5

LEMMA RankOfNotAfter ==
    ASSUME NEW d \in Calendar, NEW e \in Calendar, NotAfter(d, e)
    PROVE  Rank(d) =< Rank(e) /\ Rank(d) \in Int /\ Rank(e) \in Int
<1> DEFINE dy == d.year
           dm == d.month
           dn == d.day
           y == e.year
           m == e.month
           n == e.day
<1>1. /\ dy \in Int /\ dm \in 1..12 /\ dn \in 1..31
      /\ y \in Int /\ m \in 1..12 /\ n \in 1..31
  BY CalendarTyped
<1>2. \/ dy < y
      \/ dy = y /\ dm < m
      \/ dy = y /\ dm = m /\ dn =< n
  BY DEF NotAfter
<1>3. Rank(d) = dy * 372 + dm * 31 + dn /\ Rank(e) = y * 372 + m * 31 + n
  BY DEF Rank
<1> HIDE DEF dy, dm, dn, y, m, n
<1>4. dy * 372 + dm * 31 + dn =< y * 372 + m * 31 + n
  BY <1>1, <1>2
<1> QED BY <1>1, <1>3, <1>4

\* The days up to a day are those up to the day before, and the day.
LEMMA DaysUpToTheNext ==
    ASSUME NEW start \in Calendar, NEW p \in Calendar, NEW e \in Calendar,
           NotAfter(start, p), Follows(p, e)
    PROVE  DaysBetween(start, e) = DaysBetween(start, p) \cup {e} /\ e \notin DaysBetween(start, p)
<1>1. ~NotAfter(e, p)
  BY RankGrows, RankOfNotAfter, Rank(p) < Rank(e), Rank(p) \in Int, Rank(e) \in Int
<1>2. \A d \in Calendar : NotAfter(d, e) <=> NotAfter(d, p) \/ d = e
  <2> TAKE d \in Calendar
  <2> DEFINE dy == d.year
             dm == d.month
             dn == d.day
             py == p.year
             pm == p.month
             pn == p.day
             y == e.year
             m == e.month
             n == e.day
             length == MonthLength(py, pm)
  <2>1. /\ dy \in Int /\ dm \in 1..12 /\ dn \in 1..31 /\ dn =< MonthLength(dy, dm)
        /\ py \in Int /\ pm \in 1..12 /\ pn \in 1..31 /\ length \in Int
        /\ y \in Int /\ m \in 1..12 /\ n \in 1..31
    BY CalendarTyped, MonthLengths
  <2>2. \/ py = y /\ pm = m /\ pn + 1 = n
        \/ n = 1 /\ pn = length /\ py = y /\ pm + 1 = m
        \/ n = 1 /\ pn = length /\ py + 1 = y /\ pm = 12 /\ m = 1
    BY DEF Follows
  <2>3. NotAfter(d, e) <=> (dy < y \/ (dy = y /\ dm < m) \/ (dy = y /\ dm = m /\ dn =< n))
    BY DEF NotAfter
  <2>4. NotAfter(d, p) <=> (dy < py \/ (dy = py /\ dm < pm) \/ (dy = py /\ dm = pm /\ dn =< pn))
    BY DEF NotAfter
  <2>5. d = e <=> dy = y /\ dm = m /\ dn = n
    <3>1. d = Date(dy, dm, dn) /\ e = Date(y, m, n)
      BY CalendarTyped
    <3> HIDE DEF dy, dm, dn, y, m, n
    <3> QED BY <3>1 DEF Date
  <2>6. dy = py /\ dm = pm => dn =< length
    BY <2>1
  <2> HIDE DEF dy, dm, dn, py, pm, pn, y, m, n, length
  <2>7. (dy < y \/ (dy = y /\ dm < m) \/ (dy = y /\ dm = m /\ dn =< n))
           <=> (dy < py \/ (dy = py /\ dm < pm) \/ (dy = py /\ dm = pm /\ dn =< pn))
               \/ (dy = y /\ dm = m /\ dn = n)
    <3>1. CASE py = y /\ pm = m /\ pn + 1 = n
      BY <2>1, <3>1
    <3>2. CASE n = 1 /\ pn = length /\ py = y /\ pm + 1 = m
      BY <2>1, <2>6, <3>2
    <3>3. CASE n = 1 /\ pn = length /\ py + 1 = y /\ pm = 12 /\ m = 1
      BY <2>1, <2>6, <3>3
    <3> QED BY <2>2, <3>1, <3>2, <3>3
  <2> QED BY <2>3, <2>4, <2>5, <2>7
<1>3. NotAfter(start, e)
  BY <1>2
<1> QED BY <1>1, <1>2, <1>3 DEF DaysBetween

\* A day more counts for its weight.
LEMMA CountOfOneMore ==
    ASSUME NEW S, IsFiniteSet(S), NEW e, e \notin S
    PROVE  CountOf(S \cup {e}) = CountOf(S) + Weight(e) /\ CountOf(S) \in Nat
<1> DEFINE A(T) == {d \in T : d.day # 31}
           B(T) == {d \in T : LastOfFebruary(d) /\ ~Leap(d.year)}
           C(T) == {d \in T : LastOfFebruary(d) /\ Leap(d.year)}
<1>1. /\ IsFiniteSet(A(S)) /\ IsFiniteSet(B(S)) /\ IsFiniteSet(C(S))
  BY FS_Subset, A(S) \subseteq S, B(S) \subseteq S, C(S) \subseteq S
<1>2. /\ Cardinality(A(S)) \in Nat /\ Cardinality(B(S)) \in Nat /\ Cardinality(C(S)) \in Nat
  BY <1>1, FS_CardinalityType
<1>3. Cardinality(A(S \cup {e})) = Cardinality(A(S)) + (IF e.day # 31 THEN 1 ELSE 0)
  <2>1. CASE e.day # 31
    <3>1. A(S \cup {e}) = A(S) \cup {e} /\ e \notin A(S)
      BY <2>1
    <3> HIDE DEF A
    <3> QED BY <1>1, <2>1, <3>1, FS_AddElement
  <2>2. CASE ~(e.day # 31)
    <3>1. A(S \cup {e}) = A(S)
      BY <2>2
    <3> HIDE DEF A
    <3> QED BY <1>2, <2>2, <3>1
  <2> QED BY <2>1, <2>2
<1>4. Cardinality(B(S \cup {e}))
         = Cardinality(B(S)) + (IF LastOfFebruary(e) /\ ~Leap(e.year) THEN 1 ELSE 0)
  <2>1. CASE LastOfFebruary(e) /\ ~Leap(e.year)
    <3>1. B(S \cup {e}) = B(S) \cup {e} /\ e \notin B(S)
      BY <2>1
    <3> HIDE DEF B
    <3> QED BY <1>1, <2>1, <3>1, FS_AddElement
  <2>2. CASE ~(LastOfFebruary(e) /\ ~Leap(e.year))
    <3>1. B(S \cup {e}) = B(S)
      BY <2>2
    <3> HIDE DEF B
    <3> QED BY <1>2, <2>2, <3>1
  <2> QED BY <2>1, <2>2
<1>5. Cardinality(C(S \cup {e}))
         = Cardinality(C(S)) + (IF LastOfFebruary(e) /\ Leap(e.year) THEN 1 ELSE 0)
  <2>1. CASE LastOfFebruary(e) /\ Leap(e.year)
    <3>1. C(S \cup {e}) = C(S) \cup {e} /\ e \notin C(S)
      BY <2>1
    <3> HIDE DEF C
    <3> QED BY <1>1, <2>1, <3>1, FS_AddElement
  <2>2. CASE ~(LastOfFebruary(e) /\ Leap(e.year))
    <3>1. C(S \cup {e}) = C(S)
      BY <2>2
    <3> HIDE DEF C
    <3> QED BY <1>2, <2>2, <3>1
  <2> QED BY <2>1, <2>2
<1>6. /\ CountOf(S) = Cardinality(A(S)) + 2 * Cardinality(B(S)) + Cardinality(C(S))
      /\ CountOf(S \cup {e}) = Cardinality(A(S \cup {e})) + 2 * Cardinality(B(S \cup {e}))
                               + Cardinality(C(S \cup {e}))
  BY DEF CountOf
<1> HIDE DEF A, B, C
<1> QED BY <1>2, <1>3, <1>4, <1>5, <1>6 DEF Weight

\* From a day to the next the ordinals grow by its weight, February's end aside.
LEMMA OrdinalGrows ==
    ASSUME NEW p \in Calendar, NEW e \in Calendar, Follows(p, e)
    PROVE  Ordinal(e) + Lost(e) = Ordinal(p) + Lost(p) + Weight(e)
<1> DEFINE py == p.year
           pm == p.month
           pn == p.day
           y == e.year
           m == e.month
           n == e.day
           length == MonthLength(py, pm)
           end == MonthLength(y, m)
<1>1. /\ py \in Int /\ pm \in 1..12 /\ pn \in 1..31 /\ length \in 28..31 /\ pn =< length
      /\ y \in Int /\ m \in 1..12 /\ n \in 1..31 /\ end \in 28..31 /\ n =< end
  BY CalendarTyped, MonthLengths
<1>2. \/ py = y /\ pm = m /\ pn + 1 = n
      \/ n = 1 /\ pn = length /\ py = y /\ pm + 1 = m
      \/ n = 1 /\ pn = length /\ py + 1 = y /\ pm = 12 /\ m = 1
  BY DEF Follows
<1>3. /\ Ordinal(p) = py * 360 + pm * 30 + (IF pn =< 30 THEN pn ELSE 30)
      /\ Ordinal(e) = y * 360 + m * 30 + (IF n =< 30 THEN n ELSE 30)
  BY DEF Ordinal, Least
<1>4. /\ pm = 2 => length = IF Leap(py) THEN 29 ELSE 28
      /\ pm # 2 => length \in {30, 31}
      /\ m = 2 => end = IF Leap(y) THEN 29 ELSE 28
      /\ m # 2 => end \in {30, 31}
  BY <1>1 DEF MonthLength
<1>5. /\ Lost(p) = IF pm = 2 /\ pn = length THEN 30 - pn ELSE 0
      /\ Lost(e) = IF m = 2 /\ n = end THEN 30 - n ELSE 0
  BY DEF Lost, LastOfFebruary, Lacking
<1>6. Weight(e) = (IF n # 31 THEN 1 ELSE 0) + 2 * (IF m = 2 /\ n = end /\ ~Leap(y) THEN 1 ELSE 0)
                  + (IF m = 2 /\ n = end /\ Leap(y) THEN 1 ELSE 0)
  BY DEF Weight, LastOfFebruary
<1>7. py = y /\ pm = m => length = end
  OBVIOUS
<1> HIDE DEF py, pm, pn, y, m, n, length, end
<1>8. Weight(e) = (IF n # 31 THEN 1 ELSE 0) + (IF m = 2 /\ n = end THEN 30 - end ELSE 0)
  BY <1>1, <1>4, <1>6
<1>9. CASE py = y /\ pm = m /\ pn + 1 = n
  BY <1>1, <1>3, <1>5, <1>7, <1>8, <1>9
<1>10. CASE n = 1 /\ pn = length /\ ((py = y /\ pm + 1 = m) \/ (py + 1 = y /\ pm = 12 /\ m = 1))
  BY <1>1, <1>3, <1>4, <1>5, <1>8, <1>10
<1>11. \/ py = y /\ pm = m /\ pn + 1 = n
       \/ n = 1 /\ pn = length /\ ((py = y /\ pm + 1 = m) \/ (py + 1 = y /\ pm = 12 /\ m = 1))
  BY <1>2
<1> QED BY <1>9, <1>10, <1>11

\* The count of days, by induction from the first day to the last: the ordinals of the
\* 360-day calendar count the same.
LEMMA CountIsOrdinal ==
    ASSUME NEW start \in Calendar, NEW end \in Calendar, NotAfter(start, end)
    PROVE  CountedDays(start, end) + Dawn(start) = Ordinal(end) - Ordinal(start) + 1 + Lost(end)
<1> DEFINE worked(e) == DaysBetween(start, e)
           Claim(e) == /\ IsFiniteSet(worked(e)) /\ CountOf(worked(e)) \in Nat
                       /\ CountOf(worked(e)) + Dawn(start)
                             = Ordinal(e) - Ordinal(start) + 1 + Lost(e)
           Near(e, n) == NotAfter(start, e) /\ Rank(e) - Rank(start) =< n
           Good == {n \in Nat : \A e \in Calendar : Near(e, n) => Claim(e)}
<1>1. Claim(start)
  <2>1. worked(start) = {start}
    <3>1. \A d \in Calendar : NotAfter(start, d) /\ NotAfter(d, start) => d = start
      BY CalendarTyped DEF NotAfter
    <3>2. NotAfter(start, start)
      BY CalendarTyped DEF NotAfter
    <3> QED BY <3>1, <3>2 DEF DaysBetween
  <2>2. IsFiniteSet({}) /\ CountOf({}) = 0
    BY FS_EmptySet DEF CountOf
  <2>3. CountOf({start}) = Weight(start)
    <3>1. CountOf({} \cup {start}) = CountOf({}) + Weight(start)
      BY <2>2, CountOfOneMore
    <3>2. Weight(start) \in Int
      BY DEF Weight
    <3> QED BY <2>2, <3>1, <3>2
  <2>4. IsFiniteSet({start})
    BY FS_Singleton
  <2>5. Weight(start) + Dawn(start) = 1 + Lost(start) /\ Weight(start) \in Nat
    <3> DEFINE m == start.month
               n == start.day
               length == MonthLength(start.year, m)
    <3>1. n \in 1..31 /\ n =< length /\ length \in 28..31
      BY CalendarTyped, MonthLengths
    <3>2. m = 2 => length = IF Leap(start.year) THEN 29 ELSE 28
      BY DEF MonthLength
    <3>3. /\ Lost(start) = IF m = 2 /\ n = length THEN 30 - n ELSE 0
          /\ Dawn(start) = IF n = 31 THEN 1 ELSE 0
          /\ Weight(start) = (IF n # 31 THEN 1 ELSE 0)
                + 2 * (IF m = 2 /\ n = length /\ ~Leap(start.year) THEN 1 ELSE 0)
                + (IF m = 2 /\ n = length /\ Leap(start.year) THEN 1 ELSE 0)
      <4>1. LastOfFebruary(start) <=> m = 2 /\ n = length
        BY DEF LastOfFebruary
      <4> QED BY <4>1 DEF Lost, Lacking, Dawn, Weight
    <3> HIDE DEF m, n, length
    <3> QED BY <3>1, <3>2, <3>3
  <2>6. Ordinal(start) \in Int /\ Lost(start) \in Int
    BY OrdinalTyped, CalendarTyped DEF Lost, Lacking
  <2> QED BY <2>1, <2>3, <2>4, <2>5, <2>6
<1>2. ASSUME NEW p \in Calendar, NEW e \in Calendar, NotAfter(start, p), Follows(p, e), Claim(p)
      PROVE  Claim(e)
  <2>1. worked(e) = worked(p) \cup {e} /\ e \notin worked(p)
    BY <1>2, DaysUpToTheNext
  <2> HIDE DEF worked
  <2>2. CountOf(worked(e)) = CountOf(worked(p)) + Weight(e) /\ IsFiniteSet(worked(e))
    BY <1>2, <2>1, CountOfOneMore, FS_AddElement
  <2>3. Ordinal(e) + Lost(e) = Ordinal(p) + Lost(p) + Weight(e)
    BY <1>2, OrdinalGrows
  <2>4. /\ Ordinal(e) \in Int /\ Ordinal(p) \in Int /\ Ordinal(start) \in Int
        /\ Lost(e) \in Int /\ Lost(p) \in Int /\ Weight(e) \in Nat /\ Dawn(start) \in Int
    BY OrdinalTyped, CalendarTyped DEF Lost, Lacking, Weight, Dawn
  <2> QED BY <1>2, <2>2, <2>3, <2>4
<1> HIDE DEF Claim
<1>3. ASSUME NEW e \in Calendar, NotAfter(start, e), start # e
      PROVE  \E p \in Calendar :
                /\ NotAfter(start, p) /\ Follows(p, e)
                /\ Rank(p) < Rank(e) /\ Rank(start) =< Rank(p)
                /\ Rank(p) \in Int /\ Rank(e) \in Int /\ Rank(start) \in Int
  BY <1>3, DayBefore, RankGrows, RankOfNotAfter
<1>4. 0 \in Good
  <2>1. ASSUME NEW e \in Calendar, Near(e, 0) PROVE e = start
    BY <1>3, <2>1
  <2> QED BY <1>1, <2>1
<1>5. ASSUME NEW n \in Nat, n \in Good
      PROVE  n + 1 \in Good
  <2>1. SUFFICES ASSUME NEW e \in Calendar, Near(e, n + 1), e # start
                 PROVE  Claim(e)
    BY <1>1
  <2>2. PICK p \in Calendar :
           /\ NotAfter(start, p) /\ Follows(p, e)
           /\ Rank(p) < Rank(e) /\ Rank(start) =< Rank(p)
           /\ Rank(p) \in Int /\ Rank(e) \in Int /\ Rank(start) \in Int
    BY <1>3, <2>1
  <2>3. Near(p, n)
    BY <2>1, <2>2
  <2>4. Claim(p)
    BY <1>5, <2>3
  <2> QED BY <1>2, <2>2, <2>4
<1> HIDE DEF Good
<1>6. Nat \subseteq Good
  BY <1>4, <1>5, NatSetInduction
<1>7. Rank(end) - Rank(start) \in Nat
  BY RankOfNotAfter
<1>8. Claim(end)
  BY <1>6, <1>7 DEF Good
<1>9. CountedDays(start, end) = CountOf(worked(end))
  BY DEF CountedDays, CountOf
<1> QED BY <1>8, <1>9 DEF Claim

\* What a payroll of a month counts are the days of work up to the end of the month.
THEOREM PayrollCountsDays ==
    ASSUME NEW start \in Calendar, NEW year \in Years, NEW month \in 1..12,
           NEW startMonth \in 1..month
    PROVE  AccruedInPayroll(start, year, month, startMonth)
               = WorkDays(Later(start, FirstOf(year, startMonth)), EndOf(year, month))
<1> DEFINE end == EndOf(year, month)
           first == FirstOf(year, startMonth)
           begin == Later(start, first)
           length == MonthLength(year, month)
<1>1. /\ year \in Int /\ month \in Int /\ startMonth \in 1..12 /\ length \in 28..31
      /\ length \in 1..31 /\ length =< length
      /\ MonthLength(year, startMonth) \in 28..31
  BY YearsAssumption, MonthLengths
<1>2. end \in Calendar /\ first \in Calendar
  <2>1. 1 \in 1..31 /\ 1 =< MonthLength(year, startMonth)
    BY <1>1
  <2> HIDE DEF length
  <2> QED BY <1>1, <2>1, InCalendar DEF EndOf, FirstOf, length
<1>3. /\ begin \in Calendar /\ (begin = start \/ begin = first)
      /\ NotAfter(start, begin) /\ NotAfter(first, begin)
  BY <1>2, LaterOfTwo, CalendarTyped
<1>4. NotAfter(first, end)
  BY <1>1 DEF NotAfter, FirstOf, EndOf, Date
<1>5. NotAfter(begin, end) <=> NotAfter(start, end)
  <2>1. \A a, b, c \in Calendar : NotAfter(a, b) /\ NotAfter(b, c) => NotAfter(a, c)
    BY CalendarTyped DEF NotAfter
  <2> HIDE DEF begin, first, end
  <2> QED BY <1>2, <1>3, <1>4, <2>1
<1>6. CASE ~NotAfter(start, end)
  BY <1>5, <1>6 DEF AccruedInPayroll, WorkDays
<1>7. CASE NotAfter(start, end)
  <2>1. AccruedInPayroll(start, year, month, startMonth) = UpToMonth(begin, year, month)
    BY <1>7 DEF AccruedInPayroll, UpToMonth
  <2>2. WorkDays(begin, end) = CountedDays(begin, end) + Dawn(begin)
    BY <1>5, <1>7 DEF WorkDays
  <2> HIDE DEF begin, first, end
  <2>3. CountedDays(begin, end) + Dawn(begin) = Ordinal(end) - Ordinal(begin) + 1 + Lost(end)
    BY <1>2, <1>3, <1>5, <1>7, CountIsOrdinal
  <2>4. UpToMonth(begin, year, month) = Turn(year, month) - Ordinal(begin)
    BY <1>1, <1>3, CalendarTyped, UpToTheEndOfAMonth
  <2>5. Ordinal(end) + Lost(end) + 1 = Turn(year, month)
    <3>1. end.year = year /\ end.month = month /\ end.day = length
      BY DEF end, EndOf, Date
    <3>2. /\ Ordinal(end) = year * 360 + month * 30 + (IF length =< 30 THEN length ELSE 30)
          /\ Lost(end) = IF month = 2 THEN 30 - length ELSE 0
      BY <3>1 DEF Ordinal, Least, Lost, LastOfFebruary, Lacking
    <3>3. month # 2 => length \in {30, 31}
      BY DEF MonthLength
    <3>4. year \in Int /\ month \in Int /\ length \in 28..31
      BY <1>1
    <3> DEFINE ordinal == Ordinal(end)
               lost == Lost(end)
               turn == Turn(year, month)
    <3>5. /\ ordinal = year * 360 + month * 30 + (IF length =< 30 THEN length ELSE 30)
          /\ lost = IF month = 2 THEN 30 - length ELSE 0
          /\ turn = year * 360 + month * 30 + 31
      BY <3>2 DEF Turn
    <3> HIDE DEF length, ordinal, lost, turn
    <3>6. ordinal + lost + 1 = turn
      <4>1. CASE month = 2
        <5>1. length =< 30 => ordinal = year * 360 + month * 30 + length
          BY <3>5
        <5>2. length \in 28..31 /\ lost = 30 - length
          BY <3>4, <3>5, <4>1
        <5>3. length =< 29
          BY <4>1 DEF length, MonthLength
        <5> QED BY <3>4, <3>5, <5>1, <5>2, <5>3
      <4>2. CASE month # 2
        BY <3>3, <3>4, <3>5, <4>2
      <4> QED BY <4>1, <4>2
    <3> QED BY <3>6 DEF ordinal, lost, turn
  <2>6. Ordinal(end) \in Int /\ Ordinal(begin) \in Int /\ Lost(end) \in Int
    BY <1>2, <1>3, OrdinalTyped, CalendarTyped DEF Lost, Lacking
  <2>7. UpToMonth(begin, year, month) = CountedDays(begin, end) + Dawn(begin)
    BY <2>3, <2>4, <2>5, <2>6
  <2> QED BY <2>1, <2>2, <2>7 DEF begin, end, first
<1> QED BY <1>6, <1>7

\* What a termination counts are the days of work to the last, without what the last
\* day of February counts for more.
THEOREM TerminationCountsDays ==
    ASSUME NEW start \in Calendar, NEW end \in Calendar, NotAfter(start, end)
    PROVE  AccruedUntil(start, end, start) = WorkDays(start, end) - Lost(end)
<1>1. Later(start, start) = start
  BY DEF Later
<1>2. AccruedUntil(start, end, start) = UpTo(start, end)
  BY <1>1 DEF AccruedUntil, UpTo
<1>3. UpTo(start, end) = Ordinal(end) - Ordinal(start) + 1
  BY CalendarTyped, UpToADay
<1>4. WorkDays(start, end) = Ordinal(end) - Ordinal(start) + 1 + Lost(end)
  BY CountIsOrdinal DEF WorkDays
<1>5. Ordinal(end) \in Int /\ Ordinal(start) \in Int /\ Lost(end) \in Int
  BY OrdinalTyped, CalendarTyped DEF Lost, Lacking
<1> QED BY <1>2, <1>3, <1>4, <1>5
=============================================================================
