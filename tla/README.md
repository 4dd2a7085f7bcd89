# Nómina360 API: models, checks and proofs

Nómina360 is a multi-tenant payroll backend: NestJS handlers over PostgreSQL through Prisma. All state is in the
database; a handler keeps nothing between requests. Each handler follows one pattern: read some committed rows, decide
and compute in memory, open one transaction, *claim* a row there with a conditional `updateMany`, and write. PostgreSQL
runs at READ COMMITTED, so what was read before the transaction may be stale when it writes. What the program promises
therefore rests on the claims, on version columns, on a few advisory locks and on some unique keys. These modules are
about that.

Paths below are relative to the repository.

## Inventory

| Component | State | Operations | Interacts with | What is hard | What makes it correct |
|---|---|---|---|---|---|
| Payroll period lifecycle (`src/payroll/use-cases`) | `PayrollPeriod` (status, version, pinned rule set, stamps), `PayrollItem`, `PayrollConceptDetail` | calculate (by id or legacy year/month/type), approve, close, reopen | reads employees, novelties, rule sets; writes the audit log | stale reads before the claim, two recalculations, failure between writes | one payroll per period, of its own novelties and pinned rules; nothing approved changes; history complete |
| Novelties (`src/payroll-novelties`) | `PayrollNovelty`, and the period's items | create, remove; both take the period back to COLLECTING_NOVELTIES | claims the period row as a calculation does | a change racing a calculation or an approval | a calculated payroll has priced exactly its novelties |
| Period creation (`create-payroll-period.use-case.ts`) | `PayrollPeriod` rows, an advisory lock for each company and type | create | none | search and insertion are two statements; lock names are hashed | periodic payrolls never share a day |
| Terminations (`src/employment-terminations`) | `EmploymentTermination`, its concepts, `Employee.status` | create, calculate, approve, close | rule sets, employees, audit log | check-then-insert, approval without a version step, two row locks | an employee is settled once, with the approved amounts |
| Employees (`src/employees`) | `Employee` | create, remove (INACTIVE) | read by payroll; competes with closings | removal looks at no termination | unique document in a company |
| Rule set administration (`src/payroll/rules`) | `PayrollRuleSet` (draft revision, status, interval), advisory lock for each jurisdiction | create draft, edit draft, publish | users (actor lock), audit log, database triggers | three kinds of locks, optimistic revision, overlap | published sets never overlap or change |
| Rule selection (`payroll-rule-set-selection.policy.ts`, `payroll-rules-resolver.ts`) | none, but the pins of periods and terminations | select for a period or a termination, by day or by pin | rule sets | start and end day are resolved by two queries | one published set covers the whole period, and stays the answer |
| Calculators (`payroll-calculator.service.ts`, `calculator/`) | none | amounts of a payroll or settlement | called in memory | 360-day calendar, ranges of sick days, limits and rounding | days and totals agree with their definition, no day is paid twice |
| Users, auth, companies, provisioning (`src/users`, `src/auth`, `prisma/*.ts`) | `User`, `Company`, advisory lock of the bootstrap | register, login, create/update/deactivate, bootstrap, seed | audit log | check-then-write on e-mail and NIT, writes by id, roles frozen in tokens | companies do not touch each other's users; one first super administrator |
| Audit log (`src/audit`) | `AuditLog` | log (in the caller's transaction or not), list | every component | records outside the transaction | every transition of a period or a settlement is on record |
| Reports, health, guards | none | read-only | | | not modelled |

## What is modelled

| Module | Models | Role |
|---|---|---|
| `PayrollPeriods` | calculate, approve, close, reopen, create and remove novelty; hiring and removal of employees | the core: requests as processes |
| `PayrollLifecycle` | the same operations as single atomic steps | abstract specification, refined by `PayrollPeriods` |
| `PayrollPeriodCreation` | creation of periods under advisory locks | requests as processes |
| `EmploymentTerminations` | create, calculate, approve, close; removal of employees | requests as processes |
| `RuleSets` | creation, edit and publication of drafts, under three kinds of lock | transactions, statement by statement |
| `RuleTimeline` | published rule sets: entries are added, for days that are still free | abstract specification, refined by `RuleSets` |
| `RuleSelection` | selection of rules for periods and terminations, and their pins | composed with `RuleTimeline` |
| `AccruedDays` | the 360-day calendar, and the day by day count it stands for | operators |
| `PayrollCalculators` | the calculators of periodic and collective payrolls and of terminations | operators, and one step that applies them |
| `Accounts` | registration, login, administration of users, bootstrap and seed | requests and scripts as processes |
| `*Proofs` | | theorems about the module of the name |
| `MC*` | | values for the constants of the runs |

**How state and actions correspond to the code.** A request is a process with a program counter (`req[r].pc`, or
`.stage`) and the values its handler has in local variables: the row it read, the team, the selected rules, the ids of
the items it saw, the novelties it loaded. Each query outside a transaction is an action of its own (`ReadEmployees`,
`SelectRules`, `FindUser`, `ResolveFirst`) and reads the rows committed then. In payroll and terminations, `Claim` is
the conditional `updateMany` that opens the transaction: it needs the row lock, evaluates the `where` clause on the
committed row and keeps the lock; `ClaimFails` is `count !== 1`. The rest of the transaction is one action
(`Commit...`): other transactions see its writes only when it commits. What it reads inside (the items a novelty change
deletes) it reads while it holds the lock, which no writer of these rows gets past. `Rollback` can end any transaction:
a failing write or audit record, the client's timeout, a crash. `Abandon` and `Fail` end a request elsewhere. There is
nothing to recover after a crash: locks and uncommitted writes go with the connection. That a transaction commits all
of its writes or none is PostgreSQL's promise and assumed: no property tests it, and the partial failures the
properties can catch are those between transactions and of what is written outside one.

*Rule sets.* The transactions of `RuleSets` read between their locks, and at READ COMMITTED every statement sees what
has been committed by then. So each statement is a step: `Flow` gives the order of the statements of each operation,
`Lock` waits for a lock (the acting user's row, the jurisdiction's advisory lock, the rule set's row), and the last
statement commits the write with its audit entry and lets all locks go. An edit brings the revision its client saw,
whenever that was (`BeginEdit`). `ChangeActor` takes away or gives back a user's right to act while requests are
running; it waits for the user's row like any other write of it. The exclusion constraint and the triggers of the table
are not guards of the model but properties: what they forbid is never attempted.

*Selection.* `RuleSelection` extends `RuleTimeline`, and its `Administer` is any step of the timeline. That is the
composition: `RuleSets` implements `RuleTimeline` (theorem `Refinement`), and `RuleSelection` is right with anything
that does. `stale` stands for the version the claim looks at. `PayrollPeriods` and `EmploymentTerminations`
leave open which rule set a selection returns; `RuleSelection` is where that is settled.

*Accounts.* Every database call is a step, but those of one nested `create` or of a transaction's writes: the bootstrap
takes its lock, counts administrators, looks for the e-mail and writes in four. `Findable` and
`OwnChangeAllowed` are what `findOne` and `update` look at; `UpdateUser` then writes by id and looks at nothing. A token
stands for the role it was signed with, so it outlives the role. The unique keys are guards of the writes (`InsertUser`,
`EmailFreeFor`); the database's CHECK of roles and companies is a property. The scripts `provision-super-admin.ts` and
`seed-production.ts` run among the requests.

*Calculators.* They keep no state. `PayrollCalculators` computes one result from one input; its properties compare the
result with definitions that are not the code's: sums of the stored concepts, days paid, leaves split in two, and a
count of the calendar's days. `AcceptedRules` are the rules the codec lets through, `NotFinite` stands for a result whose
totals are Infinity or NaN, as those of a division by zero hours are.

**What is abstracted.** In the concurrent modules amounts are what they were computed from: an item is the calculation it
belongs to, its employee, the novelties priced and the rule set used; the totals of a settlement are its inputs and
rules. Items and novelties are identified by the version the period got with them. A company is one period or one set
of employees where tenants do not interact: every query filters by `companyId`. A timestamp and the user written with
it are one `Stamp`. The fields of a novelty, the payment date and the names are left out: they are validated in
isolation and decide nothing else. A rules payload and its schema version are one of `Contents`, a value the codec
accepts. In the calculators amounts are integers in a unit in which the divisions of the instance are exact, where the
code has decimals of twenty digits; only the rounding of the transport allowance, which is a rule, is modelled.
`CALCULATING`, `PAID` and `CANCELLED` are in the schema's enumeration, but no handler writes them.

## Runs

| Run | Shows | Bounds |
|---|---|---|
| `payroll_races` | one payroll in a period, of the current novelties and the pinned rules; versions guard all that was read; conflicts are real | 2 requests, 2 employees, 2 rule sets, one payroll type of each policy, 3 versions |
| `payroll_cycle` | history, stamps, frozen approval, refinement of `PayrollLifecycle` | 2 requests, 1 employee, 1 rule set, MONTHLY, 6 versions |
| `payroll_liveness` | every request ends | 2 requests, 2 versions |
| `period_creation` | no shared day, the search stays right, every request ends | 2 requests, 1 company, 3 types with colliding lock names, 3 days in 2 months, 2 rows |
| `terminations` | settled once, amounts approved once and for all, audit | 2 requests, 2 terminations of 1 employee, 2 rule sets, 2 inputs, 2 versions |
| `terminations_liveness` | closings with two row locks end | 2 requests, 1 rule set, 1 input, 1 version |
| `terminations_two_active` | *violation*: two active terminations of one employee | as `terminations` |
| `rule_sets` | what was read stands until it is written, the audit counts revisions, edits replace what was seen, actors are authorized, refinement of `RuleTimeline`, every request ends | 2 requests, 1 user, 1 jurisdiction, 2 days, 2 versions, 2 revisions |
| `rule_selection` | pins cover every day, a day has one rule set, pins still resolve | 2 requests, 3 rule sets in 2 jurisdictions, 4 days, 2 nested periods and a termination |
| `calculators` | concepts explain totals, sick leaves split, days are paid once, accrual counts days | up to 2 of 15 novelties, 2 salaries, days at the ends of months of every length in a leap year and another |
| `calculators_zero_hours` | *violation*: amounts that are no numbers, under rules the codec accepts | as `calculators`, with zero standard hours |
| `accounts` | users are in their scope, tenants are separate, nobody deactivates itself | 2 requests, 2 users, 2 companies, 2 emails, 2 roles |

*Why the bounds are enough.* Requests restart, so two of them play every role in turn; a conflict is always between two
claims on one row, and the safety theorems hold for any number. Three versions are a calculation, a
competing change and the stale claim after it. Six versions are a full cycle (calculate, approve, close, reopen,
recalculate, and a change after that). `MaxVersion` also stands for the limit of the `Int` column: beyond it an
increment fails, and the transaction with it. Two employees tell "the period's items" from "the employee's items"; two
rule sets tell a pin from a choice. `Accruing` contains one of the two employees, so a BONUS payroll leaves one out.
Three days and months of two have intervals in a month, across months, equal, nested, touching and apart; two
rows and two requests are the smallest race of which each can refuse or be refused.
For rule sets, two days and an open end have intervals that are equal, nested, touching and apart; two versions are a
set and a rival; two revisions are a draft and an edit that makes a second look at it stale (a second edit in a
row then meets the limit of the column, which is the code's own refusal; the theorems have no such bound). The nested
periods of `rule_selection` share a day, so that they must agree; the second jurisdiction has a set that must not be
chosen. The rules of `calculators` have ranges of sick days that two short leaves cross, a salary on either side of the
limit of the allowance, and numbers for which every division but the rounded one is exact. Two users fill `accounts`, so
that a creation can also find no id; two companies can always collide or not.
Symmetry is used on sets whose members nothing tells apart, and never together with liveness.

Deadlock is checked except for terminations, where nothing is left to do once every employee has left and every
termination is closed or stuck (that no request gets stuck there is the liveness run), and for calculators, which end.

*Fairness.* A handler that has work goes on (weak fairness of its reads and statements). PostgreSQL queues the waiters of
a lock, of rows and advisory locks alike (strong fairness of the step that takes it, which is enabled only while the lock
is free). A transaction that has all its locks ends: with its commit, or, where the module's transactions may fail at
any moment, with its commit or its rollback (weak fairness of either; Prisma ends interactive transactions that take too
long). A rollback is never fair while the transaction waits for a lock: nobody is assumed to give up, so a circle of
waiting violates the property. Two kinds of transactions take more than one lock. For the closing of a termination no
rollback is fair at all, and the two claims have strong fairness each; the mutant `CommitCloseLockingOthers`, whose
closings also want the rows of the employee's other terminations, ends with two of them waiting for each other. In
`RuleSets` no fair step lets a waiting transaction go, and `FlowLockingTwice` is the mutant. New requests, employees and
failures are not fair: nothing has to happen.

Every property of a passing run has a mutant next to the definition it mutates (`\* Mutant`): a bug this code could
have, under which TLC finds the property violated.

## Disagreements found

1. **Two active terminations** (`employment-terminations.service.ts:62`): the check for a termination in progress and
   the insertion are separate statements, so two requests can both open one. The consequences are limited:
   `SettledOnce` holds, because a closing claims the employee's row as well.
2. **Zero standard hours** (`payroll-rules-codec.ts:389`): a decimal that "must be greater than zero" is refused unless
   `isPositive()`, which decimal.js says of zero too. The calculators of overtime and surcharges divide a salary by
   `standardMonthlyHours`, so that the totals of an employee with a novelty of hours are Infinity or NaN. Without such
   novelties the price of an hour is not used and payrolls are right. Other values that may be zero contrary to the
   message, such as the minimum wage or the multipliers, divide nothing.

One more is read off the code, and no run repeats it: the domain rules (`.kiro/steering/payroll-domain.md:46`) say that an
employee becomes INACTIVE only when a termination is closed; `EmployeesService.remove` (`employees.service.ts:177`)
deactivates without one. The model's `RemoveEmployee` does the same, and an approved termination can then never be closed.

## Proofs

TLAPS checks these for every set of requests, employees, rule sets, users and types, every calendar and every bound.
They rest on the assumptions of the modules, which TLC evaluates in its runs. Those of the calculators are named with
their proofs below; elsewhere a module has one, which says no more than that the constants have a type: the payroll
types considered are the program's, `None` is none of the values it is told apart from, bounds are naturals, a month has
at least one day, days are integers, `Hash` maps names to locks, the roles that requests give are tenant roles (the
validation of the endpoints allows no other), a period's days are days of the timeline and a termination has one.
Nothing is assumed of `Hash`: colliding names only wait more.

**`PayrollPeriodsProofs`.** The invariants the runs check are not inductive: that the items price the period's novelties
is preserved by a commit only because the committing request loaded the novelties that are still there. The inductive
invariant is `Inv == TypeOK /\ RequestsOK /\ RowsOK`. `RequestsOK` says of each request that the version it read is at
most the current one; that if the versions are equal, all it has read so far is current (row, seen items, loaded
novelties); that the rules it selected respect the pin it read; and that if it has claimed, it holds the lock, the
versions are equal and the status is one it may claim. `RowsOK` is the conjunction of the row invariants. The argument:

- *reads* make one more part of the knowledge current (`ReadStep`);
- a *claim* turns equal versions into equal content for as long as the lock is held (`ClaimStep`);
- a *commit* advances the version, so that all other requests become outdated at once and owe nothing more
  (`CommitLeavesOthers`), and writes a row that follows from knowledge that was current (`CalculateStep`,
  `NoveltyStep`, `MoveStep`).

From `Inv` follow `TypeCorrect`, `NoDoublePay`, `NoStalePayroll`, `PinnedRules`, `VersionIsAGuard`, `AuditIsComplete`,
`PayrollHasItems` and `StampsAreRight`; the action properties `ApprovalFreezes`, `PinIsStable` and
`ChangesAreVersioned`; and `Refinement`: the initial states are initial in `PayrollLifecycle`, each commit is its atomic
operation on the current rows, and everything else a stutter. `RefusalsAreConflicts` needs one invariant more
(`ReadClaimable`): what was read was in a status the request may claim, so that only a newer version can refuse it.

**`PayrollPeriodCreationProofs`.** `NoSharedDay` is not inductive either: an insertion preserves it because the
search it relies on is still true (`CheckStaysTrue`), and that holds because every insertion that could contradict
it would need the same advisory lock. The inductive invariant adds that a periodic request holds the lock of its own
name from search to insertion and that all intervals are well formed. `SharedDayOverlaps` connects the search's
comparison of bounds with days.

**`EmploymentTerminationsProofs`.** A closing is right for two reasons a step apart: the termination it has claimed is
still the one approved, and the employee it claimed next was still ACTIVE. `RequestOK` says what a request knows of its
rows, as `RequestsOK` does for periods, except that an approval does not advance the version: a request without a lock
knows only that a row of the same version has the same amounts and pin. Every change of a row is a `RowStep` (the
version never goes back, totals and pin change with the version only, and a final status stays final), and no
transaction changes a row whose lock another holds (`OthersKeepOrder`). Of it follow `EmployeesAreSettledOnce`,
`ConceptsAreOfTheTotals`, `ClosingDeactivates` and `TransitionsHaveRecords`, and the action properties
`ApprovalIsFinal`, `ApprovalIsOfTheRead` and `PinIsKept`.

**`RuleSetsProofs`.** `LocksOK` says exactly which locks a request holds at each of its statements, `KnowsOK` what it
knows that they protect: the user's rights under the user's lock, the draft as seen under the row's, the free version
and the absence of overlapping sets under the jurisdiction's. `Counted` says that the versions of a jurisdiction are
the first few numbers, which is what makes the maximum plus one free. Rows that appear or are published are of a
jurisdiction whose lock is held, and rows that change have theirs held, so that the others keep what they know
(`OthersKeep`). The theorems are `ReadsStandUntilWritten`, `PublishedAreDisjoint` (day by day, from the comparison of
bounds by `CommonDayOverlaps`), `AuditIsAHistory`, `EditsAreOfTheSeen`, `ActorsHaveTheRight`; `Refinement`: a
publication is one entry of the timeline, everything else a stutter; and `NoDeadlock`: of any set of requests
one waits for nobody in the set, because a request holds only locks of a lower rank than the one it waits for.

**`RuleSelectionProofs`.** Entries of the timeline are never withdrawn and never share a day, so an answer, once given,
is the answer of that day for good (`PublishKeeps`); and an entry that covers the first and the last day covers the
days between (`AnswerBetween`). The inductive invariant says that pins, what requests have read of them and what they
have chosen are such answers. `PinsCover`, `DaysHaveOneRuleSet`, `PinsResolve` and `FirstAnswersStand` follow.
With `RuleSetsProofs!Refinement` they hold of the administration as it is.

**`AccountsProofs`.** A request writes by id what it has checked some steps before. `RequestOK` says what it still
relies on then: the user it has found is there and in its company (`FoundOK`), the bootstrap's lock is held and there is
no platform administrator yet (`BootstrapOK`). Others cannot undo that: a user never loses its company and an
administrator appears under the lock only (`Kept`, `LockKept`, `OtherStays`). `WriteUser` is the one lemma about what a
written user does to the invariants of all users. The theorems are `ScopesHold`, `TenantsHold` and `OwnAccountHolds`.
The last says that a user gives itself no role but its own or the one that was read: a demotion that comes between the
reading and the writing is lost, which the code allows.

**`AccruedDaysProofs`.** The count on the 360-day calendar is a difference of two `Ordinal`s (`UpToADay`,
`UpToTheEndOfAMonth`), for dates of any year and whatever the lengths of their months. Hence the bounds of a payroll's
count (`AccruedWithinMonths`), at least a day for whoever worked (`WorkIsCounted`), and no day lost or counted twice
between what payrolls paid and what a termination pays (`TurnsOfMonthsLoseNothing`); no run states these.
`PayrollCountsDays` and `TerminationCountsDays` say that the formula agrees with a count of days. They are proved
day by day: `Rank` numbers the dates in their order (`RankGrows`), each day but the first follows a day of the calendar
(`DayBefore`), and from a day to the one that follows it the set of days worked gains that day (`CountOfOneMore`) and the
`Ordinal` its `Weight` (`OrdinalGrows`). The years considered are assumed to have no gaps, without which a day might
follow none.

**`PayrollCalculatorsProofs`.** The model's sums and selections (`Total`, `Those`) are folds, whose library definition
is a function that is recursive over sets of indices. Its equations are proved first: the function exists
(`FoldExists`), is the only one (`FoldUnique`), and what it gives of a sequence longer by one is one step from what it
gives of the sequence (`FoldOfAppend`). From there on sequences are reasoned about by induction on their length, stated
with sets (`SeqSetInduction`: a set that contains the empty sequence and, with a sequence, each one longer by one,
contains them all), because the provers cannot instantiate a theorem with an operator for a parameter. `MatchingConcat`,
`MatchingAll` and `MatchingNone` say how a selection's sum distributes over the parts of a payroll; `PeriodicFound` then
finds in the concepts of an item exactly what each of its thirteen calculators gave. `QuantitySplits` and `SumOfPriced`
turn amounts back into days, `DiseasePayGrows` and `DiseasePaySplits` pay a sick leave day by day. The inductive
invariant, `Calculation`, says that the result is what the calculator of its kind gives of the input; from it follow
`TotalsAreExplained`, `SickLeavesSplit`, `EveryDayIsPaidOnce` and `AccrualIsACount`, for any rules the codec accepts and
any salaries, dates and number of novelties. Day bases and days of a year are positive integers, so that nothing but the
standard hours can make a division fail; where these are zero, `TotalsAreExplained` and `EveryDayIsPaidOnce` speak of
the calculations that price no hours (`HoursArePriced`). Beyond types they assume that the rules are ones the codec
accepts (`RulesAssumption`), that a sick leave is stored with its origin, base and start day and a leave with its type
(`NoveltiesAssumption`, from the novelties' validation; without them calculators skip a novelty, see `Counted`), and
that the unit of amounts is small enough for a day's salary to have exact parts (`ExactAssumption`), which is what exact
decimals are in integers: with a coarser unit `DaysArePaidOnce` would be off by what the divisions leave.

Only model-checked: liveness, the `RequestsEnd` of four runs. Fairness and ENABLED are out of the prover's reach. Every
other property of a passing run is stated by a theorem.

## Not modelled

- *Rule payload codec* (`payroll-rules-codec.ts`): the numbers it accepts are `AcceptedRules`; the shape of the JSON, its
  schema version and canonical form are not modelled. For `RuleSets` what it accepts is one of `Contents`, and what it
  refuses ends a request before its transaction.
- *Reports, health, lists and other queries*: they read and format. Guards appear as what they let through.
- *Employees' own data* (document numbers, contracts, dates), and *companies' fields*: validated and written, they decide
  nothing that interacts. The unique key on documents refuses what the search before it missed, with another error.
- *Passwords, the expiry of tokens, rate limits.* A token of `Accounts` never expires, which only allows more.
- *Audit records of employees and companies*, and the query of the audit log.
- *Decimals*: rounding at the twentieth digit, and the formats numbers are stored and shown in.
- Database errors other than a rollback, such as an isolation level other than READ COMMITTED, are outside.

What the models show but no document promises is not stated as a property: payroll is calculated for the employees who
were ACTIVE when it began, a BONUS payroll may leave everybody out, and two administrators can deactivate each other.

## Plan

Modelled in this order, most important first: the payroll period with its abstract lifecycle; the two components that
protect themselves differently (advisory lock, status claims on two rows); the rule sets, their timeline and the
selection composed with it; the calculators; the accounts. Left:

1. Employees as a component of their own: creation against the unique key of documents, updates against payroll and
   terminations, audit outside the transaction.
2. `RuleSelection` as the `SelectRules` of `PayrollPeriods`: the refinement of the choice that is left open there.
3. Two jurisdictions with one lock and three revisions in `rule_sets`, when the time of a run allows.
