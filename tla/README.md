# Verification of the HRMS API

TLA+ models of the server in `packages/api` of this repository (a modular HRMS:
NestJS, TypeORM, PostgreSQL at READ COMMITTED), with TLC configurations and
proofs checked by TLAPS.  The modules follow the code, not its documents; where
the two disagree a run shows the disagreement.

## The system

Every module of the API is a set of services over PostgreSQL tables, one
workspace (organisation) per request.  A service call is one transaction, or a
few reads followed by one.  Calls of many API processes interleave; what keeps
them apart is written by hand: row locks (`pessimistic_write`), advisory locks,
unique indexes and conditional updates.  Modules talk to each other in three
ways: direct calls that join the caller's transaction (`manager` parameter), the
shared approval rows of `core/workflow`, and domain events written to an outbox
in the same transaction and delivered later to registered consumers.

| Component | State | Operations | What is hard | Correct means |
|---|---|---|---|---|
| core/events | `outbox_messages`, `processed_events` | publishWithin, relayPendingBatch, dispatch, runOnce | several relays over the same rows, stale saves, crashes, failing consumers | effects once; settled rows tell the truth; everything settles |
| core/workflow | `approval_requests` | requestApproval, decide | two deciders | one outcome per approval, in step with its subject |
| leave | `leave_requests`, `leave_balances`, entitlements | submit, approve, reject, cancel, upsert | two submits, decide against decide, several balance rows, the connection pool | no oversubscription, totals match requests, one outcome |
| attendance | `clock_events`, `time_entries`, `timesheets` | clockIn, clockOut, recordEntry, open, submit, approve, lock | entries against a freeze, transitions without a lock | frozen periods complete and untouched, punches alternate |
| expenses | `expense_claims`, lines, approvals | draft, lines, submit, cancel, decide, reimburse, bill | cancel against decide, lines against submit | a decision is final, a claim is paid once |
| payroll | `payroll_runs`, lines, payslips, settlements | create, regenerate, edit, finalize, pay; compute settlement | edits and staleness against finalize, consumer retries | payslips are issued once, a draft that missed a revision is flagged |
| billing | `invoices`, lines, closes, snapshots | draft from run, edit lines, issue, pay, void | issue against void and edits, numbering | a month is billed once, issued documents do not change |
| compensation, benefits, leave entitlements, tax profiles | effective-dated rows | revise, close, enrol | overlapping revisions, termination | ranges of one employee never overlap |
| assignment | `assignments` | create, end, setReportingLine | cycles across dates, concurrent creates | one primary at a time, no reporting cycle |
| recruitment | postings, applications, interviews, shortlists, offers | apply, shortlist, interview, offer, accept | two offers, acceptance over six tables | one hire per application, all or nothing |
| forms, documents, intake | submissions, tickets, versions | submit, upload, record version | upload against submit, version numbers | a file belongs to one submission |
| tenancy, auth, authz, audit, notifications, pdf, queue | request context, sessions, append-only rows | filter, guard, record, render | - | - |
| web, ui, shared | - | rendering, date ranges | - | - |

`PROJECT.json` lists the components with their sources and, under `hazards`, the
lines where each hard case bites.

## Modules

| Module | Models |
|---|---|
| `OnceDelivery` | abstract: an event is published once and each subscription applies it at most once |
| `Outbox` | `core/events`: rows, ledger, relays with their stale message objects |
| `OutboxProofs` | its theorems |
| `Workflow` | `core/workflow`, as operators that the calling module's actions use |
| `LeaveLedger` | abstract: leave as a serial ledger without running totals |
| `Leave` | `leave-request.service.ts`: submit and decide as locking transactions |
| `LeaveProofs` | its theorems |
| `Attendance` | `attendance.service.ts` and `timesheet.service.ts` for one employee |
| `AttendanceProofs` | its theorems |
| `Expenses` | `expense-claim.service.ts`: one claim, its lines, approvals, reimbursement and billing |
| `ExpensesProofs` | its theorems |
| `Billing` | `invoice.service.ts`: the services invoices of one billing group |
| `BillingProofs` | its theorems |
| `PayrollRun` | `payroll-run.service.ts` and `payroll.consumer.ts`: one run from draft to payment |
| `PayrollRunProofs` | its theorems |
| `EffectiveRanges` | the effective-dated rows of compensation, tax profiles, leave entitlements, benefits and billing memberships, with their consumers of hires and terminations |
| `Assignments` | `assignment.service.ts`: primary assignments and reporting lines |
| `AssignmentsProofs` | its theorems |
| `Recruitment` | `recruitment.service.ts`, `ats.service.ts`, `offer.service.ts`: a hiring request with its position, posting and offers |
| `People` | composes the last four models: they share no table, so a behaviour follows one of them |
| `PeopleProofs` | the theorems of the composition, with the proofs of dated rows and recruitment |
| `MCOutbox`, `MCLeave`, `MCAttendance`, `MCExpenses`, `MCBilling`, `MCPeople` | instances for TLC |

### How code becomes actions

A transaction is cut where another one can matter: at a lock it may wait for, at
a read that is not protected, and at its commit.  What it wrote becomes visible
at the commit; until then it is in session variables (`draft`, `found`,
`object`), and an abort drops it.  Unprotected reads are kept in session
variables and used later as the code uses them, however stale.

*Saving.*  `manager.save(entity)` reads the row by its key and updates the
columns that differ from the object.  The outbox, leave
and attendance models take it as one step that overwrites the row with the
object: columns the object holds an old value of are put back.  `Expenses` and `Billing`,
where other transactions change other columns of the same row, have the two
statements: `SelectClaim` (`SelectInvoice`) finds the differing columns and
`WriteClaim` (`WriteInvoice`) writes those.

*Failure.*  Any statement can throw, the connection can drop and the process can
die at any point: each model has an action for it (`AbortBatch`,
`RunOnceThrows`, `Fail`), always enabled while a call is in progress (bounded by
`MaxAborts` in Outbox).

*Outbox.*  `rows` are the table, `seen` the attempts in the message objects of
a relay's batch, `pc` and `turn` where its dispatch stands.  `applied` and
`failures` are history variables.  Outbox time stamps are arbitrary, because
each process takes them before its transaction commits.

*Leave.*  One employee and one leave type; `days[q]` is `yearAllocations`.  A
session's `locked` years and `draft` rows are what its transaction holds.  The
pool is `Connections`; a transaction holds one and `ResolveEntitlement` needs a
second one for a moment.  A half day is a unit, so days are integers.

*Expenses.*  One claim.  `decideClaim` and `markReimbursed` lock the row and are
one step; the claimant's calls and the check before billing are sessions with
their copy of the row in `object`.  Totals are the set of lines they were summed
over (`counted`), so "positive" is "not empty".  A submit saves the row twice in
its transaction, and the second save finds every column the copy differs in, so
`Submit` writes the whole copy.  `granted` and `undone` are history variables.

*Billing.*  One group and one billed employee whose membership starts with the
first month.  `lines[i]` gives the amount of each month's drafted line and of a
line added by hand per label (0: no line), and an invoice's `total` is the
amounts it was summed over.  `addDraftLine` takes salary and catch-up lines with
any month label and never asks whether the month is billed already, so such a
line (`ByHand`) may repeat a month; a draft then leaves the month out (`Billed`).
`markInvoicePaid`, `voidInvoice` and `addDraftLine` lock the row and are one
step; an edit, an issue, a mark of staleness and the reconciliation that ends
each draft and void are sessions that save `copies` of the invoices in `todo`.
The reconciliation and the mark change columns no property tells apart, so their
copies are the rows as read.  The model is that of the drafting call made by
hand, whose parts commit one by one; the consumer's commit together.

*Attendance.*  One employee.  The advisory lock is held by the session whose
`step` is "held".  Time is a day number, and every entry is one hour, so a
timesheet's total is a number of entries.

*Payroll.*  No call locks the run or waits for another, and none does in the
model.  Each is a session that reads in one step and writes in another;
`createRun` and `regenerateRun` read the facts before the transaction that saves
the draft, `finalizeRun` reads the lines and then their components, in two steps,
and its transaction looks at nothing but the unique index of payslips
(`NoPayslipYet`).  The facts a draft is computed from (salary, tax, benefits of
an employee) are a version number that `Revise` raises, so a pay is the version
and the days it was prorated to.  A save puts back the whole row that was read.
`known` is a history variable: the facts when the draft was last saved.

*Effective ranges.*  One employee and one of five `table`s.  Every service finds
the row in force, closes it on the day the new one starts and inserts the new
one.  They differ in what `Locking` and `OneOpen` say: salary and tax profiles
read under an advisory lock of the employee, the others before their
transaction; all but salaries have a unique index of the open row.  Closings (by
termination, by `endEnrollment` or `removeMember`) take no lock anywhere.
A date that defaults to today may be any day.

*Assignments.*  The calls that read the reporting graph hold the workspace's
advisory lock from their `Begin` to their commit; a creation without a manager
does not, and may leave an employee two primary assignments.  `Above` is the walk
of `assertNoReportingCycle` on one day, one manager at a time, over one of the
`Readings` the table allows: of two assignments in force the query may return
either.  The walk is one step; only creations without a manager could commit
inside it, and they add nobody above anybody.  `guarded` is a history variable:
the assignments inserted under the lock.

*Recruitment.*  One request.  `events` are deliveries of
`hiringRequest.updated` that are not handled yet; the reconciliation reads the
request, writes the position and reads the request again, up to `MaxAttempts`
times.  The consumer's reconciliation runs in one transaction, to which the model
gives no isolation: its writes show early and stay when it fails, which is more
than the database permits.  `Leftover` is what a position of the same title may
already be.  `BeginConsume` lets one consumer reconcile the request at a time:
the relays hand out events in order and the ledger row of an event locks out a
second delivery of it.

*Waiting callers.*  Three models have a switch that makes some callers wait,
where nothing in the code keeps them apart and a property fails when they overlap.
`OneCallPerInvoice` (Billing) keeps apart calls about one invoice and drafts of
different service months; overlapping drafts of one service month and issues of
different invoices still race.  `OneCall` keeps apart, in Effective ranges,
closings and entitlement upserts from every other call (racing insertions of the
other tables remain), and in Recruitment the calls that save the request or the
posting they read; there it also lets no update die after it wrote the position
(reconciliations and consumers race with everything, creations and acceptances of
offers with each other).
Payroll, Assignments, Expenses, Attendance, Leave and Outbox have no such switch.
What happens without them is said under "Where code and documents disagree".

## Runs

| Run | Shows | Bounds |
|---|---|---|
| `outbox` | `OnceSpec` (refinement of `OnceDelivery`), `ProcessedWasDelivered`, `GivenUpOnlyExhausted`, `EverySettles`, `EventuallyDelivered` | 2 relays, 2 events (two consumers, none), 2 attempts, batches of 1, 1 crash |
| `leave` | `LedgerSpec` (refinement of `LeaveLedger`), `NoOversubscription`, `TotalsMatchRequests`, `OutcomeInStep`, `EveryCallReturns` | 2 sessions, 2 requests, 2 years, 1 day each, entitlements 1 or 2, 3 connections |
| `attendance` | `FreezeComplete`, `PunchesAlternate`, `NoOverlap`, `FrozenStays` | 2 sessions, 2 entries, 3 timesheets of which one shares a day with each of the others, 2 days |
| `expenses` | `MoneyWasApproved`, `PayrollPaysOnce`, `PaidAgainOnlyWhenUndone`, `DecisionsStand` | 2 claimant calls, 2 billers, 1 line, 2 approvals, 2 months, 2 direct payments |
| `expenses_paid_twice` | with overlapping calls a claim is paid twice | as `expenses`, 1 biller, 1 month |
| `billing` | `NumbersHaveNoGap`, `MonthDraftedOnce`, `TotalsAreLines`, `IssuedIsFrozen` when calls about one invoice and drafts of different months do not overlap | 2 sessions, 3 invoices, 2 months, lines by hand for the first of them, amounts 0 or 1, 2 attempts |
| `billing_frozen` | with overlapping calls an issued document loses its number | 2 sessions, 2 invoices |
| `billing_month_race` | overlapping drafts of different service months bill a month twice | 2 sessions, 2 invoices, 2 months |
| `people` | `RevisionsAreFlagged`, `PayslipsAnnouncedOnce`, `RunIsWhole`; `RangesPartition`, `HistoryStands`; `GuardedDisjoint`, `LineClosesNoLoop`; `PositionFollows`, `HiresAreAcceptances` | 2 sessions, 2 employees; 1 revision each, 3 drafts, edits that keep the days; 3 days and 3 effective rows; 2 days and 2 assignments; 1 application, 1 offer, 3 changes of the request, 3 attempts |
| `payroll_revision_lost` | a revision handled while a draft is computed is lost | 2 revisions of each employee, 1 draft |
| `attendance_totals` | a locked timesheet's total is not the sum of what it froze | 2 sessions, 1 entry, 2 periods that share a day, 3 days |
| `attendance_immutable` | a locked timesheet can be taken back | as `attendance_totals` |

Two sessions are enough for every race between two calls, and the row locks are
pairwise; the proofs below do away with the bound where they reach.  A batch
limit of one with two events makes a younger message wait behind a failing
older one.  Three invoices let one be voided while two issues race for the same
number; two attempts let the loser try again.  Two approvals let a claim be submitted again after a late save made it
a draft.  Two years with requests that touch both give the two orders in
which balances could be locked.  Two days let a session close and another open; two
entries let a freeze stamp one and miss another; of three timesheets the middle
one could take entries of either neighbour, or be opened against both.

In `people` three drafts let two regenerations overlap a revision and each other.
Edits keep the days there and an employee has one version of a pay, so that races
make lines appear and disappear; `payroll_revision_lost` has edits of the days and
two versions, and the theorems have any number.  Three effective rows on three
days let a row be followed, closed and followed again; two assignments of two
employees are enough for a loop of two and for an overlap.  Three changes take a
request up, down and up again while a reconciliation of the first is still under
way.  Larger instances of `Assignments` (three employees) and `Recruitment` (two
offers, every leftover position) are left to the theorems, which have no bounds.
With six changes `PositionFollows` fails: newer transitions use up the attempts of
an older reconciliation, and the code leaves the rest to the next event.

*The pool.*  `EveryCallReturns` of Leave holds with a connection more than
there are sessions.  With as many connections as sessions it fails: every submit
holds one and waits for another in `resolveEntitlement`, which does not get the
transaction's manager.  The bound in the configuration states that threshold.

*Fairness.*  `Outbox` assumes weak fairness of every relay: `setInterval` keeps
firing and calls return.  Nothing is assumed of handlers (they may fail for
ever), publishers or crashes.  `Leave` and `Attendance` assume strong fairness of
a session's own steps: PostgreSQL queues waiters for a lock, and the pool queues
waiters for a connection, first come first served, so a call that becomes able
to go on again and again does.  No call is assumed to be made.

*Deadlock* is checked in every run but those of `Expenses`, `Billing` and `People`: a
claim that is cancelled or paid, a group whose ids are used up, a paid run, a
history with all its rows and a filled request have nothing left to do.

## Proofs

The modules named `*Proofs` prove, for any sets of sessions, relays, events,
requests, years, entries, periods, lines, invoices, months and employees, any
number of days, rows, offers, changes and attempts, and any values of the other
constants that satisfy the assumptions of the modules:

- `OutboxProofs!TypeCorrect`, `LedgerCorrect`, `ProcessedIsDelivered`,
  `FailedIsExhausted`, `AppliesOnce`.  The argument: `LedgerInv` says that a
  consumer has applied an event exactly when its ledger row is committed and
  that at most one relay is inside its handler; `DeliveryInv` follows a
  dispatch: the consumers whose turn has passed without an error are in the
  ledger; `AttemptsInv` bounds the stale attempts of every message object by the
  failures each missing consumer really had.  None of the safety properties is
  inductive without them, because rows are saved from objects read long before.
- `LeaveProofs!TypeCorrect`, `TotalsNeverDrift`, `NeverOversubscribed`,
  `OutcomesAgree`, `ImplementsLedger`.  The inductive invariant `IInv` adds
  `LocksInv` (locks exclude each other and keep what a transaction read),
  `DraftInv` (a draft is still what its row will become) and `OpenedInv`.  The
  totals are cardinalities of sets of single days, so that a commit adds or
  removes a set disjoint from the rest.
- `ExpensesProofs!TypeCorrect`, `PaidOnlyApproved`, `PayrollIdempotent`,
  `PaidOnceUnlessUndone`, `DecisionsAreFinal`, with every overlap of calls.  The
  invariant adds `ApprovedInv`: an approved or paid status, a mark of billing and a
  call about to bill descend from a decision, in the row and in every copy a
  session may yet save; and `UndoneInv`: while the claim is not paid, each payment
  made was taken back by a late save.
- `AttendanceProofs!TypeCorrect`, `PunchesAreOrdered`, `PeriodsAreDisjoint`,
  `FreezeIsComplete`, `FrozenEntriesStay`.  Besides one holder of the advisory
  lock (`OneHolder`), the invariant needs `HeldInv`: what a call checked under
  the lock (the last punch, the entries of the period, the timesheets it may
  overlap) is still so when it commits.
- `BillingProofs!TypeCorrect`, `NumbersAreSequential`, `MonthsAreDraftedOnce`,
  assuming `OneCallPerInvoice`.  `AloneInv` says that no invoice is in two calls'
  hands; `SessionInv` says, per kind of call, what its copies are worth: an edit's
  copy is the row with the lines as they will be, a reconciliation's is the row,
  and an issue's number is at most the next one, so that the unique index leaves
  only the next one.  For months it adds that drafts under way are of one service
  month, and that what they found unbilled is not billed until that month is taken.
- `PayrollRunProofs!TypeCorrect`, `NoRevisionIsForgotten`, `PayslipsIssuedOnce`,
  `NeverHalfFinalized`, with every overlap of calls.  The three properties are
  inductive together with two facts.  `MarkInv`: every consumer at work has an event
  of its own, so that the last event to be handled sets the flag or finds no draft to
  set it on.  `SavesInv`: every copy of the run that a call may save back is itself
  whole.  The unique index keeps a second payslip of an employee out of every
  announcement.
- `AssignmentsProofs!TypeCorrect`, `GuardedNeverOverlap`, `LinesCloseNoLoop`, with
  every overlap of calls and dates in any order.  `CheckedInv`: what a call checked
  under the lock stays so until it commits, up to creations without a manager.  For
  loops that is `Safe`: some set of people without the employee holds the new manager
  and the managers of all its members, as the walk found them; who is created without
  a manager adds none.  Assumed is also that "no one" is not the name of an employee.
- `PeopleProofs!TypeCorrect`, `NoRevisionIsForgotten`, `PayslipsIssuedOnce`,
  `NeverHalfFinalized`, `NeverTwoInForce`, `HistoryIsKept`, `GuardedNeverOverlap`,
  `LinesCloseNoLoop`, `HiresMatchAcceptances`, `PositionFollowsUnlessGivenUp`,
  `PositionFollowsFewChanges`: the properties of the run `people`, of the composed
  specification.  Those of dated rows and of the position (and `TypeCorrect`,
  which covers them) assume `OneCall`; the others assume nothing of callers.
  `PartsMove` shows that a behaviour of `People` is one of each component.  For
  payroll runs and assignments the theorems come from their own proof modules,
  whose instances `PP` and `AA` take the same steps (`SamePayroll`, `SameLines`).

  *Dated rows.*  The heart is `RangeSettingInv`: what an insertion read still holds
  (`RangeFollows`), or a faster one has made the unique index refuse it
  (`RangeRefused`).

  *Acceptance.*  `HeldInv`, from the lock of the offer's row, gives two acceptances
  two offers, and `ReadHolds` says that an offer being accepted is still sent;
  `HiringInv` counts employees by the set of accepted offers, whatever `OneCall` is.

  *The position.*  `PositionFollows` speaks of states at rest only, so the
  invariant says who is still going to act.  `FollowInv`: if position or posting
  lag, an event without a consumer waits (`Unclaimed`), or a call that cannot die
  unnoticed (`Reliable`) is at a point from which it will write the position
  (`WillSet`) or take the posting down (`WillUnpublish`).  `AimInv` says what the
  calls under way are going to write: an update that read the request before it
  was linked takes the link away again, and until then (`Early`) everybody who
  writes opens the position (`Opens`).  A consumer that dies leaves its event
  unclaimed (`ClaimReturns`).  The one gap is a reconciliation that uses up its
  attempts: the first theorem excludes it by hypothesis (`NeverGivesUp`), the
  second because each attempt beyond the first has seen another change
  (`Attempts`).

TLC checked the inductive invariants of `Outbox`, `Leave`, `Expenses`, `Billing` and
`Recruitment` on small instances before they were proved.  Every property of the
passing runs is a theorem, both refinements included, but for those named here.
Only model-checked are the liveness properties (`EverySettles`,
`EventuallyDelivered`, `EveryCallReturns`), which need fairness and ENABLED, and
what the runs that expect a violation show.  `TotalsAreLines` and `IssuedIsFrozen` of
Billing are model-checked too: they need calls about one invoice to wait for each
other, which the code does not see to, so a theorem would say little more.

## Where code and documents disagree

- A locked timesheet's total is the one computed at submission; entries recorded
  between submission and freeze are frozen but not in it (`attendance_totals`).
- submit and approve save a timesheet they read without a lock; a slow one takes
  a locked timesheet back (`attendance_immutable`).

- A recomputation of a claim's totals saves the status it read; over a payment it
  makes the claim payable again (`expenses_paid_twice`).  By the same late saves a
  cancel can undo an approval, and a claim can be submitted without a link to its
  approval (with three overlapping calls).

- reconcileServiceMonth, markDraftsStaleForEmployee and recomputeTotalsWithin save
  invoices they read without a lock; issueInvoice does not lock either.  An issue
  in between loses its number and status (`billing_frozen`).

- draftInvoicesFromRun reads the months already billed without a lock: two
  overlapping drafts of different service months bill an earlier month twice
  (`billing_month_race`).  By hand a month can be billed again at any time:
  addDraftLine looks for no earlier line of its month.

- createRun and regenerateRun read the compensation facts before the transaction
  that saves the draft: a revision handled in between is lost
  (`payroll_revision_lost`).

The following have no run of their own.  The models of payroll and assignments allow
them; `OneCall` excludes those of effective ranges and recruitment.

- Payroll.  "Finalized runs are never touched -- their history is frozen."
  (`payroll-run.service.ts:704-705`): markDraftsStale saves the run it read over one
  finalized meanwhile, which makes it a draft again; a regeneration begun before
  the finalization rewrites a finalized run; an update that races the removal of
  its line inserts the line again; finalizeRun reads lines and components in two
  statements, so a payslip may mix two edits; two markRunPaid overwrite each other.
  finalizeRun never looks at `isStale`, and adjustments, bonuses, leave decisions and
  terminations publish nothing that would set it.
- Effective ranges.  A closing that races a revision leaves overlapping rows, and
  so do two entitlement upserts with an end date.  A scheduled future revision
  lets the older row run past a termination, and a revision after the
  termination opens a range again.  An enrolment cancelled before its start
  leaves an empty range that blocks an earlier one.  The comment at
  `compensation.service.ts:600` calls the unique index of employee and start date
  a partial one.
- Assignments.  The cycle check looks at the effective date only: a line set
  earlier than one that was set before can close a loop on later days.  A creation
  without a manager takes no lock, so two of them can overlap.
- Recruitment.  A call that dies between its write of the position and the check
  after it leaves the position behind the request.  updateHiringRequest reads
  without a lock: overtaken by an acceptance it reopens a filled request, and it may
  write an empty `positionId` over a link made meanwhile.  A publication that read
  the request before it closed leaves a live posting.  createOffer does not look at
  the outcome of the application, and two of them can race.
- Settlements (not modelled).  "Idempotent per employee: re-running replaces the
  outstanding settlement" (`final-settlement.service.ts:50-51`), but compute inserts
  another row each time.

## Not modelled, and the plan

Left for later, in this order: final settlements and adjustments; period closes
and cost snapshots of billing; `PayMath` (tax slabs and rounding as operators
against reference definitions); forms, uploads and intake; document versions;
interviews and shortlists; two hiring requests that share a title; assignments
that are not primary.  Theorems worth having next: type correctness of
dated rows and recruitment without `OneCall`.  Left out for good: the web client,
rendering, e-mail, request filtering by workspace and the broker of the job queue,
which decide nothing that another part reads back.  They are most of the
repository's lines, which is why the models stand for a small share of all lines
but for most of the stateful services.
