---------------------------- MODULE PayrollRun ------------------------------
(***************************************************************************)
(* The payroll run of one period, from                                     *)
(* packages/api/src/modules/finance/payroll/payroll-run.service.ts: the    *)
(* draft computed from compensation facts, its edits, the flag that says   *)
(* the facts have changed since, finalization into payslips, and payment.  *)
(*                                                                         *)
(* Only rows are protected, by unique indexes: no call locks the run or    *)
(* waits for another.  Every call reads what it needs in one step and      *)
(* writes in another, and a save puts the whole row back as it was read.   *)
(*                                                                         *)
(* The facts of an employee are a version number that each revision of     *)
(* salary, tax profile or benefits raises; 0 is an employee without        *)
(* salary.  A pay is the facts it was computed from and the days it was    *)
(* prorated to.                                                            *)
(***************************************************************************)
EXTENDS Integers, FiniteSets

CONSTANTS Sessions,      \* concurrent calls and consumers
          Employees,     \* active employees
          MaxFacts,      \* revisions per employee (bound)
          MaxDrafts,     \* computations of the draft (bound)
          PayableDays,          \* payable days an edit may set
          FullDays       \* payable days of the computed draft

\* What the bounds have to be.
PayrollAssumption ==
  /\ IsFiniteSet(Sessions)
  /\ IsFiniteSet(Employees)
  /\ MaxFacts \in Nat \ {0}
  /\ MaxDrafts \in Nat \ {0}
  /\ PayableDays \subseteq Nat
  /\ FullDays \in PayableDays

VARIABLES facts,       \* version of each employee's compensation facts
          events,      \* revisions whose event no consumer has handled
          known,       \* the facts when the draft was last saved (history)
          run,         \* the payroll_runs row
          drafts,      \* how often a draft was computed
          lines,       \* payroll_run_lines, per employee and draft
          components,  \* payroll_run_line_components of each line
          payslips,    \* payslips, per employee
          announced,   \* totals of the 'payroll.finalized' events
          call         \* what each session does

rowVars == <<run, drafts, lines, components, payslips, announced>>
vars == <<facts, events, known, rowVars, call>>

Facts == 0..MaxFacts
LineIds == Employees \X (1..MaxDrafts)
Pays == [facts : 1..MaxFacts, days : PayableDays]
NoPay == [facts |-> 0, days |-> 0]
Lines == [days : PayableDays, gross : Pays \cup {NoPay}]
NoLine == [days |-> -1, gross |-> NoPay]
Payslips == [gross : Pays \cup {NoPay}, components : Pays \cup {NoPay}]
NoPayslip == [gross |-> [facts |-> -1, days |-> 0], components |-> NoPay]
AllPayslips == [Employees -> Payslips \cup {NoPayslip}]
NoTotals == [e \in Employees |-> NoPayslip]
Runs == [status : {"absent", "draft", "finalized"}, isStale : BOOLEAN,
         totals : AllPayslips, paid : BOOLEAN]
NoRun == [status |-> "absent", isStale |-> FALSE, totals |-> NoTotals, paid |-> FALSE]
NoLines == [id \in LineIds |-> NoLine]
NoComponents == [id \in LineIds |-> NoPay]
NoFacts == [e \in Employees |-> 0]

Idle == [op |-> "none"]
Held == [LineIds -> Lines \cup {NoLine}]
HeldComponents == [LineIds -> Pays \cup {NoPay}]
Calls ==
  {Idle} \cup
  [op : {"create"}, at : {"read"}, basis : [Employees -> Facts]] \cup
  [op : {"regenerate"}, at : {"begun", "read"}, basis : [Employees -> Facts], object : Runs] \cup
  [op : {"edit"}, at : {"read"}, id : LineIds, pay : Pays \cup {NoPay}] \cup
  [op : {"finalize"}, at : {"begun", "read"}, lines : Held, components : HeldComponents] \cup
  [op : {"mark", "pay"}, at : {"read"}, object : Runs]

TypeOK ==
  /\ facts \in [Employees -> Facts]
  /\ events \in Nat
  /\ known \in [Employees -> Facts]
  /\ run \in Runs
  /\ drafts \in 0..MaxDrafts
  /\ lines \in Held
  /\ components \in HeldComponents
  /\ payslips \in AllPayslips
  /\ announced \subseteq AllPayslips
  /\ call \in [Sessions -> Calls]

Init ==
  /\ facts \in [Employees -> {0, 1}]
  /\ events = 0
  /\ known = facts
  /\ run = NoRun
  /\ drafts = 0
  /\ lines = NoLines
  /\ components = NoComponents
  /\ payslips = NoTotals
  /\ announced = {}
  /\ call = [s \in Sessions |-> Idle]

-----------------------------------------------------------------------------
(* Sessions *)

Doing(s, op, at) == call[s].op = op /\ call[s].at = at

Present(rows) == {id \in LineIds : rows[id] # NoLine}

Begin(s, work) ==
  /\ call[s] = Idle
  /\ call' = [call EXCEPT ![s] = work]

End(s) == call' = [call EXCEPT ![s] = Idle]

\* A statement throws or the process dies: the transaction leaves nothing.
Fail(s) ==
  /\ call[s] # Idle
  /\ End(s)
  /\ UNCHANGED <<facts, events, known, rowVars>>

-----------------------------------------------------------------------------
(* Compensation *)

\* A salary, tax or benefits revision commits with its event in the outbox.
Revise(e) ==
  /\ facts[e] < MaxFacts
  /\ facts' = [facts EXCEPT ![e] = @ + 1]
  /\ events' = events + 1
  /\ UNCHANGED <<known, rowVars, call>>

-----------------------------------------------------------------------------
(* Drafts *)

IsDraft == run.status = "draft"

BeginCreate(s) ==
  /\ run.status = "absent"
  /\ Begin(s, [op |-> "create", at |-> "read", basis |-> facts])
  /\ UNCHANGED <<facts, events, known, rowVars>>

BeginRegenerate(s) ==
  /\ IsDraft
  /\ Begin(s, [op |-> "regenerate", at |-> "begun", basis |-> facts, object |-> NoRun])
  /\ UNCHANGED <<facts, events, known, rowVars>>

LoadRun(s) ==
  /\ Doing(s, "regenerate", "begun")
  /\ call' = [call EXCEPT ![s].at = "read", ![s].object = run]
  /\ UNCHANGED <<facts, events, known, rowVars>>

\* The lines of a draft computed from the facts of the employees with a salary.
ComputedPay(basis, id) ==
  IF id[2] = drafts + 1 /\ basis[id[1]] > 0
    THEN [facts |-> basis[id[1]], days |-> FullDays]
    ELSE NoPay
ComputedLine(basis, id) ==
  IF ComputedPay(basis, id) = NoPay THEN NoLine
    ELSE [days |-> FullDays, gross |-> ComputedPay(basis, id)]

PersistDraft(s) ==
  /\ drafts < MaxDrafts
  /\ drafts' = drafts + 1
  /\ lines' = [id \in LineIds |-> ComputedLine(call[s].basis, id)]
  /\ components' = [id \in LineIds |-> ComputedPay(call[s].basis, id)]
  /\ known' = facts
  /\ End(s)
  /\ UNCHANGED <<facts, events, payslips, announced>>

\* The unique index admits one run per period.
CommitCreate(s) ==
  /\ Doing(s, "create", "read")
  /\ run.status = "absent"
  /\ run' = [NoRun EXCEPT !.status = "draft"]
  /\ PersistDraft(s)

CommitRegenerate(s) ==
  /\ Doing(s, "regenerate", "read")
  /\ run' = [call[s].object EXCEPT !.isStale = FALSE]
  /\ PersistDraft(s)

-----------------------------------------------------------------------------
(* Edits of one line *)

ReadLine(s, id) ==
  /\ lines[id] # NoLine
  /\ IsDraft
  /\ Begin(s, [op |-> "edit", at |-> "read", id |-> id, pay |-> components[id]])
  /\ UNCHANGED <<facts, events, known, rowVars>>

\* Mutant of Prorated: the days pile up over repeated edits.
ProratedAgain(pay, days) == IF pay = NoPay THEN NoPay ELSE [pay EXCEPT !.days = @ + days]

\* A line without components earns nothing; the others keep their full amount,
\* so that repeated edits do not compound.
Prorated(pay, days) == IF pay = NoPay THEN NoPay ELSE [pay EXCEPT !.days = days]

\* save inserts what is no longer there, unless the unique index holds another
\* line of the employee.
UpdateRunLine(s, days) ==
  /\ Doing(s, "edit", "read")
  /\ LET id == call[s].id
         pay == Prorated(call[s].pay, days)
     IN  /\ \A other \in Present(lines) : other[1] = id[1] => other = id
         /\ lines' = [lines EXCEPT ![id] = [days |-> days, gross |-> pay]]
         /\ components' = IF pay = NoPay THEN components ELSE [components EXCEPT ![id] = pay]
  /\ End(s)
  /\ UNCHANGED <<facts, events, known, run, drafts, payslips, announced>>

RemoveRunLine(s) ==
  /\ Doing(s, "edit", "read")
  /\ lines' = [lines EXCEPT ![call[s].id] = NoLine]
  /\ components' = [components EXCEPT ![call[s].id] = NoPay]
  /\ End(s)
  /\ UNCHANGED <<facts, events, known, run, drafts, payslips, announced>>

-----------------------------------------------------------------------------
(* Finalization *)

BeginFinalize(s) ==
  /\ IsDraft
  /\ Present(lines) # {}
  /\ Begin(s, [op |-> "finalize", at |-> "begun", lines |-> lines,
               components |-> NoComponents])
  /\ UNCHANGED <<facts, events, known, rowVars>>

\* A line without earnings needs a reason to go on.
PrepareLines(s) ==
  /\ Doing(s, "finalize", "begun")
  /\ call' = [call EXCEPT ![s].at = "read",
                ![s].components = [id \in LineIds |->
                   IF id \in Present(call[s].lines) THEN components[id] ELSE NoPay]]
  /\ UNCHANGED <<facts, events, known, rowVars>>

Prepared(s) == {id[1] : id \in Present(call[s].lines)}

PreparedPayslip(s, e) ==
  LET id == CHOOSE i \in Present(call[s].lines) : i[1] = e
  IN  [gross |-> call[s].lines[id].gross, components |-> call[s].components[id]]

\* Mutant of NoPayslipYet: the index is not unique.
NoPayslipYetAny(s) == Prepared(s) # {}

\* The unique index admits one payslip per employee and period.
NoPayslipYet(s) == \A e \in Prepared(s) : payslips[e] = NoPayslip

CommitFinalize(s) ==
  LET totals == [e \in Employees |->
                   IF e \in Prepared(s) THEN PreparedPayslip(s, e) ELSE NoPayslip] IN
  /\ Doing(s, "finalize", "read")
  /\ NoPayslipYet(s)
  /\ payslips' = [e \in Employees |-> IF e \in Prepared(s) THEN totals[e] ELSE payslips[e]]
  /\ run' = [run EXCEPT !.status = "finalized", !.totals = totals]
  /\ announced' = announced \cup {totals}
  /\ End(s)
  /\ UNCHANGED <<facts, events, known, drafts, lines, components>>

-----------------------------------------------------------------------------
(* Consumers of revisions, and payment *)

\* Each event is handled by one consumer at a time; nothing to flag ends it.
BeginMark(s) ==
  /\ events > Cardinality({t \in Sessions : call[t].op = "mark"})
  /\ IF IsDraft /\ ~run.isStale
       THEN /\ Begin(s, [op |-> "mark", at |-> "read", object |-> run])
            /\ UNCHANGED events
       ELSE /\ call[s] = Idle
            /\ events' = events - 1
            /\ UNCHANGED call
  /\ UNCHANGED <<facts, known, rowVars>>

\* Mutant of MarkDraftsStale: the reason is saved, the flag is not.
MarkDraftsStaleReasonOnly(s) ==
  /\ Doing(s, "mark", "read")
  /\ run' = call[s].object
  /\ events' = events - 1
  /\ End(s)
  /\ UNCHANGED <<facts, known, drafts, lines, components, payslips, announced>>

MarkDraftsStale(s) ==
  /\ Doing(s, "mark", "read")
  /\ run' = [call[s].object EXCEPT !.isStale = TRUE]
  /\ events' = events - 1
  /\ End(s)
  /\ UNCHANGED <<facts, known, drafts, lines, components, payslips, announced>>

\* Mutant of Payable: a run that was never finalized is paid.
PayableUnpaid == ~run.paid

Payable == run.status = "finalized" /\ ~run.paid

BeginPay(s) ==
  /\ Payable
  /\ Begin(s, [op |-> "pay", at |-> "read", object |-> run])
  /\ UNCHANGED <<facts, events, known, rowVars>>

MarkRunPaid(s) ==
  /\ Doing(s, "pay", "read")
  /\ run' = [call[s].object EXCEPT !.paid = TRUE]
  /\ End(s)
  /\ UNCHANGED <<facts, events, known, drafts, lines, components, payslips, announced>>

-----------------------------------------------------------------------------
Step(s) ==
  \/ BeginCreate(s) \/ CommitCreate(s)
  \/ BeginRegenerate(s) \/ LoadRun(s) \/ CommitRegenerate(s)
  \/ (\E id \in LineIds : ReadLine(s, id))
  \/ (\E days \in PayableDays : UpdateRunLine(s, days)) \/ RemoveRunLine(s)
  \/ BeginFinalize(s) \/ PrepareLines(s) \/ CommitFinalize(s)
  \/ BeginMark(s) \/ MarkDraftsStale(s)
  \/ BeginPay(s) \/ MarkRunPaid(s)
  \/ Fail(s)

Next == (\E e \in Employees : Revise(e)) \/ (\E s \in Sessions : Step(s))

Spec == Init /\ [][Next]_vars

-----------------------------------------------------------------------------
(* Properties *)

\* Once the draft is saved no revision is lost, whatever edits, computations,
\* finalizations and late saves overlap: a draft without the flag, when every
\* event has been handled, stands on the facts as they were when it was saved.
RevisionsAreFlagged ==
  (IsDraft /\ ~run.isStale /\ events = 0) => facts = known

\* "flag any DRAFT run whose period is on/after the raise so finance
\* regenerates before finalizing" (payroll-run.service.ts:674-676): a draft that
\* is not flagged was computed from the facts as they are.  The code does not
\* keep it: create and regenerate read the facts before their transaction.
StaleIsFlagged ==
  (IsDraft /\ ~run.isStale /\ events = 0) =>
     \A id \in Present(lines) : components[id].facts = facts[id[1]]

\* However many finalizations race, and whatever is edited or computed again
\* meanwhile, each payslip was issued once and never changed: exactly one
\* announcement holds it, as it is.
Announcing(e) == {totals \in announced : totals[e] # NoPayslip}
PayslipsAnnouncedOnce ==
  \A e \in Employees :
    \/ payslips[e] = NoPayslip /\ Announcing(e) = {}
    \/ \E totals \in announced : Announcing(e) = {totals} /\ totals[e] = payslips[e]

\* No mixture of copies saved late leaves a run half finalized: it is a draft
\* without totals and payment, or finalized with totals that were announced.
RunIsWhole ==
  IF run.status = "finalized" THEN run.totals \in announced
    ELSE run.totals = NoTotals /\ ~run.paid

=============================================================================
