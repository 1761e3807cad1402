-------------------------- MODULE PayrollRunProofs --------------------------
(***************************************************************************)
(* Whatever the number of calls, employees and revisions, and with nobody  *)
(* waiting for anybody: what the payroll run keeps although every save     *)
(* puts back a row as it was read.                                         *)
(***************************************************************************)
EXTENDS PayrollRun, FiniteSetTheorems, TLAPS

-----------------------------------------------------------------------------
(* The inductive invariant *)

Marking == {s \in Sessions : call[s].op = "mark"}

\* Every consumer that is at work has an event of its own.
MarkInv == Cardinality(Marking) <= events

\* A row as RunIsWhole wants it, after the announcements of these totals.
Whole(row, totals) ==
  IF row.status = "finalized" THEN row.totals \in totals
    ELSE row.totals = NoTotals /\ ~row.paid

\* The row a call will save is whole, and a payment's is finalized.
SavesWhole(work, totals) ==
  /\ work.op \in {"regenerate", "mark", "pay"} => Whole(work.object, totals)
  /\ work.op = "pay" => work.object.status = "finalized"

SavesInv == \A s \in Sessions : SavesWhole(call[s], announced)

IInv == TypeOK /\ MarkInv /\ SavesInv /\ RevisionsAreFlagged /\ PayslipsAnnouncedOnce /\ RunIsWhole

-----------------------------------------------------------------------------
(* Types *)

LEMMA CallKind ==
  ASSUME TypeOK, NEW s \in Sessions
  PROVE  /\ call[s] \in Calls
         /\ call[s].op \in {"create", "regenerate"} => call[s].basis \in [Employees -> Facts]
         /\ call[s].op \in {"regenerate", "mark", "pay"} => call[s].object \in Runs
         /\ call[s].op = "edit" => call[s].id \in LineIds /\ call[s].pay \in Pays \cup {NoPay}
         /\ call[s].op = "finalize" =>
              call[s].lines \in Held /\ call[s].components \in HeldComponents
<1>1. call[s] \in Calls
  BY DEF TypeOK
<1> QED BY <1>1 DEF Calls, Idle

LEMMA EmptyRows ==
  /\ NoTotals \in AllPayslips /\ NoRun \in Runs
  /\ NoLines \in Held /\ NoComponents \in HeldComponents
  /\ \A e \in Employees : NoTotals[e] = NoPayslip
  /\ NoRun.status = "absent" /\ NoRun.totals = NoTotals /\ ~NoRun.paid
<1>1. NoTotals \in AllPayslips /\ \A e \in Employees : NoTotals[e] = NoPayslip
  BY DEF NoTotals, AllPayslips
<1> QED BY <1>1 DEF NoRun, Runs, NoLines, NoComponents, Held, HeldComponents

\* A payslip of a line is not the absence of one.
LEMMA PayslipIsNotNone == ASSUME PayrollAssumption, NEW p \in Payslips PROVE p # NoPayslip
<1>1. p.gross.facts \in Nat
  BY DEF Payslips, Pays, NoPay, PayrollAssumption
<1>2. NoPayslip.gross.facts = -1
  BY DEF NoPayslip
<1> QED BY <1>1, <1>2

LEMMA ComputedTypes ==
  ASSUME PayrollAssumption, TypeOK, NEW basis \in [Employees -> Facts], NEW id \in LineIds
  PROVE  /\ ComputedPay(basis, id) \in Pays \cup {NoPay}
         /\ ComputedLine(basis, id) \in Lines \cup {NoLine}
<1>1. basis[id[1]] \in Facts /\ FullDays \in PayableDays
  BY DEF LineIds, PayrollAssumption
<1>2. ComputedPay(basis, id) \in Pays \cup {NoPay}
  BY <1>1 DEF ComputedPay, Pays, NoPay, Facts, PayrollAssumption
<1> QED BY <1>1, <1>2 DEF ComputedLine, Lines

LEMMA PreparedTypes ==
  ASSUME IInv, NEW s \in Sessions, call[s].op = "finalize"
  PROVE  /\ Prepared(s) \subseteq Employees
         /\ \A e \in Prepared(s) : PreparedPayslip(s, e) \in Payslips
<1>1. call[s].lines \in Held /\ call[s].components \in HeldComponents
  BY CallKind DEF IInv
<1>2. Prepared(s) \subseteq Employees
  BY DEF Prepared, Present, LineIds
<1>3. ASSUME NEW e \in Prepared(s) PROVE PreparedPayslip(s, e) \in Payslips
  <2> DEFINE line == CHOOSE i \in Present(call[s].lines) : i[1] = e
  <2>1. \E i \in Present(call[s].lines) : i[1] = e
    BY DEF Prepared
  <2>2. line \in Present(call[s].lines)
    BY <2>1
  <2>3. PreparedPayslip(s, e) = [gross |-> call[s].lines[line].gross,
                                 components |-> call[s].components[line]]
    BY DEF PreparedPayslip
  <2> HIDE DEF line
  <2>4. line \in LineIds /\ call[s].lines[line] \in Lines
    BY <1>1, <2>2 DEF Present, Held
  <2>5. call[s].lines[line].gross \in Pays \cup {NoPay}
    BY <2>4 DEF Lines
  <2>6. call[s].components[line] \in Pays \cup {NoPay}
    BY <1>1, <2>4 DEF HeldComponents
  <2> QED BY <2>3, <2>5, <2>6 DEF Payslips
<1> QED BY <1>2, <1>3

-----------------------------------------------------------------------------
(* What the sessions hold *)

LEMMA MarkingIsFinite ==
  ASSUME PayrollAssumption
  PROVE  IsFiniteSet(Marking) /\ Cardinality(Marking) \in Nat
<1>1. IsFiniteSet(Sessions) /\ Marking \subseteq Sessions
  BY DEF PayrollAssumption, Marking
<1> QED BY <1>1, FS_Subset, FS_CardinalityType

\* A session goes on to other work; announcements only add up.
LEMMA OthersStay ==
  ASSUME IInv, NEW s \in Sessions, NEW work \in Calls, call' = [call EXCEPT ![s] = work],
         announced \subseteq announced', SavesWhole(work, announced')
  PROVE  /\ call' \in [Sessions -> Calls] /\ call'[s] = work
         /\ \A t \in Sessions \ {s} : call'[t] = call[t]
         /\ SavesInv'
<1>1. call \in [Sessions -> Calls]
  BY DEF IInv, TypeOK
<1>2. call' \in [Sessions -> Calls] /\ call'[s] = work /\ \A t \in Sessions \ {s} : call'[t] = call[t]
  BY <1>1
<1>3. SavesWhole(call'[s], announced')
  BY <1>2
<1>4. ASSUME NEW t \in Sessions \ {s} PROVE SavesWhole(call'[t], announced')
  <2>1. SavesWhole(call[t], announced) /\ call'[t] = call[t]
    BY <1>2 DEF IInv, SavesInv
  <2> QED BY <2>1 DEF SavesWhole, Whole
<1>5. SavesInv'
  BY <1>3, <1>4 DEF SavesInv
<1> QED BY <1>2, <1>5

\* A session that does not mark releases the event it had.
LEMMA MarksStay ==
  ASSUME PayrollAssumption, IInv, NEW s \in Sessions, NEW work \in Calls,
         call' = [call EXCEPT ![s] = work], work.op # "mark"
  PROVE  /\ Cardinality(Marking') \in Nat /\ Cardinality(Marking') <= events
         /\ call[s].op = "mark" => events >= 1 /\ Cardinality(Marking') <= events - 1
<1>1. /\ call' \in [Sessions -> Calls] /\ call'[s] = work
      /\ \A t \in Sessions \ {s} : call'[t] = call[t]
  BY DEF IInv, TypeOK
<1>2. Marking' = Marking \ {s}
  BY <1>1 DEF Marking
<1>3. IsFiniteSet(Marking) /\ Cardinality(Marking) \in Nat /\ Cardinality(Marking) <= events
  BY MarkingIsFinite DEF IInv, MarkInv
<1>4. events \in Nat
  BY DEF IInv, TypeOK
<1>5. CASE call[s].op = "mark"
  <2>1. s \in Marking
    BY <1>5 DEF Marking
  <2>2. IsFiniteSet(Marking \ {s}) /\ Cardinality(Marking \ {s}) = Cardinality(Marking) - 1
    BY <1>3, <2>1, FS_RemoveElement
  <2>3. Cardinality(Marking \ {s}) \in Nat
    BY <2>2, FS_CardinalityType
  <2> QED BY <1>2, <1>3, <1>4, <2>2, <2>3
<1>6. CASE call[s].op # "mark"
  <2>1. Marking' = Marking
    BY <1>2, <1>6 DEF Marking
  <2> QED BY <1>3, <1>6, <2>1
<1> QED BY <1>5, <1>6

LEMMA IdleSaves == Idle \in Calls /\ Idle.op # "mark" /\ SavesWhole(Idle, announced')
BY DEF Idle, Calls, SavesWhole

\* Steps that only read.
LEMMA ReadKeeps ==
  ASSUME PayrollAssumption, IInv, NEW s \in Sessions, NEW work \in Calls,
         call' = [call EXCEPT ![s] = work], UNCHANGED <<facts, events, known, rowVars>>,
         work.op # "mark", SavesWhole(work, announced)
  PROVE  IInv'
<1>1. UNCHANGED <<facts, events, known, run, drafts, lines, components, payslips, announced>>
  BY DEF rowVars
<1>2. SavesWhole(work, announced')
  BY <1>1 DEF SavesWhole, Whole
<1>3. call' \in [Sessions -> Calls] /\ SavesInv'
  BY <1>1, <1>2, OthersStay
<1>4. MarkInv'
  BY <1>1, MarksStay DEF MarkInv
<1>5. TypeOK'
  BY <1>1, <1>3 DEF IInv, TypeOK
<1>6. RevisionsAreFlagged' /\ PayslipsAnnouncedOnce' /\ RunIsWhole'
  BY <1>1 DEF IInv, RevisionsAreFlagged, IsDraft, PayslipsAnnouncedOnce, Announcing, RunIsWhole
<1> QED BY <1>3, <1>4, <1>5, <1>6 DEF IInv

-----------------------------------------------------------------------------
(* The steps that read *)

LEMMA FailKeeps == ASSUME PayrollAssumption, IInv, NEW s \in Sessions, Fail(s) PROVE IInv'
<1>1. SavesWhole(Idle, announced)
  BY DEF SavesWhole, Idle
<1> QED BY <1>1, IdleSaves, ReadKeeps DEF Fail, End

LEMMA BeginKeeps ==
  ASSUME PayrollAssumption, IInv, NEW s \in Sessions, NEW work \in Calls, Begin(s, work),
         UNCHANGED <<facts, events, known, rowVars>>, work.op # "mark", SavesWhole(work, announced)
  PROVE  IInv'
BY ReadKeeps DEF Begin

LEMMA BeginningsKeep ==
  ASSUME PayrollAssumption, IInv, NEW s \in Sessions,
         \/ BeginCreate(s) \/ BeginRegenerate(s) \/ BeginFinalize(s) \/ BeginPay(s)
         \/ \E id \in LineIds : ReadLine(s, id)
  PROVE  IInv'
<1>1. CASE BeginCreate(s)
  <2> DEFINE work == [op |-> "create", at |-> "read", basis |-> facts]
  <2>1. work \in Calls /\ SavesWhole(work, announced) /\ work.op # "mark"
    BY DEF IInv, TypeOK, Calls, SavesWhole
  <2>2. Begin(s, work) /\ UNCHANGED <<facts, events, known, rowVars>>
    BY <1>1 DEF BeginCreate
  <2> HIDE DEF work
  <2> QED BY <2>1, <2>2, BeginKeeps
<1>2. CASE BeginRegenerate(s)
  <2> DEFINE work == [op |-> "regenerate", at |-> "begun", basis |-> facts, object |-> NoRun]
  <2>1. work \in Calls /\ SavesWhole(work, announced) /\ work.op # "mark"
    BY EmptyRows DEF IInv, TypeOK, Calls, SavesWhole, Whole
  <2>2. Begin(s, work) /\ UNCHANGED <<facts, events, known, rowVars>>
    BY <1>2 DEF BeginRegenerate
  <2> HIDE DEF work
  <2> QED BY <2>1, <2>2, BeginKeeps
<1>3. CASE BeginFinalize(s)
  <2> DEFINE work == [op |-> "finalize", at |-> "begun", lines |-> lines, components |-> NoComponents]
  <2>1. work \in Calls /\ SavesWhole(work, announced) /\ work.op # "mark"
    BY EmptyRows DEF IInv, TypeOK, Calls, SavesWhole
  <2>2. Begin(s, work) /\ UNCHANGED <<facts, events, known, rowVars>>
    BY <1>3 DEF BeginFinalize
  <2> HIDE DEF work
  <2> QED BY <2>1, <2>2, BeginKeeps
<1>4. CASE BeginPay(s)
  <2> DEFINE work == [op |-> "pay", at |-> "read", object |-> run]
  <2>1. work \in Calls /\ SavesWhole(work, announced) /\ work.op # "mark"
    BY <1>4 DEF BeginPay, Payable, IInv, TypeOK, Calls, SavesWhole, Whole, RunIsWhole
  <2>2. Begin(s, work) /\ UNCHANGED <<facts, events, known, rowVars>>
    BY <1>4 DEF BeginPay
  <2> HIDE DEF work
  <2> QED BY <2>1, <2>2, BeginKeeps
<1>5. ASSUME NEW id \in LineIds, ReadLine(s, id) PROVE IInv'
  <2> DEFINE work == [op |-> "edit", at |-> "read", id |-> id, pay |-> components[id]]
  <2>1. work \in Calls /\ SavesWhole(work, announced) /\ work.op # "mark"
    BY DEF IInv, TypeOK, HeldComponents, Calls, SavesWhole
  <2>2. Begin(s, work) /\ UNCHANGED <<facts, events, known, rowVars>>
    BY <1>5 DEF ReadLine
  <2> HIDE DEF work
  <2> QED BY <2>1, <2>2, BeginKeeps
<1> QED BY <1>1, <1>2, <1>3, <1>4, <1>5

\* regenerate loads the run as it is by now.
LEMMA LoadRunKeeps == ASSUME PayrollAssumption, IInv, NEW s \in Sessions, LoadRun(s) PROVE IInv'
<1> DEFINE work == [call[s] EXCEPT !.at = "read", !.object = run]
<1>1. call[s] \in Calls /\ call[s].op = "regenerate" /\ call \in [Sessions -> Calls]
  BY DEF LoadRun, Doing, IInv, TypeOK
<1>2. call[s] \in [op : {"regenerate"}, at : {"begun", "read"}, basis : [Employees -> Facts], object : Runs]
  BY <1>1 DEF Calls, Idle
<1>3. work \in Calls /\ work.op = "regenerate" /\ work.object = run
  BY <1>2 DEF Calls, IInv, TypeOK
<1>4. call' = [call EXCEPT ![s] = work] /\ UNCHANGED <<facts, events, known, rowVars>>
  BY <1>1 DEF LoadRun
<1> HIDE DEF work
<1>5. SavesWhole(work, announced)
  BY <1>3 DEF SavesWhole, Whole, IInv, RunIsWhole
<1> QED BY <1>3, <1>4, <1>5, ReadKeeps

LEMMA PrepareLinesKeeps ==
  ASSUME PayrollAssumption, IInv, NEW s \in Sessions, PrepareLines(s)
  PROVE  IInv'
<1> DEFINE read == [id \in LineIds |-> IF id \in Present(call[s].lines) THEN components[id] ELSE NoPay]
<1> DEFINE work == [call[s] EXCEPT !.at = "read", !.components = read]
<1>1. call[s] \in Calls /\ call[s].op = "finalize" /\ call \in [Sessions -> Calls]
  BY DEF PrepareLines, Doing, IInv, TypeOK
<1>2. call[s] \in [op : {"finalize"}, at : {"begun", "read"}, lines : Held, components : HeldComponents]
  BY <1>1 DEF Calls, Idle
<1>3. read \in HeldComponents
  BY DEF IInv, TypeOK, HeldComponents
<1>4. call' = [call EXCEPT ![s] = work] /\ UNCHANGED <<facts, events, known, rowVars>>
  BY <1>1 DEF PrepareLines
<1> HIDE DEF read
<1>5. work \in Calls /\ work.op = "finalize"
  BY <1>2, <1>3 DEF Calls
<1> HIDE DEF work
<1>6. SavesWhole(work, announced)
  BY <1>5 DEF SavesWhole
<1> QED BY <1>4, <1>5, <1>6, ReadKeeps

-----------------------------------------------------------------------------
(* The steps that write *)

LEMMA ReviseKeeps ==
  ASSUME PayrollAssumption, IInv, NEW e \in Employees, Revise(e)
  PROVE  IInv'
<1>1. /\ UNCHANGED <<known, call, run, drafts, lines, components, payslips, announced>>
      /\ events' = events + 1
  BY DEF Revise, rowVars
<1>2. facts' \in [Employees -> Facts]
  BY DEF Revise, IInv, TypeOK, Facts, PayrollAssumption
<1>3. events' \in Nat /\ events' # 0
  BY <1>1 DEF IInv, TypeOK
<1>4. TypeOK'
  BY <1>1, <1>2, <1>3 DEF IInv, TypeOK
<1>5. Marking' = Marking
  BY <1>1 DEF Marking
<1>6. MarkInv'
  BY <1>1, <1>5, MarkingIsFinite DEF IInv, MarkInv, TypeOK
<1>7. SavesInv'
  BY <1>1 DEF IInv, SavesInv, SavesWhole, Whole
<1>8. RevisionsAreFlagged'
  BY <1>3 DEF RevisionsAreFlagged
<1>9. PayslipsAnnouncedOnce' /\ RunIsWhole'
  BY <1>1 DEF IInv, PayslipsAnnouncedOnce, Announcing, RunIsWhole
<1> QED BY <1>4, <1>6, <1>7, <1>8, <1>9 DEF IInv

\* A call that writes ends: what is left to show are the rows it wrote.
LEMMA WriteKeeps ==
  ASSUME PayrollAssumption, IInv, NEW s \in Sessions, End(s),
         events' = events \/ (call[s].op = "mark" /\ events' = events - 1),
         announced \subseteq announced',
         facts' = facts, known' \in [Employees -> Facts], run' \in Runs,
         drafts' \in 0..MaxDrafts, lines' \in Held, components' \in HeldComponents,
         payslips' \in AllPayslips, announced' \subseteq AllPayslips,
         RevisionsAreFlagged', PayslipsAnnouncedOnce', RunIsWhole'
  PROVE  IInv'
<1>1. call' = [call EXCEPT ![s] = Idle]
  BY DEF End
<1>2. call' \in [Sessions -> Calls] /\ SavesInv'
  BY <1>1, IdleSaves, OthersStay
<1>3. events' \in Nat /\ MarkInv'
  <2>1. events \in Nat
    BY DEF IInv, TypeOK
  <2>2. /\ Cardinality(Marking') \in Nat /\ Cardinality(Marking') <= events
        /\ call[s].op = "mark" => events >= 1 /\ Cardinality(Marking') <= events - 1
    BY <1>1, IdleSaves, MarksStay
  <2> QED BY <2>1, <2>2 DEF MarkInv
<1>4. TypeOK'
  BY <1>2, <1>3 DEF IInv, TypeOK
<1> QED BY <1>2, <1>3, <1>4 DEF IInv

\* Edits touch lines only.
LEMMA EditsKeep ==
  ASSUME PayrollAssumption, IInv, NEW s \in Sessions,
         (\E days \in PayableDays : UpdateRunLine(s, days)) \/ RemoveRunLine(s)
  PROVE  IInv'
<1>1. /\ call[s].op = "edit" /\ End(s)
      /\ UNCHANGED <<facts, events, known, run, drafts, payslips, announced>>
  BY DEF UpdateRunLine, RemoveRunLine, Doing
<1>2. call[s].id \in LineIds /\ call[s].pay \in Pays \cup {NoPay} /\ TypeOK
  BY <1>1, CallKind DEF IInv
<1>3. lines' \in Held /\ components' \in HeldComponents
  <2>1. CASE RemoveRunLine(s)
    BY <1>2, <2>1 DEF RemoveRunLine, TypeOK, Held, HeldComponents
  <2>2. ASSUME NEW days \in PayableDays, UpdateRunLine(s, days)
        PROVE  lines' \in Held /\ components' \in HeldComponents
    <3> DEFINE pay == Prorated(call[s].pay, days)
    <3>1. pay \in Pays \cup {NoPay}
      BY <1>2 DEF Prorated, Pays
    <3>2. /\ lines' = [lines EXCEPT ![call[s].id] = [days |-> days, gross |-> pay]]
          /\ components' = IF pay = NoPay THEN components ELSE [components EXCEPT ![call[s].id] = pay]
      BY <2>2 DEF UpdateRunLine
    <3> HIDE DEF pay
    <3>3. [days |-> days, gross |-> pay] \in Lines
      BY <3>1 DEF Lines
    <3> QED BY <1>2, <3>1, <3>2, <3>3 DEF TypeOK, Held, HeldComponents
  <2> QED BY <2>1, <2>2
<1>4. RevisionsAreFlagged' /\ PayslipsAnnouncedOnce' /\ RunIsWhole'
  BY <1>1 DEF IInv, RevisionsAreFlagged, IsDraft, PayslipsAnnouncedOnce, Announcing, RunIsWhole
<1> QED BY <1>1, <1>2, <1>3, <1>4, WriteKeeps DEF TypeOK

\* A computed draft stands on the facts as they are when it is saved, and the
\* row it saves is a whole one.
LEMMA ComputationsKeep ==
  ASSUME PayrollAssumption, IInv, NEW s \in Sessions, CommitCreate(s) \/ CommitRegenerate(s)
  PROVE  IInv'
<1>1. /\ drafts < MaxDrafts /\ drafts' = drafts + 1 /\ End(s)
      /\ UNCHANGED <<facts, events, payslips, announced>>
      /\ lines' = [id \in LineIds |-> ComputedLine(call[s].basis, id)]
      /\ components' = [id \in LineIds |-> ComputedPay(call[s].basis, id)]
      /\ known' = facts
  BY DEF CommitCreate, CommitRegenerate, PersistDraft
<1>2. call[s].op \in {"create", "regenerate"}
  BY DEF CommitCreate, CommitRegenerate, Doing
<1>3. call[s].basis \in [Employees -> Facts] /\ TypeOK
  BY <1>2, CallKind DEF IInv
<1>4. lines' \in Held /\ components' \in HeldComponents
  BY <1>1, <1>3, ComputedTypes DEF Held, HeldComponents
<1>5. drafts' \in 0..MaxDrafts
  BY <1>1, <1>3 DEF TypeOK, PayrollAssumption
<1>6. run' \in Runs /\ Whole(run', announced')
  <2>1. CASE CommitCreate(s)
    BY <2>1, EmptyRows DEF CommitCreate, Runs, Whole
  <2>2. CASE CommitRegenerate(s)
    <3>1. call[s].op = "regenerate" /\ run' = [call[s].object EXCEPT !.isStale = FALSE]
      BY <2>2 DEF CommitRegenerate, Doing
    <3>2. call[s].object \in Runs /\ Whole(call[s].object, announced)
      BY <3>1, CallKind DEF IInv, SavesInv, SavesWhole
    <3> QED BY <1>1, <3>1, <3>2 DEF Runs, Whole
  <2> QED BY <2>1, <2>2
<1>7. RevisionsAreFlagged'
  BY <1>1 DEF RevisionsAreFlagged
<1>8. PayslipsAnnouncedOnce' /\ RunIsWhole'
  BY <1>1, <1>6 DEF IInv, PayslipsAnnouncedOnce, Announcing, RunIsWhole, Whole
<1> QED BY <1>1, <1>3, <1>4, <1>5, <1>6, <1>7, <1>8, WriteKeeps DEF TypeOK

\* The two saves of a row read before: one flags it, the other's is finalized.
LEMMA SavesKeep ==
  ASSUME PayrollAssumption, IInv, NEW s \in Sessions, MarkDraftsStale(s) \/ MarkRunPaid(s)
  PROVE  IInv'
<1>1. /\ End(s)
      /\ UNCHANGED <<facts, known, drafts, lines, components, payslips, announced>>
      /\ events' = events \/ (call[s].op = "mark" /\ events' = events - 1)
  BY DEF MarkDraftsStale, MarkRunPaid, Doing
<1>2. call[s].object \in Runs /\ Whole(call[s].object, announced)
  BY CallKind DEF MarkDraftsStale, MarkRunPaid, Doing, IInv, SavesInv, SavesWhole
<1>3. /\ run' \in Runs /\ Whole(run', announced')
      /\ run'.status = "finalized" \/ run'.isStale
  <2>1. CASE MarkDraftsStale(s)
    BY <1>2, <2>1 DEF MarkDraftsStale, Runs, Whole
  <2>2. CASE MarkRunPaid(s)
    <3>1. call[s].object.status = "finalized"
      BY <2>2 DEF MarkRunPaid, Doing, IInv, SavesInv, SavesWhole
    <3> QED BY <1>2, <2>2, <3>1 DEF MarkRunPaid, Runs, Whole
  <2> QED BY <2>1, <2>2
<1>4. RevisionsAreFlagged'
  BY <1>3 DEF RevisionsAreFlagged, IsDraft
<1>5. PayslipsAnnouncedOnce' /\ RunIsWhole'
  BY <1>1, <1>3 DEF IInv, PayslipsAnnouncedOnce, Announcing, RunIsWhole, Whole
<1> QED BY <1>1, <1>3, <1>4, <1>5, WriteKeeps DEF IInv, TypeOK

\* The unique index lets in only employees without a payslip, of whom nothing
\* was announced.
LEMMA CommitFinalizeKeeps ==
  ASSUME PayrollAssumption, IInv, NEW s \in Sessions, CommitFinalize(s)
  PROVE  IInv'
<1> DEFINE totals == [e \in Employees |->
                        IF e \in Prepared(s) THEN PreparedPayslip(s, e) ELSE NoPayslip]
<1>1. /\ call[s].op = "finalize" /\ End(s)
      /\ \A e \in Prepared(s) : payslips[e] = NoPayslip
      /\ UNCHANGED <<facts, events, known, drafts, lines, components>>
      /\ payslips' = [e \in Employees |-> IF e \in Prepared(s) THEN totals[e] ELSE payslips[e]]
      /\ run' = [run EXCEPT !.status = "finalized", !.totals = totals]
      /\ announced' = announced \cup {totals}
  BY DEF CommitFinalize, NoPayslipYet, Doing
<1>2. \A e \in Employees :
        IF e \in Prepared(s) THEN totals[e] \in Payslips /\ totals[e] # NoPayslip
          ELSE totals[e] = NoPayslip
  BY <1>1, PreparedTypes, PayslipIsNotNone
<1>3. totals \in AllPayslips
  BY <1>2 DEF AllPayslips
<1> HIDE DEF totals
<1>4. TypeOK /\ payslips' \in AllPayslips /\ announced' \subseteq AllPayslips
  BY <1>1, <1>2, <1>3 DEF IInv, TypeOK, AllPayslips
<1>5. run' \in Runs /\ run'.status = "finalized" /\ run'.totals = totals
  BY <1>1, <1>3 DEF IInv, TypeOK, Runs
<1>6. RevisionsAreFlagged' /\ RunIsWhole'
  BY <1>1, <1>5 DEF RevisionsAreFlagged, IsDraft, RunIsWhole
<1>7. ASSUME NEW e \in Employees
      PROVE  \/ payslips'[e] = NoPayslip /\ Announcing(e)' = {}
             \/ \E t \in announced' : Announcing(e)' = {t} /\ t[e] = payslips'[e]
  <2>1. \/ payslips[e] = NoPayslip /\ Announcing(e) = {}
        \/ \E t \in announced : Announcing(e) = {t} /\ t[e] = payslips[e]
    BY DEF IInv, PayslipsAnnouncedOnce
  <2>2. CASE e \in Prepared(s)
    <3>1. Announcing(e) = {}
      BY <1>1, <2>1, <2>2 DEF Announcing
    <3>2. Announcing(e)' = {totals}
      BY <1>1, <1>2, <2>2, <3>1 DEF Announcing
    <3> QED BY <1>1, <2>2, <3>2
  <2>3. CASE e \notin Prepared(s)
    <3>1. Announcing(e)' = Announcing(e) /\ payslips'[e] = payslips[e]
      BY <1>1, <1>2, <2>3 DEF Announcing
    <3> QED BY <1>1, <2>1, <3>1
  <2> QED BY <2>2, <2>3
<1>8. PayslipsAnnouncedOnce'
  BY <1>7 DEF PayslipsAnnouncedOnce
<1> QED BY <1>1, <1>4, <1>5, <1>6, <1>8, WriteKeeps DEF TypeOK

\* A consumer starts on an event of its own, or has nothing to flag.
LEMMA BeginMarkKeeps ==
  ASSUME PayrollAssumption, IInv, NEW s \in Sessions, BeginMark(s)
  PROVE  IInv'
<1>1. /\ events > Cardinality(Marking) /\ call[s] = Idle
      /\ UNCHANGED <<facts, known, run, drafts, lines, components, payslips, announced>>
  BY DEF BeginMark, Marking, Begin, rowVars
<1>2. events \in Nat /\ IsFiniteSet(Marking) /\ Cardinality(Marking) \in Nat
  BY MarkingIsFinite DEF IInv, TypeOK
<1>3. PayslipsAnnouncedOnce' /\ RunIsWhole'
  BY <1>1 DEF IInv, PayslipsAnnouncedOnce, Announcing, RunIsWhole
<1>4. CASE IsDraft /\ ~run.isStale
  <2> DEFINE work == [op |-> "mark", at |-> "read", object |-> run]
  <2>1. work \in Calls /\ work.op = "mark" /\ work.object = run
    BY DEF IInv, TypeOK, Calls
  <2>2. call' = [call EXCEPT ![s] = work] /\ events' = events
    BY <1>4 DEF BeginMark, Begin
  <2> HIDE DEF work
  <2>3. SavesWhole(work, announced')
    BY <1>1, <2>1 DEF SavesWhole, Whole, IInv, RunIsWhole
  <2>4. /\ call' \in [Sessions -> Calls] /\ call'[s] = work
        /\ \A t \in Sessions \ {s} : call'[t] = call[t]
        /\ SavesInv'
    BY <1>1, <2>1, <2>2, <2>3, OthersStay
  <2>5. Marking' = Marking \cup {s} /\ s \notin Marking
    BY <1>1, <2>1, <2>4 DEF Marking, Idle
  <2>6. MarkInv'
    BY <1>1, <1>2, <2>2, <2>5, FS_AddElement DEF MarkInv
  <2>7. TypeOK' /\ RevisionsAreFlagged'
    BY <1>1, <2>2, <2>4 DEF IInv, TypeOK, RevisionsAreFlagged, IsDraft
  <2> QED BY <1>3, <2>4, <2>6, <2>7 DEF IInv
<1>5. CASE ~(IsDraft /\ ~run.isStale)
  <2>1. call' = call /\ events' = events - 1
    BY <1>5 DEF BeginMark
  <2>2. TypeOK' /\ SavesInv'
    BY <1>1, <1>2, <2>1 DEF IInv, TypeOK, SavesInv, SavesWhole, Whole
  <2>3. Marking' = Marking
    BY <2>1 DEF Marking
  <2>4. MarkInv' /\ RevisionsAreFlagged'
    BY <1>1, <1>2, <1>5, <2>1, <2>3 DEF MarkInv, RevisionsAreFlagged, IsDraft
  <2> QED BY <1>3, <2>2, <2>4 DEF IInv
<1> QED BY <1>4, <1>5

-----------------------------------------------------------------------------
(* Every state keeps it *)

LEMMA InitHolds == ASSUME PayrollAssumption, Init PROVE IInv
<1>1. facts \in [Employees -> Facts] /\ known = facts
  BY DEF Init, Facts, PayrollAssumption
<1>2. call \in [Sessions -> Calls] /\ \A s \in Sessions : call[s] = Idle
  BY DEF Init, Calls
<1>3. TypeOK
  BY <1>1, <1>2, EmptyRows DEF Init, TypeOK, PayrollAssumption
<1>4. Marking = {}
  BY <1>2 DEF Marking, Idle
<1>5. MarkInv
  BY <1>4, FS_EmptySet DEF MarkInv, Init
<1>6. SavesInv
  BY <1>2 DEF SavesInv, SavesWhole, Idle
<1>7. RevisionsAreFlagged /\ PayslipsAnnouncedOnce /\ RunIsWhole
  BY EmptyRows DEF Init, RevisionsAreFlagged, PayslipsAnnouncedOnce, Announcing, RunIsWhole
<1> QED BY <1>3, <1>5, <1>6, <1>7 DEF IInv

LEMMA StutterKeeps == ASSUME IInv, UNCHANGED vars PROVE IInv'
<1>1. UNCHANGED <<facts, events, known, run, drafts, lines, components, payslips, announced, call>>
  BY DEF vars, rowVars
<1>2. TypeOK' /\ MarkInv' /\ SavesInv'
  BY <1>1 DEF IInv, TypeOK, MarkInv, Marking, SavesInv, SavesWhole, Whole
<1>3. RevisionsAreFlagged' /\ PayslipsAnnouncedOnce' /\ RunIsWhole'
  BY <1>1 DEF IInv, RevisionsAreFlagged, IsDraft, PayslipsAnnouncedOnce, Announcing, RunIsWhole
<1> QED BY <1>2, <1>3 DEF IInv

LEMMA StepKeeps == ASSUME PayrollAssumption, IInv, NEW s \in Sessions, Step(s) PROVE IInv'
<1>1. CASE \/ BeginCreate(s) \/ BeginRegenerate(s) \/ BeginFinalize(s) \/ BeginPay(s)
           \/ \E id \in LineIds : ReadLine(s, id)
  BY <1>1, BeginningsKeep
<1>2. CASE LoadRun(s)
  BY <1>2, LoadRunKeeps
<1>3. CASE PrepareLines(s)
  BY <1>3, PrepareLinesKeeps
<1>4. CASE CommitCreate(s) \/ CommitRegenerate(s)
  BY <1>4, ComputationsKeep
<1>5. CASE (\E days \in PayableDays : UpdateRunLine(s, days)) \/ RemoveRunLine(s)
  BY <1>5, EditsKeep
<1>6. CASE CommitFinalize(s)
  BY <1>6, CommitFinalizeKeeps
<1>7. CASE BeginMark(s)
  BY <1>7, BeginMarkKeeps
<1>8. CASE MarkDraftsStale(s) \/ MarkRunPaid(s)
  BY <1>8, SavesKeep
<1>9. CASE Fail(s)
  BY <1>9, FailKeeps
<1> QED BY <1>1, <1>2, <1>3, <1>4, <1>5, <1>6, <1>7, <1>8, <1>9 DEF Step

LEMMA Invariance == ASSUME PayrollAssumption PROVE Spec => []IInv
<1>1. Init => IInv
  BY InitHolds
<1>2. IInv /\ [Next]_vars => IInv'
  <2>1. SUFFICES ASSUME IInv, [Next]_vars PROVE IInv'
    OBVIOUS
  <2>2. CASE Next
    BY <2>1, <2>2, ReviseKeeps, StepKeeps DEF Next
  <2>3. CASE UNCHANGED vars
    BY <2>1, <2>3, StutterKeeps
  <2> QED BY <2>1, <2>2, <2>3
<1> QED BY <1>1, <1>2, PTL DEF Spec

\* The run, its lines, the payslips and every call keep their types.
THEOREM TypeCorrect == ASSUME PayrollAssumption PROVE Spec => []TypeOK
<1>1. IInv => TypeOK
  BY DEF IInv
<1> QED BY <1>1, Invariance, PTL

\* After the draft is saved no revision is lost, however calls overlap: a
\* consumer flags the draft, or a later computation saves it again
\* (persistDraft, markDraftsStaleForChange).
THEOREM NoRevisionIsForgotten == ASSUME PayrollAssumption PROVE Spec => []RevisionsAreFlagged
<1>1. IInv => RevisionsAreFlagged
  BY DEF IInv
<1> QED BY <1>1, Invariance, PTL

\* Each payslip stands as it was issued and was announced once, however many
\* finalizations, edits and computations race (finalizeRun).
THEOREM PayslipsIssuedOnce == ASSUME PayrollAssumption PROVE Spec => []PayslipsAnnouncedOnce
<1>1. IInv => PayslipsAnnouncedOnce
  BY DEF IInv
<1> QED BY <1>1, Invariance, PTL

\* No copy saved late leaves the run half finalized (markDraftsStaleForChange,
\* markRunPaid and persistDraft all save the row they read).
THEOREM NeverHalfFinalized == ASSUME PayrollAssumption PROVE Spec => []RunIsWhole
<1>1. IInv => RunIsWhole
  BY DEF IInv
<1> QED BY <1>1, Invariance, PTL

=============================================================================
