------------------------------- MODULE People -------------------------------
(***************************************************************************)
(* Four parts of the system that share no table: the payroll run, the      *)
(* effective-dated rows of an employee, assignments with their reporting   *)
(* lines, and recruitment.  Their steps commute, so the states of all four *)
(* together are those of each one; a behaviour picks one part and follows  *)
(* it, the others stay as they began.                                      *)
(***************************************************************************)
EXTENDS Integers, Sequences, FiniteSets

CONSTANTS Sessions, Employees, OneCall,
          MaxFacts, MaxDrafts, PayableDays, FullDays,
          LastRangeDay, HireDay, MaxRanges,
          LastLineDay, MaxAssignments,
          Applications, MaxAttempts, MaxChanges, MaxOffers, Leftover

VARIABLES part,                                              \* the part that moves
          facts, events, known, run, drafts, lines, components,
          payslips, announced, call,                         \* PayrollRun
          table, ranges, written, rangeLock, rangeCall,      \* EffectiveRanges
          assignments, created, guarded, lineLock, lineCall, \* Assignments
          request, position, posting, offers, employees,
          notices, changes, hiringCall                       \* Recruitment

payroll == <<facts, events, known, run, drafts, lines, components, payslips, announced, call>>
dated == <<table, ranges, written, rangeLock, rangeCall>>
reporting == <<assignments, created, guarded, lineLock, lineCall>>
hiring == <<request, position, posting, offers, employees, notices, changes, hiringCall>>
vars == <<part, payroll, dated, reporting, hiring>>

P == INSTANCE PayrollRun
R == INSTANCE EffectiveRanges WITH
       LastDay <- LastRangeDay, MaxRows <- MaxRanges,
       rows <- ranges, lock <- rangeLock, call <- rangeCall
A == INSTANCE Assignments WITH
       LastDay <- LastLineDay, MaxRows <- MaxAssignments,
       rows <- assignments, lock <- lineLock, call <- lineCall
H == INSTANCE Recruitment WITH events <- notices, call <- hiringCall

ASSUME ConstantsAssumption ==
  P!PayrollAssumption /\ R!RangesAssumption /\ A!LinesAssumption /\ H!HiringAssumption

Init ==
  /\ part \in {"payroll", "dated", "reporting", "hiring"}
  /\ P!Init
  /\ part # "payroll" => facts = P!NoFacts
  /\ R!Init
  /\ part # "dated" => table = "salary"
  /\ A!Init
  /\ H!Init
  /\ part # "hiring" => position = CHOOSE status \in Leftover : TRUE

Next ==
  \/ part = "payroll" /\ P!Next /\ UNCHANGED <<part, dated, reporting, hiring>>
  \/ part = "dated" /\ R!Next /\ UNCHANGED <<part, payroll, reporting, hiring>>
  \/ part = "reporting" /\ A!Next /\ UNCHANGED <<part, payroll, dated, hiring>>
  \/ part = "hiring" /\ H!Next /\ UNCHANGED <<part, payroll, dated, reporting>>

Spec == Init /\ [][Next]_vars

-----------------------------------------------------------------------------
(* Properties: those of the part that moves, the others being as they began *)

\* Every variable of the part keeps its type.
TypeOK ==
  /\ part = "payroll" => P!TypeOK
  /\ part = "dated" => R!TypeOK
  /\ part = "reporting" => A!TypeOK
  /\ part = "hiring" => H!TypeOK

\* PayrollRun: no revision after the draft was saved is lost to an unflagged draft.
RevisionsAreFlagged == part = "payroll" => P!RevisionsAreFlagged

\* PayrollRun: an unflagged draft was computed from the facts as they are, which
\* its comment promises and a revision during the computation breaks.
StaleIsFlagged == part = "payroll" => P!StaleIsFlagged

\* PayrollRun: each payslip is issued and announced once and stays as issued.
PayslipsAnnouncedOnce == part = "payroll" => P!PayslipsAnnouncedOnce

\* PayrollRun: the run is a draft or finalized, never half of each.
RunIsWhole == part = "payroll" => P!RunIsWhole

\* EffectiveRanges: one row at most is in force on a day, and a tax profile
\* always is once there was one.
RangesPartition == part = "dated" => R!RangesPartition

\* EffectiveRanges: closed rows are never rewritten.
HistoryStands == R!HistoryStands

\* Assignments: those inserted under the lock never share a day.
GuardedDisjoint == part = "reporting" => A!GuardedDisjoint

\* Assignments: no committed line puts its employee above themselves.
LineClosesNoLoop == A!LineClosesNoLoop

\* Recruitment: at rest, position and posting follow the request.
PositionFollows == part = "hiring" => H!PositionFollows

\* Recruitment: one employee for every accepted offer.
HiresAreAcceptances == part = "hiring" => H!HiresAreAcceptances

=============================================================================
