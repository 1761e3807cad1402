----------------------------- MODULE Attendance -----------------------------
(***************************************************************************)
(* One employee's punches, time entries and timesheets, from               *)
(* packages/api/src/modules/attendance.  Everything that adds entries or   *)
(* timesheets, and the freeze of a timesheet, runs under one advisory lock *)
(* per employee; submitting and approving a timesheet do not, and a freeze *)
(* reads its timesheet before it takes the lock.                           *)
(*                                                                         *)
(* Every entry counts one hour.  Saving a timesheet writes the status and  *)
(* the total of the object that was read, whatever the row holds by then.  *)
(***************************************************************************)
EXTENDS Naturals, Sequences, FiniteSets

CONSTANTS Sessions,    \* concurrent calls of the services
          Entries,     \* ids of time entries
          Timesheets,  \* ids of timesheets
          PeriodOf,    \* timesheet -> the days of its period
          LastDay      \* the clock stops there (bound)

ASSUME LastDayAssumption == LastDay \in Nat \ {0}
ASSUME PeriodsAssumption == PeriodOf \in [Timesheets -> SUBSET (1..LastDay)]
ASSUME EntriesAssumption == IsFiniteSet(Entries)

VARIABLES now,      \* the clock, in days
          punches,  \* clock_events in the order of occurredAt
          entries,  \* time_entries: the entry's day (0 without the row) and its timesheetId
          sheets,   \* timesheets, with status "absent" before the commit
          sent,     \* timesheet events on the outbox
          call,     \* the operation each session runs
          step,     \* and how far it got
          day,      \* the day of its punch or entry
          target,   \* the timesheet it is about
          object,   \* that timesheet as approve or lock read it
          found     \* the entries it read

sessionVars == <<call, step, day, target, object, found>>
rowVars == <<punches, entries, sheets, sent>>
vars == <<now, rowVars, sessionVars>>

Days == 1..LastDay
SheetStatus == {"absent", "open", "submitted", "approved", "locked"}
Sheets == [status : SheetStatus, total : Nat]
Calls == {"none", "clockIn", "clockOut", "recordEntry", "open", "submit", "approve", "lock"}

Punch == [type : {"in", "out"}, at : Days]
Event == [name : {"timesheet.submitted", "timesheet.locked"}, sheet : Timesheets, total : Nat]
NoSheet == "none"

TypeOK ==
  /\ now \in Days
  /\ punches \in Seq(Punch)
  /\ entries \in [Entries -> [day : 0..LastDay, sheet : Timesheets \cup {NoSheet}]]
  /\ sheets \in [Timesheets -> Sheets]
  /\ sent \subseteq Event
  /\ call \in [Sessions -> Calls]
  /\ step \in [Sessions -> {"idle", "begun", "held", "sum", "save"}]
  /\ day \in [Sessions -> 0..LastDay]
  /\ target \in [Sessions -> Timesheets \cup {NoSheet}]
  /\ object \in [Sessions -> Sheets]
  /\ found \in [Sessions -> SUBSET Entries]

NoRow == [status |-> "absent", total |-> 0]

Init ==
  /\ now = 1
  /\ punches = <<>>
  /\ entries = [e \in Entries |-> [day |-> 0, sheet |-> NoSheet]]
  /\ sheets = [t \in Timesheets |-> NoRow]
  /\ sent = {}
  /\ call = [s \in Sessions |-> "none"]
  /\ step = [s \in Sessions |-> "idle"]
  /\ day = [s \in Sessions |-> 0]
  /\ target = [s \in Sessions |-> NoSheet]
  /\ object = [s \in Sessions |-> NoRow]
  /\ found = [s \in Sessions |-> {}]

Tick == now < LastDay /\ now' = now + 1 /\ UNCHANGED <<rowVars, sessionVars>>

-----------------------------------------------------------------------------
(* Calls, transactions and the advisory lock *)

Begin(s, c, d, t, o, next) ==
  /\ step[s] = "idle"
  /\ call' = [call EXCEPT ![s] = c]
  /\ day' = [day EXCEPT ![s] = d]
  /\ target' = [target EXCEPT ![s] = t]
  /\ object' = [object EXCEPT ![s] = o]
  /\ step' = [step EXCEPT ![s] = next]
  /\ UNCHANGED <<now, rowVars, found>>

\* The transaction commits or rolls back, and the advisory lock goes with it.
End(s) ==
  /\ call' = [call EXCEPT ![s] = "none"]
  /\ step' = [step EXCEPT ![s] = "idle"]
  /\ day' = [day EXCEPT ![s] = 0]
  /\ target' = [target EXCEPT ![s] = NoSheet]
  /\ object' = [object EXCEPT ![s] = NoRow]
  /\ found' = [found EXCEPT ![s] = {}]
  /\ UNCHANGED now

\* Mutant of LockFree: no lock at all.
LockFreeAlways == TRUE

LockFree == \A s \in Sessions : step[s] # "held"

\* pg_advisory_xact_lock, and the reads that follow it under the lock.
Acquire(s, c) == call[s] = c /\ step[s] = "begun" /\ LockFree

Hold(s) ==
  /\ step' = [step EXCEPT ![s] = "held"]
  /\ UNCHANGED <<now, rowVars, call, day, target, object>>

Refuse(s) == End(s) /\ UNCHANGED rowVars

Held(s, c) == call[s] = c /\ step[s] = "held"

-----------------------------------------------------------------------------
(* Punches and entries *)

\* A call that adds an entry starts only while an id is left for it (bound).
EntryLeft ==
  Cardinality({s \in Sessions : call[s] \in {"clockOut", "recordEntry"}})
    < Cardinality({e \in Entries : entries[e].day = 0})

\* Mutant of BeginClockIn: the punch is dated by the day before.
BeginClockInBehind(s) == Begin(s, "clockIn", now - 1, NoSheet, NoRow, "begun")

\* The time of a punch is taken before its transaction starts.
BeginClockIn(s) == Begin(s, "clockIn", now, NoSheet, NoRow, "begun")
BeginClockOut(s) == EntryLeft /\ Begin(s, "clockOut", now, NoSheet, NoRow, "begun")
BeginEntry(s, d) == EntryLeft /\ Begin(s, "recordEntry", d, NoSheet, NoRow, "begun")

PunchedIn == punches # <<>> /\ punches[Len(punches)].type = "in"
AfterLastPunch(d) == punches = <<>> \/ d > punches[Len(punches)].at

PeriodLocked(d) == \E t \in Timesheets : sheets[t].status = "locked" /\ d \in PeriodOf[t]

AddPunch(type, d) == punches' = Append(punches, [type |-> type, at |-> d])

AddEntry(d) ==
  \E e \in Entries :
    /\ entries[e].day = 0
    /\ entries' = [entries EXCEPT ![e] = [day |-> d, sheet |-> NoSheet]]

ClockInChecks(s) ==
  /\ Acquire(s, "clockIn")
  /\ IF ~PunchedIn /\ AfterLastPunch(day[s]) THEN Hold(s) /\ UNCHANGED found ELSE Refuse(s)

ClockInCommits(s) ==
  /\ Held(s, "clockIn")
  /\ AddPunch("in", day[s])
  /\ End(s)
  /\ UNCHANGED <<entries, sheets, sent>>

\* Mutant of ClockOutChecks: without the advisory lock.
ClockOutChecksUnlocked(s) ==
  /\ call[s] = "clockOut" /\ step[s] = "begun"
  /\ IF PunchedIn /\ AfterLastPunch(day[s]) /\ ~PeriodLocked(day[s])
       THEN Hold(s) /\ UNCHANGED found
       ELSE Refuse(s)

ClockOutChecks(s) ==
  /\ Acquire(s, "clockOut")
  /\ IF PunchedIn /\ AfterLastPunch(day[s]) /\ ~PeriodLocked(day[s])
       THEN Hold(s) /\ UNCHANGED found
       ELSE Refuse(s)

\* The punch and the entry of the session it closes commit together.
ClockOutCommits(s) ==
  /\ Held(s, "clockOut")
  /\ AddPunch("out", day[s])
  /\ AddEntry(day[s])
  /\ End(s)
  /\ UNCHANGED <<sheets, sent>>

RecordEntryChecks(s) ==
  /\ Acquire(s, "recordEntry")
  /\ IF ~PeriodLocked(day[s]) THEN Hold(s) /\ UNCHANGED found ELSE Refuse(s)

RecordEntryCommits(s) ==
  /\ Held(s, "recordEntry")
  /\ AddEntry(day[s])
  /\ End(s)
  /\ UNCHANGED <<punches, sheets, sent>>

-----------------------------------------------------------------------------
(* Timesheets *)

SaveSheet(t, status, total) ==
  sheets' = [sheets EXCEPT ![t] = [status |-> status, total |-> total]]

Send(name, t, total) == sent' = sent \cup {[name |-> name, sheet |-> t, total |-> total]}

InPeriod(t) == {e \in Entries : entries[e].day \in PeriodOf[t]}

BeginOpen(s, t) == sheets[t] = NoRow /\ Begin(s, "open", 0, t, NoRow, "begun")

\* Mutant of Overlapping: a period is refused only inside another one.
OverlappingInside(t) ==
  \E u \in Timesheets : sheets[u].status # "absent" /\ PeriodOf[t] \subseteq PeriodOf[u]

Overlapping(t) ==
  \E u \in Timesheets : sheets[u].status # "absent" /\ PeriodOf[t] \cap PeriodOf[u] # {}

OpenChecks(s) ==
  /\ Acquire(s, "open")
  /\ IF ~Overlapping(target[s]) THEN Hold(s) /\ UNCHANGED found ELSE Refuse(s)

OpenCommits(s) ==
  /\ Held(s, "open")
  /\ SaveSheet(target[s], "open", 0)
  /\ End(s)
  /\ UNCHANGED <<punches, entries, sent>>

\* submit and approve read and check the timesheet without a lock.
SubmitReads(s, t) ==
  /\ sheets[t].status = "open"
  /\ Begin(s, "submit", 0, t, NoRow, "sum")

SubmitSums(s) ==
  /\ step[s] = "sum"
  /\ found' = [found EXCEPT ![s] = InPeriod(target[s])]
  /\ step' = [step EXCEPT ![s] = "save"]
  /\ UNCHANGED <<now, rowVars, call, day, target, object>>

\* The sum and the status replace whatever the row holds by now.
SubmitCommits(s) ==
  /\ call[s] = "submit" /\ step[s] = "save"
  /\ SaveSheet(target[s], "submitted", Cardinality(found[s]))
  /\ Send("timesheet.submitted", target[s], 0)
  /\ End(s)
  /\ UNCHANGED <<punches, entries>>

ApproveReads(s, t) ==
  /\ sheets[t].status = "submitted"
  /\ Begin(s, "approve", 0, t, sheets[t], "save")

ApproveCommits(s) ==
  /\ call[s] = "approve" /\ step[s] = "save"
  /\ SaveSheet(target[s], "approved", object[s].total)
  /\ End(s)
  /\ UNCHANGED <<punches, entries, sent>>

\* lock reads the timesheet first and waits for the advisory lock second.
LockReads(s, t) ==
  /\ sheets[t].status # "absent"
  /\ Begin(s, "lock", 0, t, sheets[t], "begun")

FrozenElsewhere(t) == \E e \in InPeriod(t) : entries[e].sheet \notin {NoSheet, t}

\* Mutant of LockChecks: the freeze takes every entry of the employee.
LockChecksAll(s) ==
  /\ Acquire(s, "lock")
  /\ IF object[s].status = "approved" /\ ~FrozenElsewhere(target[s])
       THEN Hold(s) /\ found' = [found EXCEPT ![s] = {e \in Entries : entries[e].day # 0}]
       ELSE Refuse(s)

LockChecks(s) ==
  /\ Acquire(s, "lock")
  /\ IF object[s].status = "approved" /\ ~FrozenElsewhere(target[s])
       THEN Hold(s) /\ found' = [found EXCEPT ![s] = InPeriod(target[s])]
       ELSE Refuse(s)

\* Every entry it read is stamped, and the total is the one of the submission.
LockCommits(s) ==
  /\ Held(s, "lock")
  /\ entries' = [e \in Entries |->
       IF e \in found[s] THEN [day |-> entries[e].day, sheet |-> target[s]] ELSE entries[e]]
  /\ SaveSheet(target[s], "locked", object[s].total)
  /\ Send("timesheet.locked", target[s], object[s].total)
  /\ End(s)
  /\ UNCHANGED punches

\* Any statement may fail, the connection may drop, the process may die.
Fail(s) == step[s] # "idle" /\ Refuse(s)

-----------------------------------------------------------------------------
Start(s) ==
  \/ BeginClockIn(s) \/ BeginClockOut(s)
  \/ \E d \in Days : BeginEntry(s, d)
  \/ \E t \in Timesheets : BeginOpen(s, t) \/ SubmitReads(s, t) \/ ApproveReads(s, t) \/ LockReads(s, t)

Work(s) ==
  \/ ClockInChecks(s) \/ ClockInCommits(s) \/ ClockOutChecks(s) \/ ClockOutCommits(s)
  \/ RecordEntryChecks(s) \/ RecordEntryCommits(s)
  \/ OpenChecks(s) \/ OpenCommits(s)
  \/ SubmitSums(s) \/ SubmitCommits(s) \/ ApproveCommits(s)
  \/ LockChecks(s) \/ LockCommits(s)

Next == Tick \/ \E s \in Sessions : Start(s) \/ Work(s) \/ Fail(s)

Spec == Init /\ [][Next]_vars

\* Advisory locks are granted first come first served.
FairSpec == Spec /\ \A s \in Sessions : SF_vars(Work(s))

-----------------------------------------------------------------------------
(* Properties *)

\* "two concurrent clock-ins must not both see the last event as `out` and
\* leave two open punches" (attendance.service.ts:45-46): punches alternate,
\* move forward in time, and every one that closes a session left its entry.
PunchesAlternate ==
  /\ \A i \in DOMAIN punches : punches[i].type = (IF i % 2 = 1 THEN "in" ELSE "out")
  /\ \A i \in 1..(Len(punches) - 1) : punches[i].at < punches[i + 1].at
  /\ \A i \in DOMAIN punches :
       punches[i].type = "out" => \E e \in Entries : entries[e].day = punches[i].at

\* No two timesheets of the employee cover the same day, so none can freeze
\* the entries of another (timesheet.service.ts:43-44).
NoOverlap ==
  \A t, u \in Timesheets :
    t # u /\ sheets[t].status # "absent" /\ sheets[u].status # "absent"
      => PeriodOf[t] \cap PeriodOf[u] = {}

\* While a timesheet is locked its freeze is complete: a punch or a manual
\* entry that was checked before the freeze never lands in the period after it.
FreezeComplete ==
  \A t \in Timesheets :
    sheets[t].status = "locked" => \A e \in InPeriod(t) : entries[e].sheet = t

\* "A locked entry can never be moved to another timesheet or edited"
\* (time-entry.entity.ts:18-19), whatever becomes of the timesheet that froze it.
FrozenStays ==
  [][\A e \in Entries : entries[e].sheet # NoSheet => entries'[e] = entries[e]]_vars

\* "The unit a timesheet sums and (once locked) Payroll consumes"
\* (time-entry.entity.ts): what a locked timesheet says it totals is the sum of
\* the entries it froze.
LockedTotalIsFrozen ==
  \A t \in Timesheets :
    sheets[t].status = "locked" =>
      sheets[t].total = Cardinality({e \in Entries : entries[e].sheet = t})

\* "Once `locked` it is an immutable input to Payroll" (timesheet.entity.ts).
LockedIsImmutable ==
  [][\A t \in Timesheets : sheets[t].status = "locked" => sheets'[t] = sheets[t]]_vars
=============================================================================
