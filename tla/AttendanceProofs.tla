-------------------------- MODULE AttendanceProofs --------------------------
(***************************************************************************)
(* Whatever the number of calls, entries, timesheets and days: the advisory *)
(* lock of the employee keeps punches alternating, periods disjoint and    *)
(* every freeze complete, although submissions, approvals and the reading  *)
(* of the timesheet that is frozen do not take it.                         *)
(***************************************************************************)
EXTENDS Attendance, FiniteSetTheorems, SequenceTheorems, TLAPS

-----------------------------------------------------------------------------
(* The inductive invariant *)

Adding == {"clockIn", "clockOut", "recordEntry"}
OfASheet == {"submit", "approve", "lock"}

OneHolder == \A s, t \in Sessions : step[s] = "held" /\ step[t] = "held" => s = t

\* What a call carries; the timesheet it read is still there.
CallsInv ==
  \A s \in Sessions :
    /\ call[s] \in Adding => day[s] \in Days
    /\ call[s] \in OfASheet \cup {"open"} => target[s] \in Timesheets
    /\ call[s] \in OfASheet => sheets[target[s]].status # "absent"
    /\ step[s] = "sum" => call[s] = "submit"

\* What a call checked under the lock holds until it commits.
Checked(s) ==
  /\ call[s] = "clockIn" => ~PunchedIn /\ AfterLastPunch(day[s])
  /\ call[s] = "clockOut" => PunchedIn /\ AfterLastPunch(day[s]) /\ ~PeriodLocked(day[s])
  /\ call[s] = "recordEntry" => ~PeriodLocked(day[s])
  /\ call[s] = "open" => ~Overlapping(target[s])
  /\ call[s] = "lock" => found[s] = InPeriod(target[s]) /\ ~FrozenElsewhere(target[s])

HeldInv == \A s \in Sessions : step[s] = "held" => Checked(s)

\* Only entries that are there are frozen.
FrozenInv == \A e \in Entries : entries[e].day = 0 => entries[e].sheet = NoSheet

RowsInv == PunchesAlternate /\ NoOverlap /\ FreezeComplete /\ FrozenInv

IInv == TypeOK /\ OneHolder /\ CallsInv /\ HeldInv /\ RowsInv

-----------------------------------------------------------------------------
(* Beginning, holding and ending *)

LEMMA DaysAreNumbers == LastDay \in Nat /\ 1 \in Days /\ 0 \notin Days /\ Days \subseteq 0..LastDay
BY LastDayAssumption DEF Days

LEMMA NoRowType == NoRow \in Sheets /\ NoRow.status = "absent"
BY DEF NoRow, Sheets, SheetStatus

\* The session variables of one session change, the others stay.
LEMMA BeginKeeps ==
  ASSUME IInv, NEW s \in Sessions, NEW c \in Calls, NEW d \in 0..LastDay,
         NEW t \in Timesheets \cup {NoSheet}, NEW o \in Sheets, NEW next \in {"begun", "sum", "save"},
         Begin(s, c, d, t, o, next),
         c \in Adding => d \in Days,
         c \in OfASheet \cup {"open"} => t \in Timesheets,
         c \in OfASheet => sheets[t].status # "absent",
         next = "sum" => c = "submit"
  PROVE  IInv'
<1>1. /\ call' = [call EXCEPT ![s] = c] /\ day' = [day EXCEPT ![s] = d]
      /\ target' = [target EXCEPT ![s] = t] /\ object' = [object EXCEPT ![s] = o]
      /\ step' = [step EXCEPT ![s] = next]
      /\ UNCHANGED <<now, punches, entries, sheets, sent, found>>
  BY DEF Begin, rowVars
<1>2. /\ call'[s] = c /\ day'[s] = d /\ target'[s] = t /\ step'[s] = next /\ step'[s] # "held"
      /\ \A u \in Sessions \ {s} : /\ call'[u] = call[u] /\ day'[u] = day[u]
                                   /\ target'[u] = target[u] /\ step'[u] = step[u]
  BY <1>1 DEF IInv, TypeOK
<1>3. TypeOK'
  BY <1>1 DEF IInv, TypeOK
<1>4. OneHolder'
  BY <1>2 DEF IInv, OneHolder
<1>5. CallsInv'
  BY <1>1, <1>2 DEF IInv, CallsInv
<1>6. ASSUME NEW u \in Sessions, step'[u] = "held" PROVE Checked(u)'
  <2>1. u # s /\ Checked(u)
    BY <1>2, <1>6 DEF IInv, HeldInv
  <2>2. call'[u] = call[u] /\ day'[u] = day[u] /\ target'[u] = target[u]
    BY <1>2, <2>1
  <2> QED BY <1>1, <2>1, <2>2 DEF Checked, PunchedIn, AfterLastPunch, PeriodLocked, Overlapping,
                                  InPeriod, FrozenElsewhere
<1>7. RowsInv'
  BY <1>1 DEF IInv, RowsInv, PunchesAlternate, NoOverlap, FreezeComplete, FrozenInv, InPeriod
<1> QED BY <1>3, <1>4, <1>5, <1>6, <1>7 DEF IInv, HeldInv

LEMMA EndMeans ==
  ASSUME IInv, NEW s \in Sessions, End(s)
  PROVE  /\ now' = now
         /\ call' \in [Sessions -> Calls] /\ call'[s] = "none"
         /\ step' \in [Sessions -> {"idle", "begun", "held", "sum", "save"}] /\ step'[s] = "idle"
         /\ day' \in [Sessions -> 0..LastDay]
         /\ target' \in [Sessions -> Timesheets \cup {NoSheet}]
         /\ object' \in [Sessions -> Sheets]
         /\ found' \in [Sessions -> SUBSET Entries]
         /\ \A u \in Sessions \ {s} :
              /\ call'[u] = call[u] /\ day'[u] = day[u] /\ target'[u] = target[u]
              /\ step'[u] = step[u] /\ found'[u] = found[u]
         /\ OneHolder'
<1>1. /\ call' = [call EXCEPT ![s] = "none"] /\ step' = [step EXCEPT ![s] = "idle"]
      /\ day' = [day EXCEPT ![s] = 0] /\ target' = [target EXCEPT ![s] = NoSheet]
      /\ object' = [object EXCEPT ![s] = NoRow] /\ found' = [found EXCEPT ![s] = {}]
      /\ now' = now
  BY DEF End
<1>2. "none" \in Calls /\ 0 \in 0..LastDay
  BY DaysAreNumbers DEF Calls
<1>3. /\ call' \in [Sessions -> Calls] /\ call'[s] = "none"
      /\ step' \in [Sessions -> {"idle", "begun", "held", "sum", "save"}] /\ step'[s] = "idle"
      /\ day' \in [Sessions -> 0..LastDay]
      /\ target' \in [Sessions -> Timesheets \cup {NoSheet}]
      /\ object' \in [Sessions -> Sheets]
      /\ found' \in [Sessions -> SUBSET Entries]
  BY <1>1, <1>2, NoRowType DEF IInv, TypeOK
<1>4. \A u \in Sessions \ {s} :
        /\ call'[u] = call[u] /\ day'[u] = day[u] /\ target'[u] = target[u]
        /\ step'[u] = step[u] /\ found'[u] = found[u]
  BY <1>1 DEF IInv, TypeOK
<1>5. OneHolder'
  BY <1>3, <1>4 DEF IInv, OneHolder
<1> QED BY <1>1, <1>3, <1>4, <1>5

LEMMA RefuseKeeps ==
  ASSUME IInv, NEW s \in Sessions, Refuse(s)
  PROVE  IInv'
<1>1. End(s) /\ UNCHANGED <<punches, entries, sheets, sent>>
  BY DEF Refuse, rowVars
<1>2. TypeOK' /\ OneHolder'
  BY <1>1, EndMeans DEF IInv, TypeOK
<1>3. CallsInv'
  BY <1>1, EndMeans DEF IInv, CallsInv, Adding, OfASheet
<1>4. ASSUME NEW u \in Sessions, step'[u] = "held" PROVE Checked(u)'
  <2>1. u # s /\ call'[u] = call[u] /\ day'[u] = day[u] /\ target'[u] = target[u] /\ found'[u] = found[u]
    BY <1>1, <1>4, EndMeans
  <2>2. Checked(u)
    BY <1>1, <1>4, <2>1, EndMeans DEF IInv, HeldInv
  <2> QED BY <1>1, <2>1, <2>2 DEF Checked, PunchedIn, AfterLastPunch, PeriodLocked, Overlapping,
                                  InPeriod, FrozenElsewhere
<1>5. RowsInv'
  BY <1>1 DEF IInv, RowsInv, PunchesAlternate, NoOverlap, FreezeComplete, FrozenInv, InPeriod
<1> QED BY <1>2, <1>3, <1>4, <1>5 DEF IInv, HeldInv

\* The lock is granted to a call whose checks pass.
LEMMA HoldKeeps ==
  ASSUME IInv, NEW s \in Sessions, LockFree, Hold(s), Checked(s)', call[s] # "none",
         \/ UNCHANGED found
         \/ \E es \in SUBSET Entries : found' = [found EXCEPT ![s] = es]
  PROVE  IInv'
<1>1. /\ step' = [step EXCEPT ![s] = "held"]
      /\ UNCHANGED <<now, call, day, target, object, punches, entries, sheets, sent>>
  BY DEF Hold, rowVars
<1>2. step'[s] = "held" /\ \A u \in Sessions \ {s} : step'[u] = step[u] /\ step[u] # "held"
  BY <1>1 DEF IInv, TypeOK, LockFree
<1>3. TypeOK'
  BY <1>1 DEF IInv, TypeOK
<1>4. OneHolder' /\ HeldInv'
  BY <1>2 DEF OneHolder, HeldInv
<1>5. CallsInv'
  BY <1>1, <1>2 DEF IInv, CallsInv
<1>6. RowsInv'
  BY <1>1 DEF IInv, RowsInv, PunchesAlternate, NoOverlap, FreezeComplete, FrozenInv, InPeriod
<1> QED BY <1>3, <1>4, <1>5, <1>6 DEF IInv

\* A holder commits: nobody holds the lock any more, and the timesheets that
\* calls have read stay.
LEMMA CommitKeeps ==
  ASSUME IInv, NEW s \in Sessions, step[s] = "held", End(s),
         punches' \in Seq(Punch),
         entries' \in [Entries -> [day : 0..LastDay, sheet : Timesheets \cup {NoSheet}]],
         sheets' \in [Timesheets -> Sheets], sent' \subseteq Event,
         \A t \in Timesheets : sheets[t].status # "absent" => sheets'[t].status # "absent",
         RowsInv'
  PROVE  IInv'
<1>1. TypeOK' /\ OneHolder'
  BY EndMeans DEF IInv, TypeOK
<1>2. CallsInv'
  <2>1. ASSUME NEW u \in Sessions \ {s}
        PROVE  /\ call'[u] \in Adding => day'[u] \in Days
               /\ call'[u] \in OfASheet \cup {"open"} => target'[u] \in Timesheets
               /\ call'[u] \in OfASheet => sheets'[target'[u]].status # "absent"
               /\ step'[u] = "sum" => call'[u] = "submit"
    <3>1. call'[u] = call[u] /\ day'[u] = day[u] /\ target'[u] = target[u] /\ step'[u] = step[u]
      BY EndMeans
    <3>2. call[u] \in OfASheet => target[u] \in Timesheets /\ sheets[target[u]].status # "absent"
      BY DEF IInv, CallsInv
    <3> QED BY <3>1, <3>2 DEF IInv, CallsInv
  <2>2. call'[s] = "none" /\ step'[s] = "idle"
    BY EndMeans
  <2> QED BY <2>1, <2>2 DEF CallsInv, Adding, OfASheet, Days
<1>3. HeldInv'
  <2>1. OneHolder
    BY DEF IInv
  <2>2. \A u \in Sessions \ {s} : step'[u] = step[u] /\ step[u] # "held"
    BY <2>1, EndMeans DEF OneHolder
  <2>3. step'[s] = "idle"
    BY EndMeans
  <2>4. \A u \in Sessions : step'[u] # "held"
    BY <2>2, <2>3
  <2> QED BY <2>4 DEF HeldInv
<1> QED BY <1>1, <1>2, <1>3 DEF IInv

-----------------------------------------------------------------------------
(* Calls that begin *)

LEMMA StartKeeps == ASSUME IInv, NEW s \in Sessions, Start(s) PROVE IInv'
<1>1. now \in Days /\ Days \subseteq 0..LastDay /\ 0 \in 0..LastDay
  BY DaysAreNumbers DEF IInv, TypeOK
<1>2. CASE BeginClockIn(s)
  <2>1. Begin(s, "clockIn", now, NoSheet, NoRow, "begun")
    BY <1>2 DEF BeginClockIn
  <2> QED BY <1>1, <2>1, BeginKeeps, NoRowType DEF Calls, Adding, OfASheet
<1>3. CASE BeginClockOut(s)
  <2>1. Begin(s, "clockOut", now, NoSheet, NoRow, "begun")
    BY <1>3 DEF BeginClockOut
  <2> QED BY <1>1, <2>1, BeginKeeps, NoRowType DEF Calls, Adding, OfASheet
<1>4. ASSUME NEW d \in Days, BeginEntry(s, d) PROVE IInv'
  <2>1. Begin(s, "recordEntry", d, NoSheet, NoRow, "begun")
    BY <1>4 DEF BeginEntry
  <2> QED BY <1>1, <2>1, BeginKeeps, NoRowType DEF Calls, Adding, OfASheet
<1>5. ASSUME NEW t \in Timesheets, BeginOpen(s, t) PROVE IInv'
  <2>1. Begin(s, "open", 0, t, NoRow, "begun")
    BY <1>5 DEF BeginOpen
  <2> QED BY <1>1, <2>1, BeginKeeps, NoRowType DEF Calls, Adding, OfASheet
<1>6. ASSUME NEW t \in Timesheets, SubmitReads(s, t) PROVE IInv'
  <2>1. Begin(s, "submit", 0, t, NoRow, "sum") /\ sheets[t].status = "open"
    BY <1>6 DEF SubmitReads
  <2> QED BY <1>1, <2>1, BeginKeeps, NoRowType DEF Calls, Adding, OfASheet
<1>7. ASSUME NEW t \in Timesheets, ApproveReads(s, t) PROVE IInv'
  <2>1. Begin(s, "approve", 0, t, sheets[t], "save") /\ sheets[t].status = "submitted" /\ sheets[t] \in Sheets
    BY <1>7 DEF ApproveReads, IInv, TypeOK
  <2> QED BY <1>1, <2>1, BeginKeeps DEF Calls, Adding, OfASheet
<1>8. ASSUME NEW t \in Timesheets, LockReads(s, t) PROVE IInv'
  <2>1. Begin(s, "lock", 0, t, sheets[t], "begun") /\ sheets[t].status # "absent" /\ sheets[t] \in Sheets
    BY <1>8 DEF LockReads, IInv, TypeOK
  <2> QED BY <1>1, <2>1, BeginKeeps DEF Calls, Adding, OfASheet
<1> QED BY <1>2, <1>3, <1>4, <1>5, <1>6, <1>7, <1>8 DEF Start

-----------------------------------------------------------------------------
(* Checks under the lock *)

LEMMA ChecksKeep ==
  ASSUME IInv, NEW s \in Sessions,
         ClockInChecks(s) \/ ClockOutChecks(s) \/ RecordEntryChecks(s) \/ OpenChecks(s) \/ LockChecks(s)
  PROVE  IInv'
<1>1. LockFree /\ call[s] # "none"
  BY DEF ClockInChecks, ClockOutChecks, RecordEntryChecks, OpenChecks, LockChecks, Acquire
<1>2. CASE Refuse(s)
  BY <1>2, RefuseKeeps
<1>3. CASE Hold(s) /\ UNCHANGED found /\ Checked(s) /\ call[s] # "lock"
  <2>1. Checked(s)'
    BY <1>3 DEF Hold, rowVars, Checked, PunchedIn, AfterLastPunch, PeriodLocked, Overlapping
  <2> QED BY <1>1, <1>3, <2>1, HoldKeeps
<1>4. CASE LockChecks(s) /\ Hold(s)
  <2>1. Acquire(s, "lock")
    BY <1>4 DEF LockChecks
  <2>2. \/ Refuse(s)
        \/ found' = [found EXCEPT ![s] = InPeriod(target[s])] /\ ~FrozenElsewhere(target[s])
    BY <1>4 DEF LockChecks
  <2>3. InPeriod(target[s]) \in SUBSET Entries
    BY DEF InPeriod
  <2>4. CASE found' = [found EXCEPT ![s] = InPeriod(target[s])] /\ ~FrozenElsewhere(target[s])
    <3>1. found'[s] = InPeriod(target[s]) /\ call[s] = "lock"
      BY <2>1, <2>4 DEF Acquire, IInv, TypeOK
    <3>2. Checked(s)'
      BY <1>4, <2>4, <3>1 DEF Hold, rowVars, Checked, InPeriod, FrozenElsewhere
    <3> QED BY <1>1, <1>4, <2>3, <2>4, <3>2, HoldKeeps
  <2> QED BY <2>2, <2>4, RefuseKeeps
<1>5. \/ Refuse(s)
      \/ Hold(s) /\ UNCHANGED found /\ Checked(s) /\ call[s] # "lock"
      \/ LockChecks(s) /\ Hold(s)
  BY DEF ClockInChecks, ClockOutChecks, RecordEntryChecks, OpenChecks, LockChecks, Acquire, Checked
<1> QED BY <1>2, <1>3, <1>4, <1>5

-----------------------------------------------------------------------------
(* Commits of punches and entries *)

\* A new entry is outside every locked period, and takes nobody's place.
LEMMA AddEntryKeeps ==
  ASSUME IInv, NEW d \in Days, AddEntry(d), ~PeriodLocked(d), sheets' = sheets
  PROVE  /\ entries' \in [Entries -> [day : 0..LastDay, sheet : Timesheets \cup {NoSheet}]]
         /\ FreezeComplete' /\ FrozenInv'
         /\ \A e \in Entries : entries[e].day # 0 => entries'[e] = entries[e]
         /\ \A e \in Entries : entries[e].sheet # NoSheet => entries'[e] = entries[e]
         /\ \E e \in Entries : entries'[e].day = d
<1>1. PICK e \in Entries : /\ entries[e].day = 0
                           /\ entries' = [entries EXCEPT ![e] = [day |-> d, sheet |-> NoSheet]]
  BY DEF AddEntry
<1>2. /\ entries'[e] = [day |-> d, sheet |-> NoSheet]
      /\ \A other \in Entries : other # e => entries'[other] = entries[other]
  BY <1>1 DEF IInv, TypeOK
<1>3. entries' \in [Entries -> [day : 0..LastDay, sheet : Timesheets \cup {NoSheet}]]
  BY <1>1, DaysAreNumbers DEF IInv, TypeOK
<1>4. FreezeComplete'
  <2>1. SUFFICES ASSUME NEW t \in Timesheets, sheets[t].status = "locked", NEW other \in Entries,
                        entries'[other].day \in PeriodOf[t]
                 PROVE  entries'[other].sheet = t
    BY DEF FreezeComplete, InPeriod
  <2>2. other # e
    BY <1>2, <2>1 DEF PeriodLocked
  <2> QED BY <1>2, <2>1, <2>2 DEF IInv, RowsInv, FreezeComplete, InPeriod
<1>5. FrozenInv' /\ entries[e].sheet = NoSheet
  BY <1>1, <1>2 DEF IInv, RowsInv, FrozenInv
<1> QED BY <1>1, <1>2, <1>3, <1>4, <1>5

LEMMA Parity == ASSUME NEW n \in Nat
                PROVE  n % 2 \in {0, 1} /\ (n % 2 = 1 <=> (n + 1) % 2 = 0)
OBVIOUS

\* A punch of the other type, later than the last one, keeps them alternating.
LEMMA AddPunchKeeps ==
  ASSUME IInv, NEW type \in {"in", "out"}, NEW d \in Days, AddPunch(type, d), AfterLastPunch(d),
         type = "in" <=> ~PunchedIn,
         \A e \in Entries : entries[e].day # 0 => entries'[e] = entries[e],
         type = "out" => \E e \in Entries : entries'[e].day = d
  PROVE  punches' \in Seq(Punch) /\ PunchesAlternate'
<1> DEFINE new == [type |-> type, at |-> d]
<1> DEFINE n == Len(punches)
<1>1. punches \in Seq(Punch) /\ new \in Punch /\ punches' = Append(punches, new) /\ n \in Nat
  BY DEF AddPunch, IInv, TypeOK, Punch
<1>2. /\ punches' \in Seq(Punch) /\ Len(punches') = n + 1 /\ punches'[n + 1] = new
      /\ \A i \in 1..n : punches'[i] = punches[i]
      /\ DOMAIN punches' = 1..(n + 1) /\ DOMAIN punches = 1..n
  BY <1>1
<1>3. \A i \in 1..n : punches[i] \in Punch
  BY <1>1
<1>4. n = 0 <=> punches = <<>>
  BY <1>1
<1> HIDE DEF new
<1>5. new.type = type /\ new.at = d
  BY DEF new
<1>6. PunchedIn <=> n % 2 = 1
  <2>1. CASE n = 0
    BY <1>4, <2>1 DEF PunchedIn
  <2>2. CASE n # 0
    <3>1. n \in DOMAIN punches
      BY <1>1, <1>2, <2>2
    <3>2. punches[n].type = IF n % 2 = 1 THEN "in" ELSE "out"
      BY <3>1 DEF IInv, RowsInv, PunchesAlternate
    <3> QED BY <1>4, <2>2, <3>2 DEF PunchedIn
  <2> QED BY <2>1, <2>2
<1>7. type = IF (n + 1) % 2 = 1 THEN "in" ELSE "out"
  BY <1>1, <1>6, Parity
<1>8. ASSUME NEW i \in 1..(n + 1)
      PROVE  punches'[i].type = IF i % 2 = 1 THEN "in" ELSE "out"
  <2>1. CASE i = n + 1
    BY <1>2, <1>5, <1>7, <2>1
  <2>2. CASE i # n + 1
    <3>1. i \in 1..n
      BY <1>1, <2>2
    <3> QED BY <1>2, <3>1 DEF IInv, RowsInv, PunchesAlternate
  <2> QED BY <2>1, <2>2
<1>9. ASSUME NEW i \in 1..n PROVE punches'[i].at < punches'[i + 1].at
  <2>1. CASE i = n
    <3>1. n # 0
      BY <2>1
    <3>2. d > punches[n].at /\ punches[n].at \in Nat /\ d \in Nat
      BY <1>3, <1>4, <2>1, <3>1, DaysAreNumbers DEF AfterLastPunch, Punch, Days
    <3> QED BY <1>2, <1>5, <2>1, <3>2
  <2>2. CASE i # n
    <3>1. i \in 1..(n - 1) /\ i + 1 \in 1..n
      BY <1>1, <2>2
    <3> QED BY <1>2, <3>1 DEF IInv, RowsInv, PunchesAlternate
  <2> QED BY <2>1, <2>2
<1>10. ASSUME NEW i \in 1..(n + 1), punches'[i].type = "out"
       PROVE  \E e \in Entries : entries'[e].day = punches'[i].at
  <2>1. CASE i = n + 1
    BY <1>2, <1>5, <1>10, <2>1
  <2>2. CASE i # n + 1
    <3>1. i \in 1..n
      BY <1>1, <2>2
    <3>2. punches'[i] = punches[i] /\ punches[i].at \in Days
      BY <1>2, <1>3, <3>1 DEF Punch
    <3>3. PICK e \in Entries : entries[e].day = punches[i].at
      BY <1>2, <1>10, <3>1, <3>2 DEF IInv, RowsInv, PunchesAlternate
    <3>4. entries'[e] = entries[e]
      BY <3>2, <3>3, DaysAreNumbers
    <3> QED BY <3>2, <3>3, <3>4
  <2> QED BY <2>1, <2>2
<1>11. Len(punches') - 1 = n
  BY <1>1, <1>2
<1> QED BY <1>2, <1>8, <1>9, <1>10, <1>11 DEF PunchesAlternate

LEMMA SheetsStay ==
  ASSUME IInv, sheets' = sheets
  PROVE  /\ sheets' \in [Timesheets -> Sheets] /\ NoOverlap'
         /\ \A t \in Timesheets : sheets[t].status # "absent" => sheets'[t].status # "absent"
BY DEF IInv, TypeOK, RowsInv, NoOverlap

LEMMA ClockInCommitsKeeps == ASSUME IInv, NEW s \in Sessions, ClockInCommits(s) PROVE IInv'
<1>1. /\ step[s] = "held" /\ call[s] = "clockIn" /\ AddPunch("in", day[s]) /\ End(s)
      /\ UNCHANGED <<entries, sheets, sent>>
  BY DEF ClockInCommits, Held
<1>2. day[s] \in Days /\ ~PunchedIn /\ AfterLastPunch(day[s])
  BY <1>1 DEF IInv, CallsInv, Adding, HeldInv, Checked
<1>3. punches' \in Seq(Punch) /\ PunchesAlternate'
  BY <1>1, <1>2, AddPunchKeeps
<1>4. FreezeComplete' /\ FrozenInv'
  BY <1>1 DEF IInv, RowsInv, FreezeComplete, FrozenInv, InPeriod
<1>5. /\ entries' \in [Entries -> [day : 0..LastDay, sheet : Timesheets \cup {NoSheet}]]
      /\ sent' \subseteq Event
  BY <1>1 DEF IInv, TypeOK
<1> QED BY <1>1, <1>3, <1>4, <1>5, SheetsStay, CommitKeeps DEF RowsInv

LEMMA ClockOutCommitsKeeps == ASSUME IInv, NEW s \in Sessions, ClockOutCommits(s) PROVE IInv'
<1>1. /\ step[s] = "held" /\ call[s] = "clockOut" /\ AddPunch("out", day[s]) /\ AddEntry(day[s])
      /\ End(s) /\ UNCHANGED <<sheets, sent>>
  BY DEF ClockOutCommits, Held
<1>2. day[s] \in Days /\ PunchedIn /\ AfterLastPunch(day[s]) /\ ~PeriodLocked(day[s])
  BY <1>1 DEF IInv, CallsInv, Adding, HeldInv, Checked
<1>3. /\ entries' \in [Entries -> [day : 0..LastDay, sheet : Timesheets \cup {NoSheet}]]
      /\ FreezeComplete' /\ FrozenInv'
      /\ \A e \in Entries : entries[e].day # 0 => entries'[e] = entries[e]
      /\ \E e \in Entries : entries'[e].day = day[s]
  BY <1>1, <1>2, AddEntryKeeps
<1>4. punches' \in Seq(Punch) /\ PunchesAlternate'
  BY <1>1, <1>2, <1>3, AddPunchKeeps
<1>5. sent' \subseteq Event
  BY <1>1 DEF IInv, TypeOK
<1> QED BY <1>1, <1>3, <1>4, <1>5, SheetsStay, CommitKeeps DEF RowsInv

\* The entries of the punches are still there.
LEMMA PunchesStay ==
  ASSUME IInv, punches' = punches,
         \A e \in Entries : entries[e].day # 0 => entries'[e].day = entries[e].day
  PROVE  PunchesAlternate' /\ punches' \in Seq(Punch)
<1>1. punches \in Seq(Punch)
  BY DEF IInv, TypeOK
<1>2. ASSUME NEW i \in DOMAIN punches, punches[i].type = "out"
      PROVE  \E e \in Entries : entries'[e].day = punches[i].at
  <2>1. punches[i] \in Punch
    BY <1>1
  <2>2. punches[i].at # 0
    BY <2>1, DaysAreNumbers DEF Punch
  <2>3. PICK e \in Entries : entries[e].day = punches[i].at
    BY <1>2 DEF IInv, RowsInv, PunchesAlternate
  <2> QED BY <2>2, <2>3
<1> QED BY <1>1, <1>2 DEF IInv, RowsInv, PunchesAlternate

LEMMA RecordEntryCommitsKeeps == ASSUME IInv, NEW s \in Sessions, RecordEntryCommits(s) PROVE IInv'
<1>1. /\ step[s] = "held" /\ call[s] = "recordEntry" /\ AddEntry(day[s])
      /\ End(s) /\ UNCHANGED <<punches, sheets, sent>>
  BY DEF RecordEntryCommits, Held
<1>2. day[s] \in Days /\ ~PeriodLocked(day[s])
  BY <1>1 DEF IInv, CallsInv, Adding, HeldInv, Checked
<1>3. /\ entries' \in [Entries -> [day : 0..LastDay, sheet : Timesheets \cup {NoSheet}]]
      /\ FreezeComplete' /\ FrozenInv'
      /\ \A e \in Entries : entries[e].day # 0 => entries'[e] = entries[e]
  BY <1>1, <1>2, AddEntryKeeps
<1>4. PunchesAlternate' /\ punches' \in Seq(Punch)
  BY <1>1, <1>3, PunchesStay
<1>5. sent' \subseteq Event
  BY <1>1 DEF IInv, TypeOK
<1> QED BY <1>1, <1>3, <1>4, <1>5, SheetsStay, CommitKeeps DEF RowsInv

-----------------------------------------------------------------------------
(* Commits of timesheets *)

\* A saved timesheet.
LEMMA SaveSheetMeans ==
  ASSUME IInv, NEW t \in Timesheets, NEW status \in SheetStatus, NEW total \in Nat,
         SaveSheet(t, status, total)
  PROVE  /\ sheets' \in [Timesheets -> Sheets]
         /\ sheets'[t].status = status
         /\ \A u \in Timesheets : u # t => sheets'[u] = sheets[u]
<1>1. sheets' = [sheets EXCEPT ![t] = [status |-> status, total |-> total]]
  BY DEF SaveSheet
<1> QED BY <1>1 DEF IInv, TypeOK, Sheets

LEMMA OpenCommitsKeeps == ASSUME IInv, NEW s \in Sessions, OpenCommits(s) PROVE IInv'
<1> DEFINE t == target[s]
<1>1. /\ step[s] = "held" /\ call[s] = "open" /\ SaveSheet(t, "open", 0)
      /\ End(s) /\ UNCHANGED <<punches, entries, sent>>
  BY DEF OpenCommits, Held
<1>2. t \in Timesheets /\ ~Overlapping(t)
  BY <1>1 DEF IInv, CallsInv, HeldInv, Checked
<1> HIDE DEF t
<1>3. /\ sheets' \in [Timesheets -> Sheets] /\ sheets'[t].status = "open"
      /\ \A u \in Timesheets : u # t => sheets'[u] = sheets[u]
  BY <1>1, <1>2, SaveSheetMeans DEF SheetStatus
<1>4. NoOverlap'
  BY <1>2, <1>3 DEF IInv, RowsInv, NoOverlap, Overlapping
<1>5. FreezeComplete' /\ FrozenInv'
  BY <1>1, <1>3 DEF IInv, RowsInv, FreezeComplete, FrozenInv, InPeriod
<1>6. PunchesAlternate' /\ punches' \in Seq(Punch)
  BY <1>1, PunchesStay
<1>7. \A u \in Timesheets : sheets[u].status # "absent" => sheets'[u].status # "absent"
  BY <1>3
<1>8. /\ entries' \in [Entries -> [day : 0..LastDay, sheet : Timesheets \cup {NoSheet}]]
      /\ sent' \subseteq Event
  BY <1>1 DEF IInv, TypeOK
<1> QED BY <1>1, <1>3, <1>4, <1>5, <1>6, <1>7, <1>8, CommitKeeps DEF RowsInv

LEMMA SubmitSumsKeeps == ASSUME IInv, NEW s \in Sessions, SubmitSums(s) PROVE IInv'
<1>1. /\ step[s] = "sum" /\ found' = [found EXCEPT ![s] = InPeriod(target[s])]
      /\ step' = [step EXCEPT ![s] = "save"]
      /\ UNCHANGED <<now, call, day, target, object, punches, entries, sheets, sent>>
  BY DEF SubmitSums, rowVars
<1>2. /\ step'[s] = "save"
      /\ \A u \in Sessions \ {s} : step'[u] = step[u] /\ found'[u] = found[u]
  BY <1>1 DEF IInv, TypeOK
<1>3. InPeriod(target[s]) \in SUBSET Entries
  BY DEF InPeriod
<1>4. TypeOK'
  BY <1>1, <1>3 DEF IInv, TypeOK
<1>5. OneHolder' /\ CallsInv'
  BY <1>1, <1>2 DEF IInv, OneHolder, CallsInv
<1>6. ASSUME NEW u \in Sessions, step'[u] = "held" PROVE Checked(u)'
  <2>1. u # s /\ Checked(u) /\ found'[u] = found[u]
    BY <1>2, <1>6 DEF IInv, HeldInv
  <2> QED BY <1>1, <2>1 DEF Checked, PunchedIn, AfterLastPunch, PeriodLocked, Overlapping,
                            InPeriod, FrozenElsewhere
<1>7. RowsInv'
  BY <1>1 DEF IInv, RowsInv, PunchesAlternate, NoOverlap, FreezeComplete, FrozenInv, InPeriod
<1> QED BY <1>4, <1>5, <1>6, <1>7 DEF IInv, HeldInv

\* A save without the lock never locks a timesheet nor makes one appear: what
\* the holder of the lock has checked stays true.
LEMMA SaveKeeps ==
  ASSUME IInv, NEW s \in Sessions, step[s] # "held", call[s] \in OfASheet,
         NEW status \in {"submitted", "approved"}, NEW total \in Nat,
         SaveSheet(target[s], status, total), End(s), UNCHANGED <<punches, entries>>,
         sent' \subseteq Event
  PROVE  IInv'
<1> DEFINE t == target[s]
<1>1. t \in Timesheets /\ sheets[t].status # "absent"
  BY DEF IInv, CallsInv
<1>2. /\ sheets' \in [Timesheets -> Sheets] /\ sheets'[t].status = status
      /\ \A u \in Timesheets : u # t => sheets'[u] = sheets[u]
  BY <1>1, SaveSheetMeans DEF SheetStatus
<1>3. /\ \A u \in Timesheets : sheets'[u].status = "absent" <=> sheets[u].status = "absent"
      /\ \A u \in Timesheets : sheets'[u].status = "locked" => sheets[u].status = "locked"
  BY <1>1, <1>2
<1> HIDE DEF t
<1>4. /\ call'[s] = "none" /\ step'[s] = "idle" /\ OneHolder'
      /\ \A u \in Sessions \ {s} :
           /\ call'[u] = call[u] /\ day'[u] = day[u] /\ target'[u] = target[u]
           /\ step'[u] = step[u] /\ found'[u] = found[u]
  BY EndMeans
<1>5. TypeOK'
  BY <1>2, EndMeans DEF IInv, TypeOK
<1>6. CallsInv'
  <2>1. ASSUME NEW u \in Sessions \ {s}
        PROVE  /\ call'[u] \in Adding => day'[u] \in Days
               /\ call'[u] \in OfASheet \cup {"open"} => target'[u] \in Timesheets
               /\ call'[u] \in OfASheet => sheets'[target'[u]].status # "absent"
               /\ step'[u] = "sum" => call'[u] = "submit"
    <3>1. call[u] \in OfASheet => target[u] \in Timesheets /\ sheets[target[u]].status # "absent"
      BY DEF IInv, CallsInv
    <3> QED BY <1>3, <1>4, <3>1 DEF IInv, CallsInv
  <2> QED BY <1>4, <2>1 DEF CallsInv, Adding, OfASheet, Days
<1>7. ASSUME NEW u \in Sessions, step'[u] = "held" PROVE Checked(u)'
  <2>1. u # s /\ Checked(u)
    BY <1>4, <1>7 DEF IInv, HeldInv
  <2>2. /\ call'[u] = call[u] /\ day'[u] = day[u] /\ target'[u] = target[u] /\ found'[u] = found[u]
    BY <1>4, <2>1
  <2> QED BY <1>3, <2>1, <2>2 DEF Checked, PunchedIn, AfterLastPunch, PeriodLocked, Overlapping,
                                  InPeriod, FrozenElsewhere
<1>8. NoOverlap' /\ FreezeComplete' /\ FrozenInv'
  BY <1>3 DEF IInv, RowsInv, NoOverlap, FreezeComplete, FrozenInv, InPeriod
<1>9. PunchesAlternate'
  BY PunchesStay
<1> QED BY <1>4, <1>5, <1>6, <1>7, <1>8, <1>9 DEF IInv, HeldInv, RowsInv

LEMMA SubmitCommitsKeeps == ASSUME IInv, NEW s \in Sessions, SubmitCommits(s) PROVE IInv'
<1>1. /\ call[s] = "submit" /\ step[s] = "save"
      /\ SaveSheet(target[s], "submitted", Cardinality(found[s]))
      /\ Send("timesheet.submitted", target[s], 0) /\ End(s) /\ UNCHANGED <<punches, entries>>
  BY DEF SubmitCommits
<1>2. Cardinality(found[s]) \in Nat
  <2>1. found[s] \subseteq Entries
    BY DEF IInv, TypeOK
  <2> QED BY <2>1, EntriesAssumption, FS_Subset, FS_CardinalityType
<1>3. target[s] \in Timesheets
  BY <1>1 DEF IInv, CallsInv, OfASheet
<1>4. sent' \subseteq Event
  BY <1>1, <1>3 DEF Send, Event, IInv, TypeOK
<1> QED BY <1>1, <1>2, <1>4, SaveKeeps DEF OfASheet

LEMMA ApproveCommitsKeeps == ASSUME IInv, NEW s \in Sessions, ApproveCommits(s) PROVE IInv'
<1>1. /\ call[s] = "approve" /\ step[s] = "save"
      /\ SaveSheet(target[s], "approved", object[s].total)
      /\ End(s) /\ UNCHANGED <<punches, entries, sent>>
  BY DEF ApproveCommits
<1>2. object[s].total \in Nat /\ sent' \subseteq Event
  BY <1>1 DEF IInv, TypeOK, Sheets
<1> QED BY <1>1, <1>2, SaveKeeps DEF OfASheet

\* The freeze stamps the whole period; no other timesheet shares a day with it.
LEMMA LockCommitsKeeps ==
  ASSUME IInv, NEW s \in Sessions, LockCommits(s)
  PROVE  IInv' /\ \A e \in Entries : entries[e].sheet # NoSheet => entries'[e] = entries[e]
<1> DEFINE t == target[s]
<1>1. /\ step[s] = "held" /\ call[s] = "lock"
      /\ entries' = [e \in Entries |->
           IF e \in found[s] THEN [day |-> entries[e].day, sheet |-> t] ELSE entries[e]]
      /\ SaveSheet(t, "locked", object[s].total)
      /\ Send("timesheet.locked", t, object[s].total) /\ End(s) /\ punches' = punches
  BY DEF LockCommits, Held
<1>2. /\ t \in Timesheets /\ sheets[t].status # "absent"
      /\ found[s] = InPeriod(t) /\ ~FrozenElsewhere(t) /\ object[s].total \in Nat
  BY <1>1 DEF IInv, TypeOK, Sheets, CallsInv, OfASheet, HeldInv, Checked
<1> HIDE DEF t
<1>3. /\ sheets' \in [Timesheets -> Sheets] /\ sheets'[t].status = "locked"
      /\ \A u \in Timesheets : u # t => sheets'[u] = sheets[u]
  BY <1>1, <1>2, SaveSheetMeans DEF SheetStatus
<1>4. \A e \in Entries : entries[e] \in [day : 0..LastDay, sheet : Timesheets \cup {NoSheet}]
  BY DEF IInv, TypeOK
<1>5. ASSUME NEW e \in Entries
      PROVE  /\ entries'[e] \in [day : 0..LastDay, sheet : Timesheets \cup {NoSheet}]
             /\ entries'[e].day = entries[e].day
             /\ entries'[e].sheet = IF entries[e].day \in PeriodOf[t] THEN t ELSE entries[e].sheet
             /\ entries[e].sheet # NoSheet => entries'[e] = entries[e]
  <2>1. CASE e \in found[s]
    <3>1. entries'[e] = [day |-> entries[e].day, sheet |-> t]
      BY <1>1, <2>1
    <3>2. entries[e].day \in PeriodOf[t] /\ entries[e].sheet \in {NoSheet, t}
      BY <1>2, <2>1 DEF InPeriod, FrozenElsewhere
    <3>3. entries[e].sheet = t => entries'[e] = entries[e]
      BY <1>4, <3>1
    <3> QED BY <1>2, <1>4, <3>1, <3>2, <3>3
  <2>2. CASE e \notin found[s]
    <3>1. entries'[e] = entries[e] /\ entries[e].day \notin PeriodOf[t]
      BY <1>1, <1>2, <2>2 DEF InPeriod
    <3> QED BY <1>4, <3>1
  <2> QED BY <2>1, <2>2
<1>6. entries' \in [Entries -> [day : 0..LastDay, sheet : Timesheets \cup {NoSheet}]]
  <2>1. entries' = [e \in Entries |-> entries'[e]]
    BY <1>1
  <2> QED BY <1>5, <2>1
<1>7. NoOverlap'
  BY <1>2, <1>3 DEF IInv, RowsInv, NoOverlap
<1>8. FreezeComplete'
  <2>1. SUFFICES ASSUME NEW u \in Timesheets, sheets'[u].status = "locked", NEW e \in Entries,
                        entries'[e].day \in PeriodOf[u]
                 PROVE  entries'[e].sheet = u
    BY DEF FreezeComplete, InPeriod
  <2>2. CASE u = t
    BY <1>5, <2>1, <2>2
  <2>3. CASE u # t
    <3>1. sheets[u].status = "locked" /\ entries[e].day \in PeriodOf[u]
      BY <1>3, <1>5, <2>1, <2>3
    <3>2. entries[e].day \notin PeriodOf[t]
      BY <1>2, <2>3, <3>1 DEF IInv, RowsInv, NoOverlap
    <3>3. entries[e].sheet = u
      BY <3>1 DEF IInv, RowsInv, FreezeComplete, InPeriod
    <3> QED BY <1>5, <3>2, <3>3
  <2> QED BY <2>2, <2>3
<1>9. FrozenInv'
  <2>1. 0 \notin PeriodOf[t]
    BY <1>2, PeriodsAssumption
  <2> QED BY <1>5, <2>1 DEF IInv, RowsInv, FrozenInv
<1>10. PunchesAlternate' /\ punches' \in Seq(Punch)
  BY <1>1, <1>5, PunchesStay
<1>11. sent' \subseteq Event
  BY <1>1, <1>2 DEF Send, Event, IInv, TypeOK
<1>12. \A u \in Timesheets : sheets[u].status # "absent" => sheets'[u].status # "absent"
  BY <1>3
<1>13. IInv'
  BY <1>1, <1>3, <1>6, <1>7, <1>8, <1>9, <1>10, <1>11, <1>12, CommitKeeps DEF RowsInv
<1> QED BY <1>5, <1>13

-----------------------------------------------------------------------------
(* The theorems *)

LEMMA InitHolds == Init => IInv
<1>1. SUFFICES ASSUME Init PROVE IInv
  OBVIOUS
<1>2. /\ now = 1 /\ punches = <<>> /\ sent = {}
      /\ entries = [e \in Entries |-> [day |-> 0, sheet |-> NoSheet]]
      /\ sheets = [t \in Timesheets |-> NoRow]
      /\ \A s \in Sessions : call[s] = "none" /\ step[s] = "idle"
  BY <1>1 DEF Init
<1>3. TypeOK
  <2>1. /\ call \in [Sessions -> Calls] /\ day \in [Sessions -> 0..LastDay]
        /\ step \in [Sessions -> {"idle", "begun", "held", "sum", "save"}]
        /\ target \in [Sessions -> Timesheets \cup {NoSheet}]
        /\ object \in [Sessions -> Sheets] /\ found \in [Sessions -> SUBSET Entries]
    BY <1>1, DaysAreNumbers, NoRowType DEF Init, Calls
  <2>2. /\ entries \in [Entries -> [day : 0..LastDay, sheet : Timesheets \cup {NoSheet}]]
        /\ sheets \in [Timesheets -> Sheets]
    BY <1>2, DaysAreNumbers, NoRowType
  <2>3. now \in Days /\ punches \in Seq(Punch) /\ sent \subseteq Event
    BY <1>2, DaysAreNumbers
  <2> QED BY <2>1, <2>2, <2>3 DEF TypeOK
<1>4. OneHolder /\ CallsInv /\ HeldInv
  <2>1. \A s \in Sessions : call[s] \notin Adding \cup OfASheet \cup {"open"} /\ step[s] \notin {"held", "sum"}
    BY <1>2 DEF Adding, OfASheet
  <2> QED BY <2>1 DEF OneHolder, CallsInv, HeldInv
<1>5. RowsInv
  <2>1. PunchesAlternate
    BY <1>2 DEF PunchesAlternate
  <2>2. \A t \in Timesheets : sheets[t].status = "absent"
    BY <1>2, NoRowType
  <2>3. NoOverlap /\ FreezeComplete
    BY <2>2 DEF NoOverlap, FreezeComplete
  <2>4. FrozenInv
    BY <1>2 DEF FrozenInv
  <2> QED BY <2>1, <2>3, <2>4 DEF RowsInv
<1> QED BY <1>3, <1>4, <1>5 DEF IInv

LEMMA StutterKeeps == ASSUME IInv, UNCHANGED <<rowVars, sessionVars>>, now' \in Days PROVE IInv'
<1>1. UNCHANGED <<punches, entries, sheets, sent, call, step, day, target, object, found>>
  BY DEF rowVars, sessionVars
<1>2. TypeOK' /\ OneHolder' /\ CallsInv'
  BY <1>1 DEF IInv, TypeOK, OneHolder, CallsInv
<1>3. HeldInv'
  BY <1>1 DEF IInv, HeldInv, Checked, PunchedIn, AfterLastPunch, PeriodLocked, Overlapping,
              InPeriod, FrozenElsewhere
<1>4. RowsInv'
  BY <1>1 DEF IInv, RowsInv, PunchesAlternate, NoOverlap, FreezeComplete, FrozenInv, InPeriod
<1> QED BY <1>2, <1>3, <1>4 DEF IInv

LEMMA WorkKeeps == ASSUME IInv, NEW s \in Sessions, Work(s) PROVE IInv'
BY ChecksKeep, ClockInCommitsKeeps, ClockOutCommitsKeeps, RecordEntryCommitsKeeps,
   OpenCommitsKeeps, SubmitSumsKeeps, SubmitCommitsKeeps, ApproveCommitsKeeps,
   LockCommitsKeeps DEF Work

LEMMA StepKeeps == IInv /\ [Next]_vars => IInv'
<1>1. SUFFICES ASSUME IInv, [Next]_vars PROVE IInv'
  OBVIOUS
<1>2. CASE Tick
  <2>1. now' \in Days
    BY <1>1, <1>2, DaysAreNumbers DEF Tick, IInv, TypeOK, Days
  <2> QED BY <1>1, <1>2, <2>1, StutterKeeps DEF Tick
<1>3. ASSUME NEW s \in Sessions, Start(s) \/ Work(s) \/ Fail(s) PROVE IInv'
  BY <1>1, <1>3, StartKeeps, WorkKeeps, RefuseKeeps DEF Fail
<1>4. CASE UNCHANGED vars
  BY <1>1, <1>4, StutterKeeps DEF vars, IInv, TypeOK
<1> QED BY <1>1, <1>2, <1>3, <1>4 DEF Next

LEMMA Invariance == Spec => []IInv
BY InitHolds, StepKeeps, PTL DEF Spec

\* The rows and the calls keep their types.
THEOREM TypeCorrect == Spec => []TypeOK
<1>1. IInv => TypeOK
  BY DEF IInv
<1> QED BY <1>1, Invariance, PTL

\* Concurrent clock-ins and clock-outs leave punches that alternate, move
\* forward and left their entry, whatever else runs (AttendanceService).
THEOREM PunchesAreOrdered == Spec => []PunchesAlternate
<1>1. IInv => PunchesAlternate
  BY DEF IInv, RowsInv
<1> QED BY <1>1, Invariance, PTL

\* Concurrent openings never give a day to two timesheets (TimesheetService.open).
THEOREM PeriodsAreDisjoint == Spec => []NoOverlap
<1>1. IInv => NoOverlap
  BY DEF IInv, RowsInv
<1> QED BY <1>1, Invariance, PTL

\* No entry lands in a locked period, although the freeze reads its timesheet
\* before it takes the lock (TimesheetService.lock, assertPeriodUnlocked).
THEOREM FreezeIsComplete == Spec => []FreezeComplete
<1>1. IInv => FreezeComplete
  BY DEF IInv, RowsInv
<1> QED BY <1>1, Invariance, PTL

\* A frozen entry keeps its day and the timesheet that froze it, even when a late
\* save takes that timesheet back to an earlier status.
THEOREM FrozenEntriesStay == Spec => FrozenStays
<1> DEFINE Stays == \A e \in Entries : entries[e].sheet # NoSheet => entries'[e] = entries[e]
<1>1. IInv /\ [Next]_vars => [Stays]_vars
  <2>1. SUFFICES ASSUME IInv, [Next]_vars PROVE Stays
    OBVIOUS
  <2>2. CASE entries' = entries
    BY <2>2
  <2>3. ASSUME NEW s \in Sessions, ClockOutCommits(s) \/ RecordEntryCommits(s) PROVE Stays
    <3>1. /\ AddEntry(day[s]) /\ step[s] = "held" /\ call[s] \in {"clockOut", "recordEntry"}
          /\ sheets' = sheets
      BY <2>3 DEF ClockOutCommits, RecordEntryCommits, Held
    <3>2. day[s] \in Days /\ ~PeriodLocked(day[s])
      BY <2>1, <3>1 DEF IInv, CallsInv, Adding, HeldInv, Checked
    <3> QED BY <2>1, <3>1, <3>2, AddEntryKeeps
  <2>4. ASSUME NEW s \in Sessions, LockCommits(s) PROVE Stays
    BY <2>1, <2>4, LockCommitsKeeps
  <2>5. \/ entries' = entries
        \/ \E s \in Sessions : ClockOutCommits(s) \/ RecordEntryCommits(s) \/ LockCommits(s)
    <3>1. ASSUME NEW s \in Sessions, Start(s) PROVE entries' = entries
      BY <3>1 DEF Start, BeginClockIn, BeginClockOut, BeginEntry, BeginOpen, SubmitReads,
                  ApproveReads, LockReads, Begin, rowVars
    <3>2. ASSUME NEW s \in Sessions, Work(s)
          PROVE  \/ entries' = entries
                 \/ ClockOutCommits(s) \/ RecordEntryCommits(s) \/ LockCommits(s)
      BY <3>2 DEF Work, ClockInChecks, ClockInCommits, ClockOutChecks, RecordEntryChecks,
                  OpenChecks, OpenCommits, SubmitSums, SubmitCommits, ApproveCommits, LockChecks,
                  Hold, Refuse, rowVars
    <3>3. ASSUME NEW s \in Sessions, Fail(s) PROVE entries' = entries
      BY <3>3 DEF Fail, Refuse, rowVars
    <3>4. Tick \/ UNCHANGED vars => entries' = entries
      BY DEF Tick, vars, rowVars
    <3> QED BY <2>1, <3>1, <3>2, <3>3, <3>4 DEF Next
  <2> HIDE DEF Stays
  <2> QED BY <2>2, <2>3, <2>4, <2>5
<1> QED BY <1>1, Invariance, PTL DEF Spec, FrozenStays

=============================================================================
