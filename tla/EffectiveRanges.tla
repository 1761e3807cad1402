--------------------------- MODULE EffectiveRanges --------------------------
(***************************************************************************)
(* The effective-dated rows of one employee in one of five tables: salary  *)
(* revisions and tax profiles (compensation.service.ts), entitlements to a *)
(* leave type (employee-leave-entitlement.service.ts), enrolments in a     *)
(* benefit plan (benefit.service.ts) and billing memberships               *)
(* (invoice.service.ts).                                                   *)
(*                                                                         *)
(* A row is in force from validFrom up to, not including, validTo; an open *)
(* row has no end.  Each call finds the row in force, closes it on the day *)
(* the new one starts and inserts the new one.  Salary and tax calls do    *)
(* this under an advisory lock of the employee; the others check before    *)
(* their transaction, and closing takes no lock in any table.              *)
(***************************************************************************)
EXTENDS Integers, FiniteSets

CONSTANTS Sessions,      \* concurrent calls
          LastDay,       \* days are 1..LastDay
          HireDay,       \* day the employee was hired
          MaxRows,       \* rows written (bound)
          OneCall        \* whether calls without a lock wait for each other

\* What the bounds have to be.
RangesAssumption ==
  /\ LastDay \in Nat
  /\ HireDay \in 1..LastDay
  /\ MaxRows \in Nat
  /\ OneCall \in BOOLEAN
  /\ "nobody" \notin Sessions

VARIABLES table,    \* which table it is
          rows,     \* its rows, in the order they were inserted
          written,  \* how many there are
          lock,     \* who holds the employee's advisory lock
          call      \* what each session does

vars == <<table, rows, written, lock, call>>

Days == 1..LastDay
Open == LastDay + 2                 \* validTo of an open row, NULL in the table
Ids == 1..MaxRows
NoId == 0
NoRow == [from |-> 0, to |-> 0]
Rows == [from : Days, to : 1..Open]

Tables == {"salary", "tax", "entitlement", "enrolment", "membership"}
Locking == table \in {"salary", "tax"}
OneOpen == table # "salary"         \* unique index of the open row

Nobody == "nobody"
Idle == [op |-> "none", row |-> NoId, from |-> 0, to |-> 0]
Calls == [op : {"set", "close"}, row : Ids \cup {NoId}, from : 0..LastDay, to : 1..Open]

TypeOK ==
  /\ table \in Tables
  /\ rows \in [Ids -> Rows \cup {NoRow}]
  /\ written \in 0..MaxRows
  /\ \A i \in Ids : i <= written <=> rows[i] # NoRow
  /\ lock \in Sessions \cup {Nobody}
  /\ call \in [Sessions -> Calls \cup {Idle}]

Init ==
  /\ table \in Tables
  /\ rows = [i \in Ids |-> NoRow]
  /\ written = 0
  /\ lock = Nobody
  /\ call = [s \in Sessions |-> Idle]

-----------------------------------------------------------------------------
(* Ranges *)

Contains(row, day) == row.from <= day /\ day < row.to

\* Whether a row shares a day with the range from day on.
OverlapsFrom(row, day) == row.to > day

Written == 1..written
IsOpen(i) == rows[i].to = Open

\* The open row, the newest first.
OpenRow ==
  IF \E i \in Written : IsOpen(i)
    THEN CHOOSE i \in Written :
           IsOpen(i) /\ \A j \in Written : IsOpen(j) => rows[j].from <= rows[i].from
    ELSE NoId

\* The row in force on a day, the earliest first.
ActiveRow(day) ==
  IF \E i \in Written : Contains(rows[i], day)
    THEN CHOOSE i \in Written :
           /\ Contains(rows[i], day)
           /\ \A j \in Written : Contains(rows[j], day) => rows[i].from <= rows[j].from
    ELSE NoId

\* Mutant of Replaceable: a range that was closed is cut short.
ReplaceableClosed(i) == TRUE

\* A closed range is history: nothing replaces it.
Replaceable(i) == i # NoId => IsOpen(i)

-----------------------------------------------------------------------------
(* Calls *)

\* Mutant of LockIsFree: nobody waits for the lock.
LockIsFreeAlways == TRUE

LockIsFree == lock = Nobody

\* Calls that may overlap: those the lock orders, and two insertions that the
\* index of the open row keeps apart.
Apart(op) ==
  OneCall =>
    \A t \in Sessions :
      \/ call[t] = Idle
      \/ op = "set" /\ call[t].op = "set" /\ table # "entitlement"

Begin(s, work) ==
  /\ call[s] = Idle
  /\ Apart(work.op)
  /\ call' = [call EXCEPT ![s] = work]
  /\ IF Locking /\ work.op = "set" THEN LockIsFree /\ lock' = s ELSE UNCHANGED lock
  /\ UNCHANGED <<table, rows, written>>

Release(s) ==
  /\ call' = [call EXCEPT ![s] = Idle]
  /\ lock' = IF lock = s THEN Nobody ELSE lock

\* A check or a statement throws: the transaction leaves nothing.
Fail(s) ==
  /\ call[s] # Idle
  /\ Release(s)
  /\ UNCHANGED <<table, rows, written>>

-----------------------------------------------------------------------------
(* Reading *)

Setting(row, from, to) == [op |-> "set", row |-> row, from |-> from, to |-> to]

\* No row starts that day or later, and the row in force then is open.
MayFollow(day) ==
  /\ \A i \in Written : rows[i].from < day
  /\ Replaceable(ActiveRow(day))

ReviseSalary(s, day) ==
  /\ table = "salary"
  /\ MayFollow(day)
  /\ Begin(s, Setting(ActiveRow(day), day, Open))

\* The consumer of 'offer.accepted': a revision of that day is left as it is.
RecordHireSalary(s) ==
  /\ \A i \in Written : rows[i].from # HireDay
  /\ ReviseSalary(s, HireDay)

UpsertEntitlement(s, day, to) ==
  /\ table = "entitlement"
  /\ MayFollow(day)
  /\ Begin(s, Setting(ActiveRow(day), day, to))

\* No row but the one that is replaced reaches into the new range.
NoConflict(open, from) == \A i \in Written \ {open} : ~OverlapsFrom(rows[i], from)

\* The first tax profile and the first membership start at hire.
StartDay(day) == IF written = 0 THEN HireDay ELSE day

\* A profile does not start before the open one.
SetTaxProfile(s, day) ==
  /\ table = "tax"
  /\ OpenRow # NoId => rows[OpenRow].from <= StartDay(day)
  /\ NoConflict(OpenRow, StartDay(day))
  /\ Begin(s, Setting(OpenRow, StartDay(day), Open))

\* An enrolment of the same day is returned as it is.
SetEnrollment(s, day) ==
  /\ table = "enrolment"
  /\ OpenRow # NoId => rows[OpenRow].from < day
  /\ NoConflict(OpenRow, day)
  /\ Begin(s, Setting(OpenRow, day, Open))

\* The day is the day of the call, whenever the open membership starts.
SetMember(s, day) ==
  /\ table = "membership"
  /\ NoConflict(OpenRow, StartDay(day))
  /\ Begin(s, Setting(OpenRow, StartDay(day), Open))

Closing(to) == [op |-> "close", row |-> OpenRow, from |-> 0, to |-> to]

\* A range does not end before it starts.
NotBefore(to) == IF to < rows[OpenRow].from THEN rows[OpenRow].from ELSE to

\* The consumers of 'employee.terminated': the day after the last one worked.
CloseAtTermination(s, last) ==
  /\ table \in {"salary", "enrolment", "membership"}
  /\ OpenRow # NoId
  /\ Begin(s, Closing(NotBefore(last + 1)))

EndEnrollment(s, to) ==
  /\ table = "enrolment"
  /\ OpenRow # NoId
  /\ Begin(s, Closing(NotBefore(to)))

\* The day of the call, even if the membership starts after it.
RemoveMember(s, to) ==
  /\ table = "membership"
  /\ OpenRow # NoId
  /\ Begin(s, Closing(to))

-----------------------------------------------------------------------------
(* Writing *)

UniqueIndexes(new) ==
  IF OneOpen THEN Cardinality({i \in Written \cup {written + 1} : new[i].to = Open}) <= 1
    ELSE \A i, j \in Written \cup {written + 1} : new[i].from = new[j].from => i = j

\* The row that was in force is saved with its end, and the new one inserted.
CommitSet(s) ==
  LET new == [i \in Ids |->
                IF i = written + 1 THEN [from |-> call[s].from, to |-> call[s].to]
                ELSE IF i = call[s].row THEN [from |-> rows[i].from, to |-> call[s].from]
                ELSE rows[i]] IN
  /\ call[s].op = "set"
  /\ written < MaxRows
  /\ UniqueIndexes(new)
  /\ rows' = new
  /\ written' = written + 1
  /\ Release(s)
  /\ UNCHANGED table

CommitClose(s) ==
  /\ call[s].op = "close"
  /\ rows' = [rows EXCEPT ![call[s].row].to = call[s].to]
  /\ Release(s)
  /\ UNCHANGED <<table, written>>

-----------------------------------------------------------------------------
Step(s) ==
  \/ \E day \in Days : \/ ReviseSalary(s, day)
                       \/ \E to \in Days \cup {Open} : UpsertEntitlement(s, day, to)
                       \/ SetTaxProfile(s, day) \/ SetEnrollment(s, day) \/ SetMember(s, day)
                       \/ CloseAtTermination(s, day)
                       \/ EndEnrollment(s, day) \/ RemoveMember(s, day)
  \/ RecordHireSalary(s)
  \/ CommitSet(s) \/ CommitClose(s) \/ Fail(s)

Next == \E s \in Sessions : Step(s)

Spec == Init /\ [][Next]_vars

-----------------------------------------------------------------------------
(* Properties *)

\* On every day at most one row is in force, so that pay, tax, leave and
\* billing of a day have one answer; a tax profile is in force on every day
\* from the first one's start, whichever calls race (the lock of
\* persistRevision and setTaxProfile, the unique indexes elsewhere).
RangesPartition ==
  /\ \A i, j \in Written : \A day \in Days :
       Contains(rows[i], day) /\ Contains(rows[j], day) => i = j
  /\ table = "tax" /\ written > 0 =>
       \A day \in HireDay..LastDay : \E i \in Written : Contains(rows[i], day)

\* "Historical pay records are never overwritten": a row keeps its start, and
\* one that was closed keeps its end.
HistoryStands ==
  [][\A i \in Written : /\ rows'[i].from = rows[i].from
                        /\ ~IsOpen(i) => rows'[i] = rows[i]]_vars

=============================================================================
