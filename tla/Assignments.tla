---------------------------- MODULE Assignments -----------------------------
(***************************************************************************)
(* Primary assignments and reporting lines of one workspace                *)
(* (packages/api/src/modules/assignment/assignment.service.ts).            *)
(*                                                                         *)
(* An assignment is effective-dated: in force from validFrom up to, not    *)
(* including, validTo.  Every call that looks at who reports to whom, or   *)
(* ends an assignment, holds one advisory lock of the workspace; only the  *)
(* creation of an assignment without a manager does not, so that it can    *)
(* leave an employee two primary assignments.  Each call reads in one step *)
(* and commits in another.                                                 *)
(***************************************************************************)
EXTENDS Integers, FiniteSets

CONSTANTS Sessions,      \* concurrent calls
          Employees,
          LastDay,       \* days are 1..LastDay
          MaxRows        \* assignments created (bound)

\* What the bounds have to be.
LinesAssumption ==
  /\ IsFiniteSet(Employees)
  /\ LastDay \in Nat
  /\ MaxRows \in Nat
  /\ "nobody" \notin Sessions
  /\ "no one" \notin Employees

VARIABLES rows,     \* primary assignments, in the order they were created
          created,  \* how many there are
          guarded,  \* the assignments inserted under the lock (history)
          lock,     \* who holds the workspace's advisory lock
          call      \* what each session does

vars == <<rows, created, guarded, lock, call>>

Days == 1..LastDay
Open == LastDay + 1                 \* validTo of an open row, NULL in the table
Ids == 1..MaxRows
NoId == 0
NoOne == "no one"
Nobody == "nobody"
Bosses == Employees \cup {NoOne}
Rows == [who : Employees, boss : Bosses, from : Days, to : 1..Open]
NoRow == [who |-> NoOne, boss |-> NoOne, from |-> 0, to |-> 0]

Idle == [op |-> "none", row |-> NoId, new |-> NoRow]
Calls == [op : {"create", "replace", "correct"}, row : Ids \cup {NoId}, new : Rows]

TypeOK ==
  /\ rows \in [Ids -> Rows \cup {NoRow}]
  /\ created \in 0..MaxRows
  /\ \A i \in Ids : i <= created <=> rows[i] # NoRow
  /\ guarded \subseteq 1..created
  /\ lock \in Sessions \cup {Nobody}
  /\ call \in [Sessions -> Calls \cup {Idle}]

Init ==
  /\ rows = [i \in Ids |-> NoRow]
  /\ created = 0
  /\ guarded = {}
  /\ lock = Nobody
  /\ call = [s \in Sessions |-> Idle]

-----------------------------------------------------------------------------
(* Reading *)

InForce(row, day) == row.from <= day /\ day < row.to

\* Which assignment currentPrimary finds: any in force, they have no order.
Current(e, day) ==
  LET found == {i \in Ids : rows[i].who = e /\ InForce(rows[i], day)}
  IN  IF found = {} THEN {NoId} ELSE found

Overlap(a, b) == ~(a.to <= b.from \/ b.to <= a.from)

\* Mutant of NoPrimaryOverlap: only open assignments are looked at.
NoPrimaryOverlapOpen(new, replaced) ==
  \A i \in Ids \ {replaced} :
    rows[i].who = new.who /\ rows[i].to = Open => ~Overlap(rows[i], new)

\* assertNoPrimaryOverlap; an assignment that is replaced is closed first.
NoPrimaryOverlap(new, replaced) ==
  \A i \in Ids \ {replaced} : rows[i].who = new.who => ~Overlap(rows[i], new)

Boss(i) == IF i = NoId THEN NoOne ELSE rows[i].boss

\* What the walk may read of everybody's manager on a day.
Readings(day) ==
  {reading \in [Employees -> Bosses] :
     \A e \in Employees : \E i \in Current(e, day) : reading[e] = Boss(i)}

\* Who is n steps above an employee in a reading.
Above(e, reading) ==
  LET up[n \in 0..Cardinality(Employees)] ==
        IF n = 0 THEN e ELSE IF up[n - 1] = NoOne THEN NoOne ELSE reading[up[n - 1]]
  IN  up

\* assertNoReportingCycle walks up from the manager.
NoCycleWith(e, boss, day) ==
  \E reading \in Readings(day) :
    LET up == Above(boss, reading)
    IN  (\A n \in DOMAIN up : up[n] # e) /\ up[Cardinality(Employees)] = NoOne

-----------------------------------------------------------------------------
(* Calls *)

\* Mutant of LockIsFree: nobody waits for the lock.
LockIsFreeAlways == TRUE

LockIsFree == lock = Nobody

\* Creations with a manager and changes of a line hold the lock to their end.
Begin(s, work, locked) ==
  /\ call[s] = Idle
  /\ call' = [call EXCEPT ![s] = work]
  /\ IF locked
       THEN LockIsFree /\ lock' = s
       ELSE UNCHANGED lock
  /\ UNCHANGED <<rows, created, guarded>>

Release(s) ==
  /\ call' = [call EXCEPT ![s] = Idle]
  /\ lock' = IF lock = s THEN Nobody ELSE lock

\* A check or a statement throws: the transaction leaves nothing.
Fail(s) ==
  /\ call[s] # Idle
  /\ Release(s)
  /\ UNCHANGED <<rows, created, guarded>>

BeginCreate(s, new) ==
  /\ new.from <= new.to
  /\ Begin(s, [op |-> "create", row |-> NoId, new |-> new], new.boss # NoOne)
  /\ NoPrimaryOverlap(new, NoId)
  /\ new.boss # NoOne => NoCycleWith(new.who, new.boss, new.from)

\* A change on the day the assignment starts corrects it; on a later day it
\* ends the assignment in force, which must not have ended, and creates one.
BeginSetReportingLine(s, new) ==
  /\ new.to = Open
  /\ new.boss # new.who
  /\ \E current \in Current(new.who, new.from) :
       LET sameDay == current # NoId /\ rows[current].from = new.from IN
       /\ Begin(s, [op |-> IF sameDay THEN "correct" ELSE "replace",
                    row |-> current, new |-> new], TRUE)
       /\ ~sameDay => /\ current # NoId => rows[current].to = Open
                      /\ NoPrimaryOverlap(new, current)
  /\ new.boss # NoOne => NoCycleWith(new.who, new.boss, new.from)

\* The unique index of the open primary assignment.
OpenIsUnique(after) ==
  \A i, j \in Ids : /\ after[i].who # NoOne
                    /\ after[i].who = after[j].who
                    /\ after[i].to = Open
                    /\ after[j].to = Open
                    => i = j

CommitCreate(s) ==
  LET work == call[s]
      after == [i \in Ids |-> IF i = created + 1 THEN work.new
                              ELSE IF i = work.row THEN [rows[i] EXCEPT !.to = work.new.from]
                              ELSE rows[i]]
  IN  /\ work.op \in {"create", "replace"}
      /\ created < MaxRows
      /\ OpenIsUnique(after)
      /\ rows' = after
      /\ created' = created + 1
      /\ guarded' = IF work.op = "replace" \/ work.new.boss # NoOne
                      THEN guarded \cup {created + 1}
                      ELSE guarded
      /\ Release(s)

CorrectReportingLine(s) ==
  /\ call[s].op = "correct"
  /\ rows' = [rows EXCEPT ![call[s].row].boss = call[s].new.boss]
  /\ Release(s)
  /\ UNCHANGED <<created, guarded>>

\* end takes the lock, reads the row and closes it; it may not have ended.
EndAssignment(i, day) ==
  /\ LockIsFree
  /\ rows[i].to = Open
  /\ rows[i].from <= day
  /\ rows' = [rows EXCEPT ![i].to = day]
  /\ UNCHANGED <<created, guarded, lock, call>>

-----------------------------------------------------------------------------
Step(s) ==
  \/ \E new \in Rows : BeginCreate(s, new) \/ BeginSetReportingLine(s, new)
  \/ CommitCreate(s) \/ CorrectReportingLine(s) \/ Fail(s)

Next ==
  \/ \E s \in Sessions : Step(s)
  \/ \E i \in Ids, day \in Days : EndAssignment(i, day)

Spec == Init /\ [][Next]_vars

-----------------------------------------------------------------------------
(* Properties *)

\* "A person holds at most one primary assignment at any moment": however calls
\* race, two assignments inserted under the lock never share a day.  Only two
\* creations without a manager, or one and a call that holds the lock, can.
GuardedDisjoint ==
  \A i, j \in guarded : \A day \in Days :
    rows[i].who = rows[j].who /\ InForce(rows[i], day) /\ InForce(rows[j], day) => i = j

OnePrimaryOn(table, day) ==
  \A i, j \in Ids : /\ table[i].who # NoOne
                    /\ table[i].who = table[j].who
                    /\ InForce(table[i], day)
                    /\ InForce(table[j], day)
                    => i = j

ManagersOf(table, group, day) ==
  {table[i].boss : i \in {k \in Ids : table[k].who \in group /\ InForce(table[k], day)}}
    \ {NoOne}

\* All who are above an employee, over any number of steps, can be without them.
NotAboveThemselves(table, e, day) ==
  \E group \in SUBSET (Employees \ {e}) :
    /\ ManagersOf(table, {e}, day) \subseteq group
    /\ ManagersOf(table, group, day) \subseteq group

\* "two concurrent A<->B edits could both pass it and commit a loop": no race of
\* calls commits a line that, in force on the day it starts, puts its employee
\* above themselves that day.  (Two primary assignments on that day hide a line
\* from the walk, and later days are not walked.)
LineClosesNoLoop ==
  [][\A i \in Ids :
       LET line == rows'[i] IN
       /\ line.boss \notin {NoOne, rows[i].boss}
       /\ InForce(line, line.from)
       /\ OnePrimaryOn(rows', line.from)
       => NotAboveThemselves(rows', line.who, line.from)]_vars

=============================================================================
