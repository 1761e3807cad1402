------------------------- MODULE AssignmentsProofs --------------------------
(***************************************************************************)
(* Whatever the number of calls, employees and days, and with nobody       *)
(* waiting but for the workspace's lock: assignments inserted under it     *)
(* never share a day, and no committed line closes a loop.                 *)
(***************************************************************************)
EXTENDS Assignments, FiniteSetTheorems, TLAPS

-----------------------------------------------------------------------------
(* The inductive invariant *)

\* Calls that hold the lock to their end.
Holds(s) == call[s].op \in {"replace", "correct"} \/ call[s].new.boss # NoOne

LockInv == \A s \in Sessions : Holds(s) => lock = s

Together(a, b) == \E day \in Days : InForce(a, day) /\ InForce(b, day)

\* Everybody but e has one primary assignment on a day.
OneEach(table, e, day) ==
  \A i, j \in Ids : /\ table[i].who \notin {NoOne, e}
                    /\ table[i].who = table[j].who
                    /\ InForce(table[i], day)
                    /\ InForce(table[j], day)
                    => i = j

\* Nobody above the new manager is the employee, unless a second assignment of
\* somebody else hides a line.
Safe(table, new) ==
  OneEach(table, new.who, new.from) =>
    \E group \in SUBSET (Employees \ {new.who}) :
      new.boss \in group /\ ManagersOf(table, group, new.from) \subseteq group

\* What a call has checked about its employee, and is still so when it commits.
Checked(work) ==
  /\ work.op = "create" => work.row = NoId
  /\ work.row # NoId => work.row \in 1..created /\ rows[work.row].who = work.new.who
  /\ work.op = "correct" => work.row # NoId /\ rows[work.row].from = work.new.from
  /\ work.op = "replace" /\ work.row # NoId => rows[work.row].to = Open
  /\ work.op = "replace" \/ (work.op = "create" /\ work.new.boss # NoOne) =>
       \A i \in guarded \ {work.row} : rows[i].who = work.new.who => ~Together(rows[i], work.new)
  /\ work.new.boss # NoOne => Safe(rows, work.new)

CheckedInv == \A s \in Sessions : Checked(call[s])

IInv == TypeOK /\ LockInv /\ CheckedInv /\ GuardedDisjoint

-----------------------------------------------------------------------------
(* Rows and ranges *)

LEMMA DaysAreNumbers ==
  ASSUME LinesAssumption
  PROVE  /\ LastDay \in Nat /\ Open \in Nat /\ MaxRows \in Nat /\ LastDay < Open
         /\ \A row \in Rows : row.from \in Nat /\ row.to \in Nat /\ row.to <= Open
         /\ NoRow \notin Rows
<1>1. LastDay \in Nat /\ MaxRows \in Nat
  BY DEF LinesAssumption
<1>2. Open \in Nat /\ LastDay < Open
  BY <1>1 DEF Open
<1>3. ASSUME NEW row \in Rows PROVE row.from \in Nat /\ row.to \in Nat /\ row.to <= Open /\ row.from >= 1
  <2>1. row.from \in Days /\ row.to \in 1..Open
    BY <1>3 DEF Rows
  <2> QED BY <1>1, <1>2, <2>1 DEF Days
<1>4. NoRow.from = 0
  BY DEF NoRow
<1>5. NoRow \notin Rows
  BY <1>3, <1>4
<1> QED BY <1>1, <1>2, <1>3, <1>5

-----------------------------------------------------------------------------
(* Walks up the reporting line *)

\* What starts with 0 and goes on to the next number reaches every number.
LEMMA ReachesAll ==
  ASSUME NEW k \in Nat, NEW T \in SUBSET (0..k), 0 \in T,
         \A n \in T : n < k => n + 1 \in T
  PROVE  k \in T
<1>1. SUFFICES ASSUME k \notin T PROVE FALSE
  OBVIOUS
<1>2. IsFiniteSet(0..k)
  BY FS_Interval
<1>3. IsFiniteSet(T) /\ Cardinality(T) \in Nat
  BY <1>2, FS_Subset, FS_CardinalityType
<1>4. IsFiniteSet(T \ {0}) /\ Cardinality(T \ {0}) = Cardinality(T) - 1
  BY <1>3, FS_RemoveElement
<1>5. \A n \in T : n \in Nat /\ n < k /\ n + 1 \in T \ {0}
  <2>1. ASSUME NEW n \in T PROVE n \in Nat /\ n < k /\ n + 1 \in T \ {0}
    <3>1. n \in 0..k /\ n # k
      BY <1>1
    <3>2. n \in Nat /\ n < k /\ n + 1 # 0
      BY <3>1
    <3> QED BY <3>2
  <2> QED BY <2>1
<1> DEFINE next == [n \in T |-> n + 1]
<1>6. next \in [T -> T \ {0}]
  BY <1>5
<1>7. \A n, m \in T : n # m => next[n] # next[m]
  BY <1>5
<1> HIDE DEF next
<1>8. Cardinality(T \ {0}) < Cardinality(T)
  BY <1>3, <1>4
<1>9. \E n, m \in T : n # m /\ next[n] = next[m]
  BY <1>3, <1>4, <1>6, <1>8, FS_PigeonHole
<1> QED BY <1>7, <1>9

\* One step up; nobody is above nobody.
StepUp(who, reading) == IF who = NoOne THEN NoOne ELSE reading[who]

\* A walk of n steps from an employee.
IsWalk(up, n, e, reading) ==
  up = [k \in 0..n |-> IF k = 0 THEN e ELSE StepUp(up[k - 1], reading)]

\* There is a walk of every length.
LEMMA WalkExists ==
  ASSUME NEW n \in Nat, NEW e, NEW reading
  PROVE  \E up : IsWalk(up, n, e, reading)
<1> DEFINE T == {m \in 0..n : \E up : IsWalk(up, m, e, reading)}
<1>1. 0 \in T
  <2> DEFINE up == [k \in 0..0 |-> e]
  <2>1. up = [k \in 0..0 |-> IF k = 0 THEN e ELSE StepUp(up[k - 1], reading)]
    OBVIOUS
  <2> HIDE DEF up
  <2>2. IsWalk(up, 0, e, reading)
    BY <2>1 DEF IsWalk
  <2> QED BY <2>2
<1>2. ASSUME NEW m \in T, m < n PROVE m + 1 \in T
  <2>1. PICK up : IsWalk(up, m, e, reading)
    OBVIOUS
  <2>2. m \in Nat /\ m + 1 \in 0..n
    BY <1>2
  <2> DEFINE on == [k \in 0..(m + 1) |-> IF k = 0 THEN e ELSE StepUp(up[k - 1], reading)]
  <2>3. \A k \in 0..m : on[k] = up[k]
    <3>1. ASSUME NEW k \in 0..m PROVE on[k] = up[k]
      <4>1. k \in 0..(m + 1)
        BY <2>2
      <4>2. up[k] = IF k = 0 THEN e ELSE StepUp(up[k - 1], reading)
        BY <2>1 DEF IsWalk
      <4> QED BY <4>1, <4>2
    <3> QED BY <3>1
  <2>4. \A k \in 0..(m + 1) : k # 0 => on[k - 1] = up[k - 1]
    <3>1. ASSUME NEW k \in 0..(m + 1), k # 0 PROVE k - 1 \in 0..m
      BY <2>2, <3>1
    <3> QED BY <2>3, <3>1
  <2>5. on = [k \in 0..(m + 1) |-> IF k = 0 THEN e ELSE StepUp(up[k - 1], reading)]
    OBVIOUS
  <2> HIDE DEF on
  <2>6. on = [k \in 0..(m + 1) |-> IF k = 0 THEN e ELSE StepUp(on[k - 1], reading)]
    BY <2>4, <2>5
  <2>7. IsWalk(on, m + 1, e, reading)
    BY <2>6 DEF IsWalk
  <2> QED BY <2>2, <2>7
<1>3. T \in SUBSET (0..n)
  OBVIOUS
<1> HIDE DEF T
<1>4. n \in T
  BY <1>1, <1>2, <1>3, ReachesAll
<1> QED BY <1>4 DEF T

\* Above is the walk of as many steps as there are employees.
LEMMA AboveIsWalk ==
  ASSUME LinesAssumption, NEW e, NEW reading
  PROVE  /\ Cardinality(Employees) \in Nat
         /\ IsWalk(Above(e, reading), Cardinality(Employees), e, reading)
<1>1. Cardinality(Employees) \in Nat
  BY FS_CardinalityType DEF LinesAssumption
<1>2. \E up : IsWalk(up, Cardinality(Employees), e, reading)
  BY <1>1, WalkExists
<1>3. Above(e, reading) = CHOOSE up : IsWalk(up, Cardinality(Employees), e, reading)
  BY DEF Above, IsWalk, StepUp
<1> QED BY <1>1, <1>2, <1>3

LEMMA WalkStep ==
  ASSUME NEW n \in Nat, NEW e, NEW reading, NEW up, IsWalk(up, n, e, reading)
  PROVE  up[0] = e /\ \A k \in 0..n : k < n => up[k + 1] = StepUp(up[k], reading)
<1>1. up[0] = e
  BY DEF IsWalk
<1>2. ASSUME NEW k \in 0..n, k < n PROVE up[k + 1] = StepUp(up[k], reading)
  <2>1. k \in Nat /\ k + 1 \in 0..n /\ k + 1 # 0 /\ (k + 1) - 1 = k
    BY <1>2
  <2>2. up[k + 1] = IF k + 1 = 0 THEN e ELSE StepUp(up[(k + 1) - 1], reading)
    BY <2>1 DEF IsWalk
  <2> QED BY <2>1, <2>2
<1> QED BY <1>1, <1>2
-----------------------------------------------------------------------------
(* What the checks find *)

\* Whoever the walk of assertNoReportingCycle meets is a group that holds its
\* own managers.
LEMMA WalkIsSafe ==
  ASSUME LinesAssumption, NEW new \in Rows, new.boss # NoOne,
         NoCycleWith(new.who, new.boss, new.from)
  PROVE  Safe(rows, new)
<1> DEFINE day == new.from
<1>1. PICK reading \in Readings(day) :
        LET up == Above(new.boss, reading)
        IN  (\A n \in DOMAIN up : up[n] # new.who) /\ up[Cardinality(Employees)] = NoOne
  BY DEF NoCycleWith
<1> DEFINE up == Above(new.boss, reading)
<1> DEFINE most == Cardinality(Employees)
<1>2. most \in Nat /\ IsWalk(up, most, new.boss, reading)
  BY AboveIsWalk
<1>3. DOMAIN up = 0..most
  BY <1>2 DEF IsWalk
<1>4. (\A n \in 0..most : up[n] # new.who) /\ up[most] = NoOne
  BY <1>1, <1>3
<1> HIDE DEF up, most
<1>5. up[0] = new.boss /\ \A n \in 0..most : n < most => up[n + 1] = StepUp(up[n], reading)
  BY <1>2, WalkStep
<1>6. /\ reading \in [Employees -> Bosses]
      /\ \A e \in Employees : \E i \in Current(e, day) : reading[e] = Boss(i)
  BY DEF Readings
<1> HIDE DEF day
<1> DEFINE group == {e \in Employees : \E n \in 0..most : up[n] = e}
<1>7. group \in SUBSET (Employees \ {new.who})
  BY <1>4
<1>8. new.boss \in group
  <2>1. new.boss \in Employees
    BY DEF Rows, Bosses
  <2> QED BY <1>2, <1>5, <2>1
<1>9. ASSUME OneEach(rows, new.who, day),
             NEW i \in Ids, rows[i].who \in group, InForce(rows[i], day), rows[i].boss # NoOne
      PROVE  rows[i].boss \in group
  <2> DEFINE e == rows[i].who
  <2>1. e \in Employees /\ e # NoOne /\ e # new.who
    BY <1>7, <1>9 DEF LinesAssumption, NoOne
  <2>2. PICK n \in 0..most : up[n] = e
    BY <1>9
  <2>3. n < most
    BY <1>2, <1>4, <2>1, <2>2
  <2>4. n + 1 \in 0..most /\ up[n + 1] = reading[e]
    BY <1>2, <1>5, <2>1, <2>2, <2>3 DEF StepUp
  <2>5. PICK k \in Current(e, day) : reading[e] = Boss(k)
    BY <1>6, <2>1
  <2>6. k \in Ids /\ rows[k].who = e /\ InForce(rows[k], day)
    BY <1>9, <2>5 DEF Current
  <2>7. k = i
    BY <1>9, <2>1, <2>6 DEF OneEach
  <2>8. reading[e] = rows[i].boss
    BY <2>5, <2>6, <2>7 DEF Boss, Ids, NoId
  <2>9. reading[e] \in Employees
    BY <1>6, <1>9, <2>1, <2>8 DEF Bosses
  <2> QED BY <2>4, <2>8, <2>9
<1> HIDE DEF group
<1>10. OneEach(rows, new.who, day) => ManagersOf(rows, group, day) \subseteq group
  BY <1>9 DEF ManagersOf
<1> QED BY <1>7, <1>8, <1>10 DEF Safe, day

\* Ranges that do not overlap share no day.
LEMMA ApartShareNoDay ==
  ASSUME LinesAssumption, NEW a \in Rows, NEW b \in Rows, ~Overlap(a, b)
  PROVE  ~Together(a, b)
<1>1. \A day \in Days : day \in Nat
  BY DEF Days
<1> QED BY <1>1, DaysAreNumbers DEF Overlap, Together, InForce

LEMMA GuardedAreRows ==
  ASSUME LinesAssumption, TypeOK
  PROVE  \A i \in 1..created : i \in Ids /\ rows[i] \in Rows
BY DaysAreNumbers DEF TypeOK, Ids

LEMMA OverlapsWithNone ==
  ASSUME LinesAssumption, TypeOK, NEW new \in Rows, NEW replaced, NoPrimaryOverlap(new, replaced)
  PROVE  \A i \in guarded \ {replaced} : rows[i].who = new.who => ~Together(rows[i], new)
<1>1. ASSUME NEW i \in guarded \ {replaced}, rows[i].who = new.who
      PROVE  ~Together(rows[i], new)
  <2>1. i \in Ids /\ rows[i] \in Rows
    BY GuardedAreRows DEF TypeOK
  <2> QED BY <1>1, <2>1, ApartShareNoDay DEF NoPrimaryOverlap
<1> QED BY <1>1

\* currentPrimary finds an assignment of the employee, if any.
LEMMA CurrentIsTheirs ==
  ASSUME LinesAssumption, TypeOK, NEW e \in Employees, NEW day, NEW i \in Current(e, day), i # NoId
  PROVE  i \in Ids /\ i \in 1..created /\ rows[i].who = e
<1>1. i \in Ids /\ rows[i].who = e
  BY DEF Current
<1>2. rows[i] # NoRow
  <2>1. e # NoOne
    BY DEF LinesAssumption, NoOne
  <2> QED BY <1>1, <2>1 DEF NoRow
<1>3. i <= created
  BY <1>1, <1>2 DEF TypeOK
<1>4. i \in Nat /\ i >= 1 /\ created \in Nat
  BY <1>1, DaysAreNumbers DEF Ids, TypeOK
<1> QED BY <1>1, <1>3, <1>4

-----------------------------------------------------------------------------
(* Beginning and ending a call *)

LEMMA BeginKeeps ==
  ASSUME LinesAssumption, IInv, NEW s \in Sessions, NEW work \in Calls, NEW locked \in BOOLEAN,
         Begin(s, work, locked), locked <=> work.op # "create" \/ work.new.boss # NoOne,
         Checked(work)
  PROVE  IInv'
<1>1. /\ call[s] = Idle /\ call' = [call EXCEPT ![s] = work]
      /\ UNCHANGED <<rows, created, guarded>>
      /\ locked => lock = Nobody /\ lock' = s
      /\ ~locked => lock' = lock
  BY DEF Begin, LockIsFree
<1>2. /\ call' \in [Sessions -> Calls \cup {Idle}] /\ call'[s] = work
      /\ \A t \in Sessions \ {s} : call'[t] = call[t]
  BY <1>1 DEF IInv, TypeOK
<1>3. TypeOK'
  BY <1>1, <1>2 DEF IInv, TypeOK
<1>4. LockInv'
  <2>1. ASSUME NEW t \in Sessions \ {s}, Holds(t) PROVE lock' = t
    <3>1. lock = t /\ t # Nobody
      BY <2>1 DEF IInv, LockInv, Nobody, LinesAssumption
    <3> QED BY <1>1, <3>1
  <2>2. Holds(s)' => lock' = s
    BY <1>1, <1>2 DEF Holds, Calls
  <2> QED BY <1>2, <2>1, <2>2 DEF LockInv, Holds
<1>5. CheckedInv'
  BY <1>1, <1>2 DEF IInv, CheckedInv, Checked
<1>6. GuardedDisjoint'
  BY <1>1 DEF IInv, GuardedDisjoint
<1> QED BY <1>3, <1>4, <1>5, <1>6 DEF IInv

LEMMA ReleaseMeans ==
  ASSUME LinesAssumption, IInv, NEW s \in Sessions, Release(s)
  PROVE  /\ call' \in [Sessions -> Calls \cup {Idle}] /\ call'[s] = Idle
         /\ \A t \in Sessions \ {s} : call'[t] = call[t]
         /\ lock' \in Sessions \cup {Nobody}
         /\ LockInv'
<1>1. /\ call' \in [Sessions -> Calls \cup {Idle}] /\ call'[s] = Idle
      /\ \A t \in Sessions \ {s} : call'[t] = call[t]
      /\ lock' \in Sessions \cup {Nobody}
  BY DEF IInv, TypeOK, Release
<1>2. LockInv'
  BY <1>1 DEF IInv, LockInv, Release, Idle, NoRow, Holds
<1> QED BY <1>1, <1>2

LEMMA IdleIsChecked == Checked(Idle)'
BY DEF Checked, Idle, NoRow

\* Only the holder of the lock has checked anything that others could change.
LEMMA UnlockedIsChecked ==
  ASSUME IInv, NEW t \in Sessions, ~Holds(t), call'[t] = call[t]
  PROVE  Checked(call[t])'
<1>1. call[t] \in Calls \cup {Idle} /\ Checked(call[t])
  BY DEF IInv, TypeOK, CheckedInv
<1>2. call[t].new.boss = NoOne /\ call[t].op \in {"none", "create"}
  <2>1. call[t].op \in {"none", "create", "replace", "correct"}
    BY <1>1 DEF Calls, Idle
  <2> QED BY <2>1 DEF Holds
<1>3. call[t].row = NoId
  <2>1. CASE call[t] = Idle
    BY <2>1 DEF Idle
  <2>2. CASE call[t] \in Calls
    BY <1>1, <1>2, <2>2 DEF Checked, Calls
  <2> QED BY <1>1, <2>1, <2>2
<1>4. call'[t].new.boss = NoOne /\ call'[t].op \in {"none", "create"} /\ call'[t].row = NoId
  BY <1>2, <1>3
<1> QED BY <1>4 DEF Checked

LEMMA FailKeeps ==
  ASSUME LinesAssumption, IInv, NEW s \in Sessions, Fail(s)
  PROVE  IInv'
<1>1. Release(s) /\ UNCHANGED <<rows, created, guarded>>
  BY DEF Fail
<1>2. TypeOK' /\ LockInv'
  BY <1>1, ReleaseMeans DEF IInv, TypeOK
<1>3. CheckedInv'
  <2>1. call'[s] = Idle /\ \A t \in Sessions \ {s} : call'[t] = call[t]
    BY <1>1, ReleaseMeans
  <2> QED BY <1>1, <2>1 DEF IInv, CheckedInv, Checked, Idle, NoRow
<1>4. GuardedDisjoint'
  BY <1>1 DEF IInv, GuardedDisjoint
<1> QED BY <1>2, <1>3, <1>4 DEF IInv

-----------------------------------------------------------------------------
(* The calls begin *)

LEMMA BeginCreateKeeps ==
  ASSUME LinesAssumption, IInv, NEW s \in Sessions, NEW new \in Rows, BeginCreate(s, new)
  PROVE  IInv'
<1> DEFINE work == [op |-> "create", row |-> NoId, new |-> new]
<1>1. /\ work \in Calls /\ work.op = "create" /\ work.row = NoId /\ work.new = new
      /\ Begin(s, work, new.boss # NoOne)
      /\ NoPrimaryOverlap(new, NoId)
      /\ new.boss # NoOne => NoCycleWith(new.who, new.boss, new.from)
  BY DEF BeginCreate, Calls
<1> HIDE DEF work
<1>2. \A i \in guarded \ {NoId} : rows[i].who = new.who => ~Together(rows[i], new)
  BY <1>1, OverlapsWithNone DEF IInv
<1>3. new.boss # NoOne => Safe(rows, new)
  BY <1>1, WalkIsSafe
<1>4. Checked(work)
  BY <1>1, <1>2, <1>3 DEF Checked
<1>5. (new.boss # NoOne) \in BOOLEAN
  OBVIOUS
<1> QED BY <1>1, <1>4, <1>5, BeginKeeps

LEMMA BeginSetReportingLineKeeps ==
  ASSUME LinesAssumption, IInv, NEW s \in Sessions, NEW new \in Rows,
         BeginSetReportingLine(s, new)
  PROVE  IInv'
<1>1. PICK current \in Current(new.who, new.from) :
        LET sameDay == current # NoId /\ rows[current].from = new.from IN
        /\ Begin(s, [op |-> IF sameDay THEN "correct" ELSE "replace",
                     row |-> current, new |-> new], TRUE)
        /\ ~sameDay => /\ current # NoId => rows[current].to = Open
                       /\ NoPrimaryOverlap(new, current)
  BY DEF BeginSetReportingLine
<1> DEFINE sameDay == current # NoId /\ rows[current].from = new.from
<1> DEFINE op == IF sameDay THEN "correct" ELSE "replace"
<1> DEFINE work == [op |-> op, row |-> current, new |-> new]
<1>2. /\ Begin(s, work, TRUE)
      /\ ~sameDay => (current # NoId => rows[current].to = Open) /\ NoPrimaryOverlap(new, current)
  BY <1>1
<1>3. /\ op \in {"replace", "correct"} /\ (op = "correct" <=> sameDay)
      /\ sameDay => current # NoId /\ rows[current].from = new.from
  OBVIOUS
<1>4. new.who \in Employees
  BY DEF Rows
<1>5. current = NoId \/ (current \in Ids /\ current \in 1..created /\ rows[current].who = new.who)
  BY <1>4, CurrentIsTheirs DEF IInv
<1> HIDE DEF sameDay, op
<1>6. work \in Calls /\ work.op = op /\ work.row = current /\ work.new = new
  BY <1>3, <1>5 DEF Calls
<1> HIDE DEF work
<1>7. op = "replace" =>
        \A i \in guarded \ {current} : rows[i].who = new.who => ~Together(rows[i], new)
  BY <1>2, <1>3, OverlapsWithNone DEF IInv
<1>8. new.boss # NoOne => Safe(rows, new)
  BY WalkIsSafe DEF BeginSetReportingLine
<1>9. Checked(work)
  BY <1>2, <1>3, <1>5, <1>6, <1>7, <1>8 DEF Checked
<1> QED BY <1>2, <1>3, <1>6, <1>9, BeginKeeps

-----------------------------------------------------------------------------
(* What a commit writes *)

\* The table after a creation, as CommitCreate builds it.
LEMMA CommitMeans ==
  ASSUME LinesAssumption, IInv, NEW s \in Sessions, CommitCreate(s)
  PROVE  /\ created + 1 \in Ids /\ created' = created + 1 /\ created \in Nat
         /\ call[s].row # created + 1 /\ rows[created + 1] = NoRow
         /\ call[s].new \in Rows /\ rows'[created + 1] = call[s].new
         /\ rows' \in [Ids -> Rows \cup {NoRow}]
         /\ \A i \in Ids : i # created + 1 =>
              /\ rows'[i].who = rows[i].who /\ rows'[i].boss = rows[i].boss
              /\ rows'[i].from = rows[i].from
              /\ rows'[i] = NoRow <=> rows[i] = NoRow
              /\ i # call[s].row => rows'[i] = rows[i]
              /\ \A day \in Days : InForce(rows'[i], day) => InForce(rows[i], day)
         /\ call[s].row # NoId => \A day \in Days :
              InForce(rows'[call[s].row], day) => ~InForce(call[s].new, day)
<1> DEFINE work == call[s]
<1> DEFINE fresh == created + 1
<1>1. /\ work.op \in {"create", "replace"} /\ created < MaxRows
      /\ rows' = [i \in Ids |-> IF i = fresh THEN work.new
                                ELSE IF i = work.row THEN [rows[i] EXCEPT !.to = work.new.from]
                                ELSE rows[i]]
      /\ created' = fresh
  BY DEF CommitCreate
<1>2. work \in Calls /\ Checked(work)
  BY <1>1 DEF IInv, TypeOK, CheckedInv, Idle
<1>3. work.new \in Rows /\ work.row \in Ids \cup {NoId}
  BY <1>2 DEF Calls
<1>4. created \in Nat /\ fresh \in Ids /\ rows[fresh] = NoRow
  BY <1>1, DaysAreNumbers DEF IInv, TypeOK, Ids
<1>5. work.row # NoId => /\ work.row \in 1..created /\ work.row # fresh /\ work.row \in Ids
                         /\ rows[work.row] \in Rows /\ rows[work.row].to = Open
  <2>1. work.row # NoId => work.row \in 1..created /\ rows[work.row].to = Open
    BY <1>1, <1>2 DEF Checked
  <2> QED BY <1>3, <1>4, <2>1, GuardedAreRows DEF IInv
<1>6. work.row # fresh
  BY <1>4, <1>5 DEF NoId
<1>7. rows \in [Ids -> Rows \cup {NoRow}]
  BY DEF IInv, TypeOK
<1>8. rows'[fresh] = work.new
  BY <1>1, <1>4
<1>9. \A i \in Ids : i # fresh /\ i # work.row => rows'[i] = rows[i]
  BY <1>1
<1>10. ASSUME work.row # NoId
       PROVE  /\ rows'[work.row] \in Rows
              /\ rows'[work.row].who = rows[work.row].who
              /\ rows'[work.row].boss = rows[work.row].boss
              /\ rows'[work.row].from = rows[work.row].from
              /\ rows'[work.row].to = work.new.from
  <2>1. rows'[work.row] = [rows[work.row] EXCEPT !.to = work.new.from]
    BY <1>1, <1>5, <1>10
  <2>2. work.new.from \in 1..Open
    BY <1>3, DaysAreNumbers DEF Rows, Days
  <2> QED BY <1>5, <1>10, <2>1, <2>2 DEF Rows
<1>11. rows' = [i \in Ids |-> rows'[i]]
  BY <1>1
<1> HIDE DEF fresh, work
<1>12. \A day \in Days : day \in Nat
  BY DEF Days
<1>13. ASSUME work.row # NoId, NEW day \in Days, InForce(rows'[work.row], day)
       PROVE  InForce(rows[work.row], day) /\ ~InForce(work.new, day)
  BY <1>3, <1>5, <1>10, <1>12, <1>13, DaysAreNumbers DEF InForce
<1>14. ASSUME NEW i \in Ids, i # fresh
       PROVE  /\ rows'[i].who = rows[i].who /\ rows'[i].boss = rows[i].boss
              /\ rows'[i].from = rows[i].from
              /\ rows'[i] = NoRow <=> rows[i] = NoRow
              /\ i # work.row => rows'[i] = rows[i]
              /\ \A day \in Days : InForce(rows'[i], day) => InForce(rows[i], day)
  <2>1. CASE i # work.row
    BY <1>9, <1>14, <2>1
  <2>2. CASE i = work.row
    <3>1. work.row # NoId
      BY <2>2 DEF Ids, NoId
    <3> QED BY <1>5, <1>10, <1>13, <2>2, <3>1, DaysAreNumbers
  <2> QED BY <2>1, <2>2
<1>15. rows' \in [Ids -> Rows \cup {NoRow}]
  <2>1. ASSUME NEW i \in Ids PROVE rows'[i] \in Rows \cup {NoRow}
    BY <1>3, <1>7, <1>8, <1>9, <1>10, <2>1 DEF Ids, NoId
  <2> QED BY <1>11, <2>1
<1> QED BY <1>1, <1>3, <1>4, <1>6, <1>8, <1>13, <1>14, <1>15 DEF fresh, work

\* A new line without a manager leaves the holder's checks as they were.
LEMMA HolderIsChecked ==
  ASSUME LinesAssumption, IInv, NEW s \in Sessions, CommitCreate(s), ~Holds(s),
         NEW t \in Sessions, call'[t] = call[t]
  PROVE  Checked(call[t])'
<1> DEFINE fresh == created + 1
<1> DEFINE work == call[t]
<1>1. call[s] \in Calls /\ call[s].op = "create" /\ call[s].new.boss = NoOne
  BY DEF CommitCreate, Holds, IInv, TypeOK, Idle
<1>2. call[s].row = NoId
  BY <1>1 DEF IInv, CheckedInv, Checked
<1>3. /\ fresh \in Ids /\ created' = fresh /\ created \in Nat
      /\ rows'[fresh] = call[s].new
      /\ \A i \in Ids : i # fresh => rows'[i] = rows[i]
  BY <1>2, CommitMeans DEF Ids, NoId
<1>4. guarded' = guarded /\ guarded \subseteq 1..created
  BY <1>1 DEF CommitCreate, IInv, TypeOK
<1>5. Checked(work) /\ work \in Calls \cup {Idle}
  BY DEF IInv, CheckedInv, TypeOK
<1> HIDE DEF fresh, work
<1>6. \A i \in 1..created : i \in Ids /\ i # fresh /\ rows'[i] = rows[i] /\ i \in 1..created'
  <2>1. \A i \in 1..created : i \in Ids
    BY GuardedAreRows DEF IInv
  <2> QED BY <1>3, <2>1 DEF fresh
<1>7. ASSUME work.new.boss # NoOne PROVE Safe(rows', work.new)
  <2>1. Safe(rows, work.new)
    BY <1>5, <1>7 DEF Checked
  <2>2. ASSUME OneEach(rows', work.new.who, work.new.from)
        PROVE  OneEach(rows, work.new.who, work.new.from)
    <3>1. \A i \in Ids : rows[i].who # NoOne => i # fresh
      BY CommitMeans DEF fresh, NoRow
    <3> QED BY <1>3, <2>2, <3>1 DEF OneEach
  <2>3. \A group \in SUBSET Employees :
          ManagersOf(rows', group, work.new.from) \subseteq ManagersOf(rows, group, work.new.from)
    BY <1>1, <1>3 DEF ManagersOf
  <2> QED BY <2>1, <2>2, <2>3 DEF Safe
<1>8. Checked(work)'
  <2>1. work' = work
    BY DEF work
  <2> QED BY <1>4, <1>5, <1>6, <1>7, <2>1 DEF Checked
<1> QED BY <1>8 DEF work

-----------------------------------------------------------------------------
(* The calls commit *)

LEMMA CommitCreateKeeps ==
  ASSUME LinesAssumption, IInv, NEW s \in Sessions, CommitCreate(s)
  PROVE  IInv'
<1> DEFINE work == call[s]
<1> DEFINE fresh == created + 1
<1>1. /\ Release(s) /\ work.op \in {"create", "replace"}
      /\ guarded' = IF work.op = "replace" \/ work.new.boss # NoOne
                      THEN guarded \cup {fresh} ELSE guarded
  BY DEF CommitCreate
<1>2. /\ fresh \in Ids /\ created' = fresh /\ created \in Nat
      /\ rows[fresh] = NoRow /\ work.new \in Rows
      /\ rows'[fresh] = work.new /\ rows' \in [Ids -> Rows \cup {NoRow}]
      /\ \A i \in Ids : i # fresh =>
           /\ rows'[i].who = rows[i].who
           /\ rows'[i] = NoRow <=> rows[i] = NoRow
           /\ \A day \in Days : InForce(rows'[i], day) => InForce(rows[i], day)
      /\ work.row # NoId => \A day \in Days :
           InForce(rows'[work.row], day) => ~InForce(work.new, day)
  BY CommitMeans
<1>3. work \in Calls /\ Checked(work)
  BY <1>1 DEF IInv, TypeOK, CheckedInv, Idle
<1>4. /\ \A i \in Ids : i <= created <=> rows[i] # NoRow
      /\ guarded \subseteq 1..created /\ \A i \in 1..created : i \in Ids
  BY GuardedAreRows DEF IInv, TypeOK
<1> HIDE DEF work
<1>5. ASSUME NEW i \in Ids PROVE i <= created' <=> rows'[i] # NoRow
  <2>1. i \in Nat /\ created' = created + 1
    BY <1>2 DEF Ids, fresh
  <2>2. CASE i = fresh
    BY <1>2, <2>1, <2>2, DaysAreNumbers
  <2>3. CASE i # fresh
    BY <1>2, <1>4, <2>1, <2>3
  <2> QED BY <2>2, <2>3
<1>6. guarded' \subseteq 1..created' /\ created' \in 0..MaxRows
  BY <1>1, <1>2, <1>4, DaysAreNumbers DEF Ids, fresh
<1>7. TypeOK'
  BY <1>1, <1>2, <1>5, <1>6, ReleaseMeans DEF IInv, TypeOK
<1>8. /\ call'[s] = Idle /\ LockInv'
      /\ \A t \in Sessions \ {s} : call'[t] = call[t]
  BY <1>1, ReleaseMeans
<1>9. CheckedInv'
  <2>1. ASSUME NEW t \in Sessions \ {s} PROVE Checked(call[t])'
    <3>1. call'[t] = call[t]
      BY <1>8
    <3>2. CASE Holds(t)
      <4>1. ~Holds(s)
        BY <3>2 DEF IInv, LockInv
      <4> QED BY <3>1, <4>1, HolderIsChecked
    <3>3. CASE ~Holds(t)
      BY <3>1, <3>3, UnlockedIsChecked
    <3> QED BY <3>2, <3>3
  <2>2. Checked(call[s])'
    BY <1>8, IdleIsChecked DEF Checked
  <2> QED BY <2>1, <2>2 DEF CheckedInv
<1>10. fresh \notin guarded
  BY <1>2, <1>4 DEF fresh
<1>11. ASSUME fresh \in guarded', NEW i \in guarded, rows'[i].who = work.new.who,
              NEW day \in Days, InForce(rows'[i], day)
       PROVE  ~InForce(work.new, day)
  <2>1. i \in Ids /\ i # fresh /\ rows[i].who = work.new.who /\ InForce(rows[i], day)
    BY <1>2, <1>4, <1>10, <1>11
  <2>2. CASE i = work.row
    <3>1. work.row # NoId
      BY <2>1, <2>2 DEF Ids, NoId
    <3> QED BY <1>2, <1>11, <2>2, <3>1
  <2>3. CASE i # work.row
    <3>1. ~Together(rows[i], work.new)
      BY <1>1, <1>3, <1>10, <1>11, <2>1, <2>3 DEF Checked
    <3> QED BY <2>1, <3>1 DEF Together
  <2> QED BY <2>2, <2>3
<1>12. ASSUME NEW i \in guarded', NEW j \in guarded', NEW day \in Days,
              rows'[i].who = rows'[j].who, InForce(rows'[i], day), InForce(rows'[j], day)
       PROVE  i = j
  <2>1. (i = fresh \/ i \in guarded) /\ (j = fresh \/ j \in guarded)
    BY <1>1
  <2>2. CASE i \in guarded /\ j \in guarded
    <3>1. /\ rows[i].who = rows[j].who /\ InForce(rows[i], day) /\ InForce(rows[j], day)
      BY <1>2, <1>4, <1>10, <1>12, <2>2
    <3> QED BY <2>2, <3>1 DEF IInv, GuardedDisjoint
  <2>3. CASE i = fresh /\ j \in guarded
    BY <1>2, <1>11, <1>12, <2>3
  <2>4. CASE i \in guarded /\ j = fresh
    BY <1>2, <1>11, <1>12, <2>4
  <2> QED BY <2>1, <2>2, <2>3, <2>4
<1>13. GuardedDisjoint'
  BY <1>12 DEF GuardedDisjoint
<1> QED BY <1>7, <1>8, <1>9, <1>13 DEF IInv

\* Whoever corrects or ends holds the lock, so that nobody else has checked.
LEMMA CorrectMeans ==
  ASSUME LinesAssumption, IInv, NEW s \in Sessions, CorrectReportingLine(s)
  PROVE  /\ call[s].row \in Ids /\ rows[call[s].row] \in Rows /\ call[s].new \in Rows
         /\ rows[call[s].row].who = call[s].new.who
         /\ rows[call[s].row].from = call[s].new.from
         /\ lock = s /\ Checked(call[s])
         /\ rows' = [rows EXCEPT ![call[s].row].boss = call[s].new.boss]
         /\ rows' \in [Ids -> Rows \cup {NoRow}]
         /\ rows'[call[s].row].boss = call[s].new.boss
         /\ \A i \in Ids : /\ rows'[i].who = rows[i].who /\ rows'[i].from = rows[i].from
                           /\ rows'[i].to = rows[i].to
                           /\ rows'[i] = NoRow <=> rows[i] = NoRow
                           /\ i # call[s].row => rows'[i] = rows[i]
<1> DEFINE row == call[s].row
<1> DEFINE boss == call[s].new.boss
<1>1. call[s].op = "correct" /\ rows' = [rows EXCEPT ![row].boss = boss]
  BY DEF CorrectReportingLine
<1>2. call[s] \in Calls /\ Checked(call[s]) /\ lock = s
  BY <1>1 DEF IInv, TypeOK, CheckedInv, LockInv, Holds, Idle
<1>3. row \in 1..created /\ rows[row].who = call[s].new.who /\ rows[row].from = call[s].new.from
  BY <1>1, <1>2 DEF Checked
<1>4. row \in Ids /\ rows[row] \in Rows
  BY <1>3, GuardedAreRows DEF IInv
<1>5. call[s].new \in Rows /\ boss \in Bosses
  BY <1>2 DEF Calls, Rows
<1>6. rows \in [Ids -> Rows \cup {NoRow}]
  BY DEF IInv, TypeOK
<1> HIDE DEF row, boss
<1>7. /\ rows'[row] = [rows[row] EXCEPT !.boss = boss]
      /\ \A i \in Ids : i # row => rows'[i] = rows[i]
  BY <1>1, <1>4, <1>6
<1>8. /\ rows'[row] \in Rows /\ rows'[row].who = rows[row].who /\ rows'[row].from = rows[row].from
      /\ rows'[row].to = rows[row].to /\ rows'[row].boss = boss
  BY <1>4, <1>5, <1>7 DEF Rows
<1>9. rows' \in [Ids -> Rows \cup {NoRow}]
  BY <1>1, <1>4, <1>6, <1>7, <1>8
<1>10. ASSUME NEW i \in Ids
       PROVE  /\ rows'[i].who = rows[i].who /\ rows'[i].from = rows[i].from
              /\ rows'[i].to = rows[i].to
              /\ rows'[i] = NoRow <=> rows[i] = NoRow
              /\ i # row => rows'[i] = rows[i]
  BY <1>4, <1>7, <1>8, DaysAreNumbers
<1> QED BY <1>1, <1>2, <1>3, <1>4, <1>5, <1>8, <1>9, <1>10 DEF row, boss

\* Ranges that are no longer stay apart.
LEMMA ShorterStayDisjoint ==
  ASSUME LinesAssumption, IInv, guarded' = guarded,
         \A i \in Ids : /\ rows'[i].who = rows[i].who
                        /\ \A day \in Days : InForce(rows'[i], day) => InForce(rows[i], day)
  PROVE  GuardedDisjoint'
<1>1. guarded \subseteq Ids
  BY GuardedAreRows DEF IInv, TypeOK
<1> QED BY <1>1 DEF IInv, GuardedDisjoint

LEMMA CorrectReportingLineKeeps ==
  ASSUME LinesAssumption, IInv, NEW s \in Sessions, CorrectReportingLine(s)
  PROVE  IInv'
<1>1. Release(s) /\ UNCHANGED <<created, guarded>>
  BY DEF CorrectReportingLine
<1>2. /\ call' \in [Sessions -> Calls \cup {Idle}] /\ call'[s] = Idle /\ LockInv'
      /\ \A t \in Sessions \ {s} : call'[t] = call[t]
      /\ lock' \in Sessions \cup {Nobody}
  BY <1>1, ReleaseMeans
<1>3. TypeOK'
  BY <1>1, <1>2, CorrectMeans DEF IInv, TypeOK
<1>4. CheckedInv'
  <2>1. ASSUME NEW t \in Sessions \ {s} PROVE Checked(call[t])'
    <3>1. ~Holds(t)
      BY CorrectMeans DEF IInv, LockInv
    <3> QED BY <1>2, <3>1, UnlockedIsChecked
  <2>2. Checked(call[s])'
    BY <1>2, IdleIsChecked DEF Checked
  <2> QED BY <2>1, <2>2 DEF CheckedInv
<1>5. GuardedDisjoint'
  BY <1>1, CorrectMeans, ShorterStayDisjoint DEF InForce
<1> QED BY <1>2, <1>3, <1>4, <1>5 DEF IInv

\* An assignment that ends is in force on fewer days.
LEMMA EndMeans ==
  ASSUME LinesAssumption, IInv, NEW i \in Ids, NEW day \in Days, EndAssignment(i, day)
  PROVE  /\ lock = Nobody /\ UNCHANGED <<created, guarded, lock, call>>
         /\ rows' \in [Ids -> Rows \cup {NoRow}]
         /\ \A j \in Ids : /\ rows'[j].who = rows[j].who /\ rows'[j].boss = rows[j].boss
                           /\ rows'[j] = NoRow <=> rows[j] = NoRow
                           /\ \A d \in Days : InForce(rows'[j], d) => InForce(rows[j], d)
<1>1. /\ lock = Nobody /\ UNCHANGED <<created, guarded, lock, call>>
      /\ rows[i].to = Open /\ rows' = [rows EXCEPT ![i].to = day]
  BY DEF EndAssignment, LockIsFree
<1>2. rows \in [Ids -> Rows \cup {NoRow}]
  BY DEF IInv, TypeOK
<1>3. rows[i] \in Rows
  BY <1>1, <1>2, DaysAreNumbers DEF NoRow
<1>4. rows'[i] = [rows[i] EXCEPT !.to = day] /\ \A j \in Ids : j # i => rows'[j] = rows[j]
  BY <1>1, <1>2
<1>5. day \in 1..Open /\ day <= Open /\ \A d \in Days : d \in Nat
  BY DaysAreNumbers DEF Days
<1>6. /\ rows'[i] \in Rows /\ rows'[i].who = rows[i].who /\ rows'[i].boss = rows[i].boss
      /\ rows'[i].from = rows[i].from /\ rows'[i].to = day
  BY <1>3, <1>4, <1>5 DEF Rows
<1>7. \A d \in Days : InForce(rows'[i], d) => InForce(rows[i], d)
  BY <1>1, <1>3, <1>5, <1>6, DaysAreNumbers DEF InForce
<1>8. rows' \in [Ids -> Rows \cup {NoRow}]
  BY <1>1, <1>2, <1>4, <1>6
<1> QED BY <1>1, <1>3, <1>4, <1>6, <1>7, <1>8, DaysAreNumbers

LEMMA EndAssignmentKeeps ==
  ASSUME LinesAssumption, IInv, NEW i \in Ids, NEW day \in Days, EndAssignment(i, day)
  PROVE  IInv'
<1>1. lock = Nobody /\ UNCHANGED <<created, guarded, lock, call>>
  BY EndMeans
<1>2. TypeOK'
  BY <1>1, EndMeans DEF IInv, TypeOK
<1>3. LockInv'
  BY <1>1 DEF IInv, LockInv, Holds
<1>4. CheckedInv'
  <2>1. ASSUME NEW t \in Sessions PROVE Checked(call[t])'
    <3>1. ~Holds(t)
      BY <1>1 DEF IInv, LockInv, LinesAssumption, Nobody
    <3> QED BY <1>1, <3>1, UnlockedIsChecked
  <2> QED BY <2>1 DEF CheckedInv
<1>5. GuardedDisjoint'
  BY <1>1, EndMeans, ShorterStayDisjoint
<1> QED BY <1>2, <1>3, <1>4, <1>5 DEF IInv

-----------------------------------------------------------------------------
(* Every state keeps it *)

LEMMA InitHolds == ASSUME LinesAssumption, Init PROVE IInv
<1>1. \A s \in Sessions : call[s] = Idle
  BY DEF Init
<1>2. TypeOK
  BY DaysAreNumbers DEF Init, TypeOK, Ids
<1>3. LockInv /\ CheckedInv
  BY <1>1 DEF LockInv, Holds, CheckedInv, Checked, Idle, NoRow
<1>4. GuardedDisjoint
  BY DEF Init, GuardedDisjoint
<1> QED BY <1>2, <1>3, <1>4 DEF IInv

LEMMA StepKeeps == ASSUME LinesAssumption, IInv, [Next]_vars PROVE IInv'
<1>1. ASSUME NEW s \in Sessions, Step(s) PROVE IInv'
  BY <1>1, BeginCreateKeeps, BeginSetReportingLineKeeps, CommitCreateKeeps,
     CorrectReportingLineKeeps, FailKeeps DEF Step
<1>2. CASE UNCHANGED vars
  <2>1. UNCHANGED <<rows, created, guarded, lock, call>>
    BY <1>2 DEF vars
  <2>2. TypeOK' /\ LockInv' /\ GuardedDisjoint'
    BY <2>1 DEF IInv, TypeOK, LockInv, Holds, GuardedDisjoint
  <2>3. CheckedInv'
    BY <2>1 DEF IInv, CheckedInv, Checked
  <2> QED BY <2>2, <2>3 DEF IInv
<1> QED BY <1>1, <1>2, EndAssignmentKeeps DEF Next

LEMMA Invariance == ASSUME LinesAssumption PROVE Spec => []IInv
<1>1. Init => IInv
  BY InitHolds
<1>2. IInv /\ [Next]_vars => IInv'
  BY StepKeeps
<1> QED BY <1>1, <1>2, PTL DEF Spec

\* Assignments, the lock and the calls keep their types.
THEOREM TypeCorrect == ASSUME LinesAssumption PROVE Spec => []TypeOK
<1>1. IInv => TypeOK
  BY DEF IInv
<1> QED BY <1>1, Invariance, PTL

\* Assignments inserted under the lock share no day with one another, whatever
\* calls race, die or insert without it (assertNoPrimaryOverlap).
THEOREM GuardedNeverOverlap == ASSUME LinesAssumption PROVE Spec => []GuardedDisjoint
<1>1. IInv => GuardedDisjoint
  BY DEF IInv
<1> QED BY <1>1, Invariance, PTL

-----------------------------------------------------------------------------
(* Loops *)

\* A line that its call found safe, and the only one of its employee on its
\* first day, has nobody above it who is below it.
LEMMA SafeLineClosesNoLoop ==
  ASSUME LinesAssumption, NEW table, NEW new, NEW i \in Ids,
         new.who \in Employees, new.boss # NoOne,
         rows'[i].who = new.who, rows'[i].boss = new.boss, rows'[i].from = new.from,
         InForce(rows'[i], new.from), OnePrimaryOn(rows', new.from), Safe(table, new),
         \A j \in Ids : j # i /\ rows'[j].who # new.who =>
           table[j].who = rows'[j].who /\ table[j].boss = rows'[j].boss,
         \A j \in Ids : table[j].who \notin {NoOne, new.who} =>
           /\ rows'[j].who = table[j].who
           /\ InForce(rows'[j], new.from) <=> InForce(table[j], new.from)
  PROVE  NotAboveThemselves(rows', new.who, new.from)
<1>1. new.who # NoOne
  BY DEF LinesAssumption, NoOne
<1>2. OneEach(table, new.who, new.from)
  BY DEF OneEach, OnePrimaryOn
<1>3. PICK group \in SUBSET (Employees \ {new.who}) :
        new.boss \in group /\ ManagersOf(table, group, new.from) \subseteq group
  BY <1>2 DEF Safe
<1>4. ManagersOf(rows', {new.who}, new.from) \subseteq group
  <2>1. \A j \in Ids : rows'[j].who = new.who /\ InForce(rows'[j], new.from) => j = i
    BY <1>1 DEF OnePrimaryOn
  <2> QED BY <1>3, <2>1 DEF ManagersOf
<1>5. ASSUME NEW j \in Ids, rows'[j].who \in group, InForce(rows'[j], new.from), rows'[j].boss # NoOne
      PROVE  rows'[j].boss \in group
  <2>1. rows'[j].who \notin {NoOne, new.who}
    BY <1>3, <1>5 DEF LinesAssumption, NoOne
  <2>2. j # i /\ table[j].who = rows'[j].who /\ table[j].boss = rows'[j].boss
    BY <2>1
  <2>3. InForce(table[j], new.from)
    BY <1>5, <2>1, <2>2
  <2> QED BY <1>3, <1>5, <2>2, <2>3 DEF ManagersOf
<1>6. ManagersOf(rows', group, new.from) \subseteq group
  BY <1>5 DEF ManagersOf
<1> QED BY <1>3, <1>4, <1>6 DEF NotAboveThemselves

\* The lines a step may not close a loop with.
Closes(i) ==
  LET line == rows'[i] IN
  /\ line.boss \notin {NoOne, rows[i].boss}
  /\ InForce(line, line.from)
  /\ OnePrimaryOn(rows', line.from)

LEMMA CreatedClosesNoLoop ==
  ASSUME LinesAssumption, IInv, NEW s \in Sessions, CommitCreate(s), NEW i \in Ids, Closes(i)
  PROVE  NotAboveThemselves(rows', rows'[i].who, rows'[i].from)
<1> DEFINE new == call[s].new
<1>1. i = created + 1
  BY CommitMeans DEF Closes
<1>2. new \in Rows /\ rows'[i] = new /\ rows[i] = NoRow
  BY <1>1, CommitMeans
<1>3. new.who \in Employees /\ new.boss # NoOne
  BY <1>2 DEF Rows, Closes
<1>4. Safe(rows, new) /\ (call[s].row # NoId => rows[call[s].row].who = new.who)
  BY <1>3 DEF IInv, CheckedInv, Checked
<1>5. new.from \in Days
  BY <1>2 DEF Rows
<1> HIDE DEF new
<1>6. ASSUME NEW j \in Ids, rows[j].who \notin {NoOne, new.who}
      PROVE  j # i /\ rows'[j] = rows[j]
  <2>1. j # i
    BY <1>2, <1>6 DEF NoRow
  <2>2. j # call[s].row
    BY <1>4, <1>6 DEF Ids, NoId
  <2> QED BY <1>1, <2>1, <2>2, CommitMeans
<1>7. \A j \in Ids : j # i /\ rows'[j].who # new.who =>
           rows[j].who = rows'[j].who /\ rows[j].boss = rows'[j].boss
  BY <1>1, CommitMeans
<1>8. \A j \in Ids : rows[j].who \notin {NoOne, new.who} =>
           /\ rows'[j].who = rows[j].who
           /\ InForce(rows'[j], new.from) <=> InForce(rows[j], new.from)
  BY <1>6
<1>9. InForce(rows'[i], new.from) /\ OnePrimaryOn(rows', new.from)
  BY <1>2 DEF Closes
<1>10. NotAboveThemselves(rows', new.who, new.from)
  BY <1>2, <1>3, <1>4, <1>7, <1>8, <1>9, SafeLineClosesNoLoop
<1> QED BY <1>2, <1>10

LEMMA CorrectedClosesNoLoop ==
  ASSUME LinesAssumption, IInv, NEW s \in Sessions, CorrectReportingLine(s), NEW i \in Ids, Closes(i)
  PROVE  NotAboveThemselves(rows', rows'[i].who, rows'[i].from)
<1> DEFINE new == call[s].new
<1>1. i = call[s].row
  BY CorrectMeans DEF Closes
<1>2. /\ new \in Rows /\ rows'[i].who = new.who /\ rows'[i].from = new.from
      /\ rows'[i].boss = new.boss /\ Checked(call[s])
  BY <1>1, CorrectMeans
<1>3. new.who \in Employees /\ new.boss # NoOne
  BY <1>2 DEF Rows, Closes
<1>4. Safe(rows, new)
  BY <1>2, <1>3 DEF Checked
<1> HIDE DEF new
<1>5. \A j \in Ids : /\ rows'[j].who = rows[j].who
                     /\ InForce(rows'[j], new.from) <=> InForce(rows[j], new.from)
                     /\ j # i => rows'[j].boss = rows[j].boss
  BY <1>1, CorrectMeans DEF InForce
<1>6. InForce(rows'[i], new.from) /\ OnePrimaryOn(rows', new.from)
  BY <1>2 DEF Closes
<1>7. NotAboveThemselves(rows', new.who, new.from)
  BY <1>2, <1>3, <1>4, <1>5, <1>6, SafeLineClosesNoLoop
<1> QED BY <1>2, <1>7

LEMMA OthersCloseNothing ==
  ASSUME LinesAssumption, IInv, NEW i \in Ids, rows' = rows \/ \E j \in Ids, day \in Days : EndAssignment(j, day)
  PROVE  ~Closes(i)
BY EndMeans DEF Closes

\* No committed line puts its employee above themselves on the day it starts,
\* whatever calls race: what a call found under the lock still holds when it
\* commits (assertNoReportingCycle).
THEOREM LinesCloseNoLoop == ASSUME LinesAssumption PROVE Spec => LineClosesNoLoop
<1>1. ASSUME IInv, Next, NEW i \in Ids, Closes(i)
      PROVE  NotAboveThemselves(rows', rows'[i].who, rows'[i].from)
  <2>1. PICK s \in Sessions : CommitCreate(s) \/ CorrectReportingLine(s)
    <3>1. ~(rows' = rows \/ \E j \in Ids, day \in Days : EndAssignment(j, day))
      BY <1>1, OthersCloseNothing
    <3> QED BY <1>1, <3>1 DEF Next, Step, BeginCreate, BeginSetReportingLine, Begin, Fail
  <2> QED BY <1>1, <2>1, CreatedClosesNoLoop, CorrectedClosesNoLoop
<1>2. IInv /\ [Next]_vars =>
        [\A i \in Ids :
           LET line == rows'[i] IN
           /\ line.boss \notin {NoOne, rows[i].boss}
           /\ InForce(line, line.from)
           /\ OnePrimaryOn(rows', line.from)
           => NotAboveThemselves(rows', line.who, line.from)]_vars
  BY <1>1 DEF Closes
<1> QED BY <1>2, Invariance, PTL DEF Spec, LineClosesNoLoop

=============================================================================
