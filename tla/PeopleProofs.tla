---------------------------- MODULE PeopleProofs -----------------------------
(***************************************************************************)
(* The theorems of the four parts of People, for any number of sessions,   *)
(* employees, rows, offers and attempts.  Payroll runs and assignments     *)
(* have proof modules of their own, of which this one shows that their     *)
(* theorems hold of People; dated rows (names that start with Range) and   *)
(* recruitment (Hiring) are proved here.                                   *)
(***************************************************************************)
EXTENDS People, FiniteSetTheorems, SequenceTheorems, TLAPS



RangeWaits == R!RangesAssumption /\ OneCall

-----------------------------------------------------------------------------
(* The inductive invariant *)

\* Only insertions overlap, and never two of an entitlement.
RangeAloneInv ==
  \A s, t \in Sessions :
    (s # t /\ rangeCall[s] # R!Idle /\ rangeCall[t] # R!Idle) =>
       rangeCall[s].op = "set" /\ rangeCall[t].op = "set" /\ table # "entitlement"

\* An insertion of a salary or a tax profile holds the lock.
RangeLockInv == \A s \in Sessions : R!Locking /\ rangeCall[s].op = "set" => rangeLock = s

\* The row to close is open, and no tax profile is ever closed.
RangeClosingInv ==
  \A s \in Sessions : rangeCall[s].op = "close" =>
    rangeCall[s].row \in R!Written /\ R!IsOpen(rangeCall[s].row) /\ table # "tax"

\* What an insertion read still holds: the row it replaces is open and every
\* other one ends before the new one starts.
RangeFollows(s) ==
  /\ rangeCall[s].row # R!NoId => R!IsOpen(rangeCall[s].row)
  /\ \A i \in R!Written \ {rangeCall[s].row} : ranges[i].to <= rangeCall[s].from
  /\ table = "tax" => IF written = 0 THEN rangeCall[s].from = HireDay
                          ELSE rangeCall[s].row # R!NoId

\* Another insertion was faster: the index of the open row refuses this one.
RangeRefused(s) ==
  R!OneOpen /\ table # "entitlement" /\ \E i \in R!Written : i # rangeCall[s].row /\ R!IsOpen(i)

RangeSettingInv ==
  \A s \in Sessions : rangeCall[s].op = "set" =>
    /\ rangeCall[s].row \in R!Written \cup {R!NoId}
    /\ rangeCall[s].from \in R!Days
    /\ table # "entitlement" => rangeCall[s].to = R!Open
    /\ RangeFollows(s) \/ RangeRefused(s)

RangeTaxInv == table = "tax" /\ written > 0 => \E i \in R!Written : R!IsOpen(i)

RangeIInv ==
  /\ R!TypeOK /\ RangeAloneInv /\ RangeLockInv /\ RangeClosingInv /\ RangeSettingInv
  /\ RangeTaxInv /\ R!RangesPartition

-----------------------------------------------------------------------------
(* Rows and calls *)

\* The constants are numbers, and days end before a row stays open.
LEMMA RangeDaysAreNumbers ==
  ASSUME RangeWaits
  PROVE  LastRangeDay \in Nat /\ LastRangeDay \in R!Days /\ R!Open \in Nat /\ LastRangeDay < R!Open
         /\ HireDay \in R!Days /\ MaxRanges \in Nat /\ 1 \in 1..R!Open
BY DEF RangeWaits, R!RangesAssumption, R!Days, R!Open

\* A row that was written is a row.
LEMMA RangeRowType ==
  ASSUME RangeWaits, R!TypeOK, NEW i \in R!Written
  PROVE  i \in R!Ids /\ ranges[i] \in R!Rows
<1>1. written \in Nat /\ written <= MaxRanges /\ MaxRanges \in Nat
  BY DEF RangeWaits, R!RangesAssumption, R!TypeOK
<1>2. i \in R!Ids /\ i <= written
  BY <1>1 DEF R!Written, R!Ids
<1> QED BY <1>2 DEF R!TypeOK

LEMMA RangeRowBounds ==
  ASSUME RangeWaits, R!TypeOK, NEW i \in R!Written
  PROVE  /\ ranges[i].from \in Nat /\ ranges[i].to \in Nat
         /\ 1 <= ranges[i].from /\ ranges[i].from <= LastRangeDay /\ ranges[i].to <= R!Open
         /\ i \in Nat /\ i # R!NoId /\ i <= written
<1>1. ranges[i] \in R!Rows
  BY RangeRowType
<1>2. ranges[i].from \in R!Days /\ ranges[i].to \in 1..R!Open
  BY <1>1 DEF R!Rows
<1>3. LastRangeDay \in Nat /\ R!Open \in Nat
  BY RangeDaysAreNumbers
<1>4. written \in Nat
  BY DEF R!TypeOK, RangeWaits, R!RangesAssumption
<1> QED BY <1>2, <1>3, <1>4 DEF R!Days, R!Written, R!NoId

\* A session has a call exactly when its operation has a name.
LEMMA RangeCallKind ==
  ASSUME R!TypeOK, NEW s \in Sessions
  PROVE  /\ rangeCall[s] = R!Idle \/ rangeCall[s] \in R!Calls
         /\ rangeCall[s] # R!Idle <=> rangeCall[s].op \in {"set", "close"}
BY DEF R!TypeOK, R!Calls, R!Idle

\* Two open rows would both be in force on the last day.
LEMMA RangeOneIsOpen ==
  ASSUME RangeWaits, R!TypeOK, R!RangesPartition,
         NEW i \in R!Written, NEW j \in R!Written, R!IsOpen(i), R!IsOpen(j)
  PROVE  i = j
<1>1. LastRangeDay \in R!Days /\ LastRangeDay < R!Open /\ LastRangeDay \in Nat /\ R!Open \in Nat
  BY RangeDaysAreNumbers
<1>2. ranges[i].from <= LastRangeDay /\ ranges[j].from <= LastRangeDay
  BY RangeRowBounds
<1>3. R!Contains(ranges[i], LastRangeDay) /\ R!Contains(ranges[j], LastRangeDay)
  BY <1>1, <1>2 DEF R!Contains, R!IsOpen
<1> QED BY <1>1, <1>3 DEF R!RangesPartition

LEMMA RangeOpenRowIsOpen ==
  ASSUME RangeWaits, R!TypeOK, R!RangesPartition
  PROVE  /\ R!OpenRow # R!NoId => R!OpenRow \in R!Written /\ R!IsOpen(R!OpenRow)
         /\ \A i \in R!Written : R!IsOpen(i) => R!OpenRow = i
<1>1. CASE \E i \in R!Written : R!IsOpen(i)
  <2>1. PICK i \in R!Written : R!IsOpen(i)
    BY <1>1
  <2>2. \A j \in R!Written : R!IsOpen(j) => j = i
    BY <2>1, RangeOneIsOpen
  <2>3. ranges[i].from <= ranges[i].from
    BY RangeRowBounds
  <2>4. R!IsOpen(i) /\ \A j \in R!Written : R!IsOpen(j) => ranges[j].from <= ranges[i].from
    BY <2>1, <2>2, <2>3
  <2>5. R!OpenRow = CHOOSE k \in R!Written :
                    R!IsOpen(k) /\ \A j \in R!Written : R!IsOpen(j) => ranges[j].from <= ranges[k].from
    BY <1>1 DEF R!OpenRow
  <2>6. R!OpenRow \in R!Written /\ R!IsOpen(R!OpenRow)
    BY <2>4, <2>5
  <2> QED BY <2>2, <2>6
<1>2. CASE ~\E i \in R!Written : R!IsOpen(i)
  BY <1>2 DEF R!OpenRow
<1> QED BY <1>1, <1>2

LEMMA RangeActiveRowContains ==
  ASSUME RangeWaits, R!TypeOK, R!RangesPartition, NEW day \in R!Days
  PROVE  /\ R!ActiveRow(day) # R!NoId => R!ActiveRow(day) \in R!Written
         /\ \A i \in R!Written : R!Contains(ranges[i], day) => R!ActiveRow(day) = i
<1>1. CASE \E i \in R!Written : R!Contains(ranges[i], day)
  <2>1. PICK i \in R!Written : R!Contains(ranges[i], day)
    BY <1>1
  <2>2. \A j \in R!Written : R!Contains(ranges[j], day) => j = i
    BY <2>1 DEF R!RangesPartition
  <2>3. ranges[i].from <= ranges[i].from
    BY RangeRowBounds
  <2>4. \A j \in R!Written : R!Contains(ranges[j], day) => ranges[i].from <= ranges[j].from
    BY <2>2, <2>3
  <2>5. R!ActiveRow(day) = CHOOSE k \in R!Written :
                             /\ R!Contains(ranges[k], day)
                             /\ \A j \in R!Written :
                                  R!Contains(ranges[j], day) => ranges[k].from <= ranges[j].from
    BY <1>1 DEF R!ActiveRow
  <2>6. R!ActiveRow(day) \in R!Written /\ R!Contains(ranges[R!ActiveRow(day)], day)
    BY <2>1, <2>4, <2>5
  <2> QED BY <2>2, <2>6
<1>2. CASE ~\E i \in R!Written : R!Contains(ranges[i], day)
  BY <1>2 DEF R!ActiveRow
<1> QED BY <1>1, <1>2

\* A set with two elements has not one.
LEMMA RangeTwoElements ==
  ASSUME NEW S, IsFiniteSet(S), NEW a \in S, NEW b \in S, a # b
  PROVE  ~(Cardinality(S) <= 1)
<1>1. IsFiniteSet(S \ {a}) /\ Cardinality(S \ {a}) = Cardinality(S) - 1
  BY FS_RemoveElement
<1>2. Cardinality(S \ {a}) \in Nat /\ Cardinality(S) \in Nat
  BY <1>1, FS_CardinalityType
<1>3. S \ {a} # {}
  OBVIOUS
<1>4. Cardinality(S \ {a}) # 0
  BY <1>1, <1>3, FS_EmptySet
<1> QED BY <1>1, <1>2, <1>4

-----------------------------------------------------------------------------
(* Beginning a call *)

\* After an insertion or a closing has begun the rows are as they were.
LEMMA RangeBeginKeeps ==
  ASSUME RangeWaits, RangeIInv, NEW s \in Sessions, NEW work \in R!Calls, R!Begin(s, work)
  PROVE  /\ rangeCall' = [t \in Sessions |-> IF t = s THEN work ELSE rangeCall[t]]
         /\ \A t \in Sessions : t # s => rangeCall'[t] = rangeCall[t]
         /\ rangeCall'[s] = work
         /\ UNCHANGED <<table, ranges, written>>
         /\ R!TypeOK' /\ RangeAloneInv' /\ RangeLockInv' /\ RangeTaxInv' /\ R!RangesPartition'
<1>1. /\ rangeCall \in [Sessions -> R!Calls \cup {R!Idle}] /\ rangeCall[s] = R!Idle
      /\ rangeCall' = [t \in Sessions |-> IF t = s THEN work ELSE rangeCall[t]]
      /\ UNCHANGED <<table, ranges, written>>
  BY DEF R!Begin, RangeIInv, R!TypeOK
<1>2. /\ rangeCall'[s] = work
      /\ \A t \in Sessions : t # s => rangeCall'[t] = rangeCall[t]
  BY <1>1
<1>3. R!TypeOK'
  <2>1. rangeLock' \in Sessions \cup {R!Nobody}
    BY DEF R!Begin, RangeIInv, R!TypeOK
  <2> QED BY <1>1, <2>1 DEF RangeIInv, R!TypeOK, R!Written, R!Tables
<1>4. work.op \in {"set", "close"}
  BY DEF R!Calls
<1>5. \A t \in Sessions :
        rangeCall[t] = R!Idle \/ (work.op = "set" /\ rangeCall[t].op = "set" /\ table # "entitlement")
  BY DEF R!Begin, R!Apart, RangeWaits
<1>6. RangeAloneInv'
  BY <1>1, <1>2, <1>5 DEF RangeIInv, RangeAloneInv
<1>7. RangeLockInv'
  <2> SUFFICES ASSUME NEW t \in Sessions, R!Locking', rangeCall'[t].op = "set"
               PROVE  rangeLock' = t
    BY DEF RangeLockInv
  <2>1. R!Locking
    BY <1>1 DEF R!Locking
  <2>2. CASE t = s
    BY <1>2, <2>1, <2>2 DEF R!Begin
  <2>3. CASE t # s
    <3>1. rangeCall[t].op = "set"
      BY <1>2, <2>3
    <3>2. rangeLock = t
      BY <2>1, <3>1 DEF RangeIInv, RangeLockInv
    <3>3. rangeLock # "nobody"
      BY <3>2 DEF RangeWaits, R!RangesAssumption
    <3>4. work.op = "set"
      BY <1>5, <3>1 DEF R!Idle
    <3>5. rangeLock = "nobody"
      BY <2>1, <3>4 DEF R!Begin, R!LockIsFree, R!Nobody
    <3> QED BY <3>3, <3>5
  <2> QED BY <2>2, <2>3
<1>8. RangeTaxInv' /\ R!RangesPartition'
  BY <1>1 DEF RangeIInv, RangeTaxInv, R!RangesPartition, R!Written, R!IsOpen, R!Contains
<1> QED BY <1>1, <1>2, <1>3, <1>6, <1>7, <1>8

\* What the other sessions' calls are about is not touched by a beginning.
LEMMA RangeBeginOthers ==
  ASSUME RangeWaits, RangeIInv, NEW s \in Sessions, NEW work \in R!Calls, R!Begin(s, work),
         NEW t \in Sessions, t # s
  PROVE  /\ (rangeCall[t].op = "close" =>
              rangeCall[t].row \in R!Written /\ R!IsOpen(rangeCall[t].row) /\ table # "tax")'
         /\ (rangeCall[t].op = "set" =>
              /\ rangeCall[t].row \in R!Written \cup {R!NoId}
              /\ rangeCall[t].from \in R!Days
              /\ table # "entitlement" => rangeCall[t].to = R!Open
              /\ RangeFollows(t) \/ RangeRefused(t))'
<1>1. rangeCall'[t] = rangeCall[t] /\ UNCHANGED <<table, ranges, written>>
  BY RangeBeginKeeps
<1> QED BY <1>1 DEF RangeIInv, RangeClosingInv, RangeSettingInv, R!Written, R!IsOpen,
    RangeFollows, RangeRefused, R!OneOpen

LEMMA RangeBeginSet ==
  ASSUME RangeWaits, RangeIInv, NEW s \in Sessions,
         NEW row \in R!Written \cup {R!NoId}, NEW from \in R!Days,
         NEW to \in R!Days \cup {R!Open},
         R!Begin(s, R!Setting(row, from, to)),
         row # R!NoId => R!IsOpen(row),
         \A i \in R!Written \ {row} : ranges[i].to <= from,
         table # "entitlement" => to = R!Open,
         table = "tax" => IF written = 0 THEN from = HireDay ELSE row # R!NoId
  PROVE  RangeIInv'
<1> DEFINE work == R!Setting(row, from, to)
<1>1. /\ work \in R!Calls
      /\ work.op = "set" /\ work.row = row /\ work.from = from /\ work.to = to
  <2>1. row \in R!Ids \cup {R!NoId}
    BY RangeRowType DEF RangeIInv
  <2>2. from \in 0..LastRangeDay /\ to \in 1..R!Open
    BY RangeDaysAreNumbers DEF R!Days, R!Open
  <2> QED BY <2>1, <2>2 DEF R!Calls, R!Setting
<1>2. R!Begin(s, work)
  OBVIOUS
<1> HIDE DEF work
<1>3. rangeCall'[s] = work /\ UNCHANGED <<table, ranges, written>>
  BY <1>1, <1>2, RangeBeginKeeps
<1>4. R!TypeOK' /\ RangeAloneInv' /\ RangeLockInv' /\ RangeTaxInv' /\ R!RangesPartition'
  BY <1>1, <1>2, RangeBeginKeeps
<1>5. RangeFollows(s)'
  BY <1>1, <1>3 DEF RangeFollows, R!Written, R!IsOpen
<1>6. RangeClosingInv'
  BY <1>1, <1>2, <1>3, RangeBeginOthers DEF RangeClosingInv
<1>7. RangeSettingInv'
  <2>1. (rangeCall[s].op = "set" =>
                /\ rangeCall[s].row \in R!Written \cup {R!NoId}
                /\ rangeCall[s].from \in R!Days
                /\ table # "entitlement" => rangeCall[s].to = R!Open
                /\ RangeFollows(s) \/ RangeRefused(s))'
    BY <1>1, <1>3, <1>5 DEF R!Written
  <2> QED BY <1>1, <1>2, <2>1, RangeBeginOthers DEF RangeSettingInv
<1> QED BY <1>4, <1>6, <1>7 DEF RangeIInv

LEMMA RangeBeginClose ==
  ASSUME RangeWaits, RangeIInv, NEW s \in Sessions, NEW to \in 1..R!Open,
         R!OpenRow # R!NoId, table # "tax", R!Begin(s, R!Closing(to))
  PROVE  RangeIInv'
<1> DEFINE work == R!Closing(to)
<1>0. R!OpenRow \in R!Written /\ R!IsOpen(R!OpenRow)
  BY RangeOpenRowIsOpen DEF RangeIInv
<1>1. work \in R!Calls /\ work.op = "close" /\ work.row = R!OpenRow
  <2>1. R!OpenRow \in R!Ids \cup {R!NoId}
    BY <1>0, RangeRowType DEF RangeIInv
  <2>2. 0 \in 0..LastRangeDay
    BY RangeDaysAreNumbers
  <2> QED BY <2>1, <2>2 DEF R!Calls, R!Closing
<1>2. R!Begin(s, work)
  OBVIOUS
<1> HIDE DEF work
<1>3. rangeCall'[s] = work /\ UNCHANGED <<table, ranges, written>>
  BY <1>1, <1>2, RangeBeginKeeps
<1>4. R!TypeOK' /\ RangeAloneInv' /\ RangeLockInv' /\ RangeTaxInv' /\ R!RangesPartition'
  BY <1>1, <1>2, RangeBeginKeeps
<1>5. RangeClosingInv'
  <2>1. rangeCall'[s].row \in R!Written' /\ R!IsOpen(rangeCall[s].row)' /\ table' # "tax"
    BY <1>0, <1>1, <1>3 DEF R!Written, R!IsOpen
  <2> QED BY <1>1, <1>2, <2>1, RangeBeginOthers DEF RangeClosingInv
<1>6. RangeSettingInv'
  BY <1>1, <1>2, <1>3, RangeBeginOthers DEF RangeSettingInv
<1> QED BY <1>4, <1>5, <1>6 DEF RangeIInv

-----------------------------------------------------------------------------
(* The calls that read *)

\* A new row of a salary or an entitlement follows every other one.
LEMMA RangeMayFollowMeans ==
  ASSUME RangeWaits, RangeIInv, NEW day \in R!Days, R!MayFollow(day)
  PROVE  /\ R!ActiveRow(day) \in R!Written \cup {R!NoId}
         /\ R!ActiveRow(day) # R!NoId => R!IsOpen(R!ActiveRow(day))
         /\ \A i \in R!Written \ {R!ActiveRow(day)} : ranges[i].to <= day
<1>1. /\ R!ActiveRow(day) # R!NoId => R!ActiveRow(day) \in R!Written
      /\ \A i \in R!Written : R!Contains(ranges[i], day) => R!ActiveRow(day) = i
  BY RangeActiveRowContains DEF RangeIInv
<1>2. ASSUME NEW i \in R!Written \ {R!ActiveRow(day)} PROVE ranges[i].to <= day
  <2>1. ~R!Contains(ranges[i], day) /\ ranges[i].from < day
    BY <1>1 DEF R!MayFollow
  <2>2. ranges[i].to \in Nat /\ ranges[i].from \in Nat /\ day \in Nat
    BY RangeRowBounds, RangeDaysAreNumbers DEF RangeIInv, R!Days
  <2> QED BY <2>1, <2>2 DEF R!Contains
<1> QED BY <1>1, <1>2 DEF R!MayFollow, R!Replaceable

\* So does one that conflicts with none but the open row.
LEMMA RangeNoConflictMeans ==
  ASSUME RangeWaits, RangeIInv, NEW from \in R!Days, R!NoConflict(R!OpenRow, from)
  PROVE  /\ R!OpenRow \in R!Written \cup {R!NoId}
         /\ R!OpenRow # R!NoId => R!IsOpen(R!OpenRow)
         /\ \A i \in R!Written \ {R!OpenRow} : ranges[i].to <= from
<1>1. ASSUME NEW i \in R!Written \ {R!OpenRow} PROVE ranges[i].to <= from
  BY RangeRowBounds, RangeDaysAreNumbers DEF R!NoConflict, R!OverlapsFrom, R!Days, RangeIInv
<1> QED BY <1>1, RangeOpenRowIsOpen DEF RangeIInv

LEMMA RangeStartDayIsDay ==
  ASSUME RangeWaits, NEW day \in R!Days
  PROVE  R!StartDay(day) \in R!Days
BY RangeDaysAreNumbers DEF R!StartDay

LEMMA RangeReviseSalaryKeeps ==
  ASSUME RangeWaits, RangeIInv, NEW s \in Sessions, NEW day \in R!Days, R!ReviseSalary(s, day)
  PROVE  RangeIInv'
BY RangeMayFollowMeans, RangeBeginSet DEF R!ReviseSalary

LEMMA RangeUpsertEntitlementKeeps ==
  ASSUME RangeWaits, RangeIInv, NEW s \in Sessions, NEW day \in R!Days,
         NEW to \in R!Days \cup {R!Open},
         R!UpsertEntitlement(s, day, to)
  PROVE  RangeIInv'
BY RangeMayFollowMeans, RangeBeginSet DEF R!UpsertEntitlement

LEMMA RangeSetTaxProfileKeeps ==
  ASSUME RangeWaits, RangeIInv, NEW s \in Sessions, NEW day \in R!Days, R!SetTaxProfile(s, day)
  PROVE  RangeIInv'
<1>1. IF written = 0 THEN R!StartDay(day) = HireDay ELSE R!OpenRow # R!NoId
  <2>1. CASE written = 0
    BY <2>1 DEF R!StartDay
  <2>2. CASE written # 0
    <3>1. \E i \in R!Written : R!IsOpen(i)
      BY <2>2 DEF R!SetTaxProfile, RangeIInv, RangeTaxInv, R!TypeOK
    <3>2. PICK i \in R!Written : R!IsOpen(i)
      BY <3>1
    <3>3. R!OpenRow = i /\ i # R!NoId
      BY <3>2, RangeOpenRowIsOpen, RangeRowBounds DEF RangeIInv
    <3> QED BY <2>2, <3>3
  <2> QED BY <2>1, <2>2
<1> QED BY <1>1, RangeStartDayIsDay, RangeNoConflictMeans, RangeBeginSet DEF R!SetTaxProfile

LEMMA RangeSetEnrollmentKeeps ==
  ASSUME RangeWaits, RangeIInv, NEW s \in Sessions, NEW day \in R!Days, R!SetEnrollment(s, day)
  PROVE  RangeIInv'
BY RangeNoConflictMeans, RangeBeginSet DEF R!SetEnrollment

LEMMA RangeSetMemberKeeps ==
  ASSUME RangeWaits, RangeIInv, NEW s \in Sessions, NEW day \in R!Days, R!SetMember(s, day)
  PROVE  RangeIInv'
BY RangeStartDayIsDay, RangeNoConflictMeans, RangeBeginSet DEF R!SetMember

\* The three calls that close the open row.
LEMMA RangeClosingKeeps ==
  ASSUME RangeWaits, RangeIInv, NEW s \in Sessions, NEW day \in R!Days,
         R!CloseAtTermination(s, day) \/ R!EndEnrollment(s, day) \/ R!RemoveMember(s, day)
  PROVE  RangeIInv'
<1>1. R!OpenRow # R!NoId /\ table # "tax"
  BY DEF R!CloseAtTermination, R!EndEnrollment, R!RemoveMember
<1>2. ranges[R!OpenRow].from \in 1..R!Open
  BY <1>1, RangeOpenRowIsOpen, RangeRowBounds, RangeDaysAreNumbers DEF RangeIInv
<1>3. day \in 1..R!Open /\ day + 1 \in 1..R!Open
  BY RangeDaysAreNumbers DEF R!Days, R!Open
<1>4. R!NotBefore(day) \in 1..R!Open /\ R!NotBefore(day + 1) \in 1..R!Open
  BY <1>2, <1>3 DEF R!NotBefore
<1> QED BY <1>1, <1>3, <1>4, RangeBeginClose DEF R!CloseAtTermination, R!EndEnrollment,
    R!RemoveMember

-----------------------------------------------------------------------------
(* The calls that write *)

LEMMA RangeReleaseKeeps ==
  ASSUME RangeWaits, RangeIInv, NEW s \in Sessions, R!Release(s)
  PROVE  /\ rangeCall' \in [Sessions -> R!Calls \cup {R!Idle}]
         /\ rangeLock' \in Sessions \cup {R!Nobody}
         /\ rangeCall'[s] = R!Idle
         /\ \A t \in Sessions : t # s => rangeCall'[t] = rangeCall[t]
BY DEF R!Release, RangeIInv, R!TypeOK

\* The sessions that are left have the calls they had.
LEMMA RangeReleaseAlone ==
  ASSUME RangeWaits, RangeIInv, NEW s \in Sessions, R!Release(s), UNCHANGED table
  PROVE  RangeAloneInv' /\ RangeLockInv'
<1>1. /\ rangeCall'[s] = R!Idle
      /\ \A t \in Sessions : t # s => rangeCall'[t] = rangeCall[t]
  BY RangeReleaseKeeps
<1>2. RangeAloneInv'
  BY <1>1 DEF RangeIInv, RangeAloneInv
<1>3. RangeLockInv'
  <2> SUFFICES ASSUME NEW t \in Sessions, R!Locking', rangeCall'[t].op = "set"
               PROVE  rangeLock' = t
    BY DEF RangeLockInv
  <2>1. t # s
    BY <1>1 DEF R!Idle
  <2>2. rangeLock = t
    BY <1>1, <2>1 DEF RangeIInv, RangeLockInv, R!Locking
  <2> QED BY <2>1, <2>2 DEF R!Release
<1> QED BY <1>2, <1>3

LEMMA RangeFailKeeps ==
  ASSUME RangeWaits, RangeIInv, NEW s \in Sessions, R!Fail(s)
  PROVE  RangeIInv'
<1>1. R!Release(s) /\ UNCHANGED <<table, ranges, written>>
  BY DEF R!Fail
<1>2. /\ rangeCall'[s] = R!Idle
      /\ \A t \in Sessions : t # s => rangeCall'[t] = rangeCall[t]
  BY <1>1, RangeReleaseKeeps
<1>3. R!TypeOK'
  BY <1>1, RangeReleaseKeeps DEF RangeIInv, R!TypeOK, R!Tables
<1>4. RangeAloneInv' /\ RangeLockInv'
  BY <1>1, RangeReleaseAlone
<1>5. RangeClosingInv'
  BY <1>1, <1>2 DEF RangeIInv, RangeClosingInv, R!Written, R!IsOpen, R!Idle
<1>6. RangeSettingInv'
  BY <1>1, <1>2 DEF RangeIInv, RangeSettingInv, RangeFollows, RangeRefused, R!OneOpen,
     R!Written, R!IsOpen, R!Idle
<1>7. RangeTaxInv' /\ R!RangesPartition'
  BY <1>1 DEF RangeIInv, RangeTaxInv, R!RangesPartition, R!Written, R!IsOpen, R!Contains
<1> QED BY <1>3, <1>4, <1>5, <1>6, <1>7 DEF RangeIInv

\* A closing only ends the open row sooner.
LEMMA RangeCommitCloseRows ==
  ASSUME RangeWaits, RangeIInv, NEW s \in Sessions, R!CommitClose(s)
  PROVE  /\ rangeCall[s].row \in R!Written /\ R!IsOpen(rangeCall[s].row) /\ table # "tax"
         /\ ranges' = [ranges EXCEPT ![rangeCall[s].row].to = rangeCall[s].to]
         /\ ranges' \in [R!Ids -> R!Rows \cup {R!NoRow}]
         /\ \A i \in R!Ids : i # rangeCall[s].row => ranges'[i] = ranges[i]
         /\ \A i \in R!Written : /\ ranges'[i] \in R!Rows
                                 /\ ranges'[i].from = ranges[i].from
                                 /\ ranges'[i].to <= ranges[i].to
                                 /\ i # rangeCall[s].row => ranges'[i] = ranges[i]
<1>1. rangeCall[s].op = "close" /\ ranges' = [ranges EXCEPT ![rangeCall[s].row].to = rangeCall[s].to]
  BY DEF R!CommitClose
<1>2. rangeCall[s].row \in R!Written /\ R!IsOpen(rangeCall[s].row) /\ table # "tax"
  BY <1>1 DEF RangeIInv, RangeClosingInv
<1>3. rangeCall[s] \in R!Calls
  BY <1>1, RangeCallKind DEF RangeIInv, R!Idle
<1>4. rangeCall[s].to \in 1..R!Open
  BY <1>3 DEF R!Calls
<1>5. /\ ranges \in [R!Ids -> R!Rows \cup {R!NoRow}] /\ rangeCall[s].row \in R!Ids
      /\ ranges[rangeCall[s].row] \in R!Rows
  BY <1>2, RangeRowType DEF RangeIInv, R!TypeOK
<1>6. /\ ranges'[rangeCall[s].row] = [from |-> ranges[rangeCall[s].row].from, to |-> rangeCall[s].to]
      /\ \A i \in R!Ids : i # rangeCall[s].row => ranges'[i] = ranges[i]
  BY <1>1, <1>5 DEF R!Rows
<1>7. ranges'[rangeCall[s].row] \in R!Rows
  BY <1>4, <1>5, <1>6 DEF R!Rows
<1>8. ranges' \in [R!Ids -> R!Rows \cup {R!NoRow}]
  BY <1>1, <1>5, <1>6, <1>7
<1>9. ASSUME NEW i \in R!Written
      PROVE  /\ ranges'[i] \in R!Rows
             /\ ranges'[i].from = ranges[i].from
             /\ ranges'[i].to <= ranges[i].to
             /\ i # rangeCall[s].row => ranges'[i] = ranges[i]
  <2>1. i \in R!Ids /\ ranges[i] \in R!Rows /\ ranges[i].to \in Nat
    BY RangeRowType, RangeRowBounds DEF RangeIInv
  <2>2. CASE i # rangeCall[s].row
    BY <1>6, <2>1, <2>2
  <2>3. CASE i = rangeCall[s].row
    BY <1>2, <1>4, <1>6, <1>7, <2>1, <2>3, RangeDaysAreNumbers DEF R!IsOpen
  <2> QED BY <2>2, <2>3
<1> QED BY <1>1, <1>2, <1>6, <1>8, <1>9

\* Rows that keep their start and end no later still exclude each other.
LEMMA RangeShorterExclude ==
  ASSUME RangeWaits, RangeIInv,
         \A i \in R!Written : /\ ranges'[i] \in R!Rows
                              /\ ranges'[i].from = ranges[i].from
                              /\ ranges'[i].to <= ranges[i].to
  PROVE  \A i, j \in R!Written : \A day \in R!Days :
           R!Contains(ranges'[i], day) /\ R!Contains(ranges'[j], day) => i = j
<1>1. ASSUME NEW i \in R!Written, NEW day \in R!Days, R!Contains(ranges'[i], day)
      PROVE  R!Contains(ranges[i], day)
  <2>1. ranges'[i].to \in Nat /\ ranges[i].to \in Nat /\ day \in Nat
    BY RangeRowBounds, RangeDaysAreNumbers DEF R!Rows, RangeIInv, R!Days
  <2> QED BY <1>1, <2>1 DEF R!Contains
<1> QED BY <1>1 DEF RangeIInv, R!RangesPartition

LEMMA RangeCommitCloseKeeps ==
  ASSUME RangeWaits, RangeIInv, NEW s \in Sessions, R!CommitClose(s)
  PROVE  RangeIInv'
<1>1. /\ rangeCall[s].op = "close" /\ R!Release(s) /\ UNCHANGED <<table, written>>
      /\ table # "tax"
  BY RangeCommitCloseRows DEF R!CommitClose
<1>2. /\ rangeCall'[s] = R!Idle
      /\ \A t \in Sessions : t # s => rangeCall'[t] = rangeCall[t]
  BY <1>1, RangeReleaseKeeps
<1>3. \A t \in Sessions : rangeCall'[t] = R!Idle
  BY <1>1, <1>2 DEF RangeIInv, RangeAloneInv, R!Idle
<1>4. R!TypeOK'
  <2>1. \A i \in R!Ids : i <= written' <=> ranges'[i] # R!NoRow
    <3> SUFFICES ASSUME NEW i \in R!Ids PROVE i <= written <=> ranges'[i] # R!NoRow
      BY <1>1
    <3>1. CASE i \in R!Written
      <4>1. ranges'[i] \in R!Rows /\ i <= written
        BY <3>1, RangeCommitCloseRows, RangeRowBounds DEF RangeIInv
      <4> QED BY <4>1, RangeDaysAreNumbers DEF R!Rows, R!Days, R!NoRow
    <3>2. CASE i \notin R!Written
      <4>1. i # rangeCall[s].row /\ ~(i <= written) /\ ranges[i] = R!NoRow
        <5>1. i \in Nat /\ 1 <= i /\ written \in Nat
          BY RangeDaysAreNumbers DEF R!Ids, RangeIInv, R!TypeOK
        <5>2. rangeCall[s].row \in R!Written
          BY RangeCommitCloseRows
        <5> QED BY <3>2, <5>1, <5>2 DEF R!Written, RangeIInv, R!TypeOK
      <4> QED BY <4>1, RangeCommitCloseRows DEF RangeIInv, R!TypeOK
    <3> QED BY <3>1, <3>2
  <2> QED BY <1>1, <2>1, RangeCommitCloseRows, RangeReleaseKeeps DEF RangeIInv, R!TypeOK,
      R!Tables
<1>5. RangeAloneInv' /\ RangeLockInv'
  BY <1>1, RangeReleaseAlone
<1>6. RangeClosingInv' /\ RangeSettingInv'
  BY <1>3 DEF RangeClosingInv, RangeSettingInv, R!Idle
<1>7. RangeTaxInv'
  BY <1>1 DEF RangeTaxInv
<1>8. R!RangesPartition'
  BY <1>1, RangeCommitCloseRows, RangeShorterExclude DEF R!RangesPartition, R!Written
<1> QED BY <1>4, <1>5, <1>6, <1>7, <1>8 DEF RangeIInv

\* The index of the open row refuses an insertion that was overtaken.
LEMMA RangeOvertakenIsRefused ==
  ASSUME RangeWaits, RangeIInv, NEW s \in Sessions, R!CommitSet(s)
  PROVE  RangeFollows(s)
<1>1. rangeCall[s].op = "set" /\ written < MaxRanges
  BY DEF R!CommitSet
<1>2. SUFFICES ASSUME RangeRefused(s) PROVE FALSE
  BY <1>1 DEF RangeIInv, RangeSettingInv
<1> DEFINE new == [i \in R!Ids |->
                     IF i = written + 1 THEN [from |-> rangeCall[s].from, to |-> rangeCall[s].to]
                     ELSE IF i = rangeCall[s].row THEN [from |-> ranges[i].from, to |-> rangeCall[s].from]
                     ELSE ranges[i]]
<1> DEFINE open == {i \in R!Written \cup {written + 1} : new[i].to = R!Open}
<1>3. R!OneOpen /\ R!UniqueIndexes(new)
  BY <1>2 DEF RangeRefused, R!CommitSet
<1>4. Cardinality(open) <= 1
  BY <1>3 DEF R!UniqueIndexes, R!Cardinality, Cardinality
<1>5. PICK i \in R!Written : i # rangeCall[s].row /\ R!IsOpen(i)
  BY <1>2 DEF RangeRefused
<1>6. /\ written \in Nat /\ MaxRanges \in Nat /\ i \in R!Ids /\ i # written + 1
      /\ written + 1 \in R!Ids
  BY <1>1, <1>5, RangeRowType, RangeRowBounds, RangeDaysAreNumbers DEF RangeIInv, R!TypeOK,
     R!Ids
<1>7. i \in open
  BY <1>5, <1>6 DEF R!IsOpen
<1>8. table # "entitlement"
  BY <1>2 DEF RangeRefused
<1>9. written + 1 \in open
  BY <1>1, <1>6, <1>8 DEF RangeIInv, RangeSettingInv
<1>10. IsFiniteSet(open)
  <2>1. IsFiniteSet(1..(written + 1))
    BY <1>6, FS_Interval
  <2>2. open \subseteq 1..(written + 1)
    BY <1>6 DEF R!Written
  <2> QED BY <2>1, <2>2, FS_Subset
<1> HIDE DEF open
<1> QED BY <1>4, <1>6, <1>7, <1>9, <1>10, RangeTwoElements

\* An insertion adds one row and ends the one it replaces where it starts.
RangeInserted(s) ==
  /\ rangeCall[s].from \in R!Days
  /\ written \in Nat /\ written + 1 \in R!Ids /\ written' = written + 1
  /\ ranges' \in [R!Ids -> R!Rows \cup {R!NoRow}]
  /\ ranges'[written + 1] = [from |-> rangeCall[s].from, to |-> rangeCall[s].to]
  /\ ranges'[written + 1] \in R!Rows
  /\ \A i \in R!Ids \ {written + 1, rangeCall[s].row} : ranges'[i] = ranges[i]
  /\ rangeCall[s].row \in R!Written =>
       ranges'[rangeCall[s].row] = [from |-> ranges[rangeCall[s].row].from, to |-> rangeCall[s].from]
  /\ \A i \in R!Written : /\ i \in R!Ids /\ i # written + 1
                          /\ ranges'[i] \in R!Rows
                          /\ ranges'[i].from = ranges[i].from
                          /\ ranges'[i].to <= ranges[i].to
                          /\ ranges'[i].to <= rangeCall[s].from

LEMMA RangeCommitSetRows ==
  ASSUME RangeWaits, RangeIInv, NEW s \in Sessions, R!CommitSet(s)
  PROVE  RangeInserted(s)
<1>1. /\ rangeCall[s].op = "set" /\ written < MaxRanges /\ written' = written + 1
      /\ ranges' = [i \in R!Ids |->
                      IF i = written + 1 THEN [from |-> rangeCall[s].from, to |-> rangeCall[s].to]
                      ELSE IF i = rangeCall[s].row THEN [from |-> ranges[i].from, to |-> rangeCall[s].from]
                      ELSE ranges[i]]
  BY DEF R!CommitSet
<1>2. rangeCall[s].row \in R!Written \cup {R!NoId} /\ rangeCall[s].from \in R!Days
  BY <1>1 DEF RangeIInv, RangeSettingInv
<1>3. rangeCall[s] \in R!Calls
  BY <1>1, RangeCallKind DEF RangeIInv, R!Idle
<1>4. rangeCall[s].to \in 1..R!Open
  BY <1>3 DEF R!Calls
<1>5. written \in Nat /\ written + 1 \in R!Ids
  BY <1>1, RangeDaysAreNumbers DEF RangeIInv, R!TypeOK, R!Ids
<1>6. [from |-> rangeCall[s].from, to |-> rangeCall[s].to] \in R!Rows
  BY <1>2, <1>4 DEF R!Rows
<1>7. ranges'[written + 1] = [from |-> rangeCall[s].from, to |-> rangeCall[s].to]
  BY <1>1, <1>5
<1>8. \A i \in R!Ids \ {written + 1, rangeCall[s].row} : ranges'[i] = ranges[i]
  BY <1>1
<1>9. \A i \in R!Written : i \in R!Ids /\ i # written + 1 /\ ranges[i] \in R!Rows
  BY <1>5, RangeRowType, RangeRowBounds DEF RangeIInv
<1>10. rangeCall[s].row \in R!Written =>
         ranges'[rangeCall[s].row] = [from |-> ranges[rangeCall[s].row].from, to |-> rangeCall[s].from]
  BY <1>1, <1>9
<1>11. rangeCall[s].from \in 1..R!Open /\ rangeCall[s].from \in Nat /\ rangeCall[s].from < R!Open
  BY <1>2, RangeDaysAreNumbers DEF R!Days
<1>12. ASSUME NEW i \in R!Written
       PROVE  /\ ranges'[i] \in R!Rows
              /\ ranges'[i].from = ranges[i].from
              /\ ranges'[i].to <= ranges[i].to
              /\ ranges'[i].to <= rangeCall[s].from
  <2>1. /\ rangeCall[s].row # R!NoId => R!IsOpen(rangeCall[s].row)
        /\ \A j \in R!Written \ {rangeCall[s].row} : ranges[j].to <= rangeCall[s].from
    BY RangeOvertakenIsRefused DEF RangeFollows
  <2>2. ranges[i] \in R!Rows /\ ranges[i].from \in R!Days /\ ranges[i].to \in Nat /\ i # R!NoId
    BY <1>9, RangeRowBounds DEF R!Rows, RangeIInv
  <2>3. CASE i = rangeCall[s].row
    BY <1>10, <1>11, <2>1, <2>2, <2>3, RangeDaysAreNumbers DEF R!Rows, R!IsOpen
  <2>4. CASE i # rangeCall[s].row
    BY <1>8, <1>9, <2>1, <2>2, <2>4
  <2> QED BY <2>3, <2>4
<1>13. ranges' \in [R!Ids -> R!Rows \cup {R!NoRow}]
  <2>1. \A i \in R!Ids : ranges'[i] \in R!Rows \cup {R!NoRow}
    <3> SUFFICES ASSUME NEW i \in R!Ids PROVE ranges'[i] \in R!Rows \cup {R!NoRow}
      OBVIOUS
    <3>1. CASE i = written + 1
      BY <1>6, <1>7, <3>1
    <3>2. CASE i \in R!Written
      BY <1>12, <3>2
    <3>3. CASE i # written + 1 /\ i \notin R!Written
      <4>1. i # R!NoId
        BY RangeDaysAreNumbers DEF R!Ids, R!NoId
      <4>2. ranges'[i] = ranges[i]
        BY <1>2, <1>8, <3>3, <4>1
      <4> QED BY <4>2 DEF RangeIInv, R!TypeOK
    <3> QED BY <3>1, <3>2, <3>3
  <2> QED BY <1>1, <2>1
<1> QED BY <1>1, <1>2, <1>5, <1>6, <1>7, <1>8, <1>9, <1>10, <1>12, <1>13 DEF RangeInserted

LEMMA RangeCommitSetPartition ==
  ASSUME RangeWaits, RangeIInv, NEW s \in Sessions, R!CommitSet(s)
  PROVE  \A i, j \in R!Written' : \A day \in R!Days :
           R!Contains(ranges'[i], day) /\ R!Contains(ranges'[j], day) => i = j
<1>0. RangeInserted(s)
  BY RangeCommitSetRows
<1>1. R!Written' = R!Written \cup {written + 1}
  BY <1>0 DEF RangeInserted, R!Written
<1>2. \A i, j \in R!Written : \A day \in R!Days :
        R!Contains(ranges'[i], day) /\ R!Contains(ranges'[j], day) => i = j
  BY <1>0, RangeShorterExclude DEF RangeInserted
<1>3. ASSUME NEW i \in R!Written, NEW day \in R!Days,
             R!Contains(ranges'[i], day), R!Contains(ranges'[written + 1], day)
      PROVE  FALSE
  <2>1. ranges'[i].to <= rangeCall[s].from /\ ranges'[i].to \in 1..R!Open /\ rangeCall[s].from \in R!Days
    BY <1>0 DEF RangeInserted, R!Rows
  <2>2. rangeCall[s].from <= day
    BY <1>3, <1>0 DEF RangeInserted, R!Contains
  <2>3. day < ranges'[i].to
    BY <1>3 DEF R!Contains
  <2> QED BY <2>1, <2>2, <2>3, RangeDaysAreNumbers DEF R!Days
<1> QED BY <1>1, <1>2, <1>3

LEMMA RangeCommitSetTax ==
  ASSUME RangeWaits, RangeIInv, NEW s \in Sessions, R!CommitSet(s), table = "tax",
         NEW day \in HireDay..LastRangeDay
  PROVE  \E i \in R!Written' : R!Contains(ranges'[i], day)
<1>0. RangeInserted(s)
  BY RangeCommitSetRows
<1>1. rangeCall[s].to = R!Open /\ RangeFollows(s)
  BY RangeOvertakenIsRefused DEF RangeIInv, RangeSettingInv, R!CommitSet
<1>2. written + 1 \in R!Written' /\ \A i \in R!Written : i \in R!Written'
  BY <1>0 DEF RangeInserted, R!Written
<1>3. day \in Nat /\ day < R!Open /\ HireDay <= day /\ day \in R!Days
  BY RangeDaysAreNumbers DEF R!Days, R!Open
<1>4. rangeCall[s].from <= day => R!Contains(ranges'[written + 1], day)
  BY <1>1, <1>3, <1>0 DEF RangeInserted, R!Contains
<1>5. CASE written = 0
  BY <1>1, <1>2, <1>3, <1>4, <1>5 DEF RangeFollows
<1>6. CASE written # 0
  <2>1. written > 0
    BY <1>6, <1>0 DEF RangeInserted
  <2>2. PICK i \in R!Written : R!Contains(ranges[i], day)
    BY <2>1 DEF RangeIInv, R!RangesPartition
  <2>3. CASE i = rangeCall[s].row
    <3>1. ranges'[i] = [from |-> ranges[i].from, to |-> rangeCall[s].from]
      BY <2>3, <1>0 DEF RangeInserted
    <3>2. day < rangeCall[s].from => R!Contains(ranges'[i], day)
      BY <2>2, <3>1 DEF R!Contains
    <3>3. rangeCall[s].from \in Nat
      BY <1>0 DEF RangeInserted, R!Days
    <3> QED BY <1>2, <1>3, <1>4, <3>2, <3>3
  <2>4. CASE i # rangeCall[s].row
    BY <1>2, <2>2, <2>4, <1>0 DEF RangeInserted
  <2> QED BY <2>3, <2>4
<1> QED BY <1>5, <1>6

LEMMA RangeCommitSetSettings ==
  ASSUME RangeWaits, RangeIInv, NEW s \in Sessions, R!CommitSet(s)
  PROVE  RangeClosingInv' /\ RangeSettingInv'
<1>0. RangeInserted(s)
  BY RangeCommitSetRows
<1>1. /\ rangeCall[s].op = "set" /\ R!Release(s) /\ table' = table
  BY DEF R!CommitSet
<1>2. /\ rangeCall'[s] = R!Idle
      /\ \A t \in Sessions : t # s => rangeCall'[t] = rangeCall[t]
  BY <1>1, RangeReleaseKeeps
<1>3. ASSUME NEW t \in Sessions, t # s, rangeCall[t] # R!Idle
      PROVE  /\ rangeCall[t].op = "set" /\ R!OneOpen /\ table # "entitlement"
             /\ rangeCall[s].to = R!Open
  <2>1. rangeCall[t].op = "set" /\ table # "entitlement"
    BY <1>1, <1>3 DEF RangeIInv, RangeAloneInv, R!Idle
  <2>2. ~R!Locking
    BY <1>1, <1>3, <2>1 DEF RangeIInv, RangeLockInv
  <2> QED BY <1>1, <2>1, <2>2 DEF RangeIInv, RangeSettingInv, R!Locking, R!OneOpen
<1>4. RangeClosingInv'
  BY <1>2, <1>3 DEF RangeClosingInv, R!Idle
<1>5. ASSUME NEW t \in Sessions, rangeCall'[t].op = "set"
      PROVE  (/\ rangeCall[t].row \in R!Written \cup {R!NoId}
              /\ rangeCall[t].from \in R!Days
              /\ table # "entitlement" => rangeCall[t].to = R!Open
              /\ RangeFollows(t) \/ RangeRefused(t))'
  <2>1. t # s /\ rangeCall'[t] = rangeCall[t] /\ rangeCall[t] # R!Idle /\ rangeCall[t].op = "set"
    BY <1>2, <1>5 DEF R!Idle
  <2>2. R!OneOpen /\ table # "entitlement" /\ rangeCall[s].to = R!Open
    BY <1>3, <2>1
  <2>3. /\ rangeCall[t].row \in R!Written \cup {R!NoId} /\ rangeCall[t].from \in R!Days
        /\ rangeCall[t].to = R!Open
    BY <2>1, <2>2 DEF RangeIInv, RangeSettingInv
  <2>4. R!Written' = R!Written \cup {written + 1}
    BY <1>0 DEF RangeInserted, R!Written
  <2>5. written + 1 # rangeCall[t].row
    BY <2>3, RangeRowBounds, <1>0 DEF RangeInserted, RangeIInv, R!NoId
  <2>6. RangeRefused(t)'
    <3>1. ranges'[written + 1].to = R!Open
      BY <2>2, <1>0 DEF RangeInserted
    <3> QED BY <1>1, <2>1, <2>2, <2>4, <2>5, <3>1 DEF RangeRefused, R!OneOpen, R!IsOpen
  <2> QED BY <2>1, <2>3, <2>4, <2>6
<1> QED BY <1>4, <1>5 DEF RangeSettingInv

LEMMA RangeCommitSetKeeps ==
  ASSUME RangeWaits, RangeIInv, NEW s \in Sessions, R!CommitSet(s)
  PROVE  RangeIInv'
<1>0. RangeInserted(s)
  BY RangeCommitSetRows
<1>1. R!Release(s) /\ table' = table
  BY DEF R!CommitSet
<1>2. R!TypeOK'
  <2>1. ASSUME NEW i \in R!Ids PROVE i <= written' <=> ranges'[i] # R!NoRow
    <3>1. i \in Nat /\ 1 <= i /\ written \in Nat /\ written' = written + 1
      BY <1>0, RangeDaysAreNumbers DEF RangeInserted, R!Ids
    <3>2. R!NoRow \notin R!Rows
      BY RangeDaysAreNumbers DEF R!Rows, R!Days, R!NoRow
    <3>3. CASE i \in R!Written \cup {written + 1}
      <4>1. ranges'[i] \in R!Rows
        BY <3>3, <1>0 DEF RangeInserted
      <4> QED BY <3>1, <3>2, <3>3, <4>1 DEF R!Written
    <3>4. CASE i \notin R!Written \cup {written + 1}
      <4>1. i # rangeCall[s].row
        BY <3>1, <3>4 DEF RangeIInv, RangeSettingInv, R!CommitSet, R!NoId
      <4>2. ranges'[i] = ranges[i] /\ ~(i <= written) /\ ~(i <= written')
        BY <3>1, <3>4, <4>1, <1>0 DEF RangeInserted, R!Written
      <4> QED BY <4>2 DEF RangeIInv, R!TypeOK
    <3> QED BY <3>3, <3>4
  <2>2. written' \in 0..MaxRanges
    BY <1>0, RangeDaysAreNumbers DEF RangeInserted, R!Ids
  <2> QED BY <1>1, <2>1, <2>2, <1>0, RangeReleaseKeeps DEF RangeInserted, RangeIInv, R!TypeOK,
      R!Tables
<1>3. RangeAloneInv' /\ RangeLockInv'
  BY <1>1, RangeReleaseAlone
<1>4. RangeClosingInv' /\ RangeSettingInv'
  BY RangeCommitSetSettings
<1>5. RangeTaxInv'
  <2> SUFFICES ASSUME table = "tax" PROVE \E i \in R!Written' : ranges'[i].to = R!Open
    BY <1>1 DEF RangeTaxInv, R!IsOpen
  <2>1. rangeCall[s].to = R!Open
    BY DEF RangeIInv, RangeSettingInv, R!CommitSet
  <2> QED BY <2>1, <1>0 DEF RangeInserted, R!Written
<1>6. R!RangesPartition'
  BY <1>1, RangeCommitSetPartition, RangeCommitSetTax DEF R!RangesPartition
<1> QED BY <1>2, <1>3, <1>4, <1>5, <1>6 DEF RangeIInv

-----------------------------------------------------------------------------
(* The specification *)

LEMMA RangeInitKeeps == ASSUME RangeWaits, R!Init PROVE RangeIInv
<1>1. MaxRanges \in Nat /\ LastRangeDay \in Nat
  BY RangeDaysAreNumbers
<1>2. R!Written = {}
  BY DEF R!Init, R!Written
<1>3. R!TypeOK
  <2>1. \A i \in R!Ids : ~(i <= written) /\ ranges[i] = R!NoRow
    BY <1>1 DEF R!Init, R!Ids
  <2> QED BY <1>1, <2>1 DEF R!Init, R!TypeOK
<1> QED BY <1>2, <1>3 DEF R!Init, RangeIInv, RangeAloneInv, RangeLockInv, RangeClosingInv,
    RangeSettingInv, RangeTaxInv,
                          R!RangesPartition, R!Idle

LEMMA RangeStepKeeps ==
  ASSUME RangeWaits, RangeIInv, NEW s \in Sessions, R!Step(s)
  PROVE  RangeIInv'
<1>1. HireDay \in R!Days
  BY RangeDaysAreNumbers
<1>2. R!RecordHireSalary(s) => RangeIInv'
  BY <1>1, RangeReviseSalaryKeeps DEF R!RecordHireSalary
<1> QED BY <1>2, RangeReviseSalaryKeeps, RangeUpsertEntitlementKeeps, RangeSetTaxProfileKeeps,
           RangeSetEnrollmentKeeps, RangeSetMemberKeeps, RangeClosingKeeps, RangeCommitSetKeeps,
           RangeCommitCloseKeeps, RangeFailKeeps DEF R!Step

LEMMA RangeStutterKeeps == ASSUME RangeIInv, UNCHANGED R!vars PROVE RangeIInv'
BY DEF R!vars, RangeIInv, R!TypeOK, RangeAloneInv, RangeLockInv, RangeClosingInv,
       RangeSettingInv, RangeTaxInv, R!RangesPartition,
       RangeFollows, RangeRefused, R!Written, R!IsOpen, R!Contains, R!OneOpen, R!Locking, R!Tables

LEMMA RangeInvariance == ASSUME RangeWaits PROVE R!Spec => []RangeIInv
<1>1. R!Init => RangeIInv
  BY RangeInitKeeps
<1>2. RangeIInv /\ [R!Next]_R!vars => RangeIInv'
  BY RangeStepKeeps, RangeStutterKeeps DEF R!Next
<1> QED BY <1>1, <1>2, PTL DEF R!Spec

\* Every variable keeps its type, for any rows, days and sessions.
LEMMA RangeTypeCorrect == ASSUME RangeWaits PROVE R!Spec => []R!TypeOK
<1>1. RangeIInv => R!TypeOK
  BY DEF RangeIInv
<1> QED BY <1>1, RangeInvariance, PTL

\* At most one row is in force on a day, and a tax profile has no gap, for any
\* number of sessions that insert together (persistRevision, setTaxProfile,
\* setEnrollment and setMember), while closings and entitlement upserts overlap no
\* other call.
LEMMA RangeNeverTwoInForce == ASSUME RangeWaits PROVE R!Spec => []R!RangesPartition
<1>1. RangeIInv => R!RangesPartition
  BY DEF RangeIInv
<1> QED BY <1>1, RangeInvariance, PTL

\* "Historical pay records are never overwritten": no call moves the start of a
\* row or the end of a closed one, while closings and entitlement upserts overlap
\* no other call.
LEMMA RangeHistoryIsKept == ASSUME RangeWaits PROVE R!Spec => R!HistoryStands
<1> DEFINE Kept == \A i \in R!Written : /\ ranges'[i].from = ranges[i].from
                                        /\ ~R!IsOpen(i) => ranges'[i] = ranges[i]
<1>1. ASSUME RangeIInv, NEW s \in Sessions, R!CommitSet(s) PROVE Kept
  <2>1. \A i \in R!Written : ranges'[i].from = ranges[i].from
    BY <1>1, RangeCommitSetRows DEF RangeInserted
  <2>2. ASSUME NEW i \in R!Written, ~R!IsOpen(i) PROVE ranges'[i] = ranges[i]
    <3>1. i # rangeCall[s].row
      <4>1. RangeFollows(s) /\ i # R!NoId
        BY <1>1, RangeOvertakenIsRefused, RangeRowBounds DEF RangeIInv
      <4> QED BY <2>2, <4>1 DEF RangeFollows
    <3>2. i \in R!Ids /\ i # written + 1
      BY <1>1, RangeCommitSetRows DEF RangeInserted
    <3>3. \A j \in R!Ids \ {written + 1, rangeCall[s].row} : ranges'[j] = ranges[j]
      BY <1>1, RangeCommitSetRows DEF RangeInserted
    <3> QED BY <3>1, <3>2, <3>3
  <2> QED BY <2>1, <2>2
<1>2. ASSUME RangeIInv, NEW s \in Sessions, R!CommitClose(s) PROVE Kept
  BY <1>2, RangeCommitCloseRows
<1>3. ASSUME UNCHANGED ranges PROVE Kept
  BY <1>3
<1>4. RangeIInv /\ R!Next => Kept \/ UNCHANGED R!vars
  <2> SUFFICES ASSUME RangeIInv, NEW s \in Sessions, R!Step(s) PROVE Kept
    BY DEF R!Next
  <2>1. R!CommitSet(s) \/ R!CommitClose(s) \/ UNCHANGED ranges
    BY DEF R!Step, R!RecordHireSalary, R!ReviseSalary, R!UpsertEntitlement, R!SetTaxProfile,
           R!SetEnrollment,
           R!SetMember, R!CloseAtTermination, R!EndEnrollment, R!RemoveMember, R!Begin, R!Fail
  <2> QED BY <1>1, <1>2, <1>3, <2>1
<1>5. RangeIInv /\ [R!Next]_R!vars => [Kept]_R!vars
  BY <1>4
<1> QED BY <1>5, RangeInvariance, PTL DEF R!Spec, R!HistoryStands


-----------------------------------------------------------------------------
(* Recruitment: the inductive invariant                                    *)

HiringWaits == H!HiringAssumption

Accepted == {i \in DOMAIN offers : offers[i].status = "accepted"}

\* One consumer runs, and its event is counted until it ends.
ConsumeInv ==
  /\ \A s, t \in Sessions : hiringCall[s].op = "consume" /\ hiringCall[t].op = "consume" => s = t
  /\ \A s \in Sessions : hiringCall[s].op = "consume" => notices > 0
  /\ notices <= changes

\* What a call has read or checked still holds when it commits.
ReadHolds(s) ==
  /\ hiringCall[s].op \in {"accept", "publish", "offer"} => hiringCall[s].at = "read"
  /\ hiringCall[s].at = "write" => hiringCall[s].to \in H!PositionStatuses
  /\ hiringCall[s].at = "read" => hiringCall[s].attempt = 0
  /\ H!Doing(s, "update", "read") => hiringCall[s].to \in H!Statuses
  /\ hiringCall[s].op = "offer" => hiringCall[s].to \in Applications
  /\ hiringCall[s].op = "accept" =>
       hiringCall[s].offer \in DOMAIN offers /\ offers[hiringCall[s].offer].status = "sent"

\* No two acceptances hold the same offer.
HeldInv ==
  \A s, t \in Sessions :
    (hiringCall[s].op = "accept" /\ hiringCall[t].op = "accept"
       /\ hiringCall[s].offer = hiringCall[t].offer) => s = t

\* Calls that do not overlap commit what was still so when they read it.
Agrees(s) ==
  /\ H!Doing(s, "update", "read") =>
       /\ hiringCall[s].seen.status = request.status
       /\ hiringCall[s].to \in H!Transitions(request.status) \cup {request.status}
  /\ hiringCall[s].op = "publish" => request.status \notin H!Closed
  /\ hiringCall[s].op = "accept" /\ hiringCall[s].seen.status = "filled" =>
       request.status = "filled"

AloneInv ==
  /\ \A s, t \in Sessions :
       hiringCall[s].at = "read" /\ hiringCall[t].at = "read" =>
         s = t \/ {hiringCall[s].op, hiringCall[t].op} \subseteq H!OnOffers
  /\ \A s \in Sessions : Agrees(s)

HiringInv ==
  /\ H!TypeOK
  /\ ConsumeInv
  /\ \A s \in Sessions : ReadHolds(s)
  /\ HeldInv
  /\ employees = Cardinality(Accepted)
  /\ OneCall => AloneInv

-----------------------------------------------------------------------------
(* Recruitment: calls, statuses and offers                                 *)

LEMMA HiringNumbers ==
  ASSUME HiringWaits
  PROVE  MaxAttempts \in Nat /\ MaxChanges \in Nat /\ MaxOffers \in Nat
BY DEF HiringWaits, H!HiringAssumption

\* A request is never moved to something that is no status.
LEMMA TransitionsType ==
  ASSUME NEW status \in H!Statuses
  PROVE  H!Transitions(status) \cup {status} \subseteq H!Statuses
BY DEF H!Statuses, H!Transitions, H!Closed

LEMMA AcceptedType ==
  ASSUME HiringWaits, H!TypeOK
  PROVE  /\ IsFiniteSet(Accepted) /\ Cardinality(Accepted) \in 0..MaxOffers
         /\ DOMAIN offers = 1..Len(offers) /\ Len(offers) \in Nat
<1>1. /\ DOMAIN offers = 1..Len(offers) /\ Len(offers) \in Nat /\ Len(offers) <= MaxOffers
      /\ MaxOffers \in Nat
  BY HiringNumbers DEF H!TypeOK
<1> DEFINE last == Len(offers)
<1> HIDE DEF last
<1>2. IsFiniteSet(1..last) /\ Cardinality(1..last) = last
  <2>1. 1 \in Int /\ last \in Int /\ last \in Nat
    BY <1>1 DEF last
  <2>2. IsFiniteSet(1..last) /\ Cardinality(1..last) = IF 1 > last THEN 0 ELSE last - 1 + 1
    BY <2>1, FS_Interval
  <2> QED BY <2>1, <2>2
<1>3. Accepted \subseteq 1..last
  BY <1>1 DEF Accepted, last
<1>4. IsFiniteSet(Accepted) /\ Cardinality(Accepted) <= last
  BY <1>2, <1>3, FS_Subset
<1>5. Cardinality(Accepted) \in Nat
  BY <1>4, FS_CardinalityType
<1> QED BY <1>1, <1>4, <1>5 DEF last

\* A call keeps its promise while nothing it relies on moves.
LEMMA StillHolds ==
  ASSUME HiringInv, NEW t \in Sessions, hiringCall'[t] = hiringCall[t],
         hiringCall[t].op = "accept" =>
           LET i == hiringCall[t].offer IN
             offers[i].status = "sent" /\ i \in DOMAIN offers =>
               i \in DOMAIN offers' /\ offers'[i].status = "sent"
  PROVE  ReadHolds(t)'
<1>1. ReadHolds(t)
  BY DEF HiringInv
<1> QED BY <1>1 DEF ReadHolds, H!Doing

\* Changes of a call that are a session's own.
Moves(s, work) ==
  /\ hiringCall' \in [Sessions -> H!Calls]
  /\ hiringCall'[s] = work
  /\ \A t \in Sessions \ {s} : hiringCall'[t] = hiringCall[t]

LEMMA CallMoves ==
  ASSUME HiringInv, NEW s \in Sessions, NEW work \in H!Calls,
         hiringCall' = [hiringCall EXCEPT ![s] = work]
  PROVE  Moves(s, work)
BY DEF HiringInv, H!TypeOK, Moves

LEMMA IdleType ==
  ASSUME HiringWaits
  PROVE  H!Idle \in H!Calls /\ H!Idle.op = "none" /\ H!Idle.at = "idle"
         /\ H!Idle.attempt = 0 /\ H!Idle.offer = 0
BY HiringNumbers DEF H!Idle, H!Calls, H!Requests, H!Statuses, H!PositionStatuses

\* A call that does not overlap those it would disturb still agrees with the
\* request it read, while a step changes another call only.
LEMMA AloneStays ==
  ASSUME HiringInv, OneCall, NEW s \in Sessions, NEW work, Moves(s, work), Agrees(s)',
         work.at = "read" =>
           \A t \in Sessions : hiringCall[t].at = "read" =>
             {work.op, hiringCall[t].op} \subseteq H!OnOffers,
         \/ request'.status = request.status
         \/ hiringCall[s].at = "read" /\ hiringCall[s].op \notin H!OnOffers
         \/ hiringCall[s].at = "read" /\ request'.status = "filled"
  PROVE  AloneInv'
<1>1. AloneInv /\ \A t \in Sessions : ReadHolds(t)
  BY DEF HiringInv
<1>2. \A t, u \in Sessions :
        hiringCall'[t].at = "read" /\ hiringCall'[u].at = "read" =>
          t = u \/ {hiringCall'[t].op, hiringCall'[u].op} \subseteq H!OnOffers
  <2> SUFFICES ASSUME NEW t \in Sessions, NEW u \in Sessions, t # u,
                      hiringCall'[t].at = "read", hiringCall'[u].at = "read"
               PROVE  {hiringCall'[t].op, hiringCall'[u].op} \subseteq H!OnOffers
    OBVIOUS
  <2>1. CASE t = s
    BY <2>1 DEF Moves
  <2>2. CASE u = s
    BY <2>2 DEF Moves
  <2>3. CASE t # s /\ u # s
    BY <1>1, <2>3 DEF AloneInv, Moves
  <2> QED BY <2>1, <2>2, <2>3
<1>3. ASSUME NEW t \in Sessions \ {s} PROVE Agrees(t)'
  <2>1. Agrees(t) /\ ReadHolds(t) /\ hiringCall'[t] = hiringCall[t]
    BY <1>1 DEF AloneInv, Moves
  <2>2. CASE request'.status = request.status
    BY <2>1, <2>2 DEF Agrees, H!Doing
  <2>3. CASE hiringCall[s].at = "read" /\ hiringCall[s].op \notin H!OnOffers
    <3>1. hiringCall[t].at # "read"
      BY <1>1, <2>3 DEF AloneInv
    <3> QED BY <2>1, <3>1 DEF Agrees, ReadHolds, H!Doing
  <2>4. CASE hiringCall[s].at = "read" /\ request'.status = "filled"
    <3>1. hiringCall[t].at = "read" => hiringCall[t].op \in H!OnOffers
      BY <1>1, <2>4 DEF AloneInv
    <3>2. ~H!Doing(t, "update", "read") /\ hiringCall[t].op # "publish"
      BY <2>1, <3>1 DEF ReadHolds, H!Doing, H!OnOffers
    <3> QED BY <2>1, <2>4, <3>2 DEF Agrees, H!Doing
  <2> QED BY <2>2, <2>3, <2>4
<1> QED BY <1>2, <1>3 DEF AloneInv

\* A call that reads holds nothing that another one holds.
LEMMA BeginReadKeeps ==
  ASSUME HiringWaits, HiringInv, NEW s \in Sessions, NEW work \in H!Calls, H!Begin(s, work),
         work.at = "read", work.op # "consume", ReadHolds(s)', Agrees(s)',
         work.op = "accept" => \A t \in Sessions : hiringCall[t].offer # work.offer,
         UNCHANGED <<request, position, posting, offers, employees, notices, changes>>
  PROVE  HiringInv'
<1>1. /\ hiringCall' = [hiringCall EXCEPT ![s] = work]
      /\ OneCall => \A t \in Sessions : hiringCall[t].at = "read" =>
           {work.op, hiringCall[t].op} \subseteq H!OnOffers
  BY DEF H!Begin, H!Apart
<1>2. Moves(s, work)
  BY <1>1, CallMoves
<1>3. H!TypeOK'
  BY <1>2 DEF HiringInv, H!TypeOK, Moves
<1>4. HeldInv' /\ ConsumeInv'
  BY <1>2 DEF HiringInv, HeldInv, ConsumeInv, Moves
<1>5. ASSUME NEW t \in Sessions PROVE ReadHolds(t)'
  BY <1>2, StillHolds DEF Moves
<1>6. Accepted' = Accepted
  BY DEF Accepted
<1>7. OneCall => AloneInv'
  BY <1>1, <1>2, AloneStays
<1> QED BY <1>3, <1>4, <1>5, <1>6, <1>7 DEF HiringInv

LEMMA BeginUpdateKeeps ==
  ASSUME HiringWaits, HiringInv, NEW s \in Sessions, NEW status \in H!Statuses,
         H!BeginUpdate(s, status)
  PROVE  HiringInv'
<1> DEFINE work == [H!Idle EXCEPT !.op = "update", !.at = "read", !.seen = request, !.to = status]
<1>1. /\ H!Begin(s, work) /\ status \in H!Transitions(request.status) \cup {request.status}
      /\ UNCHANGED <<request, position, posting, offers, employees, notices, changes>>
  BY DEF H!BeginUpdate
<1>2. /\ work \in H!Calls /\ work.op = "update" /\ work.at = "read" /\ work.attempt = 0
      /\ work.seen = request /\ work.to = status
  <2>1. request \in H!Requests
    BY DEF HiringInv, H!TypeOK
  <2> QED BY <2>1, HiringNumbers, IdleType DEF H!Idle, H!Calls
<1> HIDE DEF work
<1>3. hiringCall'[s] = work
  BY <1>1, <1>2, CallMoves DEF H!Begin, Moves
<1>4. ReadHolds(s)' /\ Agrees(s)'
  BY <1>1, <1>2, <1>3 DEF ReadHolds, Agrees, H!Doing
<1> QED BY <1>1, <1>2, <1>4, BeginReadKeeps

LEMMA BeginPublishKeeps ==
  ASSUME HiringWaits, HiringInv, NEW s \in Sessions, H!BeginPublish(s)
  PROVE  HiringInv'
<1> DEFINE work == [H!Idle EXCEPT !.op = "publish", !.at = "read"]
<1>1. /\ H!Begin(s, work) /\ request.status \notin H!Closed
      /\ UNCHANGED <<request, position, posting, offers, employees, notices, changes>>
  BY DEF H!BeginPublish
<1>2. work \in H!Calls /\ work.op = "publish" /\ work.at = "read" /\ work.attempt = 0
  BY HiringNumbers, IdleType DEF H!Idle, H!Calls
<1> HIDE DEF work
<1>3. hiringCall'[s] = work
  BY <1>1, <1>2, CallMoves DEF H!Begin, Moves
<1>4. ReadHolds(s)' /\ Agrees(s)'
  BY <1>1, <1>2, <1>3 DEF ReadHolds, Agrees, H!Doing
<1> QED BY <1>1, <1>2, <1>4, BeginReadKeeps

LEMMA BeginOfferKeeps ==
  ASSUME HiringWaits, HiringInv, NEW s \in Sessions, NEW application \in Applications,
         H!BeginOffer(s, application)
  PROVE  HiringInv'
<1> DEFINE work == [H!Idle EXCEPT !.op = "offer", !.at = "read", !.to = application]
<1>1. /\ H!Begin(s, work)
      /\ UNCHANGED <<request, position, posting, offers, employees, notices, changes>>
  BY DEF H!BeginOffer
<1>2. /\ work \in H!Calls /\ work.op = "offer" /\ work.at = "read" /\ work.attempt = 0
      /\ work.to = application
  BY HiringNumbers, IdleType DEF H!Idle, H!Calls
<1> HIDE DEF work
<1>3. hiringCall'[s] = work
  BY <1>1, <1>2, CallMoves DEF H!Begin, Moves
<1>4. ReadHolds(s)' /\ Agrees(s)'
  BY <1>1, <1>2, <1>3 DEF ReadHolds, Agrees, H!Doing
<1> QED BY <1>1, <1>2, <1>4, BeginReadKeeps

LEMMA BeginAcceptKeeps ==
  ASSUME HiringWaits, HiringInv, NEW s \in Sessions, NEW i \in DOMAIN offers,
         H!BeginAccept(s, i)
  PROVE  HiringInv'
<1> DEFINE work == [H!Idle EXCEPT !.op = "accept", !.at = "read", !.seen = request, !.offer = i]
<1>1. /\ H!Begin(s, work) /\ offers[i].status = "sent"
      /\ \A t \in Sessions : hiringCall[t].offer # i
      /\ UNCHANGED <<request, position, posting, offers, employees, notices, changes>>
  BY DEF H!BeginAccept, H!Locked
<1>2. i \in 0..MaxOffers
  BY HiringNumbers, AcceptedType DEF HiringInv, H!TypeOK
<1>3. /\ work \in H!Calls /\ work.op = "accept" /\ work.at = "read" /\ work.attempt = 0
      /\ work.offer = i /\ work.seen = request
  <2>1. request \in H!Requests
    BY DEF HiringInv, H!TypeOK
  <2> QED BY <1>2, <2>1, HiringNumbers, IdleType DEF H!Idle, H!Calls
<1> HIDE DEF work
<1>4. hiringCall'[s] = work
  BY <1>1, <1>3, CallMoves DEF H!Begin, Moves
<1>5. ReadHolds(s)' /\ Agrees(s)'
  BY <1>1, <1>3, <1>4 DEF ReadHolds, Agrees, H!Doing
<1> QED BY <1>1, <1>3, <1>5, BeginReadKeeps

-----------------------------------------------------------------------------
(* Recruitment: a reconciliation                                           *)

\* A step of an update or a consumer after its read: the status stays.
LEMMA ReconcileKeeps ==
  ASSUME HiringWaits, HiringInv, NEW s \in Sessions, NEW work \in H!Calls,
         hiringCall' = [hiringCall EXCEPT ![s] = work],
         work.op \in {"none", "update", "consume"},
         work.op = "consume" => hiringCall[s].op = "consume",
         work.at # "read", work.at = "write" => work.to \in H!PositionStatuses,
         request' \in H!Requests, request'.status = request.status,
         position' \in H!PositionStatuses,
         posting' = posting \/ (posting = "live" /\ posting' = "down"),
         \/ notices' = notices
         \/ work = H!Idle /\ hiringCall[s].op = "consume" /\ notices' = notices - 1,
         UNCHANGED <<offers, employees, changes>>
  PROVE  HiringInv'
<1>1. Moves(s, work)
  BY CallMoves
<1>2. notices \in Nat /\ changes \in Nat /\ notices <= changes /\ changes <= MaxChanges
  BY HiringNumbers DEF HiringInv, H!TypeOK, ConsumeInv
<1>3. hiringCall[s].op = "consume" => notices > 0
  BY DEF HiringInv, ConsumeInv
<1>4. notices' \in 0..(MaxChanges + MaxOffers) /\ notices' <= changes'
  BY <1>2, <1>3, HiringNumbers
<1>5. H!TypeOK'
  <2>1. posting' \in {"none", "down", "live"}
    BY DEF HiringInv, H!TypeOK
  <2> QED BY <1>1, <1>4, <2>1 DEF HiringInv, H!TypeOK, Moves
<1>6. HeldInv' /\ (OneCall => AloneInv')
  <2>1. HeldInv'
    BY <1>1 DEF HiringInv, HeldInv, Moves
  <2>2. Agrees(s)'
    BY <1>1 DEF Agrees, H!Doing, Moves
  <2> QED BY <1>1, <2>1, <2>2, AloneStays
<1>7. ConsumeInv'
  <2>1. ASSUME NEW t \in Sessions, hiringCall'[t].op = "consume"
        PROVE  hiringCall[t].op = "consume"
    BY <1>1, <2>1 DEF Moves
  <2>2. ASSUME NEW t \in Sessions, hiringCall'[t].op = "consume" PROVE notices' > 0
    <3>1. hiringCall[t].op = "consume" /\ notices > 0
      BY <2>1, <2>2 DEF HiringInv, ConsumeInv
    <3>2. CASE notices' = notices
      BY <3>1, <3>2
    <3>3. CASE work = H!Idle /\ hiringCall[s].op = "consume"
      <4>1. t = s
        BY <3>1, <3>3 DEF HiringInv, ConsumeInv
      <4> QED BY <1>1, <2>2, <3>3, <4>1, IdleType DEF Moves
    <3> QED BY <3>2, <3>3
  <2>3. \A t, u \in Sessions :
          hiringCall'[t].op = "consume" /\ hiringCall'[u].op = "consume" => t = u
    BY <2>1 DEF HiringInv, ConsumeInv
  <2> QED BY <1>4, <2>2, <2>3 DEF ConsumeInv
<1>8. ASSUME NEW t \in Sessions PROVE ReadHolds(t)'
  <2>1. CASE t = s
    BY <1>1, <2>1, IdleType DEF Moves, ReadHolds, H!Doing
  <2>2. CASE t # s
    BY <1>1, <2>2, StillHolds DEF Moves
  <2> QED BY <2>1, <2>2
<1>9. Accepted' = Accepted
  BY DEF Accepted
<1> QED BY <1>5, <1>6, <1>7, <1>8, <1>9 DEF HiringInv

\* Whoever is past its read is an update or a consumer.
LEMMA PastItsRead ==
  ASSUME HiringWaits, HiringInv, NEW s \in Sessions, hiringCall[s].at # "read"
  PROVE  /\ hiringCall[s] \in H!Calls /\ hiringCall[s].op \in {"none", "update", "consume"}
         /\ hiringCall[s].seen \in H!Requests /\ hiringCall[s].attempt \in 0..(MaxAttempts + 1)
<1>1. hiringCall[s] \in H!Calls
  BY DEF HiringInv, H!TypeOK
<1>2. ReadHolds(s)
  BY DEF HiringInv
<1> QED BY <1>1, <1>2 DEF ReadHolds, H!Calls

LEMMA TargetType ==
  ASSUME HiringInv, NEW status \in H!Statuses
  PROVE  H!Target(status) \in H!PositionStatuses
<1>1. position \in H!PositionStatuses
  BY DEF HiringInv, H!TypeOK
<1> QED BY <1>1 DEF H!Target, H!Statuses, H!PositionStatuses

LEMMA SameRequest ==
  ASSUME HiringInv
  PROVE  /\ request \in H!Requests /\ position \in H!PositionStatuses
         /\ posting \in {"none", "down", "live"}
         /\ hiringCall \in [Sessions -> H!Calls]
BY DEF HiringInv, H!TypeOK

LEMMA ReadPositionKeeps ==
  ASSUME HiringWaits, HiringInv, NEW s \in Sessions, H!ReadPosition(s)
  PROVE  HiringInv'
<1>1. /\ hiringCall[s].at = "position"
      /\ UNCHANGED <<request, posting, offers, employees, notices, changes>>
  BY DEF H!ReadPosition
<1>2. /\ hiringCall[s] \in H!Calls /\ hiringCall[s].op \in {"none", "update", "consume"}
      /\ hiringCall[s].seen.status \in H!Statuses
  BY <1>1, PastItsRead DEF H!Requests
<1> DEFINE target == H!Target(hiringCall[s].seen.status)
<1>3. target \in H!PositionStatuses
  BY <1>2, TargetType
<1> HIDE DEF target
<1>4. CASE hiringCall[s].seen.linked
  <2> DEFINE work == [hiringCall[s] EXCEPT !.at = IF target = position THEN "again" ELSE "write",
                                           !.to = target]
  <2>1. hiringCall' = [hiringCall EXCEPT ![s] = work] /\ position' = position
    BY <1>4, SameRequest DEF H!ReadPosition, target
  <2>2. /\ work \in H!Calls /\ work.op = hiringCall[s].op /\ work.at # "read"
        /\ work.to \in H!PositionStatuses
    BY <1>2, <1>3 DEF H!Calls
  <2> HIDE DEF work
  <2> QED BY <1>1, <1>2, <2>1, <2>2, ReconcileKeeps, SameRequest
<1>5. CASE ~hiringCall[s].seen.linked /\ hiringCall[s].seen.status = "open"
  <2> DEFINE found == IF position = "absent" THEN "open" ELSE position
  <2> DEFINE work == [hiringCall[s] EXCEPT !.at = "link", !.to = found]
  <2>1. hiringCall' = [hiringCall EXCEPT ![s] = work] /\ position' = found
    BY <1>5, SameRequest DEF H!ReadPosition
  <2>2. found \in H!PositionStatuses
    BY SameRequest DEF H!PositionStatuses
  <2>3. work \in H!Calls /\ work.op = hiringCall[s].op /\ work.at = "link"
    BY <1>2, <2>2 DEF H!Calls
  <2> HIDE DEF work, found
  <2> QED BY <1>1, <1>2, <2>1, <2>2, <2>3, ReconcileKeeps, SameRequest
<1>6. CASE ~hiringCall[s].seen.linked /\ hiringCall[s].seen.status # "open"
  <2> DEFINE work == [hiringCall[s] EXCEPT !.at = "again"]
  <2>1. hiringCall' = [hiringCall EXCEPT ![s] = work] /\ position' = position
    BY <1>6, SameRequest DEF H!ReadPosition
  <2>2. work \in H!Calls /\ work.op = hiringCall[s].op /\ work.at = "again"
    BY <1>2 DEF H!Calls
  <2> HIDE DEF work
  <2> QED BY <1>1, <1>2, <2>1, <2>2, ReconcileKeeps, SameRequest
<1> QED BY <1>4, <1>5, <1>6

LEMMA LinkPositionKeeps ==
  ASSUME HiringWaits, HiringInv, NEW s \in Sessions, H!LinkPosition(s)
  PROVE  HiringInv'
<1>1. /\ hiringCall[s].at = "link"
      /\ UNCHANGED <<position, posting, offers, employees, notices, changes>>
  BY DEF H!LinkPosition
<1>2. hiringCall[s] \in H!Calls /\ hiringCall[s].op \in {"none", "update", "consume"}
  BY <1>1, PastItsRead
<1>3. CASE request = [status |-> "open", linked |-> FALSE]
  <2> DEFINE work == [hiringCall[s] EXCEPT
                        !.at = IF hiringCall[s].to = "open" THEN "again" ELSE "write",
                        !.to = "open", !.wrote = TRUE]
  <2>1. hiringCall' = [hiringCall EXCEPT ![s] = work] /\ request' = [request EXCEPT !.linked = TRUE]
    BY <1>3, SameRequest DEF H!LinkPosition
  <2>2. /\ work \in H!Calls /\ work.op = hiringCall[s].op /\ work.at # "read"
        /\ work.to \in H!PositionStatuses
    BY <1>2 DEF H!Calls, H!PositionStatuses
  <2>3. request' \in H!Requests /\ request'.status = request.status
    BY <2>1, SameRequest DEF H!Requests
  <2> HIDE DEF work
  <2> QED BY <1>1, <1>2, <2>1, <2>2, <2>3, ReconcileKeeps, SameRequest
<1>4. CASE request # [status |-> "open", linked |-> FALSE]
  <2> DEFINE work == [hiringCall[s] EXCEPT !.at = "again"]
  <2>1. hiringCall' = [hiringCall EXCEPT ![s] = work] /\ request' = request
    BY <1>4, SameRequest DEF H!LinkPosition
  <2>2. work \in H!Calls /\ work.op = hiringCall[s].op /\ work.at = "again"
    BY <1>2 DEF H!Calls
  <2> HIDE DEF work
  <2> QED BY <1>1, <1>2, <2>1, <2>2, ReconcileKeeps, SameRequest
<1> QED BY <1>3, <1>4

LEMMA SetPositionKeeps ==
  ASSUME HiringWaits, HiringInv, NEW s \in Sessions, H!SetPosition(s)
  PROVE  HiringInv'
<1>1. /\ hiringCall[s].at = "write" /\ position' = hiringCall[s].to
      /\ UNCHANGED <<request, posting, offers, employees, notices, changes>>
  BY DEF H!SetPosition
<1>2. hiringCall[s] \in H!Calls /\ hiringCall[s].op \in {"none", "update", "consume"}
  BY <1>1, PastItsRead
<1>3. position' \in H!PositionStatuses
  BY <1>1 DEF HiringInv, ReadHolds
<1> DEFINE work == [hiringCall[s] EXCEPT !.at = "again", !.wrote = TRUE]
<1>4. hiringCall' = [hiringCall EXCEPT ![s] = work]
  BY SameRequest DEF H!SetPosition
<1>5. work \in H!Calls /\ work.op = hiringCall[s].op /\ work.at = "again"
  BY <1>2 DEF H!Calls
<1> HIDE DEF work
<1> QED BY <1>1, <1>2, <1>3, <1>4, <1>5, ReconcileKeeps, SameRequest

\* Reconciling starts again with the request as it is.
LEMMA ReconcilingType ==
  ASSUME HiringWaits, HiringInv, NEW work \in H!Calls, work.attempt <= MaxAttempts,
         NEW seen \in H!Requests
  PROVE  /\ H!Reconciling(work, seen) \in H!Calls
         /\ H!Reconciling(work, seen).op = work.op
         /\ H!Reconciling(work, seen).at = "position"
<1>1. work.attempt + 1 \in 0..(MaxAttempts + 1)
  BY HiringNumbers DEF H!Calls
<1> QED BY <1>1 DEF H!Reconciling, H!Calls, H!PositionStatuses

LEMMA CheckAgainKeeps ==
  ASSUME HiringWaits, HiringInv, NEW s \in Sessions, H!CheckAgain(s)
  PROVE  HiringInv'
<1>1. /\ hiringCall[s].at = "again"
      /\ UNCHANGED <<request, position, posting, offers, employees, changes>>
  BY DEF H!CheckAgain
<1>2. /\ hiringCall[s] \in H!Calls /\ hiringCall[s].op \in {"none", "update", "consume"}
      /\ hiringCall[s].attempt \in 0..(MaxAttempts + 1)
  BY <1>1, PastItsRead
<1>3. CASE hiringCall[s].attempt > MaxAttempts \/ request.status = hiringCall[s].seen.status
  <2>1. H!Finish(s, hiringCall[s].seen.status)
    BY <1>3 DEF H!CheckAgain
  <2>2. CASE hiringCall[s].seen.status \in H!Closed \cup {"onHold"}
    <3> DEFINE work == [hiringCall[s] EXCEPT !.at = "unpublish"]
    <3>1. hiringCall' = [hiringCall EXCEPT ![s] = work] /\ notices' = notices
      BY <2>1, <2>2, SameRequest DEF H!Finish
    <3>2. work \in H!Calls /\ work.op = hiringCall[s].op /\ work.at = "unpublish"
      BY <1>2 DEF H!Calls
    <3> HIDE DEF work
    <3> QED BY <1>1, <1>2, <3>1, <3>2, ReconcileKeeps, SameRequest
  <2>3. CASE hiringCall[s].seen.status \notin H!Closed \cup {"onHold"}
    <3>1. /\ hiringCall' = [hiringCall EXCEPT ![s] = H!Idle]
          /\ notices' = IF hiringCall[s].op = "consume" THEN notices - 1 ELSE notices
      BY <2>1, <2>3 DEF H!Finish, H!End
    <3> QED BY <1>1, <3>1, ReconcileKeeps, SameRequest, IdleType
  <2> QED BY <2>2, <2>3
<1>4. CASE ~(hiringCall[s].attempt > MaxAttempts \/ request.status = hiringCall[s].seen.status)
  <2> DEFINE work == H!Reconciling(hiringCall[s], request)
  <2>1. hiringCall' = [hiringCall EXCEPT ![s] = work] /\ notices' = notices
    BY <1>4 DEF H!CheckAgain
  <2>2. hiringCall[s].attempt <= MaxAttempts
    BY <1>2, <1>4, HiringNumbers
  <2>3. work \in H!Calls /\ work.op = hiringCall[s].op /\ work.at = "position"
    BY <1>2, <2>2, ReconcilingType, SameRequest
  <2> HIDE DEF work
  <2> QED BY <1>1, <1>2, <2>1, <2>3, ReconcileKeeps, SameRequest
<1> QED BY <1>3, <1>4

LEMMA UnpublishForRequestKeeps ==
  ASSUME HiringWaits, HiringInv, NEW s \in Sessions, H!UnpublishForRequest(s)
  PROVE  HiringInv'
<1>1. /\ hiringCall' = [hiringCall EXCEPT ![s] = H!Idle]
      /\ notices' = IF hiringCall[s].op = "consume" THEN notices - 1 ELSE notices
      /\ posting' = IF posting = "live" THEN "down" ELSE posting
      /\ UNCHANGED <<request, position, offers, employees, changes>>
  BY DEF H!UnpublishForRequest, H!End
<1> QED BY <1>1, ReconcileKeeps, SameRequest, IdleType

LEMMA DieKeeps ==
  ASSUME HiringWaits, HiringInv, NEW s \in Sessions, H!Die(s)
  PROVE  HiringInv'
<1>1. /\ hiringCall' = [hiringCall EXCEPT ![s] = H!Idle]
      /\ UNCHANGED <<request, position, posting, offers, employees, notices, changes>>
  BY DEF H!Die, H!End
<1> QED BY <1>1, ReconcileKeeps, SameRequest, IdleType

LEMMA BeginConsumeKeeps ==
  ASSUME HiringWaits, HiringInv, NEW s \in Sessions, H!BeginConsume(s)
  PROVE  HiringInv'
<1> DEFINE start == [H!Idle EXCEPT !.op = "consume"]
<1> DEFINE work == H!Reconciling(start, request)
<1>1. /\ hiringCall' = [hiringCall EXCEPT ![s] = work] /\ notices > 0
      /\ \A t \in Sessions : hiringCall[t].op # "consume"
      /\ UNCHANGED <<request, position, posting, offers, employees, notices, changes>>
  BY DEF H!BeginConsume
<1>2. start \in H!Calls /\ start.op = "consume" /\ start.attempt = 0
  BY IdleType, HiringNumbers DEF H!Calls
<1>3. start.attempt <= MaxAttempts
  BY <1>2, HiringNumbers
<1> HIDE DEF start
<1>4. work \in H!Calls /\ work.op = "consume" /\ work.at = "position"
  BY <1>2, <1>3, ReconcilingType, SameRequest
<1> HIDE DEF work
<1>5. Moves(s, work)
  BY <1>1, <1>4, CallMoves
<1>6. H!TypeOK'
  BY <1>1, <1>5 DEF HiringInv, H!TypeOK, Moves
<1>7. HeldInv' /\ ConsumeInv' /\ (OneCall => AloneInv')
  <2>1. HeldInv' /\ ConsumeInv'
    BY <1>1, <1>4, <1>5 DEF HiringInv, HeldInv, ConsumeInv, Moves
  <2>2. Agrees(s)'
    BY <1>4, <1>5 DEF Agrees, H!Doing, Moves
  <2> QED BY <1>1, <1>4, <1>5, <2>1, <2>2, AloneStays
<1>8. ASSUME NEW t \in Sessions PROVE ReadHolds(t)'
  <2>1. CASE t = s
    BY <1>4, <1>5, <2>1 DEF Moves, ReadHolds, H!Doing
  <2>2. CASE t # s
    BY <1>1, <1>5, <2>2, StillHolds DEF Moves
  <2> QED BY <2>1, <2>2
<1>9. Accepted' = Accepted
  BY <1>1 DEF Accepted
<1> QED BY <1>1, <1>6, <1>7, <1>8, <1>9 DEF HiringInv

-----------------------------------------------------------------------------
(* Recruitment: what is committed                                          *)

\* What one call commits leaves the offers other acceptances hold.
LEMMA OthersStay ==
  ASSUME HiringInv, NEW s \in Sessions, NEW work \in H!Calls, hiringCall[s].at = "read",
         hiringCall' = [hiringCall EXCEPT ![s] = work],
         work.at # "read", work.at # "write",
         work.op \in {"none", hiringCall[s].op}, work.op \notin {"accept", "publish", "offer"},
         \A i \in DOMAIN offers :
           offers[i].status = "sent" /\ ~(hiringCall[s].op = "accept" /\ hiringCall[s].offer = i) =>
             i \in DOMAIN offers' /\ offers'[i].status = "sent",
         hiringCall[s].op \in H!OnOffers => request'.status \in {request.status, "filled"}
  PROVE  /\ Moves(s, work) /\ HeldInv' /\ (\A t \in Sessions : ReadHolds(t)')
         /\ OneCall => AloneInv'
         /\ \A t, u \in Sessions :
              hiringCall'[t].op = "consume" /\ hiringCall'[u].op = "consume" => t = u
         /\ \A t \in Sessions : hiringCall'[t].op = "consume" => notices > 0
<1>1. Moves(s, work)
  BY CallMoves
<1>2. HeldInv /\ HeldInv'
  BY <1>1 DEF HiringInv, HeldInv, Moves
<1>3. ASSUME NEW t \in Sessions PROVE ReadHolds(t)'
  <2>1. CASE t = s
    BY <1>1, <2>1 DEF Moves, ReadHolds, H!Doing
  <2>2. CASE t # s
    BY <1>1, <1>2, <2>2, StillHolds DEF Moves, HeldInv
  <2> QED BY <2>1, <2>2
<1>4. Agrees(s)'
  BY <1>1 DEF Agrees, H!Doing, Moves
<1>5. OneCall => AloneInv'
  BY <1>1, <1>4, AloneStays
<1>6. \A t \in Sessions : hiringCall'[t].op = "consume" => hiringCall[t].op = "consume"
  BY <1>1 DEF Moves
<1> QED BY <1>1, <1>2, <1>3, <1>5, <1>6 DEF HiringInv, ConsumeInv

LEMMA CommitUpdateKeeps ==
  ASSUME HiringWaits, HiringInv, NEW s \in Sessions, H!CommitUpdate(s)
  PROVE  HiringInv'
<1> DEFINE seen == hiringCall[s].seen
<1> DEFINE status == hiringCall[s].to
<1>1. /\ hiringCall[s].op = "update" /\ hiringCall[s].at = "read"
      /\ H!SaveStatus(seen, status)
      /\ UNCHANGED <<position, posting, offers, employees>>
  BY DEF H!CommitUpdate, H!Doing
<1>2. /\ seen \in H!Requests /\ hiringCall[s] \in H!Calls /\ hiringCall[s].attempt = 0
      /\ status \in H!Statuses
  <2>1. hiringCall[s] \in H!Calls
    BY SameRequest
  <2> QED BY <1>1, <2>1 DEF HiringInv, ReadHolds, H!Doing, H!Calls
<1>4. request' \in H!Requests /\ request'.status = status
  BY <1>1, <1>2 DEF H!SaveStatus, H!Requests
<1> DEFINE work == H!Reconciling(hiringCall[s], request')
<1>5. hiringCall' = [hiringCall EXCEPT ![s] = work]
  BY DEF H!CommitUpdate
<1>6. work \in H!Calls /\ work.op = "update" /\ work.at = "position"
  <2> DEFINE after == request'
  <2>1. after \in H!Requests /\ hiringCall[s].attempt <= MaxAttempts
    BY <1>2, <1>4, HiringNumbers
  <2> HIDE DEF after
  <2>2. /\ H!Reconciling(hiringCall[s], after) \in H!Calls
        /\ H!Reconciling(hiringCall[s], after).op = "update"
        /\ H!Reconciling(hiringCall[s], after).at = "position"
    BY <1>1, <1>2, <2>1, ReconcilingType
  <2> QED BY <2>2 DEF after
<1> HIDE DEF work
<1>7. /\ Moves(s, work) /\ HeldInv' /\ (\A t \in Sessions : ReadHolds(t)')
      /\ OneCall => AloneInv'
      /\ \A t, u \in Sessions :
           hiringCall'[t].op = "consume" /\ hiringCall'[u].op = "consume" => t = u
      /\ \A t \in Sessions : hiringCall'[t].op = "consume" => notices > 0
  BY <1>1, <1>5, <1>6, OthersStay DEF H!OnOffers
<1>8. /\ notices \in Nat /\ changes \in Nat /\ notices <= changes /\ changes <= MaxChanges
  BY HiringNumbers DEF HiringInv, H!TypeOK, ConsumeInv
<1>9. /\ notices' \in 0..(MaxChanges + MaxOffers) /\ changes' \in 0..MaxChanges
      /\ notices' <= changes' /\ notices' >= notices
  BY <1>1, <1>8, HiringNumbers DEF H!SaveStatus
<1>10. H!TypeOK'
  BY <1>1, <1>4, <1>7, <1>9 DEF HiringInv, H!TypeOK, Moves
<1>11. ConsumeInv'
  BY <1>7, <1>8, <1>9 DEF ConsumeInv
<1>12. Accepted' = Accepted
  BY <1>1 DEF Accepted
<1> QED BY <1>1, <1>7, <1>10, <1>11, <1>12 DEF HiringInv

LEMMA PublishPostingKeeps ==
  ASSUME HiringWaits, HiringInv, NEW s \in Sessions, H!PublishPosting(s)
  PROVE  HiringInv'
<1>1. /\ hiringCall[s].op = "publish" /\ hiringCall[s].at = "read" /\ posting' = "live"
      /\ hiringCall' = [hiringCall EXCEPT ![s] = H!Idle]
      /\ UNCHANGED <<request, position, offers, employees, notices, changes>>
  BY DEF H!PublishPosting, H!Doing, H!End
<1>3. /\ Moves(s, H!Idle) /\ HeldInv' /\ (\A t \in Sessions : ReadHolds(t)')
      /\ OneCall => AloneInv'
      /\ \A t, u \in Sessions :
           hiringCall'[t].op = "consume" /\ hiringCall'[u].op = "consume" => t = u
      /\ \A t \in Sessions : hiringCall'[t].op = "consume" => notices > 0
  BY <1>1, IdleType, OthersStay
<1>4. H!TypeOK'
  BY <1>1, <1>3 DEF HiringInv, H!TypeOK, Moves
<1>5. ConsumeInv'
  BY <1>1, <1>3 DEF HiringInv, ConsumeInv
<1>6. Accepted' = Accepted
  BY <1>1 DEF Accepted
<1> QED BY <1>1, <1>3, <1>4, <1>5, <1>6 DEF HiringInv

LEMMA CreateOfferKeeps ==
  ASSUME HiringWaits, HiringInv, NEW s \in Sessions, H!CreateOffer(s)
  PROVE  HiringInv'
<1> DEFINE offer == [application |-> hiringCall[s].to, status |-> "draft"]
<1>1. /\ hiringCall[s].op = "offer" /\ hiringCall[s].at = "read" /\ Len(offers) < MaxOffers
      /\ offers' = Append(offers, offer)
      /\ hiringCall' = [hiringCall EXCEPT ![s] = H!Idle]
      /\ UNCHANGED <<request, position, posting, employees, notices, changes>>
  BY DEF H!CreateOffer, H!Doing, H!End
<1>2. offer \in H!Offers /\ offer.status = "draft"
  BY <1>1 DEF HiringInv, ReadHolds, H!Offers, H!OfferStatuses
<1> HIDE DEF offer
<1>3. /\ offers \in Seq(H!Offers) /\ Len(offers) \in Nat
  BY DEF HiringInv, H!TypeOK
<1>4. /\ offers' \in Seq(H!Offers) /\ Len(offers') = Len(offers) + 1
      /\ DOMAIN offers = 1..Len(offers) /\ DOMAIN offers' = 1..(Len(offers) + 1)
      /\ offers'[Len(offers) + 1] = offer
      /\ \A i \in DOMAIN offers : offers'[i] = offers[i]
  BY <1>1, <1>2, <1>3
<1>5. \A i \in DOMAIN offers : i \in DOMAIN offers' /\ offers'[i] = offers[i]
  BY <1>3, <1>4
<1>6. /\ Moves(s, H!Idle) /\ HeldInv' /\ (\A t \in Sessions : ReadHolds(t)')
      /\ OneCall => AloneInv'
      /\ \A t, u \in Sessions :
           hiringCall'[t].op = "consume" /\ hiringCall'[u].op = "consume" => t = u
      /\ \A t \in Sessions : hiringCall'[t].op = "consume" => notices > 0
  BY <1>1, <1>5, IdleType, OthersStay
<1>7. H!TypeOK'
  <2>1. Len(offers') <= MaxOffers
    BY <1>1, <1>3, <1>4, HiringNumbers
  <2> QED BY <1>1, <1>4, <1>6, <2>1 DEF HiringInv, H!TypeOK, Moves
<1>8. ConsumeInv'
  BY <1>1, <1>6 DEF HiringInv, ConsumeInv
<1>9. Accepted' = Accepted
  <2>1. ASSUME NEW i \in DOMAIN offers' PROVE i \in DOMAIN offers \/ i = Len(offers) + 1
    BY <1>3, <1>4, <2>1
  <2>2. DOMAIN offers \subseteq DOMAIN offers'
    BY <1>3, <1>4
  <2> QED BY <1>2, <1>4, <2>1, <2>2 DEF Accepted
<1> QED BY <1>1, <1>6, <1>7, <1>8, <1>9 DEF HiringInv

\* An offer changes its status, the others stay.
LEMMA OfferChanges ==
  ASSUME HiringInv, NEW i \in DOMAIN offers, NEW status \in H!OfferStatuses,
         offers' = [offers EXCEPT ![i].status = status]
  PROVE  /\ offers' \in Seq(H!Offers) /\ Len(offers') = Len(offers)
         /\ DOMAIN offers' = DOMAIN offers /\ offers'[i].status = status
         /\ \A j \in DOMAIN offers \ {i} : offers'[j] = offers[j]
<1>1. offers \in Seq(H!Offers) /\ offers[i] \in H!Offers
  BY DEF HiringInv, H!TypeOK
<1> DEFINE changed == [offers[i] EXCEPT !.status = status]
<1>2. changed \in H!Offers /\ changed.status = status
  BY <1>1 DEF H!Offers
<1>3. offers' = [offers EXCEPT ![i] = changed]
  BY <1>1
<1> HIDE DEF changed
<1>4. i \in 1..Len(offers)
  BY <1>1
<1>5. /\ [offers EXCEPT ![i] = changed] \in Seq(H!Offers)
      /\ Len([offers EXCEPT ![i] = changed]) = Len(offers)
      /\ \A j \in 1..Len(offers) :
           [offers EXCEPT ![i] = changed][j] = IF j = i THEN changed ELSE offers[j]
  BY <1>1, <1>2, <1>4, ExceptSeq
<1> QED BY <1>1, <1>2, <1>3, <1>4, <1>5

LEMMA AcceptOfferKeeps ==
  ASSUME HiringWaits, HiringInv, NEW s \in Sessions, H!AcceptOffer(s)
  PROVE  HiringInv'
<1> DEFINE i == hiringCall[s].offer
<1>1. /\ hiringCall[s].op = "accept" /\ hiringCall[s].at = "read"
      /\ employees' = employees + 1 /\ offers' = [offers EXCEPT ![i].status = "accepted"]
      /\ posting' = "down" /\ position' = "filled"
      /\ request' = [status |-> "filled", linked |-> TRUE]
      /\ hiringCall' = [hiringCall EXCEPT ![s] = H!Idle]
      /\ \/ UNCHANGED <<notices, changes>>
         \/ changes < MaxChanges /\ notices' = notices + 1 /\ changes' = changes + 1
  BY DEF H!AcceptOffer, H!Doing, H!End
<1>2. i \in DOMAIN offers /\ offers[i].status = "sent"
  BY <1>1 DEF HiringInv, ReadHolds
<1>3. notices \in Nat /\ changes \in Nat /\ notices <= changes /\ changes <= MaxChanges
  BY HiringNumbers DEF HiringInv, H!TypeOK, ConsumeInv
<1>4. /\ notices' \in 0..(MaxChanges + MaxOffers) /\ changes' \in 0..MaxChanges
      /\ notices' <= changes' /\ notices' >= notices
  BY <1>1, <1>3, HiringNumbers
<1>5. /\ offers' \in Seq(H!Offers) /\ Len(offers') = Len(offers)
      /\ DOMAIN offers' = DOMAIN offers /\ offers'[i].status = "accepted"
      /\ \A j \in DOMAIN offers \ {i} : offers'[j] = offers[j]
  BY <1>1, <1>2, OfferChanges DEF H!OfferStatuses
<1>6. /\ Moves(s, H!Idle) /\ HeldInv' /\ (\A t \in Sessions : ReadHolds(t)')
      /\ OneCall => AloneInv'
      /\ \A t, u \in Sessions :
           hiringCall'[t].op = "consume" /\ hiringCall'[u].op = "consume" => t = u
      /\ \A t \in Sessions : hiringCall'[t].op = "consume" => notices > 0
  BY <1>1, <1>2, <1>5, IdleType, OthersStay
<1> HIDE DEF i
<1>7. Accepted' = Accepted \cup {i} /\ i \notin Accepted
  BY <1>2, <1>5 DEF Accepted
<1>8. Cardinality(Accepted') = Cardinality(Accepted) + 1
  <2>1. IsFiniteSet(Accepted)
    BY AcceptedType DEF HiringInv
  <2> QED BY <1>7, <2>1, FS_AddElement
<1>9. employees' = Cardinality(Accepted')
  BY <1>1, <1>8 DEF HiringInv
<1>10. employees' \in 0..MaxOffers
  <2>1. /\ DOMAIN offers' = 1..Len(offers) /\ Len(offers) \in Nat /\ Len(offers) <= MaxOffers
    BY <1>5, AcceptedType DEF HiringInv, H!TypeOK
  <2> DEFINE last == Len(offers)
  <2> HIDE DEF last
  <2>2. IsFiniteSet(1..last) /\ Cardinality(1..last) = last
    <3>1. 1 \in Int /\ last \in Int /\ last \in Nat
      BY <2>1 DEF last
    <3>2. IsFiniteSet(1..last) /\ Cardinality(1..last) = IF 1 > last THEN 0 ELSE last - 1 + 1
      BY <3>1, FS_Interval
    <3> QED BY <3>1, <3>2
  <2> DEFINE after == Accepted'
  <2>3. after \subseteq 1..last
    BY <2>1 DEF Accepted, last
  <2> HIDE DEF after
  <2>4. IsFiniteSet(after) /\ Cardinality(after) <= last
    BY <2>2, <2>3, FS_Subset
  <2>5. Cardinality(after) \in Nat
    BY <2>4, FS_CardinalityType
  <2> QED BY <1>9, <2>1, <2>4, <2>5, HiringNumbers DEF after, last
<1>11. H!TypeOK'
  <2>1. request' \in H!Requests /\ position' \in H!PositionStatuses
    BY <1>1 DEF H!Requests, H!Statuses, H!PositionStatuses
  <2>2. offers' \in Seq(H!Offers) /\ Len(offers') <= MaxOffers
    BY <1>5 DEF HiringInv, H!TypeOK
  <2> QED BY <1>1, <1>4, <1>6, <1>10, <2>1, <2>2 DEF H!TypeOK, Moves
<1>12. ConsumeInv'
  BY <1>3, <1>4, <1>6 DEF ConsumeInv
<1> QED BY <1>6, <1>9, <1>11, <1>12 DEF HiringInv

LEMMA UnpublishPostingKeeps == ASSUME HiringWaits, HiringInv, H!UnpublishPosting PROVE HiringInv'
<1>1. /\ posting' = "down" 
      /\ UNCHANGED <<request, position, offers, employees, notices, changes, hiringCall>>
  BY DEF H!UnpublishPosting
<1>2. H!TypeOK'
  BY <1>1 DEF HiringInv, H!TypeOK
<1>3. HeldInv' /\ ConsumeInv' /\ (OneCall => AloneInv')
  BY <1>1 DEF HiringInv, HeldInv, ConsumeInv, AloneInv, Agrees, H!Doing
<1>4. ASSUME NEW t \in Sessions PROVE ReadHolds(t)'
  BY <1>1, StillHolds
<1>5. Accepted' = Accepted
  BY <1>1 DEF Accepted
<1> QED BY <1>1, <1>2, <1>3, <1>4, <1>5 DEF HiringInv

\* Sending, withdrawing and declining leave alone the offer that is being accepted.
LEMMA AnswerKeeps ==
  ASSUME HiringWaits, HiringInv, NEW i \in DOMAIN offers, NEW from, NEW status,
         H!Answer(i, from, status), "accepted" \notin from,
         status \in H!OfferStatuses \ {"accepted"}
  PROVE  HiringInv'
<1>1. /\ offers[i].status # "accepted" /\ offers' = [offers EXCEPT ![i].status = status]
      /\ \A s \in Sessions : hiringCall[s].offer # i
      /\ UNCHANGED <<request, position, posting, employees, notices, changes, hiringCall>>
  BY DEF H!Answer, H!Locked
<1>2. /\ offers' \in Seq(H!Offers) /\ Len(offers') = Len(offers)
      /\ DOMAIN offers' = DOMAIN offers /\ offers'[i].status = status
      /\ \A j \in DOMAIN offers \ {i} : offers'[j] = offers[j]
  BY <1>1, OfferChanges
<1>3. H!TypeOK'
  BY <1>1, <1>2 DEF HiringInv, H!TypeOK
<1>4. HeldInv' /\ ConsumeInv' /\ (OneCall => AloneInv')
  BY <1>1 DEF HiringInv, HeldInv, ConsumeInv, AloneInv, Agrees, H!Doing
<1>5. ASSUME NEW t \in Sessions PROVE ReadHolds(t)'
  <2>1. ReadHolds(t)
    BY DEF HiringInv
  <2> QED BY <1>1, <1>2, <2>1 DEF ReadHolds, H!Doing
<1>6. Accepted' = Accepted
  BY <1>1, <1>2 DEF Accepted
<1> QED BY <1>1, <1>3, <1>4, <1>5, <1>6 DEF HiringInv

LEMMA HiringInitHolds == ASSUME HiringWaits, H!Init PROVE HiringInv
<1>1. \A s \in Sessions : hiringCall[s] = H!Idle
  BY DEF H!Init
<1>2. H!TypeOK
  <2>1. offers \in Seq(H!Offers) /\ Len(offers) = 0
    BY DEF H!Init
  <2>2. request \in H!Requests /\ position \in H!PositionStatuses
    BY DEF H!Init, H!Requests, H!Statuses, H!PositionStatuses, HiringWaits, H!HiringAssumption
  <2>3. 0 \in 0..MaxOffers /\ 0 \in 0..(MaxChanges + MaxOffers) /\ 0 \in 0..MaxChanges
    BY HiringNumbers
  <2>4. hiringCall \in [Sessions -> H!Calls]
    BY IdleType DEF H!Init
  <2> QED BY <2>1, <2>2, <2>3, <2>4, HiringNumbers DEF H!Init, H!TypeOK
<1>3. HeldInv /\ ConsumeInv /\ AloneInv
  BY <1>1, IdleType DEF HeldInv, ConsumeInv, AloneInv, Agrees, H!Doing, H!Init
<1>4. \A s \in Sessions : ReadHolds(s)
  BY <1>1, IdleType DEF ReadHolds, H!Doing
<1>5. Accepted = {} /\ employees = Cardinality(Accepted)
  <2>1. Accepted = {}
    BY DEF Accepted, H!Init
  <2>2. Cardinality({}) = 0
    BY FS_EmptySet
  <2> QED BY <2>1, <2>2 DEF H!Init
<1> QED BY <1>2, <1>3, <1>4, <1>5 DEF HiringInv

LEMMA HiringStepKeeps == ASSUME HiringWaits, HiringInv, [H!Next]_H!vars PROVE HiringInv'
<1>1. ASSUME NEW s \in Sessions, H!Step(s) PROVE HiringInv'
  BY <1>1, BeginUpdateKeeps, CommitUpdateKeeps, BeginConsumeKeeps, ReadPositionKeeps,
     LinkPositionKeeps, SetPositionKeeps, CheckAgainKeeps, UnpublishForRequestKeeps,
     BeginPublishKeeps, PublishPostingKeeps, BeginOfferKeeps, CreateOfferKeeps,
     BeginAcceptKeeps, AcceptOfferKeeps, DieKeeps DEF H!Step
<1>2. ASSUME NEW i \in DOMAIN offers, H!SendOffer(i) \/ H!WithdrawOffer(i) \/ H!DeclineOffer(i)
      PROVE  HiringInv'
  BY <1>2, AnswerKeeps
     DEF H!SendOffer, H!WithdrawOffer, H!DeclineOffer, H!Pending, H!OfferStatuses
<1>3. ASSUME UNCHANGED H!vars PROVE HiringInv'
  BY <1>3 DEF H!vars, HiringInv, H!TypeOK, HeldInv, ConsumeInv, AloneInv,
                  Agrees, ReadHolds, H!Doing, Accepted
<1> QED BY <1>1, <1>2, <1>3, UnpublishPostingKeeps DEF H!Next

LEMMA HiringInvariance == ASSUME HiringWaits PROVE H!Spec => []HiringInv
<1>1. H!Init => HiringInv
  BY HiringInitHolds
<1>2. HiringInv /\ [H!Next]_H!vars => HiringInv'
  BY HiringStepKeeps
<1> QED BY <1>1, <1>2, PTL DEF H!Spec

LEMMA HiringMeans == HiringInv => H!TypeOK /\ H!HiresAreAcceptances
<1>1. ASSUME HiringInv PROVE H!HiresAreAcceptances
  <2>1. H!Cardinality(Accepted) = Cardinality(Accepted)
    BY DEF H!Cardinality, Cardinality
  <2>2. employees = H!Cardinality(Accepted)
    BY <1>1, <2>1 DEF HiringInv
  <2> QED BY <2>2 DEF H!HiresAreAcceptances, Accepted
<1> QED BY <1>1 DEF HiringInv

-----------------------------------------------------------------------------
(* Recruitment: who still follows the request                              *)

Reconcile == {"position", "link", "write", "again"}

\* No reconciliation gives up while the request has changed since it read it.
NeverGivesUp ==
  \A s \in Sessions :
    hiringCall[s].at = "again" /\ hiringCall[s].attempt > MaxAttempts =>
      hiringCall[s].seen.status = request.status

\* Every reconciliation beyond the first saw another change.
Attempts(s) ==
  /\ hiringCall[s].attempt <= changes + 1
  /\ hiringCall[s].at \in Reconcile /\ hiringCall[s].seen.status # request.status =>
       hiringCall[s].attempt <= changes

\* What a reconciliation is about to write.
Aims(s) ==
  /\ hiringCall[s].op = "none" => hiringCall[s].at = "idle"
  /\ hiringCall[s].at = "link" => hiringCall[s].seen.status = "open" /\ position # "absent"
  /\ hiringCall[s].at = "write" =>
       /\ hiringCall[s].seen.status # "submitted"
       /\ hiringCall[s].seen.status = "open" => hiringCall[s].to = "open"
       /\ hiringCall[s].seen.status = "onHold" => hiringCall[s].to = "frozen"
       /\ hiringCall[s].seen.status = "filled" => hiringCall[s].to = "filled"
       /\ hiringCall[s].seen.status = "cancelled" => hiringCall[s].to = "closed"

\* Only an open request gets its position between the read of an update and its
\* commit, which then takes the position away again.
Links(s) ==
  H!Doing(s, "update", "read") =>
    IF hiringCall[s].seen.linked THEN request.linked
      ELSE request.linked => request.status = "open"

\* The request has no position, or is about to be saved without the one it has.
Unlinked(s) == H!Doing(s, "update", "read") /\ ~hiringCall[s].seen.linked
Early == ~request.linked \/ \E s \in Sessions : Unlinked(s)

\* Until then whoever writes opens the position.
Opens(s) ==
  /\ hiringCall[s].at = "position" /\ hiringCall[s].seen.linked =>
       hiringCall[s].seen.status = "open"
  /\ hiringCall[s].at = "write" => hiringCall[s].seen.status = "open"
  /\ hiringCall[s].at = "link" /\ hiringCall[s].to = "open" => position = "open"

AimInv ==
  /\ \A s \in Sessions : Attempts(s) /\ Aims(s) /\ Links(s)
  /\ request.linked => position # "absent"
  /\ Early => \A s \in Sessions : Opens(s)

\* An event whose consumer has not begun.
Unclaimed ==
  notices > 0 /\ (notices = 1 => \A s \in Sessions : hiringCall[s].op # "consume")

\* A call that cannot die, or whose event is delivered again when it does.
Reliable(s) ==
  \/ hiringCall[s].op = "consume"
  \/ hiringCall[s].op = "update" /\ hiringCall[s].wrote

WillSet(s) ==
  /\ Reliable(s)
  /\ IF hiringCall[s].seen.status = request.status
       THEN \/ hiringCall[s].at = "position" /\ hiringCall[s].seen.linked
            \/ hiringCall[s].at = "write"
       ELSE hiringCall[s].at \in Reconcile

WillUnpublish(s) ==
  /\ Reliable(s)
  /\ \/ hiringCall[s].at \in Reconcile
     \/ hiringCall[s].at = "unpublish" /\ hiringCall[s].seen.status = request.status

\* As long as position or posting lag, someone is about to see to it.
FollowInv ==
  /\ request.linked /\ ~H!Shadows(request.status) => Unclaimed \/ \E s \in Sessions : WillSet(s)
  /\ request.status \in H!Closed /\ posting = "live" =>
       Unclaimed \/ \E s \in Sessions : WillUnpublish(s)

\* Nobody reads a request without its position but the session that moves.
LEMMA EarlyStays ==
  ASSUME NEW s \in Sessions, NEW work, Moves(s, work),
         \/ Early
         \/ request'.linked /\ ~(work.op = "update" /\ work.at = "read" /\ ~work.seen.linked)
  PROVE  Early' => Early
<1>1. SUFFICES ASSUME ~Early PROVE ~Early'
  OBVIOUS
<1>2. ASSUME NEW t \in Sessions PROVE ~Unlinked(t)'
  <2>1. CASE t = s
    BY <1>1, <2>1 DEF Moves, Unlinked, H!Doing
  <2>2. CASE t # s
    BY <1>1, <2>2 DEF Moves, Early, Unlinked, H!Doing
  <2> QED BY <2>1, <2>2
<1> QED BY <1>1, <1>2 DEF Early

\* What a step has to keep of the session it is of, and of what all share.
LEMMA AimFrame ==
  ASSUME HiringWaits, OneCall, HiringInv, AimInv, NEW s \in Sessions, NEW work, Moves(s, work),
         changes' \in Nat, changes' >= changes,
         request'.status = request.status \/ changes' > changes,
         position' = position \/ position' # "absent",
         \/ hiringCall[s].at = "read"
         \/ /\ request'.status = request.status
            /\ request.linked => request'.linked
            /\ request'.linked => request.linked \/ request.status = "open",
         \/ Early
         \/ request'.linked /\ ~(work.op = "update" /\ work.at = "read" /\ ~work.seen.linked),
         Early' => (position = "open" => position' = "open"),
         request'.linked => position' # "absent",
         Attempts(s)', Aims(s)', Links(s)', Early' => Opens(s)'
  PROVE  AimInv'
<1>1. \A t \in Sessions \ {s} : hiringCall'[t] = hiringCall[t]
  BY DEF Moves
<1>2. changes \in Nat /\ \A t \in Sessions : hiringCall[t] \in H!Calls
  BY HiringNumbers DEF HiringInv, H!TypeOK
<1>3. \A t \in Sessions : hiringCall[t].attempt \in Nat
  BY <1>2, HiringNumbers DEF H!Calls
<1>4. ASSUME NEW t \in Sessions \ {s} PROVE Attempts(t)' /\ Aims(t)'
  <2>1. Attempts(t) /\ Aims(t)
    BY DEF AimInv
  <2>2. Attempts(t)'
    BY <1>1, <1>2, <1>3, <2>1 DEF Attempts
  <2>3. Aims(t)'
    BY <1>1, <2>1 DEF Aims
  <2> QED BY <2>2, <2>3
<1>5. ASSUME NEW t \in Sessions \ {s} PROVE Links(t)'
  <2>1. Links(t)
    BY DEF AimInv
  <2>2. CASE hiringCall[s].at = "read"
    <3>1. ~H!Doing(t, "update", "read")
      BY <2>2 DEF HiringInv, AloneInv, H!OnOffers, H!Doing
    <3> QED BY <1>1, <3>1 DEF Links, H!Doing
  <2>3. CASE hiringCall[s].at # "read"
    BY <1>1, <2>1, <2>3 DEF Links, H!Doing
  <2> QED BY <2>2, <2>3
<1>6. Early' => Early
  BY EarlyStays
<1>7. ASSUME Early', NEW t \in Sessions \ {s} PROVE Opens(t)'
  <2>1. Opens(t)
    BY <1>6, <1>7 DEF AimInv
  <2> QED BY <1>1, <1>7, <2>1 DEF Opens
<1>8. \A t \in Sessions : Attempts(t)' /\ Aims(t)' /\ Links(t)'
  BY <1>4, <1>5
<1>9. Early' => \A t \in Sessions : Opens(t)'
  BY <1>7
<1> QED BY <1>8, <1>9 DEF AimInv

\* What a step has to keep of whoever follows the request.
LEMMA FollowFrame ==
  ASSUME HiringInv, FollowInv, NEW s \in Sessions, NEW work, Moves(s, work),
         request'.status = request.status,
         Unclaimed => Unclaimed' \/ (WillSet(s)' /\ WillUnpublish(s)'),
         request'.linked /\ ~H!Shadows(request.status)' =>
           \/ WillSet(s)'
           \/ request.linked /\ ~H!Shadows(request.status) /\ (WillSet(s) => Unclaimed'),
         posting' = "live" =>
           \/ WillUnpublish(s)'
           \/ posting = "live" /\ (WillUnpublish(s) => Unclaimed')
           \/ request.status \notin H!Closed
  PROVE  FollowInv'
<1>1. ASSUME NEW t \in Sessions \ {s}
      PROVE  (WillSet(t) => WillSet(t)') /\ (WillUnpublish(t) => WillUnpublish(t)')
  BY DEF Moves, WillSet, WillUnpublish, Reliable
<1>2. ASSUME request'.linked, ~H!Shadows(request.status)'
      PROVE  Unclaimed' \/ \E t \in Sessions : WillSet(t)'
  <2>1. CASE WillSet(s)'
    BY <2>1
  <2>2. CASE request.linked /\ ~H!Shadows(request.status) /\ (WillSet(s) => Unclaimed')
    <3>1. Unclaimed \/ \E t \in Sessions : WillSet(t)
      BY <2>2 DEF FollowInv
    <3> QED BY <1>1, <2>2, <3>1
  <2> QED BY <1>2, <2>1, <2>2
<1>3. ASSUME request'.status \in H!Closed, posting' = "live"
      PROVE  Unclaimed' \/ \E t \in Sessions : WillUnpublish(t)'
  <2>1. CASE WillUnpublish(s)'
    BY <2>1
  <2>2. CASE posting = "live" /\ (WillUnpublish(s) => Unclaimed')
    <3>1. Unclaimed \/ \E t \in Sessions : WillUnpublish(t)
      BY <1>3, <2>2 DEF FollowInv
    <3> QED BY <1>1, <2>2, <3>1
  <2> QED BY <1>3, <2>1, <2>2
<1> QED BY <1>2, <1>3 DEF FollowInv

\* The events that wait: a step of a call that goes on leaves them, the end of a
\* consumer takes its own, its death leaves it unclaimed.
LEMMA ClaimsStay ==
  ASSUME HiringWaits, HiringInv, NEW s \in Sessions, NEW work, Moves(s, work),
         notices' = notices, work.op = "consume" => hiringCall[s].op = "consume"
  PROVE  Unclaimed => Unclaimed'
<1>1. \A t \in Sessions : hiringCall'[t].op = "consume" => hiringCall[t].op = "consume"
  BY DEF Moves
<1> QED BY <1>1 DEF Unclaimed

LEMMA ClaimEnds ==
  ASSUME HiringWaits, HiringInv, NEW s \in Sessions, Moves(s, H!Idle),
         notices' = IF hiringCall[s].op = "consume" THEN notices - 1 ELSE notices
  PROVE  Unclaimed => Unclaimed'
<1>1. CASE hiringCall[s].op = "consume"
  <2>1. \A t \in Sessions \ {s} : hiringCall[t].op # "consume"
    BY <1>1 DEF HiringInv, ConsumeInv
  <2>2. \A t \in Sessions : hiringCall'[t].op # "consume"
    BY <2>1, IdleType DEF Moves
  <2>3. notices \in Nat /\ notices' = notices - 1
    BY <1>1, HiringNumbers DEF HiringInv, H!TypeOK
  <2> QED BY <1>1, <2>2, <2>3 DEF Unclaimed
<1>2. CASE hiringCall[s].op # "consume"
  <2>1. H!Idle.op # "consume"
    BY IdleType
  <2> DEFINE work == H!Idle
  <2> HIDE DEF work
  <2> QED BY <1>2, <2>1, ClaimsStay DEF work
<1> QED BY <1>1, <1>2

LEMMA ClaimReturns ==
  ASSUME HiringWaits, HiringInv, NEW s \in Sessions, Moves(s, H!Idle), notices' = notices
  PROVE  Unclaimed \/ hiringCall[s].op = "consume" => Unclaimed'
<1>1. CASE hiringCall[s].op = "consume"
  <2>1. \A t \in Sessions \ {s} : hiringCall[t].op # "consume"
    BY <1>1 DEF HiringInv, ConsumeInv
  <2>2. \A t \in Sessions : hiringCall'[t].op # "consume"
    BY <2>1, IdleType DEF Moves
  <2>3. notices > 0
    BY <1>1 DEF HiringInv, ConsumeInv
  <2> QED BY <2>2, <2>3 DEF Unclaimed
<1>2. CASE hiringCall[s].op # "consume"
  BY <1>2, ClaimEnds
<1> QED BY <1>1, <1>2

\* Nothing begins to follow by reading.
LEMMA BeginReadFollows ==
  ASSUME HiringWaits, OneCall, HiringInv, AimInv, NEW s \in Sessions, NEW work \in H!Calls,
         H!Begin(s, work), work.at = "read", work.attempt = 0,
         work.op \notin {"none", "consume"}, work.op = "update" => work.seen = request,
         UNCHANGED <<request, position, posting, offers, employees, notices, changes>>
  PROVE  AimInv' /\ (FollowInv => FollowInv')
<1>1. hiringCall[s] = H!Idle /\ Moves(s, work)
  BY CallMoves DEF H!Begin
<1>2. changes \in Nat /\ (request.linked => position # "absent")
  BY HiringNumbers DEF HiringInv, H!TypeOK, AimInv
<1>3. Attempts(s)' /\ Aims(s)' /\ Links(s)' /\ Opens(s)'
  BY <1>1, <1>2 DEF Moves, Attempts, Aims, Links, Opens, Reconcile, H!Doing
<1>4. AimInv'
  <2>1. Early \/ (request.linked /\ ~(work.op = "update" /\ ~work.seen.linked))
    BY DEF Early
  <2> QED BY <1>1, <1>2, <1>3, <2>1, AimFrame
<1>5. ~WillSet(s) /\ ~WillUnpublish(s)
  BY <1>1, IdleType DEF WillSet, WillUnpublish, Reliable
<1>6. Unclaimed => Unclaimed'
  BY <1>1, ClaimsStay
<1>7. H!Shadows(request.status)' = H!Shadows(request.status)
  BY DEF H!Shadows
<1> QED BY <1>1, <1>4, <1>5, <1>6, <1>7, FollowFrame

LEMMA BeginUpdateFollows ==
  ASSUME HiringWaits, OneCall, HiringInv, AimInv, NEW s \in Sessions, NEW status \in H!Statuses,
         H!BeginUpdate(s, status)
  PROVE  AimInv' /\ (FollowInv => FollowInv')
<1> DEFINE work == [H!Idle EXCEPT !.op = "update", !.at = "read", !.seen = request, !.to = status]
<1>1. /\ H!Begin(s, work)
      /\ UNCHANGED <<request, position, posting, offers, employees, notices, changes>>
  BY DEF H!BeginUpdate
<1>2. /\ work \in H!Calls /\ work.op = "update" /\ work.at = "read" /\ work.attempt = 0
      /\ work.seen = request
  <2>1. request \in H!Requests
    BY SameRequest
  <2> QED BY <2>1, HiringNumbers, IdleType DEF H!Idle, H!Calls
<1> HIDE DEF work
<1> QED BY <1>1, <1>2, BeginReadFollows

LEMMA BeginOthersFollow ==
  ASSUME HiringWaits, OneCall, HiringInv, AimInv, NEW s \in Sessions,
         \/ H!BeginPublish(s)
         \/ \E application \in Applications : H!BeginOffer(s, application)
         \/ \E i \in DOMAIN offers : H!BeginAccept(s, i)
  PROVE  AimInv' /\ (FollowInv => FollowInv')
<1>1. CASE H!BeginPublish(s)
  <2> DEFINE work == [H!Idle EXCEPT !.op = "publish", !.at = "read"]
  <2>1. /\ H!Begin(s, work)
        /\ UNCHANGED <<request, position, posting, offers, employees, notices, changes>>
    BY <1>1 DEF H!BeginPublish
  <2>2. work \in H!Calls /\ work.op = "publish" /\ work.at = "read" /\ work.attempt = 0
    BY HiringNumbers, IdleType DEF H!Idle, H!Calls
  <2> HIDE DEF work
  <2> QED BY <2>1, <2>2, BeginReadFollows
<1>2. ASSUME NEW application \in Applications, H!BeginOffer(s, application)
      PROVE  AimInv' /\ (FollowInv => FollowInv')
  <2> DEFINE work == [H!Idle EXCEPT !.op = "offer", !.at = "read", !.to = application]
  <2>1. /\ H!Begin(s, work)
        /\ UNCHANGED <<request, position, posting, offers, employees, notices, changes>>
    BY <1>2 DEF H!BeginOffer
  <2>2. work \in H!Calls /\ work.op = "offer" /\ work.at = "read" /\ work.attempt = 0
    BY HiringNumbers, IdleType DEF H!Idle, H!Calls
  <2> HIDE DEF work
  <2> QED BY <2>1, <2>2, BeginReadFollows
<1>3. ASSUME NEW i \in DOMAIN offers, H!BeginAccept(s, i)
      PROVE  AimInv' /\ (FollowInv => FollowInv')
  <2> DEFINE work == [H!Idle EXCEPT !.op = "accept", !.at = "read", !.seen = request, !.offer = i]
  <2>1. /\ H!Begin(s, work)
        /\ UNCHANGED <<request, position, posting, offers, employees, notices, changes>>
    BY <1>3 DEF H!BeginAccept
  <2>2. i \in 0..MaxOffers /\ request \in H!Requests
    BY HiringNumbers, AcceptedType, SameRequest DEF HiringInv, H!TypeOK
  <2>3. work \in H!Calls /\ work.op = "accept" /\ work.at = "read" /\ work.attempt = 0
    BY <2>2, HiringNumbers, IdleType DEF H!Idle, H!Calls
  <2> HIDE DEF work
  <2> QED BY <2>1, <2>3, BeginReadFollows
<1> QED BY <1>1, <1>2, <1>3

\* A call that ends leaves what it has not done to an event that waits.
LEMMA EndFollows ==
  ASSUME HiringWaits, OneCall, HiringInv, AimInv, NEW s \in Sessions,
         hiringCall' = [hiringCall EXCEPT ![s] = H!Idle],
         UNCHANGED <<request, position, changes>>,
         Unclaimed => Unclaimed', WillSet(s) => Unclaimed',
         posting' = "live" =>
           \/ posting = "live" /\ (WillUnpublish(s) => Unclaimed')
           \/ request.status \notin H!Closed
  PROVE  AimInv' /\ (FollowInv => FollowInv')
<1>1. Moves(s, H!Idle)
  BY IdleType, CallMoves
<1>2. changes \in Nat /\ (request.linked => position # "absent")
  BY HiringNumbers DEF HiringInv, H!TypeOK, AimInv
<1>3. Attempts(s)' /\ Aims(s)' /\ Links(s)' /\ Opens(s)'
  BY <1>1, <1>2, IdleType DEF Moves, Attempts, Aims, Links, Opens, Reconcile, H!Doing
<1> DEFINE work == H!Idle
<1>4. work.op = "none"
  BY IdleType
<1> HIDE DEF work
<1>5. AimInv'
  <2>1. Early \/ request.linked
    BY DEF Early
  <2> QED BY <1>1, <1>2, <1>3, <1>4, <2>1, AimFrame DEF work
<1>6. H!Shadows(request.status)' = H!Shadows(request.status)
  BY DEF H!Shadows
<1> QED BY <1>1, <1>5, <1>6, FollowFrame DEF work

LEMMA DieFollows ==
  ASSUME HiringWaits, OneCall, HiringInv, AimInv, NEW s \in Sessions, H!Die(s)
  PROVE  AimInv' /\ (FollowInv => FollowInv')
<1>1. /\ hiringCall' = [hiringCall EXCEPT ![s] = H!Idle]
      /\ ~(hiringCall[s].op = "update" /\ hiringCall[s].wrote)
      /\ UNCHANGED <<request, position, posting, offers, employees, notices, changes>>
  BY HiringNumbers DEF H!Die, H!End
<1>2. Moves(s, H!Idle)
  BY <1>1, IdleType, CallMoves
<1>3. Unclaimed \/ hiringCall[s].op = "consume" => Unclaimed'
  BY <1>1, <1>2, ClaimReturns
<1>4. WillSet(s) \/ WillUnpublish(s) => Unclaimed'
  BY <1>1, <1>3 DEF WillSet, WillUnpublish, Reliable
<1> QED BY <1>1, <1>3, <1>4, EndFollows

LEMMA UnpublishForRequestFollows ==
  ASSUME HiringWaits, OneCall, HiringInv, AimInv, NEW s \in Sessions, H!UnpublishForRequest(s)
  PROVE  AimInv' /\ (FollowInv => FollowInv')
<1>1. /\ hiringCall[s].at = "unpublish"
      /\ hiringCall' = [hiringCall EXCEPT ![s] = H!Idle]
      /\ notices' = IF hiringCall[s].op = "consume" THEN notices - 1 ELSE notices
      /\ posting' # "live"
      /\ UNCHANGED <<request, position, offers, employees, changes>>
  BY DEF H!UnpublishForRequest, H!End
<1>2. Moves(s, H!Idle)
  BY <1>1, IdleType, CallMoves
<1>3. Unclaimed => Unclaimed'
  BY <1>1, <1>2, ClaimEnds
<1>4. ~WillSet(s)
  BY <1>1 DEF WillSet, Reconcile
<1> QED BY <1>1, <1>3, <1>4, EndFollows

\* What ends at its commit was never about to follow the request.
LEMMA CommitEndFollows ==
  ASSUME HiringWaits, OneCall, HiringInv, AimInv, NEW s \in Sessions, hiringCall[s].at = "read",
         hiringCall[s].op \in {"publish", "offer"},
         hiringCall' = [hiringCall EXCEPT ![s] = H!Idle],
         UNCHANGED <<request, position, notices, changes>>,
         posting' = posting \/ request.status \notin H!Closed
  PROVE  AimInv' /\ (FollowInv => FollowInv')
<1>1. Moves(s, H!Idle)
  BY IdleType, CallMoves
<1>2. Unclaimed => Unclaimed'
  BY <1>1, ClaimReturns
<1>3. ~WillSet(s) /\ ~WillUnpublish(s)
  BY DEF WillSet, WillUnpublish, Reliable
<1> QED BY <1>2, <1>3, EndFollows

LEMMA PublishPostingFollows ==
  ASSUME HiringWaits, OneCall, HiringInv, AimInv, NEW s \in Sessions, H!PublishPosting(s)
  PROVE  AimInv' /\ (FollowInv => FollowInv')
<1>1. /\ hiringCall[s].op = "publish" /\ hiringCall[s].at = "read"
      /\ hiringCall' = [hiringCall EXCEPT ![s] = H!Idle]
      /\ UNCHANGED <<request, position, offers, employees, notices, changes>>
  BY DEF H!PublishPosting, H!Doing, H!End
<1>2. request.status \notin H!Closed
  BY <1>1 DEF HiringInv, AloneInv, Agrees
<1> QED BY <1>1, <1>2, CommitEndFollows

LEMMA CreateOfferFollows ==
  ASSUME HiringWaits, OneCall, HiringInv, AimInv, NEW s \in Sessions, H!CreateOffer(s)
  PROVE  AimInv' /\ (FollowInv => FollowInv')
BY CommitEndFollows DEF H!CreateOffer, H!Doing, H!End

\* A step of a reconciliation that goes on, with what it has seen.
LEMMA StepFollows ==
  ASSUME HiringWaits, OneCall, HiringInv, AimInv, NEW s \in Sessions, NEW work \in H!Calls,
         hiringCall' = [hiringCall EXCEPT ![s] = work],
         hiringCall[s].at \in {"position", "link", "write"},
         work.at \in {"link", "write", "again"},
         work.op = hiringCall[s].op, work.seen = hiringCall[s].seen,
         work.attempt = hiringCall[s].attempt, hiringCall[s].wrote => work.wrote,
         request'.status = request.status, request.linked => request'.linked,
         request'.linked => (request.linked \/ request.status = "open") /\ position' # "absent",
         position' = position \/ position' # "absent",
         Early => (position = "open" => position' = "open") /\ Opens(s)',
         Aims(s)',
         request'.linked /\ ~H!Shadows(request.status)' =>
           WillSet(s)' \/ (request.linked /\ ~H!Shadows(request.status) /\ ~WillSet(s)),
         UNCHANGED <<posting, notices, changes>>
  PROVE  AimInv' /\ (FollowInv => FollowInv')
<1>1. Moves(s, work)
  BY CallMoves
<1>2. changes \in Nat
  BY HiringNumbers DEF HiringInv, H!TypeOK
<1>3. Attempts(s)' /\ Links(s)'
  <2>1. Attempts(s)
    BY DEF AimInv
  <2> QED BY <1>1, <2>1 DEF Moves, Attempts, Links, Reconcile, H!Doing
<1>4. Early \/ (request'.linked /\ work.at # "read")
  BY DEF Early
<1>5. AimInv'
  <2>1. Early' => Early
    BY <1>1, <1>4, EarlyStays
  <2> QED BY <1>1, <1>2, <1>3, <1>4, <2>1, AimFrame
<1>6. Unclaimed => Unclaimed'
  BY <1>1, ClaimsStay
<1>7. WillUnpublish(s) => WillUnpublish(s)'
  BY <1>1 DEF Moves, WillUnpublish, Reliable, Reconcile
<1>8. posting' = "live" => \/ WillUnpublish(s)'
                           \/ posting = "live" /\ (WillUnpublish(s) => Unclaimed')
  BY <1>7
<1>9. request'.linked /\ ~H!Shadows(request.status)' =>
        \/ WillSet(s)'
        \/ request.linked /\ ~H!Shadows(request.status) /\ (WillSet(s) => Unclaimed')
  OBVIOUS
<1> QED BY <1>1, <1>5, <1>6, <1>8, <1>9, FollowFrame

\* A reconciliation is that of an update or of a consumer.
LEMMA WhoReconciles ==
  ASSUME HiringWaits, OneCall, HiringInv, AimInv, NEW s \in Sessions,
         hiringCall[s].at \notin {"idle", "read"}
  PROVE  /\ hiringCall[s] \in H!Calls /\ hiringCall[s].op \in {"update", "consume"}
         /\ hiringCall[s].seen.status \in H!Statuses /\ request.status \in H!Statuses
<1>1. hiringCall[s] \in H!Calls /\ hiringCall[s].op \in {"none", "update", "consume"}
  BY PastItsRead
<1>2. Aims(s) /\ request \in H!Requests
  BY SameRequest DEF AimInv
<1> QED BY <1>1, <1>2 DEF Aims, H!Calls, H!Requests

LEMMA ReadPositionFollows ==
  ASSUME HiringWaits, OneCall, HiringInv, AimInv, NEW s \in Sessions, H!ReadPosition(s)
  PROVE  AimInv' /\ (FollowInv => FollowInv')
<1>1. /\ hiringCall[s].at = "position"
      /\ UNCHANGED <<request, posting, offers, employees, notices, changes>>
  BY DEF H!ReadPosition
<1>2. /\ hiringCall[s] \in H!Calls /\ hiringCall[s].op \in {"update", "consume"}
      /\ hiringCall[s].seen.status \in H!Statuses /\ request.status \in H!Statuses
  BY <1>1, WhoReconciles
<1>3. Aims(s) /\ (Early => Opens(s)) /\ (request.linked => position # "absent")
  BY DEF AimInv
<1> DEFINE target == H!Target(hiringCall[s].seen.status)
<1>4. CASE hiringCall[s].seen.linked
  <2> DEFINE work == [hiringCall[s] EXCEPT !.at = IF target = position THEN "again" ELSE "write",
                                           !.to = target]
  <2>1. target \in H!PositionStatuses
    BY <1>2, TargetType
  <2>2. hiringCall' = [hiringCall EXCEPT ![s] = work] /\ position' = position
    BY <1>4, SameRequest DEF H!ReadPosition
  <2>3. /\ work \in H!Calls /\ work.op = hiringCall[s].op /\ work.seen = hiringCall[s].seen
        /\ work.attempt = hiringCall[s].attempt /\ work.wrote = hiringCall[s].wrote
        /\ work.at = IF target = position THEN "again" ELSE "write"
        /\ work.to = target
    <3> HIDE DEF target
    <3> QED BY <1>2, <2>1 DEF H!Calls
  <2> HIDE DEF work
  <2>4. Moves(s, work)
    BY <2>2, <2>3, CallMoves
  <2>5. Aims(s)'
    BY <1>2, <2>3, <2>4 DEF Moves, Aims, H!Target, H!Statuses
  <2>6. Early => Opens(s)'
    BY <1>1, <1>3, <1>4, <2>3, <2>4 DEF Moves, Opens
  <2>7. H!Shadows(request.status)' = H!Shadows(request.status)
    BY <1>1, <2>2 DEF H!Shadows
  <2>8. target = position => H!Shadows(hiringCall[s].seen.status)
    BY <1>2 DEF H!Target, H!Shadows, H!Statuses
  <2> HIDE DEF target
  <2>9. WillSet(s) => WillSet(s)' \/ H!Shadows(request.status)
    BY <1>1, <2>3, <2>4, <2>8 DEF Moves, WillSet, Reliable, Reconcile
  <2> QED BY <1>1, <1>3, <2>2, <2>3, <2>5, <2>6, <2>7, <2>9, StepFollows
<1>5. CASE ~hiringCall[s].seen.linked
  <2> DEFINE found == IF position = "absent" THEN "open" ELSE position
  <2> DEFINE work == IF hiringCall[s].seen.status = "open"
                       THEN [hiringCall[s] EXCEPT !.at = "link", !.to = found]
                       ELSE [hiringCall[s] EXCEPT !.at = "again"]
  <2>1. /\ hiringCall' = [hiringCall EXCEPT ![s] = work]
        /\ position' = IF hiringCall[s].seen.status = "open" THEN found ELSE position
    BY <1>5, SameRequest DEF H!ReadPosition
  <2>2. found \in H!PositionStatuses /\ found # "absent"
    BY SameRequest DEF H!PositionStatuses
  <2>3. /\ work \in H!Calls /\ work.op = hiringCall[s].op /\ work.seen = hiringCall[s].seen
        /\ work.attempt = hiringCall[s].attempt /\ work.wrote = hiringCall[s].wrote
        /\ work.at = IF hiringCall[s].seen.status = "open" THEN "link" ELSE "again"
        /\ hiringCall[s].seen.status = "open" => work.to = found
    <3> HIDE DEF found
    <3> QED BY <1>2, <2>2 DEF H!Calls
  <2> HIDE DEF work
  <2>4. Moves(s, work)
    BY <2>1, <2>3, CallMoves
  <2>5. Aims(s)' /\ Opens(s)'
    BY <1>2, <2>1, <2>2, <2>3, <2>4 DEF Moves, Aims, Opens
  <2>6. /\ position' = position \/ position' # "absent"
        /\ position = "open" => position' = "open"
        /\ request'.linked => position' = position
    BY <1>1, <1>3, <2>1, <2>2
  <2>7. request'.linked => H!Shadows(request.status)' = H!Shadows(request.status)
    BY <1>1, <2>6 DEF H!Shadows
  <2>8. WillSet(s) => WillSet(s)'
    BY <1>1, <1>5, <2>3, <2>4 DEF Moves, WillSet, Reliable, Reconcile
  <2> QED BY <1>1, <1>3, <2>1, <2>3, <2>5, <2>6, <2>7, <2>8, StepFollows
<1> QED BY <1>4, <1>5

LEMMA LinkPositionFollows ==
  ASSUME HiringWaits, OneCall, HiringInv, AimInv, NEW s \in Sessions, H!LinkPosition(s)
  PROVE  AimInv' /\ (FollowInv => FollowInv')
<1>1. /\ hiringCall[s].at = "link"
      /\ UNCHANGED <<position, posting, offers, employees, notices, changes>>
  BY DEF H!LinkPosition
<1>2. hiringCall[s] \in H!Calls /\ hiringCall[s].op \in {"update", "consume"}
  BY <1>1, WhoReconciles
<1>3. /\ hiringCall[s].seen.status = "open" /\ position # "absent"
      /\ Early /\ hiringCall[s].to = "open" => position = "open"
  BY <1>1 DEF AimInv, Aims, Opens
<1>4. CASE request = [status |-> "open", linked |-> FALSE]
  <2> DEFINE work == [hiringCall[s] EXCEPT
                        !.at = IF hiringCall[s].to = "open" THEN "again" ELSE "write",
                        !.to = "open", !.wrote = TRUE]
  <2>1. hiringCall' = [hiringCall EXCEPT ![s] = work] /\ request' = [request EXCEPT !.linked = TRUE]
    BY <1>4, SameRequest DEF H!LinkPosition
  <2>2. /\ work \in H!Calls /\ work.op = hiringCall[s].op /\ work.seen = hiringCall[s].seen
        /\ work.attempt = hiringCall[s].attempt /\ work.wrote
        /\ work.at = IF hiringCall[s].to = "open" THEN "again" ELSE "write"
        /\ work.to = "open"
    BY <1>2 DEF H!Calls, H!PositionStatuses
  <2> HIDE DEF work
  <2>3. Moves(s, work)
    BY <2>1, <2>2, CallMoves
  <2>4. request'.status = "open" /\ request.status = "open" /\ ~request.linked /\ Early
    BY <1>4, <2>1 DEF Early
  <2>5. Aims(s)' /\ Opens(s)'
    BY <1>2, <1>3, <2>2, <2>3 DEF Moves, Aims, Opens
  <2>6. ~H!Shadows(request.status)' => WillSet(s)'
    <3>1. CASE hiringCall[s].to = "open"
      BY <1>1, <1>3, <2>4, <3>1 DEF H!Shadows
    <3>2. CASE hiringCall[s].to # "open"
      BY <1>2, <1>3, <2>2, <2>3, <2>4, <3>2 DEF Moves, WillSet, Reliable
    <3> QED BY <3>1, <3>2
  <2> QED BY <1>1, <1>3, <2>1, <2>2, <2>4, <2>5, <2>6, StepFollows
<1>5. CASE request # [status |-> "open", linked |-> FALSE]
  <2> DEFINE work == [hiringCall[s] EXCEPT !.at = "again"]
  <2>1. hiringCall' = [hiringCall EXCEPT ![s] = work] /\ request' = request
    BY <1>5, SameRequest DEF H!LinkPosition
  <2>2. /\ work \in H!Calls /\ work.op = hiringCall[s].op /\ work.seen = hiringCall[s].seen
        /\ work.attempt = hiringCall[s].attempt /\ work.wrote = hiringCall[s].wrote
        /\ work.at = "again"
    BY <1>2 DEF H!Calls
  <2> HIDE DEF work
  <2>3. Moves(s, work)
    BY <2>1, <2>2, CallMoves
  <2>4. Aims(s)' /\ Opens(s)'
    BY <1>2, <2>2, <2>3 DEF Moves, Aims, Opens
  <2>5. H!Shadows(request.status)' = H!Shadows(request.status)
    BY <1>1, <2>1 DEF H!Shadows
  <2>6. WillSet(s) => WillSet(s)'
    BY <1>1, <2>1, <2>2, <2>3 DEF Moves, WillSet, Reliable, Reconcile
  <2> QED BY <1>1, <1>3, <2>1, <2>2, <2>4, <2>5, <2>6, StepFollows
<1> QED BY <1>4, <1>5

LEMMA SetPositionFollows ==
  ASSUME HiringWaits, OneCall, HiringInv, AimInv, NEW s \in Sessions, H!SetPosition(s)
  PROVE  AimInv' /\ (FollowInv => FollowInv')
<1>1. /\ hiringCall[s].at = "write" /\ position' = hiringCall[s].to
      /\ UNCHANGED <<request, posting, offers, employees, notices, changes>>
  BY DEF H!SetPosition
<1>2. /\ hiringCall[s] \in H!Calls /\ hiringCall[s].op \in {"update", "consume"}
      /\ hiringCall[s].seen.status \in H!Statuses
  BY <1>1, WhoReconciles
<1>3. Aims(s) /\ (Early => Opens(s))
  BY DEF AimInv
<1> DEFINE work == [hiringCall[s] EXCEPT !.at = "again", !.wrote = TRUE]
<1>4. hiringCall' = [hiringCall EXCEPT ![s] = work]
  BY SameRequest DEF H!SetPosition
<1>5. /\ work \in H!Calls /\ work.op = hiringCall[s].op /\ work.seen = hiringCall[s].seen
      /\ work.attempt = hiringCall[s].attempt /\ work.wrote /\ work.at = "again"
  BY <1>2 DEF H!Calls
<1> HIDE DEF work
<1>6. Moves(s, work)
  BY <1>4, <1>5, CallMoves
<1>7. Aims(s)' /\ Opens(s)'
  BY <1>2, <1>5, <1>6 DEF Moves, Aims, Opens
<1>8. position' # "absent" /\ (Early => position' = "open")
  BY <1>1, <1>2, <1>3 DEF Aims, Opens, H!Statuses
<1>9. ~H!Shadows(request.status)' => WillSet(s)'
  <2>1. CASE hiringCall[s].seen.status = request.status
    BY <1>1, <1>2, <1>3, <2>1 DEF Aims, H!Shadows, H!Statuses
  <2>2. CASE hiringCall[s].seen.status # request.status
    BY <1>1, <1>2, <1>5, <1>6, <2>2 DEF Moves, WillSet, Reliable, Reconcile
  <2> QED BY <2>1, <2>2
<1> QED BY <1>1, <1>4, <1>5, <1>7, <1>8, <1>9, StepFollows

\* Between the read of an update that loses its position and its commit, only an
\* open request has one.
LEMMA LinkedEarly ==
  ASSUME AimInv, Early, request.linked
  PROVE  request.status = "open"
BY DEF AimInv, Early, Unlinked, Links

LEMMA CheckAgainFollows ==
  ASSUME HiringWaits, OneCall, HiringInv, AimInv, NeverGivesUp, NEW s \in Sessions, H!CheckAgain(s)
  PROVE  AimInv' /\ (FollowInv => FollowInv')
<1>1. /\ hiringCall[s].at = "again"
      /\ UNCHANGED <<request, position, posting, offers, employees, changes>>
  BY DEF H!CheckAgain
<1>2. /\ hiringCall[s] \in H!Calls /\ hiringCall[s].op \in {"update", "consume"}
      /\ hiringCall[s].attempt \in 0..(MaxAttempts + 1)
      /\ changes \in Nat /\ (request.linked => position # "absent")
  BY <1>1, WhoReconciles, PastItsRead, HiringNumbers DEF HiringInv, H!TypeOK, AimInv
<1>3. H!Shadows(request.status)' = H!Shadows(request.status)
  BY <1>1 DEF H!Shadows
<1>4. CASE hiringCall[s].attempt > MaxAttempts \/ request.status = hiringCall[s].seen.status
  <2>1. hiringCall[s].seen.status = request.status /\ H!Finish(s, hiringCall[s].seen.status)
    BY <1>1, <1>4 DEF H!CheckAgain, NeverGivesUp
  <2>2. ~WillSet(s)
    BY <1>1, <2>1 DEF WillSet
  <2>3. CASE hiringCall[s].seen.status \in H!Closed \cup {"onHold"}
    <3> DEFINE work == [hiringCall[s] EXCEPT !.at = "unpublish"]
    <3>1. hiringCall' = [hiringCall EXCEPT ![s] = work] /\ notices' = notices
      BY <2>1, <2>3, SameRequest DEF H!Finish
    <3>2. /\ work \in H!Calls /\ work.op = hiringCall[s].op /\ work.at = "unpublish"
          /\ work.seen = hiringCall[s].seen /\ work.attempt = hiringCall[s].attempt
          /\ work.wrote = hiringCall[s].wrote
      BY <1>2 DEF H!Calls
    <3> HIDE DEF work
    <3>3. Moves(s, work)
      BY <3>1, <3>2, CallMoves
    <3>4. Attempts(s)
      BY DEF AimInv
    <3>5. Attempts(s)' /\ Aims(s)' /\ Links(s)' /\ Opens(s)'
      BY <1>1, <1>2, <3>2, <3>3, <3>4 DEF Moves, Attempts, Aims, Links, Opens, Reconcile, H!Doing
    <3>6. AimInv'
      <4>1. Early \/ request.linked
        BY DEF Early
      <4> QED BY <1>1, <1>2, <3>2, <3>3, <3>5, <4>1, AimFrame
    <3>7. Unclaimed => Unclaimed'
      BY <3>1, <3>2, <3>3, ClaimsStay
    <3>8. WillUnpublish(s) => WillUnpublish(s)'
      BY <1>1, <2>1, <3>2, <3>3 DEF Moves, WillUnpublish, Reliable
    <3> QED BY <1>1, <1>3, <2>2, <3>3, <3>6, <3>7, <3>8, FollowFrame
  <2>4. CASE hiringCall[s].seen.status \notin H!Closed \cup {"onHold"}
    <3>1. /\ hiringCall' = [hiringCall EXCEPT ![s] = H!Idle]
          /\ notices' = IF hiringCall[s].op = "consume" THEN notices - 1 ELSE notices
      BY <2>1, <2>4 DEF H!Finish, H!End
    <3>2. Unclaimed => Unclaimed'
      BY <3>1, IdleType, CallMoves, ClaimEnds
    <3> QED BY <1>1, <2>1, <2>2, <2>4, <3>1, <3>2, EndFollows
  <2> QED BY <2>3, <2>4
<1>5. CASE ~(hiringCall[s].attempt > MaxAttempts \/ request.status = hiringCall[s].seen.status)
  <2> DEFINE work == H!Reconciling(hiringCall[s], request)
  <2>1. hiringCall' = [hiringCall EXCEPT ![s] = work] /\ notices' = notices
    BY <1>5 DEF H!CheckAgain
  <2>2. hiringCall[s].attempt <= MaxAttempts
    BY <1>2, <1>5, HiringNumbers
  <2>3. work \in H!Calls /\ work.op = hiringCall[s].op /\ work.at = "position"
    BY <1>2, <2>2, ReconcilingType, SameRequest
  <2>4. /\ work.seen = request /\ work.attempt = hiringCall[s].attempt + 1
        /\ work.wrote = hiringCall[s].wrote
    BY <1>2 DEF H!Reconciling, H!Calls
  <2> HIDE DEF work
  <2>5. Moves(s, work)
    BY <2>1, <2>3, CallMoves
  <2>6. Attempts(s)' /\ Aims(s)' /\ Links(s)'
    <3>1. hiringCall[s].attempt <= changes
      BY <1>1, <1>5 DEF AimInv, Attempts, Reconcile
    <3> QED BY <1>1, <1>2, <2>3, <2>4, <2>5, <3>1 DEF Moves, Attempts, Aims, Links, H!Doing
  <2>7. AimInv'
    <3>1. Early \/ request.linked
      BY DEF Early
    <3>2. Early' => Early
      BY <1>1, <2>3, <2>5, <3>1, EarlyStays
    <3>3. Early' => Opens(s)'
      <4>1. Early /\ request.linked => request.status = "open"
        BY LinkedEarly
      <4> QED BY <1>1, <2>3, <2>4, <2>5, <3>2, <4>1 DEF Moves, Opens
    <3> QED BY <1>1, <1>2, <2>3, <2>5, <2>6, <3>1, <3>3, AimFrame
  <2>8. Unclaimed => Unclaimed'
    BY <2>1, <2>3, <2>5, ClaimsStay
  <2>9. WillSet(s) /\ request.linked => WillSet(s)'
    BY <1>1, <2>3, <2>4, <2>5 DEF Moves, WillSet, Reliable
  <2>10. WillUnpublish(s) => WillUnpublish(s)'
    BY <1>1, <2>3, <2>4, <2>5 DEF Moves, WillUnpublish, Reliable, Reconcile
  <2> QED BY <1>1, <1>3, <2>5, <2>7, <2>8, <2>9, <2>10, FollowFrame
<1> QED BY <1>4, <1>5

\* A consumer takes up whatever lags.
LEMMA BeginConsumeFollows ==
  ASSUME HiringWaits, OneCall, HiringInv, AimInv, NEW s \in Sessions, H!BeginConsume(s)
  PROVE  AimInv' /\ (FollowInv => FollowInv')
<1> DEFINE start == [H!Idle EXCEPT !.op = "consume"]
<1> DEFINE work == H!Reconciling(start, request)
<1>1. /\ hiringCall' = [hiringCall EXCEPT ![s] = work]
      /\ UNCHANGED <<request, position, posting, offers, employees, notices, changes>>
  BY DEF H!BeginConsume
<1>2. start \in H!Calls /\ start.op = "consume" /\ start.attempt = 0
  BY IdleType, HiringNumbers DEF H!Calls
<1>3. start.attempt <= MaxAttempts
  BY <1>2, HiringNumbers
<1> HIDE DEF start
<1>4. work \in H!Calls /\ work.op = "consume" /\ work.at = "position"
  BY <1>2, <1>3, ReconcilingType, SameRequest
<1>5. work.seen = request /\ work.attempt = 1
  BY <1>2 DEF H!Reconciling, H!Calls
<1> HIDE DEF work
<1>6. Moves(s, work)
  BY <1>1, <1>4, CallMoves
<1>7. changes \in Nat /\ (request.linked => position # "absent")
  BY HiringNumbers DEF HiringInv, H!TypeOK, AimInv
<1>8. Attempts(s)' /\ Aims(s)' /\ Links(s)'
  BY <1>1, <1>4, <1>5, <1>6, <1>7 DEF Moves, Attempts, Aims, Links, H!Doing
<1>9. AimInv'
  <2>1. Early \/ request.linked
    BY DEF Early
  <2>2. Early' => Early
    BY <1>1, <1>4, <1>6, <2>1, EarlyStays
  <2>3. Early' => Opens(s)'
    <3>1. Early /\ request.linked => request.status = "open"
      BY LinkedEarly
    <3> QED BY <1>1, <1>4, <1>5, <1>6, <2>2, <3>1 DEF Moves, Opens
  <2> QED BY <1>1, <1>4, <1>6, <1>7, <1>8, <2>1, <2>3, AimFrame
<1>10. (request'.linked => WillSet(s)') /\ WillUnpublish(s)'
  BY <1>1, <1>4, <1>5, <1>6 DEF Moves, WillSet, WillUnpublish, Reliable, Reconcile
<1>11. FollowInv'
  BY <1>10 DEF FollowInv
<1> QED BY <1>9, <1>11

\* Nothing is committed while an update is between its read and its commit.
LEMMA CommitsAlone ==
  ASSUME OneCall, HiringInv, NEW s \in Sessions, NEW work, hiringCall[s].at = "read",
         Moves(s, work), work.at # "read"
  PROVE  Early' => ~request'.linked
<1>1. \A t \in Sessions \ {s} : ~H!Doing(t, "update", "read")
  BY DEF HiringInv, AloneInv, H!OnOffers, H!Doing
<1>2. \A t \in Sessions : ~Unlinked(t)'
  BY <1>1 DEF Moves, Unlinked, H!Doing
<1> QED BY <1>2 DEF Early

LEMMA CommitUpdateFollows ==
  ASSUME HiringWaits, OneCall, HiringInv, AimInv, NEW s \in Sessions, H!CommitUpdate(s)
  PROVE  AimInv' /\ (FollowInv => FollowInv')
<1> DEFINE seen == hiringCall[s].seen
<1> DEFINE status == hiringCall[s].to
<1>1. /\ hiringCall[s].op = "update" /\ hiringCall[s].at = "read"
      /\ H!SaveStatus(seen, status)
      /\ UNCHANGED <<position, posting, offers, employees>>
  BY DEF H!CommitUpdate, H!Doing
<1>2. /\ seen \in H!Requests /\ hiringCall[s] \in H!Calls /\ hiringCall[s].attempt = 0
      /\ seen.status = request.status /\ request.status \in H!Statuses
      /\ status \in H!Transitions(request.status) \cup {request.status}
  <2>1. hiringCall[s] \in H!Calls /\ request \in H!Requests
    BY SameRequest
  <2>2. ReadHolds(s) /\ Agrees(s)
    BY DEF HiringInv, AloneInv
  <2> QED BY <1>1, <2>1, <2>2 DEF ReadHolds, Agrees, H!Doing, H!Calls, H!Requests
<1>3. status \in H!Statuses
  BY <1>2, TransitionsType
<1>4. request' \in H!Requests /\ request'.status = status /\ request'.linked = seen.linked
  BY <1>1, <1>2, <1>3 DEF H!SaveStatus, H!Requests
<1> DEFINE work == H!Reconciling(hiringCall[s], request')
<1>5. hiringCall' = [hiringCall EXCEPT ![s] = work]
  BY DEF H!CommitUpdate
<1>6. /\ work \in H!Calls /\ work.op = "update" /\ work.at = "position"
      /\ work.seen = request' /\ work.attempt = 1
  <2> DEFINE after == request'
  <2>1. after \in H!Requests /\ hiringCall[s].attempt <= MaxAttempts
    BY <1>2, <1>4, HiringNumbers
  <2> HIDE DEF after
  <2>2. /\ H!Reconciling(hiringCall[s], after) \in H!Calls
        /\ H!Reconciling(hiringCall[s], after).op = "update"
        /\ H!Reconciling(hiringCall[s], after).at = "position"
    BY <1>1, <1>2, <2>1, ReconcilingType
  <2>3. /\ H!Reconciling(hiringCall[s], after).seen = after
        /\ H!Reconciling(hiringCall[s], after).attempt = 1
    BY <1>2 DEF H!Reconciling, H!Calls
  <2> QED BY <2>2, <2>3 DEF after
<1> HIDE DEF work
<1>7. Moves(s, work)
  BY <1>5, <1>6, CallMoves
<1>8. /\ changes \in Nat /\ notices \in Nat
      /\ \/ status = request.status /\ changes' = changes /\ notices' = notices
         \/ changes' = changes + 1 /\ notices' = notices + 1
  BY <1>1, <1>2, HiringNumbers DEF H!SaveStatus, HiringInv, H!TypeOK
<1>9. (seen.linked => request.linked) /\ (request.linked => position # "absent")
  BY <1>1 DEF AimInv, Links, H!Doing
<1>10. AimInv'
  <2>1. Attempts(s)' /\ Aims(s)' /\ Links(s)'
    BY <1>6, <1>7, <1>8 DEF Moves, Attempts, Aims, Links, H!Doing
  <2>2. Early' => ~request'.linked
    BY <1>1, <1>6, <1>7, CommitsAlone
  <2>3. Early' => Opens(s)'
    BY <1>6, <1>7, <2>2 DEF Moves, Opens
  <2>4. Early \/ seen.linked
    BY <1>1 DEF Early, Unlinked, H!Doing
  <2> HIDE DEF seen, status
  <2> QED BY <1>1, <1>4, <1>6, <1>7, <1>8, <1>9, <2>1, <2>3, <2>4, AimFrame
<1>11. CASE status = request.status /\ notices' = notices
  <2>1. Unclaimed => Unclaimed'
    BY <1>6, <1>7, <1>11, ClaimsStay
  <2>2. ~WillSet(s) /\ ~WillUnpublish(s)
    BY <1>1, <1>2 DEF WillSet, WillUnpublish, Reconcile
  <2>3. H!Shadows(request.status)' = H!Shadows(request.status)
    BY <1>1, <1>4, <1>11 DEF H!Shadows
  <2> QED BY <1>1, <1>4, <1>7, <1>9, <1>10, <1>11, <2>1, <2>2, <2>3, FollowFrame
<1>12. CASE notices' = notices + 1
  <2>1. ASSUME notices' = 1, NEW t \in Sessions PROVE hiringCall'[t].op # "consume"
    <3>1. notices = 0
      BY <1>8, <1>12, <2>1
    <3> QED BY <1>6, <1>7, <3>1 DEF Moves, HiringInv, ConsumeInv
  <2>2. Unclaimed'
    BY <1>8, <1>12, <2>1 DEF Unclaimed
  <2> QED BY <1>10, <2>2 DEF FollowInv
<1> QED BY <1>8, <1>11, <1>12

LEMMA AcceptOfferFollows ==
  ASSUME HiringWaits, OneCall, HiringInv, AimInv, NEW s \in Sessions, H!AcceptOffer(s)
  PROVE  AimInv' /\ (FollowInv => FollowInv')
<1>1. /\ hiringCall[s].op = "accept" /\ hiringCall[s].at = "read"
      /\ posting' = "down" /\ position' = "filled"
      /\ request' = [status |-> "filled", linked |-> TRUE]
      /\ hiringCall' = [hiringCall EXCEPT ![s] = H!Idle]
      /\ \/ hiringCall[s].seen.status = "filled" /\ changes' = changes
         \/ changes' = changes + 1
  BY DEF H!AcceptOffer, H!Doing, H!End
<1>2. /\ hiringCall[s].seen.status = "filled" => request.status = "filled"
      /\ changes \in Nat
  BY <1>1, HiringNumbers DEF HiringInv, AloneInv, Agrees, H!TypeOK
<1>3. Moves(s, H!Idle)
  BY <1>1, IdleType, CallMoves
<1> DEFINE work == H!Idle
<1>4. work.op = "none" /\ work.at = "idle" /\ work.attempt = 0
  BY IdleType
<1> HIDE DEF work
<1>5. Moves(s, work)
  BY <1>3 DEF work
<1>6. AimInv'
  <2>1. Attempts(s)' /\ Aims(s)' /\ Links(s)'
    BY <1>1, <1>2, <1>4, <1>5 DEF Moves, Attempts, Aims, Links, Reconcile, H!Doing
  <2>2. ~Early'
    BY <1>1, <1>4, <1>5, CommitsAlone
  <2>3. /\ request'.status = request.status \/ changes' > changes
        /\ changes' \in Nat /\ changes' >= changes /\ request'.linked
    BY <1>1, <1>2
  <2> QED BY <1>1, <1>4, <1>5, <2>1, <2>2, <2>3, AimFrame
<1>7. FollowInv'
  BY <1>1 DEF FollowInv, H!Shadows
<1> QED BY <1>6, <1>7

LEMMA OthersFollow ==
  ASSUME AimInv, UNCHANGED <<request, position, notices, changes, hiringCall>>,
         posting' = posting \/ posting' # "live"
  PROVE  AimInv' /\ (FollowInv => FollowInv')
<1>1. AimInv'
  BY DEF AimInv, Attempts, Aims, Links, Early, Unlinked, Opens, H!Doing
<1>2. FollowInv => FollowInv'
  BY DEF FollowInv, Unclaimed, WillSet, WillUnpublish, Reliable, H!Shadows
<1> QED BY <1>1, <1>2

LEMMA FollowStepKeeps ==
  ASSUME HiringWaits, OneCall, HiringInv, AimInv, FollowInv, NeverGivesUp, [H!Next]_H!vars
  PROVE  AimInv' /\ FollowInv'
<1>1. ASSUME NEW s \in Sessions, H!Step(s) PROVE AimInv' /\ FollowInv'
  BY <1>1, BeginUpdateFollows, CommitUpdateFollows, BeginConsumeFollows, ReadPositionFollows,
     LinkPositionFollows, SetPositionFollows, CheckAgainFollows, UnpublishForRequestFollows,
     BeginOthersFollow, PublishPostingFollows, CreateOfferFollows, AcceptOfferFollows,
     DieFollows DEF H!Step
<1>2. ASSUME NEW i \in DOMAIN offers, H!SendOffer(i) \/ H!WithdrawOffer(i) \/ H!DeclineOffer(i)
      PROVE  AimInv' /\ FollowInv'
  BY <1>2, OthersFollow DEF H!SendOffer, H!WithdrawOffer, H!DeclineOffer, H!Answer
<1>3. ASSUME H!UnpublishPosting PROVE AimInv' /\ FollowInv'
  BY <1>3, OthersFollow DEF H!UnpublishPosting
<1>4. ASSUME UNCHANGED H!vars PROVE AimInv' /\ FollowInv'
  BY <1>4, OthersFollow DEF H!vars
<1> QED BY <1>1, <1>2, <1>3, <1>4 DEF H!Next

LEMMA FollowInit == ASSUME HiringWaits, H!Init PROVE AimInv /\ FollowInv
<1>1. \A s \in Sessions : hiringCall[s] = H!Idle
  BY DEF H!Init
<1>2. ~request.linked /\ request.status = "submitted" /\ changes = 0
  BY DEF H!Init
<1>3. \A s \in Sessions : Attempts(s) /\ Aims(s) /\ Links(s) /\ Opens(s)
  BY <1>1, <1>2, IdleType DEF Attempts, Aims, Links, Opens, Reconcile, H!Doing
<1> QED BY <1>2, <1>3 DEF AimInv, FollowInv, H!Closed

LEMMA FollowInvariance ==
  ASSUME HiringWaits, OneCall
  PROVE  H!Spec /\ []NeverGivesUp => [](AimInv /\ FollowInv)
<1>1. HiringInv /\ AimInv /\ FollowInv /\ NeverGivesUp /\ [H!Next]_H!vars => AimInv' /\ FollowInv'
  BY FollowStepKeeps
<1>2. H!Init => AimInv /\ FollowInv
  BY FollowInit
<1> QED BY <1>1, <1>2, HiringInvariance, PTL DEF H!Spec

\* With an attempt for every change, none is given up.
LEMMA AttemptsSuffice ==
  ASSUME HiringWaits, OneCall, MaxChanges <= MaxAttempts
  PROVE  H!Spec => [](AimInv /\ FollowInv)
<1>1. HiringInv /\ AimInv => NeverGivesUp
  <2>1. SUFFICES ASSUME HiringInv, AimInv, NEW s \in Sessions, hiringCall[s].at = "again",
                        hiringCall[s].attempt > MaxAttempts,
                        hiringCall[s].seen.status # request.status
                 PROVE  FALSE
    BY DEF NeverGivesUp
  <2>2. hiringCall[s].attempt <= changes
    BY <2>1 DEF AimInv, Attempts, Reconcile
  <2>3. changes \in 0..MaxChanges /\ hiringCall[s].attempt \in Nat
    BY <2>1, PastItsRead DEF HiringInv, H!TypeOK
  <2> QED BY <2>1, <2>2, <2>3, HiringNumbers
<1>2. HiringInv /\ AimInv /\ FollowInv /\ [H!Next]_H!vars => AimInv' /\ FollowInv'
  BY <1>1, FollowStepKeeps
<1>3. H!Init => AimInv /\ FollowInv
  BY FollowInit
<1> QED BY <1>2, <1>3, HiringInvariance, PTL DEF H!Spec

\* When no event waits and nobody is at work, nobody is left to follow.
LEMMA FollowMeans == ASSUME HiringWaits, FollowInv PROVE H!PositionFollows
<1>1. SUFFICES ASSUME notices = 0, \A s \in Sessions : hiringCall[s] = H!Idle
               PROVE  /\ request.linked => H!Shadows(request.status)
                      /\ request.status \in H!Closed => posting # "live"
  BY DEF H!PositionFollows
<1>2. ~Unclaimed /\ \A s \in Sessions : ~WillSet(s) /\ ~WillUnpublish(s)
  BY <1>1, IdleType DEF Unclaimed, WillSet, WillUnpublish, Reliable
<1> QED BY <1>2 DEF FollowInv

-----------------------------------------------------------------------------
(* A part that moves is a component                                        *)

PP == INSTANCE PayrollRunProofs
AA == INSTANCE AssignmentsProofs WITH
        LastDay <- LastLineDay, MaxRows <- MaxAssignments,
        rows <- assignments, lock <- lineLock, call <- lineCall

\* Every part follows its component, or stays as it began.
LEMMA PartsMove == Spec => P!Spec /\ R!Spec /\ A!Spec /\ H!Spec
<1>1. Init => P!Init /\ R!Init /\ A!Init /\ H!Init
  BY DEF Init
<1>2. UNCHANGED payroll => UNCHANGED P!vars
  BY DEF payroll, P!vars, P!rowVars
<1>3. UNCHANGED dated => UNCHANGED R!vars
  BY DEF dated, R!vars
<1>4. UNCHANGED reporting => UNCHANGED A!vars
  BY DEF reporting, A!vars
<1>5. UNCHANGED hiring => UNCHANGED H!vars
  BY DEF hiring, H!vars
<1>6. [Next]_vars => [P!Next]_P!vars /\ [R!Next]_R!vars /\ [A!Next]_A!vars /\ [H!Next]_H!vars
  BY <1>2, <1>3, <1>4, <1>5 DEF Next, vars
<1> QED BY <1>1, <1>6, PTL DEF Spec, P!Spec, R!Spec, A!Spec, H!Spec

\* The proofs' copy of a component takes the same steps.
LEMMA SamePayrollInit == P!Init => PP!Init
BY DEF P!Init, PP!Init, P!NoRun, PP!NoRun, P!NoLines, PP!NoLines, P!NoComponents,
       PP!NoComponents, P!NoTotals, PP!NoTotals, P!Idle, PP!Idle, P!LineIds, PP!LineIds,
       P!NoLine, PP!NoLine, P!NoPay, PP!NoPay, P!NoPayslip, PP!NoPayslip

LEMMA SamePayrollStep == ASSUME NEW s \in Sessions, P!Step(s) PROVE PP!Step(s)
<1>1. P!BeginCreate(s) => PP!BeginCreate(s)
  BY DEF P!BeginCreate, PP!BeginCreate, P!Begin, PP!Begin, P!rowVars, PP!rowVars, P!Idle,
         PP!Idle
<1>2. P!CommitCreate(s) => PP!CommitCreate(s)
  BY DEF P!CommitCreate, PP!CommitCreate, P!Doing, PP!Doing, P!NoRun, PP!NoRun,
         P!PersistDraft, PP!PersistDraft, P!NoTotals, PP!NoTotals, P!LineIds, PP!LineIds,
         P!ComputedLine, PP!ComputedLine, P!ComputedPay, PP!ComputedPay, P!End, PP!End,
         P!NoPayslip, PP!NoPayslip, P!NoPay, PP!NoPay, P!NoLine, PP!NoLine, P!Idle, PP!Idle
<1>3. P!BeginRegenerate(s) => PP!BeginRegenerate(s)
  BY DEF P!BeginRegenerate, PP!BeginRegenerate, P!IsDraft, PP!IsDraft, P!Begin, PP!Begin,
         P!NoRun, PP!NoRun, P!rowVars, PP!rowVars, P!NoTotals, PP!NoTotals, P!NoPay,
         PP!NoPay, P!NoPayslip, PP!NoPayslip, P!Idle, PP!Idle
<1>4. P!LoadRun(s) => PP!LoadRun(s)
  BY DEF P!LoadRun, PP!LoadRun, P!Doing, PP!Doing, P!rowVars, PP!rowVars
<1>5. P!CommitRegenerate(s) => PP!CommitRegenerate(s)
  BY DEF P!CommitRegenerate, PP!CommitRegenerate, P!Doing, PP!Doing, P!PersistDraft,
         PP!PersistDraft, P!LineIds, PP!LineIds, P!ComputedLine, PP!ComputedLine,
         P!ComputedPay, PP!ComputedPay, P!End, PP!End, P!NoPay, PP!NoPay, P!NoLine,
         PP!NoLine, P!Idle, PP!Idle
<1>6. \A id \in P!LineIds : P!ReadLine(s, id) => PP!ReadLine(s, id)
  BY DEF P!ReadLine, PP!ReadLine, P!NoLine, PP!NoLine, P!NoPay, PP!NoPay, P!IsDraft,
         PP!IsDraft, P!Begin, PP!Begin, P!rowVars, PP!rowVars, P!Idle, PP!Idle
<1>7. \A days \in PayableDays : P!UpdateRunLine(s, days) => PP!UpdateRunLine(s, days)
  BY DEF P!UpdateRunLine, PP!UpdateRunLine, P!Prorated, PP!Prorated, P!Doing, PP!Doing,
         P!Present, PP!Present, P!NoPay, PP!NoPay, P!End, PP!End, P!LineIds, PP!LineIds,
         P!NoLine, PP!NoLine, P!Idle, PP!Idle
<1>8. P!RemoveRunLine(s) => PP!RemoveRunLine(s)
  BY DEF P!RemoveRunLine, PP!RemoveRunLine, P!Doing, PP!Doing, P!NoLine, PP!NoLine,
         P!NoPay, PP!NoPay, P!End, PP!End, P!Idle, PP!Idle
<1>9. P!BeginFinalize(s) => PP!BeginFinalize(s)
  BY DEF P!BeginFinalize, PP!BeginFinalize, P!IsDraft, PP!IsDraft, P!Present, PP!Present,
         P!Begin, PP!Begin, P!NoComponents, PP!NoComponents, P!rowVars, PP!rowVars,
         P!LineIds, PP!LineIds, P!NoLine, PP!NoLine, P!NoPay, PP!NoPay, P!Idle, PP!Idle
<1>10. P!PrepareLines(s) => PP!PrepareLines(s)
  BY DEF P!PrepareLines, PP!PrepareLines, P!Doing, PP!Doing, P!LineIds, PP!LineIds,
         P!Present, PP!Present, P!NoPay, PP!NoPay, P!NoLine, PP!NoLine, P!rowVars,
         PP!rowVars
<1>11. P!CommitFinalize(s) => PP!CommitFinalize(s)
  BY DEF P!CommitFinalize, PP!CommitFinalize, P!NoPayslipYet, PP!NoPayslipYet, P!Prepared,
         PP!Prepared, P!PreparedPayslip, PP!PreparedPayslip, P!NoPayslip, PP!NoPayslip,
         P!Doing, PP!Doing, P!End, PP!End, P!Present, PP!Present, P!NoPay, PP!NoPay,
         P!LineIds, PP!LineIds, P!NoLine, PP!NoLine, P!Idle, PP!Idle
<1>12. P!BeginMark(s) => PP!BeginMark(s)
  BY DEF P!BeginMark, PP!BeginMark, P!IsDraft, PP!IsDraft, P!Begin, PP!Begin, P!Idle,
         PP!Idle, P!rowVars, PP!rowVars, P!Cardinality, PP!Cardinality
<1>13. P!MarkDraftsStale(s) => PP!MarkDraftsStale(s)
  BY DEF P!MarkDraftsStale, PP!MarkDraftsStale, P!Doing, PP!Doing, P!End, PP!End, P!Idle,
         PP!Idle
<1>14. P!BeginPay(s) => PP!BeginPay(s)
  BY DEF P!BeginPay, PP!BeginPay, P!Payable, PP!Payable, P!Begin, PP!Begin, P!rowVars,
         PP!rowVars, P!Idle, PP!Idle
<1>15. P!MarkRunPaid(s) => PP!MarkRunPaid(s)
  BY DEF P!MarkRunPaid, PP!MarkRunPaid, P!Doing, PP!Doing, P!End, PP!End, P!Idle, PP!Idle
<1>16. P!Fail(s) => PP!Fail(s)
  BY DEF P!Fail, PP!Fail, P!Idle, PP!Idle, P!End, PP!End, P!rowVars, PP!rowVars
<1> QED BY <1>1, <1>2, <1>3, <1>4, <1>5, <1>6, <1>7, <1>8, <1>9, <1>10, <1>11, <1>12, <1>13,
       <1>14, <1>15, <1>16 DEF P!Step, PP!Step, P!LineIds, PP!LineIds

LEMMA SamePayroll == P!Spec => PP!Spec
<1>1. P!Next => PP!Next
  <2>1. \A e \in Employees : P!Revise(e) => PP!Revise(e)
    BY DEF P!Revise, PP!Revise, P!rowVars, PP!rowVars
  <2>2. \A s \in Sessions : P!Step(s) => PP!Step(s)
    BY SamePayrollStep
  <2> QED BY <2>1, <2>2 DEF P!Next, PP!Next
<1>2. UNCHANGED P!vars => UNCHANGED PP!vars
  BY DEF P!vars, PP!vars, P!rowVars, PP!rowVars
<1>3. [P!Next]_P!vars => [PP!Next]_PP!vars
  BY <1>1, <1>2
<1> QED BY <1>3, SamePayrollInit, PTL DEF P!Spec, PP!Spec

\* Both copies read the same assignments.
LEMMA SameReading ==
  /\ \A e, day : A!Current(e, day) = AA!Current(e, day)
  /\ \A new, replaced : A!NoPrimaryOverlap(new, replaced) = AA!NoPrimaryOverlap(new, replaced)
  /\ \A e, boss, day : A!NoCycleWith(e, boss, day) = AA!NoCycleWith(e, boss, day)
<1>1. \A e, day : A!Current(e, day) = AA!Current(e, day)
  BY DEF A!Current, AA!Current, A!Ids, AA!Ids, A!InForce, AA!InForce, A!NoId, AA!NoId
<1>2. \A new, replaced : A!NoPrimaryOverlap(new, replaced) = AA!NoPrimaryOverlap(new, replaced)
  BY DEF A!NoPrimaryOverlap, AA!NoPrimaryOverlap, A!Ids, AA!Ids, A!Overlap, AA!Overlap
<1>3. \A day : A!Readings(day) = AA!Readings(day)
  BY <1>1 DEF A!Readings, AA!Readings, A!Boss, AA!Boss, A!NoOne, AA!NoOne, A!NoId, AA!NoId,
              A!Bosses, AA!Bosses
<1>4. A!Cardinality(Employees) = AA!Cardinality(Employees)
  BY DEF A!Cardinality, AA!Cardinality
<1>5. \A e, reading : A!Above(e, reading) = AA!Above(e, reading)
  BY <1>4 DEF A!Above, AA!Above, A!NoOne, AA!NoOne
<1>6. \A e, boss, day : A!NoCycleWith(e, boss, day) = AA!NoCycleWith(e, boss, day)
  BY <1>3, <1>4, <1>5 DEF A!NoCycleWith, AA!NoCycleWith, A!NoOne, AA!NoOne
<1> QED BY <1>1, <1>2, <1>6

LEMMA SameLinesStep == ASSUME NEW s \in Sessions, A!Step(s) PROVE AA!Step(s)
<1>1. \A work, locked : A!Begin(s, work, locked) => AA!Begin(s, work, locked)
  BY DEF A!Begin, AA!Begin, A!Idle, AA!Idle, A!LockIsFree, AA!LockIsFree, A!NoRow, AA!NoRow,
         A!Nobody, AA!Nobody, A!NoOne, AA!NoOne, A!NoId, AA!NoId
<1>2. A!NoId = AA!NoId /\ A!NoOne = AA!NoOne /\ A!Open = AA!Open
  BY DEF A!NoId, AA!NoId, A!NoOne, AA!NoOne, A!Open, AA!Open
<1>3. \A new \in A!Rows : A!BeginCreate(s, new) => AA!BeginCreate(s, new)
  BY <1>1, <1>2, SameReading DEF A!BeginCreate, AA!BeginCreate
<1>4. \A new \in A!Rows : A!BeginSetReportingLine(s, new) => AA!BeginSetReportingLine(s, new)
  BY <1>1, <1>2, SameReading DEF A!BeginSetReportingLine, AA!BeginSetReportingLine
<1>5. A!CommitCreate(s) => AA!CommitCreate(s)
  BY <1>2 DEF A!CommitCreate, AA!CommitCreate, A!Ids, AA!Ids, A!OpenIsUnique,
         AA!OpenIsUnique, A!Release, AA!Release, A!Idle, AA!Idle, A!Nobody, AA!Nobody,
         A!NoRow, AA!NoRow
<1>6. A!CorrectReportingLine(s) => AA!CorrectReportingLine(s)
  BY <1>2 DEF A!CorrectReportingLine, AA!CorrectReportingLine, A!Release, AA!Release,
         A!Idle, AA!Idle, A!Nobody, AA!Nobody, A!NoRow, AA!NoRow
<1>7. A!Fail(s) => AA!Fail(s)
  BY <1>2 DEF A!Fail, AA!Fail, A!Idle, AA!Idle, A!Release, AA!Release, A!NoRow, AA!NoRow,
         A!Nobody, AA!Nobody
<1> QED BY <1>3, <1>4, <1>5, <1>6, <1>7 DEF A!Step, AA!Step, A!Rows, AA!Rows, A!Bosses,
       AA!Bosses, A!NoOne, AA!NoOne, A!Days, AA!Days, A!Open, AA!Open

LEMMA SameLines == A!Spec => AA!Spec
<1>1. A!Init => AA!Init
  BY DEF A!Init, AA!Init, A!Ids, AA!Ids, A!NoRow, AA!NoRow, A!Nobody, AA!Nobody, A!Idle,
         AA!Idle, A!NoOne, AA!NoOne, A!NoId, AA!NoId
<1>2. \A i \in A!Ids, day \in A!Days : A!EndAssignment(i, day) => AA!EndAssignment(i, day)
  BY DEF A!EndAssignment, AA!EndAssignment, A!LockIsFree, AA!LockIsFree, A!Open, AA!Open,
         A!Nobody, AA!Nobody
<1>3. A!Next => AA!Next
  <2>1. \A s \in Sessions : A!Step(s) => AA!Step(s)
    BY SameLinesStep
  <2> QED BY <1>2, <2>1 DEF A!Next, AA!Next, A!Ids, AA!Ids, A!Days, AA!Days
<1>4. UNCHANGED A!vars => UNCHANGED AA!vars
  BY DEF A!vars, AA!vars
<1>5. [A!Next]_A!vars => [AA!Next]_AA!vars
  BY <1>3, <1>4
<1> QED BY <1>1, <1>5, PTL DEF A!Spec, AA!Spec

\* The constants are those the components' theorems ask for.
LEMMA PartsWait ==
  PP!PayrollAssumption /\ AA!LinesAssumption /\ HiringWaits /\ (OneCall => RangeWaits)
<1>1. PP!PayrollAssumption
  <2>1. P!PayrollAssumption
    BY ConstantsAssumption
  <2>2. P!IsFiniteSet(Employees) = PP!IsFiniteSet(Employees)
    BY DEF P!IsFiniteSet, PP!IsFiniteSet
  <2>3. P!IsFiniteSet(Sessions) = PP!IsFiniteSet(Sessions)
    BY DEF P!IsFiniteSet, PP!IsFiniteSet
  <2> QED BY <2>1, <2>2, <2>3 DEF P!PayrollAssumption, PP!PayrollAssumption
<1>2. AA!LinesAssumption
  <2>1. A!LinesAssumption
    BY ConstantsAssumption
  <2>2. A!IsFiniteSet(Employees) = AA!IsFiniteSet(Employees)
    BY DEF A!IsFiniteSet, AA!IsFiniteSet
  <2> QED BY <2>1, <2>2 DEF A!LinesAssumption, AA!LinesAssumption
<1> QED BY <1>1, <1>2, ConstantsAssumption DEF RangeWaits, HiringWaits

-----------------------------------------------------------------------------
(* Theorems                                                                *)

\* Runs, ranges, assignments and requests keep their types for any number of
\* sessions, employees, rows and attempts (while calls wait as Apart says).
THEOREM TypeCorrect == ASSUME OneCall PROVE Spec => []TypeOK
<1>1. P!Spec => []P!TypeOK
  <2>1. PP!Spec => []PP!TypeOK
    BY PartsWait, PP!TypeCorrect
  <2>2. PP!TypeOK => P!TypeOK
    BY DEF P!TypeOK, PP!TypeOK, P!Facts, PP!Facts, P!Runs, PP!Runs, P!Held, PP!Held,
           P!HeldComponents, PP!HeldComponents, P!AllPayslips, PP!AllPayslips, P!Calls,
           PP!Calls, P!LineIds, PP!LineIds, P!Lines, PP!Lines, P!NoLine, PP!NoLine, P!Pays,
           PP!Pays, P!NoPay, PP!NoPay, P!Payslips, PP!Payslips, P!NoPayslip, PP!NoPayslip,
           P!Idle, PP!Idle
  <2> QED BY <2>1, <2>2, SamePayroll, PTL
<1>2. A!Spec => []A!TypeOK
  <2>1. AA!Spec => []AA!TypeOK
    BY PartsWait, AA!TypeCorrect
  <2>2. AA!TypeOK => A!TypeOK
    BY DEF A!TypeOK, AA!TypeOK, A!Ids, AA!Ids, A!Rows, AA!Rows, A!NoRow, AA!NoRow, A!Nobody,
           AA!Nobody, A!Calls, AA!Calls, A!Idle, AA!Idle, A!Bosses, AA!Bosses, A!Days, AA!Days,
           A!Open, AA!Open, A!NoOne, AA!NoOne, A!NoId, AA!NoId
  <2> QED BY <2>1, <2>2, SameLines, PTL
<1>3. R!Spec => []R!TypeOK
  BY PartsWait, RangeTypeCorrect
<1>4. H!Spec => []H!TypeOK
  <2>1. H!Spec => []HiringInv
    BY PartsWait, HiringInvariance
  <2> QED BY <2>1, HiringMeans, PTL
<1>5. P!TypeOK /\ R!TypeOK /\ A!TypeOK /\ H!TypeOK => TypeOK
  BY DEF TypeOK
<1> QED BY <1>1, <1>2, <1>3, <1>4, <1>5, PartsMove, PTL

\* No revision after the draft was saved is forgotten, whatever revisions,
\* computations, edits, finalizations and consumers interleave, with nobody
\* waiting for anybody (persistDraft, markDraftsStaleForChange).
THEOREM NoRevisionIsForgotten == Spec => []RevisionsAreFlagged
<1>1. PP!Spec => []PP!RevisionsAreFlagged
  BY PartsWait, PP!NoRevisionIsForgotten
<1>2. PP!RevisionsAreFlagged => P!RevisionsAreFlagged
  BY DEF P!RevisionsAreFlagged, PP!RevisionsAreFlagged, P!IsDraft, PP!IsDraft
<1>3. P!RevisionsAreFlagged => RevisionsAreFlagged
  BY DEF RevisionsAreFlagged
<1> QED BY <1>1, <1>2, <1>3, SamePayroll, PartsMove, PTL

\* However finalizations, edits and computations overlap, a payslip is issued
\* once, announced once and never changed (finalizeRun).
THEOREM PayslipsIssuedOnce == Spec => []PayslipsAnnouncedOnce
<1>1. PP!Spec => []PP!PayslipsAnnouncedOnce
  BY PartsWait, PP!PayslipsIssuedOnce
<1>2. PP!PayslipsAnnouncedOnce => P!PayslipsAnnouncedOnce
  BY DEF P!PayslipsAnnouncedOnce, PP!PayslipsAnnouncedOnce, P!Announcing, PP!Announcing,
         P!NoPayslip, PP!NoPayslip, P!NoPay, PP!NoPay
<1>3. P!PayslipsAnnouncedOnce => PayslipsAnnouncedOnce
  BY DEF PayslipsAnnouncedOnce
<1> QED BY <1>1, <1>2, <1>3, SamePayroll, PartsMove, PTL

\* However late the copies are saved, a run is a draft without totals and
\* payment, or finalized with announced totals (payroll-run.service.ts).
THEOREM NeverHalfFinalized == Spec => []RunIsWhole
<1>1. PP!Spec => []PP!RunIsWhole
  BY PartsWait, PP!NeverHalfFinalized
<1>2. PP!RunIsWhole => P!RunIsWhole
  BY DEF P!RunIsWhole, PP!RunIsWhole, P!NoTotals, PP!NoTotals, P!NoPayslip, PP!NoPayslip,
         P!NoPay, PP!NoPay
<1>3. P!RunIsWhole => RunIsWhole
  BY DEF RunIsWhole
<1> QED BY <1>1, <1>2, <1>3, SamePayroll, PartsMove, PTL

\* At most one row is in force on a day, and a tax profile has no gap, for any
\* number of sessions that insert together (persistRevision, setTaxProfile,
\* setEnrollment and setMember), while closings and entitlement upserts overlap no
\* other call.
THEOREM NeverTwoInForce == ASSUME OneCall PROVE Spec => []RangesPartition
<1>1. R!Spec => []R!RangesPartition
  BY PartsWait, RangeNeverTwoInForce
<1>2. R!RangesPartition => RangesPartition
  BY DEF RangesPartition
<1> QED BY <1>1, <1>2, PartsMove, PTL

\* "Historical pay records are never overwritten": no call moves the start of a
\* row or the end of a closed one, while closings and entitlement upserts overlap
\* no other call.
THEOREM HistoryIsKept == ASSUME OneCall PROVE Spec => HistoryStands
<1>1. R!Spec => R!HistoryStands
  BY PartsWait, RangeHistoryIsKept
<1> QED BY <1>1, PartsMove, PTL DEF HistoryStands

\* Whatever calls race, two primary assignments that were inserted under the
\* workspace's lock never share a day (assertNoPrimaryOverlap).
THEOREM GuardedNeverOverlap == Spec => []GuardedDisjoint
<1>1. AA!Spec => []AA!GuardedDisjoint
  BY PartsWait, AA!GuardedNeverOverlap
<1>2. AA!GuardedDisjoint => A!GuardedDisjoint
  BY DEF A!GuardedDisjoint, AA!GuardedDisjoint, A!Days, AA!Days, A!InForce, AA!InForce
<1>3. A!GuardedDisjoint => GuardedDisjoint
  BY DEF GuardedDisjoint
<1> QED BY <1>1, <1>2, <1>3, SameLines, PartsMove, PTL

\* No race of calls commits a line that puts its employee, on the day the line
\* starts, above themselves over any number of steps, for any number of
\* employees and effective dates in any order (assertNoReportingCycle).
THEOREM LinesCloseNoLoop == Spec => LineClosesNoLoop
<1>1. AA!Spec => AA!LineClosesNoLoop
  BY PartsWait, AA!LinesCloseNoLoop
<1> DEFINE Step(i) ==
      LET line == assignments'[i] IN
      /\ line.boss \notin {A!NoOne, assignments[i].boss}
      /\ A!InForce(line, line.from)
      /\ A!OnePrimaryOn(assignments', line.from)
      => A!NotAboveThemselves(assignments', line.who, line.from)
<1> DEFINE ProvedStep(i) ==
      LET line == assignments'[i] IN
      /\ line.boss \notin {AA!NoOne, assignments[i].boss}
      /\ AA!InForce(line, line.from)
      /\ AA!OnePrimaryOn(assignments', line.from)
      => AA!NotAboveThemselves(assignments', line.who, line.from)
<1>2. [\A i \in AA!Ids : ProvedStep(i)]_AA!vars => [\A i \in A!Ids : Step(i)]_A!vars
  <2>1. A!Ids = AA!Ids /\ A!NoOne = AA!NoOne /\ (UNCHANGED A!vars <=> UNCHANGED AA!vars)
    BY DEF A!Ids, AA!Ids, A!NoOne, AA!NoOne, A!vars, AA!vars
  <2>2. \A rows, day : A!OnePrimaryOn(rows, day) = AA!OnePrimaryOn(rows, day)
    BY DEF A!OnePrimaryOn, AA!OnePrimaryOn, A!Ids, AA!Ids, A!NoOne, AA!NoOne, A!InForce,
           AA!InForce
  <2>3. \A rows, e, day : A!NotAboveThemselves(rows, e, day) = AA!NotAboveThemselves(rows, e, day)
    BY DEF A!NotAboveThemselves, AA!NotAboveThemselves, A!ManagersOf, AA!ManagersOf, A!Ids,
           AA!Ids, A!NoOne, AA!NoOne, A!InForce, AA!InForce
  <2>4. \A line, day : A!InForce(line, day) = AA!InForce(line, day)
    BY DEF A!InForce, AA!InForce
  <2>5. ASSUME NEW i \in A!Ids, ProvedStep(i) PROVE Step(i)
    BY <2>1, <2>2, <2>3, <2>4, <2>5
  <2> HIDE DEF Step, ProvedStep
  <2> QED BY <2>1, <2>5
<1>3. [][\A i \in AA!Ids : ProvedStep(i)]_AA!vars => [][\A i \in A!Ids : Step(i)]_A!vars
  BY <1>2, PTL
<1>4. AA!LineClosesNoLoop => A!LineClosesNoLoop
  BY <1>3 DEF A!LineClosesNoLoop, AA!LineClosesNoLoop
<1> QED BY <1>1, <1>4, SameLines, PartsMove, PTL DEF LineClosesNoLoop

\* Whatever updates, reconciliations, answers and dying calls interleave with
\* acceptances, and acceptances with each other, there is one employee for every
\* accepted offer (acceptOffer).
THEOREM HiresMatchAcceptances == Spec => []HiresAreAcceptances
<1>1. H!Spec => []HiringInv
  BY PartsWait, HiringInvariance
<1>2. HiringInv => HiresAreAcceptances
  BY HiringMeans DEF HiresAreAcceptances
<1> QED BY <1>1, <1>2, PartsMove, PTL

\* At rest, position and posting follow the request, however reconciliations of
\* updates, acceptances and redelivered events interleave, while calls that save
\* the request or the posting do not overlap and no reconciliation uses up its
\* attempts (reconcilePosition; hiringRequest.updated).
THEOREM PositionFollowsUnlessGivenUp ==
  ASSUME OneCall
  PROVE  Spec /\ []NeverGivesUp => []PositionFollows
<1>1. H!Spec /\ []NeverGivesUp => []FollowInv
  BY PartsWait, FollowInvariance, PTL
<1>2. FollowInv => PositionFollows
  BY PartsWait, FollowMeans DEF PositionFollows
<1> QED BY <1>1, <1>2, PartsMove, PTL

\* The same without a hypothesis on the reconciliations, while the request
\* changes no more often than one of them tries.
THEOREM PositionFollowsFewChanges ==
  ASSUME OneCall, MaxChanges <= MaxAttempts
  PROVE  Spec => []PositionFollows
<1>1. H!Spec => []FollowInv
  BY PartsWait, AttemptsSuffice, PTL
<1>2. FollowInv => PositionFollows
  BY PartsWait, FollowMeans DEF PositionFollows
<1> QED BY <1>1, <1>2, PartsMove, PTL

=============================================================================
