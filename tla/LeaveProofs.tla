---------------------------- MODULE LeaveProofs -----------------------------
(***************************************************************************)
(* Proofs about Leave: its type invariant, the agreement of the running    *)
(* totals with the requests, that no year is oversubscribed, and that the  *)
(* concurrent transactions implement the serial ledger.                    *)
(***************************************************************************)
EXTENDS Leave, FiniteSetTheorems, TLAPS

LEMMA Types ==
  /\ Costs = [Years -> 0..MaxDays]
  /\ MaxDays \in Nat
  /\ NoDays \in Costs
  /\ NoRow \in Rows
BY DaysAssumption DEF Costs, NoDays, NoRow, Rows

\* The row that a year is opened with, and what a draft makes of it.
LEMMA RowTypes ==
  ASSUME NEW row \in Rows, NEW n \in 0..MaxDays
  PROVE  /\ \A granted \in Entitlements :
              /\ Opened(row, granted) \in Rows
              /\ Opened(row, granted).exists
         /\ Reserved(row, n) \in Rows
         /\ \A o : Settled(row, n, o) \in Rows
BY DaysAssumption DEF Rows, Opened, Reserved, Settled

-----------------------------------------------------------------------------
LEMMA StepCases ==
  ASSUME [Next]_vars
  PROVE  \/ UNCHANGED vars
         \/ \E s \in Sessions :
              \/ BeginSubmit(s) \/ ResolveEntitlement(s) \/ CommitSubmit(s)
              \/ BeginDecide(s) \/ LockRequest(s) \/ CommitDecide(s)
              \/ \E y \in Years : ReserveYear(s, y) \/ SettleYear(s, y)
              \/ Rollback(s)
BY DEF Next, Work, RefuseDecision, RefuseYear, Fail

LEMMA Unchanged ==
  ASSUME UNCHANGED vars
  PROVE  /\ status' = status /\ days' = days /\ approval' = approval
         /\ announced' = announced /\ balance' = balance
         /\ step' = step /\ target' = target /\ outcome' = outcome
         /\ cost' = cost /\ locked' = locked /\ draft' = draft
BY DEF vars, rowVars, sessionVars

LEMMA TypeInit == Init => TypeOK
BY Types, RequestsAssumption
DEF Init, TypeOK, Statuses, W!ApprovalInit, W!ApprovalTypeOK, W!Outcomes

LEMMA EndTypes ==
  ASSUME TypeOK, NEW s \in Sessions, End(s)
  PROVE  /\ step' \in [Sessions -> {"idle", "resolve", "reserve", "find", "settle"}]
         /\ target' \in [Sessions -> Requests]
         /\ outcome' \in [Sessions -> W!Outcomes]
         /\ cost' \in [Sessions -> Costs]
         /\ locked' \in [Sessions -> SUBSET Years]
         /\ draft' \in [Sessions -> [Years -> Rows]]
<1>1. (CHOOSE q \in Requests : TRUE) \in Requests
  BY RequestsAssumption
<1> QED
  BY <1>1, Types DEF TypeOK, End, W!Outcomes

LEMMA LockTypes ==
  ASSUME TypeOK, NEW s \in Sessions, NEW y \in Years, NEW row \in Rows, Lock(s, y, row)
  PROVE  /\ locked' \in [Sessions -> SUBSET Years]
         /\ draft' \in [Sessions -> [Years -> Rows]]
<1>1. [draft[s] EXCEPT ![y] = row] \in [Years -> Rows]
  BY DEF TypeOK
<1> QED
  BY <1>1 DEF TypeOK, Lock

LEMMA CommitTypes ==
  ASSUME TypeOK, NEW s \in Sessions, CommitDrafts(s)
  PROVE  balance' \in [Years -> Rows]
BY DEF TypeOK, CommitDrafts

LEMMA TypeInductive ==
  ASSUME TypeOK, [Next]_vars
  PROVE  TypeOK'
<1>1. CASE UNCHANGED vars
  BY <1>1, Unchanged DEF TypeOK, W!ApprovalTypeOK
<1>2. ASSUME NEW s \in Sessions, BeginSubmit(s)
      PROVE  TypeOK'
  BY <1>2 DEF TypeOK, BeginSubmit, rowVars, W!ApprovalTypeOK
<1>3. ASSUME NEW s \in Sessions, ResolveEntitlement(s)
      PROVE  TypeOK'
  BY <1>3 DEF TypeOK, ResolveEntitlement, rowVars, W!ApprovalTypeOK
<1>4. ASSUME NEW s \in Sessions, CommitSubmit(s)
      PROVE  TypeOK'
  <2>1. /\ status' \in [Requests -> Statuses]
        /\ days' \in [Requests -> Costs]
        /\ announced' \in [Requests -> SUBSET Statuses]
    BY <1>4 DEF TypeOK, CommitSubmit, Statuses
  <2>2. W!ApprovalTypeOK'
    BY <1>4 DEF TypeOK, CommitSubmit, W!ApprovalTypeOK, W!RequestApproval
  <2> QED
    BY <1>4, <2>1, <2>2, EndTypes, CommitTypes DEF CommitSubmit, TypeOK
<1>5. ASSUME NEW s \in Sessions, BeginDecide(s)
      PROVE  TypeOK'
  BY <1>5 DEF TypeOK, BeginDecide, rowVars, W!ApprovalTypeOK
<1>6. ASSUME NEW s \in Sessions, LockRequest(s)
      PROVE  TypeOK'
  BY <1>6 DEF TypeOK, LockRequest, rowVars, W!ApprovalTypeOK
<1>7. ASSUME NEW s \in Sessions, CommitDecide(s)
      PROVE  TypeOK'
  <2>1. /\ status' \in [Requests -> Statuses]
        /\ days' \in [Requests -> Costs]
        /\ announced' \in [Requests -> SUBSET Statuses]
    BY <1>7 DEF TypeOK, CommitDecide, Statuses
  <2>2. W!ApprovalTypeOK'
    BY <1>7 DEF TypeOK, CommitDecide, W!ApprovalTypeOK, W!DecideApproval
  <2> QED
    BY <1>7, <2>1, <2>2, EndTypes, CommitTypes DEF CommitDecide, TypeOK
<1>8. ASSUME NEW s \in Sessions, NEW y \in Years, ReserveYear(s, y)
      PROVE  TypeOK'
  <2>1. PICK granted \in Entitlements :
          Lock(s, y, Reserved(Opened(balance[y], granted), cost[s][y]))
    BY <1>8 DEF ReserveYear
  <2>2. balance[y] \in Rows /\ cost[s][y] \in 0..MaxDays
    BY Types DEF TypeOK
  <2>3. Reserved(Opened(balance[y], granted), cost[s][y]) \in Rows
    BY <2>2, RowTypes
  <2> QED
    BY <1>8, <2>1, <2>3, LockTypes DEF ReserveYear, rowVars, TypeOK, W!ApprovalTypeOK
<1>9. ASSUME NEW s \in Sessions, NEW y \in Years, SettleYear(s, y)
      PROVE  TypeOK'
  <2>1. balance[y] \in Rows /\ cost[s][y] \in 0..MaxDays
    BY Types DEF TypeOK
  <2>2. Settled(balance[y], cost[s][y], outcome[s]) \in Rows
    BY <2>1, RowTypes
  <2> QED
    BY <1>9, <2>2, LockTypes DEF SettleYear, rowVars, TypeOK, W!ApprovalTypeOK
<1>10. ASSUME NEW s \in Sessions, Rollback(s)
       PROVE  TypeOK'
  BY <1>10, EndTypes DEF Rollback, rowVars, TypeOK, W!ApprovalTypeOK
<1> QED
  BY <1>1, <1>2, <1>3, <1>4, <1>5, <1>6, <1>7, <1>8, <1>9, <1>10, StepCases

\* Every variable keeps its type: running totals stay natural numbers, and no
\* request, approval or session is left in a status or step the code lacks.
THEOREM TypeCorrect == Spec => []TypeOK
BY TypeInit, TypeInductive, PTL DEF Spec

-----------------------------------------------------------------------------
(* Locks *)

LEMMA LocksInductive ==
  ASSUME TypeOK, LocksInv, [Next]_vars
  PROVE  LocksInv'
<1>1. CASE UNCHANGED vars
  BY <1>1, Unchanged DEF LocksInv, Submitting, Touched
<1>2. ASSUME NEW s \in Sessions, BeginSubmit(s)
      PROVE  LocksInv'
  <2> SUFFICES ASSUME NEW t \in Sessions PROVE LocksInv!(t)'
    BY DEF LocksInv
  <2> QED
    BY <1>2 DEF TypeOK, LocksInv, BeginSubmit, Submitting, Touched, rowVars
<1>3. ASSUME NEW s \in Sessions, ResolveEntitlement(s)
      PROVE  LocksInv'
  <2> SUFFICES ASSUME NEW t \in Sessions PROVE LocksInv!(t)'
    BY DEF LocksInv
  <2> QED
    BY <1>3 DEF TypeOK, LocksInv, ResolveEntitlement, Submitting, Touched, rowVars
<1>4. ASSUME NEW s \in Sessions, CommitSubmit(s)
      PROVE  LocksInv'
  <2> SUFFICES ASSUME NEW t \in Sessions PROVE LocksInv!(t)'
    BY DEF LocksInv
  <2> QED
    BY <1>4 DEF TypeOK, LocksInv, CommitSubmit, End, Submitting, Touched
<1>5. ASSUME NEW s \in Sessions, BeginDecide(s)
      PROVE  LocksInv'
  <2> SUFFICES ASSUME NEW t \in Sessions PROVE LocksInv!(t)'
    BY DEF LocksInv
  <2> QED
    BY <1>5 DEF TypeOK, LocksInv, BeginDecide, Submitting, Touched, rowVars
<1>6. ASSUME NEW s \in Sessions, LockRequest(s)
      PROVE  LocksInv'
  <2> SUFFICES ASSUME NEW t \in Sessions PROVE LocksInv!(t)'
    BY DEF LocksInv
  <2> QED
    BY <1>6 DEF TypeOK, LocksInv, LockRequest, RequestFree, Submitting, Touched, rowVars
<1>7. ASSUME NEW s \in Sessions, CommitDecide(s)
      PROVE  LocksInv'
  <2> SUFFICES ASSUME NEW t \in Sessions PROVE LocksInv!(t)'
    BY DEF LocksInv
  <2> QED
    BY <1>7 DEF TypeOK, LocksInv, CommitDecide, End, Submitting, Touched, W!Outcomes
<1>8. ASSUME NEW s \in Sessions, NEW y \in Years, ReserveYear(s, y)
      PROVE  LocksInv'
  <2>1. locked' = [locked EXCEPT ![s] = @ \cup {y}]
    BY <1>8 DEF ReserveYear, Lock
  <2> SUFFICES ASSUME NEW t \in Sessions PROVE LocksInv!(t)'
    BY DEF LocksInv
  <2> QED
    BY <1>8, <2>1 DEF TypeOK, LocksInv, ReserveYear, NextYear, RowFree, Submitting, Touched, rowVars
<1>9. ASSUME NEW s \in Sessions, NEW y \in Years, SettleYear(s, y)
      PROVE  LocksInv'
  <2>1. locked' = [locked EXCEPT ![s] = @ \cup {y}]
    BY <1>9 DEF SettleYear, Lock
  <2> SUFFICES ASSUME NEW t \in Sessions PROVE LocksInv!(t)'
    BY DEF LocksInv
  <2> QED
    BY <1>9, <2>1 DEF TypeOK, LocksInv, SettleYear, NextYear, RowFree, Submitting, Touched, rowVars
<1>10. ASSUME NEW s \in Sessions, Rollback(s)
       PROVE  LocksInv'
  <2> SUFFICES ASSUME NEW t \in Sessions PROVE LocksInv!(t)'
    BY DEF LocksInv
  <2> QED
    BY <1>10 DEF TypeOK, LocksInv, Rollback, End, Submitting, Touched, rowVars
<1> QED
  BY <1>1, <1>2, <1>3, <1>4, <1>5, <1>6, <1>7, <1>8, <1>9, <1>10, StepCases

-----------------------------------------------------------------------------
(* Drafts *)

\* A step that leaves the committed balances, the calls and a session's
\* drafts alone leaves what is known of them.
LEMMA DraftKept ==
  ASSUME TypeOK, DraftInv, NEW t \in Sessions,
         balance' = balance, cost'[t] = cost[t], outcome'[t] = outcome[t],
         locked'[t] = locked[t], draft'[t] = draft[t],
         Submitting(t)' <=> Submitting(t), (step[t] = "settle")' <=> step[t] = "settle"
  PROVE  DraftInv!(t)'
BY DEF DraftInv

\* A commit changes only rows that no other session has a draft of.
LEMMA DraftAfterCommit ==
  ASSUME TypeOK, LocksInv, DraftInv, NEW s \in Sessions, CommitDrafts(s), End(s), NEW t \in Sessions
  PROVE  DraftInv!(t)'
<1>1. CASE t = s
  BY <1>1 DEF End, TypeOK
<1>2. CASE t # s
  <2>1. /\ cost'[t] = cost[t] /\ outcome'[t] = outcome[t] /\ locked'[t] = locked[t]
        /\ draft'[t] = draft[t] /\ step'[t] = step[t]
    BY <1>2 DEF End, TypeOK
  <2>2. \A y \in locked[t] : y \in Years /\ y \notin locked[s]
    BY <1>2 DEF LocksInv, TypeOK
  <2>3. \A y \in locked[t] : balance'[y] = balance[y]
    BY <2>2 DEF CommitDrafts
  <2> QED
    BY <2>1, <2>3 DEF DraftInv, Submitting
<1> QED
  BY <1>1, <1>2

LEMMA DraftInductive ==
  ASSUME TypeOK, LocksInv, DraftInv, [Next]_vars
  PROVE  DraftInv'
<1> SUFFICES ASSUME NEW t \in Sessions PROVE DraftInv!(t)'
  BY DEF DraftInv
<1>1. CASE UNCHANGED vars
  BY <1>1, Unchanged DEF DraftInv, Submitting
<1>2. ASSUME NEW s \in Sessions, BeginSubmit(s) \/ BeginDecide(s) \/ LockRequest(s)
      PROVE  DraftInv!(t)'
  <2>1. locked' = locked /\ draft' = draft /\ balance' = balance /\ locked[s] = {}
    BY <1>2 DEF BeginSubmit, BeginDecide, LockRequest, rowVars, LocksInv
  <2>2. CASE t = s
    BY <2>1, <2>2
  <2>3. CASE t # s
    <3>1. step'[t] = step[t] /\ cost'[t] = cost[t] /\ outcome'[t] = outcome[t]
      BY <1>2, <2>3 DEF BeginSubmit, BeginDecide, LockRequest, TypeOK
    <3> QED
      BY <2>1, <3>1, DraftKept DEF Submitting
  <2> QED
    BY <2>2, <2>3
<1>3. ASSUME NEW s \in Sessions, ResolveEntitlement(s)
      PROVE  DraftInv!(t)'
  BY <1>3, DraftKept DEF ResolveEntitlement, Submitting, TypeOK, rowVars
<1>4. ASSUME NEW s \in Sessions, CommitSubmit(s) \/ CommitDecide(s)
      PROVE  DraftInv!(t)'
  BY <1>4, DraftAfterCommit DEF CommitSubmit, CommitDecide
<1>5. ASSUME NEW s \in Sessions, NEW y \in Years, ReserveYear(s, y)
      PROVE  DraftInv!(t)'
  <2>1. PICK granted \in Entitlements :
          /\ Fits(Opened(balance[y], granted), cost[s][y])
          /\ Lock(s, y, Reserved(Opened(balance[y], granted), cost[s][y]))
    BY <1>5 DEF ReserveYear
  <2>2. /\ balance' = balance /\ cost' = cost /\ outcome' = outcome
        /\ step[s] = "reserve" /\ step' = [step EXCEPT ![s] = "resolve"]
    BY <1>5 DEF ReserveYear, rowVars
  <2>3. /\ locked' = [locked EXCEPT ![s] = @ \cup {y}]
        /\ draft' = [draft EXCEPT ![s] = [@ EXCEPT ![y] = Reserved(Opened(balance[y], granted), cost[s][y])]]
    BY <2>1 DEF Lock
  <2>4. CASE t # s
    BY <2>2, <2>3, <2>4, DraftKept DEF Submitting, TypeOK
  <2>5. CASE t = s
    <3>1. step'[s] = "resolve" /\ locked'[s] = locked[s] \cup {y} /\ cost'[s] = cost[s]
      BY <2>2, <2>3 DEF TypeOK
    <3>2. draft'[s][y] = Reserved(Opened(balance[y], granted), cost[s][y])
      BY <2>3 DEF TypeOK
    <3>3. \A z \in locked[s] : z # y => draft'[s][z] = draft[s][z]
      BY <2>3 DEF TypeOK
    <3>4. Submitting(s)
      BY <2>2 DEF Submitting
    <3>5. ASSUME NEW z \in locked'[s]
          PROVE  \E g \in Entitlements :
                   /\ Fits(Opened(balance[z], g), cost[s][z])
                   /\ draft'[s][z] = Reserved(Opened(balance[z], g), cost[s][z])
      <4>1. CASE z = y
        BY <4>1, <2>1, <3>2
      <4>2. CASE z # y
        BY <4>2, <3>1, <3>3, <3>4 DEF DraftInv
      <4> QED
        BY <4>1, <4>2
    <3> QED
      BY <2>2, <2>5, <3>1, <3>5
  <2> QED
    BY <2>4, <2>5
<1>6. ASSUME NEW s \in Sessions, NEW y \in Years, SettleYear(s, y)
      PROVE  DraftInv!(t)'
  <2>1. Lock(s, y, Settled(balance[y], cost[s][y], outcome[s]))
    BY <1>6 DEF SettleYear
  <2>2. /\ balance' = balance /\ cost' = cost /\ outcome' = outcome
        /\ step[s] = "settle" /\ step' = step
    BY <1>6 DEF SettleYear, rowVars
  <2>3. /\ locked' = [locked EXCEPT ![s] = @ \cup {y}]
        /\ draft' = [draft EXCEPT ![s] = [@ EXCEPT ![y] = Settled(balance[y], cost[s][y], outcome[s])]]
    BY <2>1 DEF Lock
  <2>4. CASE t # s
    BY <2>2, <2>3, <2>4, DraftKept DEF Submitting, TypeOK
  <2>5. CASE t = s
    <3>1. locked'[s] = locked[s] \cup {y}
      BY <2>3 DEF TypeOK
    <3>2. draft'[s][y] = Settled(balance[y], cost[s][y], outcome[s])
      BY <2>3 DEF TypeOK
    <3>3. \A z \in locked[s] : z # y => draft'[s][z] = draft[s][z]
      BY <2>3 DEF TypeOK
    <3>4. \A z \in locked'[s] : draft'[s][z] = Settled(balance[z], cost[s][z], outcome[s])
      BY <2>2, <3>1, <3>2, <3>3 DEF DraftInv
    <3>5. ~Submitting(s)'
      BY <2>2 DEF Submitting
    <3> QED
      BY <2>2, <2>5, <3>4, <3>5
  <2> QED
    BY <2>4, <2>5
<1>7. ASSUME NEW s \in Sessions, Rollback(s)
      PROVE  DraftInv!(t)'
  <2>1. CASE t # s
    BY <1>7, <2>1, DraftKept DEF Rollback, End, Submitting, TypeOK, rowVars
  <2>2. CASE t = s
    BY <1>7, <2>2 DEF Rollback, End, TypeOK
  <2> QED
    BY <2>1, <2>2
<1> QED
  BY <1>1, <1>2, <1>3, <1>4, <1>5, <1>6, <1>7, StepCases

-----------------------------------------------------------------------------
(* Counting days *)

LEMMA Units ==
  ASSUME NEW q, NEW n \in Nat
  PROVE  IsFiniteSet({q} \X (1..n)) /\ Cardinality({q} \X (1..n)) = n
<1>1. IsFiniteSet({q}) /\ Cardinality({q}) = 1
  BY FS_Singleton
<1>2. IsFiniteSet(1..n) /\ Cardinality(1..n) = n
  BY FS_Interval
<1>3. /\ IsFiniteSet({q} \X (1..n))
      /\ Cardinality({q} \X (1..n)) = Cardinality({q}) * Cardinality(1..n)
  BY <1>1, <1>2, FS_Product
<1> QED
  BY <1>1, <1>2, <1>3

\* A request that a set of days does not know adds as many days as it asks.
LEMMA Gain ==
  ASSUME NEW S, IsFiniteSet(S), NEW q, NEW n \in Nat, \A u \in S : u[1] # q
  PROVE  Cardinality(S \cup ({q} \X (1..n))) = Cardinality(S) + n
<1>1. S \cap ({q} \X (1..n)) = {}
  OBVIOUS
<1>2. Cardinality(S \cap ({q} \X (1..n))) = 0
  BY <1>1, FS_EmptySet
<1>3. Cardinality(S) \in Nat
  BY FS_CardinalityType
<1>4. Cardinality(S \cup ({q} \X (1..n)))
        = Cardinality(S) + Cardinality({q} \X (1..n)) - Cardinality(S \cap ({q} \X (1..n)))
  BY Units, FS_Union
<1>5. Cardinality({q} \X (1..n)) = n
  BY Units
<1> QED
  BY <1>2, <1>3, <1>4, <1>5

LEMMA DaysFinite ==
  ASSUME NEW Z, NEW y \in Years
  PROVE  IsFiniteSet(Ledger!DaysOf(Z, y)) /\ Cardinality(Ledger!DaysOf(Z, y)) \in Nat
<1>1. IsFiniteSet(1..MaxDays)
  BY DaysAssumption, FS_Interval
<1>2. IsFiniteSet(Requests \X (1..MaxDays))
  BY <1>1, RequestsAssumption, FS_Product
<1>3. Ledger!DaysOf(Z, y) \in SUBSET (Requests \X (1..MaxDays))
  BY DEF Ledger!DaysOf
<1> QED
  BY <1>2, <1>3, FS_Subset, FS_CardinalityType

\* What the serial ledger counts is what the running totals hold together.
LEMMA HeldDays ==
  ASSUME TypeOK, TotalsMatchRequests, NEW y \in Years
  PROVE  Cardinality(Ledger!DaysOf({"pending", "approved"}, y)) = balance[y].used + balance[y].pending
<1> DEFINE P == Ledger!DaysOf({"pending"}, y)
           A == Ledger!DaysOf({"approved"}, y)
<1>1. Ledger!DaysOf({"pending", "approved"}, y) = P \cup A
  BY DEF Ledger!DaysOf
<1>2. P \cap A = {}
  BY DEF Ledger!DaysOf
<1>3. IsFiniteSet(P) /\ IsFiniteSet(A) /\ Cardinality(P) \in Nat /\ Cardinality(A) \in Nat
  BY DaysFinite
<1>4. Cardinality(P \cap A) = 0
  BY <1>2, FS_EmptySet
<1>5. Cardinality(P) = balance[y].pending /\ Cardinality(A) = balance[y].used
  BY DEF TotalsMatchRequests
<1> HIDE DEF P, A
<1>6. Cardinality(P \cup A) = Cardinality(P) + Cardinality(A) - Cardinality(P \cap A)
  BY <1>3, FS_Union
<1>7. Cardinality(P \cup A) = balance[y].used + balance[y].pending
  BY <1>3, <1>4, <1>5, <1>6
<1> QED
  BY <1>1, <1>7

\* A submitted request adds its days to the pending ones.
LEMMA SubmitDays ==
  ASSUME TypeOK, LocksInv, NEW s \in Sessions, CommitSubmit(s), NEW y \in Years
  PROVE  /\ Cardinality(Ledger!DaysOf({"pending"}, y))' = Cardinality(Ledger!DaysOf({"pending"}, y)) + cost[s][y]
         /\ Cardinality(Ledger!DaysOf({"approved"}, y))' = Cardinality(Ledger!DaysOf({"approved"}, y))
<1> DEFINE q == target[s]
           P == Ledger!DaysOf({"pending"}, y)
<1>1. /\ q \in Requests /\ status[q] = "absent" /\ cost[s][y] \in 0..MaxDays
      /\ status' = [status EXCEPT ![q] = "pending"] /\ days' = [days EXCEPT ![q] = cost[s]]
  BY Types DEF TypeOK, LocksInv, CommitSubmit, Submitting
<1>2. P' = P \cup ({q} \X (1..cost[s][y]))
  <2>1. ASSUME NEW u
        PROVE  u \in P' <=> u \in P \cup ({q} \X (1..cost[s][y]))
    BY <1>1, DaysAssumption DEF Ledger!DaysOf, TypeOK, Costs
  <2> QED
    BY <2>1
<1>3. \A u \in P : u[1] # q
  BY <1>1 DEF Ledger!DaysOf
<1>4. Ledger!DaysOf({"approved"}, y)' = Ledger!DaysOf({"approved"}, y)
  BY <1>1 DEF Ledger!DaysOf, TypeOK
<1>5. IsFiniteSet(P)
  BY DaysFinite
<1> HIDE DEF q, P
<1>6. cost[s][y] \in Nat
  BY <1>1
<1>7. Cardinality(P \cup ({q} \X (1..cost[s][y]))) = Cardinality(P) + cost[s][y]
  BY <1>3, <1>5, <1>6, Gain
<1> QED
  BY <1>2, <1>4, <1>7 DEF P

\* A decision takes them off, and adds them to the used ones if it approves.
LEMMA DecideDays ==
  ASSUME TypeOK, LocksInv, NEW s \in Sessions, CommitDecide(s), NEW y \in Years
  PROVE  LET n == days[target[s]][y]
         IN  /\ Cardinality(Ledger!DaysOf({"pending"}, y)) = Cardinality(Ledger!DaysOf({"pending"}, y))' + n
             /\ Cardinality(Ledger!DaysOf({"approved"}, y))'
                  = Cardinality(Ledger!DaysOf({"approved"}, y)) + (IF outcome[s] = "approved" THEN n ELSE 0)
<1> DEFINE q == target[s]
           n == days[q][y]
           P == Ledger!DaysOf({"pending"}, y)
           A == Ledger!DaysOf({"approved"}, y)
<1>1. /\ q \in Requests /\ status[q] = "pending" /\ n \in 0..MaxDays
      /\ status' = [status EXCEPT ![q] = outcome[s]] /\ days' = days
      /\ outcome[s] \in {"approved", "rejected", "cancelled"}
  BY Types DEF TypeOK, LocksInv, CommitDecide, W!Outcomes
<1>2. P = P' \cup ({q} \X (1..n))
  <2>1. ASSUME NEW u
        PROVE  u \in P <=> u \in P' \cup ({q} \X (1..n))
    BY <1>1, DaysAssumption DEF Ledger!DaysOf, TypeOK, Costs
  <2> QED
    BY <2>1
<1>3. \A u \in P' : u[1] # q
  BY <1>1 DEF Ledger!DaysOf, TypeOK
<1>4. A' = IF outcome[s] = "approved" THEN A \cup ({q} \X (1..n)) ELSE A
  <2>1. ASSUME NEW u
        PROVE  u \in A' <=> u \in (IF outcome[s] = "approved" THEN A \cup ({q} \X (1..n)) ELSE A)
    BY <1>1, DaysAssumption DEF Ledger!DaysOf, TypeOK, Costs
  <2> QED
    BY <2>1
<1>5. \A u \in A : u[1] # q
  BY <1>1 DEF Ledger!DaysOf
<1>6. IsFiniteSet(P) /\ IsFiniteSet(A) /\ Cardinality(A) \in Nat
  BY DaysFinite
<1>7. P' \in SUBSET P
  BY <1>2
<1>8. IsFiniteSet(P')
  BY <1>6, <1>7, FS_Subset
<1> HIDE DEF q, n, P, A
<1>9. n \in Nat
  BY <1>1
<1>10. Cardinality(P' \cup ({q} \X (1..n))) = Cardinality(P') + n
  BY <1>3, <1>8, <1>9, Gain
<1>11. Cardinality(A \cup ({q} \X (1..n))) = Cardinality(A) + n
  BY <1>5, <1>6, <1>9, Gain
<1>12. Cardinality(P) = Cardinality(P') + n
  BY <1>2, <1>10
<1>13. Cardinality(A') = Cardinality(A) + (IF outcome[s] = "approved" THEN n ELSE 0)
  <2>1. CASE outcome[s] = "approved"
    <3>1. A' = A \cup ({q} \X (1..n))
      BY <1>4, <2>1
    <3>2. Cardinality(A') = Cardinality(A) + n
      BY <1>11, <3>1
    <3> QED
      BY <2>1, <3>2
  <2>2. CASE outcome[s] # "approved"
    <3>1. A' = A
      BY <1>4, <2>2
    <3>2. Cardinality(A') = Cardinality(A)
      BY <3>1
    <3> QED
      BY <1>6, <2>2, <3>2
  <2> QED
    BY <2>1, <2>2
<1> QED
  BY <1>12, <1>13 DEF P, A, n, q

-----------------------------------------------------------------------------
(* What a commit does to the balances *)

LEMMA SubmitRows ==
  ASSUME IInv, NEW s \in Sessions, CommitSubmit(s), NEW y \in Years
  PROVE  LET n == cost[s][y]
         IN  /\ n \in Nat
             /\ balance'[y].pending = balance[y].pending + n
             /\ balance'[y].used = balance[y].used
             /\ balance'[y].exists <=> balance[y].exists \/ n > 0
             /\ IF n = 0 \/ balance[y].exists THEN balance'[y].entitled = balance[y].entitled
                                              ELSE balance'[y].entitled \in Entitlements
             /\ n > 0 => balance[y].used + balance[y].pending + n <= balance'[y].entitled
             /\ n = 0 => balance'[y] = balance[y]
<1>1. /\ cost[s][y] \in Nat /\ balance[y] \in Rows
      /\ balance'[y] = IF y \in locked[s] THEN draft[s][y] ELSE balance[y]
  BY Types DEF IInv, TypeOK, CommitSubmit, CommitDrafts
<1>2. CASE y \in locked[s]
  <2>1. Submitting(s) /\ cost[s][y] > 0
    BY <1>2 DEF IInv, LocksInv, CommitSubmit, Submitting, Touched
  <2>2. PICK g \in Entitlements :
          /\ Fits(Opened(balance[y], g), cost[s][y])
          /\ draft[s][y] = Reserved(Opened(balance[y], g), cost[s][y])
    BY <1>2, <2>1 DEF IInv, DraftInv
  <2>3. ~balance[y].exists => balance[y].used = 0 /\ balance[y].pending = 0
    BY DEF IInv, OpenedInv, NoRow
  <2>4. g \in Nat
    BY DaysAssumption
  <2>5. CASE balance[y].exists
    BY <1>1, <1>2, <2>1, <2>2, <2>4, <2>5 DEF Fits, Opened, Reserved, Rows
  <2>6. CASE ~balance[y].exists
    <3>1. Opened(balance[y], g) = [exists |-> TRUE, entitled |-> g, used |-> 0, pending |-> 0]
      BY <2>6 DEF Opened
    <3>2. cost[s][y] <= g
      BY <1>1, <2>2, <2>4, <3>1 DEF Fits
    <3>3. balance'[y] = [exists |-> TRUE, entitled |-> g, used |-> 0, pending |-> 0 + cost[s][y]]
      BY <1>1, <1>2, <2>2, <3>1 DEF Reserved
    <3> QED
      BY <1>1, <2>1, <2>3, <2>4, <2>6, <3>2, <3>3
  <2> QED
    BY <2>5, <2>6
<1>3. CASE y \notin locked[s]
  <2>1. cost[s][y] = 0
    BY <1>1, <1>3 DEF CommitSubmit, YearsDone, Touched
  <2> QED
    BY <1>1, <1>3, <2>1 DEF Rows
<1> QED
  BY <1>2, <1>3

LEMMA DecideRows ==
  ASSUME IInv, NEW s \in Sessions, CommitDecide(s), NEW y \in Years
  PROVE  LET n == days[target[s]][y]
         IN  /\ balance[y].pending = balance'[y].pending + n
             /\ balance'[y].used = balance[y].used + (IF outcome[s] = "approved" THEN n ELSE 0)
             /\ balance'[y].exists = balance[y].exists
             /\ balance'[y].entitled = balance[y].entitled
             /\ n = 0 => balance'[y] = balance[y]
<1> DEFINE n == days[target[s]][y]
<1>1. /\ n \in Nat /\ balance[y] \in Rows /\ cost[s][y] = n
      /\ step[s] = "settle" /\ status[target[s]] = "pending" /\ target[s] \in Requests
      /\ balance'[y] = IF y \in locked[s] THEN draft[s][y] ELSE balance[y]
  BY Types DEF IInv, TypeOK, LocksInv, CommitDecide, CommitDrafts
<1>2. n <= balance[y].pending
  <2>1. Cardinality(Ledger!DaysOf({"pending"}, y)) = Cardinality(Ledger!DaysOf({"pending"}, y))' + n
    BY DecideDays DEF IInv
  <2>2. Ledger!DaysOf({"pending"}, y)' \in SUBSET Ledger!DaysOf({"pending"}, y)
    BY DEF Ledger!DaysOf, CommitDecide, IInv, TypeOK, W!Outcomes
  <2>3. IsFiniteSet(Ledger!DaysOf({"pending"}, y))
    BY DaysFinite
  <2>4. IsFiniteSet(Ledger!DaysOf({"pending"}, y)')
    BY <2>2, <2>3, FS_Subset
  <2>5. Cardinality(Ledger!DaysOf({"pending"}, y)') \in Nat
    BY <2>4, FS_CardinalityType
  <2>6. Cardinality(Ledger!DaysOf({"pending"}, y)) = balance[y].pending
    BY DEF IInv, TotalsMatchRequests
  <2>7. Cardinality(Ledger!DaysOf({"pending"}, y))' \in Nat
    BY <2>5
  <2> HIDE DEF n
  <2> QED
    BY <1>1, <2>1, <2>6, <2>7
<1>3. CASE y \in locked[s]
  <2>1. draft[s][y] = Settled(balance[y], n, outcome[s])
    BY <1>1, <1>3 DEF IInv, DraftInv
  <2>2. n > 0
    BY <1>1, <1>3 DEF IInv, LocksInv, Touched
  <2>3. balance[y].exists
    BY <1>1, <2>2 DEF IInv, OpenedInv
  <2>4. balance[y].pending \in Nat /\ balance[y].used \in Nat
    BY <1>1 DEF Rows
  <2> HIDE DEF n
  <2>5. balance'[y] = [exists |-> TRUE, entitled |-> balance[y].entitled,
                       used |-> balance[y].used + (IF outcome[s] = "approved" THEN n ELSE 0),
                       pending |-> balance[y].pending - n]
    <3>1. (IF balance[y].pending > n THEN balance[y].pending - n ELSE 0) = balance[y].pending - n
      BY <1>1, <1>2, <2>4
    <3> QED
      BY <1>1, <1>3, <2>1, <2>3, <3>1 DEF Settled
  <2>6. /\ balance'[y].exists = TRUE /\ balance'[y].entitled = balance[y].entitled
        /\ balance'[y].used = balance[y].used + (IF outcome[s] = "approved" THEN n ELSE 0)
        /\ balance'[y].pending = balance[y].pending - n
    BY <2>5
  <2>7. balance[y].exists = TRUE
    BY <1>1, <2>3 DEF Rows
  <2>8. balance[y].pending = balance'[y].pending + n
    BY <1>1, <2>4, <2>6
  <2>9. n # 0
    BY <1>1, <2>2
  <2>10. balance'[y].exists = balance[y].exists
    BY <2>6, <2>7
  <2> QED
    BY <2>6, <2>8, <2>9, <2>10 DEF n
<1>4. CASE y \notin locked[s]
  <2>1. n = 0
    BY <1>1, <1>4 DEF CommitDecide, YearsDone, Touched
  <2> QED
    BY <1>1, <1>4, <2>1 DEF Rows
<1> QED
  BY <1>3, <1>4

-----------------------------------------------------------------------------
(* The safety of the rows *)

RowInv == OpenedInv /\ TotalsMatchRequests /\ NoOversubscription /\ OutcomeInStep

LEMMA RowsKept ==
  ASSUME RowInv, status' = status, days' = days, approval' = approval, announced' = announced,
         balance' = balance
  PROVE  RowInv'
<1>1. \A Z, y : Ledger!DaysOf(Z, y)' = Ledger!DaysOf(Z, y)
  BY DEF Ledger!DaysOf
<1>2. TotalsMatchRequests'
  BY <1>1 DEF RowInv, TotalsMatchRequests
<1> QED
  BY <1>2 DEF RowInv, OpenedInv, NoOversubscription, OutcomeInStep, NoRow

LEMMA RowsAfterSubmit ==
  ASSUME IInv, NEW s \in Sessions, CommitSubmit(s)
  PROVE  RowInv'
<1> DEFINE q == target[s]
<1>1. /\ q \in Requests /\ status[q] = "absent"
      /\ status' = [status EXCEPT ![q] = "pending"] /\ days' = [days EXCEPT ![q] = cost[s]]
      /\ announced' = [announced EXCEPT ![q] = @ \cup {"pending"}]
      /\ approval' = [approval EXCEPT ![q] = "pending"] \/ approval' = approval
  BY DEF IInv, TypeOK, LocksInv, CommitSubmit, Submitting, W!RequestApproval
<1>2. ASSUME NEW y \in Years
      PROVE  /\ ~balance'[y].exists => balance'[y] = NoRow
             /\ \A r \in Requests : status'[r] # "absent" /\ days'[r][y] > 0 => balance'[y].exists
  BY <1>1, SubmitRows DEF IInv, OpenedInv, TypeOK
<1>3. ASSUME NEW y \in Years
      PROVE  /\ balance'[y].pending = Cardinality(Ledger!DaysOf({"pending"}, y))'
             /\ balance'[y].used = Cardinality(Ledger!DaysOf({"approved"}, y))'
  BY SubmitRows, SubmitDays DEF IInv, TotalsMatchRequests
<1>4. ASSUME NEW y \in Years
      PROVE  balance'[y].used + balance'[y].pending <= balance'[y].entitled
  <2>1. balance[y].used + balance[y].pending <= balance[y].entitled
    BY DEF IInv, NoOversubscription
  <2>2. balance[y].used \in Nat /\ balance[y].pending \in Nat
    BY DEF IInv, TypeOK, Rows
  <2>3. CASE cost[s][y] = 0
    BY <2>1, <2>3, SubmitRows
  <2>4. CASE cost[s][y] # 0
    <3>1. /\ cost[s][y] > 0
          /\ balance[y].used + balance[y].pending + cost[s][y] <= balance'[y].entitled
      BY <2>4, SubmitRows
    <3>2. /\ cost[s][y] \in Nat
          /\ balance'[y].used = balance[y].used /\ balance'[y].pending = balance[y].pending + cost[s][y]
      BY SubmitRows
    <3>3. balance'[y].used + balance'[y].pending = balance[y].used + balance[y].pending + cost[s][y]
      BY <2>2, <3>2
    <3> QED
      BY <3>1, <3>3
  <2> QED
    BY <2>3, <2>4
<1>5. OutcomeInStep'
  <2> SUFFICES ASSUME NEW r \in Requests PROVE OutcomeInStep!(r)'
    BY DEF OutcomeInStep
  <2>1. /\ approval[r] \in {"none", status[r]} /\ approval[r] # "absent"
        /\ announced[r] = (IF status[r] = "absent" THEN {} ELSE {"pending", status[r]})
    BY DEF IInv, OutcomeInStep, TypeOK, W!ApprovalTypeOK, W!Outcomes
  <2>2. CASE r = q
    <3>1. status'[r] = "pending" /\ announced'[r] = {"pending"} /\ approval'[r] \in {"none", "pending"}
      BY <1>1, <2>1, <2>2 DEF IInv, TypeOK, W!ApprovalTypeOK
    <3> QED
      BY <3>1
  <2>3. CASE r # q
    BY <1>1, <2>1, <2>3 DEF IInv, TypeOK, W!ApprovalTypeOK
  <2> QED
    BY <2>2, <2>3
<1>6. OpenedInv'
  BY <1>2 DEF OpenedInv, NoRow
<1> QED
  BY <1>3, <1>4, <1>5, <1>6 DEF RowInv, TotalsMatchRequests, NoOversubscription

LEMMA RowsAfterDecide ==
  ASSUME IInv, NEW s \in Sessions, CommitDecide(s)
  PROVE  RowInv'
<1> DEFINE q == target[s]
<1>1. /\ q \in Requests /\ status[q] = "pending" /\ outcome[s] \in W!Outcomes
      /\ status' = [status EXCEPT ![q] = outcome[s]] /\ days' = days
      /\ announced' = [announced EXCEPT ![q] = @ \cup {outcome[s]}]
      /\ \/ approval' = [approval EXCEPT ![q] = outcome[s]]
         \/ approval[q] = "none" /\ approval' = approval
  BY DEF IInv, TypeOK, LocksInv, CommitDecide, W!DecideApproval
<1>2. ASSUME NEW y \in Years
      PROVE  /\ ~balance'[y].exists => balance'[y] = NoRow
             /\ \A r \in Requests : status'[r] # "absent" /\ days'[r][y] > 0 => balance'[y].exists
  <2>1. balance'[y].exists = balance[y].exists /\ (days[q][y] = 0 => balance'[y] = balance[y])
    BY DecideRows
  <2>2. \A r \in Requests : status'[r] # "absent" => status[r] # "absent"
    BY <1>1 DEF IInv, TypeOK
  <2>3. \A r \in Requests : status[r] # "absent" /\ days[r][y] > 0 => balance[y].exists
    BY DEF IInv, OpenedInv
  <2>4. ~balance[y].exists => balance[y] = NoRow
    BY DEF IInv, OpenedInv
  <2>5. ~balance[y].exists => days[q][y] = 0
    <3>1. days[q][y] \in 0..MaxDays
      BY <1>1, Types DEF IInv, TypeOK
    <3>2. days[q][y] > 0 => balance[y].exists
      BY <1>1, <2>3
    <3> QED
      BY <3>1, <3>2, DaysAssumption
  <2> QED
    BY <1>1, <2>1, <2>2, <2>3, <2>4, <2>5
<1>3. ASSUME NEW y \in Years
      PROVE  /\ balance'[y].pending = Cardinality(Ledger!DaysOf({"pending"}, y))'
             /\ balance'[y].used = Cardinality(Ledger!DaysOf({"approved"}, y))'
  <2> DEFINE n == days[q][y]
             P == Cardinality(Ledger!DaysOf({"pending"}, y))
             A == Cardinality(Ledger!DaysOf({"approved"}, y))
  <2>1. balance[y].pending = P /\ balance[y].used = A
    BY DEF IInv, TotalsMatchRequests
  <2>2. /\ balance[y].pending = balance'[y].pending + n
        /\ balance'[y].used = balance[y].used + (IF outcome[s] = "approved" THEN n ELSE 0)
    BY DecideRows
  <2>3. P = P' + n /\ A' = A + (IF outcome[s] = "approved" THEN n ELSE 0)
    BY DecideDays DEF IInv
  <2>4. balance' \in [Years -> Rows]
    BY CommitTypes DEF CommitDecide, IInv
  <2>5. balance'[y].pending \in Nat
    BY <2>4 DEF Rows
  <2>6. Ledger!DaysOf({"pending"}, y)' \in SUBSET Ledger!DaysOf({"pending"}, y)
    BY <1>1 DEF Ledger!DaysOf, IInv, TypeOK, W!Outcomes
  <2>7. IsFiniteSet(Ledger!DaysOf({"pending"}, y)')
    BY <2>6, DaysFinite, FS_Subset
  <2>8. Cardinality(Ledger!DaysOf({"pending"}, y)') \in Nat
    BY <2>7, FS_CardinalityType
  <2>9. P' \in Nat
    BY <2>8
  <2>10. n \in Nat
    BY <1>1, Types DEF IInv, TypeOK
  <2> HIDE DEF n, P, A
  <2>11. balance'[y].pending + n = P' + n
    BY <2>1, <2>2, <2>3
  <2>12. balance'[y].pending = P'
    BY <2>5, <2>9, <2>10, <2>11
  <2>13. balance'[y].used = A'
    BY <2>1, <2>2, <2>3
  <2> QED
    BY <2>12, <2>13 DEF P, A
<1>4. ASSUME NEW y \in Years
      PROVE  balance'[y].used + balance'[y].pending <= balance'[y].entitled
  <2>1. balance[y].used + balance[y].pending <= balance[y].entitled
    BY DEF IInv, NoOversubscription
  <2>2. balance[y] \in Rows
    BY DEF IInv, TypeOK
  <2>3. balance'[y].pending \in Nat
    BY CommitTypes DEF CommitDecide, IInv, Rows
  <2>4. days[q][y] \in Nat
    BY <1>1, Types DEF IInv, TypeOK
  <2>5. /\ balance[y].pending = balance'[y].pending + days[q][y]
        /\ balance'[y].used = balance[y].used + (IF outcome[s] = "approved" THEN days[q][y] ELSE 0)
        /\ balance'[y].entitled = balance[y].entitled
    BY DecideRows
  <2>6. balance'[y].used <= balance[y].used + days[q][y] /\ balance'[y].used \in Nat
    BY <2>2, <2>4, <2>5 DEF Rows
  <2>7. balance[y].used \in Nat /\ balance[y].pending \in Nat /\ balance[y].entitled \in Nat
    BY <2>2 DEF Rows
  <2> HIDE DEF q
  <2> QED
    BY <2>1, <2>3, <2>4, <2>5, <2>6, <2>7
<1>5. OutcomeInStep'
  <2> SUFFICES ASSUME NEW r \in Requests PROVE OutcomeInStep!(r)'
    BY DEF OutcomeInStep
  <2>1. /\ approval[r] \in {"none", status[r]}
        /\ announced[r] = (IF status[r] = "absent" THEN {} ELSE {"pending", status[r]})
    BY DEF IInv, OutcomeInStep
  <2>2. CASE r = q
    <3>1. /\ status'[r] = outcome[s] /\ announced'[r] = {"pending", outcome[s]}
          /\ approval'[r] \in {"none", outcome[s]} /\ outcome[s] # "absent"
      BY <1>1, <2>1, <2>2 DEF IInv, TypeOK, W!ApprovalTypeOK, W!Outcomes
    <3> QED
      BY <3>1
  <2>3. CASE r # q
    BY <1>1, <2>1, <2>3 DEF IInv, TypeOK, W!ApprovalTypeOK
  <2> QED
    BY <2>2, <2>3
<1>6. OpenedInv'
  BY <1>2 DEF OpenedInv, NoRow
<1> QED
  BY <1>3, <1>4, <1>5, <1>6 DEF RowInv, TotalsMatchRequests, NoOversubscription

LEMMA RowsInductive ==
  ASSUME IInv, [Next]_vars
  PROVE  RowInv'
<1>1. CASE UNCHANGED vars
  BY <1>1, Unchanged, RowsKept DEF IInv, RowInv
<1>2. ASSUME NEW s \in Sessions,
             \/ BeginSubmit(s) \/ ResolveEntitlement(s) \/ BeginDecide(s) \/ LockRequest(s)
             \/ Rollback(s) \/ \E y \in Years : ReserveYear(s, y) \/ SettleYear(s, y)
      PROVE  RowInv'
  <2>1. UNCHANGED rowVars
    BY <1>2 DEF BeginSubmit, ResolveEntitlement, BeginDecide, LockRequest, Rollback, ReserveYear, SettleYear
  <2>2. /\ status' = status /\ days' = days /\ approval' = approval /\ announced' = announced
        /\ balance' = balance
    BY <2>1 DEF rowVars
  <2> QED
    BY <2>2, RowsKept DEF IInv, RowInv
<1>3. ASSUME NEW s \in Sessions, CommitSubmit(s)
      PROVE  RowInv'
  BY <1>3, RowsAfterSubmit
<1>4. ASSUME NEW s \in Sessions, CommitDecide(s)
      PROVE  RowInv'
  BY <1>4, RowsAfterDecide
<1> QED
  BY <1>1, <1>2, <1>3, <1>4, StepCases

LEMMA InvInit == Init => IInv
<1> SUFFICES ASSUME Init PROVE IInv
  OBVIOUS
<1>1. TypeOK
  BY TypeInit
<1>2. LocksInv /\ DraftInv
  BY DEF Init, LocksInv, DraftInv, Submitting
<1>3. OpenedInv /\ NoOversubscription
  BY DEF Init, OpenedInv, NoOversubscription, NoRow
<1>4. OutcomeInStep
  BY DEF Init, OutcomeInStep, W!ApprovalInit
<1>5. \A y \in Years : Ledger!DaysOf({"pending"}, y) = {} /\ Ledger!DaysOf({"approved"}, y) = {}
  BY DEF Init, Ledger!DaysOf
<1>6. TotalsMatchRequests
  BY <1>5, FS_EmptySet DEF Init, TotalsMatchRequests, NoRow
<1> QED
  BY <1>1, <1>2, <1>3, <1>4, <1>6 DEF IInv

LEMMA InvInductive ==
  ASSUME IInv, [Next]_vars
  PROVE  IInv'
BY TypeInductive, LocksInductive, DraftInductive, RowsInductive DEF IInv, RowInv

\* However many sessions submit, decide, fail and retry, the running totals of
\* a year equal the days of its pending and approved requests.
THEOREM TotalsNeverDrift == Spec => []TotalsMatchRequests
<1>1. IInv => TotalsMatchRequests
  BY DEF IInv
<1> QED
  BY <1>1, InvInit, InvInductive, PTL DEF Spec

\* No year is ever promised or spent beyond the entitlement it was opened with.
THEOREM NeverOversubscribed == Spec => []NoOversubscription
<1>1. IInv => NoOversubscription
  BY DEF IInv
<1> QED
  BY <1>1, InvInit, InvInductive, PTL DEF Spec

\* A request, its approval row and its announcements never disagree.
THEOREM OutcomesAgree == Spec => []OutcomeInStep
<1>1. IInv => OutcomeInStep
  BY DEF IInv
<1> QED
  BY <1>1, InvInit, InvInductive, PTL DEF Spec

-----------------------------------------------------------------------------
(* The transactions implement the serial ledger *)

LEMMA SameCardinality == \A S : Ledger!Cardinality(S) = Cardinality(S)
BY DEF Ledger!Cardinality, Cardinality, Ledger!IsFiniteSet, IsFiniteSet

LEMMA LedgerInit == Init => Ledger!Init
BY DEF Init, Ledger!Init, NoDays, Ledger!NoDays, NoRow

LEMMA SubmitIsRequest ==
  ASSUME IInv, NEW s \in Sessions, CommitSubmit(s)
  PROVE  cost[s] \in Ledger!Costs /\ Ledger!Request(target[s], cost[s])
<1>1. /\ cost[s] \in Costs /\ cost[s] # NoDays /\ status[target[s]] = "absent"
      /\ status' = [status EXCEPT ![target[s]] = "pending"]
      /\ days' = [days EXCEPT ![target[s]] = cost[s]]
  BY DEF IInv, TypeOK, LocksInv, CommitSubmit, Submitting
<1>2. balance' \in [Years -> Rows]
  BY CommitTypes DEF CommitSubmit, IInv
<1>3. {y \in Years : balance'[y].exists} = {y \in Years : balance[y].exists} \cup {y \in Years : cost[s][y] > 0}
  BY SubmitRows
<1>4. [y \in Years |-> balance'[y].entitled] \in [Years -> Nat]
  BY <1>2 DEF Rows
<1>5. \A y \in Years :
        IF cost[s][y] = 0 \/ balance[y].exists
          THEN balance'[y].entitled = balance[y].entitled
          ELSE balance'[y].entitled \in Entitlements
  BY SubmitRows
<1>6. ASSUME NEW y \in Years, cost[s][y] > 0
      PROVE  Cardinality(Ledger!DaysOf({"pending", "approved"}, y)) + cost[s][y] <= balance'[y].entitled
  BY <1>6, SubmitRows, HeldDays DEF IInv
<1> DEFINE opened == {y \in Years : balance[y].exists}
           entitled == [y \in Years |-> balance[y].entitled]
<1>7. opened' = opened \cup {y \in Years : cost[s][y] > 0}
  BY <1>3
<1>8. \A y \in Years :
        IF cost[s][y] = 0 \/ y \in opened THEN entitled'[y] = entitled[y] ELSE entitled'[y] \in Entitlements
  BY <1>5
<1>9. \A y \in Years :
        cost[s][y] > 0 => Ledger!Cardinality(Ledger!DaysOf({"pending", "approved"}, y)) + cost[s][y] <= entitled'[y]
  BY <1>6, SameCardinality
<1>10. entitled' \in [Years -> Nat]
  BY <1>4
<1>11. cost[s] \in Ledger!Costs /\ cost[s] # Ledger!NoDays
  BY <1>1 DEF Ledger!Costs, Costs, Ledger!NoDays, NoDays
<1> HIDE DEF opened, entitled
<1>12. Ledger!Request(target[s], cost[s])
  BY <1>1, <1>7, <1>8, <1>9, <1>10, <1>11, Zenon DEF Ledger!Request, opened, entitled
<1> QED
  BY <1>11, <1>12

LEMMA DecideIsDecide ==
  ASSUME IInv, NEW s \in Sessions, CommitDecide(s)
  PROVE  Ledger!Decide(target[s], outcome[s])
<1>1. /\ status[target[s]] = "pending" /\ days' = days
      /\ status' = [status EXCEPT ![target[s]] = outcome[s]]
  BY DEF IInv, LocksInv, CommitDecide
<1>2. {y \in Years : balance'[y].exists} = {y \in Years : balance[y].exists}
  BY DecideRows
<1>3. [y \in Years |-> balance'[y].entitled] = [y \in Years |-> balance[y].entitled]
  BY DecideRows
<1> QED
  BY <1>1, <1>2, <1>3 DEF Ledger!Decide

LEMMA LedgerNext ==
  ASSUME IInv, [Next]_vars
  PROVE  [Ledger!Next]_(Ledger!abstractVars)
<1>1. CASE UNCHANGED vars
  BY <1>1, Unchanged DEF Ledger!abstractVars
<1>2. ASSUME NEW s \in Sessions,
             \/ BeginSubmit(s) \/ ResolveEntitlement(s) \/ BeginDecide(s) \/ LockRequest(s)
             \/ Rollback(s) \/ \E y \in Years : ReserveYear(s, y) \/ SettleYear(s, y)
      PROVE  UNCHANGED Ledger!abstractVars
  <2>1. UNCHANGED rowVars
    BY <1>2 DEF BeginSubmit, ResolveEntitlement, BeginDecide, LockRequest, Rollback, ReserveYear, SettleYear
  <2>2. status' = status /\ days' = days /\ balance' = balance
    BY <2>1 DEF rowVars
  <2> QED
    BY <2>2 DEF Ledger!abstractVars
<1>3. ASSUME NEW s \in Sessions, CommitSubmit(s)
      PROVE  Ledger!Next
  <2>1. target[s] \in Requests
    BY DEF IInv, TypeOK
  <2>2. cost[s] \in Ledger!Costs /\ Ledger!Request(target[s], cost[s])
    BY <1>3, SubmitIsRequest
  <2> QED
    BY <2>1, <2>2, Zenon DEF Ledger!Next, Ledger!Request
<1>4. ASSUME NEW s \in Sessions, CommitDecide(s)
      PROVE  Ledger!Next
  <2>1. target[s] \in Requests /\ outcome[s] \in {"approved", "rejected", "cancelled"}
    BY DEF IInv, TypeOK, W!Outcomes
  <2> QED
    BY <1>4, <2>1, DecideIsDecide DEF Ledger!Next
<1> QED
  BY <1>1, <1>2, <1>3, <1>4, StepCases

\* Concurrent submits and decisions are indistinguishable, in the committed
\* rows, from calls that ran one at a time and counted the requests afresh.
THEOREM ImplementsLedger == Spec => LedgerSpec
BY InvInit, InvInductive, LedgerInit, LedgerNext, PTL DEF Spec, LedgerSpec, Ledger!Spec
=============================================================================
