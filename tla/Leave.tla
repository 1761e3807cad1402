------------------------------- MODULE Leave --------------------------------
(***************************************************************************)
(* The leave requests of one employee for one leave type, from             *)
(* packages/api/src/modules/leave: submit, approve, reject and cancel run  *)
(* as transactions of concurrent sessions over the request, its approval   *)
(* row and one balance row per calendar year.                              *)
(*                                                                         *)
(* A transaction stops wherever it can wait (a row lock, a connection of   *)
(* the pool).  What it read and changed of a balance is its draft of the   *)
(* row, and becomes visible when it commits.                               *)
(***************************************************************************)
EXTENDS Integers, FiniteSets

CONSTANTS Sessions,      \* concurrent calls of the service
          Requests,      \* ids of leave requests
          Years,         \* calendar years the requests touch
          MaxDays,       \* days a request may ask of one year (bound)
          Entitlements,  \* what resolveEntitlement may return
          Connections    \* connections of the database pool

ASSUME YearsAssumption == Years \subseteq Nat
ASSUME RequestsAssumption == IsFiniteSet(Requests) /\ Requests # {}
ASSUME DaysAssumption == MaxDays \in Nat /\ Entitlements \subseteq Nat
ASSUME ConnectionsAssumption == Connections \in Nat

VARIABLES status,     \* leave_requests.status, "absent" before the commit
          days,       \* leave_requests.yearAllocations
          approval,   \* status of the approval row (Workflow)
          announced,  \* the statuses announced on the outbox, per request
          balance,    \* committed leave_balances
          step,       \* where each session's transaction stands
          target,     \* the request it submits or decides
          outcome,    \* and with which status
          cost,       \* the days of each year its call is about
          locked,     \* the balance rows it has locked
          draft       \* and what it will commit for them

sessionVars == <<step, target, outcome, cost, locked, draft>>
rowVars == <<status, days, approval, announced, balance>>
vars == <<rowVars, sessionVars>>

W == INSTANCE Workflow WITH Subjects <- Requests

Costs == [Years -> 0..MaxDays]
NoDays == [y \in Years |-> 0]
NoRow == [exists |-> FALSE, entitled |-> 0, used |-> 0, pending |-> 0]
Rows == [exists : BOOLEAN, entitled : Nat, used : Nat, pending : Nat]
Statuses == {"absent", "pending"} \cup W!Outcomes

TypeOK ==
  /\ status \in [Requests -> Statuses]
  /\ days \in [Requests -> Costs]
  /\ W!ApprovalTypeOK
  /\ announced \in [Requests -> SUBSET Statuses]
  /\ balance \in [Years -> Rows]
  /\ step \in [Sessions -> {"idle", "resolve", "reserve", "find", "settle"}]
  /\ target \in [Sessions -> Requests]
  /\ outcome \in [Sessions -> W!Outcomes]
  /\ cost \in [Sessions -> Costs]
  /\ locked \in [Sessions -> SUBSET Years]
  /\ draft \in [Sessions -> [Years -> Rows]]

Init ==
  /\ status = [q \in Requests |-> "absent"]
  /\ days = [q \in Requests |-> NoDays]
  /\ W!ApprovalInit
  /\ announced = [q \in Requests |-> {}]
  /\ balance = [y \in Years |-> NoRow]
  /\ step = [s \in Sessions |-> "idle"]
  /\ target = [s \in Sessions |-> CHOOSE q \in Requests : TRUE]
  /\ outcome = [s \in Sessions |-> "cancelled"]
  /\ cost = [s \in Sessions |-> NoDays]
  /\ locked = [s \in Sessions |-> {}]
  /\ draft = [s \in Sessions |-> [y \in Years |-> NoRow]]

-----------------------------------------------------------------------------
(* What the transactions share: the pool, the row locks, the year loop *)

Open(s) == step[s] # "idle"

\* A transaction keeps its connection until it ends.
FreeConnection == Cardinality({s \in Sessions : Open(s)}) < Connections

Touched(s) == {y \in Years : cost[s][y] > 0}

\* Mutant: the allocations come in no particular order.
NextYearAny(s, y) == y \in Touched(s) \ locked[s]

\* The loop over the allocations goes through the years in order.
NextYear(s, y) ==
  /\ y \in Touched(s) \ locked[s]
  /\ \A z \in Touched(s) \ locked[s] : y <= z

YearsDone(s) == Touched(s) \subseteq locked[s]

\* Mutants: balances and requests are read without their row lock.
RowFreeAlways(y) == TRUE
RequestFreeAlways(q) == TRUE

RowFree(y) == \A s \in Sessions : y \notin locked[s]

RequestFree(q) == \A s \in Sessions : ~(step[s] = "settle" /\ target[s] = q)

\* The transaction ends; its locks go, and its drafts are committed or not.
End(s) ==
  /\ step' = [step EXCEPT ![s] = "idle"]
  /\ outcome' = [outcome EXCEPT ![s] = "cancelled"]
  /\ target' = [target EXCEPT ![s] = CHOOSE q \in Requests : TRUE]
  /\ cost' = [cost EXCEPT ![s] = NoDays]
  /\ locked' = [locked EXCEPT ![s] = {}]
  /\ draft' = [draft EXCEPT ![s] = [y \in Years |-> NoRow]]

Rollback(s) == End(s) /\ UNCHANGED rowVars

CommitDrafts(s) ==
  balance' = [y \in Years |-> IF y \in locked[s] THEN draft[s][y] ELSE balance[y]]

Lock(s, y, row) ==
  /\ locked' = [locked EXCEPT ![s] = @ \cup {y}]
  /\ draft' = [draft EXCEPT ![s] = [@ EXCEPT ![y] = row]]

-----------------------------------------------------------------------------
(* submit *)

Submitting(s) == step[s] \in {"resolve", "reserve"}

\* A range without working days was refused before the transaction.  The
\* target of a submit is the id that its request will get.
BeginSubmit(s) ==
  /\ step[s] = "idle" /\ FreeConnection
  /\ step' = [step EXCEPT ![s] = "resolve"]
  /\ \E q \in Requests :
       /\ status[q] = "absent" /\ \A r \in Sessions : ~(Submitting(r) /\ target[r] = q)
       /\ target' = [target EXCEPT ![s] = q]
  /\ \E c \in Costs \ {NoDays} : cost' = [cost EXCEPT ![s] = c]
  /\ UNCHANGED <<rowVars, outcome, locked, draft>>

\* resolveEntitlement does not get the transaction's manager: its query
\* takes a second connection from the pool.
ResolveEntitlement(s) ==
  /\ step[s] = "resolve" /\ ~YearsDone(s)
  /\ FreeConnection
  /\ step' = [step EXCEPT ![s] = "reserve"]
  /\ UNCHANGED <<rowVars, target, outcome, cost, locked, draft>>

\* getOrCreateBalance: the locked row of the year, or a new one.  A creator
\* of the same row is waited for like the holder of its lock.
Opened(row, granted) ==
  IF row.exists THEN row ELSE [exists |-> TRUE, entitled |-> granted, used |-> 0, pending |-> 0]

\* Mutant: what pending requests hold is not held back.
FitsUnused(row, n) == n <= row.entitled - row.used

Fits(row, n) == n <= row.entitled - row.used - row.pending

Reserved(row, n) ==
  [exists |-> TRUE, entitled |-> row.entitled, used |-> row.used, pending |-> row.pending + n]

ReserveYear(s, y) ==
  /\ step[s] = "reserve" /\ NextYear(s, y)
  /\ RowFree(y)
  /\ \E granted \in Entitlements :
       LET row == Opened(balance[y], granted)
       IN  /\ Fits(row, cost[s][y])
           /\ Lock(s, y, Reserved(row, cost[s][y]))
  /\ step' = [step EXCEPT ![s] = "resolve"]
  /\ UNCHANGED <<rowVars, target, outcome, cost>>

\* 'Insufficient leave balance' rolls every year's reservation back.
RefuseYear(s, y) ==
  /\ step[s] = "reserve" /\ NextYear(s, y)
  /\ RowFree(y)
  /\ \E granted \in Entitlements : ~Fits(Opened(balance[y], granted), cost[s][y])
  /\ Rollback(s)

\* The request, its approval row (unless the type needs none or nobody is
\* known to ask) and 'leave.requested' commit with the reservations.
CommitSubmit(s) ==
  /\ step[s] = "resolve" /\ YearsDone(s)
  /\ status' = [status EXCEPT ![target[s]] = "pending"]
  /\ days' = [days EXCEPT ![target[s]] = cost[s]]
  /\ W!RequestApproval(target[s]) \/ UNCHANGED approval
  /\ announced' = [announced EXCEPT ![target[s]] = @ \cup {"pending"}]
  /\ CommitDrafts(s)
  /\ End(s)

-----------------------------------------------------------------------------
(* approve, reject, cancel *)

BeginDecide(s) ==
  /\ step[s] = "idle" /\ FreeConnection
  /\ step' = [step EXCEPT ![s] = "find"]
  /\ \E q \in Requests : status[q] # "absent" /\ target' = [target EXCEPT ![s] = q]
  /\ \E o \in W!Outcomes : outcome' = [outcome EXCEPT ![s] = o]
  /\ UNCHANGED <<rowVars, cost, locked, draft>>

\* The locked read waits for another decision, and sees what it committed.
LockRequest(s) ==
  /\ step[s] = "find" /\ RequestFree(target[s])
  /\ status[target[s]] = "pending"
  /\ step' = [step EXCEPT ![s] = "settle"]
  /\ cost' = [cost EXCEPT ![s] = days[target[s]]]
  /\ UNCHANGED <<rowVars, target, outcome, locked, draft>>

RefuseDecision(s) ==
  /\ step[s] = "find" /\ RequestFree(target[s])
  /\ status[target[s]] # "pending"
  /\ Rollback(s)

\* Mutants: a refusal takes the days off usedDays too, or releases nothing.
SettledTwice(row, n, decision) ==
  IF ~row.exists THEN row
  ELSE [exists |-> TRUE, entitled |-> row.entitled,
        used |-> row.used + (IF decision = "approved" THEN n ELSE 0 - n),
        pending |-> IF row.pending > n THEN row.pending - n ELSE 0]
SettledOnApproval(row, n, decision) ==
  IF ~row.exists \/ decision # "approved" THEN row
  ELSE [exists |-> TRUE, entitled |-> row.entitled, used |-> row.used + n,
        pending |-> IF row.pending > n THEN row.pending - n ELSE 0]

\* Math.max(0, pendingDays - days), and usedDays + days on approval.
Settled(row, n, decision) ==
  IF ~row.exists THEN row
  ELSE [exists |-> TRUE, entitled |-> row.entitled,
        used |-> row.used + (IF decision = "approved" THEN n ELSE 0),
        pending |-> IF row.pending > n THEN row.pending - n ELSE 0]

SettleYear(s, y) ==
  /\ step[s] = "settle" /\ NextYear(s, y)
  /\ RowFree(y)
  /\ Lock(s, y, Settled(balance[y], cost[s][y], outcome[s]))
  /\ UNCHANGED <<rowVars, step, target, outcome, cost>>

CommitDecide(s) ==
  /\ step[s] = "settle" /\ YearsDone(s)
  /\ \/ W!MayDecide(target[s]) /\ W!DecideApproval(target[s], outcome[s])
     \/ approval[target[s]] = "none" /\ UNCHANGED approval
  /\ status' = [status EXCEPT ![target[s]] = outcome[s]]
  /\ announced' = [announced EXCEPT ![target[s]] = @ \cup {outcome[s]}]
  /\ CommitDrafts(s)
  /\ End(s)
  /\ UNCHANGED days

\* Any statement may throw (WorkflowService.decide when the approval is no
\* longer pending), the connection may drop, the process may die.
Fail(s) == Open(s) /\ Rollback(s)

-----------------------------------------------------------------------------
Work(s) ==
  \/ ResolveEntitlement(s) \/ CommitSubmit(s)
  \/ LockRequest(s) \/ RefuseDecision(s) \/ CommitDecide(s)
  \/ \E y \in Years : ReserveYear(s, y) \/ RefuseYear(s, y) \/ SettleYear(s, y)

Next == \E s \in Sessions : BeginSubmit(s) \/ BeginDecide(s) \/ Work(s) \/ Fail(s)

Spec == Init /\ [][Next]_vars

\* Row locks and pool connections are handed out first come first served, so
\* a call that keeps becoming able to go on does.
FairSpec == Spec /\ \A s \in Sessions : SF_vars(Work(s))

-----------------------------------------------------------------------------
(* Properties *)

\* "two requests can't both spend the same remaining balance"
\* (leave-balance.entity.ts:27-28): no interleaving of submits and decisions
\* promises or spends more days of a year than the balance was opened with.
NoOversubscription == \A y \in Years : balance[y].used + balance[y].pending <= balance[y].entitled

\* The module's promise, with the opened years and their entitlement read off
\* the balance rows and the running totals hidden: row locks and drafts make
\* concurrent transactions look like whole calls, one at a time.
Ledger == INSTANCE LeaveLedger WITH
            opened <- {y \in Years : balance[y].exists},
            entitled <- [y \in Years |-> balance[y].entitled]
LedgerSpec == Ledger!Spec

\* The running totals never drift: what a year holds as pending and as used is
\* what its pending and its approved requests ask of it, whatever calls were
\* refused, failed half way or decided the same request together.
TotalsMatchRequests ==
  \A y \in Years :
    /\ balance[y].pending = Cardinality(Ledger!DaysOf({"pending"}, y))
    /\ balance[y].used = Cardinality(Ledger!DaysOf({"approved"}, y))

\* A decided request never leaves its approval pending or decided otherwise,
\* and the outbox announced that outcome and no other.
OutcomeInStep ==
  \A q \in Requests :
    /\ approval[q] \in {"none", status[q]}
    /\ announced[q] = (IF status[q] = "absent" THEN {} ELSE {"pending", status[q]})

\* Every call returns: the sessions lock requests before balances and balances
\* in the order of the years, so they do not wait for each other in a circle.
\* (The pool needs a connection more than there are concurrent calls.)
EveryCallReturns == \A s \in Sessions : Open(s) ~> ~Open(s)

-----------------------------------------------------------------------------
(* The inductive invariant behind the safety properties *)

\* Each lock has one holder, and a transaction in progress still finds its
\* request as it found it.
LocksInv ==
  \A s \in Sessions :
    /\ locked[s] \subseteq Touched(s)
    /\ step[s] \in {"idle", "find"} => locked[s] = {}
    /\ Submitting(s) => status[target[s]] = "absent" /\ cost[s] # NoDays
    /\ step[s] = "settle" => status[target[s]] = "pending" /\ cost[s] = days[target[s]]
    /\ \A r \in Sessions \ {s} :
         /\ locked[r] \cap locked[s] = {}
         /\ Submitting(r) /\ Submitting(s) => target[r] # target[s]
         /\ step[r] = "settle" /\ step[s] = "settle" => target[r] # target[s]

\* A draft is what the committed row becomes: nobody changed it meanwhile.
DraftInv ==
  \A s \in Sessions : \A y \in locked[s] :
    /\ Submitting(s) =>
         \E granted \in Entitlements :
           LET row == Opened(balance[y], granted)
           IN  Fits(row, cost[s][y]) /\ draft[s][y] = Reserved(row, cost[s][y])
    /\ step[s] = "settle" => draft[s][y] = Settled(balance[y], cost[s][y], outcome[s])

\* A request holds days only of years that have a balance.
OpenedInv ==
  \A y \in Years :
    /\ ~balance[y].exists => balance[y] = NoRow
    /\ \A q \in Requests : status[q] # "absent" /\ days[q][y] > 0 => balance[y].exists

IInv == TypeOK /\ LocksInv /\ DraftInv /\ OpenedInv
        /\ TotalsMatchRequests /\ NoOversubscription /\ OutcomeInStep
=============================================================================
