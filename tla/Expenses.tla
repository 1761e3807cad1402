------------------------------ MODULE Expenses ------------------------------
(***************************************************************************)
(* One expense claim, from packages/api/src/modules/expenses: its lines,   *)
(* its approval rows, its reimbursement and its billing to the client.     *)
(*                                                                         *)
(* Deciding and paying lock the claim row and are one step each.  The      *)
(* claimant's calls and the check before billing do not: each is a session *)
(* that stops between its statements and saves a copy it read earlier.     *)
(*                                                                         *)
(* Amounts are abstracted: the totals of the claim are the set of lines    *)
(* they were summed over.  Every line's category is billable.              *)
(***************************************************************************)
EXTENDS Integers

CONSTANTS Claimants,    \* concurrent calls that edit, submit or cancel
          Billers,      \* concurrent calls of billToClient
          Lines,        \* ids of claim lines
          Approvals,    \* ids of approval rows (bounds the submits)
          Months,       \* service months whose expenses invoice is a draft
          MaxPayments   \* direct payments (bound)

None == "none"

ASSUME LinesAssumption == Lines # {}
ASSUME ApprovalsAssumption == None \notin Approvals
ASSUME PaymentsAssumption == MaxPayments \in Nat

VARIABLES claim,        \* the expense_claims row
          lines,        \* ids in expense_claim_lines
          approval,     \* status of the approval rows (Workflow)
          granted,      \* decideClaim was ever called with 'approved' (history)
          direct,       \* direct payments recorded
          adjustments,  \* payroll adjustments with this claim as their source
          invoiced,     \* months whose invoice carries the claim's lines
          undone,       \* saves that took the claim back from 'paid' (history)
          step,         \* where each session stands
          call,         \* what it does
          line,         \* to which line
          object,       \* its copy of the claim row
          changed       \* columns in which the copy differed from the row

sessionVars == <<step, call, line, object, changed>>
moneyVars == <<direct, adjustments, invoiced, undone>>
vars == <<claim, lines, approval, granted, moneyVars, sessionVars>>

W == INSTANCE Workflow WITH Subjects <- Approvals

Sessions == Claimants \cup Billers
Statuses == {"draft", "submitted", "approved", "rejected", "cancelled", "paid"}
Columns == {"status", "link", "counted", "billed"}
Claims == [status : Statuses, link : Approvals \cup {None},
           counted : SUBSET Lines, billed : BOOLEAN]
NewClaim == [status |-> "draft", link |-> None, counted |-> {}, billed |-> FALSE]
AnyLine == CHOOSE l \in Lines : TRUE

TypeOK ==
  /\ claim \in Claims
  /\ lines \subseteq Lines
  /\ W!ApprovalTypeOK
  /\ granted \in BOOLEAN
  /\ direct \in 0..MaxPayments /\ adjustments \in Nat /\ invoiced \subseteq Months
  /\ undone \in Nat
  /\ step \in [Sessions -> {"idle", "line", "sum", "load", "count", "submit",
                            "select", "write", "bill"}]
  /\ call \in [Sessions -> {"none", "add", "update", "remove", "submit", "cancel", "bill"}]
  /\ line \in [Sessions -> Lines]
  /\ object \in [Sessions -> Claims]
  /\ changed \in [Sessions -> SUBSET Columns]

\* createDraft has just returned: a claim without lines.
Init ==
  /\ claim = NewClaim
  /\ lines = {}
  /\ W!ApprovalInit
  /\ granted = FALSE
  /\ direct = 0 /\ adjustments = 0 /\ invoiced = {} /\ undone = 0
  /\ step = [s \in Sessions |-> "idle"]
  /\ call = [s \in Sessions |-> "none"]
  /\ line = [s \in Sessions |-> AnyLine]
  /\ object = [s \in Sessions |-> NewClaim]
  /\ changed = [s \in Sessions |-> {}]

-----------------------------------------------------------------------------
(* Sessions *)

Begin(s, name, at, l, copy) ==
  /\ step[s] = "idle"
  /\ step' = [step EXCEPT ![s] = at]
  /\ call' = [call EXCEPT ![s] = name]
  /\ line' = [line EXCEPT ![s] = l]
  /\ object' = [object EXCEPT ![s] = copy]
  /\ UNCHANGED <<claim, lines, approval, granted, moneyVars, changed>>

End(s) ==
  /\ step' = [step EXCEPT ![s] = "idle"]
  /\ call' = [call EXCEPT ![s] = "none"]
  /\ line' = [line EXCEPT ![s] = AnyLine]
  /\ object' = [object EXCEPT ![s] = NewClaim]
  /\ changed' = [changed EXCEPT ![s] = {}]

\* The call throws, its connection drops or its process dies.
Fail(s) ==
  /\ step[s] # "idle"
  /\ End(s)
  /\ UNCHANGED <<claim, lines, approval, granted, moneyVars>>

-----------------------------------------------------------------------------
(* addLine, updateLine, removeLine *)

\* loadEditableClaim: the status is read without a lock.
Editable == claim.status = "draft"

\* The id of a new row is nobody's.
BeginAdd(s, l) ==
  /\ Editable
  /\ l \notin lines /\ \A r \in Sessions : step[r] = "idle" \/ line[r] # l
  /\ Begin(s, "add", "line", l, NewClaim)

BeginUpdate(s, l) == l \in lines /\ Editable /\ Begin(s, "update", "line", l, NewClaim)

BeginRemove(s, l) == l \in lines /\ Editable /\ Begin(s, "remove", "sum", l, NewClaim)

\* A transaction that deleted the line keeps its row locked.
Deleting(r, l) ==
  call[r] = "remove" /\ line[r] = l /\ step[r] \in {"load", "select", "write"}
LineFree(l) == \A r \in Claimants : ~Deleting(r, l)

\* Saving a line that was removed meanwhile inserts it again, unless the
\* removal committed between the two statements of the save.
SaveLine(s) ==
  /\ step[s] = "line" /\ LineFree(line[s])
  /\ \/ lines' = lines \cup {line[s]}
     \/ call[s] = "update" /\ line[s] \notin lines /\ UNCHANGED lines
  /\ step' = [step EXCEPT ![s] = "sum"]
  /\ UNCHANGED <<claim, approval, granted, moneyVars, call, line, object, changed>>

\* A transaction sees its own delete.
Visible(s) == IF call[s] = "remove" THEN lines \ {line[s]} ELSE lines

\* recomputeTotalsWithin: read the lines,
SumLines(s) ==
  /\ step[s] = "sum"
  /\ call[s] = "remove" => LineFree(line[s])
  /\ step' = [step EXCEPT ![s] = "load"]
  /\ object' = [object EXCEPT ![s].counted = Visible(s)]
  /\ UNCHANGED <<claim, lines, approval, granted, moneyVars, call, line, changed>>

\* read the claim, without a lock, and set its totals,
LoadClaim(s) ==
  /\ step[s] = "load"
  /\ step' = [step EXCEPT ![s] = "select"]
  /\ object' = [object EXCEPT ![s] = [claim EXCEPT !.counted = object[s].counted]]
  /\ UNCHANGED <<claim, lines, approval, granted, moneyVars, call, line, changed>>

\* save it: the ORM reads the row again to find the columns that differ,
SelectClaim(s) ==
  /\ step[s] = "select"
  /\ step' = [step EXCEPT ![s] = "write"]
  /\ changed' = [changed EXCEPT ![s] = {c \in Columns : object[s][c] # claim[c]}]
  /\ UNCHANGED <<claim, lines, approval, granted, moneyVars, call, line, object>>

\* Mutant: the columns that do not differ are not kept.
MergedPartial(s) == [c \in changed[s] |-> object[s][c]]

Merged(s) == [c \in Columns |-> IF c \in changed[s] THEN object[s][c] ELSE claim[c]]

\* The save may take a paid claim back.
Undo ==
  undone' = IF claim.status = "paid" /\ claim'.status # "paid" THEN undone + 1 ELSE undone

\* and writes those columns from the copy.
WriteClaim(s) ==
  /\ step[s] = "write"
  /\ claim' = Merged(s)
  /\ lines' = IF call[s] = "remove" THEN lines \ {line[s]} ELSE lines
  /\ Undo
  /\ End(s)
  /\ UNCHANGED <<approval, granted, direct, adjustments, invoiced>>

-----------------------------------------------------------------------------
(* submitClaim, cancelClaim *)

BeginSubmit(s) == Editable /\ Begin(s, "submit", "count", AnyLine, claim)

CountLines(s) ==
  /\ step[s] = "count" /\ lines # {}
  /\ step' = [step EXCEPT ![s] = "submit"]
  /\ UNCHANGED <<claim, lines, approval, granted, moneyVars, call, line, object, changed>>

RefuseEmpty(s) ==
  /\ step[s] = "count" /\ lines = {}
  /\ End(s)
  /\ UNCHANGED <<claim, lines, approval, granted, moneyVars>>

\* The row is saved twice in the transaction, the second time with its link,
\* so all of the copy ends in it.  (A lost claim number only tries again.)
Submit(s, q) ==
  /\ step[s] = "submit"
  /\ approval[q] = "none" /\ W!RequestApproval(q)
  /\ claim' = [object[s] EXCEPT !.status = "submitted", !.link = q]
  /\ Undo
  /\ End(s)
  /\ UNCHANGED <<lines, granted, direct, adjustments, invoiced>>

\* The approval of a submitted claim stays pending.
BeginCancel(s) ==
  /\ claim.status \in {"draft", "submitted"}
  /\ Begin(s, "cancel", "select", AnyLine, [claim EXCEPT !.status = "cancelled"])

-----------------------------------------------------------------------------
(* decideClaim, markReimbursed: transactions that lock the claim *)

\* Mutant: the decision does not ask whether the approval is still pending.
DecideLinkUnchecked(decision) ==
  approval' = [q \in Approvals |-> IF q = claim.link THEN decision ELSE approval[q]]

\* WorkflowService.decide throws when the approval is no longer pending; a
\* claim without a link is decided without it.
DecideLink(decision) ==
  /\ claim.link # None => W!MayDecide(claim.link)
  /\ approval' = [q \in Approvals |-> IF q = claim.link THEN decision ELSE approval[q]]

DecideClaim(decision) ==
  /\ claim.status = "submitted"
  /\ DecideLink(decision)
  /\ claim' = [claim EXCEPT !.status = decision]
  /\ granted' = (granted \/ decision = "approved")
  /\ UNCHANGED <<lines, moneyVars, sessionVars>>

\* Mutants: an undecided claim, or a paid one, is payable.
PayableUndecided == claim.status \in {"submitted", "approved"}
PayableAgain == claim.status \in {"approved", "paid"}

Payable == claim.status = "approved"

ReimburseDirectly ==
  /\ Payable /\ direct < MaxPayments
  /\ claim' = [claim EXCEPT !.status = "paid"]
  /\ direct' = direct + 1
  /\ UNCHANGED <<lines, approval, granted, adjustments, invoiced, undone, sessionVars>>

\* Mutant: a payroll retry creates another adjustment.
ScheduleAgain == adjustments' = adjustments + 1

\* findAdjustmentBySource: the adjustment of an earlier try is reused.
Schedule == adjustments' = IF adjustments > 0 THEN adjustments ELSE adjustments + 1

ReimburseByPayroll ==
  /\ Payable
  /\ claim' = [claim EXCEPT !.status = "paid"]
  /\ Schedule
  /\ UNCHANGED <<lines, approval, granted, direct, invoiced, undone, sessionVars>>

-----------------------------------------------------------------------------
(* billToClient *)

Billable == claim.status \in {"approved", "paid"} /\ ~claim.billed

BeginBill(s) ==
  /\ Billable /\ claim.counted # {} /\ lines # {}
  /\ Begin(s, "bill", "bill", AnyLine, NewClaim)

\* Only whether it is billed is checked again under the row lock.
StillUnbilled == ~claim.billed

\* The marker of the claim keeps a second copy out of the same invoice.
Bill(s, m) ==
  /\ step[s] = "bill" /\ StillUnbilled
  /\ claim' = [claim EXCEPT !.billed = TRUE]
  /\ invoiced' = invoiced \cup {m}
  /\ End(s)
  /\ UNCHANGED <<lines, approval, granted, direct, adjustments, undone>>

RefuseBilled(s) ==
  /\ step[s] = "bill" /\ ~StillUnbilled
  /\ End(s)
  /\ UNCHANGED <<claim, lines, approval, granted, moneyVars>>

-----------------------------------------------------------------------------
Claimant(s) ==
  \/ \E l \in Lines : BeginAdd(s, l) \/ BeginUpdate(s, l) \/ BeginRemove(s, l)
  \/ SaveLine(s) \/ SumLines(s) \/ LoadClaim(s) \/ SelectClaim(s) \/ WriteClaim(s)
  \/ BeginSubmit(s) \/ CountLines(s) \/ RefuseEmpty(s)
  \/ \E q \in Approvals : Submit(s, q)
  \/ BeginCancel(s)

Biller(s) == BeginBill(s) \/ RefuseBilled(s) \/ \E m \in Months : Bill(s, m)

Approver == \E decision \in {"approved", "rejected"} : DecideClaim(decision)

Payer == ReimburseDirectly \/ ReimburseByPayroll

Next ==
  \/ \E s \in Claimants : Claimant(s)
  \/ \E s \in Billers : Biller(s)
  \/ \E s \in Sessions : Fail(s)
  \/ Approver \/ Payer

Spec == Init /\ [][Next]_vars

-----------------------------------------------------------------------------
(* Properties *)

\* No order of calls, and no copy saved late, pays or bills a claim that no
\* approver ever approved.
MoneyWasApproved == direct > 0 \/ adjustments > 0 \/ invoiced # {} => granted

\* However often a claim comes to be approved again, payroll pays it once.
PayrollPaysOnce == adjustments <= 1

\* A decided approval is final, even when an older copy of the claim puts a
\* submitted status back over the decision.
DecisionsStand ==
  [][\A q \in Approvals : approval[q] \in W!Outcomes => approval'[q] = approval[q]]_vars

\* "The claim row is locked for the decision so concurrent/replayed calls
\* cannot pay twice" (expense-claim.service.ts:628-629).
PaidOnce == direct + adjustments <= 1

\* Every payment after the first, directly or by payroll, needs a save that took
\* the claim back from 'paid' before it: payers, approvers and billers alone, in
\* whatever order, pay a claim once.
PaidAgainOnlyWhenUndone == direct + adjustments <= 1 + undone

-----------------------------------------------------------------------------
(* The inductive invariant behind the three *)

\* An approved status, a mark of billing and a call about to bill all descend
\* from a decision, in the row and in every copy of it.
Descends(copy) == copy.status \in {"approved", "paid"} \/ copy.billed

ApprovedInv ==
  /\ Descends(claim) => granted
  /\ \A s \in Sessions : Descends(object[s]) \/ step[s] = "bill" => granted

\* While the claim is not paid, each payment made was taken back.
UndoneInv == claim.status # "paid" => direct + adjustments <= undone

IInv ==
  /\ TypeOK /\ ApprovedInv /\ UndoneInv
  /\ MoneyWasApproved /\ PayrollPaysOnce /\ PaidAgainOnlyWhenUndone
=============================================================================
