--------------------------- MODULE ExpensesProofs ---------------------------
(***************************************************************************)
(* Whatever the number of concurrent calls, no expense is paid without an  *)
(* approval, payroll pays a claim once, a second payment needs a save that *)
(* undid the first, and a decided approval is final.                       *)
(***************************************************************************)
EXTENDS Expenses, TLAPS

LEMMA AnyLineIsLine == AnyLine \in Lines
BY LinesAssumption DEF AnyLine

LEMMA InitTypeOK == Init => TypeOK
<1> SUFFICES ASSUME Init PROVE TypeOK
  OBVIOUS
<1>1. NewClaim \in Claims
  BY DEF NewClaim, Claims, Statuses
<1>2. claim \in Claims /\ lines \subseteq Lines /\ granted \in BOOLEAN
  BY <1>1 DEF Init
<1>3. W!ApprovalTypeOK
  BY DEF Init, W!ApprovalInit, W!ApprovalTypeOK
<1>4. direct \in 0..MaxPayments /\ adjustments \in Nat /\ invoiced \subseteq Months /\ undone \in Nat
  BY PaymentsAssumption DEF Init
<1>5. /\ step \in [Sessions -> {"idle"}] /\ call \in [Sessions -> {"none"}]
      /\ line \in [Sessions -> Lines] /\ object \in [Sessions -> Claims]
      /\ changed \in [Sessions -> {{}}]
  BY <1>1, AnyLineIsLine DEF Init
<1> QED BY <1>2, <1>3, <1>4, <1>5 DEF TypeOK

-----------------------------------------------------------------------------
(* What the parts of an action keep *)

LEMMA EndType ==
  ASSUME TypeOK, NEW s \in Sessions, End(s)
  PROVE  /\ step' \in [Sessions -> {"idle", "line", "sum", "load", "count", "submit",
                                    "select", "write", "bill"}]
         /\ call' \in [Sessions -> {"none", "add", "update", "remove", "submit",
                                    "cancel", "bill"}]
         /\ line' \in [Sessions -> Lines]
         /\ object' \in [Sessions -> Claims]
         /\ changed' \in [Sessions -> SUBSET Columns]
BY AnyLineIsLine DEF TypeOK, End, NewClaim, Claims, Statuses, None

\* A session that ends has no copy of the claim left.
LEMMA EndApproved ==
  ASSUME TypeOK, ApprovedInv, NEW s \in Sessions, End(s), granted' = granted
  PROVE  \A r \in Sessions : Descends(object[r])' \/ step'[r] = "bill" => granted'
<1>1. \A r \in Sessions : object'[r] = (IF r = s THEN NewClaim ELSE object[r])
  BY DEF TypeOK, End
<1>2. \A r \in Sessions : step'[r] = (IF r = s THEN "idle" ELSE step[r])
  BY DEF TypeOK, End
<1>3. ~Descends(NewClaim)
  BY DEF Descends, NewClaim
<1> QED BY <1>1, <1>2, <1>3 DEF ApprovedInv, Descends

\* A session that begins with a copy of a claim that need not be approved.
LEMMA BeginApproved ==
  ASSUME TypeOK, ApprovedInv,
         NEW s \in Sessions, NEW name \in {"add", "update", "remove", "submit", "cancel", "bill"},
         NEW at \in {"line", "sum", "count", "select", "bill"}, NEW l \in Lines,
         NEW copy \in Claims,
         Begin(s, name, at, l, copy),
         Descends(copy) \/ at = "bill" => granted
  PROVE  TypeOK' /\ ApprovedInv'
<1>1. TypeOK'
  BY DEF TypeOK, Begin, moneyVars, W!ApprovalTypeOK
<1>2. \A r \in Sessions : object'[r] = (IF r = s THEN copy ELSE object[r])
  BY DEF TypeOK, Begin
<1>3. \A r \in Sessions : step'[r] = (IF r = s THEN at ELSE step[r])
  BY DEF TypeOK, Begin
<1>4. claim' = claim /\ granted' = granted
  BY DEF Begin
<1> QED BY <1>1, <1>2, <1>3, <1>4 DEF ApprovedInv, Descends

LEMMA NewClaimIsNew == NewClaim \in Claims /\ ~Descends(NewClaim)
BY DEF NewClaim, Claims, Statuses, None, Descends

\* What the last statement of a save leaves in the row.
LEMMA MergedType ==
  ASSUME TypeOK, NEW s \in Sessions
  PROVE  /\ Merged(s) \in Claims
         /\ Merged(s).status \in {claim.status, object[s].status}
         /\ Merged(s).billed \in {claim.billed, object[s].billed}
<1>1. claim \in Claims /\ object[s] \in Claims
  BY DEF TypeOK
<1>2. Merged(s) = [status |-> IF "status" \in changed[s] THEN object[s].status ELSE claim.status,
                   link |-> IF "link" \in changed[s] THEN object[s].link ELSE claim.link,
                   counted |-> IF "counted" \in changed[s] THEN object[s].counted ELSE claim.counted,
                   billed |-> IF "billed" \in changed[s] THEN object[s].billed ELSE claim.billed]
  BY DEF Merged, Columns
<1> QED BY <1>1, <1>2 DEF Claims

-----------------------------------------------------------------------------
(* One lemma per group of actions *)

\* The calls of the claimant.
LEMMA ClaimantStep ==
  ASSUME TypeOK, ApprovedInv, NEW s \in Claimants, Claimant(s)
  PROVE  TypeOK' /\ ApprovedInv'
<1> s \in Sessions
  BY DEF Sessions
<1> USE NewClaimIsNew, AnyLineIsLine
<1>1. ASSUME NEW l \in Lines, BeginAdd(s, l) PROVE TypeOK' /\ ApprovedInv'
  BY <1>1, BeginApproved DEF BeginAdd
<1>2. ASSUME NEW l \in Lines, BeginUpdate(s, l) PROVE TypeOK' /\ ApprovedInv'
  BY <1>2, BeginApproved DEF BeginUpdate
<1>3. ASSUME NEW l \in Lines, BeginRemove(s, l) PROVE TypeOK' /\ ApprovedInv'
  BY <1>3, BeginApproved DEF BeginRemove
<1>4. CASE SaveLine(s)
  <2>1. TypeOK'
    BY <1>4 DEF SaveLine, TypeOK, moneyVars, W!ApprovalTypeOK
  <2> QED BY <1>4, <2>1 DEF SaveLine, TypeOK, ApprovedInv, Descends
<1>5. CASE SumLines(s)
  <2>1. Visible(s) \subseteq Lines
    BY DEF Visible, TypeOK
  <2>2. object'[s] = [object[s] EXCEPT !.counted = Visible(s)]
    BY <1>5 DEF SumLines, TypeOK
  <2>3. object'[s] \in Claims /\ (Descends(object[s])' <=> Descends(object[s]))
    BY <2>1, <2>2 DEF TypeOK, Claims, Descends
  <2>4. \A r \in Sessions \ {s} : object'[r] = object[r] /\ step'[r] = step[r]
    BY <1>5 DEF SumLines, TypeOK
  <2>5. object' \in [Sessions -> Claims]
    BY <1>5, <2>3, <2>4 DEF SumLines, TypeOK
  <2>6. TypeOK'
    BY <1>5, <2>5 DEF SumLines, TypeOK, moneyVars, W!ApprovalTypeOK
  <2>7. step'[s] = "load" /\ claim' = claim /\ granted' = granted
    BY <1>5 DEF SumLines, TypeOK
  <2> QED BY <2>3, <2>4, <2>6, <2>7 DEF ApprovedInv, Descends
<1>6. CASE LoadClaim(s)
  <2>1. object'[s] = [claim EXCEPT !.counted = object[s].counted]
    BY <1>6 DEF LoadClaim, TypeOK
  <2>2. object'[s] \in Claims /\ (Descends(object[s])' <=> Descends(claim))
    BY <2>1 DEF TypeOK, Claims, Descends
  <2>3. \A r \in Sessions \ {s} : object'[r] = object[r] /\ step'[r] = step[r]
    BY <1>6 DEF LoadClaim, TypeOK
  <2>4. object' \in [Sessions -> Claims]
    BY <1>6, <2>2, <2>3 DEF LoadClaim, TypeOK
  <2>5. TypeOK'
    BY <1>6, <2>4 DEF LoadClaim, TypeOK, moneyVars, W!ApprovalTypeOK
  <2>6. step'[s] = "select" /\ claim' = claim /\ granted' = granted
    BY <1>6 DEF LoadClaim, TypeOK
  <2> QED BY <2>2, <2>3, <2>5, <2>6 DEF ApprovedInv, Descends
<1>7. CASE SelectClaim(s)
  <2>1. TypeOK'
    BY <1>7 DEF SelectClaim, TypeOK, moneyVars, W!ApprovalTypeOK
  <2> QED BY <1>7, <2>1 DEF SelectClaim, TypeOK, ApprovedInv, Descends
<1>8. CASE WriteClaim(s)
  <2>1. claim' = Merged(s) /\ End(s) /\ granted' = granted
    BY <1>8 DEF WriteClaim
  <2>2. /\ lines' \subseteq Lines /\ UNCHANGED <<approval, direct, adjustments, invoiced>>
        /\ undone' \in Nat
    BY <1>8 DEF WriteClaim, TypeOK, Undo
  <2>3. TypeOK'
    BY <2>1, <2>2, EndType, MergedType DEF TypeOK, W!ApprovalTypeOK
  <2>4. Descends(claim)' => granted'
    BY <2>1, MergedType DEF ApprovedInv, Descends
  <2> QED BY <2>1, <2>3, <2>4, EndApproved DEF ApprovedInv
<1>9. CASE BeginSubmit(s)
  BY <1>9, BeginApproved DEF BeginSubmit, ApprovedInv, TypeOK
<1>10. CASE CountLines(s)
  <2>1. TypeOK'
    BY <1>10 DEF CountLines, TypeOK, moneyVars, W!ApprovalTypeOK
  <2> QED BY <1>10, <2>1 DEF CountLines, TypeOK, ApprovedInv, Descends
<1>11. CASE RefuseEmpty(s)
  <2>1. TypeOK'
    BY <1>11, EndType DEF RefuseEmpty, TypeOK, moneyVars, W!ApprovalTypeOK
  <2> QED BY <1>11, <2>1, EndApproved DEF RefuseEmpty, ApprovedInv, Descends
<1>12. ASSUME NEW q \in Approvals, Submit(s, q) PROVE TypeOK' /\ ApprovedInv'
  <2>1. claim' = [object[s] EXCEPT !.status = "submitted", !.link = q]
    BY <1>12 DEF Submit
  <2>2. claim' \in Claims /\ (Descends(claim)' => Descends(object[s]))
    BY <2>1 DEF TypeOK, Claims, Statuses, Descends
  <2>3. W!ApprovalTypeOK'
    BY <1>12 DEF Submit, W!RequestApproval, W!ApprovalTypeOK, TypeOK
  <2>4. End(s) /\ UNCHANGED <<lines, granted, direct, adjustments, invoiced>> /\ undone' \in Nat
    BY <1>12 DEF Submit, Undo, TypeOK
  <2>5. TypeOK'
    BY <2>2, <2>3, <2>4, EndType DEF TypeOK
  <2> QED BY <2>2, <2>4, <2>5, EndApproved DEF ApprovedInv
<1>13. CASE BeginCancel(s)
  <2> DEFINE copy == [claim EXCEPT !.status = "cancelled"]
  <2>1. copy \in Claims /\ (Descends(copy) => Descends(claim))
    BY DEF TypeOK, Claims, Statuses, Descends
  <2>2. Descends(copy) \/ "select" = "bill" => granted
    BY <2>1 DEF ApprovedInv
  <2>3. Begin(s, "cancel", "select", AnyLine, copy)
    BY <1>13 DEF BeginCancel
  <2> QED BY <2>1, <2>2, <2>3, BeginApproved
<1> QED
  BY <1>1, <1>2, <1>3, <1>4, <1>5, <1>6, <1>7, <1>8, <1>9, <1>10, <1>11, <1>12, <1>13 DEF Claimant

\* The calls of billToClient.
LEMMA BillerStep ==
  ASSUME TypeOK, ApprovedInv, NEW s \in Billers, Biller(s)
  PROVE  TypeOK' /\ ApprovedInv'
<1> s \in Sessions
  BY DEF Sessions
<1>1. CASE BeginBill(s)
  <2>1. granted
    BY <1>1 DEF BeginBill, Billable, ApprovedInv, Descends
  <2> QED BY <1>1, <2>1, BeginApproved, NewClaimIsNew, AnyLineIsLine DEF BeginBill
<1>2. CASE RefuseBilled(s)
  <2>1. TypeOK'
    BY <1>2, EndType DEF RefuseBilled, TypeOK, moneyVars, W!ApprovalTypeOK
  <2> QED BY <1>2, <2>1, EndApproved DEF RefuseBilled, ApprovedInv, Descends
<1>3. ASSUME NEW m \in Months, Bill(s, m) PROVE TypeOK' /\ ApprovedInv'
  <2>1. claim' \in Claims /\ invoiced' \subseteq Months
    BY <1>3 DEF Bill, TypeOK, Claims
  <2>2. TypeOK'
    BY <1>3, <2>1, EndType DEF Bill, TypeOK, W!ApprovalTypeOK
  <2>3. granted /\ granted' = granted
    BY <1>3 DEF Bill, ApprovedInv
  <2> QED BY <2>2, <2>3 DEF ApprovedInv
<1> QED BY <1>1, <1>2, <1>3 DEF Biller

\* The decision of an approver.
LEMMA ApproverStep ==
  ASSUME TypeOK, ApprovedInv, NEW decision \in {"approved", "rejected"}, DecideClaim(decision)
  PROVE  TypeOK' /\ ApprovedInv'
<1>1. claim' \in Claims /\ granted' \in BOOLEAN
  BY DEF DecideClaim, TypeOK, Claims, Statuses
<1>2. W!ApprovalTypeOK'
  BY DEF DecideClaim, DecideLink, TypeOK, W!ApprovalTypeOK, W!Outcomes
<1>3. TypeOK'
  BY <1>1, <1>2 DEF DecideClaim, TypeOK, moneyVars, sessionVars
<1>4. Descends(claim)' => granted'
  BY DEF DecideClaim, TypeOK, Claims, ApprovedInv, Descends
<1>5. \A s \in Sessions : Descends(object[s])' \/ step'[s] = "bill" => granted'
  BY DEF DecideClaim, sessionVars, ApprovedInv, Descends
<1> QED BY <1>3, <1>4, <1>5 DEF ApprovedInv

\* The two ways to pay: from an approved claim only, and by payroll once.
LEMMA PayerStep ==
  ASSUME TypeOK, ApprovedInv, Payer
  PROVE  TypeOK' /\ ApprovedInv' /\ granted
<1>1. claim' = [claim EXCEPT !.status = "paid"]
  BY DEF Payer, ReimburseDirectly, ReimburseByPayroll
<1>2. claim.status = "approved"
  BY DEF Payer, ReimburseDirectly, ReimburseByPayroll, Payable
<1>3. UNCHANGED <<lines, approval, granted, invoiced, undone, sessionVars>>
  BY DEF Payer, ReimburseDirectly, ReimburseByPayroll
<1>4. direct' \in 0..MaxPayments /\ adjustments' \in Nat
  BY PaymentsAssumption DEF TypeOK, Payer, ReimburseDirectly, ReimburseByPayroll, Schedule
<1>5. claim' \in Claims
  BY <1>1 DEF TypeOK, Claims, Statuses
<1>6. TypeOK'
  BY <1>3, <1>4, <1>5 DEF TypeOK, sessionVars, W!ApprovalTypeOK
<1>7. granted
  BY <1>2 DEF ApprovedInv, Descends
<1> QED BY <1>3, <1>6, <1>7 DEF ApprovedInv

-----------------------------------------------------------------------------
(* Payments and the saves that undo them *)

UndoneParts == UndoneInv /\ PaidAgainOnlyWhenUndone

\* A save or a submit: it counts when it takes the claim back from 'paid'.
LEMMA UndoKeeps ==
  ASSUME TypeOK, UndoneParts, Undo, UNCHANGED <<direct, adjustments>>
  PROVE  UndoneParts'
<1>1. direct \in Nat /\ adjustments \in Nat /\ undone \in Nat
  BY PaymentsAssumption DEF TypeOK
<1>2. CASE claim.status = "paid" /\ claim'.status # "paid"
  BY <1>1, <1>2 DEF UndoneParts, UndoneInv, PaidAgainOnlyWhenUndone, Undo
<1>3. CASE claim.status # "paid" \/ claim'.status = "paid"
  BY <1>1, <1>3 DEF UndoneParts, UndoneInv, PaidAgainOnlyWhenUndone, Undo
<1> QED BY <1>2, <1>3

LEMMA UndoneStep ==
  ASSUME TypeOK, UndoneParts, [Next]_vars
  PROVE  UndoneParts'
<1>1. ASSUME UNCHANGED <<claim, direct, adjustments, undone>> PROVE UndoneParts'
  BY <1>1 DEF UndoneParts, UndoneInv, PaidAgainOnlyWhenUndone
<1>2. ASSUME NEW s \in Claimants, Claimant(s) PROVE UndoneParts'
  <2>1. CASE WriteClaim(s) \/ \E q \in Approvals : Submit(s, q)
    BY <2>1, UndoKeeps DEF WriteClaim, Submit
  <2>2. CASE ~(WriteClaim(s) \/ \E q \in Approvals : Submit(s, q))
    BY <1>1, <1>2, <2>2 DEF Claimant, BeginAdd, BeginUpdate, BeginRemove, Begin, SaveLine, SumLines,
      LoadClaim, SelectClaim, BeginSubmit, CountLines, RefuseEmpty, BeginCancel, moneyVars
  <2> QED BY <2>1, <2>2
<1>3. ASSUME NEW s \in Billers, Biller(s) PROVE UndoneParts'
  <2>1. UNCHANGED <<direct, adjustments, undone>> /\ claim'.status = claim.status
    BY <1>3 DEF Biller, BeginBill, Begin, RefuseBilled, Bill, moneyVars, TypeOK, Claims
  <2> QED BY <2>1 DEF UndoneParts, UndoneInv, PaidAgainOnlyWhenUndone
<1>4. ASSUME NEW s \in Sessions, Fail(s) PROVE UndoneParts'
  BY <1>1, <1>4 DEF Fail, moneyVars
<1>5. CASE Approver
  <2>1. UNCHANGED <<direct, adjustments, undone>> /\ claim.status = "submitted"
    BY <1>5 DEF Approver, DecideClaim, moneyVars
  <2> QED BY <2>1 DEF UndoneParts, UndoneInv, PaidAgainOnlyWhenUndone
<1>6. CASE Payer
  <2>1. claim.status = "approved" /\ claim'.status = "paid" /\ undone' = undone
    BY <1>6 DEF Payer, ReimburseDirectly, ReimburseByPayroll, Payable, TypeOK, Claims
  <2>2. \/ direct' = direct + 1 /\ adjustments' = adjustments
        \/ direct' = direct /\ adjustments' \in {adjustments, adjustments + 1}
    BY <1>6 DEF Payer, ReimburseDirectly, ReimburseByPayroll, Schedule
  <2>3. direct \in Nat /\ adjustments \in Nat /\ undone \in Nat
    BY PaymentsAssumption DEF TypeOK
  <2> QED BY <2>1, <2>2, <2>3 DEF UndoneParts, UndoneInv, PaidAgainOnlyWhenUndone
<1>7. CASE UNCHANGED vars
  BY <1>1, <1>7 DEF vars, moneyVars
<1> QED BY <1>2, <1>3, <1>4, <1>5, <1>6, <1>7 DEF Next

-----------------------------------------------------------------------------
LEMMA Inductive == IInv /\ [Next]_vars => IInv'
<1> SUFFICES ASSUME IInv, [Next]_vars PROVE IInv'
  OBVIOUS
<1> USE DEF IInv
<1> DEFINE Rest == TypeOK' /\ ApprovedInv' /\ MoneyWasApproved' /\ PayrollPaysOnce'
<1>0. UndoneInv' /\ PaidAgainOnlyWhenUndone'
  BY UndoneStep DEF UndoneParts
<1>1. ASSUME NEW s \in Claimants, Claimant(s) PROVE Rest
  <2>1. UNCHANGED <<granted, direct, adjustments, invoiced>>
    BY <1>1 DEF Claimant, BeginAdd, BeginUpdate, BeginRemove, Begin, SaveLine, SumLines,
      LoadClaim, SelectClaim, WriteClaim, BeginSubmit, CountLines, RefuseEmpty, Submit,
      BeginCancel, moneyVars
  <2> QED BY <1>1, <2>1, ClaimantStep DEF MoneyWasApproved, PayrollPaysOnce
<1>2. ASSUME NEW s \in Billers, Biller(s) PROVE Rest
  <2>1. UNCHANGED <<granted, direct, adjustments>>
    BY <1>2 DEF Biller, BeginBill, Begin, RefuseBilled, Bill, moneyVars
  <2>2. invoiced' # invoiced => granted
    BY <1>2 DEF Biller, BeginBill, Begin, RefuseBilled, Bill, moneyVars, ApprovedInv, Sessions
  <2> QED BY <1>2, <2>1, <2>2, BillerStep DEF MoneyWasApproved, PayrollPaysOnce
<1>3. ASSUME NEW s \in Sessions, Fail(s) PROVE Rest
  <2>1. TypeOK'
    BY <1>3, EndType DEF Fail, TypeOK, moneyVars, W!ApprovalTypeOK
  <2>2. ApprovedInv'
    BY <1>3, EndApproved DEF Fail, ApprovedInv, Descends
  <2> QED BY <1>3, <2>1, <2>2 DEF Fail, moneyVars, MoneyWasApproved, PayrollPaysOnce
<1>4. ASSUME Approver PROVE Rest
  <2>1. PICK decision \in {"approved", "rejected"} : DecideClaim(decision)
    BY <1>4 DEF Approver
  <2>2. granted => granted'
    BY <2>1 DEF DecideClaim
  <2> QED BY <2>1, <2>2, ApproverStep DEF DecideClaim, moneyVars, MoneyWasApproved, PayrollPaysOnce
<1>5. ASSUME Payer PROVE Rest
  <2>1. granted' = granted
    BY <1>5 DEF Payer, ReimburseDirectly, ReimburseByPayroll
  <2>2. adjustments' <= 1
    BY <1>5 DEF Payer, ReimburseDirectly, ReimburseByPayroll, Schedule, PayrollPaysOnce, TypeOK
  <2> QED BY <1>5, <2>1, <2>2, PayerStep DEF MoneyWasApproved, PayrollPaysOnce
<1>6. ASSUME UNCHANGED vars PROVE Rest
  BY <1>6 DEF vars, moneyVars, sessionVars, TypeOK, W!ApprovalTypeOK, ApprovedInv, Descends,
    MoneyWasApproved, PayrollPaysOnce
<1> QED BY <1>0, <1>1, <1>2, <1>3, <1>4, <1>5, <1>6 DEF Next

LEMMA InitInv == Init => IInv
<1> SUFFICES ASSUME Init PROVE IInv
  OBVIOUS
<1>1. TypeOK
  BY InitTypeOK
<1>2. ApprovedInv
  BY NewClaimIsNew DEF Init, ApprovedInv, Descends
<1> QED BY <1>1, <1>2 DEF Init, IInv, MoneyWasApproved, PayrollPaysOnce, UndoneInv, PaidAgainOnlyWhenUndone

-----------------------------------------------------------------------------
(* The theorems *)

\* Every variable keeps the values the code gives it, whatever calls run.
THEOREM TypeCorrect == Spec => []TypeOK
<1>1. IInv => TypeOK
  BY DEF IInv
<1> QED BY InitInv, Inductive, <1>1, PTL DEF Spec

\* No number of concurrent calls, and no late save of an old copy, pays or
\* bills a claim that no approver approved (markReimbursed, billToClient).
THEOREM PaidOnlyApproved == Spec => []MoneyWasApproved
<1>1. IInv => MoneyWasApproved
  BY DEF IInv
<1> QED BY InitInv, Inductive, <1>1, PTL DEF Spec

\* Payroll reimburses a claim at most once, even when a late save has made the
\* claim payable again (the adjustment is found by its source).
THEOREM PayrollIdempotent == Spec => []PayrollPaysOnce
<1>1. IInv => PayrollPaysOnce
  BY DEF IInv
<1> QED BY InitInv, Inductive, <1>1, PTL DEF Spec

\* Every payment after the first needs a late save that took the claim back from
\* 'paid' before it: whatever payers, approvers and billers do in whatever order,
\* they alone pay a claim once (markReimbursed).
THEOREM PaidOnceUnlessUndone == Spec => []PaidAgainOnlyWhenUndone
<1>1. IInv => PaidAgainOnlyWhenUndone
  BY DEF IInv
<1> QED BY InitInv, Inductive, <1>1, PTL DEF Spec

LEMMA StepKeepsDecisions ==
  ASSUME TypeOK, Next
  PROVE  \A q \in Approvals : approval[q] \in W!Outcomes => approval'[q] = approval[q]
<1>1. CASE UNCHANGED approval
  BY <1>1
<1>2. ASSUME NEW s \in Claimants, NEW p \in Approvals, Submit(s, p)
      PROVE  \A q \in Approvals : approval[q] \in W!Outcomes => approval'[q] = approval[q]
  BY <1>2 DEF Submit, W!RequestApproval, W!Outcomes, TypeOK, W!ApprovalTypeOK
<1>3. ASSUME NEW decision \in {"approved", "rejected"}, DecideClaim(decision)
      PROVE  \A q \in Approvals : approval[q] \in W!Outcomes => approval'[q] = approval[q]
  <2> SUFFICES ASSUME NEW q \in Approvals, approval[q] \in W!Outcomes
               PROVE  approval'[q] = approval[q]
    OBVIOUS
  <2>1. CASE q = claim.link
    <3>1. claim.link # None => approval[q] = "pending"
      BY <1>3, <2>1 DEF DecideClaim, DecideLink, W!MayDecide
    <3> QED BY <2>1, <3>1, ApprovalsAssumption DEF DecideClaim, DecideLink, W!Outcomes
  <2>2. CASE q # claim.link
    BY <1>3, <2>2 DEF DecideClaim, DecideLink
  <2> QED BY <2>1, <2>2
<1> QED
  BY <1>1, <1>2, <1>3 DEF Next, Claimant, Biller, Approver, Payer, Fail, BeginAdd, BeginUpdate,
    BeginRemove, Begin, SaveLine, SumLines, LoadClaim, SelectClaim, WriteClaim, BeginSubmit,
    CountLines, RefuseEmpty, BeginCancel, BeginBill, RefuseBilled, Bill, ReimburseDirectly,
    ReimburseByPayroll

\* A decided approval row is final under every interleaving
\* (WorkflowService.decide updates pending rows only).
THEOREM DecisionsAreFinal == Spec => DecisionsStand
<1>1. TypeOK /\ [Next]_vars =>
        [\A q \in Approvals : approval[q] \in W!Outcomes => approval'[q] = approval[q]]_vars
  BY StepKeepsDecisions
<1> QED BY TypeCorrect, <1>1, PTL DEF Spec, DecisionsStand
=============================================================================
