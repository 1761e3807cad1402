------------------------------ MODULE Billing -------------------------------
(***************************************************************************)
(* The services invoices of one billing group with one billed employee,    *)
(* from packages/api/src/modules/finance/billing: drafting from finalized  *)
(* payroll runs, edits of draft lines, issue, payment and voiding.         *)
(*                                                                         *)
(* Paying, voiding and adding a line lock the invoice row and are one step *)
(* each.  The other calls are sessions that read the row without a lock    *)
(* and save their copy of it, statement by statement.                      *)
(*                                                                         *)
(* An invoice has at most one drafted line per month, and one line added   *)
(* by hand per label; a label is a month or nothing.  The totals of an     *)
(* invoice are the amounts they were summed over.                          *)
(***************************************************************************)
EXTENDS Integers, FiniteSets

CONSTANTS Sessions,           \* concurrent calls
          Invoices,           \* ids of invoices
          Months,             \* months of the membership, numbered
          Labels,             \* month labels of lines added by hand (bound); 0 is none
          MaxAmount,          \* amounts of lines (bound); 0 is no line
          MaxAttempts,        \* maxAttempts of issueWithNumberRetry
          OneCallPerInvoice   \* whether callers wait for each other

ASSUME InvoicesAssumption == IsFiniteSet(Invoices) /\ "none" \notin Invoices
ASSUME MonthsAssumption == Months \subseteq Nat \ {0}
ASSUME LabelsAssumption == Labels \subseteq Months \cup {0}
ASSUME AmountAssumption == MaxAmount \in Nat \ {0}
ASSUME AttemptsAssumption == MaxAttempts \in Nat \ {0}
ASSUME OneCallAssumption == OneCallPerInvoice \in BOOLEAN

VARIABLES invoice,    \* the invoices rows
          lines,      \* committed amounts of the lines, per invoice
          announced,  \* numbers of the 'invoice.issued' events, per invoice
          step,       \* where each session stands
          call,       \* what it does
          target,     \* to which invoice
          month,      \* the service month it drafts, or the line it edits
          amount,     \* and the amount it gives the line
          pending,    \* months it found unbilled
          todo,       \* invoices it has yet to save
          copies,     \* as it read and changed them
          changed,    \* columns in which the copy differed from the row
          attempt     \* tries to find a free number

rowVars == <<invoice, lines, announced>>
sessionVars == <<step, call, target, month, amount, pending, todo, copies, changed, attempt>>
vars == <<rowVars, sessionVars>>

\* A month's drafted line has its number as key, a line added by hand the
\* negative of its label.
NoMonth == 0
ByHand == {-l : l \in Labels}
Keys == Months \cup ByHand
Amounts == [Keys -> 0..MaxAmount]
NoLines == [k \in Keys |-> 0]
Columns == {"status", "month", "number", "total"}
Documents == [status : {"absent", "draft", "issued", "paid", "voided"},
              month : Months \cup {0}, number : 0..Cardinality(Invoices) + 1,
              total : Amounts]
NoDocument == [status |-> "absent", month |-> 0, number |-> 0, total |-> NoLines]
NoInvoice == "none"
NoCopies == [i \in Invoices |-> NoDocument]

TypeOK ==
  /\ invoice \in [Invoices -> Documents]
  /\ lines \in [Invoices -> Amounts]
  /\ announced \in [Invoices -> SUBSET (1..Cardinality(Invoices) + 1)]
  /\ step \in [Sessions -> {"idle", "persist", "reconcile", "count", "line", "load",
                            "select", "write"}]
  /\ call \in [Sessions -> {"none", "draft", "issue", "edit", "stale", "void"}]
  /\ target \in [Sessions -> Invoices \cup {NoInvoice}]
  /\ month \in [Sessions -> Keys \cup {NoMonth}]
  /\ amount \in [Sessions -> 0..MaxAmount]
  /\ pending \in [Sessions -> SUBSET Months]
  /\ todo \in [Sessions -> SUBSET Invoices]
  /\ copies \in [Sessions -> [Invoices -> Documents]]
  /\ changed \in [Sessions -> SUBSET Columns]
  /\ attempt \in [Sessions -> 0..MaxAttempts]

Init ==
  /\ invoice = [i \in Invoices |-> NoDocument]
  /\ lines = [i \in Invoices |-> NoLines]
  /\ announced = [i \in Invoices |-> {}]
  /\ step = [s \in Sessions |-> "idle"]
  /\ call = [s \in Sessions |-> "none"]
  /\ target = [s \in Sessions |-> NoInvoice]
  /\ month = [s \in Sessions |-> NoMonth]
  /\ amount = [s \in Sessions |-> 0]
  /\ pending = [s \in Sessions |-> {}]
  /\ todo = [s \in Sessions |-> {}]
  /\ copies = [s \in Sessions |-> NoCopies]
  /\ changed = [s \in Sessions |-> {}]
  /\ attempt = [s \in Sessions |-> 0]

-----------------------------------------------------------------------------
(* Sessions and rows *)

Status(i) == invoice[i].status
Lives(i) == Status(i) \notin {"absent", "voided"}

Drafting(s) == step[s] # "idle" /\ call[s] = "draft"

\* Callers wait for each other, when OneCallPerInvoice; but drafts of the same
\* service month (its consumer, a retry, a user) may still overlap.
Free(i) == OneCallPerInvoice => \A s \in Sessions : i \notin todo[s]
OneMonth(m) == OneCallPerInvoice => \A s \in Sessions : Drafting(s) => month[s] = m

End(s) ==
  /\ step' = [step EXCEPT ![s] = "idle"]
  /\ call' = [call EXCEPT ![s] = "none"]
  /\ target' = [target EXCEPT ![s] = NoInvoice]
  /\ month' = [month EXCEPT ![s] = NoMonth]
  /\ amount' = [amount EXCEPT ![s] = 0]
  /\ pending' = [pending EXCEPT ![s] = {}]
  /\ todo' = [todo EXCEPT ![s] = {}]
  /\ copies' = [copies EXCEPT ![s] = NoCopies]
  /\ changed' = [changed EXCEPT ![s] = {}]
  /\ attempt' = [attempt EXCEPT ![s] = 0]

Rollback(s) == End(s) /\ UNCHANGED rowVars

\* A call throws or dies: of its last transaction nothing stays.
Fail(s) == step[s] # "idle" /\ Rollback(s)

\* The call goes on to save its copies of some invoices.
Saving(s, found, name) ==
  /\ step' = [step EXCEPT ![s] = "select"]
  /\ call' = [call EXCEPT ![s] = name]
  /\ todo' = [todo EXCEPT ![s] = found]
  /\ copies' = [copies EXCEPT ![s] = [i \in Invoices |-> IF i \in found THEN invoice[i] ELSE NoDocument]]
  /\ UNCHANGED <<target, month, amount, pending, changed, attempt>>

\* The two unique indexes, for a row about to be written.
Violates(i, row) ==
  \E j \in Invoices \ {i} :
    \/ row.number # 0 /\ invoice[j].number = row.number
    \/ row.status # "voided" /\ Lives(j) /\ invoice[j].month = row.month

-----------------------------------------------------------------------------
(* draftInvoicesFromRun, by the consumer of payroll.finalized or by hand *)

\* A line of the month, drafted or added by hand.
Bills(i, k) == \E key \in Keys \cap {k, -k} : lines[i][key] > 0

\* Mutant: only issued documents suppress a month.
BilledIfIssued(k) == \E i \in Invoices : Status(i) \in {"issued", "paid"} /\ Bills(i, k)

\* loadCoveredMonths: drafts count, voided documents do not.
Billed(k) == \E i \in Invoices : Lives(i) /\ Bills(i, k)

\* The months from the start of the membership up to the service month.
BeginDraft(s, m) ==
  /\ step[s] = "idle" /\ OneMonth(m)
  /\ LET unbilled == {k \in Months : k <= m /\ ~Billed(k)}
     IN  /\ pending' = [pending EXCEPT ![s] = unbilled]
         /\ step' = [step EXCEPT ![s] = IF unbilled = {} THEN "reconcile" ELSE "persist"]
  /\ call' = [call EXCEPT ![s] = "draft"]
  /\ month' = [month EXCEPT ![s] = m]
  /\ UNCHANGED <<rowVars, target, amount, todo, copies, changed, attempt>>

\* One document per month: found before the insert, or by the index.
MonthTaken(m) == \E i \in Invoices : Lives(i) /\ invoice[i].month = m

ToReconcile(s) ==
  /\ step' = [step EXCEPT ![s] = "reconcile"]
  /\ UNCHANGED <<announced, call, target, month, amount, pending, todo, copies, changed, attempt>>

SkipMonth(s) ==
  /\ step[s] = "persist" /\ MonthTaken(month[s])
  /\ ToReconcile(s)
  /\ UNCHANGED <<invoice, lines>>

PersistDraft(s, i) ==
  /\ step[s] = "persist" /\ ~MonthTaken(month[s])
  /\ Status(i) = "absent"
  /\ LET found == [k \in Keys |-> IF k \in pending[s] THEN 1 ELSE 0]
     IN  /\ lines' = [lines EXCEPT ![i] = found]
         /\ invoice' = [invoice EXCEPT ![i] =
              [status |-> "draft", month |-> month[s], number |-> 0, total |-> found]]
  /\ ToReconcile(s)

\* reconcileServiceMonth, at the end of a draft and of a void: it reads the
\* living documents with a line of the run's month, issued ones too, and saves
\* them with its verdict (which nothing here tells apart).
Reconcile(s, k) ==
  /\ step[s] = "reconcile"
  /\ LET found == {i \in Invoices : Lives(i) /\ Bills(i, k)}
     IN  /\ \A i \in found : Free(i)
         /\ IF found = {} THEN End(s) ELSE Saving(s, found, call[s])
  /\ UNCHANGED rowVars

-----------------------------------------------------------------------------
(* addDraftLine, updateDraftLine, removeDraftLine *)

\* The status is checked again under the row lock; that the month may be billed
\* already is not.
AddDraftLine(i, k) ==
  /\ Free(i) /\ Status(i) = "draft" /\ lines[i][k] = 0
  /\ lines' = [lines EXCEPT ![i] = [@ EXCEPT ![k] = 1]]
  /\ invoice' = [invoice EXCEPT ![i] = [@ EXCEPT !.total = lines'[i]]]
  /\ UNCHANGED <<announced, sessionVars>>

\* The line and then the invoice are read without a lock; amount 0 removes.
BeginEdit(s, i, k) ==
  /\ step[s] = "idle" /\ Free(i)
  /\ Status(i) = "draft" /\ lines[i][k] > 0
  /\ step' = [step EXCEPT ![s] = "line"]
  /\ call' = [call EXCEPT ![s] = "edit"]
  /\ target' = [target EXCEPT ![s] = i]
  /\ todo' = [todo EXCEPT ![s] = {i}]
  /\ month' = [month EXCEPT ![s] = k]
  /\ \E n \in 0..MaxAmount : amount' = [amount EXCEPT ![s] = n]
  /\ UNCHANGED <<rowVars, pending, copies, changed, attempt>>

\* A transaction that wrote a line keeps its row locked.
LineFree(i, k) ==
  \A r \in Sessions :
    ~(call[r] = "edit" /\ step[r] \in {"load", "select", "write"} /\ target[r] = i /\ month[r] = k)

\* Mutants: the lines are summed as they were before the edit, or with the old
\* and the new amount of the line.
OwnLinesBefore(s) == lines[target[s]]
OwnLinesBoth(s) == [lines[target[s]] EXCEPT ![month[s]] = @ + amount[s]]

\* The lines as the transaction sees them: its own edit and what is committed.
\* A line removed meanwhile is inserted again by the save of its object.
OwnLines(s) == [lines[target[s]] EXCEPT ![month[s]] = amount[s]]

\* The line is saved or removed, and the lines are read for the total.
SaveLine(s) ==
  /\ step[s] = "line" /\ LineFree(target[s], month[s])
  /\ step' = [step EXCEPT ![s] = "load"]
  /\ copies' = [copies EXCEPT ![s][target[s]].total = OwnLines(s)]
  /\ UNCHANGED <<rowVars, call, target, month, amount, pending, todo, changed, attempt>>

LoadInvoice(s) ==
  /\ step[s] = "load"
  /\ step' = [step EXCEPT ![s] = "select"]
  /\ copies' = [copies EXCEPT ![s][target[s]] = [invoice[target[s]] EXCEPT !.total = copies[s][target[s]].total]]
  /\ UNCHANGED <<rowVars, call, target, month, amount, pending, todo, changed, attempt>>

-----------------------------------------------------------------------------
(* issueInvoice, markDraftsStaleForEmployee *)

BeginIssue(s, i) ==
  /\ step[s] = "idle" /\ Free(i)
  /\ Status(i) = "draft"
  /\ step' = [step EXCEPT ![s] = "count"]
  /\ call' = [call EXCEPT ![s] = "issue"]
  /\ target' = [target EXCEPT ![s] = i]
  /\ todo' = [todo EXCEPT ![s] = {i}]
  /\ copies' = [copies EXCEPT ![s][i] = invoice[i]]
  /\ attempt' = [attempt EXCEPT ![s] = 1]
  /\ UNCHANGED <<rowVars, month, amount, pending, changed>>

\* Mutant: drafts consume numbers too.
NextNumberOfAll == Cardinality({j \in Invoices : Status(j) \in {"draft", "issued", "paid"}}) + 1

\* Only issued and paid documents consume a number.
NextNumber == Cardinality({j \in Invoices : Status(j) \in {"issued", "paid"}}) + 1

\* A document without lines is refused (like any call that throws: Fail).
TakeNumber(s) ==
  /\ step[s] = "count"
  /\ lines[target[s]] # NoLines
  /\ copies' = [copies EXCEPT ![s][target[s]] = [@ EXCEPT !.status = "issued", !.number = NextNumber]]
  /\ step' = [step EXCEPT ![s] = "select"]
  /\ UNCHANGED <<rowVars, call, target, month, amount, pending, todo, changed, attempt>>

\* A change of rate or membership marks the drafts that hold the old amount
\* (nothing here tells the mark apart).
BeginStale(s) ==
  /\ step[s] = "idle"
  /\ LET found == {i \in Invoices : Status(i) = "draft" /\ \E k \in Months : Bills(i, k)}
     IN  /\ found # {} /\ \A i \in found : Free(i)
         /\ Saving(s, found, "stale")
  /\ UNCHANGED rowVars

-----------------------------------------------------------------------------
(* Saving an invoice: read the row for the differences, write them *)

SelectInvoice(s, i) ==
  /\ step[s] = "select" /\ i \in todo[s]
  /\ step' = [step EXCEPT ![s] = "write"]
  /\ target' = [target EXCEPT ![s] = i]
  /\ changed' = [changed EXCEPT ![s] = {c \in Columns : copies[s][i][c] # invoice[i][c]}]
  /\ UNCHANGED <<rowVars, call, month, amount, pending, todo, copies, attempt>>

Merged(s) ==
  [c \in Columns |-> IF c \in changed[s] THEN copies[s][target[s]][c] ELSE invoice[target[s]][c]]

\* The next invoice of the call, or its end.
Saved(s) ==
  IF todo[s] = {target[s]} THEN End(s)
  ELSE /\ step' = [step EXCEPT ![s] = "select"]
       /\ todo' = [todo EXCEPT ![s] = @ \ {target[s]}]
       /\ copies' = [copies EXCEPT ![s][target[s]] = NoDocument]
       /\ target' = [target EXCEPT ![s] = NoInvoice]
       /\ changed' = [changed EXCEPT ![s] = {}]
       /\ UNCHANGED <<call, month, amount, pending, attempt>>

WriteInvoice(s) ==
  /\ step[s] = "write" /\ ~Violates(target[s], Merged(s))
  /\ invoice' = [invoice EXCEPT ![target[s]] = Merged(s)]
  /\ lines' = IF call[s] = "edit" THEN [lines EXCEPT ![target[s]][month[s]] = amount[s]] ELSE lines
  /\ announced' = IF call[s] = "issue"
                  THEN [announced EXCEPT ![target[s]] = @ \cup {copies[s][target[s]].number}]
                  ELSE announced
  /\ Saved(s)

\* A lost number starts the issue again: a new transaction reads the invoice.
TryAgain(s) ==
  /\ step[s] = "write" /\ Violates(target[s], Merged(s))
  /\ call[s] = "issue" /\ attempt[s] < MaxAttempts
  /\ Status(target[s]) = "draft"
  /\ step' = [step EXCEPT ![s] = "count"]
  /\ copies' = [copies EXCEPT ![s][target[s]] = invoice[target[s]]]
  /\ changed' = [changed EXCEPT ![s] = {}]
  /\ attempt' = [attempt EXCEPT ![s] = @ + 1]
  /\ UNCHANGED <<rowVars, call, target, month, amount, pending, todo>>

-----------------------------------------------------------------------------
(* markInvoicePaid, voidInvoice: transactions that lock the invoice *)

MarkInvoicePaid(i) ==
  /\ Free(i) /\ Status(i) = "issued"
  /\ invoice' = [invoice EXCEPT ![i] = [@ EXCEPT !.status = "paid"]]
  /\ UNCHANGED <<lines, announced, sessionVars>>

\* Mutant: any document that is not paid can be voided.
VoidableIssued(i) == Status(i) \in {"draft", "issued"}

Voidable(i) == Status(i) = "draft"

\* After its commit the closes of the months it billed are refreshed, one
\* after the other (the model refreshes one, if it was ever closed).
VoidInvoice(s, i) ==
  /\ step[s] = "idle" /\ Free(i) /\ Voidable(i)
  /\ invoice' = [invoice EXCEPT ![i] = [@ EXCEPT !.status = "voided"]]
  /\ \/ UNCHANGED <<step, call>>
     \/ /\ step' = [step EXCEPT ![s] = "reconcile"]
        /\ call' = [call EXCEPT ![s] = "void"]
  /\ UNCHANGED <<lines, announced, target, month, amount, pending, todo, copies, changed, attempt>>

-----------------------------------------------------------------------------
Work(s) ==
  \/ SkipMonth(s) \/ SaveLine(s) \/ LoadInvoice(s) \/ TakeNumber(s)
  \/ WriteInvoice(s) \/ TryAgain(s)
  \/ \E i \in Invoices : PersistDraft(s, i) \/ SelectInvoice(s, i)
  \/ \E k \in Months : Reconcile(s, k)

Next ==
  \/ \E s \in Sessions :
       \/ \E m \in Months : BeginDraft(s, m)
       \/ \E i \in Invoices :
            BeginIssue(s, i) \/ VoidInvoice(s, i) \/ \E k \in Keys : BeginEdit(s, i, k)
       \/ BeginStale(s) \/ Work(s) \/ Fail(s)
  \/ \E i \in Invoices : MarkInvoicePaid(i) \/ \E k \in ByHand : AddDraftLine(i, k)

Spec == Init /\ [][Next]_vars

-----------------------------------------------------------------------------
(* Properties *)

Documented == {i \in Invoices : Status(i) \in {"issued", "paid"}}

\* The numbers in use are 1, 2, 3, ... without a gap or a repetition, and the
\* outbox announced each document once, under its number, however issues race.
NumbersHaveNoGap ==
  /\ {invoice[i].number : i \in Documented} = 1..Cardinality(Documented)
  /\ \A i \in Invoices : announced[i] = (IF i \in Documented THEN {invoice[i].number} ELSE {})

\* "billed for any given month exactly once" (invoice.service.ts:903-905): no
\* drafts, edits, voids and redrafts draft a month on two living documents, while
\* drafts of different service months do not overlap.  Lines added by hand are not
\* counted: the code takes them for any month, and only drafts it not once more.
MonthDraftedOnce ==
  \A i, j \in {i \in Invoices : Lives(i)} : \A k \in Months :
    lines[i][k] > 0 /\ lines[j][k] > 0 => i = j

\* The total of a document is the sum of its lines.
TotalsAreLines == \A i \in Invoices : invoice[i].total = lines[i]

\* "freezes every displayed fact -- later edits are impossible by construction"
\* (invoice.entity.ts:9-10): after the issue only the payment is recorded.
IssuedIsFrozen ==
  [][\A i \in Documented :
       /\ lines'[i] = lines[i]
       /\ invoice'[i].number = invoice[i].number /\ invoice'[i].total = invoice[i].total
       /\ invoice'[i].status \in {invoice[i].status, "paid"}]_vars
=============================================================================
