---------------------------- MODULE BillingProofs ----------------------------
(***************************************************************************)
(* Whatever the number of calls, invoices and months: while calls about    *)
(* one invoice and drafts of different months wait for each other, the     *)
(* invoice numbers have no gap and a month is drafted once, however issues *)
(* of different invoices and drafts of one month race.                     *)
(***************************************************************************)
EXTENDS Billing, FiniteSetTheorems, TLAPS

-----------------------------------------------------------------------------
(* The inductive invariant *)

\* A living document has a drafted line of the month; one of a service month
\* other than m has.
Drafted(k) == \E j \in Invoices : Lives(j) /\ lines[j][k] > 0
Elsewhere(k, m) == \E j \in Invoices : Lives(j) /\ lines[j][k] > 0 /\ invoice[j].month # m

\* No invoice is in the hands of two calls, and overlapping drafts are of one
\* service month.
AloneInv ==
  \A s, t \in Sessions : s # t =>
    /\ todo[s] \cap todo[t] = {}
    /\ Drafting(s) /\ Drafting(t) => month[s] = month[t]

\* Which calls hold invoices, and that these are neither absent nor voided.
Holding(s) ==
  /\ step[s] = "idle" => call[s] = "none"
  /\ step[s] \in {"idle", "persist", "reconcile"} => todo[s] = {}
  /\ \A i \in todo[s] : Lives(i)

\* The months a draft found unbilled still are, except for what a draft of the
\* same service month bills.
Persisting(s) ==
  step[s] = "persist" =>
    /\ call[s] = "draft" /\ month[s] \in Months
    /\ \A k \in pending[s], m \in Months : m = month[s] => ~Elsewhere(k, m)

\* A call about one draft.
OnADraft(s) ==
  target[s] \in Invoices /\ todo[s] = {target[s]} /\ Status(target[s]) = "draft"

\* An edit holds a draft whose line is there.
Editing(s) ==
  /\ step[s] \in {"line", "load"} => call[s] = "edit"
  /\ call[s] = "edit" =>
       /\ step[s] \in {"line", "load", "select", "write"}
       /\ OnADraft(s)
       /\ lines[target[s]][month[s]] > 0
       /\ step[s] # "line" => copies[s][target[s]].total = OwnLines(s)
       /\ step[s] \in {"select", "write"} =>
            /\ copies[s][target[s]].status = invoice[target[s]].status
            /\ copies[s][target[s]].month = invoice[target[s]].month
            /\ copies[s][target[s]].number = invoice[target[s]].number

\* An issue holds a draft, and the number it took was the next one then.
Issuing(s) ==
  /\ step[s] = "count" => call[s] = "issue"
  /\ call[s] = "issue" =>
       /\ step[s] \in {"count", "select", "write"}
       /\ OnADraft(s)
       /\ copies[s][target[s]].month = invoice[target[s]].month
       /\ copies[s][target[s]].total = invoice[target[s]].total
       /\ step[s] \in {"select", "write"} =>
            /\ copies[s][target[s]].status = "issued"
            /\ copies[s][target[s]].number \in 1..(Cardinality(Documented) + 1)

\* Reconciliations and marks write rows back as they are.
Rewriting(s) ==
  step[s] \in {"select", "write"} /\ call[s] \notin {"edit", "issue"} =>
    \A i \in todo[s] : copies[s][i] = invoice[i]

Writing(s) ==
  step[s] = "write" =>
    /\ target[s] \in todo[s]
    /\ changed[s] = {c \in Columns : copies[s][target[s]][c] # invoice[target[s]][c]}

SessionInv(s) ==
  Holding(s) /\ Persisting(s) /\ Editing(s) /\ Issuing(s) /\ Rewriting(s) /\ Writing(s)

RowsInv == NumbersHaveNoGap /\ MonthDraftedOnce /\ TotalsAreLines

IInv == /\ TypeOK /\ AloneInv /\ RowsInv
        /\ \A s \in Sessions : SessionInv(s)

\* The parts of the type invariant.
RowTypes ==
  /\ invoice \in [Invoices -> Documents]
  /\ lines \in [Invoices -> Amounts]
  /\ announced \in [Invoices -> SUBSET (1..Cardinality(Invoices) + 1)]

SessionTypes ==
  /\ step \in [Sessions -> {"idle", "persist", "reconcile", "count", "line", "load",
                            "select", "write"}]
  /\ call \in [Sessions -> {"none", "draft", "issue", "edit", "stale", "void"}]
  /\ target \in [Sessions -> Invoices \cup {NoInvoice}]
  /\ month \in [Sessions -> Keys \cup {NoMonth}]
  /\ amount \in [Sessions -> 0..MaxAmount]
  /\ pending \in [Sessions -> SUBSET Months]
  /\ todo \in [Sessions -> SUBSET Invoices]
  /\ copies \in [Sessions -> [Invoices -> Documents]]
  /\ changed \in [Sessions -> SUBSET Columns]
  /\ attempt \in [Sessions -> 0..MaxAttempts]

LEMMA TypesSplit == TypeOK <=> RowTypes /\ SessionTypes
BY DEF TypeOK, RowTypes, SessionTypes

-----------------------------------------------------------------------------
(* Constants and rows *)

LEMMA ConstantFacts ==
  /\ IsFiniteSet(Invoices) /\ Cardinality(Invoices) \in Nat /\ NoInvoice \notin Invoices
  /\ Months \subseteq Keys /\ ByHand \subseteq Keys /\ ByHand \cap Months = {}
  /\ MaxAmount \in Nat /\ 0 \in 0..MaxAmount /\ 1 \in 0..MaxAmount
  /\ MaxAttempts \in Nat /\ 0 \in 0..MaxAttempts /\ 1 \in 0..MaxAttempts
<1>1. ByHand \cap Months = {}
  BY MonthsAssumption, LabelsAssumption DEF ByHand
<1> QED BY <1>1, InvoicesAssumption, AmountAssumption, AttemptsAssumption, FS_CardinalityType
        DEF NoInvoice, Keys

LEMMA NoDocumentType ==
  NoLines \in Amounts /\ NoDocument \in Documents /\ NoCopies \in [Invoices -> Documents]
  /\ NoDocument.status = "absent"
<1>1. NoLines \in Amounts
  BY ConstantFacts DEF NoLines, Amounts
<1>2. 0 \in 0..Cardinality(Invoices) + 1
  BY ConstantFacts
<1>3. NoDocument \in Documents
  BY <1>1, <1>2 DEF NoDocument, Documents
<1> QED BY <1>1, <1>3 DEF NoCopies, NoDocument

LEMMA DocumentedIsFinite ==
  /\ IsFiniteSet(Documented) /\ Cardinality(Documented) \in Nat
  /\ Cardinality(Documented) <= Cardinality(Invoices)
<1>1. Documented \subseteq Invoices
  BY DEF Documented
<1> QED BY <1>1, ConstantFacts, FS_Subset, FS_CardinalityType

\* A document is what its columns are.
LEMMA DocumentByColumns ==
  ASSUME NEW d \in Documents
  PROVE  /\ d = [c \in Columns |-> d[c]]
         /\ d["status"] = d.status /\ d["month"] = d.month
         /\ d["number"] = d.number /\ d["total"] = d.total
BY DEF Documents, Columns

\* Columns of a document overwritten.
LEMMA TotalOverwritten ==
  ASSUME NEW d \in Documents, NEW own \in Amounts
  PROVE  /\ [d EXCEPT !.total = own] \in Documents
         /\ [d EXCEPT !.total = own].total = own
         /\ [d EXCEPT !.total = own].status = d.status
         /\ [d EXCEPT !.total = own].month = d.month
         /\ [d EXCEPT !.total = own].number = d.number
BY DEF Documents

LEMMA StatusOverwritten ==
  ASSUME NEW d \in Documents, NEW name \in {"issued", "paid", "voided"}
  PROVE  /\ [d EXCEPT !.status = name] \in Documents
         /\ [d EXCEPT !.status = name].status = name
         /\ [d EXCEPT !.status = name].total = d.total
         /\ [d EXCEPT !.status = name].month = d.month
         /\ [d EXCEPT !.status = name].number = d.number
BY DEF Documents

LEMMA NumberOverwritten ==
  ASSUME NEW d \in Documents, NEW n \in 0..Cardinality(Invoices) + 1
  PROVE  LET numbered == [d EXCEPT !.status = "issued", !.number = n]
         IN  /\ numbered \in Documents /\ numbered.status = "issued" /\ numbered.number = n
             /\ numbered.month = d.month /\ numbered.total = d.total
BY DEF Documents

\* Writing the changed columns writes the copy.
LEMMA MergedIsTheCopy ==
  ASSUME IInv, NEW s \in Sessions, step[s] = "write"
  PROVE  /\ target[s] \in Invoices /\ copies[s][target[s]] \in Documents
         /\ Merged(s) = copies[s][target[s]]
<1>1. /\ target[s] \in todo[s]
      /\ changed[s] = {c \in Columns : copies[s][target[s]][c] # invoice[target[s]][c]}
  BY DEF IInv, SessionInv, Writing
<1>2. target[s] \in Invoices /\ copies[s][target[s]] \in Documents
  BY <1>1 DEF IInv, TypeOK
<1>3. Merged(s) = [c \in Columns |-> copies[s][target[s]][c]]
  BY <1>1 DEF Merged
<1> QED BY <1>2, <1>3, DocumentByColumns

-----------------------------------------------------------------------------
(* Steps of one session, as the others see them *)

Same(t) ==
  /\ step'[t] = step[t] /\ call'[t] = call[t] /\ target'[t] = target[t]
  /\ month'[t] = month[t] /\ amount'[t] = amount[t] /\ pending'[t] = pending[t]
  /\ todo'[t] = todo[t] /\ copies'[t] = copies[t] /\ changed'[t] = changed[t]

Others(s) == \A t \in Sessions \ {s} : Same(t)

\* The rows a session holds stay, numbers are only added, and nothing it found
\* unbilled is drafted on a document of another service month.
LEMMA SameKeeps ==
  ASSUME NEW t \in Sessions, SessionInv(t), Same(t),
         \A i \in todo[t] : invoice'[i] = invoice[i] /\ lines'[i] = lines[i],
         Cardinality(Documented') \in Nat, Cardinality(Documented) <= Cardinality(Documented'),
         step[t] = "persist" =>
           \A k \in pending[t], m \in Months : m = month[t] => (Elsewhere(k, m)' => Elsewhere(k, m))
  PROVE  SessionInv(t)'
<1>1. Holding(t)'
  BY DEF SessionInv, Same, Holding, Lives, Status
<1>2. Persisting(t)'
  BY DEF SessionInv, Same, Persisting
<1>3. OnADraft(t) =>
        /\ OnADraft(t)' /\ invoice'[target[t]] = invoice[target[t]]
        /\ lines'[target[t]] = lines[target[t]]
  BY DEF OnADraft, Same, Status
<1>4. Editing(t)'
  <2>1. CASE call[t] = "edit"
    <3>1. OnADraft(t)
      BY <2>1 DEF SessionInv, Editing
    <3>2. OwnLines(t)' = OwnLines(t)
      BY <1>3, <3>1 DEF OwnLines, Same
    <3> QED BY <1>3, <2>1, <3>1, <3>2 DEF SessionInv, Editing, Same
  <2>2. CASE call[t] # "edit"
    BY <2>2 DEF SessionInv, Editing, Same
  <2> QED BY <2>1, <2>2
<1>5. Issuing(t)'
  <2>1. CASE call[t] = "issue"
    <3>1. OnADraft(t)
      BY <2>1 DEF SessionInv, Issuing
    <3>2. \A n : n \in 1..(Cardinality(Documented) + 1) => n \in 1..(Cardinality(Documented') + 1)
      BY DocumentedIsFinite
    <3> QED BY <1>3, <2>1, <3>1, <3>2 DEF SessionInv, Issuing, Same
  <2>2. CASE call[t] # "issue"
    BY <2>2 DEF SessionInv, Issuing, Same
  <2> QED BY <2>1, <2>2
<1>6. Rewriting(t)'
  BY DEF SessionInv, Rewriting, Same
<1>7. Writing(t)'
  <2>1. step[t] = "write" => target[t] \in todo[t] /\ invoice'[target[t]] = invoice[target[t]]
    BY DEF SessionInv, Writing
  <2> QED BY <2>1 DEF SessionInv, Writing, Same
<1> QED BY <1>1, <1>2, <1>4, <1>5, <1>6, <1>7 DEF SessionInv

LEMMA AloneKeeps ==
  ASSUME IInv, NEW s \in Sessions, Others(s),
         \A t \in Sessions \ {s} : todo'[s] \cap todo[t] = {},
         Drafting(s)' => \A t \in Sessions \ {s} : Drafting(t) => month[t] = month'[s]
  PROVE  AloneInv'
<1>1. \A t \in Sessions \ {s} :
        todo'[t] = todo[t] /\ month'[t] = month[t] /\ (Drafting(t)' <=> Drafting(t))
  BY DEF Others, Same, Drafting
<1> QED BY <1>1 DEF IInv, AloneInv

LEMMA RowsStay ==
  ASSUME UNCHANGED rowVars
  PROVE  /\ Documented' = Documented /\ (RowsInv => RowsInv') /\ (RowTypes => RowTypes')
         /\ \A k, m \in Months : Elsewhere(k, m)' <=> Elsewhere(k, m)
<1>1. UNCHANGED <<invoice, lines, announced>>
  BY DEF rowVars
<1>2. Documented' = Documented
  BY <1>1 DEF Documented, Status
<1>3. RowsInv => RowsInv'
  BY <1>1, <1>2 DEF RowsInv, NumbersHaveNoGap, MonthDraftedOnce, TotalsAreLines, Lives, Status
<1> QED BY <1>1, <1>2, <1>3 DEF RowTypes, Elsewhere, Lives, Status

\* A step that writes no row.
LEMMA ReadKeeps ==
  ASSUME IInv, NEW s \in Sessions, UNCHANGED rowVars, SessionTypes', Others(s),
         SessionInv(s)', AloneInv'
  PROVE  IInv'
<1>1. RowTypes' /\ RowsInv' /\ Documented' = Documented
  BY RowsStay, TypesSplit DEF IInv
<1>2. TypeOK'
  BY <1>1, TypesSplit DEF TypeOK, RowTypes, SessionTypes
<1>3. ASSUME NEW t \in Sessions \ {s} PROVE SessionInv(t)'
  <2>1. SessionInv(t) /\ Same(t) /\ pending[t] \subseteq Months
    BY DEF IInv, Others, TypeOK
  <2>2. \A i \in todo[t] : invoice'[i] = invoice[i] /\ lines'[i] = lines[i]
    BY DEF rowVars
  <2> QED BY <1>1, <2>1, <2>2, RowsStay, SameKeeps, DocumentedIsFinite
<1> QED BY <1>1, <1>2, <1>3 DEF IInv

\* The end of a call.
LEMMA EndMeans ==
  ASSUME IInv, NEW s \in Sessions, End(s)
  PROVE  SessionTypes' /\ Others(s) /\ SessionInv(s)' /\ AloneInv'
<1>1. /\ step' = [step EXCEPT ![s] = "idle"] /\ call' = [call EXCEPT ![s] = "none"]
      /\ target' = [target EXCEPT ![s] = NoInvoice] /\ month' = [month EXCEPT ![s] = NoMonth]
      /\ amount' = [amount EXCEPT ![s] = 0] /\ pending' = [pending EXCEPT ![s] = {}]
      /\ todo' = [todo EXCEPT ![s] = {}] /\ copies' = [copies EXCEPT ![s] = NoCopies]
      /\ changed' = [changed EXCEPT ![s] = {}] /\ attempt' = [attempt EXCEPT ![s] = 0]
  BY DEF End
<1>2. SessionTypes'
  BY <1>1, ConstantFacts, NoDocumentType DEF IInv, TypeOK, SessionTypes
<1>3. Others(s)
  BY <1>1 DEF IInv, TypeOK, Others, Same
<1>4. step'[s] = "idle" /\ call'[s] = "none" /\ todo'[s] = {}
  BY <1>1 DEF IInv, TypeOK
<1>5. SessionInv(s)'
  BY <1>4 DEF SessionInv, Holding, Persisting, Editing, Issuing, Rewriting, Writing
<1>6. AloneInv'
  BY <1>3, <1>4, AloneKeeps DEF Drafting
<1> QED BY <1>2, <1>3, <1>5, <1>6

LEMMA FailKeeps == ASSUME IInv, NEW s \in Sessions, Fail(s) PROVE IInv'
BY EndMeans, ReadKeeps DEF Fail, Rollback

-----------------------------------------------------------------------------
(* Steps that write no row *)

LEMMA BeginDraftKeeps ==
  ASSUME OneCallPerInvoice, IInv, NEW s \in Sessions, NEW m \in Months, BeginDraft(s, m)
  PROVE  IInv'
<1> DEFINE unbilled == {k \in Months : k <= m /\ ~Billed(k)}
<1>1. /\ step[s] = "idle" /\ \A t \in Sessions : Drafting(t) => month[t] = m
      /\ pending' = [pending EXCEPT ![s] = unbilled]
      /\ step' = [step EXCEPT ![s] = IF unbilled = {} THEN "reconcile" ELSE "persist"]
      /\ call' = [call EXCEPT ![s] = "draft"] /\ month' = [month EXCEPT ![s] = m]
      /\ UNCHANGED <<target, amount, todo, copies, changed, attempt>> /\ UNCHANGED rowVars
  BY DEF BeginDraft, OneMonth
<1>2. todo[s] = {}
  BY <1>1 DEF IInv, SessionInv, Holding
<1>3. /\ step'[s] \in {"persist", "reconcile"} /\ call'[s] = "draft" /\ month'[s] = m
      /\ pending'[s] = unbilled /\ todo'[s] = {}
  BY <1>1, <1>2 DEF IInv, TypeOK
<1>4. unbilled \in SUBSET Months /\ \A k \in unbilled : ~Billed(k)
  OBVIOUS
<1> HIDE DEF unbilled
<1>5. SessionTypes'
  BY <1>1, <1>4, ConstantFacts DEF IInv, TypeOK, SessionTypes
<1>6. Others(s)
  BY <1>1 DEF IInv, TypeOK, Others, Same
<1>7. AloneInv'
  BY <1>1, <1>3, <1>6, AloneKeeps
<1>8. \A k \in unbilled, h \in Months : ~Elsewhere(k, h)'
  <2>1. \A k \in unbilled, j \in Invoices : ~(Lives(j) /\ lines[j][k] > 0)
    BY <1>4, ConstantFacts DEF Billed, Bills
  <2>2. \A k \in unbilled, h \in Months : ~Elsewhere(k, h)
    BY <2>1 DEF Elsewhere
  <2> QED BY <1>1, <1>4, <2>2, RowsStay
<1>9. SessionInv(s)'
  BY <1>3, <1>8 DEF SessionInv, Holding, Persisting, Editing, Issuing, Rewriting, Writing
<1> QED BY <1>1, <1>5, <1>6, <1>7, <1>9, ReadKeeps

LEMMA SkipMonthKeeps == ASSUME IInv, NEW s \in Sessions, SkipMonth(s) PROVE IInv'
<1>1. /\ step[s] = "persist" /\ step' = [step EXCEPT ![s] = "reconcile"]
      /\ UNCHANGED <<call, target, month, amount, pending, todo, copies, changed, attempt>>
      /\ UNCHANGED rowVars
  BY DEF SkipMonth, ToReconcile, rowVars
<1>2. step'[s] = "reconcile" /\ call'[s] = "draft" /\ todo'[s] = {}
  BY <1>1 DEF IInv, TypeOK, SessionInv, Holding, Persisting
<1>3. SessionTypes' /\ Others(s)
  BY <1>1 DEF IInv, TypeOK, SessionTypes, Others, Same
<1>4. Drafting(s)
  BY <1>1 DEF IInv, SessionInv, Persisting, Drafting
<1>5. AloneInv'
  BY <1>1, <1>2, <1>3, <1>4, AloneKeeps DEF IInv, AloneInv
<1>6. SessionInv(s)'
  BY <1>2 DEF SessionInv, Holding, Persisting, Editing, Issuing, Rewriting, Writing
<1> QED BY <1>1, <1>3, <1>5, <1>6, ReadKeeps

\* A call that goes on to save rows as it read them.
LEMMA SavingKeeps ==
  ASSUME OneCallPerInvoice, IInv, NEW s \in Sessions, NEW found \in SUBSET Invoices,
         NEW name \in {"none", "draft", "stale", "void"}, Saving(s, found, name), UNCHANGED rowVars,
         \A i \in found : Free(i) /\ Lives(i),
         name = "draft" => Drafting(s)
  PROVE  IInv'
<1>1. /\ step' = [step EXCEPT ![s] = "select"] /\ call' = [call EXCEPT ![s] = name]
      /\ todo' = [todo EXCEPT ![s] = found]
      /\ copies' = [copies EXCEPT ![s] = [i \in Invoices |-> IF i \in found THEN invoice[i] ELSE NoDocument]]
      /\ UNCHANGED <<target, month, amount, pending, changed, attempt>>
      /\ UNCHANGED <<invoice, lines, announced>>
  BY DEF Saving, rowVars
<1>2. [i \in Invoices |-> IF i \in found THEN invoice[i] ELSE NoDocument] \in [Invoices -> Documents]
  BY NoDocumentType DEF IInv, TypeOK
<1>3. SessionTypes'
  BY <1>1, <1>2 DEF IInv, TypeOK, SessionTypes
<1>4. Others(s)
  BY <1>1 DEF IInv, TypeOK, Others, Same
<1>5. /\ step'[s] = "select" /\ call'[s] = name /\ todo'[s] = found
      /\ \A i \in found : copies'[s][i] = invoice'[i]
  BY <1>1 DEF IInv, TypeOK
<1>6. \A t \in Sessions, i \in found : i \notin todo[t]
  BY DEF Free
<1>7. AloneInv'
  <2>1. (Drafting(s)' => Drafting(s)) /\ month'[s] = month[s]
    BY <1>1, <1>5 DEF Drafting
  <2> QED BY <1>4, <1>5, <1>6, <2>1, AloneKeeps DEF IInv, AloneInv
<1>8. \A i \in found : Lives(i)'
  BY <1>1 DEF Lives, Status
<1>9. SessionInv(s)'
  BY <1>5, <1>8 DEF SessionInv, Holding, Persisting, Editing, Issuing, Rewriting, Writing
<1> QED BY <1>3, <1>4, <1>7, <1>9, ReadKeeps

LEMMA ReconcileKeeps ==
  ASSUME OneCallPerInvoice, IInv, NEW s \in Sessions, NEW k \in Months, Reconcile(s, k)
  PROVE  IInv'
<1> DEFINE found == {i \in Invoices : Lives(i) /\ Bills(i, k)}
<1>1. /\ step[s] = "reconcile" /\ \A i \in found : Free(i)
      /\ UNCHANGED rowVars
      /\ End(s) \/ Saving(s, found, call[s])
  BY DEF Reconcile
<1>2. call[s] \in {"none", "draft", "stale", "void"}
  BY <1>1 DEF IInv, TypeOK, SessionInv, Editing, Issuing
<1>3. call[s] = "draft" => Drafting(s)
  BY <1>1 DEF Drafting
<1>4. found \in SUBSET Invoices /\ \A i \in found : Lives(i)
  OBVIOUS
<1> HIDE DEF found
<1>5. CASE End(s)
  BY <1>1, <1>5, EndMeans, ReadKeeps
<1>6. CASE Saving(s, found, call[s])
  BY <1>1, <1>2, <1>3, <1>4, <1>6, SavingKeeps
<1> QED BY <1>1, <1>5, <1>6

LEMMA BeginStaleKeeps ==
  ASSUME OneCallPerInvoice, IInv, NEW s \in Sessions, BeginStale(s)
  PROVE  IInv'
<1> DEFINE found == {i \in Invoices : Status(i) = "draft" /\ \E k \in Months : Bills(i, k)}
<1>1. (\A i \in found : Free(i)) /\ Saving(s, found, "stale") /\ UNCHANGED rowVars
  BY DEF BeginStale
<1>2. found \in SUBSET Invoices /\ \A i \in found : Lives(i)
  BY DEF Lives
<1> HIDE DEF found
<1> QED BY <1>1, <1>2, SavingKeeps

\* An idle session that takes one free draft.
LEMMA BeginEditKeeps ==
  ASSUME OneCallPerInvoice, IInv, NEW s \in Sessions, NEW i \in Invoices, NEW k \in Keys,
         BeginEdit(s, i, k)
  PROVE  IInv'
<1>1. PICK n \in 0..MaxAmount : amount' = [amount EXCEPT ![s] = n]
  BY DEF BeginEdit
<1>2. /\ Free(i) /\ Status(i) = "draft" /\ lines[i][k] > 0
      /\ step' = [step EXCEPT ![s] = "line"] /\ call' = [call EXCEPT ![s] = "edit"]
      /\ target' = [target EXCEPT ![s] = i] /\ todo' = [todo EXCEPT ![s] = {i}]
      /\ month' = [month EXCEPT ![s] = k]
      /\ UNCHANGED <<pending, copies, changed, attempt>> /\ UNCHANGED <<invoice, lines, announced>>
  BY DEF BeginEdit, rowVars
<1>3. SessionTypes'
  BY <1>1, <1>2 DEF IInv, TypeOK, SessionTypes
<1>4. Others(s)
  BY <1>1, <1>2 DEF IInv, TypeOK, Others, Same
<1>5. /\ step'[s] = "line" /\ call'[s] = "edit" /\ target'[s] = i /\ todo'[s] = {i} /\ month'[s] = k
  BY <1>2 DEF IInv, TypeOK
<1>6. AloneInv'
  <2>1. \A t \in Sessions : i \notin todo[t]
    BY <1>2 DEF Free
  <2> QED BY <1>4, <1>5, <2>1, AloneKeeps DEF Drafting
<1>7. SessionInv(s)'
  BY <1>2, <1>5 DEF SessionInv, Holding, Persisting, Editing, Issuing, Rewriting, Writing,
                    OnADraft, Lives, Status
<1>8. UNCHANGED rowVars
  BY <1>2 DEF rowVars
<1> QED BY <1>3, <1>4, <1>6, <1>7, <1>8, ReadKeeps

LEMMA BeginIssueKeeps ==
  ASSUME OneCallPerInvoice, IInv, NEW s \in Sessions, NEW i \in Invoices, BeginIssue(s, i)
  PROVE  IInv'
<1>1. /\ Free(i) /\ Status(i) = "draft"
      /\ step' = [step EXCEPT ![s] = "count"] /\ call' = [call EXCEPT ![s] = "issue"]
      /\ target' = [target EXCEPT ![s] = i] /\ todo' = [todo EXCEPT ![s] = {i}]
      /\ copies' = [copies EXCEPT ![s][i] = invoice[i]] /\ attempt' = [attempt EXCEPT ![s] = 1]
      /\ UNCHANGED <<month, amount, pending, changed>> /\ UNCHANGED <<invoice, lines, announced>>
  BY DEF BeginIssue, rowVars
<1>2. SessionTypes'
  BY <1>1, ConstantFacts DEF IInv, TypeOK, SessionTypes
<1>3. Others(s)
  BY <1>1 DEF IInv, TypeOK, Others, Same
<1>4. /\ step'[s] = "count" /\ call'[s] = "issue" /\ target'[s] = i /\ todo'[s] = {i}
      /\ copies'[s][i] = invoice[i]
  BY <1>1 DEF IInv, TypeOK
<1>5. AloneInv'
  <2>1. \A t \in Sessions : i \notin todo[t]
    BY <1>1 DEF Free
  <2> QED BY <1>3, <1>4, <2>1, AloneKeeps DEF Drafting
<1>6. SessionInv(s)'
  BY <1>1, <1>4 DEF SessionInv, Holding, Persisting, Editing, Issuing, Rewriting, Writing,
                    OnADraft, Lives, Status
<1>7. UNCHANGED rowVars
  BY <1>1 DEF rowVars
<1> QED BY <1>2, <1>3, <1>5, <1>6, <1>7, ReadKeeps

\* A read in the middle of a call.
LEMMA OnwardKeeps ==
  ASSUME IInv, NEW s \in Sessions, UNCHANGED rowVars, SessionTypes', Others(s), SessionInv(s)',
         todo'[s] = todo[s], month'[s] = month[s], Drafting(s)' => Drafting(s)
  PROVE  IInv'
BY AloneKeeps, ReadKeeps DEF IInv, AloneInv

LEMMA SaveLineKeeps == ASSUME IInv, NEW s \in Sessions, SaveLine(s) PROVE IInv'
<1> DEFINE i == target[s]
<1>1. /\ step[s] = "line" /\ step' = [step EXCEPT ![s] = "load"]
      /\ copies' = [copies EXCEPT ![s][i].total = OwnLines(s)]
      /\ UNCHANGED <<call, target, month, amount, pending, todo, changed, attempt>>
      /\ UNCHANGED <<invoice, lines, announced>> /\ UNCHANGED rowVars
  BY DEF SaveLine, rowVars
<1>2. /\ call[s] = "edit" /\ i \in Invoices /\ Editing(s) /\ OnADraft(s) /\ Holding(s)
      /\ lines[i][month[s]] > 0
  BY <1>1 DEF IInv, SessionInv, Editing, OnADraft
<1>3. OwnLines(s) \in Amounts /\ OwnLines(s)' = OwnLines(s)
  BY <1>1, <1>2 DEF IInv, TypeOK, OwnLines, Amounts
<1>4. /\ copies[s][i] \in Documents /\ [copies[s][i] EXCEPT !.total = OwnLines(s)] \in Documents
      /\ [copies[s][i] EXCEPT !.total = OwnLines(s)].total = OwnLines(s)
  <2>1. copies[s][i] \in Documents
    BY <1>2 DEF IInv, TypeOK
  <2> QED BY <1>3, <2>1, TotalOverwritten
<1>5. SessionTypes' /\ Others(s)
  BY <1>1, <1>2, <1>4 DEF IInv, TypeOK, SessionTypes, Others, Same
<1>6. copies'[s][i] = [copies[s][i] EXCEPT !.total = OwnLines(s)]
  BY <1>1, <1>2 DEF IInv, TypeOK
<1>7. /\ step'[s] = "load" /\ call'[s] = "edit" /\ target'[s] = i /\ todo'[s] = todo[s]
      /\ month'[s] = month[s] /\ copies'[s][i].total = OwnLines(s)'
  BY <1>1, <1>2, <1>3, <1>4, <1>6 DEF IInv, TypeOK
<1> HIDE DEF i
<1>8. target[s] = i
  BY DEF i
<1>9. SessionInv(s)'
  BY <1>1, <1>2, <1>7, <1>8 DEF SessionInv, Holding, Persisting, Editing, Issuing, Rewriting, Writing,
                          OnADraft, Lives, Status
<1>10. Drafting(s)' => Drafting(s)
  BY <1>7 DEF Drafting
<1> QED BY <1>1, <1>5, <1>7, <1>9, <1>10, OnwardKeeps

LEMMA LoadInvoiceKeeps == ASSUME IInv, NEW s \in Sessions, LoadInvoice(s) PROVE IInv'
<1> DEFINE i == target[s]
           own == copies[s][i].total
<1>1. /\ step[s] = "load" /\ step' = [step EXCEPT ![s] = "select"]
      /\ copies' = [copies EXCEPT ![s][i] = [invoice[i] EXCEPT !.total = own]]
      /\ UNCHANGED <<call, target, month, amount, pending, todo, changed, attempt>>
      /\ UNCHANGED <<invoice, lines, announced>> /\ UNCHANGED rowVars
  BY DEF LoadInvoice, rowVars
<1>2. /\ call[s] = "edit" /\ i \in Invoices /\ OnADraft(s) /\ Holding(s)
      /\ lines[i][month[s]] > 0 /\ own = OwnLines(s)
  BY <1>1 DEF IInv, SessionInv, Editing, OnADraft
<1>3. own \in Amounts /\ OwnLines(s)' = OwnLines(s)
  <2>1. OwnLines(s) \in Amounts
    BY <1>2 DEF IInv, TypeOK, OwnLines, Amounts
  <2>2. target'[s] = target[s] /\ month'[s] = month[s] /\ amount'[s] = amount[s] /\ lines' = lines
    BY <1>1
  <2> QED BY <1>2, <2>1, <2>2 DEF OwnLines
<1>4. /\ invoice[i] \in Documents /\ [invoice[i] EXCEPT !.total = own] \in Documents
      /\ [invoice[i] EXCEPT !.total = own].total = own
      /\ [invoice[i] EXCEPT !.total = own].status = invoice[i].status
      /\ [invoice[i] EXCEPT !.total = own].month = invoice[i].month
      /\ [invoice[i] EXCEPT !.total = own].number = invoice[i].number
  <2>1. invoice[i] \in Documents
    BY <1>2 DEF IInv, TypeOK
  <2> HIDE DEF own
  <2> QED BY <1>3, <2>1, TotalOverwritten
<1>5. SessionTypes' /\ Others(s)
  BY <1>1, <1>2, <1>4 DEF IInv, TypeOK, SessionTypes, Others, Same
<1>6. /\ step'[s] = "select" /\ call'[s] = "edit" /\ target'[s] = i /\ todo'[s] = todo[s]
      /\ month'[s] = month[s] /\ copies'[s][i] = [invoice[i] EXCEPT !.total = own]
  BY <1>1, <1>2 DEF IInv, TypeOK
<1>7. /\ copies'[s][i].total = OwnLines(s)' /\ copies'[s][i].status = invoice[i].status
      /\ copies'[s][i].month = invoice[i].month /\ copies'[s][i].number = invoice[i].number
  BY <1>2, <1>3, <1>4, <1>6
<1> HIDE DEF i, own
<1>8. target[s] = i
  BY DEF i
<1>9. SessionInv(s)'
  BY <1>1, <1>2, <1>6, <1>7, <1>8 DEF SessionInv, Holding, Persisting, Editing, Issuing, Rewriting, Writing,
                          OnADraft, Lives, Status
<1>10. Drafting(s)' => Drafting(s)
  BY <1>6 DEF Drafting
<1> QED BY <1>1, <1>5, <1>6, <1>9, <1>10, OnwardKeeps

LEMMA TakeNumberKeeps == ASSUME IInv, NEW s \in Sessions, TakeNumber(s) PROVE IInv'
<1> DEFINE i == target[s]
           copy == copies[s][i]
           numbered == [copy EXCEPT !.status = "issued", !.number = NextNumber]
<1>1. /\ step[s] = "count" /\ step' = [step EXCEPT ![s] = "select"]
      /\ copies' = [copies EXCEPT ![s][i] = numbered]
      /\ UNCHANGED <<call, target, month, amount, pending, todo, changed, attempt>>
      /\ UNCHANGED <<invoice, lines, announced>> /\ UNCHANGED rowVars
  BY DEF TakeNumber, rowVars
<1>2. /\ call[s] = "issue" /\ i \in Invoices /\ OnADraft(s) /\ Holding(s)
      /\ copy.month = invoice[i].month /\ copy.total = invoice[i].total
  BY <1>1 DEF IInv, SessionInv, Issuing, OnADraft
<1>3. NextNumber = Cardinality(Documented) + 1
  BY DEF NextNumber, Documented
<1>4. NextNumber \in 0..Cardinality(Invoices) + 1 /\ NextNumber \in 1..Cardinality(Documented) + 1
  BY <1>3, DocumentedIsFinite, ConstantFacts
<1>5. /\ copy \in Documents /\ numbered \in Documents
      /\ numbered.status = "issued" /\ numbered.number = NextNumber
      /\ numbered.month = copy.month /\ numbered.total = copy.total
  <2>1. copy \in Documents
    BY <1>2 DEF IInv, TypeOK
  <2> HIDE DEF copy
  <2> QED BY <1>4, <2>1, NumberOverwritten
<1>6. SessionTypes' /\ Others(s)
  BY <1>1, <1>2, <1>5 DEF IInv, TypeOK, SessionTypes, Others, Same
<1>7. /\ step'[s] = "select" /\ call'[s] = "issue" /\ target'[s] = i /\ todo'[s] = todo[s]
      /\ copies'[s][i] = numbered /\ month'[s] = month[s]
  BY <1>1, <1>2 DEF IInv, TypeOK
<1>8. Cardinality(Documented)' = Cardinality(Documented)
  BY <1>1, RowsStay
<1>9. /\ copies'[s][i].status = "issued" /\ copies'[s][i].number \in 1..(Cardinality(Documented)' + 1)
      /\ copies'[s][i].month = invoice[i].month /\ copies'[s][i].total = invoice[i].total
  BY <1>2, <1>4, <1>5, <1>7, <1>8
<1> HIDE DEF i, copy, numbered
<1>10. target[s] = i
  BY DEF i
<1>11. SessionInv(s)'
  BY <1>1, <1>2, <1>7, <1>9, <1>10 DEF SessionInv, Holding, Persisting, Editing, Issuing, Rewriting, Writing,
                          OnADraft, Lives, Status
<1>12. Drafting(s)' => Drafting(s)
  BY <1>7 DEF Drafting
<1> QED BY <1>1, <1>6, <1>7, <1>11, <1>12, OnwardKeeps

LEMMA TryAgainKeeps == ASSUME IInv, NEW s \in Sessions, TryAgain(s) PROVE IInv'
<1> DEFINE i == target[s]
<1>1. /\ call[s] = "issue" /\ step' = [step EXCEPT ![s] = "count"]
      /\ copies' = [copies EXCEPT ![s][i] = invoice[i]]
      /\ changed' = [changed EXCEPT ![s] = {}] /\ attempt' = [attempt EXCEPT ![s] = @ + 1]
      /\ attempt[s] < MaxAttempts /\ step[s] = "write"
      /\ UNCHANGED <<call, target, month, amount, pending, todo>>
      /\ UNCHANGED <<invoice, lines, announced>> /\ UNCHANGED rowVars
  BY DEF TryAgain, rowVars
<1>2. i \in Invoices /\ OnADraft(s) /\ Holding(s)
  BY <1>1 DEF IInv, SessionInv, Issuing, OnADraft
<1>3. attempt[s] + 1 \in 0..MaxAttempts
  BY <1>1, ConstantFacts DEF IInv, TypeOK
<1>4. SessionTypes' /\ Others(s)
  BY <1>1, <1>2, <1>3 DEF IInv, TypeOK, SessionTypes, Others, Same
<1>5. /\ step'[s] = "count" /\ call'[s] = "issue" /\ target'[s] = i /\ todo'[s] = todo[s]
      /\ copies'[s][i] = invoice[i] /\ month'[s] = month[s]
  BY <1>1, <1>2 DEF IInv, TypeOK
<1> HIDE DEF i
<1>6. target[s] = i
  BY DEF i
<1>7. SessionInv(s)'
  BY <1>1, <1>2, <1>5, <1>6 DEF SessionInv, Holding, Persisting, Editing, Issuing, Rewriting, Writing,
                          OnADraft, Lives, Status
<1>8. Drafting(s)' => Drafting(s)
  BY <1>5 DEF Drafting
<1> QED BY <1>1, <1>4, <1>5, <1>7, <1>8, OnwardKeeps

LEMMA SelectInvoiceKeeps ==
  ASSUME IInv, NEW s \in Sessions, NEW i \in Invoices, SelectInvoice(s, i)
  PROVE  IInv'
<1> DEFINE differs == {c \in Columns : copies[s][i][c] # invoice[i][c]}
<1>1. /\ step[s] = "select" /\ i \in todo[s] /\ step' = [step EXCEPT ![s] = "write"]
      /\ target' = [target EXCEPT ![s] = i] /\ changed' = [changed EXCEPT ![s] = differs]
      /\ UNCHANGED <<call, month, amount, pending, todo, copies, attempt>>
      /\ UNCHANGED <<invoice, lines, announced>> /\ UNCHANGED rowVars
  BY DEF SelectInvoice, rowVars
<1>2. SessionTypes' /\ Others(s)
  BY <1>1 DEF IInv, TypeOK, SessionTypes, Others, Same
<1>3. /\ step'[s] = "write" /\ target'[s] = i /\ changed'[s] = differs /\ call'[s] = call[s]
      /\ todo'[s] = todo[s] /\ copies'[s] = copies[s] /\ month'[s] = month[s] /\ amount'[s] = amount[s]
  BY <1>1 DEF IInv, TypeOK
<1>4. Writing(s)'
  BY <1>1, <1>3 DEF Writing
<1>5. SessionInv(s)
  BY DEF IInv
<1>6. Holding(s)' /\ Persisting(s)' /\ Rewriting(s)'
  BY <1>1, <1>3, <1>5 DEF SessionInv, Holding, Persisting, Rewriting, Lives, Status
<1>7. Cardinality(Documented)' = Cardinality(Documented)
  BY <1>1, RowsStay
<1>8. call[s] \in {"edit", "issue"} => target[s] = i /\ target'[s] = target[s]
  BY <1>1, <1>3, <1>5 DEF SessionInv, Editing, Issuing, OnADraft
<1>9. Editing(s)'
  BY <1>1, <1>3, <1>5, <1>8 DEF SessionInv, Editing, OnADraft, OwnLines, Status
<1>10. Issuing(s)'
  BY <1>1, <1>3, <1>5, <1>7, <1>8 DEF SessionInv, Issuing, OnADraft, Status
<1>11. Drafting(s)' => Drafting(s)
  BY <1>1, <1>3 DEF Drafting
<1> QED BY <1>1, <1>2, <1>3, <1>4, <1>6, <1>9, <1>10, <1>11, OnwardKeeps DEF SessionInv

-----------------------------------------------------------------------------
(* Steps that write a row *)

\* What a step leaves to a session that does not take it.
Kept(t) ==
  /\ Same(t)
  /\ \A i \in todo[t] : invoice'[i] = invoice[i] /\ lines'[i] = lines[i]
  /\ step[t] = "persist" =>
       \A k \in pending[t], m \in Months : m = month[t] => (Elsewhere(k, m)' => Elsewhere(k, m))

LEMMA WriteKeeps ==
  ASSUME IInv, RowTypes', RowsInv', SessionTypes', AloneInv',
         Cardinality(Documented) <= Cardinality(Documented'),
         \A t \in Sessions : SessionInv(t)' \/ Kept(t)
  PROVE  IInv'
<1>1. TypeOK'
  BY TypesSplit DEF TypeOK, RowTypes, SessionTypes
<1>2. Cardinality(Documented') \in Nat
  <2>1. Documented' \subseteq Invoices
    BY DEF Documented
  <2> QED BY <2>1, ConstantFacts, FS_Subset, FS_CardinalityType
<1>3. ASSUME NEW t \in Sessions, Kept(t) PROVE SessionInv(t)'
  <2>1. SessionInv(t)
    BY DEF IInv
  <2> QED BY <1>2, <1>3, <2>1, SameKeeps DEF Kept
<1> QED BY <1>1, <1>3 DEF IInv

\* A row that consumes no number is written.
LEMMA RowWritten ==
  ASSUME IInv, NEW i \in Invoices, NEW row \in Documents, NEW own \in Amounts,
         invoice' = [invoice EXCEPT ![i] = row], lines' = [lines EXCEPT ![i] = own],
         UNCHANGED announced,
         Status(i) \notin {"issued", "paid"}, row.status \notin {"issued", "paid"}, row.total = own,
         row.status \in {"absent", "voided"}
           \/ \A k \in Months : own[k] > 0 => (Lives(i) /\ lines[i][k] > 0) \/ ~Drafted(k)
  PROVE  /\ RowTypes' /\ RowsInv' /\ Documented' = Documented
         /\ \A k, m \in Months : Elsewhere(k, m)' =>
              \/ Elsewhere(k, m)
              \/ row.status \notin {"absent", "voided"} /\ own[k] > 0 /\ row.month # m
<1>1. /\ invoice'[i] = row /\ lines'[i] = own
      /\ \A j \in Invoices \ {i} : invoice'[j] = invoice[j] /\ lines'[j] = lines[j]
  BY DEF IInv, TypeOK
<1>2. RowTypes'
  BY DEF IInv, TypeOK, RowTypes
<1>3. Documented' = Documented /\ i \notin Documented
  BY <1>1 DEF Documented, Status
<1>4. NumbersHaveNoGap'
  <2>1. \A j \in Documented : invoice'[j].number = invoice[j].number
    BY <1>1, <1>3 DEF Documented
  <2>2. {invoice'[j].number : j \in Documented} = {invoice[j].number : j \in Documented}
    BY <2>1
  <2> QED BY <1>3, <2>1, <2>2 DEF IInv, RowsInv, NumbersHaveNoGap
<1>5. \A j \in Invoices \ {i} : Lives(j)' <=> Lives(j)
  BY <1>1 DEF Lives, Status
<1>6. Lives(i)' <=> row.status \notin {"absent", "voided"}
  BY <1>1 DEF Lives, Status
<1>7. MonthDraftedOnce'
  <2>1. ASSUME Lives(i)', NEW j \in Invoices \ {i}, Lives(j)', NEW k \in Months,
               lines'[i][k] > 0, lines'[j][k] > 0
        PROVE  FALSE
    <3>1. Lives(j) /\ lines[j][k] > 0 /\ own[k] > 0
      BY <1>1, <1>5, <2>1
    <3>2. Drafted(k)
      BY <3>1 DEF Drafted
    <3>3. Lives(i) /\ lines[i][k] > 0
      BY <1>6, <2>1, <3>1, <3>2
    <3> QED BY <3>1, <3>3 DEF IInv, RowsInv, MonthDraftedOnce
  <2>2. ASSUME NEW j \in Invoices \ {i}, Lives(j)', NEW h \in Invoices \ {i}, Lives(h)',
               NEW k \in Months, lines'[j][k] > 0, lines'[h][k] > 0
        PROVE  j = h
    BY <1>1, <1>5, <2>2 DEF IInv, RowsInv, MonthDraftedOnce
  <2> QED BY <2>1, <2>2 DEF MonthDraftedOnce
<1>8. TotalsAreLines'
  BY <1>1 DEF IInv, RowsInv, TotalsAreLines
<1>9. ASSUME NEW k \in Months, NEW m \in Months, Elsewhere(k, m)'
      PROVE  \/ Elsewhere(k, m)
             \/ row.status \notin {"absent", "voided"} /\ own[k] > 0 /\ row.month # m
  <2>1. PICK j \in Invoices : Lives(j)' /\ lines'[j][k] > 0 /\ invoice'[j].month # m
    BY <1>9 DEF Elsewhere
  <2>2. CASE j = i
    BY <1>1, <1>6, <2>1, <2>2
  <2>3. CASE j # i
    <3>1. Lives(j) /\ lines[j][k] > 0 /\ invoice[j].month # m
      BY <1>1, <1>5, <2>1, <2>3
    <3> QED BY <3>1 DEF Elsewhere
  <2> QED BY <2>2, <2>3
<1> QED BY <1>2, <1>3, <1>4, <1>7, <1>8, <1>9 DEF RowsInv

\* What no session holds, others do not see change.
LEMMA NobodyHolds ==
  ASSUME IInv, NEW i \in Invoices, NEW t \in Sessions, i \notin todo[t], Same(t),
         \A j \in Invoices \ {i} : invoice'[j] = invoice[j] /\ lines'[j] = lines[j],
         step[t] = "persist" =>
           \A k \in pending[t], m \in Months : m = month[t] => (Elsewhere(k, m)' => Elsewhere(k, m))
  PROVE  Kept(t)
BY DEF IInv, TypeOK, Kept

LEMMA AloneStays ==
  ASSUME AloneInv, UNCHANGED <<step, call, month, todo>>
  PROVE  AloneInv'
BY DEF AloneInv, Drafting

LEMMA AddDraftLineKeeps ==
  ASSUME OneCallPerInvoice, IInv, NEW i \in Invoices, NEW h \in ByHand, AddDraftLine(i, h)
  PROVE  IInv'
<1> DEFINE own == [lines[i] EXCEPT ![h] = 1]
           row == [invoice[i] EXCEPT !.total = own]
<1>1. /\ Free(i) /\ Status(i) = "draft" /\ lines' = [lines EXCEPT ![i] = own]
      /\ UNCHANGED announced /\ UNCHANGED sessionVars
      /\ invoice' = [invoice EXCEPT ![i] = [@ EXCEPT !.total = lines'[i]]]
  BY DEF AddDraftLine
<1>2. own \in Amounts /\ (\A k \in Months : own[k] = lines[i][k]) /\ invoice[i] \in Documents
  BY ConstantFacts DEF IInv, TypeOK, Amounts
<1>3. invoice' = [invoice EXCEPT ![i] = row]
  BY <1>1 DEF IInv, TypeOK
<1> HIDE DEF own
<1>4. row \in Documents /\ row.status = "draft" /\ row.total = own /\ row.month = invoice[i].month
  BY <1>1, <1>2, TotalOverwritten DEF Status
<1> HIDE DEF row
<1>5. Lives(i)
  BY <1>1 DEF Lives
<1>6. \A k \in Months : own[k] > 0 => (Lives(i) /\ lines[i][k] > 0)
  BY <1>2, <1>5
<1>7. /\ RowTypes' /\ RowsInv' /\ Documented' = Documented
      /\ \A k, m \in Months :
           Elsewhere(k, m)' => Elsewhere(k, m) \/ (own[k] > 0 /\ invoice[i].month # m)
  <2>1. Status(i) \notin {"issued", "paid"} /\ row.status \notin {"issued", "paid"}
    BY <1>1, <1>4
  <2>2. \A k \in Months : own[k] > 0 => (Lives(i) /\ lines[i][k] > 0) \/ ~Drafted(k)
    BY <1>6
  <2>3. UNCHANGED announced /\ lines' = [lines EXCEPT ![i] = own]
    BY <1>1
  <2>4. own \in Amounts /\ row \in Documents /\ row.total = own
    BY <1>2, <1>4
  <2>5. /\ RowTypes' /\ RowsInv' /\ Documented' = Documented
        /\ \A k, m \in Months : Elsewhere(k, m)' =>
             \/ Elsewhere(k, m)
             \/ row.status \notin {"absent", "voided"} /\ own[k] > 0 /\ row.month # m
    BY <1>3, <2>1, <2>2, <2>3, <2>4, RowWritten
  <2> QED BY <1>4, <2>5
<1>8. \A k, m \in Months : Elsewhere(k, m)' => Elsewhere(k, m)
  BY <1>6, <1>7 DEF Elsewhere
<1>9. UNCHANGED <<step, call, target, month, amount, pending, todo, copies, changed, attempt>>
  BY <1>1 DEF sessionVars
<1>10. SessionTypes' /\ AloneInv'
  BY <1>9, TypesSplit, AloneStays DEF IInv, SessionTypes
<1>11. ASSUME NEW t \in Sessions PROVE Kept(t)
  <2>1. i \notin todo[t]
    BY <1>1 DEF Free
  <2>2. Same(t)
    BY <1>9 DEF Same
  <2>3. \A j \in Invoices \ {i} : invoice'[j] = invoice[j] /\ lines'[j] = lines[j]
    BY <1>1 DEF IInv, TypeOK
  <2>4. pending[t] \subseteq Months
    BY DEF IInv, TypeOK
  <2> QED BY <1>8, <2>1, <2>2, <2>3, <2>4, NobodyHolds
<1>12. Cardinality(Documented) <= Cardinality(Documented')
  BY <1>7, DocumentedIsFinite
<1> QED BY <1>7, <1>10, <1>11, <1>12, WriteKeeps

LEMMA PersistDraftKeeps ==
  ASSUME IInv, NEW s \in Sessions, NEW i \in Invoices, PersistDraft(s, i)
  PROVE  IInv'
<1> DEFINE found == [k \in Keys |-> IF k \in pending[s] THEN 1 ELSE 0]
           row == [status |-> "draft", month |-> month[s], number |-> 0, total |-> found]
<1>1. /\ step[s] = "persist" /\ Status(i) = "absent" /\ ~MonthTaken(month[s])
      /\ lines' = [lines EXCEPT ![i] = found] /\ invoice' = [invoice EXCEPT ![i] = row]
      /\ step' = [step EXCEPT ![s] = "reconcile"]
      /\ UNCHANGED announced
      /\ UNCHANGED <<call, target, month, amount, pending, todo, copies, changed, attempt>>
  BY DEF PersistDraft, ToReconcile
<1>2. /\ call[s] = "draft" /\ month[s] \in Months /\ todo[s] = {}
      /\ \A k \in pending[s] : ~Elsewhere(k, month[s])
  BY <1>1 DEF IInv, SessionInv, Persisting, Holding
<1>3. found \in Amounts
  BY ConstantFacts DEF Amounts
<1>4. \A k \in Months : found[k] > 0 => k \in pending[s]
  BY ConstantFacts
<1> HIDE DEF found
<1>5. row \in Documents /\ row.status = "draft" /\ row.total = found /\ row.month = month[s]
  BY <1>2, <1>3, ConstantFacts DEF Documents
<1> HIDE DEF row
<1>6. \A k \in Months : found[k] > 0 => ~Drafted(k)
  <2>1. \A j \in Invoices : Lives(j) => invoice[j].month # month[s]
    BY <1>1 DEF MonthTaken
  <2>2. \A k \in pending[s], j \in Invoices : ~(Lives(j) /\ lines[j][k] > 0)
    BY <1>2, <2>1 DEF Elsewhere
  <2> QED BY <1>4, <2>2 DEF Drafted
<1>7. /\ RowTypes' /\ RowsInv' /\ Documented' = Documented
      /\ \A k, m \in Months : Elsewhere(k, m)' => Elsewhere(k, m) \/ month[s] # m
  BY <1>1, <1>3, <1>5, <1>6, RowWritten
<1>8. SessionTypes' /\ Others(s)
  BY <1>1 DEF IInv, TypeOK, SessionTypes, Others, Same
<1>9. step'[s] = "reconcile" /\ call'[s] = "draft" /\ todo'[s] = {}
  BY <1>1, <1>2 DEF IInv, TypeOK
<1>10. /\ \A t \in Sessions \ {s} : Drafting(t) => month[t] = month[s]
       /\ month'[s] = month[s]
  BY <1>1, <1>2 DEF IInv, AloneInv, Drafting
<1>11. AloneInv'
  BY <1>8, <1>9, <1>10, AloneKeeps
<1>12. SessionInv(s)'
  BY <1>9 DEF SessionInv, Holding, Persisting, Editing, Issuing, Rewriting, Writing
<1>13. ASSUME NEW t \in Sessions \ {s} PROVE Kept(t)
  <2>1. i \notin todo[t]
    BY <1>1 DEF IInv, SessionInv, Holding, Lives
  <2>2. Same(t)
    BY <1>8 DEF Others
  <2>3. \A j \in Invoices \ {i} : invoice'[j] = invoice[j] /\ lines'[j] = lines[j]
    BY <1>1 DEF IInv, TypeOK
  <2>4. step[t] = "persist" => month[t] = month[s]
    BY <1>10 DEF IInv, SessionInv, Persisting, Drafting
  <2>5. step[t] = "persist" =>
          \A k \in pending[t], m \in Months : m = month[t] => (Elsewhere(k, m)' => Elsewhere(k, m))
    BY <1>7, <2>4 DEF IInv, TypeOK
  <2> QED BY <2>1, <2>2, <2>3, <2>5, NobodyHolds
<1>14. Cardinality(Documented) <= Cardinality(Documented')
  BY <1>7, DocumentedIsFinite
<1> QED BY <1>7, <1>8, <1>11, <1>12, <1>13, <1>14, WriteKeeps

LEMMA VoidInvoiceKeeps ==
  ASSUME OneCallPerInvoice, IInv, NEW s \in Sessions, NEW i \in Invoices, VoidInvoice(s, i)
  PROVE  IInv'
<1> DEFINE row == [invoice[i] EXCEPT !.status = "voided"]
<1>1. /\ step[s] = "idle" /\ Free(i) /\ Status(i) = "draft"
      /\ invoice' = [invoice EXCEPT ![i] = row]
      /\ \/ UNCHANGED <<step, call>>
         \/ step' = [step EXCEPT ![s] = "reconcile"] /\ call' = [call EXCEPT ![s] = "void"]
      /\ UNCHANGED <<lines, announced>>
      /\ UNCHANGED <<target, month, amount, pending, todo, copies, changed, attempt>>
  BY DEF VoidInvoice, Voidable
<1>2. /\ invoice[i] \in Documents /\ lines[i] \in Amounts /\ invoice[i].total = lines[i]
      /\ lines' = [lines EXCEPT ![i] = lines[i]]
  BY <1>1 DEF IInv, TypeOK, RowsInv, TotalsAreLines
<1>3. row \in Documents /\ row.status = "voided" /\ row.total = lines[i]
  BY <1>2, StatusOverwritten
<1> HIDE DEF row
<1>4. /\ RowTypes' /\ RowsInv' /\ Documented' = Documented
      /\ \A k, m \in Months : Elsewhere(k, m)' => Elsewhere(k, m)
  BY <1>1, <1>2, <1>3, RowWritten
<1>5. SessionTypes' /\ Others(s)
  BY <1>1 DEF IInv, TypeOK, SessionTypes, Others, Same
<1>6. /\ call[s] = "none" /\ todo[s] = {} /\ todo'[s] = {}
      /\ \/ step'[s] = "idle" /\ call'[s] = "none"
         \/ step'[s] = "reconcile" /\ call'[s] = "void"
  BY <1>1 DEF IInv, TypeOK, SessionInv, Holding
<1>7. AloneInv'
  BY <1>5, <1>6, AloneKeeps DEF Drafting
<1>8. SessionInv(s)'
  BY <1>6 DEF SessionInv, Holding, Persisting, Editing, Issuing, Rewriting, Writing
<1>9. ASSUME NEW t \in Sessions \ {s} PROVE Kept(t)
  <2>1. i \notin todo[t]
    BY <1>1 DEF Free
  <2>2. Same(t)
    BY <1>5 DEF Others
  <2>3. \A j \in Invoices \ {i} : invoice'[j] = invoice[j] /\ lines'[j] = lines[j]
    BY <1>1 DEF IInv, TypeOK
  <2>4. pending[t] \subseteq Months
    BY DEF IInv, TypeOK
  <2> QED BY <1>4, <2>1, <2>2, <2>3, <2>4, NobodyHolds
<1>10. Cardinality(Documented) <= Cardinality(Documented')
  BY <1>4, DocumentedIsFinite
<1> QED BY <1>4, <1>5, <1>7, <1>8, <1>9, <1>10, WriteKeeps

LEMMA MarkInvoicePaidKeeps ==
  ASSUME OneCallPerInvoice, IInv, NEW i \in Invoices, MarkInvoicePaid(i)
  PROVE  IInv'
<1> DEFINE row == [invoice[i] EXCEPT !.status = "paid"]
<1>1. /\ Free(i) /\ Status(i) = "issued" /\ invoice' = [invoice EXCEPT ![i] = row]
      /\ UNCHANGED <<lines, announced>> /\ UNCHANGED sessionVars
  BY DEF MarkInvoicePaid
<1>2. invoice[i] \in Documents
  BY DEF IInv, TypeOK
<1>3. /\ row \in Documents /\ row.status = "paid" /\ row.total = invoice[i].total
      /\ row.number = invoice[i].number /\ row.month = invoice[i].month
  BY <1>2, StatusOverwritten
<1> HIDE DEF row
<1>4. /\ invoice'[i] = row /\ \A j \in Invoices \ {i} : invoice'[j] = invoice[j]
  BY <1>1 DEF IInv, TypeOK
<1>5. \A j \in Invoices : /\ Lives(j)' <=> Lives(j)
                          /\ invoice'[j].number = invoice[j].number
                          /\ invoice'[j].total = invoice[j].total
                          /\ invoice'[j].month = invoice[j].month
  BY <1>1, <1>3, <1>4 DEF Lives, Status
<1>6. Documented' = Documented
  BY <1>1, <1>3, <1>4 DEF Documented, Status
<1>7. RowTypes'
  BY <1>1, <1>3 DEF IInv, TypeOK, RowTypes
<1>8. NumbersHaveNoGap'
  <2>1. {invoice'[j].number : j \in Documented} = {invoice[j].number : j \in Documented}
    BY <1>5 DEF Documented
  <2> QED BY <1>1, <1>5, <1>6, <2>1 DEF IInv, RowsInv, NumbersHaveNoGap
<1>9. MonthDraftedOnce' /\ TotalsAreLines'
  BY <1>1, <1>5 DEF IInv, RowsInv, MonthDraftedOnce, TotalsAreLines
<1>10. \A k, m \in Months : Elsewhere(k, m)' => Elsewhere(k, m)
  BY <1>1, <1>5 DEF Elsewhere
<1>11. UNCHANGED <<step, call, target, month, amount, pending, todo, copies, changed, attempt>>
  BY <1>1 DEF sessionVars
<1>12. SessionTypes' /\ AloneInv'
  BY <1>11, TypesSplit, AloneStays DEF IInv, SessionTypes
<1>13. ASSUME NEW t \in Sessions PROVE Kept(t)
  <2>1. i \notin todo[t]
    BY <1>1 DEF Free
  <2>2. Same(t)
    BY <1>11 DEF Same
  <2>3. \A j \in Invoices \ {i} : invoice'[j] = invoice[j] /\ lines'[j] = lines[j]
    BY <1>1, <1>4
  <2>4. pending[t] \subseteq Months
    BY DEF IInv, TypeOK
  <2> QED BY <1>10, <2>1, <2>2, <2>3, <2>4, NobodyHolds
<1>14. Cardinality(Documented) <= Cardinality(Documented')
  BY <1>6, DocumentedIsFinite
<1> QED BY <1>7, <1>8, <1>9, <1>12, <1>13, <1>14, WriteKeeps DEF RowsInv

-----------------------------------------------------------------------------
(* The write of a saved invoice *)

\* An edit writes its line and the total with it.
LEMMA EditWritten ==
  ASSUME IInv, NEW s \in Sessions, WriteInvoice(s), call[s] = "edit"
  PROVE  IInv'
<1> DEFINE i == target[s]
           row == copies[s][i]
           own == OwnLines(s)
<1>1. step[s] = "write"
  BY DEF WriteInvoice
<1>2. /\ i \in Invoices /\ row \in Documents
      /\ invoice' = [invoice EXCEPT ![i] = row]
      /\ lines' = [lines EXCEPT ![i][month[s]] = amount[s]] /\ UNCHANGED announced
      /\ Saved(s)
  BY <1>1, MergedIsTheCopy DEF WriteInvoice
<1>3. /\ todo[s] = {i} /\ Status(i) = "draft" /\ lines[i][month[s]] > 0
      /\ row.status = "draft" /\ row.total = own /\ row.month = invoice[i].month
  BY <1>1 DEF IInv, SessionInv, Editing, OnADraft, Status
<1>4. /\ own \in Amounts /\ lines' = [lines EXCEPT ![i] = own]
      /\ \A k \in Keys : own[k] = IF k = month[s] THEN amount[s] ELSE lines[i][k]
  BY <1>2 DEF IInv, TypeOK, OwnLines, Amounts
<1>5. Lives(i)
  BY <1>3 DEF Lives
<1>6. \A k \in Months : own[k] > 0 => (Lives(i) /\ lines[i][k] > 0)
  BY <1>3, <1>4, <1>5, ConstantFacts
<1> HIDE DEF i, row, own
<1>7. /\ RowTypes' /\ RowsInv' /\ Documented' = Documented
      /\ \A k, m \in Months :
           Elsewhere(k, m)' => Elsewhere(k, m) \/ (own[k] > 0 /\ invoice[i].month # m)
  <2>1. Status(i) \notin {"issued", "paid"} /\ row.status \notin {"issued", "paid"}
    BY <1>3
  <2>2. \A k \in Months : own[k] > 0 => (Lives(i) /\ lines[i][k] > 0) \/ ~Drafted(k)
    BY <1>6
  <2>3. /\ i \in Invoices /\ row \in Documents /\ own \in Amounts /\ row.total = own
        /\ invoice' = [invoice EXCEPT ![i] = row] /\ lines' = [lines EXCEPT ![i] = own]
        /\ UNCHANGED announced
    BY <1>2, <1>3, <1>4
  <2> QED BY <1>3, <2>1, <2>2, <2>3, RowWritten
<1>8. \A k, m \in Months : Elsewhere(k, m)' => Elsewhere(k, m)
  BY <1>2, <1>6, <1>7 DEF Elsewhere
<1>9. End(s)
  BY <1>2, <1>3 DEF Saved, i
<1>10. SessionTypes' /\ Others(s) /\ SessionInv(s)' /\ AloneInv'
  BY <1>9, EndMeans
<1>11. ASSUME NEW t \in Sessions \ {s} PROVE Kept(t)
  <2>1. i \notin todo[t]
    BY <1>3 DEF IInv, AloneInv
  <2>2. Same(t)
    BY <1>10 DEF Others
  <2>3. \A j \in Invoices \ {i} : invoice'[j] = invoice[j] /\ lines'[j] = lines[j]
    BY <1>2, <1>4 DEF IInv, TypeOK
  <2>4. pending[t] \subseteq Months
    BY DEF IInv, TypeOK
  <2> QED BY <1>2, <1>8, <2>1, <2>2, <2>3, <2>4, NobodyHolds
<1>12. Cardinality(Documented) <= Cardinality(Documented')
  BY <1>7, DocumentedIsFinite
<1> QED BY <1>7, <1>10, <1>11, <1>12, WriteKeeps

\* An issue writes the first number that is not in use: a lower one is taken,
\* and the unique index refuses it.
LEMMA IssueWritten ==
  ASSUME IInv, NEW s \in Sessions, WriteInvoice(s), call[s] = "issue"
  PROVE  IInv'
<1> DEFINE i == target[s]
           row == copies[s][i]
           n == row.number
<1>1. step[s] = "write"
  BY DEF WriteInvoice
<1>2. /\ i \in Invoices /\ row \in Documents
      /\ invoice' = [invoice EXCEPT ![i] = row] /\ UNCHANGED lines
      /\ announced' = [announced EXCEPT ![i] = @ \cup {n}]
      /\ Saved(s) /\ ~Violates(i, row)
  BY <1>1, MergedIsTheCopy DEF WriteInvoice
<1>3. /\ todo[s] = {i} /\ Status(i) = "draft" /\ row.status = "issued"
      /\ row.total = invoice[i].total /\ row.month = invoice[i].month /\ n \in 1..(Cardinality(Documented) + 1)
  BY <1>1 DEF IInv, SessionInv, Issuing, OnADraft
<1> HIDE DEF i, row, n
<1>4. i \notin Documented
  BY <1>3 DEF Documented
<1>5. n = Cardinality(Documented) + 1
  <2>1. \A j \in Documented : j \in Invoices \ {i}
    BY <1>4 DEF Documented
  <2>2. \A j \in Documented : invoice[j].number # n
    <3>1. \A j \in Invoices \ {i} : ~(row.number # 0 /\ invoice[j].number = row.number)
      BY <1>2 DEF Violates
    <3>2. row.number = n /\ n # 0
      BY <1>3, DocumentedIsFinite DEF n
    <3> QED BY <2>1, <3>1, <3>2
  <2>3. n \notin 1..Cardinality(Documented)
    BY <2>2 DEF IInv, RowsInv, NumbersHaveNoGap
  <2> QED BY <1>3, <2>3, DocumentedIsFinite
<1>6. /\ invoice'[i] = row /\ \A j \in Invoices \ {i} : invoice'[j] = invoice[j]
  BY <1>2 DEF IInv, TypeOK
<1>7. Documented' = Documented \cup {i}
  BY <1>2, <1>3, <1>6 DEF Documented, Status
<1>8. Cardinality(Documented') = Cardinality(Documented) + 1
  BY <1>4, <1>7, DocumentedIsFinite, FS_AddElement
<1>9. RowTypes'
  <2>1. n \in 1..Cardinality(Invoices) + 1
    BY <1>3, DocumentedIsFinite, ConstantFacts
  <2> QED BY <1>2, <2>1 DEF IInv, TypeOK, RowTypes
<1>10. NumbersHaveNoGap'
  <2>1. invoice'[i].number = n /\ \A j \in Documented : invoice'[j] = invoice[j]
    BY <1>4, <1>6 DEF Documented, n
  <2>2. {invoice'[j].number : j \in Documented \cup {i}} = {invoice[j].number : j \in Documented} \cup {n}
    BY <2>1
  <2>3. 1..(Cardinality(Documented) + 1) = (1..Cardinality(Documented)) \cup {Cardinality(Documented) + 1}
    BY DocumentedIsFinite
  <2>4. {invoice'[j].number : j \in Documented'} = 1..Cardinality(Documented')
    BY <1>5, <1>7, <1>8, <2>2, <2>3 DEF IInv, RowsInv, NumbersHaveNoGap
  <2>5. announced'[i] = {n} /\ \A j \in Invoices \ {i} : announced'[j] = announced[j]
    BY <1>2, <1>4 DEF IInv, TypeOK, RowsInv, NumbersHaveNoGap
  <2>6. ASSUME NEW j \in Invoices
        PROVE  announced'[j] = (IF j \in Documented' THEN {invoice'[j].number} ELSE {})
    BY <1>6, <1>7, <2>1, <2>5 DEF IInv, RowsInv, NumbersHaveNoGap
  <2> QED BY <2>4, <2>6 DEF NumbersHaveNoGap
<1>11. \A j \in Invoices : /\ Lives(j)' <=> Lives(j)
                          /\ invoice'[j].total = invoice[j].total
                          /\ invoice'[j].month = invoice[j].month
  BY <1>3, <1>6 DEF Lives, Status
<1>12. MonthDraftedOnce' /\ TotalsAreLines'
  BY <1>2, <1>11 DEF IInv, RowsInv, MonthDraftedOnce, TotalsAreLines
<1>13. \A k, m \in Months : Elsewhere(k, m)' => Elsewhere(k, m)
  BY <1>2, <1>11 DEF Elsewhere
<1>14. End(s)
  BY <1>2, <1>3 DEF Saved, i
<1>15. SessionTypes' /\ Others(s) /\ SessionInv(s)' /\ AloneInv'
  BY <1>14, EndMeans
<1>16. ASSUME NEW t \in Sessions \ {s} PROVE Kept(t)
  <2>1. i \notin todo[t]
    BY <1>3 DEF IInv, AloneInv
  <2>2. Same(t)
    BY <1>15 DEF Others
  <2>3. \A j \in Invoices \ {i} : invoice'[j] = invoice[j] /\ lines'[j] = lines[j]
    BY <1>2, <1>6
  <2>4. pending[t] \subseteq Months
    BY DEF IInv, TypeOK
  <2> QED BY <1>2, <1>13, <2>1, <2>2, <2>3, <2>4, NobodyHolds
<1>17. Cardinality(Documented) <= Cardinality(Documented')
  BY <1>8, DocumentedIsFinite
<1> QED BY <1>9, <1>10, <1>12, <1>15, <1>16, <1>17, WriteKeeps DEF RowsInv

\* Every other call writes the row as it is.
LEMMA SameWritten ==
  ASSUME IInv, NEW s \in Sessions, WriteInvoice(s), call[s] \notin {"edit", "issue"}
  PROVE  IInv'
<1> DEFINE i == target[s]
<1>1. step[s] = "write"
  BY DEF WriteInvoice
<1>2. /\ i \in Invoices /\ invoice' = [invoice EXCEPT ![i] = copies[s][i]]
      /\ UNCHANGED <<lines, announced>> /\ Saved(s)
  BY <1>1, MergedIsTheCopy DEF WriteInvoice
<1>3. i \in todo[s] /\ \A j \in todo[s] : copies[s][j] = invoice[j]
  BY <1>1 DEF IInv, SessionInv, Rewriting, Writing
<1>4. UNCHANGED rowVars
  BY <1>2, <1>3 DEF IInv, TypeOK, rowVars
<1>5. CASE End(s)
  BY <1>4, <1>5, EndMeans, ReadKeeps
<1>6. CASE ~End(s)
  <2>1. /\ step' = [step EXCEPT ![s] = "select"] /\ todo' = [todo EXCEPT ![s] = @ \ {i}]
        /\ copies' = [copies EXCEPT ![s][i] = NoDocument]
        /\ target' = [target EXCEPT ![s] = NoInvoice] /\ changed' = [changed EXCEPT ![s] = {}]
        /\ UNCHANGED <<call, month, amount, pending, attempt>>
    BY <1>2, <1>6 DEF Saved
  <2>2. SessionTypes' /\ Others(s)
    BY <1>2, <2>1, NoDocumentType DEF IInv, TypeOK, SessionTypes, Others, Same
  <2>3. /\ step'[s] = "select" /\ call'[s] = call[s] /\ todo'[s] = todo[s] \ {i}
        /\ \A j \in Invoices \ {i} : copies'[s][j] = copies[s][j]
    BY <1>2, <2>1 DEF IInv, TypeOK
  <2>4. (Drafting(s)' => Drafting(s)) /\ month'[s] = month[s]
    BY <1>1, <2>1, <2>3 DEF Drafting
  <2>5. AloneInv'
    BY <2>2, <2>3, <2>4, AloneKeeps DEF IInv, AloneInv
  <2>6. todo[s] \subseteq Invoices /\ invoice' = invoice /\ (\A j \in todo[s] : Lives(j)')
    BY <1>4 DEF IInv, TypeOK, SessionInv, Holding, rowVars, Lives, Status
  <2>7. SessionInv(s)'
    BY <1>3, <2>3, <2>6 DEF SessionInv, Holding, Persisting, Editing, Issuing, Rewriting, Writing
  <2> QED BY <1>4, <2>2, <2>5, <2>7, ReadKeeps
<1> QED BY <1>4, <1>5, <1>6

-----------------------------------------------------------------------------
(* The invariant *)

LEMMA InitHolds == ASSUME Init PROVE IInv
<1>1. TypeOK
  BY NoDocumentType, ConstantFacts DEF Init, TypeOK
<1>2. /\ \A i \in Invoices : invoice[i] = NoDocument /\ lines[i] = NoLines /\ announced[i] = {}
      /\ \A s \in Sessions : step[s] = "idle" /\ call[s] = "none" /\ todo[s] = {}
  BY DEF Init
<1>3. AloneInv
  BY <1>2 DEF AloneInv, Drafting
<1>4. \A s \in Sessions : SessionInv(s)
  BY <1>2 DEF SessionInv, Holding, Persisting, Editing, Issuing, Rewriting, Writing
<1>5. Documented = {} /\ \A i \in Invoices : ~Lives(i)
  BY <1>2, NoDocumentType DEF Documented, Lives, Status
<1>6. NumbersHaveNoGap
  <2>1. Cardinality({}) = 0 /\ 1..0 = {}
    BY FS_EmptySet
  <2> QED BY <1>2, <1>5, <2>1 DEF NumbersHaveNoGap
<1>7. MonthDraftedOnce /\ TotalsAreLines
  BY <1>2, <1>5 DEF MonthDraftedOnce, TotalsAreLines, NoDocument
<1> QED BY <1>1, <1>3, <1>4, <1>6, <1>7 DEF IInv, RowsInv

LEMMA StutterKeeps == ASSUME IInv, UNCHANGED vars PROVE IInv'
<1>1. /\ UNCHANGED <<invoice, lines, announced>> /\ UNCHANGED rowVars
      /\ UNCHANGED <<step, call, target, month, amount, pending, todo, copies, changed, attempt>>
  BY DEF vars, rowVars, sessionVars
<1>2. RowTypes' /\ RowsInv' /\ Documented' = Documented
      /\ \A k, m \in Months : Elsewhere(k, m)' <=> Elsewhere(k, m)
  BY <1>1, RowsStay, TypesSplit DEF IInv
<1>3. SessionTypes' /\ AloneInv'
  BY <1>1, TypesSplit, AloneStays DEF IInv, SessionTypes
<1>4. \A t \in Sessions : Kept(t)
  BY <1>1, <1>2 DEF IInv, TypeOK, Kept, Same
<1> QED BY <1>2, <1>3, <1>4, WriteKeeps, DocumentedIsFinite

LEMMA StepKeeps == ASSUME OneCallPerInvoice, IInv, [Next]_vars PROVE IInv'
<1>1. ASSUME NEW s \in Sessions, Work(s) PROVE IInv'
  <2>1. ASSUME WriteInvoice(s) PROVE IInv'
    BY <2>1, EditWritten, IssueWritten, SameWritten
  <2> QED BY <1>1, <2>1, SkipMonthKeeps, SaveLineKeeps, LoadInvoiceKeeps, TakeNumberKeeps,
             TryAgainKeeps, PersistDraftKeeps, SelectInvoiceKeeps, ReconcileKeeps DEF Work
<1> QED BY <1>1, StutterKeeps, BeginDraftKeeps, BeginIssueKeeps, VoidInvoiceKeeps, BeginEditKeeps,
           BeginStaleKeeps, FailKeeps, AddDraftLineKeeps, MarkInvoicePaidKeeps DEF Next

LEMMA Invariance == ASSUME OneCallPerInvoice PROVE Spec => []IInv
<1>1. Init => IInv
  BY InitHolds
<1>2. IInv /\ [Next]_vars => IInv'
  BY StepKeeps
<1> QED BY <1>1, <1>2, PTL DEF Spec

-----------------------------------------------------------------------------
(* The theorems *)

\* The values every column and every call holds keep their types.
THEOREM TypeCorrect == ASSUME OneCallPerInvoice PROVE Spec => []TypeOK
<1>1. IInv => TypeOK
  BY DEF IInv
<1> QED BY <1>1, Invariance, PTL

\* However many issues race, the numbers of issued documents are 1, 2, 3, ...
\* and each document was announced once under its number.
THEOREM NumbersAreSequential == ASSUME OneCallPerInvoice PROVE Spec => []NumbersHaveNoGap
<1>1. IInv => NumbersHaveNoGap
  BY DEF IInv, RowsInv
<1> QED BY <1>1, Invariance, PTL

\* No drafting, editing, voiding and drafting again drafts a month on two living
\* documents, drafts of one service month that overlap included; drafts of
\* different months are taken one after the other, and lines added by hand are
\* not counted.
THEOREM MonthsAreDraftedOnce == ASSUME OneCallPerInvoice PROVE Spec => []MonthDraftedOnce
<1>1. IInv => MonthDraftedOnce
  BY DEF IInv, RowsInv
<1> QED BY <1>1, Invariance, PTL
=============================================================================
