---------------------------- MODULE OutboxProofs ----------------------------
(***************************************************************************)
(* Safety of the outbox for any number of API processes, events, consumers *)
(* and attempts, and for any number of crashes.                            *)
(***************************************************************************)
EXTENDS Outbox, TLAPS

USE ConsumersAssumption, MaxAttemptsAssumption, BoundsAssumption

\* The steps of a relay and of the publishers, as one case split.
LEMMA StepCases ==
  ASSUME Next
  PROVE  \/ \E e \in Events : PublishWithin(e)
         \/ \E r \in Relays :
              \/ Poll(r) \/ NextMessage(r) \/ FindLedgerRow(r) \/ FindNoLedgerRow(r)
              \/ InsertLedgerRow(r) \/ InsertRefused(r) \/ HandlerCommits(r)
              \/ RunOnceThrows(r) \/ SaveProcessed(r) \/ SaveFailure(r)
              \/ SaveProcessedThrows(r) \/ AbortBatch(r)
BY DEF Next, RelayStep

\* The key a relay works on is a subscription while it has a turn to take.
LEMMA KeyIsSubscription ==
  ASSUME TypeOK, NEW r \in Relays, turn[r] \in DOMAIN ConsumersOf[current[r]]
  PROVE  /\ Key(r) \in Subscriptions
         /\ Key(r)[2] = current[r]
BY DEF TypeOK, Key, Subscriptions

\* What every turn of a dispatch leaves behind.
LEMMA TurnType ==
  ASSUME TypeOK, NEW r \in Relays, NEW b \in BOOLEAN, EndTurn(r, b)
  PROVE  /\ rows' = rows /\ occurredAt' = occurredAt /\ aborts' = aborts
         /\ batch' = batch /\ seen' = seen /\ current' = current
         /\ pc' \in [Relays -> Positions]
         /\ turn' \in [Relays -> Nat \ {0}]
         /\ erred' \in [Relays -> BOOLEAN]
BY DEF TypeOK, EndTurn, Position, Positions

\* A finished turn moves on to the next consumer, or to the save.
LEMMA TurnAdvances ==
  ASSUME TypeOK, TurnInv, NEW r \in Relays, pc[r] \in {"find", "insert", "handler"},
         turn' = [turn EXCEPT ![r] = @ + 1],
         pc' = [pc EXCEPT ![r] = Position(current[r], turn[r] + 1)],
         current' = current
  PROVE  TurnInv'
<1> SUFFICES ASSUME NEW q \in Relays
             PROVE  TurnInv!(q)'
  BY DEF TurnInv
<1>1. ConsumersOf[current[r]] \in Seq(Consumers)
  BY DEF TypeOK
<1>2. turn[r] \in Nat \ {0} /\ turn[r] <= Len(ConsumersOf[current[r]])
  BY <1>1 DEF TypeOK, TurnInv
<1>3. CASE q = r
  BY <1>1, <1>2, <1>3 DEF Position, TypeOK, TurnInv
<1>4. CASE q # r
  BY <1>4 DEF TypeOK, TurnInv
<1> QED BY <1>3, <1>4

LEMMA TypeInductive ==
  ASSUME TypeOK, TurnInv, [Next]_vars
  PROVE  (TypeOK /\ TurnInv)'
<1>1. ASSUME NEW e \in Events, PublishWithin(e)
      PROVE  (TypeOK /\ TurnInv)'
  <2>0. PICK t \in Stamps : occurredAt' = [occurredAt EXCEPT ![e] = t]
    BY <1>1 DEF PublishWithin
  <2>a. rows' \in [Events -> [status : RowStatus, attempts : Nat]]
    BY <1>1 DEF PublishWithin, TypeOK, RowStatus
  <2>b. t \in Nat OBVIOUS
  <2>c. occurredAt' \in [Events -> Nat]
    BY <2>0, <2>b DEF TypeOK
  <2>1. TypeOK' BY <1>1, <2>a, <2>c DEF PublishWithin, TypeOK, relayVars
  <2>2. TurnInv' BY <1>1 DEF PublishWithin, TurnInv, relayVars
  <2> QED BY <2>1, <2>2
<1>2. ASSUME NEW r \in Relays, Poll(r)
      PROVE  (TypeOK /\ TurnInv)'
  BY <1>2 DEF Poll, Batches, Pending, TypeOK, TurnInv
<1>3. ASSUME NEW r \in Relays, NextMessage(r)
      PROVE  (TypeOK /\ TurnInv)'
  <2>0. PICK e \in batch[r] : /\ current' = [current EXCEPT ![r] = e]
                             /\ batch' = [batch EXCEPT ![r] = @ \ {e}]
                             /\ pc' = [pc EXCEPT ![r] = Position(e, 1)]
    BY <1>3 DEF NextMessage
  <2>a. e \in Events BY DEF TypeOK
  <2>b. batch' \in [Relays -> SUBSET Events] BY <2>0 DEF TypeOK
  <2>c. pc' \in [Relays -> Positions] BY <2>0 DEF TypeOK, Position, Positions
  <2>d. current' \in [Relays -> Events] BY <2>0, <2>a DEF TypeOK
  <2>f. UNCHANGED <<rows, occurredAt, ledger, applied, failures, seen, turn, erred, aborts>>
    BY <1>3 DEF NextMessage
  <2>1. TypeOK' BY <2>b, <2>c, <2>d, <2>f DEF TypeOK
  <2>2. ConsumersOf[e] \in Seq(Consumers) BY <2>a
  <2>3. TurnInv'
    <3> SUFFICES ASSUME NEW q \in Relays
                 PROVE  TurnInv!(q)'
      BY DEF TurnInv
    <3>1. CASE q = r
      BY <3>1, <1>3, <2>0, <2>2, <2>f DEF NextMessage, Position, TypeOK, TurnInv
    <3>2. CASE q # r
      BY <3>2, <2>0, <2>f DEF TypeOK, TurnInv
    <3> QED BY <3>1, <3>2
  <2> QED BY <2>1, <2>3
<1>4. ASSUME NEW r \in Relays, FindLedgerRow(r)
      PROVE  (TypeOK /\ TurnInv)'
  <2>1. EndTurn(r, FALSE) BY <1>4 DEF FindLedgerRow
  <2>2. TypeOK' BY <1>4, <2>1, TurnType DEF FindLedgerRow, TypeOK
  <2>3. TurnInv' BY <1>4, <2>1, TurnAdvances DEF FindLedgerRow, EndTurn
  <2> QED BY <2>2, <2>3
<1>5. ASSUME NEW r \in Relays, FindNoLedgerRow(r)
      PROVE  (TypeOK /\ TurnInv)'
  BY <1>5 DEF FindNoLedgerRow, TypeOK, TurnInv, Positions
<1>6. ASSUME NEW r \in Relays, InsertLedgerRow(r)
      PROVE  (TypeOK /\ TurnInv)'
  BY <1>6 DEF InsertLedgerRow, TypeOK, TurnInv, Positions
<1>7. ASSUME NEW r \in Relays, InsertRefused(r)
      PROVE  (TypeOK /\ TurnInv)'
  <2>1. EndTurn(r, TRUE) BY <1>7 DEF InsertRefused
  <2>0. Key(r) \in Subscriptions
    BY <1>7, KeyIsSubscription DEF InsertRefused, TurnInv
  <2>a. failures' \in [Subscriptions -> Nat]
    BY <1>7, <2>0 DEF InsertRefused, RecordFailure, TypeOK
  <2>2. TypeOK' BY <1>7, <2>a, <2>1, TurnType DEF InsertRefused, TypeOK
  <2>3. TurnInv' BY <1>7, <2>1, TurnAdvances DEF InsertRefused, EndTurn
  <2> QED BY <2>2, <2>3
<1>8. ASSUME NEW r \in Relays, HandlerCommits(r)
      PROVE  (TypeOK /\ TurnInv)'
  <2>1. EndTurn(r, FALSE) BY <1>8 DEF HandlerCommits
  <2>2. Key(r) \in Subscriptions
    BY <1>8, KeyIsSubscription DEF HandlerCommits, TurnInv
  <2>a. applied' \in [Subscriptions -> Nat] /\ ledger' \subseteq Subscriptions
    BY <1>8, <2>2 DEF HandlerCommits, TypeOK
  <2>3. TypeOK' BY <1>8, <2>1, <2>a, TurnType DEF HandlerCommits, TypeOK
  <2>4. TurnInv' BY <1>8, <2>1, TurnAdvances DEF HandlerCommits, EndTurn
  <2> QED BY <2>3, <2>4
<1>9. ASSUME NEW r \in Relays, RunOnceThrows(r)
      PROVE  (TypeOK /\ TurnInv)'
  <2>1. EndTurn(r, TRUE) BY <1>9 DEF RunOnceThrows
  <2>0. Key(r) \in Subscriptions
    BY <1>9, KeyIsSubscription DEF RunOnceThrows, TurnInv
  <2>a. failures' \in [Subscriptions -> Nat]
    BY <1>9, <2>0 DEF RunOnceThrows, RecordFailure, TypeOK
  <2>2. TypeOK' BY <1>9, <2>a, <2>1, TurnType DEF RunOnceThrows, TypeOK
  <2>3. TurnInv' BY <1>9, <2>1, TurnAdvances DEF RunOnceThrows, EndTurn
  <2> QED BY <2>2, <2>3
<1>10. ASSUME NEW r \in Relays, SaveProcessed(r)
       PROVE  (TypeOK /\ TurnInv)'
  BY <1>10 DEF SaveProcessed, SaveMessage, FreshDispatch, TypeOK, TurnInv, RowStatus, Positions
<1>11. ASSUME NEW r \in Relays, SaveFailure(r)
       PROVE  (TypeOK /\ TurnInv)'
  BY <1>11 DEF SaveFailure, SaveAttempt, SaveMessage, FreshDispatch, TypeOK, TurnInv,
               RowStatus, Positions
<1>12. ASSUME NEW r \in Relays, SaveProcessedThrows(r)
       PROVE  (TypeOK /\ TurnInv)'
  BY <1>12 DEF SaveProcessedThrows, SaveAttempt, SaveMessage, FreshDispatch, TypeOK, TurnInv,
               RowStatus, Positions
<1>13. ASSUME NEW r \in Relays, AbortBatch(r)
       PROVE  (TypeOK /\ TurnInv)'
  BY <1>13 DEF AbortBatch, FreshDispatch, TypeOK, TurnInv, Positions
<1>14. CASE UNCHANGED vars
  BY <1>14 DEF vars, relayVars, TypeOK, TurnInv
<1> QED
  BY <1>1, <1>2, <1>3, <1>4, <1>5, <1>6, <1>7, <1>8, <1>9, <1>10, <1>11, <1>12, <1>13,
     <1>14, StepCases

\* Every variable keeps its type, and a relay that takes a turn takes one that
\* exists (packages/api/src/core/events as a whole).
THEOREM TypeCorrect == Spec => [](TypeOK /\ TurnInv)
<1>1. Init => TypeOK /\ TurnInv
  BY EventsAssumption DEF Init, TypeOK, TurnInv, RowStatus, Positions
<1>2. TypeOK /\ TurnInv /\ [Next]_vars => (TypeOK /\ TurnInv)'
  BY TypeInductive
<1> QED
  BY <1>1, <1>2, PTL DEF Spec

-----------------------------------------------------------------------------
(* Exactly-once application *)

\* A row, once committed, is never removed.
LEMMA PublishedGrows ==
  ASSUME TypeOK, [Next]_vars
  PROVE  Published \subseteq Published'
<1>1. ASSUME NEW r \in Relays, NEW s \in RowStatus \ {"absent"}, NEW n, SaveMessage(r, s, n)
      PROVE  Published \subseteq Published'
  BY <1>1 DEF SaveMessage, Published, TypeOK
<1>2. ASSUME NEW e \in Events, PublishWithin(e)
      PROVE  Published \subseteq Published'
  BY <1>2 DEF PublishWithin, Published, TypeOK
<1>3. ASSUME NEW r \in Relays, SaveAttempt(r)
      PROVE  Published \subseteq Published'
  BY <1>1, <1>3 DEF SaveAttempt, RowStatus
<1>4. ASSUME NEW r \in Relays, SaveProcessed(r) \/ SaveFailure(r) \/ SaveProcessedThrows(r)
      PROVE  Published \subseteq Published'
  BY <1>1, <1>3, <1>4 DEF SaveProcessed, SaveFailure, SaveProcessedThrows, RowStatus
<1>5. CASE rows' = rows
  BY <1>5 DEF Published
<1>6. ASSUME NEW r \in Relays,
             \/ Poll(r) \/ NextMessage(r) \/ FindLedgerRow(r) \/ FindNoLedgerRow(r)
             \/ InsertLedgerRow(r) \/ InsertRefused(r) \/ HandlerCommits(r)
             \/ RunOnceThrows(r) \/ AbortBatch(r)
      PROVE  rows' = rows
  BY <1>6 DEF Poll, NextMessage, FindLedgerRow, FindNoLedgerRow, InsertLedgerRow,
              InsertRefused, HandlerCommits, RunOnceThrows, AbortBatch, EndTurn
<1> QED BY <1>2, <1>4, <1>5, <1>6, StepCases DEF vars

\* What a relay has read was committed, and nothing else ever holds its key.
LedgerStep == TypeOK /\ TurnInv /\ LedgerInv

LEMMA LedgerInductive ==
  ASSUME LedgerStep, [Next]_vars
  PROVE  LedgerInv'
<1> USE DEF LedgerStep
<1>0. Published \subseteq Published'
  BY PublishedGrows
<1>1. ASSUME NEW e \in Events, PublishWithin(e)
      PROVE  LedgerInv'
  BY <1>0, <1>1 DEF PublishWithin, LedgerInv, HasRead, Busy, Key, relayVars
<1>2. ASSUME NEW r \in Relays, Poll(r)
      PROVE  LedgerInv'
  <2>1. PICK b \in Batches : batch' = [batch EXCEPT ![r] = b]
    BY <1>2 DEF Poll
  <2>2. b \subseteq Published
    BY DEF Batches, Pending, Published
  <2>3. UNCHANGED <<rows, ledger, applied, pc, current, turn>> /\ pc[r] = "idle"
    BY <1>2 DEF Poll
  <2>4. \A q \in Relays, e \in Events : HasRead(q, e)' => e \in Published'
    BY <2>1, <2>2, <2>3, <1>0 DEF HasRead, Busy, TypeOK, LedgerInv
  <2> QED BY <2>3, <2>4, <1>0 DEF LedgerInv, Key
<1>3. ASSUME NEW r \in Relays, NextMessage(r)
      PROVE  LedgerInv'
  <2>1. PICK e \in batch[r] : /\ current' = [current EXCEPT ![r] = e]
                             /\ batch' = [batch EXCEPT ![r] = @ \ {e}]
                             /\ pc' = [pc EXCEPT ![r] = Position(e, 1)]
    BY <1>3 DEF NextMessage
  <2>2. UNCHANGED <<rows, ledger, applied, turn>>
    BY <1>3 DEF NextMessage
  <2>3. e \in Published /\ e \in Events
    BY DEF LedgerInv, HasRead, TypeOK
  <2>4. \A q \in Relays, f \in Events : HasRead(q, f)' => f \in Published'
    BY <2>1, <2>2, <2>3, <1>0 DEF HasRead, Busy, TypeOK, LedgerInv
  <2>5. \A q \in Relays : pc'[q] = "handler" => pc[q] = "handler" /\ Key(q)' = Key(q)
    BY <2>1, <2>2 DEF Position, Key, TypeOK
  <2> QED BY <2>2, <2>4, <2>5, <1>0 DEF LedgerInv
<1>4. ASSUME NEW r \in Relays,
             FindLedgerRow(r) \/ InsertRefused(r) \/ RunOnceThrows(r)
      PROVE  LedgerInv'
  <2>1. /\ UNCHANGED <<rows, ledger, applied, batch, current>>
        /\ turn' = [turn EXCEPT ![r] = @ + 1]
        /\ pc' = [pc EXCEPT ![r] = Position(current[r], turn[r] + 1)]
        /\ pc[r] # "idle"
    BY <1>4 DEF FindLedgerRow, InsertRefused, RunOnceThrows, EndTurn
  <2>2. \A q \in Relays : pc'[q] = "handler" => q # r /\ pc[q] = "handler" /\ Key(q)' = Key(q)
    BY <2>1 DEF Position, Key, TypeOK
  <2>3. \A q \in Relays, f \in Events : HasRead(q, f)' => HasRead(q, f)
    BY <2>1 DEF HasRead, Busy, TypeOK
  <2> QED BY <2>1, <2>2, <2>3, <1>0 DEF LedgerInv
<1>5. ASSUME NEW r \in Relays, FindNoLedgerRow(r)
      PROVE  LedgerInv'
  <2>1. /\ UNCHANGED <<rows, ledger, applied, batch, current, turn>>
        /\ pc' = [pc EXCEPT ![r] = "insert"] /\ pc[r] = "find"
    BY <1>5 DEF FindNoLedgerRow
  <2>2. \A q \in Relays : pc'[q] = "handler" => pc[q] = "handler" /\ Key(q)' = Key(q)
    BY <2>1 DEF Key, TypeOK
  <2>3. \A q \in Relays, f \in Events : HasRead(q, f)' => HasRead(q, f)
    BY <2>1 DEF HasRead, Busy, TypeOK
  <2> QED BY <2>1, <2>2, <2>3, <1>0 DEF LedgerInv
<1>6. ASSUME NEW r \in Relays, InsertLedgerRow(r)
      PROVE  LedgerInv'
  <2>1. /\ UNCHANGED <<rows, ledger, applied, batch, current, turn>>
        /\ pc' = [pc EXCEPT ![r] = "handler"] /\ pc[r] = "insert"
        /\ Key(r) \notin ledger
        /\ \A q \in Relays : ~(pc[q] = "handler" /\ Key(q) = Key(r))
    BY <1>6 DEF InsertLedgerRow, Holds
  <2>2. \A q \in Relays : /\ Key(q)' = Key(q)
                         /\ pc'[q] = "handler" => pc[q] = "handler" \/ q = r
    BY <2>1 DEF Key, TypeOK
  <2>3. \A q \in Relays, f \in Events : HasRead(q, f)' => HasRead(q, f)
    BY <2>1 DEF HasRead, Busy, TypeOK
  <2>4. \A q \in Relays, f \in Events : HasRead(q, f)' => f \in Published'
    BY <2>3, <1>0 DEF LedgerInv
  <2>5. \A q \in Relays : pc'[q] = "handler" => Key(q)' \notin ledger'
    BY <2>1, <2>2 DEF LedgerInv, Key
  <2>6. \A p, q \in Relays : pc'[p] = "handler" /\ pc'[q] = "handler" /\ Key(p)' = Key(q)' => p = q
    BY <2>1, <2>2 DEF LedgerInv, Key
  <2> QED BY <2>1, <2>4, <2>5, <2>6, <1>0 DEF LedgerInv
<1>7. ASSUME NEW r \in Relays, HandlerCommits(r)
      PROVE  LedgerInv'
  <2>1. /\ UNCHANGED <<rows, batch, current>>
        /\ turn' = [turn EXCEPT ![r] = @ + 1]
        /\ pc' = [pc EXCEPT ![r] = Position(current[r], turn[r] + 1)]
        /\ pc[r] = "handler"
        /\ ledger' = ledger \cup {Key(r)}
        /\ applied' = [applied EXCEPT ![Key(r)] = @ + 1]
    BY <1>7 DEF HandlerCommits, EndTurn
  <2>2. Key(r) \in Subscriptions /\ Key(r)[2] = current[r]
    BY <2>1, KeyIsSubscription DEF TurnInv
  <2>3. Key(r) \notin ledger
    BY <2>1 DEF LedgerInv
  <2>4. \A s \in Subscriptions : applied'[s] = IF s \in ledger' THEN 1 ELSE 0
    BY <2>1, <2>2, <2>3 DEF LedgerInv, TypeOK
  <2>5. \A s \in ledger' : s[2] \in Published'
    <3>1. current[r] \in Published
      BY <2>1 DEF LedgerInv, HasRead, Busy, TypeOK
    <3> QED BY <2>1, <2>2, <3>1, <1>0 DEF LedgerInv
  <2>6. \A q \in Relays : pc'[q] = "handler" => q # r /\ pc[q] = "handler" /\ Key(q)' = Key(q)
    BY <2>1 DEF Position, Key, TypeOK
  <2>7. \A q \in Relays : pc'[q] = "handler" => Key(q)' \notin ledger'
    BY <2>1, <2>6 DEF LedgerInv
  <2>9. \A p, q \in Relays : pc'[p] = "handler" /\ pc'[q] = "handler" /\ Key(p)' = Key(q)' => p = q
    BY <2>6 DEF LedgerInv
  <2>8. \A q \in Relays, f \in Events : HasRead(q, f)' => HasRead(q, f)
    BY <2>1 DEF HasRead, Busy, TypeOK
  <2>10. \A q \in Relays, f \in Events : HasRead(q, f)' => f \in Published'
    BY <2>8, <1>0 DEF LedgerInv
  <2> QED BY <2>4, <2>5, <2>7, <2>9, <2>10 DEF LedgerInv
<1>8. ASSUME NEW r \in Relays,
             SaveProcessed(r) \/ SaveFailure(r) \/ SaveProcessedThrows(r) \/ AbortBatch(r)
      PROVE  LedgerInv'
  <2>1. /\ UNCHANGED <<ledger, applied, current>>
        /\ turn' = [turn EXCEPT ![r] = 1]
        /\ pc' = [pc EXCEPT ![r] = "idle"]
        /\ batch' \in {batch, [batch EXCEPT ![r] = {}]}
    BY <1>8 DEF SaveProcessed, SaveFailure, SaveProcessedThrows, AbortBatch, SaveAttempt,
                SaveMessage, FreshDispatch
  <2>2. \A q \in Relays : pc'[q] = "handler" => q # r /\ pc[q] = "handler" /\ Key(q)' = Key(q)
    BY <2>1 DEF Key, TypeOK
  <2>3. \A q \in Relays, f \in Events : HasRead(q, f)' => HasRead(q, f)
    BY <2>1 DEF HasRead, Busy, TypeOK
  <2> QED BY <2>1, <2>2, <2>3, <1>0 DEF LedgerInv
<1>9. CASE UNCHANGED vars
  BY <1>0, <1>9 DEF vars, relayVars, LedgerInv, HasRead, Busy, Key
<1> QED
  BY <1>1, <1>2, <1>3, <1>4, <1>5, <1>6, <1>7, <1>8, <1>9, StepCases

THEOREM LedgerCorrect == Spec => []LedgerInv
<1>1. Init => LedgerInv
  BY DEF Init, LedgerInv, Published, HasRead, Busy
<1>2. TypeOK /\ TurnInv /\ LedgerInv /\ [Next]_vars => LedgerInv'
  BY LedgerInductive DEF LedgerStep
<1> QED BY <1>1, <1>2, TypeCorrect, PTL DEF Spec

\* The outbox implements OnceDelivery: whatever two processes relay, crash or
\* retry, a committed event is applied by each consumer at most once, and an
\* event that was never committed by none (runOnce, publishWithin).
THEOREM AppliesOnce == Spec => OnceSpec
<1>1. Init => Once!Init
  BY DEF Init, Once!Init, Published
<1>2. TypeOK /\ TurnInv /\ LedgerInv /\ LedgerInv' /\ [Next]_vars
        => [Once!Next]_Once!abstractVars
  <2> SUFFICES ASSUME TypeOK, TurnInv, LedgerInv, LedgerInv', [Next]_vars
               PROVE  [Once!Next]_Once!abstractVars
    OBVIOUS
  <2>0. Published \subseteq Published'
    BY PublishedGrows
  <2>1. ASSUME NEW e \in Events, PublishWithin(e)
        PROVE  Once!PublishEvent(e)
    BY <2>1 DEF PublishWithin, Once!PublishEvent, Published, TypeOK
  <2>2. ASSUME NEW r \in Relays, HandlerCommits(r)
        PROVE  \E s \in Subscriptions : Once!Apply(s)
    <3>1. Key(r) \in Subscriptions /\ Key(r)[2] = current[r]
      BY <2>2, KeyIsSubscription DEF HandlerCommits, TurnInv
    <3>2. current[r] \in Published
      BY <2>2 DEF HandlerCommits, LedgerInv, HasRead, Busy, TypeOK
    <3>3. applied[Key(r)] = 0
      BY <2>2, <3>1 DEF HandlerCommits, LedgerInv
    <3>4. rows' = rows /\ applied' = [applied EXCEPT ![Key(r)] = 1]
      BY <2>2, <3>1, <3>3 DEF HandlerCommits, EndTurn, TypeOK
    <3> QED BY <3>1, <3>2, <3>3, <3>4 DEF Once!Apply, Published
  <2>3. ASSUME NEW r \in Relays,
               \/ SaveProcessed(r) \/ SaveFailure(r) \/ SaveProcessedThrows(r)
        PROVE  UNCHANGED Once!abstractVars
    <3>1. current[r] \in Published
      BY <2>3 DEF SaveProcessed, SaveFailure, SaveProcessedThrows, LedgerInv, HasRead, Busy, TypeOK
    <3>2. \A e \in Events \ {current[r]} : rows'[e] = rows[e]
      BY <2>3 DEF SaveProcessed, SaveFailure, SaveProcessedThrows, SaveAttempt, SaveMessage, TypeOK
    <3>3. applied' = applied
      BY <2>3 DEF SaveProcessed, SaveFailure, SaveProcessedThrows, SaveAttempt, SaveMessage
    <3>4. Published' = Published
      BY <2>0, <3>1, <3>2 DEF Published
    <3> QED BY <3>3, <3>4 DEF Once!abstractVars
  <2>4. ASSUME NEW r \in Relays,
               \/ Poll(r) \/ NextMessage(r) \/ FindLedgerRow(r) \/ FindNoLedgerRow(r)
               \/ InsertLedgerRow(r) \/ InsertRefused(r) \/ RunOnceThrows(r) \/ AbortBatch(r)
        PROVE  UNCHANGED Once!abstractVars
    <3>1. rows' = rows /\ applied' = applied
      BY <2>4 DEF Poll, NextMessage, FindLedgerRow, FindNoLedgerRow, InsertLedgerRow,
                  InsertRefused, RunOnceThrows, AbortBatch, EndTurn
    <3> QED BY <3>1 DEF Once!abstractVars, Published
  <2>5. CASE UNCHANGED vars
    BY <2>5 DEF vars, Once!abstractVars, Published
  <2> QED
    BY <2>1, <2>2, <2>3, <2>4, <2>5, StepCases DEF Once!Next
<1> QED
  BY <1>1, <1>2, TypeCorrect, LedgerCorrect, PTL DEF Spec, OnceSpec, Once!Spec

-----------------------------------------------------------------------------
(* 'processed' means delivered *)

\* A subscription of the current event that is not passed is still to come,
\* and at the save none is.
LEMMA AllPassed ==
  ASSUME TypeOK, TurnInv, NEW r \in Relays, pc[r] = "settle",
         NEW s \in Subscriptions, s[2] = current[r]
  PROVE  Passed(r, s)
<1>1. PICK i \in DOMAIN ConsumersOf[current[r]] : ConsumersOf[current[r]][i] = s[1]
  BY DEF Subscriptions
<1>2. ConsumersOf[current[r]] \in Seq(Consumers)
  BY DEF TypeOK
<1>3. i < turn[r]
  BY <1>1, <1>2 DEF TurnInv
<1>4. s = Subscription(current[r], i)
  BY <1>1 DEF Subscription, Subscriptions
<1> QED BY <1>1, <1>3, <1>4 DEF Passed, Busy

\* Ending a turn passes the key of that turn and nothing else.
LEMMA PassedByTurn ==
  ASSUME TypeOK, TurnInv, NEW r \in Relays, pc[r] \in {"find", "insert", "handler"},
         turn' = [turn EXCEPT ![r] = @ + 1],
         pc' = [pc EXCEPT ![r] = Position(current[r], turn[r] + 1)],
         current' = current,
         NEW q \in Relays, NEW s, Passed(q, s)'
  PROVE  Passed(q, s) \/ (q = r /\ s = Key(r))
<1>1. PICK i \in DOMAIN ConsumersOf[current[q]] :
        i < turn'[q] /\ s = Subscription(current[q], i)
  BY DEF Passed, Subscription
<1>2. ConsumersOf[current[q]] \in Seq(Consumers) /\ i \in Nat
  BY <1>1 DEF TypeOK
<1>3. CASE q # r
  BY <1>1, <1>3 DEF Passed, Busy, TypeOK, Subscription
<1>4. CASE q = r /\ i < turn[r]
  BY <1>1, <1>4 DEF Passed, Busy, Subscription
<1>5. CASE q = r /\ i = turn[r]
  BY <1>1, <1>5 DEF Key, Subscription
<1>6. q = r => i <= turn[r]
  BY <1>1, <1>2 DEF TypeOK
<1> QED BY <1>2, <1>3, <1>4, <1>5, <1>6 DEF TypeOK

\* No other step passes a subscription.
LEMMA PassedByNoOther ==
  ASSUME TypeOK, TurnInv, NEW r \in Relays,
         \/ Poll(r) \/ NextMessage(r) \/ FindNoLedgerRow(r) \/ InsertLedgerRow(r)
         \/ SaveProcessed(r) \/ SaveFailure(r) \/ SaveProcessedThrows(r) \/ AbortBatch(r),
         NEW q \in Relays, NEW s, Passed(q, s)'
  PROVE  Passed(q, s)
<1>1. PICK i \in DOMAIN ConsumersOf[current'[q]] :
        i < turn'[q] /\ s = Subscription(current'[q], i)
  BY DEF Passed, Subscription
<1>2. i \in Nat /\ i >= 1
  <2>1. current'[q] \in Events
    <3>1. CASE current' = current BY <3>1 DEF TypeOK
    <3>2. ASSUME NextMessage(r) PROVE current'[q] \in Events
      BY <3>2 DEF NextMessage, TypeOK
    <3>3. \/ NextMessage(r) \/ current' = current
      BY DEF Poll, FindNoLedgerRow, InsertLedgerRow, SaveProcessed, SaveFailure,
             SaveProcessedThrows, AbortBatch, SaveAttempt, SaveMessage
    <3> QED BY <3>1, <3>2, <3>3
  <2>2. ConsumersOf[current'[q]] \in Seq(Consumers)
    BY <2>1
  <2> QED BY <1>1, <2>2
<1>3. CASE NextMessage(r)
  <2>1. q # r
    BY <1>1, <1>2, <1>3 DEF NextMessage, TypeOK, TurnInv
  <2>2. current'[q] = current[q] /\ pc'[q] = pc[q] /\ turn' = turn
    BY <2>1, <1>3 DEF NextMessage, TypeOK
  <2> QED BY <1>1, <2>2 DEF Passed, Busy, Subscription
<1>4. CASE Poll(r) \/ FindNoLedgerRow(r) \/ InsertLedgerRow(r)
  <2>1. current' = current /\ turn' = turn /\ (Busy(q)' => Busy(q))
    BY <1>4 DEF Poll, FindNoLedgerRow, InsertLedgerRow, Busy, TypeOK
  <2>2. Busy(q)' BY DEF Passed
  <2> QED BY <1>1, <2>1, <2>2 DEF Passed, Subscription
<1>5. CASE SaveProcessed(r) \/ SaveFailure(r) \/ SaveProcessedThrows(r) \/ AbortBatch(r)
  <2>1. /\ current' = current
        /\ turn' = [turn EXCEPT ![r] = 1]
        /\ pc' = [pc EXCEPT ![r] = "idle"]
    BY <1>5 DEF SaveProcessed, SaveFailure, SaveProcessedThrows, AbortBatch, SaveAttempt,
                SaveMessage, FreshDispatch
  <2>2. q # r
    BY <1>1, <1>2, <2>1 DEF TypeOK
  <2> QED BY <1>1, <2>1, <2>2 DEF Passed, Busy, Subscription, TypeOK
<1> QED BY <1>3, <1>4, <1>5

LEMMA LedgerGrows ==
  ASSUME [Next]_vars
  PROVE  ledger \subseteq ledger'
<1>1. ASSUME NEW r \in Relays, HandlerCommits(r) PROVE ledger \subseteq ledger'
  BY <1>1 DEF HandlerCommits
<1>2. CASE UNCHANGED vars
  BY <1>2 DEF vars
<1>3. ASSUME NEW e \in Events, PublishWithin(e) PROVE ledger' = ledger
  BY <1>3 DEF PublishWithin
<1>4. ASSUME NEW r \in Relays,
             \/ Poll(r) \/ NextMessage(r) \/ FindLedgerRow(r) \/ FindNoLedgerRow(r)
             \/ InsertLedgerRow(r) \/ InsertRefused(r) \/ RunOnceThrows(r) \/ SaveProcessed(r)
             \/ SaveFailure(r) \/ SaveProcessedThrows(r) \/ AbortBatch(r)
      PROVE  ledger' = ledger
  BY <1>4 DEF Poll, NextMessage, FindLedgerRow, FindNoLedgerRow, InsertLedgerRow, InsertRefused,
              RunOnceThrows, SaveProcessed, SaveFailure, SaveProcessedThrows, AbortBatch,
              SaveAttempt, SaveMessage
<1> QED BY <1>1, <1>2, <1>3, <1>4, StepCases

\* How a step changes the error flag of a dispatch.
LEMMA ErredByTurn ==
  ASSUME TypeOK, NEW r \in Relays, NEW q \in Relays, ~erred'[q]
  PROVE  /\ EndTurn(r, FALSE) => ~erred[q]
         /\ EndTurn(r, TRUE) => ~erred[q] /\ q # r
<1>1. ASSUME EndTurn(r, FALSE) PROVE ~erred[q]
  <2>1. erred' = [erred EXCEPT ![r] = erred[r] \/ FALSE] BY <1>1 DEF EndTurn
  <2>2. CASE q = r BY <2>1, <2>2 DEF TypeOK
  <2>3. CASE q # r BY <2>1, <2>3 DEF TypeOK
  <2> QED BY <2>2, <2>3
<1>2. ASSUME EndTurn(r, TRUE) PROVE ~erred[q] /\ q # r
  <2>1. erred' = [erred EXCEPT ![r] = erred[r] \/ TRUE] BY <1>2 DEF EndTurn
  <2>2. CASE q = r BY <2>1, <2>2 DEF TypeOK
  <2>3. CASE q # r BY <2>1, <2>3 DEF TypeOK
  <2> QED BY <2>2, <2>3
<1> QED BY <1>1, <1>2

LEMMA DeliveryInductive ==
  ASSUME TypeOK, TurnInv, DeliveryInv, [Next]_vars
  PROVE  DeliveryInv'
<1>0. ledger \subseteq ledger'
  BY LedgerGrows
\* It is enough to look at new 'processed' rows and newly passed turns.
<1> DEFINE
      RowsOK == \A e \in Events :
                  rows'[e].status = "processed" =>
                    \/ rows[e].status = "processed"
                    \/ \A s \in Subscriptions : s[2] = e => s \in ledger'
      TurnsOK == \A q \in Relays, s \in Subscriptions :
                  Passed(q, s)' /\ ~erred'[q] =>
                    \/ Passed(q, s) /\ ~erred[q]
                    \/ s \in ledger'
<1>1. RowsOK /\ TurnsOK => DeliveryInv'
  <2>1. RowsOK => ProcessedWasDelivered'
    BY <1>0 DEF DeliveryInv, ProcessedWasDelivered, Delivered
  <2>2. TurnsOK => \A r \in Relays, s \in Subscriptions : Passed(r, s)' /\ ~erred'[r] => s \in ledger'
    BY <1>0 DEF DeliveryInv
  <2> QED BY <2>1, <2>2 DEF DeliveryInv
<1>2. ASSUME NEW e \in Events, PublishWithin(e)
      PROVE  RowsOK /\ TurnsOK
  <2>1. RowsOK BY <1>2 DEF PublishWithin, TypeOK
  <2>2. TurnsOK BY <1>2 DEF PublishWithin, relayVars, Passed, Busy, Subscription
  <2> QED BY <2>1, <2>2
<1>3. ASSUME NEW r \in Relays,
             Poll(r) \/ NextMessage(r) \/ FindNoLedgerRow(r) \/ InsertLedgerRow(r)
      PROVE  RowsOK /\ TurnsOK
  <2>1. rows' = rows /\ erred' = erred
    BY <1>3 DEF Poll, NextMessage, FindNoLedgerRow, InsertLedgerRow
  <2>2. TurnsOK BY <1>3, <2>1, PassedByNoOther
  <2> QED BY <2>1, <2>2
<1>4. ASSUME NEW r \in Relays,
             FindLedgerRow(r) \/ HandlerCommits(r) \/ InsertRefused(r) \/ RunOnceThrows(r)
      PROVE  RowsOK /\ TurnsOK
  <2>1. /\ rows' = rows /\ current' = current
        /\ turn' = [turn EXCEPT ![r] = @ + 1]
        /\ pc' = [pc EXCEPT ![r] = Position(current[r], turn[r] + 1)]
        /\ pc[r] \in {"find", "insert", "handler"}
        /\ EndTurn(r, TRUE) \/ (EndTurn(r, FALSE) /\ Key(r) \in ledger')
    BY <1>4 DEF FindLedgerRow, HandlerCommits, InsertRefused, RunOnceThrows, EndTurn
  <2>2. ASSUME NEW q \in Relays, NEW s \in Subscriptions, Passed(q, s)', ~erred'[q]
        PROVE  (Passed(q, s) /\ ~erred[q]) \/ s \in ledger'
    <3>1. Passed(q, s) \/ (q = r /\ s = Key(r))
      BY <2>1, <2>2, PassedByTurn
    <3>2. CASE EndTurn(r, TRUE)
      BY <2>2, <3>1, <3>2, ErredByTurn
    <3>3. CASE EndTurn(r, FALSE) /\ Key(r) \in ledger'
      BY <2>2, <3>1, <3>3, ErredByTurn
    <3> QED BY <2>1, <3>2, <3>3
  <2> QED BY <2>1, <2>2
<1>5. ASSUME NEW r \in Relays,
             SaveProcessed(r) \/ SaveFailure(r) \/ SaveProcessedThrows(r) \/ AbortBatch(r)
      PROVE  RowsOK /\ TurnsOK
  <2>1. pc' = [pc EXCEPT ![r] = "idle"] /\ erred' = [erred EXCEPT ![r] = FALSE]
    BY <1>5 DEF SaveProcessed, SaveFailure, SaveProcessedThrows, AbortBatch, SaveAttempt,
                SaveMessage, FreshDispatch
  <2>2. ASSUME NEW q \in Relays, NEW s \in Subscriptions, Passed(q, s)', ~erred'[q]
        PROVE  Passed(q, s) /\ ~erred[q]
    <3>1. Passed(q, s) BY <1>5, <2>2, PassedByNoOther
    <3>2. q # r BY <2>1, <2>2 DEF Passed, Busy, TypeOK
    <3> QED BY <2>1, <2>2, <3>1, <3>2 DEF TypeOK
  <2>3. ASSUME NEW e \in Events, rows'[e].status = "processed", rows[e].status # "processed"
        PROVE  \A s \in Subscriptions : s[2] = e => s \in ledger'
    <3>1. CASE SaveProcessed(r)
      <4>1. pc[r] = "settle" /\ ~erred[r]
        BY <3>1 DEF SaveProcessed
      <4>2. e = current[r]
        BY <2>3, <3>1 DEF SaveProcessed, SaveMessage, TypeOK
      <4>3. ASSUME NEW s \in Subscriptions, s[2] = e
            PROVE  s \in ledger
        BY <4>1, <4>2, <4>3, AllPassed DEF DeliveryInv
      <4> QED BY <1>0, <4>3
    <3>2. CASE SaveFailure(r) \/ SaveProcessedThrows(r)
      <4>1. PICK message :
              /\ rows' = [rows EXCEPT ![current[r]] = message]
              /\ message.status # "processed"
        BY <3>2 DEF SaveFailure, SaveProcessedThrows, SaveAttempt, SaveMessage
      <4> QED BY <2>3, <4>1 DEF TypeOK
    <3>3. CASE AbortBatch(r)
      BY <2>3, <3>3 DEF AbortBatch
    <3> QED BY <1>5, <3>1, <3>2, <3>3
  <2>4. RowsOK BY <2>3
  <2>5. TurnsOK BY <2>2, Zenon
  <2> QED BY <2>4, <2>5
<1>6. CASE UNCHANGED vars
  <2>1. RowsOK BY <1>6 DEF vars
  <2>a. pc' = pc /\ turn' = turn /\ current' = current /\ erred' = erred
    BY <1>6 DEF vars, relayVars
  <2>2. TurnsOK BY <2>a DEF Passed, Busy, Subscription
  <2> QED BY <1>1, <2>1, <2>2
<1> QED
  BY <1>1, <1>2, <1>3, <1>4, <1>5, <1>6, StepCases

\* A message is marked 'processed' only once every registered consumer has
\* committed (relayPendingBatch, dispatch), for any number of relays.
THEOREM ProcessedIsDelivered == Spec => []ProcessedWasDelivered
<1>1. Init => DeliveryInv
  BY DEF Init, DeliveryInv, ProcessedWasDelivered, Passed, Busy
<1>2. TypeOK /\ TurnInv /\ DeliveryInv /\ [Next]_vars => DeliveryInv'
  BY DeliveryInductive
<1>3. DeliveryInv => ProcessedWasDelivered
  BY DEF DeliveryInv
<1> QED BY <1>1, <1>2, <1>3, TypeCorrect, PTL DEF Spec

-----------------------------------------------------------------------------
(* 'failed' means exhausted *)

LEMMA FailuresGrow ==
  ASSUME TypeOK, TurnInv, [Next]_vars, NEW s \in Subscriptions
  PROVE  failures[s] <= failures'[s]
<1>0. failures[s] \in Nat
  BY DEF TypeOK
<1>1. ASSUME NEW r \in Relays, InsertRefused(r) \/ RunOnceThrows(r)
      PROVE  failures[s] <= failures'[s]
  <2>1. RecordFailure(Key(r)) BY <1>1 DEF InsertRefused, RunOnceThrows
  <2> QED BY <1>0, <2>1 DEF RecordFailure, TypeOK
<1>2. ASSUME NEW r \in Relays,
             \/ Poll(r) \/ NextMessage(r) \/ FindLedgerRow(r) \/ FindNoLedgerRow(r)
             \/ InsertLedgerRow(r) \/ HandlerCommits(r) \/ SaveProcessed(r)
             \/ SaveFailure(r) \/ SaveProcessedThrows(r) \/ AbortBatch(r)
      PROVE  failures' = failures
  BY <1>2 DEF Poll, NextMessage, FindLedgerRow, FindNoLedgerRow, InsertLedgerRow, HandlerCommits,
              SaveProcessed, SaveFailure, SaveProcessedThrows, AbortBatch, SaveAttempt, SaveMessage
<1>3. ASSUME NEW e \in Events, PublishWithin(e) PROVE failures' = failures
  BY <1>3 DEF PublishWithin
<1>4. CASE UNCHANGED vars
  BY <1>0, <1>4 DEF vars
<1> QED BY <1>0, <1>1, <1>2, <1>3, <1>4, StepCases

\* The message objects a relay can still save are those it read before,
\* or rows it has just polled.
LEMMA ReadByStep ==
  ASSUME TypeOK, LedgerInv, [Next]_vars, NEW q \in Relays, NEW e \in Events, HasRead(q, e)'
  PROVE  \/ HasRead(q, e) /\ seen'[q][e] = seen[q][e]
         \/ rows[e].status = "pending" /\ seen'[q][e] = rows[e].attempts
<1>1. CASE UNCHANGED vars
  BY <1>1 DEF vars, relayVars, HasRead, Busy
<1>2. ASSUME NEW f \in Events, PublishWithin(f)
      PROVE  HasRead(q, e) /\ seen'[q][e] = seen[q][e]
  BY <1>2 DEF PublishWithin, relayVars, HasRead, Busy
<1>3. ASSUME NEW r \in Relays, Poll(r)
      PROVE  \/ HasRead(q, e) /\ seen'[q][e] = seen[q][e]
             \/ rows[e].status = "pending" /\ seen'[q][e] = rows[e].attempts
  <2>1. PICK b \in Batches : batch' = [batch EXCEPT ![r] = b]
    BY <1>3 DEF Poll
  <2>2. /\ pc' = pc /\ current' = current /\ pc[r] = "idle"
        /\ seen' = [seen EXCEPT ![r] =
             [f \in Events |-> IF f \in batch'[r] THEN rows[f].attempts ELSE 0]]
    BY <1>3 DEF Poll
  <2>3. CASE q = r
    <3>1. e \in b
      BY <2>1, <2>2, <2>3 DEF HasRead, Busy, TypeOK
    <3>2. rows[e].status = "pending"
      BY <3>1 DEF Batches, Pending
    <3>3. seen'[q][e] = rows[e].attempts
      BY <2>1, <2>2, <2>3, <3>1 DEF TypeOK
    <3> QED BY <3>2, <3>3
  <2>4. CASE q # r
    BY <2>1, <2>2, <2>4 DEF HasRead, Busy, TypeOK
  <2> QED BY <2>3, <2>4
<1>4. ASSUME NEW r \in Relays, NextMessage(r)
      PROVE  HasRead(q, e) /\ seen'[q][e] = seen[q][e]
  <2>1. PICK f \in batch[r] : /\ current' = [current EXCEPT ![r] = f]
                             /\ batch' = [batch EXCEPT ![r] = @ \ {f}]
                             /\ pc' = [pc EXCEPT ![r] = Position(f, 1)]
    BY <1>4 DEF NextMessage
  <2>2. seen' = seen BY <1>4 DEF NextMessage
  <2> QED BY <2>1, <2>2 DEF HasRead, Busy, TypeOK
<1>5. ASSUME NEW r \in Relays,
             \/ FindLedgerRow(r) \/ FindNoLedgerRow(r) \/ InsertLedgerRow(r) \/ InsertRefused(r)
             \/ HandlerCommits(r) \/ RunOnceThrows(r)
      PROVE  HasRead(q, e) /\ seen'[q][e] = seen[q][e]
  <2>1. /\ batch' = batch /\ current' = current /\ seen' = seen
        /\ pc[r] # "idle" /\ \E p \in Positions : pc' = [pc EXCEPT ![r] = p]
    BY <1>5 DEF FindLedgerRow, FindNoLedgerRow, InsertLedgerRow, InsertRefused, HandlerCommits,
                RunOnceThrows, EndTurn, Position, Positions
  <2> QED BY <2>1 DEF HasRead, Busy, TypeOK
<1>6. ASSUME NEW r \in Relays,
             SaveProcessed(r) \/ SaveFailure(r) \/ SaveProcessedThrows(r) \/ AbortBatch(r)
      PROVE  HasRead(q, e) /\ seen'[q][e] = seen[q][e]
  <2>1. /\ batch' \in {batch, [batch EXCEPT ![r] = {}]} /\ current' = current /\ seen' = seen
        /\ pc' = [pc EXCEPT ![r] = "idle"]
    BY <1>6 DEF SaveProcessed, SaveFailure, SaveProcessedThrows, AbortBatch, SaveAttempt,
                SaveMessage, FreshDispatch
  <2> QED BY <2>1 DEF HasRead, Busy, TypeOK
<1> QED BY <1>1, <1>2, <1>3, <1>4, <1>5, <1>6, StepCases

\* A relay that still owes a subscription after its turn saw it fail.
LEMMA PassedAtACost ==
  ASSUME TypeOK, TurnInv, AttemptsInv, [Next]_vars,
         NEW q \in Relays, NEW s \in Subscriptions \ ledger', Passed(q, s)'
  PROVE  \/ Passed(q, s) /\ seen'[q] = seen[q]
         \/ seen'[q] = seen[q] /\ seen[q][s[2]] < failures'[s]
<1>1. CASE UNCHANGED vars
  <2>1. pc' = pc /\ turn' = turn /\ current' = current /\ seen' = seen
    BY <1>1 DEF vars, relayVars
  <2> QED BY <2>1 DEF Passed, Busy, Subscription
<1>2. ASSUME NEW f \in Events, PublishWithin(f)
      PROVE  Passed(q, s) /\ seen'[q] = seen[q]
  BY <1>2 DEF PublishWithin, relayVars, Passed, Busy, Subscription
<1>3. ASSUME NEW r \in Relays,
             \/ Poll(r) \/ NextMessage(r) \/ FindNoLedgerRow(r) \/ InsertLedgerRow(r)
             \/ SaveProcessed(r) \/ SaveFailure(r) \/ SaveProcessedThrows(r) \/ AbortBatch(r)
      PROVE  Passed(q, s) /\ seen'[q] = seen[q]
  <2>1. Passed(q, s)
    BY <1>3, PassedByNoOther
  <2>2. CASE Poll(r)
    BY <2>1, <2>2 DEF Poll, Passed, Busy, TypeOK
  <2>3. CASE ~Poll(r)
    BY <1>3, <2>1, <2>3 DEF NextMessage, FindNoLedgerRow, InsertLedgerRow, SaveProcessed, SaveFailure,
                SaveProcessedThrows, AbortBatch, SaveAttempt, SaveMessage
  <2> QED BY <2>1, <2>2, <2>3
<1>4. ASSUME NEW r \in Relays,
             FindLedgerRow(r) \/ HandlerCommits(r) \/ InsertRefused(r) \/ RunOnceThrows(r)
      PROVE  \/ Passed(q, s) /\ seen'[q] = seen[q]
             \/ seen'[q] = seen[q] /\ seen[q][s[2]] < failures'[s]
  <2>1. /\ current' = current /\ seen' = seen
        /\ turn' = [turn EXCEPT ![r] = @ + 1]
        /\ pc' = [pc EXCEPT ![r] = Position(current[r], turn[r] + 1)]
        /\ pc[r] \in {"find", "insert", "handler"}
        /\ Key(r) \in ledger' \/ RecordFailure(Key(r))
    BY <1>4 DEF FindLedgerRow, HandlerCommits, InsertRefused, RunOnceThrows, EndTurn
  <2>2. Passed(q, s) \/ (q = r /\ s = Key(r))
    BY <2>1, PassedByTurn
  <2>3. CASE q = r /\ s = Key(r)
    <3>1. RecordFailure(s)
      BY <2>1, <2>3
    <3>2. s[2] = current[r] /\ s[2] \in Events
      BY <2>1, <2>3, KeyIsSubscription DEF TurnInv, TypeOK
    <3>3. HasRead(r, s[2])
      BY <2>1, <3>2 DEF HasRead, Busy
    <3>4. s \notin ledger
      BY LedgerGrows
    <3>5. seen[r][s[2]] <= failures[s] /\ seen[r][s[2]] < MaxAttempts
      BY <3>2, <3>3, <3>4 DEF AttemptsInv
    <3>6. seen[r][s[2]] \in Nat /\ failures[s] \in Nat
      BY <3>2 DEF TypeOK
    <3>7. failures'[s] = IF failures[s] < MaxAttempts THEN failures[s] + 1 ELSE failures[s]
      BY <3>1 DEF RecordFailure, TypeOK
    <3> QED BY <2>1, <2>3, <3>5, <3>6, <3>7
  <2> QED BY <2>1, <2>2, <2>3
<1> QED BY <1>1, <1>2, <1>3, <1>4, StepCases

LEMMA AttemptsInductive ==
  ASSUME TypeOK, TurnInv, LedgerInv, AttemptsInv, [Next]_vars
  PROVE  AttemptsInv'
\* What the saved rows look like: the step saved r's object or left the row.
<1> DEFINE
      Saved(e) == \E r \in Relays :
        /\ pc[r] = "settle" /\ e = current[r]
        /\ \/ rows'[e] = [status |-> "processed", attempts |-> seen[r][e]]
           \/ /\ seen[r][e] + 1 >= MaxAttempts
              /\ rows'[e] = [status |-> "failed", attempts |-> seen[r][e] + 1]
           \/ /\ seen[r][e] + 1 < MaxAttempts
              /\ rows'[e] = [status |-> "pending", attempts |-> seen[r][e] + 1]
      Committed(e) == rows'[e] = [status |-> "pending", attempts |-> 0]
<1>1. \A e \in Events : rows'[e] = rows[e] \/ Saved(e) \/ Committed(e)
  <2>1. CASE UNCHANGED vars
    BY <2>1 DEF vars
  <2>2. ASSUME NEW f \in Events, PublishWithin(f)
        PROVE  \A e \in Events : rows'[e] = rows[e] \/ Committed(e)
    BY <2>2 DEF PublishWithin, TypeOK
  <2>3. ASSUME NEW r \in Relays, SaveProcessed(r)
        PROVE  \A e \in Events : rows'[e] = rows[e] \/ Saved(e)
    BY <2>3 DEF SaveProcessed, SaveMessage, TypeOK
  <2>4. ASSUME NEW r \in Relays, SaveFailure(r) \/ SaveProcessedThrows(r)
        PROVE  \A e \in Events : rows'[e] = rows[e] \/ Saved(e)
    <3>1. pc[r] = "settle" /\ SaveAttempt(r)
      BY <2>4 DEF SaveFailure, SaveProcessedThrows
    <3>2. current[r] \in Events /\ seen[r][current[r]] \in Nat
      BY DEF TypeOK
    <3>3. \A e \in Events \ {current[r]} : rows'[e] = rows[e]
      BY <3>1 DEF SaveAttempt, SaveMessage, TypeOK
    <3>4. Saved(current[r])
      BY <3>1, <3>2 DEF SaveAttempt, SaveMessage, TypeOK
    <3> QED BY <3>3, <3>4
  <2>5. ASSUME NEW r \in Relays,
               \/ Poll(r) \/ NextMessage(r) \/ FindLedgerRow(r) \/ FindNoLedgerRow(r)
               \/ InsertLedgerRow(r) \/ InsertRefused(r) \/ HandlerCommits(r)
               \/ RunOnceThrows(r) \/ AbortBatch(r)
        PROVE  rows' = rows
    BY <2>5 DEF Poll, NextMessage, FindLedgerRow, FindNoLedgerRow, InsertLedgerRow,
                InsertRefused, HandlerCommits, RunOnceThrows, AbortBatch, EndTurn
  <2> QED BY <2>1, <2>2, <2>3, <2>4, <2>5, StepCases
<1>2. \A r \in Relays : pc[r] = "settle" => HasRead(r, current[r])
  BY DEF HasRead, Busy
<1>3. ASSUME NEW e \in Events
      PROVE  /\ rows'[e].status = "failed" => rows'[e].attempts = MaxAttempts
             /\ rows'[e].status \in {"pending", "absent"} => rows'[e].attempts < MaxAttempts
  <2>1. CASE rows'[e] = rows[e]
    BY <2>1 DEF AttemptsInv
  <2>2. CASE Saved(e)
    <3>1. PICK r \in Relays :
        /\ pc[r] = "settle" /\ e = current[r]
        /\ \/ rows'[e] = [status |-> "processed", attempts |-> seen[r][e]]
           \/ /\ seen[r][e] + 1 >= MaxAttempts
              /\ rows'[e] = [status |-> "failed", attempts |-> seen[r][e] + 1]
           \/ /\ seen[r][e] + 1 < MaxAttempts
              /\ rows'[e] = [status |-> "pending", attempts |-> seen[r][e] + 1]
      BY <2>2
    <3>2. seen[r][e] < MaxAttempts
      BY <1>2, <3>1 DEF AttemptsInv
    <3>3. seen[r][e] \in Nat
      BY DEF TypeOK
    <3>4. CASE rows'[e] = [status |-> "processed", attempts |-> seen[r][e]]
      BY <3>4
    <3>5. CASE /\ seen[r][e] + 1 >= MaxAttempts
               /\ rows'[e] = [status |-> "failed", attempts |-> seen[r][e] + 1]
      BY <3>2, <3>3, <3>5
    <3>6. CASE /\ seen[r][e] + 1 < MaxAttempts
               /\ rows'[e] = [status |-> "pending", attempts |-> seen[r][e] + 1]
      BY <3>6
    <3> QED BY <3>1, <3>4, <3>5, <3>6
  <2>3. CASE Committed(e)
    BY <2>3
  <2> QED BY <1>1, <2>1, <2>2, <2>3
<1>5. \A q \in Relays, e \in Events : HasRead(q, e)' => seen'[q][e] < MaxAttempts
  <2> SUFFICES ASSUME NEW q \in Relays, NEW e \in Events, HasRead(q, e)'
               PROVE  seen'[q][e] < MaxAttempts
    BY Zenon
  <2>1. \/ HasRead(q, e) /\ seen'[q][e] = seen[q][e]
        \/ rows[e].status = "pending" /\ seen'[q][e] = rows[e].attempts
    BY ReadByStep
  <2> QED BY <2>1 DEF AttemptsInv
<1>6. ASSUME NEW s \in Subscriptions \ ledger'
      PROVE  /\ rows'[s[2]].attempts <= failures'[s]
             /\ \A r \in Relays : HasRead(r, s[2])' => seen'[r][s[2]] <= failures'[s]
             /\ \A r \in Relays : Passed(r, s)' => seen'[r][s[2]] < failures'[s]
  <2>1. s \in Subscriptions \ ledger /\ s[2] \in Events
    BY LedgerGrows DEF Subscriptions
  <2>2. /\ failures[s] <= failures'[s]
        /\ failures[s] \in Nat /\ failures'[s] \in Nat
        /\ rows[s[2]].attempts \in Nat
        /\ \A q \in Relays : seen[q][s[2]] \in Nat
    <3>1. failures'[s] \in Nat
      BY <2>1, TypeInductive DEF TypeOK
    <3> QED BY <2>1, <3>1, FailuresGrow DEF TypeOK
  <2>3. /\ rows[s[2]].attempts <= failures[s]
        /\ \A r \in Relays : HasRead(r, s[2]) => seen[r][s[2]] <= failures[s]
        /\ \A r \in Relays : Passed(r, s) => seen[r][s[2]] < failures[s]
    BY <2>1 DEF AttemptsInv
  <2>4. rows'[s[2]].attempts <= failures'[s]
    <3>1. CASE rows'[s[2]] = rows[s[2]]
      BY <2>2, <2>3, <3>1
    <3>2. CASE Saved(s[2])
      <4>1. PICK r \in Relays :
              /\ pc[r] = "settle" /\ s[2] = current[r]
              /\ rows'[s[2]].attempts \in {seen[r][s[2]], seen[r][s[2]] + 1}
        BY <3>2
      <4>2. Passed(r, s)
        BY <2>1, <4>1, AllPassed
      <4> QED BY <2>2, <2>3, <4>1, <4>2
    <3>3. CASE Committed(s[2])
      BY <2>2, <3>3
    <3> QED BY <1>1, <2>1, <3>1, <3>2, <3>3
  <2>5. ASSUME NEW q \in Relays, HasRead(q, s[2])'
        PROVE  seen'[q][s[2]] <= failures'[s]
    <3>1. \/ HasRead(q, s[2]) /\ seen'[q][s[2]] = seen[q][s[2]]
          \/ seen'[q][s[2]] = rows[s[2]].attempts
      BY <2>1, <2>5, ReadByStep
    <3> QED BY <2>2, <2>3, <3>1
  <2>6. ASSUME NEW q \in Relays, Passed(q, s)'
        PROVE  seen'[q][s[2]] < failures'[s]
    <3>1. \/ Passed(q, s) /\ seen'[q] = seen[q]
          \/ seen'[q] = seen[q] /\ seen[q][s[2]] < failures'[s]
      BY <2>6, PassedAtACost
    <3> QED BY <2>2, <2>3, <3>1
  <2>7. \A r \in Relays : HasRead(r, s[2])' => seen'[r][s[2]] <= failures'[s]
    BY <2>5, Zenon
  <2>8. \A r \in Relays : Passed(r, s)' => seen'[r][s[2]] < failures'[s]
    BY <2>6, Zenon
  <2> QED BY <2>4, <2>7, <2>8
<1> QED BY <1>3, <1>5, <1>6, Zenon DEF AttemptsInv

\* A message is given up only after every consumer it never reached failed
\* MAX_ATTEMPTS times itself (the catch block of relayPendingBatch), for any
\* number of relays with stale message objects.
THEOREM FailedIsExhausted == Spec => []GivenUpOnlyExhausted
<1>1. Init => AttemptsInv
  BY DEF Init, AttemptsInv, HasRead, Passed, Busy, Subscriptions
<1>2. TypeOK /\ TurnInv /\ LedgerInv /\ AttemptsInv /\ [Next]_vars => AttemptsInv'
  BY AttemptsInductive
<1>3. TypeOK /\ AttemptsInv => GivenUpOnlyExhausted
  BY DEF TypeOK, AttemptsInv, GivenUpOnlyExhausted, Subscriptions
<1> QED BY <1>1, <1>2, <1>3, TypeCorrect, LedgerCorrect, PTL DEF Spec
=============================================================================
