------------------------------- MODULE Outbox -------------------------------
(***************************************************************************)
(* The transactional outbox of packages/api/src/core/events: services      *)
(* write a domain event in their own transaction, each API process polls   *)
(* the pending rows on a timer and dispatches them to the consumers that   *)
(* registered, and every consumer runs under an idempotency ledger.        *)
(*                                                                         *)
(* The database commits are the atomic steps.  A relay keeps the message   *)
(* objects it read when it polled, and saving one writes the status and    *)
(* attempts of that object over whatever the row holds by then.            *)
(***************************************************************************)
EXTENDS Naturals, Sequences, FiniteSets

CONSTANTS Relays,       \* API processes, each with one OutboxRelayRunner
          Events,       \* event ids
          Consumers,    \* consumer names of the ledger
          ConsumersOf,  \* event -> the sequence of consumers registered for it
          MaxAttempts,  \* MAX_ATTEMPTS
          BatchLimit,   \* relayPendingBatch(limit)
          Stamps,       \* values of occurredAt (bound)
          MaxAborts     \* crashes and rejected batches in a behaviour (bound)

ASSUME ConsumersAssumption == ConsumersOf \in [Events -> Seq(Consumers)]
ASSUME MaxAttemptsAssumption == MaxAttempts \in Nat \ {0}
ASSUME EventsAssumption == Events # {}
ASSUME BoundsAssumption == BatchLimit \in Nat /\ Stamps \subseteq Nat /\ MaxAborts \in Nat

VARIABLES rows,        \* outbox_messages, with status "absent" before the commit
          occurredAt,  \* outbox_messages.occurredAt
          ledger,      \* committed rows of processed_events
          applied,     \* committed runs of each consumer's writes (history)
          failures,    \* failed runs of each consumer, up to MaxAttempts (history)
          pc,          \* what each relay does next
          batch,       \* messages the relay has read and not started on
          seen,        \* attempts of each message object as the relay read it
          current,     \* the message object being dispatched
          turn,        \* index of the consumer whose turn it is
          erred,       \* some consumer of this dispatch failed
          aborts       \* crashes and rejected batches so far

relayVars == <<pc, batch, seen, current, turn, erred>>
vars == <<rows, occurredAt, ledger, applied, failures, relayVars, aborts>>

Subscriptions == {s \in Consumers \X Events :
                    \E i \in DOMAIN ConsumersOf[s[2]] : ConsumersOf[s[2]][i] = s[1]}

RowStatus == {"absent", "pending", "processed", "failed"}
Positions == {"idle", "find", "insert", "handler", "settle"}

TypeOK ==
  /\ rows \in [Events -> [status : RowStatus, attempts : Nat]]
  /\ occurredAt \in [Events -> Nat]
  /\ ledger \subseteq Subscriptions
  /\ applied \in [Subscriptions -> Nat]
  /\ failures \in [Subscriptions -> Nat]
  /\ pc \in [Relays -> Positions]
  /\ batch \in [Relays -> SUBSET Events]
  /\ seen \in [Relays -> [Events -> Nat]]
  /\ current \in [Relays -> Events]
  /\ turn \in [Relays -> Nat \ {0}]
  /\ erred \in [Relays -> BOOLEAN]
  /\ aborts \in Nat

Init ==
  /\ rows = [e \in Events |-> [status |-> "absent", attempts |-> 0]]
  /\ occurredAt = [e \in Events |-> 0]
  /\ ledger = {}
  /\ applied = [s \in Subscriptions |-> 0]
  /\ failures = [s \in Subscriptions |-> 0]
  /\ pc = [r \in Relays |-> "idle"]
  /\ batch = [r \in Relays |-> {}]
  /\ seen = [r \in Relays |-> [e \in Events |-> 0]]
  /\ current = [r \in Relays |-> CHOOSE e \in Events : TRUE]
  /\ turn = [r \in Relays |-> 1]
  /\ erred = [r \in Relays |-> FALSE]
  /\ aborts = 0

-----------------------------------------------------------------------------
(* Publishing *)

\* publishWithin: the row commits with the business change.  The stamp is
\* taken before the commit, by the clock of whichever process publishes, so
\* stamps need not follow the order of the commits.
PublishWithin(e) ==
  /\ rows[e].status = "absent"
  /\ rows' = [rows EXCEPT ![e] = [status |-> "pending", attempts |-> 0]]
  /\ \E t \in Stamps : occurredAt' = [occurredAt EXCEPT ![e] = t]
  /\ UNCHANGED <<ledger, applied, failures, relayVars, aborts>>

-----------------------------------------------------------------------------
(* A relay's tick: one snapshot of the pending rows, then message by message *)

\* Mutant: the query forgets the messages that have failed before.
PendingUntried == {e \in Events : rows[e].status = "pending" /\ rows[e].attempts = 0}

Pending == {e \in Events : rows[e].status = "pending"}

Older(f, e) == occurredAt[f] < occurredAt[e]

\* The snapshots the ordered, limited query may return (ties are arbitrary).
Batches ==
  {b \in SUBSET Pending :
     /\ Cardinality(b) <= BatchLimit
     /\ \A e \in b, f \in Pending \ b : ~Older(f, e)
     /\ Cardinality(b) = BatchLimit \/ b = Pending}

\* tick: the overlap guard lets one batch run per process at a time.
Poll(r) ==
  /\ pc[r] = "idle" /\ batch[r] = {}
  /\ \E b \in Batches : batch' = [batch EXCEPT ![r] = b]
  /\ seen' = [seen EXCEPT ![r] = [e \in Events |-> IF e \in batch'[r] THEN rows[e].attempts ELSE 0]]
  /\ UNCHANGED <<rows, occurredAt, ledger, applied, failures, pc, current, turn, erred, aborts>>

Position(e, i) == IF i <= Len(ConsumersOf[e]) THEN "find" ELSE "settle"

NextMessage(r) ==
  /\ pc[r] = "idle"
  /\ \E e \in batch[r] :
       /\ \A f \in batch[r] : ~Older(f, e)
       /\ current' = [current EXCEPT ![r] = e]
       /\ batch' = [batch EXCEPT ![r] = @ \ {e}]
       /\ pc' = [pc EXCEPT ![r] = Position(e, 1)]
  /\ UNCHANGED <<rows, occurredAt, ledger, applied, failures, seen, turn, erred, aborts>>

-----------------------------------------------------------------------------
(* EventBus.dispatch: one consumer after the other, each in runOnce *)

Key(r) == <<ConsumersOf[current[r]][turn[r]], current[r]>>

\* r's transaction has inserted its ledger row and not ended yet.
Holds(r, key) == pc[r] = "handler" /\ Key(r) = key

\* Mutant: only the last consumer's error reaches the relay.
EndTurnLastError(r, threw) ==
  /\ turn' = [turn EXCEPT ![r] = @ + 1]
  /\ pc' = [pc EXCEPT ![r] = Position(current[r], turn[r] + 1)]
  /\ erred' = [erred EXCEPT ![r] = threw]
  /\ UNCHANGED <<rows, occurredAt, batch, seen, current, aborts>>

\* The handler of this turn returned or threw; dispatch goes on either way.
EndTurn(r, threw) ==
  /\ turn' = [turn EXCEPT ![r] = @ + 1]
  /\ pc' = [pc EXCEPT ![r] = Position(current[r], turn[r] + 1)]
  /\ erred' = [erred EXCEPT ![r] = @ \/ threw]
  /\ UNCHANGED <<rows, occurredAt, batch, seen, current, aborts>>

RecordFailure(key) ==
  failures' = [failures EXCEPT ![key] = IF @ < MaxAttempts THEN @ + 1 ELSE @]

\* runOnce finds the ledger row of an earlier run: nothing to do.
FindLedgerRow(r) ==
  /\ pc[r] = "find" /\ Key(r) \in ledger
  /\ EndTurn(r, FALSE)
  /\ UNCHANGED <<ledger, applied, failures>>

FindNoLedgerRow(r) ==
  /\ pc[r] = "find" /\ Key(r) \notin ledger
  /\ pc' = [pc EXCEPT ![r] = "insert"]
  /\ UNCHANGED <<rows, occurredAt, ledger, applied, failures, batch, seen, current, turn,
                 erred, aborts>>

\* Mutant: the ledger has no unique index.
InsertLedgerRowAgain(r) ==
  /\ pc[r] = "insert"
  /\ pc' = [pc EXCEPT ![r] = "handler"]
  /\ UNCHANGED <<rows, occurredAt, ledger, applied, failures, batch, seen, current, turn,
                 erred, aborts>>

\* The insert waits for a transaction that holds the same unique key.
InsertLedgerRow(r) ==
  /\ pc[r] = "insert"
  /\ Key(r) \notin ledger
  /\ \A q \in Relays : ~Holds(q, Key(r))
  /\ pc' = [pc EXCEPT ![r] = "handler"]
  /\ UNCHANGED <<rows, occurredAt, ledger, applied, failures, batch, seen, current, turn,
                 erred, aborts>>

\* The transaction it waited for has committed: the unique index throws.
InsertRefused(r) ==
  /\ pc[r] = "insert"
  /\ Key(r) \in ledger
  /\ RecordFailure(Key(r))
  /\ EndTurn(r, TRUE)
  /\ UNCHANGED <<ledger, applied>>

\* The ledger row and the handler's writes commit together ...
HandlerCommits(r) ==
  /\ pc[r] = "handler"
  /\ ledger' = ledger \cup {Key(r)}
  /\ applied' = [applied EXCEPT ![Key(r)] = @ + 1]
  /\ EndTurn(r, FALSE)
  /\ UNCHANGED failures

\* ... or roll back together; a statement before the handler may fail as well.
RunOnceThrows(r) ==
  /\ pc[r] \in {"find", "insert", "handler"}
  /\ RecordFailure(Key(r))
  /\ EndTurn(r, TRUE)
  /\ UNCHANGED <<ledger, applied>>

-----------------------------------------------------------------------------
(* Saving the outcome *)

\* Mutant: the index of the next consumer starts below the first.
FreshDispatchBelow(r) ==
  /\ pc' = [pc EXCEPT ![r] = "idle"]
  /\ turn' = [turn EXCEPT ![r] = 0]
  /\ erred' = [erred EXCEPT ![r] = FALSE]

FreshDispatch(r) ==
  /\ pc' = [pc EXCEPT ![r] = "idle"]
  /\ turn' = [turn EXCEPT ![r] = 1]
  /\ erred' = [erred EXCEPT ![r] = FALSE]

SaveMessage(r, status, attempts) ==
  /\ rows' = [rows EXCEPT ![current[r]] = [status |-> status, attempts |-> attempts]]
  /\ FreshDispatch(r)
  /\ UNCHANGED <<occurredAt, ledger, applied, failures, batch, seen, current>>

SaveProcessed(r) ==
  /\ pc[r] = "settle" /\ ~erred[r]
  /\ SaveMessage(r, "processed", seen[r][current[r]])
  /\ UNCHANGED aborts

\* Mutants: one attempt too few, and an attempt that is not counted.
SaveAttemptEarly(r) ==
  LET attempts == seen[r][current[r]] + 1
  IN  SaveMessage(r, IF attempts + 1 >= MaxAttempts THEN "failed" ELSE "pending", attempts)
SaveAttemptUncounted(r) ==
  SaveMessage(r, "pending", seen[r][current[r]])

\* The catch block.
SaveAttempt(r) ==
  LET attempts == seen[r][current[r]] + 1
  IN  SaveMessage(r, IF attempts >= MaxAttempts THEN "failed" ELSE "pending", attempts)

SaveFailure(r) ==
  /\ pc[r] = "settle" /\ erred[r]
  /\ SaveAttempt(r)
  /\ UNCHANGED aborts

\* The catch block is also where a throw of the save of 'processed' ends.
SaveProcessedThrows(r) ==
  /\ pc[r] = "settle" /\ ~erred[r]
  /\ aborts < MaxAborts
  /\ aborts' = aborts + 1
  /\ SaveAttempt(r)

\* The process dies (an open transaction rolls back), or the save of the
\* catch block throws and the tick gives up the rest of its batch.
AbortBatch(r) ==
  /\ pc[r] # "idle" \/ batch[r] # {}
  /\ aborts < MaxAborts
  /\ aborts' = aborts + 1
  /\ FreshDispatch(r)
  /\ batch' = [batch EXCEPT ![r] = {}]
  /\ UNCHANGED <<rows, occurredAt, ledger, applied, failures, seen, current>>

-----------------------------------------------------------------------------
RelayStep(r) ==
  \/ Poll(r) \/ NextMessage(r)
  \/ FindLedgerRow(r) \/ FindNoLedgerRow(r)
  \/ InsertLedgerRow(r) \/ InsertRefused(r)
  \/ HandlerCommits(r) \/ RunOnceThrows(r)
  \/ SaveProcessed(r) \/ SaveFailure(r)

Next == \/ \E e \in Events : PublishWithin(e)
        \/ \E r \in Relays : RelayStep(r) \/ SaveProcessedThrows(r) \/ AbortBatch(r)

Spec == Init /\ [][Next]_vars

\* The timer of every process keeps firing and its calls return; nothing is
\* assumed of the callers that publish, of crashes, or of which outcome a
\* handler has.
FairSpec == Spec /\ \A r \in Relays : WF_vars(RelayStep(r))

-----------------------------------------------------------------------------
(* Properties *)

Delivered(e) == \A s \in Subscriptions : s[2] = e => s \in ledger

\* A row says 'processed' only after every consumer registered for the event
\* has committed its writes, whatever relays, crashes and retries interleave.
ProcessedWasDelivered ==
  \A e \in Events : rows[e].status = "processed" => Delivered(e)

\* A message is given up ('failed') only after each consumer still missing
\* had its own MAX_ATTEMPTS failed runs: neither another consumer's failures
\* nor a stale attempts count of a concurrent relay shortens its retries.
GivenUpOnlyExhausted ==
  \A s \in Subscriptions \ ledger :
    rows[s[2]].status = "failed" => failures[s] >= MaxAttempts

\* The outbox implements exactly-once application of committed events: the
\* ledger's unique key and its shared transaction against two relays that
\* dispatch the same message.
Published == {e \in Events : rows[e].status # "absent"}
Once == INSTANCE OnceDelivery WITH published <- Published
OnceSpec == Once!Spec

\* Every published event leaves 'pending': no failing message starves the
\* others behind the batch limit and no stale save revives one forever.
EverySettles ==
  \A e \in Events : rows[e].status = "pending" ~> rows[e].status \in {"processed", "failed"}

\* A published event whose consumers each fail fewer than MAX_ATTEMPTS times
\* reaches all of them in the end.
EventuallyDelivered ==
  \A e \in Events :
    (/\ <>(rows[e].status # "absent")
     /\ [](\A s \in Subscriptions : s[2] = e => failures[s] < MaxAttempts))
    => <>Delivered(e)

-----------------------------------------------------------------------------
(* The inductive invariant behind the safety properties *)

Busy(r) == pc[r] # "idle"

\* r has read e's row and may still save its object of it.
HasRead(r, e) == e \in batch[r] \/ (Busy(r) /\ e = current[r])

Subscription(e, i) == <<ConsumersOf[e][i], e>>

\* The turn of subscription s in r's dispatch is over.
Passed(r, s) ==
  /\ Busy(r)
  /\ \E i \in DOMAIN ConsumersOf[current[r]] : i < turn[r] /\ s = Subscription(current[r], i)

LedgerInv ==
  /\ \A s \in Subscriptions : applied[s] = IF s \in ledger THEN 1 ELSE 0
  /\ \A s \in ledger : s[2] \in Published
  /\ \A r \in Relays, e \in Events : HasRead(r, e) => e \in Published
  /\ \A r \in Relays : pc[r] = "handler" => Key(r) \notin ledger
  /\ \A q, r \in Relays : pc[q] = "handler" /\ pc[r] = "handler" /\ Key(q) = Key(r) => q = r

TurnInv ==
  \A r \in Relays :
    /\ pc[r] = "idle" => turn[r] = 1
    /\ pc[r] \in {"find", "insert", "handler"} => turn[r] \in DOMAIN ConsumersOf[current[r]]
    /\ pc[r] = "settle" => turn[r] = Len(ConsumersOf[current[r]]) + 1

DeliveryInv ==
  /\ ProcessedWasDelivered
  /\ \A r \in Relays, s \in Subscriptions : Passed(r, s) /\ ~erred[r] => s \in ledger

AttemptsInv ==
  /\ \A e \in Events : rows[e].status = "failed" => rows[e].attempts = MaxAttempts
  /\ \A e \in Events : rows[e].status \in {"pending", "absent"} => rows[e].attempts < MaxAttempts
  /\ \A r \in Relays, e \in Events : HasRead(r, e) => seen[r][e] < MaxAttempts
  /\ \A s \in Subscriptions \ ledger :
       /\ rows[s[2]].attempts <= failures[s]
       /\ \A r \in Relays : HasRead(r, s[2]) => seen[r][s[2]] <= failures[s]
       /\ \A r \in Relays : Passed(r, s) => seen[r][s[2]] < failures[s]
=============================================================================
