---------------------------- MODULE Recruitment -----------------------------
(***************************************************************************)
(* One hiring request, the position and the job posting that follow it,    *)
(* and the offers made to its applicants                                   *)
(* (packages/api/src/modules/recruitment: recruitment.service.ts,          *)
(* ats.service.ts, offer.service.ts, the hiringRequest.updated consumer).  *)
(*                                                                         *)
(* The request changes in one transaction; the position, which belongs to  *)
(* another aggregate, is reconciled after it, by the call and again by the *)
(* consumer of the event: read the request, write the position, read the   *)
(* request again, until they agree.  A consumer's reconciliation runs in   *)
(* one transaction, which is given no isolation here: each of its writes   *)
(* shows at once and stays when it fails, and its event is delivered       *)
(* again.                                                                  *)
(***************************************************************************)
EXTENDS Integers, Sequences, FiniteSets

CONSTANTS Sessions,      \* concurrent calls and consumers
          Applications,  \* applications to the posting
          MaxAttempts,   \* reconciliations with a check after them
          MaxChanges,    \* changes of the request's status (bound)
          MaxOffers,     \* offers made (bound)
          Leftover,      \* status of a position that already has the title
          OneCall        \* whether the calls below do not overlap or die half-way

\* What the bounds have to be.
HiringAssumption ==
  /\ MaxAttempts \in Nat
  /\ MaxChanges \in Nat
  /\ MaxOffers \in Nat
  /\ Leftover \subseteq {"absent", "open", "frozen", "filled", "closed"}
  /\ Leftover # {}
  /\ OneCall \in BOOLEAN

VARIABLES request,   \* the hiring request's status, and whether it has a position
          position,  \* the position's status
          posting,   \* the posting: none yet, down or live
          offers,    \* offers in the order they were made
          employees, \* employees hired
          events,    \* 'hiringRequest.updated' events not handled yet
          changes,   \* how often the status changed
          call       \* what each session does

vars == <<request, position, posting, offers, employees, events, changes, call>>

Statuses == {"submitted", "open", "onHold", "filled", "cancelled"}
Closed == {"filled", "cancelled"}
PositionStatuses == {"absent", "open", "frozen", "filled", "closed"}
OfferStatuses == {"draft", "sent", "accepted", "declined", "withdrawn"}
Requests == [status : Statuses, linked : BOOLEAN]
Offers == [application : Applications, status : OfferStatuses]

Idle == [op |-> "none", at |-> "idle", seen |-> [status |-> "submitted", linked |-> FALSE],
         to |-> "absent", attempt |-> 0, wrote |-> FALSE, offer |-> 0]
Calls == [op : {"none", "update", "accept", "publish", "offer", "consume"},
          at : {"idle", "read", "position", "link", "write", "again", "unpublish"},
          seen : Requests, to : Statuses \cup PositionStatuses \cup Applications,
          attempt : 0..(MaxAttempts + 1), wrote : BOOLEAN, offer : 0..MaxOffers]

TypeOK ==
  /\ request \in Requests
  /\ position \in PositionStatuses
  /\ posting \in {"none", "down", "live"}
  /\ offers \in Seq(Offers) /\ Len(offers) <= MaxOffers
  /\ employees \in 0..MaxOffers
  /\ events \in 0..(MaxChanges + MaxOffers)
  /\ changes \in 0..MaxChanges
  /\ call \in [Sessions -> Calls]

\* A position with the request's title may be left from an earlier request.
Init ==
  /\ request = [status |-> "submitted", linked |-> FALSE]
  /\ position \in Leftover
  /\ posting = "none"
  /\ offers = <<>>
  /\ employees = 0
  /\ events = 0
  /\ changes = 0
  /\ call = [s \in Sessions |-> Idle]

-----------------------------------------------------------------------------
(* Sessions *)

Doing(s, op, at) == call[s].op = op /\ call[s].at = at

\* Calls that save the request, the posting or a new offer read it first.  Those
\* on offers overlap each other freely.
OnOffers == {"offer", "accept"}
Apart(op) ==
  OneCall => \A t \in Sessions : call[t].at = "read" => {op, call[t].op} \subseteq OnOffers

Begin(s, work) ==
  /\ call[s] = Idle
  /\ Apart(work.op)
  /\ call' = [call EXCEPT ![s] = work]

End(s) == call' = [call EXCEPT ![s] = Idle]

\* A statement throws or the process dies; what was committed stays, and the
\* event of a consumer is delivered again.
Die(s) ==
  /\ call[s] # Idle
  /\ OneCall /\ call[s].op = "update" => ~call[s].wrote
  /\ End(s)
  /\ UNCHANGED <<request, position, posting, offers, employees, events, changes>>

-----------------------------------------------------------------------------
(* The request *)

Transitions(status) ==
  CASE status = "submitted" -> {"open", "cancelled"}
    [] status = "open" -> {"onHold", "filled", "cancelled"}
    [] status = "onHold" -> {"open", "cancelled"}
    [] status \in Closed -> {}

BeginUpdate(s, status) ==
  /\ status \in Transitions(request.status) \cup {request.status}
  /\ Begin(s, [Idle EXCEPT !.op = "update", !.at = "read", !.seen = request, !.to = status])
  /\ UNCHANGED <<request, position, posting, offers, employees, events, changes>>

\* The request is saved as it was read, with its new status; a call that repeats
\* the status has no event.
SaveStatus(seen, status) ==
  /\ request' = [seen EXCEPT !.status = status]
  /\ IF seen.status = status
       THEN UNCHANGED <<events, changes>>
       ELSE /\ changes < MaxChanges
            /\ events' = events + 1
            /\ changes' = changes + 1

\* Start of a reconciliation: the request is read again.
Reconciling(work, latest) ==
  [work EXCEPT !.at = "position", !.seen = latest, !.to = "absent", !.attempt = @ + 1]

CommitUpdate(s) ==
  /\ Doing(s, "update", "read")
  /\ SaveStatus(call[s].seen, call[s].to)
  /\ call' = [call EXCEPT ![s] = Reconciling(call[s], request')]
  /\ UNCHANGED <<position, posting, offers, employees>>

BeginConsume(s) ==
  /\ call[s] = Idle
  /\ events > 0
  /\ \A t \in Sessions : call[t].op # "consume"
  /\ call' = [call EXCEPT ![s] = Reconciling([Idle EXCEPT !.op = "consume"], request)]
  /\ UNCHANGED <<request, position, posting, offers, employees, events, changes>>

-----------------------------------------------------------------------------
(* The position *)

\* What reconcilePosition sets a linked position to.
Target(status) ==
  CASE status = "submitted" -> position
    [] status = "open" -> "open"
    [] status = "onHold" -> IF position = "open" THEN "frozen" ELSE position
    [] status = "filled" -> "filled"
    [] status = "cancelled" -> "closed"

ReadPosition(s) ==
  LET target == Target(call[s].seen.status) IN
  /\ call[s].at = "position"
  /\ IF call[s].seen.linked
       THEN /\ call' = [call EXCEPT ![s].at = IF target = position THEN "again" ELSE "write",
                                    ![s].to = target]
            /\ UNCHANGED position
       ELSE IF call[s].seen.status = "open"
       THEN /\ position' = IF position = "absent" THEN "open" ELSE position
            /\ call' = [call EXCEPT ![s].at = "link", ![s].to = position']
       ELSE /\ call' = [call EXCEPT ![s].at = "again"]
            /\ UNCHANGED position
  /\ UNCHANGED <<request, posting, offers, employees, events, changes>>

\* Only a request that is still open and has no position is linked.
LinkPosition(s) ==
  /\ call[s].at = "link"
  /\ IF request = [status |-> "open", linked |-> FALSE]
       THEN /\ request' = [request EXCEPT !.linked = TRUE]
            /\ call' = [call EXCEPT ![s].at = IF call[s].to = "open" THEN "again" ELSE "write",
                                    ![s].to = "open", ![s].wrote = TRUE]
       ELSE /\ call' = [call EXCEPT ![s].at = "again"]
            /\ UNCHANGED request
  /\ UNCHANGED <<position, posting, offers, employees, events, changes>>

SetPosition(s) ==
  /\ call[s].at = "write"
  /\ position' = call[s].to
  /\ call' = [call EXCEPT ![s].at = "again", ![s].wrote = TRUE]
  /\ UNCHANGED <<request, posting, offers, employees, events, changes>>

Finish(s, status) ==
  IF status \in Closed \cup {"onHold"}
    THEN /\ call' = [call EXCEPT ![s].at = "unpublish"]
         /\ UNCHANGED events
    ELSE /\ End(s)
         /\ events' = IF call[s].op = "consume" THEN events - 1 ELSE events

\* Mutant of CheckAgain: the request is not read again.
CheckAgainNever(s) ==
  /\ call[s].at = "again"
  /\ Finish(s, call[s].seen.status)
  /\ UNCHANGED <<request, position, posting, offers, employees, changes>>

\* The request is read again after each reconciliation but the last.
CheckAgain(s) ==
  /\ call[s].at = "again"
  /\ IF call[s].attempt > MaxAttempts \/ request.status = call[s].seen.status
       THEN Finish(s, call[s].seen.status)
       ELSE /\ call' = [call EXCEPT ![s] = Reconciling(call[s], request)]
            /\ UNCHANGED events
  /\ UNCHANGED <<request, position, posting, offers, employees, changes>>

UnpublishForRequest(s) ==
  /\ call[s].at = "unpublish"
  /\ posting' = IF posting = "live" THEN "down" ELSE posting
  /\ events' = IF call[s].op = "consume" THEN events - 1 ELSE events
  /\ End(s)
  /\ UNCHANGED <<request, position, offers, employees, changes>>

-----------------------------------------------------------------------------
(* The posting *)

BeginPublish(s) ==
  /\ request.status \notin Closed
  /\ Begin(s, [Idle EXCEPT !.op = "publish", !.at = "read"])
  /\ UNCHANGED <<request, position, posting, offers, employees, events, changes>>

PublishPosting(s) ==
  /\ Doing(s, "publish", "read")
  /\ posting' = "live"
  /\ End(s)
  /\ UNCHANGED <<request, position, offers, employees, events, changes>>

UnpublishPosting ==
  /\ posting = "live"
  /\ posting' = "down"
  /\ UNCHANGED <<request, position, offers, employees, events, changes, call>>

-----------------------------------------------------------------------------
(* Offers *)

Pending == {"draft", "sent"}

\* The application's own stage and outcome are not looked at.
BeginOffer(s, application) ==
  /\ posting # "none"
  /\ Len(offers) < MaxOffers
  /\ \A i \in DOMAIN offers : offers[i].application = application => offers[i].status \notin Pending
  /\ Begin(s, [Idle EXCEPT !.op = "offer", !.at = "read", !.to = application])
  /\ UNCHANGED <<request, position, posting, offers, employees, events, changes>>

CreateOffer(s) ==
  /\ Doing(s, "offer", "read")
  /\ Len(offers) < MaxOffers
  /\ offers' = Append(offers, [application |-> call[s].to, status |-> "draft"])
  /\ End(s)
  /\ UNCHANGED <<request, position, posting, employees, events, changes>>

\* Mutant of Locked: the row is read without its lock.
LockedNever(i) == FALSE

\* An acceptance in progress holds the offer's row.
Locked(i) == \E s \in Sessions : call[s].offer = i

Answer(i, from, status) ==
  /\ offers[i].status \in from
  /\ ~Locked(i)
  /\ offers' = [offers EXCEPT ![i].status = status]
  /\ UNCHANGED <<request, position, posting, employees, events, changes, call>>

SendOffer(i) == Answer(i, {"draft"}, "sent")
WithdrawOffer(i) == Answer(i, Pending, "withdrawn")
DeclineOffer(i) == Answer(i, {"sent"}, "declined")

BeginAccept(s, i) ==
  /\ offers[i].status = "sent"
  /\ ~Locked(i)
  /\ "filled" \in Transitions(request.status) \cup {request.status}
  /\ Begin(s, [Idle EXCEPT !.op = "accept", !.at = "read", !.seen = request, !.offer = i])
  /\ UNCHANGED <<request, position, posting, offers, employees, events, changes>>

\* Employee, offer, posting, request and position commit together; a request
\* without a position is linked to the one with its title.
AcceptOffer(s) ==
  /\ Doing(s, "accept", "read")
  /\ employees' = employees + 1
  /\ offers' = [offers EXCEPT ![call[s].offer].status = "accepted"]
  /\ posting' = "down"
  /\ position' = "filled"
  /\ IF call[s].seen.status = "filled"
       THEN UNCHANGED <<events, changes>>
       ELSE changes < MaxChanges /\ events' = events + 1 /\ changes' = changes + 1
  /\ request' = [status |-> "filled", linked |-> TRUE]
  /\ End(s)

-----------------------------------------------------------------------------
Step(s) ==
  \/ \E status \in Statuses : BeginUpdate(s, status)
  \/ CommitUpdate(s) \/ BeginConsume(s)
  \/ ReadPosition(s) \/ LinkPosition(s) \/ SetPosition(s) \/ CheckAgain(s)
  \/ UnpublishForRequest(s)
  \/ BeginPublish(s) \/ PublishPosting(s)
  \/ (\E application \in Applications : BeginOffer(s, application)) \/ CreateOffer(s)
  \/ (\E i \in DOMAIN offers : BeginAccept(s, i)) \/ AcceptOffer(s)
  \/ Die(s)

Next ==
  \/ \E s \in Sessions : Step(s)
  \/ UnpublishPosting
  \/ \E i \in DOMAIN offers : SendOffer(i) \/ WithdrawOffer(i) \/ DeclineOffer(i)

Spec == Init /\ [][Next]_vars

-----------------------------------------------------------------------------
(* Properties *)

Shadows(status) ==
  CASE status = "submitted" -> TRUE
    [] status = "open" -> position = "open"
    [] status = "onHold" -> position # "open"
    [] status = "filled" -> position = "filled"
    [] status = "cancelled" -> position = "closed"

\* "A slow reconciliation can never reopen a position after a newer transition":
\* when nothing is under way, no event waits and the last event was handled, the
\* linked position's status shadows the request's, and a closed request's
\* posting is off the air.
PositionFollows ==
  (events = 0 /\ \A s \in Sessions : call[s] = Idle) =>
     /\ request.linked => Shadows(request.status)
     /\ request.status \in Closed => posting # "live"

\* "Two concurrent acceptances cannot both pass the status check": whatever
\* acceptances, answers and dying calls race, there is one employee for every
\* accepted offer, and none of these is taken back.
HiresAreAcceptances ==
  employees = Cardinality({i \in DOMAIN offers : offers[i].status = "accepted"})

=============================================================================
