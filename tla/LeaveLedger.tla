---------------------------- MODULE LeaveLedger -----------------------------
(***************************************************************************)
(* What the leave module promises, as if its transactions ran one at a     *)
(* time and kept no running totals: a request is accepted when every year  *)
(* it touches has days left over from the pending and approved requests,   *)
(* and is decided once.                                                    *)
(***************************************************************************)
EXTENDS Integers, FiniteSets

CONSTANTS Requests, Years, MaxDays, Entitlements

VARIABLES status,    \* of each request
          days,      \* the days each request asks of each year
          opened,    \* the years that have a balance
          entitled   \* and the days they were opened with

abstractVars == <<status, days, opened, entitled>>

Costs == [Years -> 0..MaxDays]
NoDays == [y \in Years |-> 0]

Init ==
  /\ status = [q \in Requests |-> "absent"]
  /\ days = [q \in Requests |-> NoDays]
  /\ opened = {}
  /\ entitled = NoDays

\* One element for each day of year y that a request with one of the
\* statuses asks for: as many as those requests' days together.
DaysOf(statuses, y) ==
  {u \in Requests \X (1..MaxDays) : status[u[1]] \in statuses /\ u[2] <= days[u[1]][y]}

Request(q, cost) ==
  /\ status[q] = "absent"
  /\ cost # NoDays
  /\ status' = [status EXCEPT ![q] = "pending"]
  /\ days' = [days EXCEPT ![q] = cost]
  /\ opened' = opened \cup {y \in Years : cost[y] > 0}
  /\ entitled' \in [Years -> Nat]
  /\ \A y \in Years :
       IF cost[y] = 0 \/ y \in opened THEN entitled'[y] = entitled[y] ELSE entitled'[y] \in Entitlements
  /\ \A y \in Years :
       cost[y] > 0 => Cardinality(DaysOf({"pending", "approved"}, y)) + cost[y] <= entitled'[y]

Decide(q, outcome) ==
  /\ status[q] = "pending"
  /\ status' = [status EXCEPT ![q] = outcome]
  /\ UNCHANGED <<days, opened, entitled>>

Next ==
  \E q \in Requests :
    \/ \E cost \in Costs : Request(q, cost)
    \/ \E outcome \in {"approved", "rejected", "cancelled"} : Decide(q, outcome)

Spec == Init /\ [][Next]_abstractVars
=============================================================================
