------------------------------ MODULE Workflow ------------------------------
(***************************************************************************)
(* The approval rows of core/workflow.  The other modules call it inside   *)
(* their own transaction, so its operators are parts of their actions.     *)
(***************************************************************************)
CONSTANTS Subjects   \* what an approval can be asked for

VARIABLE approval    \* status of the approval row of each subject, "none" without one

Outcomes == {"approved", "rejected", "cancelled"}

ApprovalTypeOK == approval \in [Subjects -> {"none", "pending"} \cup Outcomes]

ApprovalInit == approval = [q \in Subjects |-> "none"]

RequestApproval(q) == approval' = [approval EXCEPT ![q] = "pending"]

\* The conditional update is the guard: it finds only a row still pending,
\* and a decision that finds none throws and takes its transaction with it.
MayDecide(q) == approval[q] = "pending"

DecideApproval(q, decision) == approval' = [approval EXCEPT ![q] = decision]
=============================================================================
