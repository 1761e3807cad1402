---------------------------- MODULE OnceDelivery ----------------------------
(***************************************************************************)
(* What the transactional outbox promises to the modules that use it,      *)
(* without relays, retries, rows or transactions: an event becomes known   *)
(* by the commit that publishes it, and from then on each subscribed       *)
(* consumer may apply it, once.                                            *)
(***************************************************************************)
EXTENDS Naturals

CONSTANTS Events, Subscriptions   \* Subscriptions: pairs <<consumer, event>>

VARIABLES published,   \* the events whose business change has committed
          applied      \* how often each subscription's writes have committed

abstractVars == <<published, applied>>

Init == /\ published = {}
        /\ applied = [s \in Subscriptions |-> 0]

PublishEvent(e) == /\ e \notin published
                   /\ published' = published \cup {e}
                   /\ UNCHANGED applied

Apply(s) == /\ s[2] \in published
            /\ applied[s] = 0
            /\ applied' = [applied EXCEPT ![s] = 1]
            /\ UNCHANGED published

Next == \/ \E e \in Events : PublishEvent(e)
        \/ \E s \in Subscriptions : Apply(s)

Spec == Init /\ [][Next]_abstractVars
=============================================================================
