------------------------------ MODULE MCOutbox ------------------------------
\* A small instance of Outbox for TLC: one event with two consumers, and one
\* that nobody subscribes to (as 'invoice.issued' in the code).
EXTENDS Outbox

CONSTANTS e1, e2, c1, c2

MCConsumersOf == [e \in {e1, e2} |-> IF e = e1 THEN <<c1, c2>> ELSE <<>>]
=============================================================================
