----------------------------- MODULE MCBilling ------------------------------
\* Small instances of Billing for TLC.  Invoice ids and calls are
\* interchangeable.
EXTENDS Billing, TLC

CallSymmetry == Permutations(Sessions) \cup Permutations(Invoices)
=============================================================================
