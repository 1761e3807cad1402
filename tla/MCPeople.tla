------------------------------ MODULE MCPeople ------------------------------
\* Small instances of the four parts of People for TLC.
EXTENDS People, TLC

ActorSymmetry == Permutations(Sessions) \cup Permutations(Employees)
=============================================================================
