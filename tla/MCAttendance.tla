---------------------------- MODULE MCAttendance ----------------------------
\* Small instances of Attendance for TLC: three timesheets of which the second
\* shares a day with each of the others, and two that share a day.
EXTENDS Attendance, TLC

CONSTANTS t1, t2, t3

MCPeriodOf == (t1 :> {1}) @@ (t2 :> {1, 2}) @@ (t3 :> {2})
MCSharedPeriodOf == (t1 :> {2}) @@ (t2 :> {2, 3})

\* Sessions and entries are interchangeable.
MCSymmetry == Permutations(Sessions) \cup Permutations(Entries)
=============================================================================
