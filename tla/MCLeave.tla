------------------------------ MODULE MCLeave -------------------------------
\* A small instance of Leave for TLC: requests that cross the turn of a year
\* and compete for the same days.
EXTENDS Leave

MCYears == {2025, 2026}
=============================================================================
