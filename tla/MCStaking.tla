------------------------------- MODULE MCStaking -------------------------------
(* Small instances of Staking.                                             *)
EXTENDS Staking, TLC

CONSTANTS s1, s2, o1, o2

MCStakers == {s1, s2}
MCOwners == {o1, o2}
AccountSymmetry == Permutations(MCStakers) \cup Permutations(MCOwners)

Slot(start_time, end_time, amount) ==
    [start_time |-> start_time, end_time |-> end_time, amount |-> amount]

\* A schedule with a rate that rounds, one to add that overlaps it, and one
\* without a length.
MCInitSchedules == {<<Slot(0, 3, 5)>>}
MCNewSchedules == {<<Slot(1, 3, 3)>>, <<Slot(2, 2, 1)>>}

=============================================================================
