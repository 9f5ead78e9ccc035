------------------------------- MODULE MCVesting -------------------------------
(* Small instances of Vesting.                                              *)
EXTENDS Vesting

CONSTANTS a1, a2, o1, o2, t1, t2

Slot(start_time, end_time, cliff_end_time, amount) ==
    [start_time |-> start_time, end_time |-> end_time,
     cliff_end_time |-> cliff_end_time, amount |-> amount]
Entry(address, schedules) == [address |-> address, schedules |-> schedules]
Update(owner, psi_token, genesis_time) ==
    [owner |-> owner, psi_token |-> psi_token, genesis_time |-> genesis_time]

MCInitConfigs == {[owner |-> o1, psi_token |-> t1, genesis_time |-> g] : g \in {0, 3}}
MCUpdates == {Update(o2, NONE, NONE), Update(NONE, t2, NONE), Update(NONE, NONE, 2)}

\* Schedules with the cliff at the start, between, at the end and after it.
MCRegistrations == {
    <<Entry(a1, <<Slot(1, 4, 1, 4), Slot(2, 5, 4, 5)>>),
      Entry(a2, <<Slot(1, 3, 5, 4)>>)>>,
    <<Entry(a2, <<Slot(3, 3, 3, 1)>>)>>,       \* refused, as it has no length
    <<Entry(a2, <<Slot(0, 4, 2, 6)>>), Entry(a2, <<Slot(2, 5, 5, 5)>>)>>}

=============================================================================
