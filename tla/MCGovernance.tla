----------------------------- MODULE MCGovernance -----------------------------
(* Small instances of Governance.                                          *)
EXTENDS Governance, TLC

CONSTANTS u1, u2

MCUsers == {u1, u2}
UserSymmetry == Permutations(MCUsers)

Cfg(quorum, voting_period, timelock_period, deposit, snapshot_period) ==
    [owner |-> u1, psi_token |-> NONE, quorum |-> quorum, threshold |-> 5,
     voting_period |-> voting_period, timelock_period |-> timelock_period,
     proposal_deposit |-> deposit, snapshot_period |-> snapshot_period]

NoChange ==
    [owner |-> NONE, quorum |-> NONE, threshold |-> NONE, voting_period |-> NONE,
     timelock_period |-> NONE, proposal_deposit |-> NONE, snapshot_period |-> NONE]

\* Prices, shares and deposits of one poll with no messages.
StakeInit == {[Cfg(3, 1, 0, 1, 1) EXCEPT !.owner = Gov]}
StakeMessages == {}

\* Two polls, a change of the timelock, of the quorum and of the owner.
LifeInit == {Cfg(3, 1, 1, 1, 1)}
LifeMessages ==
    {EXTERNAL, [NoChange EXCEPT !.owner = Gov, !.timelock_period = 0]}

\* Two polls that run themselves, each other, a third one that does not exist, or
\* hand the contract to itself: in a circle, one after the other, in vain.
Running(id) == [poll_id |-> id]
ChainsInit == LifeInit
ChainsMessages ==
    {Running(1), Running(2), Running(3), [NoChange EXCEPT !.owner = Gov]}

\* One poll whose message fails while u1 owns the contract, or never ends.
LiveInit == {Cfg(3, 1, 1, 1, 1)}
LiveMessages == {[NoChange EXCEPT !.owner = Gov], Running(1), Running(2)}

=============================================================================
