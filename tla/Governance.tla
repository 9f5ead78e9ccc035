------------------------------ MODULE Governance ------------------------------
(***************************************************************************)
(* contracts/governance: staking of PSI for voting power, polls with       *)
(* deposits, ballots, quorum snapshots, the execution of passed polls.     *)
(*                                                                         *)
(* One action is one message handled by the contract.  A CosmWasm          *)
(* transaction is atomic: a handler that returns an error, underflows or   *)
(* divides by zero leaves no trace, so its guard is the conjunction of     *)
(* every check, every checked subtraction and every non-zero denominator,  *)
(* those of the calls it makes included.                                   *)
(*                                                                         *)
(* The PSI token (a cw20 contract, external) moves freely between users:   *)
(* it is modelled by the contract's own balance, everything else of        *)
(* Supply being outside.                                                   *)
(*                                                                         *)
(* The messages of a poll are sent by the contract.  Those it may send to  *)
(* itself to more effect than anybody are modelled: UpdateConfig, when it  *)
(* owns itself, and ExecutePollMsgs, which runs another poll.  EndPoll,    *)
(* ExecutePoll and SnapshotPoll in a poll do what the same message, sent   *)
(* by anybody right after it, does.                                        *)
(*                                                                         *)
(* Each operator named Mut_X is X's neighbour below it with a plausible    *)
(* mistake; no specification uses one.  They show that the properties      *)
(* notice such a mistake.                                                  *)
(***************************************************************************)
EXTENDS CosmMath, FiniteSets, Functions, Sequences

CONSTANTS
    Users,               \* accounts that stake, vote and deposit
    Gov,                 \* the governance contract's own address
    Tokens,              \* addresses RegisterToken may be given
    NONE,                \* Option::None, and the unset address ""
    EXTERNAL,            \* messages of a poll for other contracts
    DECIMAL_FRACTIONAL,  \* Decimal::one()
    InitConfigs,         \* the configs the contract may be instantiated with
    Messages,            \* what polls carry: updates, ExecutePollMsgs, EXTERNAL
    Amounts,             \* the amounts that users put into messages
    Supply,              \* total supply of PSI
    MaxPolls,            \* bound on the number of polls
    MaxTime              \* bound on block time, in seconds

Principals == Users \cup {Gov}

ConfigType ==
    [owner: Principals, psi_token: Tokens \cup {NONE}, quorum: Nat,
     threshold: Nat, voting_period: Nat, timelock_period: Nat,
     proposal_deposit: Nat, snapshot_period: Nat]

UpdateType ==
    [owner: Principals \cup {NONE}, quorum: Nat \cup {NONE},
     threshold: Nat \cup {NONE}, voting_period: Nat \cup {NONE},
     timelock_period: Nat \cup {NONE}, proposal_deposit: Nat \cup {NONE},
     snapshot_period: Nat \cup {NONE}]

\* YourselfMsg: the contract asks itself for the messages of a poll, existing
\* or not.
ExecutePollMsgs == [poll_id: Nat]

ASSUME NoneIsNotAValue ==
    /\ NONE \notin Nat \cup Principals \cup Tokens
    /\ NONE \notin Messages /\ EXTERNAL \notin UpdateType \cup ExecutePollMsgs
\* The accounts of a chain are finitely many at any time.
ASSUME UsersAreFinite == IsFiniteSet(Users)
ASSUME GovIsNoUser == Gov \notin Users
ASSUME DecimalAssumption == DECIMAL_FRACTIONAL \in Nat \ {0}
ASSUME AmountsAssumption == Amounts \subseteq Nat
ASSUME BoundsAssumption == Supply \in Nat /\ MaxPolls \in Nat /\ MaxTime \in Nat
\* instantiate checks quorum and threshold, and registers no token.
ASSUME InitConfigsAssumption ==
    \A c \in InitConfigs :
        /\ c \in ConfigType
        /\ c.psi_token = NONE
        /\ c.quorum <= DECIMAL_FRACTIONAL
        /\ c.threshold <= DECIMAL_FRACTIONAL
ASSUME MessagesAssumption ==
    Messages \subseteq UpdateType \cup ExecutePollMsgs \cup {EXTERNAL}

VARIABLES
    config,         \* KEY_CONFIG
    state,          \* KEY_STATE
    bank,           \* BANK: share and locks of every user
    poll,           \* POLL: the polls created so far, by id
    poll_indexer,   \* POLL_INDEXER: the keys <<status, id>>
    poll_voter,     \* POLL_VOTER: per voter, the ballots kept per poll
    tmp_poll_id,    \* TMP_POLL_ID: the poll being executed, read by reply
    psi_balance,    \* external: cw20 balance of the contract
    now             \* env.block.time in seconds

vars == <<config, state, bank, poll, poll_indexer, poll_voter, tmp_poll_id,
          psi_balance, now>>

-----------------------------------------------------------------------------
(* Types *)

ConfigUpdates == {m \in Messages : m \in UpdateType}

PollStatus == {"in_progress", "passed", "rejected", "executed", "failed"}
VoteOption == {"yes", "no"}

\* VoterInfo with the id of its poll.
Ballot == [poll: Nat, vote: VoteOption, balance: Nat]

TokenManager == [share: Nat, locked_balance: SUBSET Ballot]

\* The message list is one unit: it takes effect as a whole or not at all.
Poll == [status: PollStatus, yes_votes: Nat, no_votes: Nat, end_time: Nat,
         execute_data: Messages \cup {NONE}, deposit_amount: Nat,
         total_balance_at_end_poll: Nat \cup {NONE},
         staked_amount: Nat \cup {NONE}]

StateType == [poll_count: Nat, total_share: Nat, total_deposit: Nat]

\* Every variable has the type its storage item declares.
TypeOK ==
    /\ config \in ConfigType
    /\ state \in StateType
    /\ bank \in [Users -> TokenManager]
    /\ poll \in [1..state.poll_count -> Poll]
    /\ poll_indexer \in SUBSET (PollStatus \X Nat)
    /\ poll_voter \in [Users -> SUBSET Ballot]
    /\ tmp_poll_id \in Nat \cup {NONE}
    /\ psi_balance \in Nat
    /\ now \in Nat

-----------------------------------------------------------------------------
(* Helpers shared by the handlers *)

\* psi_balance.checked_sub(total_deposit): the stakers' part of the balance.
DepositsCovered == state.total_deposit <= psi_balance
Staked == psi_balance - state.total_deposit

\* What `amount` of staked PSI is in shares, and back, at the current price.
AmountToShare(amount) == MultiplyRatio(amount, state.total_share, Staked)
ShareToAmount(share) == MultiplyRatio(share, Staked, state.total_share)

InProgress(id) == poll[id].status = "in_progress"

\* An existing key is overwritten, a new one added.
StorePoll(id, p) ==
    poll' = [i \in DOMAIN poll \cup {id} |-> IF i = id THEN p ELSE poll[i]]

\* The status of existing polls is overwritten.
StoreStatus(ids, status) ==
    poll' = [i \in DOMAIN poll |->
                IF i \in ids THEN [poll[i] EXCEPT !.status = status] ELSE poll[i]]

\* remove_poll_indexer(from) and then store_poll_indexer(to), for each poll.
Mut_IndexKept(from, to, ids) == poll_indexer' = poll_indexer \cup ({to} \X ids)
Reindex(from, to, ids) ==
    poll_indexer' = (poll_indexer \ ({from} \X ids)) \cup ({to} \X ids)

\* A cw20 Send to the contract: a positive amount that exists outside of it.
CanSend(amount) == amount > 0 /\ psi_balance + amount <= Supply
\* A cw20 Transfer from the contract: a positive amount that it holds.
CanPay(amount) == amount > 0 /\ amount <= psi_balance

-----------------------------------------------------------------------------
(* instantiate *)

Init ==
    /\ config \in InitConfigs
    /\ state = [poll_count |-> 0, total_share |-> 0, total_deposit |-> 0]
    /\ bank = [u \in Users |-> [share |-> 0, locked_balance |-> {}]]
    /\ poll = [i \in {} |-> NONE]
    /\ poll_indexer = {}
    /\ poll_voter = [u \in Users |-> {}]
    /\ tmp_poll_id = NONE
    /\ psi_balance = 0
    /\ now = 0

-----------------------------------------------------------------------------
(* Configuration *)

\* AnyoneMsg::RegisterToken: the first caller decides.
RegisterToken(token) ==
    /\ config.psi_token = NONE
    /\ config' = [config EXCEPT !.psi_token = token]
    /\ UNCHANGED <<state, bank, poll, poll_indexer, poll_voter, tmp_poll_id,
                   psi_balance, now>>

Mut_AlwaysSet(option, default) == option
OrElse(option, default) == IF option = NONE THEN default ELSE option

\* update_config: neither quorum nor threshold is validated here.
Updated(c, u) ==
    [owner            |-> OrElse(u.owner, c.owner),
     psi_token        |-> c.psi_token,
     quorum           |-> OrElse(u.quorum, c.quorum),
     threshold        |-> OrElse(u.threshold, c.threshold),
     voting_period    |-> OrElse(u.voting_period, c.voting_period),
     timelock_period  |-> OrElse(u.timelock_period, c.timelock_period),
     proposal_deposit |-> OrElse(u.proposal_deposit, c.proposal_deposit),
     snapshot_period  |-> OrElse(u.snapshot_period, c.snapshot_period)]

\* GovernanceMsg::UpdateConfig sent by a user.
UpdateConfig(sender, update) ==
    /\ sender = config.owner
    /\ config' = Updated(config, update)
    /\ UNCHANGED <<state, bank, poll, poll_indexer, poll_voter, tmp_poll_id,
                   psi_balance, now>>

-----------------------------------------------------------------------------
(* Staking and polls: the two cw20 hooks *)

\* Shares minted for a stake.
Mut_MintRoundsUp(amount) ==
    IF Staked = 0 \/ state.total_share = 0
    THEN amount
    ELSE (amount * state.total_share + Staked - 1) \div Staked
MintedShare(amount) ==
    IF Staked = 0 \/ state.total_share = 0 THEN amount ELSE AmountToShare(amount)

StakeVotingTokens(user, amount) ==
    /\ config.psi_token # NONE
    /\ CanSend(amount)
    /\ DepositsCovered
    /\ psi_balance' = psi_balance + amount
    /\ bank' = [bank EXCEPT ![user].share = @ + MintedShare(amount)]
    /\ state' = [state EXCEPT !.total_share = @ + MintedShare(amount)]
    /\ UNCHANGED <<config, poll, poll_indexer, poll_voter, tmp_poll_id, now>>

CreatePoll(deposit_amount, execute_data) ==
    LET id == state.poll_count + 1
        end_time == now + config.voting_period
    IN  /\ id <= MaxPolls /\ end_time <= MaxTime    \* bounds of the model
        /\ config.psi_token # NONE
        /\ CanSend(deposit_amount)
        /\ deposit_amount >= config.proposal_deposit
        /\ psi_balance' = psi_balance + deposit_amount
        /\ state' = [state EXCEPT !.poll_count = id,
                                  !.total_deposit = @ + deposit_amount]
        /\ StorePoll(id, [status |-> "in_progress",
                          yes_votes |-> 0, no_votes |-> 0,
                          end_time |-> end_time,
                          execute_data |-> execute_data,
                          deposit_amount |-> deposit_amount,
                          total_balance_at_end_poll |-> NONE,
                          staked_amount |-> NONE])
        /\ poll_indexer' = poll_indexer \cup {<<"in_progress", id>>}
        /\ UNCHANGED <<config, bank, poll_voter, tmp_poll_id, now>>

-----------------------------------------------------------------------------
(* Ballots and snapshots *)

\* The block may still take ballots for the poll: until end_time inclusive.
VotingOpen(id) == InProgress(id) /\ now <= poll[id].end_time

\* load_poll_voter(..).is_ok()
Mut_VoteAgain(user, id) == FALSE
HasVoted(user, id) == \E b \in poll_voter[user] : b.poll = id

\* cast_vote takes a snapshot close to the end, if there is none yet.
SnapshotOnVote(p) ==
    IF p.end_time - now < config.snapshot_period /\ p.staked_amount = NONE
    THEN Staked
    ELSE p.staked_amount

\* The ballot key <<poll, user>> of POLL_VOTER is overwritten.
StoreVoter(user, ballot) ==
    poll_voter' = [poll_voter EXCEPT ![user] =
                      {b \in @ : b.poll # ballot.poll} \cup {ballot}]

CastVote(user, id, vote, amount) ==
    LET p == poll[id]
        ballot == [poll |-> id, vote |-> vote, balance |-> amount]
    IN  /\ id \in DOMAIN poll
        /\ VotingOpen(id)
        /\ ~HasVoted(user, id)
        /\ DepositsCovered /\ state.total_share > 0
        /\ amount <= ShareToAmount(bank[user].share)
        /\ StorePoll(id,
              [p EXCEPT !.yes_votes = IF vote = "yes" THEN @ + amount ELSE @,
                        !.no_votes = IF vote = "no" THEN @ + amount ELSE @,
                        !.staked_amount = SnapshotOnVote(p)])
        /\ bank' = [bank EXCEPT ![user].locked_balance = @ \cup {ballot}]
        /\ StoreVoter(user, ballot)
        /\ UNCHANGED <<config, state, poll_indexer, tmp_poll_id, psi_balance, now>>

\* snapshot_poll may run once, in the last snapshot_period before end_time.
MaySnapshot(p) ==
    /\ p.end_time - now <= config.snapshot_period
    /\ p.staked_amount = NONE

SnapshotPoll(id) ==
    /\ id \in DOMAIN poll
    /\ InProgress(id)
    /\ now <= poll[id].end_time      \* u64: end_time - current_time
    /\ MaySnapshot(poll[id])
    /\ DepositsCovered
    /\ StorePoll(id, [poll[id] EXCEPT !.staked_amount = Staked])
    /\ UNCHANGED <<config, state, bank, poll_indexer, poll_voter, tmp_poll_id,
                   psi_balance, now>>

-----------------------------------------------------------------------------
(* The end of a poll *)

Tallied(p) == p.yes_votes + p.no_votes

\* end_poll's (quorum, staked_weight), in the order its branches are tried.
StakedWeight(p) ==
    IF state.total_share = 0 THEN 0
    ELSE IF p.staked_amount # NONE THEN p.staked_amount ELSE Staked

Turnout(p) ==
    IF state.total_share = 0 THEN 0
    ELSE FromRatio(DECIMAL_FRACTIONAL, Tallied(p), StakedWeight(p))

\* checked_sub, and the denominator of Decimal::from_ratio.
Mut_NoShareBranchLost(p) == StakedWeight(p) > 0
WeightIsComputable(p) ==
    \/ state.total_share = 0
    \/ /\ p.staked_amount = NONE => DepositsCovered
       /\ StakedWeight(p) > 0

QuorumReached(p) == Tallied(p) # 0 /\ Turnout(p) >= config.quorum

Approved(p) ==
    /\ QuorumReached(p)
    /\ FromRatio(DECIMAL_FRACTIONAL, p.yes_votes, Tallied(p)) > config.threshold

\* The deposit goes back to the creator only when the quorum is reached.
Refund(p) == IF QuorumReached(p) THEN p.deposit_amount ELSE 0

Mut_DepositKept(p) == state.total_deposit
DepositAfter(p) == state.total_deposit - p.deposit_amount

\* The voting period has expired: at end_time, when a ballot is still taken.
MayEnd(id) == InProgress(id) /\ poll[id].end_time <= now

EndPoll(id) ==
    LET p == poll[id]
        outcome == IF Approved(p) THEN "passed" ELSE "rejected"
    IN  /\ id \in DOMAIN poll
        /\ MayEnd(id)
        /\ WeightIsComputable(p)
        /\ Refund(p) > 0 => CanPay(Refund(p))
        /\ DepositAfter(p) >= 0
        /\ psi_balance' = psi_balance - Refund(p)
        /\ state' = [state EXCEPT !.total_deposit = DepositAfter(p)]
        /\ Reindex("in_progress", outcome, {id})
        /\ StorePoll(id, [p EXCEPT !.status = outcome,
                                   !.total_balance_at_end_poll = StakedWeight(p)])
        /\ UNCHANGED <<config, bank, poll_voter, tmp_poll_id, now>>

-----------------------------------------------------------------------------
(* The execution of a passed poll *)

\* The polls that execute_poll_messages of poll `id` comes to run, one by the
\* message of the other, up to any of them.
Chains(id) ==
    {run \in UNION {[1..n -> DOMAIN poll] : n \in DOMAIN poll} :
        /\ run[1] = id
        /\ \A k \in DOMAIN run \ {1} :
              poll[run[k - 1]].execute_data = [poll_id |-> run[k]]}

LastMessage(run) == poll[run[Len(run)]].execute_data

\* execute_poll_messages, with the effect of its messages.  It looks at no
\* status: a poll that another one runs may be in progress or rejected.
ExecutePollMessages(id) ==
    \E run \in Chains(id) :
        /\ Reindex("passed", "executed", Range(run))
        /\ StoreStatus(Range(run), "executed")
        /\ \/ LastMessage(run) \in {EXTERNAL, NONE} /\ UNCHANGED config
           \/ /\ LastMessage(run) \in ConfigUpdates
              /\ config.owner = Gov
              /\ config' = Updated(config, LastMessage(run))

\* Another contract may fail, a config update does while somebody else is the
\* owner, and so does running a poll that does not exist.
MayFail(message) ==
    \/ message = EXTERNAL
    \/ message \in ConfigUpdates /\ config.owner # Gov
    \/ message \in ExecutePollMsgs /\ message.poll_id \notin DOMAIN poll

Mut_NoReply(id) == FALSE
\* reply -> fail_poll: the messages failed and took back what they did.
FailPoll(id) ==
    /\ \E run \in Chains(id) : MayFail(LastMessage(run))
    /\ Reindex("passed", "failed", {id})
    /\ StoreStatus({id}, "failed")
    /\ UNCHANGED config

Mut_NoTimelock(p) == p.end_time <= now
TimelockExpired(p) == p.end_time + config.timelock_period <= now

Executable(p) == p.execute_data # NONE /\ p.status = "passed"

\* Polls that run each other in a circle use up the gas of the transaction,
\* which leaves no trace: such a poll can be executed neither way.
ExecutePoll(id) ==
    /\ id \in DOMAIN poll
    /\ Executable(poll[id])
    /\ TimelockExpired(poll[id])
    /\ tmp_poll_id' = id
    /\ ExecutePollMessages(id) \/ FailPoll(id)
    /\ UNCHANGED <<state, bank, poll_voter, psi_balance, now>>

-----------------------------------------------------------------------------
(* Withdrawal *)

\* The locks compute_locked_balance retains, and the largest of them.
ActiveLocks(user) == {b \in bank[user].locked_balance : InProgress(b.poll)}
Mut_NothingLocked(user) == 0
LockedBalance(user) == MaxOrZero({b.balance : b \in ActiveLocks(user)})
Mut_LockRoundsUp(user) ==
    (LockedBalance(user) * state.total_share + Staked - 1) \div Staked
LockedShare(user) == AmountToShare(LockedBalance(user))

Mut_BurnNothing(user, amount) ==
    IF amount = NONE
    THEN bank[user].share - LockedShare(user)
    ELSE AmountToShare(amount)
WithdrawShare(user, amount) ==
    IF amount = NONE
    THEN bank[user].share - LockedShare(user)
    ELSE MaxOf(AmountToShare(amount), 1)

Mut_PayRoundsUp(user, amount) ==
    IF amount = NONE
    THEN ShareToAmount(WithdrawShare(user, amount)) + 1
    ELSE amount
WithdrawAmount(user, amount) ==
    IF amount = NONE THEN ShareToAmount(WithdrawShare(user, amount)) ELSE amount

\* remove_poll_voter for the polls that are over.
Mut_VotersKept(user) == poll_voter[user]
RetainedVoters(user) ==
    {b \in poll_voter[user] :
        \A l \in bank[user].locked_balance : l.poll = b.poll => InProgress(l.poll)}

Mut_ShareKept(user, share) == bank[user].share
ShareAfter(user, share) == bank[user].share - share

MayWithdraw(user, amount) ==
    LET share == WithdrawShare(user, amount)
    IN  /\ DepositsCovered /\ Staked > 0           \* checked_sub, division
        /\ amount = NONE => state.total_share > 0  \* division
        /\ share >= 0 /\ share <= state.total_share
        /\ LockedShare(user) + share <= bank[user].share
        /\ CanPay(WithdrawAmount(user, amount))

WithdrawVotingTokens(user, amount) ==
    LET share == WithdrawShare(user, amount)
        paid == WithdrawAmount(user, amount)
    IN  /\ MayWithdraw(user, amount)
        /\ psi_balance' = psi_balance - paid
        /\ state' = [state EXCEPT !.total_share = @ - share]
        /\ bank' = [bank EXCEPT ![user] =
                      [share |-> ShareAfter(user, share),
                       locked_balance |-> ActiveLocks(user)]]
        /\ poll_voter' = [poll_voter EXCEPT ![user] = RetainedVoters(user)]
        /\ UNCHANGED <<config, poll, poll_indexer, tmp_poll_id, now>>

-----------------------------------------------------------------------------
(* query_staker *)

\* What the query shows of a staker: the worth of the share, and the locks of
\* polls in progress.  It fails where withdrawals do, on uncovered deposits.
QueryStaker(user) ==
    [balance |-> IF state.total_share = 0 THEN 0 ELSE ShareToAmount(bank[user].share),
     share |-> bank[user].share,
     locked_balance |-> ActiveLocks(user)]

-----------------------------------------------------------------------------
(* Environment *)

\* PSI transferred to the contract with no message: rewards of the stakers.
TransferIn(amount) ==
    /\ CanSend(amount)
    /\ psi_balance' = psi_balance + amount
    /\ UNCHANGED <<config, state, bank, poll, poll_indexer, poll_voter,
                   tmp_poll_id, now>>

\* A block later, up to the bound of the model.
Tick ==
    /\ now < MaxTime
    /\ now' = now + 1
    /\ UNCHANGED <<config, state, bank, poll, poll_indexer, poll_voter,
                   tmp_poll_id, psi_balance>>

PollIds == 1..MaxPolls

Next ==
    \/ \E token \in Tokens : RegisterToken(token)
    \/ \E sender \in Users, update \in ConfigUpdates : UpdateConfig(sender, update)
    \/ \E user \in Users, amount \in Amounts : StakeVotingTokens(user, amount)
    \/ \E amount \in Amounts, data \in Messages \cup {NONE} : CreatePoll(amount, data)
    \/ \E user \in Users, id \in PollIds, vote \in VoteOption, amount \in Amounts :
          CastVote(user, id, vote, amount)
    \/ \E id \in PollIds : SnapshotPoll(id)
    \/ \E id \in PollIds : EndPoll(id)
    \/ \E id \in PollIds : ExecutePoll(id)
    \/ \E user \in Users, amount \in Amounts \cup {NONE} :
          WithdrawVotingTokens(user, amount)
    \/ \E amount \in Amounts : TransferIn(amount)
    \/ Tick

Spec == Init /\ [][Next]_vars

\* Time passes, and somebody ends and executes each poll: both messages are
\* open to anyone, and the creator, who gets the deposit back, sends them.
Fairness ==
    /\ WF_vars(Tick)
    /\ \A id \in PollIds : WF_vars(EndPoll(id)) /\ WF_vars(ExecutePoll(id))

FairSpec == Spec /\ Fairness

-----------------------------------------------------------------------------
(* Invariants *)

\* The shares of the users add up to total_share: no sequence of stakes and
\* withdrawals mints or loses a share (stake_voting_tokens and
\* withdraw_voting_tokens keep two storage items in step).
SharesConserved ==
    state.total_share = SumFunction([u \in Users |-> bank[u].share])

\* A poll run by the message of another one, whatever its status was.
RunByAnother(id) ==
    /\ poll[id].status = "executed"
    /\ \E i \in DOMAIN poll :
          poll[i].status = "executed" /\ poll[i].execute_data = [poll_id |-> id]

\* The polls that end_poll has not ended, and now may or never will.
Unended == {i \in DOMAIN poll : poll[i].total_balance_at_end_poll = NONE}

\* total_deposit is what the polls that end_poll has not ended have deposited:
\* each deposit is counted in by create_poll and out, at most once, by end_poll.
\* These are the polls in progress and none else, but for polls that another
\* poll ran before their end: end_poll refuses them, their deposit stays.
DepositsAccounted ==
    /\ state.total_deposit = SumFunction([i \in Unended |-> poll[i].deposit_amount])
    /\ \A i \in DOMAIN poll : InProgress(i) => i \in Unended
    /\ \A i \in Unended : InProgress(i) \/ RunByAnother(i)

\* The tallies of a poll in progress are the ballots POLL_VOTER keeps for it.
BallotsOf(id, vote) ==
    {ub \in UNION {{u} \X poll_voter[u] : u \in Users} :
        ub[2].poll = id /\ ub[2].vote = vote}
TallyMatchesVoters ==
    \A id \in DOMAIN poll : InProgress(id) =>
        /\ poll[id].yes_votes = SumFunction([ub \in BallotsOf(id, "yes") |-> ub[2].balance])
        /\ poll[id].no_votes = SumFunction([ub \in BallotsOf(id, "no") |-> ub[2].balance])

\* The two records of a ballot agree: what BANK locks for a user is what
\* POLL_VOTER holds for them, one ballot per poll, each of an existing poll
\* (or compute_locked_balance's unwrap would abort every later withdrawal).
VoterLockAgreement ==
    \A u \in Users :
        /\ poll_voter[u] = bank[u].locked_balance
        /\ \A b, c \in poll_voter[u] : b.poll = c.poll => b = c
        /\ \A b \in poll_voter[u] : b.poll \in DOMAIN poll

\* POLL_INDEXER, by which query_polls filters, has each poll under its status
\* and under no other, but for polls that another poll ran when they had not
\* passed: their old entry stays.
IndexMatchesStatus ==
    /\ \A i \in DOMAIN poll : <<poll[i].status, i>> \in poll_indexer
    /\ \A entry \in poll_indexer :
          /\ entry[2] \in DOMAIN poll
          /\ entry[1] = poll[entry[2]].status \/ RunByAnother(entry[2])

\* While anyone holds shares there is PSI behind them beyond the deposits, so
\* the price that stake, vote, withdraw and end_poll divide by is positive.
ShareBacked == state.total_share > 0 => state.total_deposit < psi_balance

\* What query_staker shows a staker to have beyond their largest lock can be
\* withdrawn, at whatever price, with whatever roundings of earlier messages:
\* the query prices the share, the withdrawal prices the amount and the lock.
Free(user) == QueryStaker(user).balance - LockedBalance(user)
ReportedIsWithdrawable ==
    DepositsCovered =>
        \A u \in Users : Free(u) > 0 => MayWithdraw(u, Free(u))

-----------------------------------------------------------------------------
(* Action properties *)

PaidOut == psi_balance - psi_balance'
BurntShare(u) == bank[u].share - bank'[u].share

\* PSI leaves the contract only as the deposit of a poll that ends, or to a
\* user who burns shares for it and gets less than one share more than those
\* shares are worth (withdraw_voting_tokens rounds the burnt shares down).
WithdrawBoundedStep ==
    PaidOut > 0 /\ state'.total_deposit = state.total_deposit =>
        \E u \in Users :
            /\ BurntShare(u) > 0
            /\ PaidOut * state.total_share < (BurntShare(u) + 1) * Staked
WithdrawBounded == [][WithdrawBoundedStep]_vars

\* A withdrawal leaves the user the stake behind each of their ballots of polls
\* in progress, up to the value of one share.
LockedStakeKeptStep ==
    \A u \in Users : BurntShare(u) > 0 =>
        \A b \in ActiveLocks(u) :
            b.balance * state.total_share < (bank'[u].share + 1) * Staked
LockedStakeKept == [][LockedStakeKeptStep]_vars

\* No stake, ballot, deposit, poll end, execution or default withdrawal lowers
\* the price of a share: what one staker does costs the others nothing.
PriceNeverFallsStep ==
    /\ state.total_share > 0
    /\ \/ state'.total_share >= state.total_share
       \/ \E u \in Users : WithdrawVotingTokens(u, NONE)
    => (psi_balance' - state'.total_deposit) * state.total_share
         >= Staked * state'.total_share
PriceNeverFalls == [][PriceNeverFallsStep]_vars

-----------------------------------------------------------------------------
(* Refinement and liveness *)

LifeOf(p) ==
    [status |-> p.status, yes |-> p.yes_votes, no |-> p.no_votes,
     end_time |-> p.end_time, snapshot |-> p.staked_amount,
     executable |-> p.execute_data # NONE]

Lifecycle == INSTANCE PollLifecycle WITH
    polls <- [i \in DOMAIN poll |-> LifeOf(poll[i])],
    timelock <- config.timelock_period

\* No poll has the contract run the messages of a poll: for such a message the
\* contract checks its sender, itself, and nothing of the poll.
NoYourself == \A i \in DOMAIN poll : poll[i].execute_data \notin ExecutePollMsgs

\* The contract implements the life of a poll, as long as NoYourself.
ImplementsLifecycle == Lifecycle!LSpec

\* end_poll aborts for a poll whose snapshot is of no stake at all while anyone
\* holds shares, and may while the deposits are not covered by the balance.
Stuck(id) ==
    \/ poll[id].staked_amount = 0 /\ state.total_share > 0
    \/ ~DepositsCovered

\* Every poll in progress ends, unless it gets stuck.
PollsEndUnlessStuck ==
    \A id \in PollIds :
        (id \in DOMAIN poll /\ InProgress(id)) ~>
            (id \in DOMAIN poll /\ (~InProgress(id) \/ Stuck(id)))

\* The messages of a poll never come to an end.
Endless(id) ==
    \A run \in Chains(id) :
        \E i \in DOMAIN poll : LastMessage(run) = [poll_id |-> i]

\* A passed poll that carries messages is executed or fails, if its timelock
\* expires within the bound on time, unless its messages never end.
PassedPollsSettle ==
    \A id \in PollIds :
        (/\ id \in DOMAIN poll /\ Executable(poll[id])
         /\ poll[id].end_time + config.timelock_period <= MaxTime) ~>
            /\ id \in DOMAIN poll
            /\ poll[id].status \in {"executed", "failed"} \/ Endless(id)

-----------------------------------------------------------------------------
(* What comments, checks and tests of the repository say, and the code does not do *)

\* "Load total share & total balance except proposal deposit amount",
\* commands.rs:529: the deposits are not the stakers' to withdraw.
DepositsHeld == DepositsCovered

=============================================================================
