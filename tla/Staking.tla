-------------------------------- MODULE Staking --------------------------------
(***************************************************************************)
(* contracts/staking: LP tokens are bonded, and the PSI of the schedules   *)
(* is distributed over time among the bonded ones through a global reward  *)
(* index.                                                                  *)
(*                                                                         *)
(* One action is one message, atomic as in Governance.tla; auto_stake,     *)
(* the calls it makes and its hook are one message too.  A StakerInfo that *)
(* is removed reads as one of zeros, so `reward` is total.                 *)
(*                                                                         *)
(* The last six variables are history: no action depends on them.        *)
(* Mut_X is X with a plausible mistake, as in Governance.tla.              *)
(***************************************************************************)
EXTENDS CosmMath, FiniteSets, Sequences, Functions

CONSTANTS
    Stakers,             \* accounts that bond
    Owners,              \* accounts that may own the contract
    Self,                \* the contract's own address
    DECIMAL_FRACTIONAL,  \* Decimal::one()
    InitSchedules,       \* the schedule lists the contract may start with
    NewSchedules,        \* the schedule lists an owner may add
    Amounts,             \* LP amounts in messages
    Supply,              \* total supply of the LP token
    Funds,               \* PSI the contract is given for its stakers
    MaxSchedules,        \* bound on the length of the schedule list
    MaxTime              \* bound on block time, in seconds

Schedule == [start_time: Nat, end_time: Nat, amount: Nat]

ASSUME SelfIsApart == Self \notin Stakers \cup Owners
ASSUME StakersAreFinite == IsFiniteSet(Stakers)
ASSUME DecimalAssumption == DECIMAL_FRACTIONAL \in Nat \ {0}
ASSUME AmountsAssumption == Amounts \subseteq Nat
ASSUME BoundsAssumption ==
    Supply \in Nat /\ Funds \in Nat /\ MaxSchedules \in Nat /\ MaxTime \in Nat
\* Block time is in seconds, and Decimal::one() is 10^18.
ASSUME TimeAssumption == MaxTime <= DECIMAL_FRACTIONAL
ASSUME SchedulesAssumption == InitSchedules \cup NewSchedules \subseteq Seq(Schedule)

VARIABLES
    config,        \* KEY_CONFIG: the owner and the schedules
    state,         \* KEY_STATE
    reward,        \* PREFIX_REWARD: the StakerInfo of every staker
    lp_balance,    \* external: LP tokens of the contract
    psi_balance,   \* external: PSI of the contract
    now,           \* env.block.time in seconds
    distributed,   \* history: PSI that went into the reward index
    scheduled,     \* history: PSI of all schedules ever given
    sent,          \* history: PSI sent away by migrations
    recut,         \* history: how often a schedule cut off now was cut off again
    settled,       \* history: how often a reward was rounded
    sound          \* history: every schedule given has a length

history == <<distributed, scheduled, sent, recut, settled, sound>>
vars == <<config, state, reward, lp_balance, psi_balance, now, history>>

AmountIn(list) == SumFunction([k \in DOMAIN list |-> list[k].amount])

StakerInfo == [reward_index: Nat, bond_amount: Nat, pending_reward: Nat]
NoInfo == [reward_index |-> 0, bond_amount |-> 0, pending_reward |-> 0]

\* Every variable has the type its storage item declares.
TypeOK ==
    /\ config \in [owner: Owners, distribution_schedule: Seq(Schedule)]
    /\ state \in [last_distributed: Nat, total_bond_amount: Nat, global_reward_index: Nat]
    /\ reward \in [Stakers -> StakerInfo]
    /\ lp_balance \in Nat /\ psi_balance \in Nat /\ now \in Nat
    /\ distributed \in Nat /\ scheduled \in Nat /\ sent \in Nat /\ recut \in Nat /\ settled \in Nat
    /\ sound \in BOOLEAN

-----------------------------------------------------------------------------
(* compute_reward *)

\* What a schedule releases per second, and in `time` seconds.
Rate(s) == FromRatio(DECIMAL_FRACTIONAL, s.amount, s.end_time - s.start_time)
Released(s, time) == TimesDecimal(DECIMAL_FRACTIONAL, time, Rate(s))

Mut_FromStart(s) == MinOf(s.end_time, now) - s.start_time
PassedTime(s) == MinOf(s.end_time, now) - MaxOf(s.start_time, state.last_distributed)

\* Time in which nothing is bonded distributes nothing.
Distributing == state.last_distributed < now /\ state.total_bond_amount > 0

Mut_EndedToo(s) == s.start_time <= now
Due(s) == s.start_time <= now /\ s.end_time >= state.last_distributed

\* The contract checks no schedule it is given.  One that ends when it starts,
\* or before, makes compute_reward divide by zero or underflow once it is due,
\* and it stays due as long as anything is bonded, as last_distributed stays.
HasLength(s) == s.start_time < s.end_time
SoundList(list) == \A k \in DOMAIN list : HasLength(list[k])
RewardIsComputable ==
    Distributing =>
        \A k \in DOMAIN config.distribution_schedule :
            Due(config.distribution_schedule[k]) => HasLength(config.distribution_schedule[k])

\* What compute_reward adds to the index now.
NewlyDistributed ==
    IF Distributing
    THEN SumFunction([k \in DOMAIN config.distribution_schedule |->
                         LET s == config.distribution_schedule[k]
                         IN  IF Due(s) THEN Released(s, PassedTime(s)) ELSE 0])
    ELSE 0

NewIndex ==
    IF Distributing
    THEN state.global_reward_index
           + FromRatio(DECIMAL_FRACTIONAL, NewlyDistributed, state.total_bond_amount)
    ELSE state.global_reward_index

\* The state compute_reward leaves, with `bond` in total.
Computed(bond) ==
    /\ RewardIsComputable
    /\ state' = [last_distributed |-> MaxOf(state.last_distributed, now),
                 total_bond_amount |-> bond,
                 global_reward_index |-> NewIndex]
    /\ distributed' = distributed + NewlyDistributed

-----------------------------------------------------------------------------
(* compute_staker_reward *)

\* The reward of a bond since it was last settled: a difference of roundings.
RewardOf(info, index) ==
    TimesDecimal(DECIMAL_FRACTIONAL, info.bond_amount, index)
      - TimesDecimal(DECIMAL_FRACTIONAL, info.bond_amount, info.reward_index)

Settle(info) ==
    [reward_index   |-> NewIndex,
     bond_amount    |-> info.bond_amount,
     pending_reward |-> info.pending_reward + RewardOf(info, NewIndex)]

\* query_staker_info at the current time: what settling now comes to.
QueryStakerInfo(user) == Settle(reward[user])

\* checked_sub in compute_staker_reward.
MaySettle(user) == RewardIsComputable /\ RewardOf(reward[user], NewIndex) >= 0

\* The history of its roundings.
Settled(user) ==
    /\ MaySettle(user)
    /\ settled' = IF reward[user].bond_amount > 0 /\ reward[user].reward_index # NewIndex
                  THEN settled + 1 ELSE settled

-----------------------------------------------------------------------------
(* bond, unbond, withdraw *)

Mut_BondFirst(info, amount) == Settle([info EXCEPT !.bond_amount = @ + amount])
Increased(info, amount) == [Settle(info) EXCEPT !.bond_amount = @ + amount]

TotalIncreased(amount) == state.total_bond_amount + amount

BondFor(user, amount) ==
    /\ Computed(TotalIncreased(amount))
    /\ Settled(user)
    /\ reward' = [reward EXCEPT ![user] = Increased(@, amount)]

\* A cw20 Send of LP tokens to the contract.
CanSend(amount) == amount > 0 /\ lp_balance + amount <= Supply

Bond(user, amount) ==
    /\ CanSend(amount)
    /\ lp_balance' = lp_balance + amount
    /\ BondFor(user, amount)
    /\ UNCHANGED <<config, psi_balance, now, scheduled, sent, recut, sound>>

\* remove_staker_info, or store_staker_info.
Mut_DropPending(info) == IF info.bond_amount = 0 THEN NoInfo ELSE info
Stored(info) ==
    IF info.pending_reward = 0 /\ info.bond_amount = 0 THEN NoInfo ELSE info

MayUnbond(user, amount) ==
    /\ MaySettle(user)
    /\ amount <= reward[user].bond_amount /\ amount <= state.total_bond_amount
    /\ amount > 0 /\ amount <= lp_balance      \* cw20 Transfer

Unbond(user, amount) ==
    /\ MayUnbond(user, amount)
    /\ Computed(state.total_bond_amount - amount)
    /\ Settled(user)
    /\ reward' = [reward EXCEPT
                    ![user] = Stored([Settle(reward[user]) EXCEPT !.bond_amount = @ - amount])]
    /\ lp_balance' = lp_balance - amount
    /\ UNCHANGED <<config, psi_balance, now, scheduled, sent, recut, sound>>

Withdraw(user) ==
    LET info == QueryStakerInfo(user)
        amount == info.pending_reward
    IN  /\ Computed(state.total_bond_amount)
        /\ Settled(user)
        /\ amount > 0 /\ amount <= psi_balance    \* cw20 Transfer
        /\ reward' = [reward EXCEPT ![user] = Stored([info EXCEPT !.pending_reward = 0])]
        /\ psi_balance' = psi_balance - amount
        /\ UNCHANGED <<config, lp_balance, now, scheduled, sent, recut, sound>>

\* What the hook is called with: auto_stake passes on the LP balance it read
\* before the pair minted `minted` tokens; anybody else passes what they like.
AutoStake(sender, prev, minted) ==
    IF sender = Self THEN prev = lp_balance /\ CanSend(minted) ELSE minted = 0

Mut_AnySender(sender) == TRUE
HookAllowed(sender) == sender = Self

AutoStakeHook(sender, user, prev, minted) ==
    /\ AutoStake(sender, prev, minted)
    /\ HookAllowed(sender)
    /\ prev <= lp_balance + minted
    /\ lp_balance' = lp_balance + minted
    /\ BondFor(user, lp_balance + minted - prev)
    /\ UNCHANGED <<config, psi_balance, now, scheduled, sent, recut, sound>>

-----------------------------------------------------------------------------
(* The owner's messages *)

AddSchedules(sender, list) ==
    /\ sender = config.owner
    /\ Len(config.distribution_schedule \o list) <= MaxSchedules   \* bound of the model
    /\ \A k \in DOMAIN list : list[k].start_time >= now
    /\ config' = [config EXCEPT !.distribution_schedule = @ \o list]
    /\ scheduled' = scheduled + AmountIn(list)
    /\ sound' = (sound /\ SoundList(list))
    /\ UNCHANGED <<state, reward, lp_balance, psi_balance, now, distributed, sent, recut, settled>>

UpdateOwner(sender, owner) ==
    /\ sender = config.owner
    /\ config' = [config EXCEPT !.owner = owner]
    /\ UNCHANGED <<state, reward, lp_balance, psi_balance, now, history>>

\* A schedule of which nothing is left to distribute after now.
CutOff(s) ==
    IF s.end_time < now
    THEN s
    ELSE [s EXCEPT !.end_time = now, !.amount = Released(s, now - s.start_time)]

\* The schedules that have started: those that start now would be cut to nothing.
Mut_StartingNow ==
    Filtered(config.distribution_schedule,
             {k \in DOMAIN config.distribution_schedule :
                config.distribution_schedule[k].start_time <= now})
Started ==
    Filtered(config.distribution_schedule,
             {k \in DOMAIN config.distribution_schedule :
                config.distribution_schedule[k].start_time < now})

Cut == [k \in DOMAIN Started |-> CutOff(Started[k])]
Remaining == AmountIn(config.distribution_schedule) - AmountIn(Cut)

MigrateStaking(sender) ==
    /\ sender = config.owner
    /\ Computed(state.total_bond_amount)
    /\ \A k \in DOMAIN Started :                   \* u64, Decimal::from_ratio
          Started[k].end_time < now \/ HasLength(Started[k])
    /\ Remaining > 0 /\ Remaining <= psi_balance    \* checked_sub, cw20 Transfer
    /\ config' = [config EXCEPT !.distribution_schedule = Cut]
    /\ psi_balance' = psi_balance - Remaining
    /\ sent' = sent + Remaining
    /\ recut' = recut + Cardinality({k \in DOMAIN Started : Started[k].end_time = now})
    /\ UNCHANGED <<reward, lp_balance, now, scheduled, settled, sound>>

-----------------------------------------------------------------------------
(* Environment *)

\* LP tokens transferred to the contract with no message.
TransferLp(amount) ==
    /\ CanSend(amount)
    /\ lp_balance' = lp_balance + amount
    /\ UNCHANGED <<config, state, reward, psi_balance, now, history>>

Tick ==
    /\ now < MaxTime
    /\ now' = now + 1
    /\ UNCHANGED <<config, state, reward, lp_balance, psi_balance, history>>

Init ==
    /\ config \in [owner: Owners, distribution_schedule: InitSchedules]
    /\ now = 0
    /\ state = [last_distributed |-> now, total_bond_amount |-> 0, global_reward_index |-> 0]
    /\ reward = [u \in Stakers |-> NoInfo]
    /\ lp_balance = 0
    /\ psi_balance = Funds
    /\ distributed = 0 /\ sent = 0 /\ recut = 0 /\ settled = 0
    /\ scheduled = AmountIn(config.distribution_schedule)
    /\ sound = SoundList(config.distribution_schedule)

Next ==
    \/ \E user \in Stakers, amount \in Amounts : Bond(user, amount) \/ Unbond(user, amount)
    \/ \E user \in Stakers : Withdraw(user)
    \/ \E sender \in Stakers \cup {Self}, user \in Stakers,
          prev \in 0..Supply, minted \in {0} \cup Amounts :
          AutoStakeHook(sender, user, prev, minted)
    \/ \E sender \in Owners, list \in NewSchedules : AddSchedules(sender, list)
    \/ \E sender, owner \in Owners : UpdateOwner(sender, owner)
    \/ \E sender \in Owners : MigrateStaking(sender)
    \/ \E amount \in Amounts : TransferLp(amount)
    \/ Tick

Spec == Init /\ [][Next]_vars

-----------------------------------------------------------------------------
(* Properties *)

\* Every bonded token is somebody's and is in the contract, whatever else was
\* transferred to it: all stakers can unbond (bond, unbond and the hook of
\* auto_stake, which bonds a difference of balances).
BondsHeld ==
    /\ state.total_bond_amount = SumFunction([u \in Stakers |-> reward[u].bond_amount])
    /\ state.total_bond_amount <= lp_balance

\* What has been distributed and what migrations have sent away never exceed
\* what the schedules were given, so a migration leaves behind the rewards that
\* are owed (migrate_staking rewrites the schedules compute_reward reads); but
\* cutting off a schedule that ends this second rounds its amount once more.
MigrationLeavesRewards == distributed + sent <= scheduled + recut

Paid == Funds - psi_balance - sent
Pending == SumFunction([u \in Stakers |-> reward[u].pending_reward])
\* What the index owes to the bonds since they were settled, in fractions.
Accruing ==
    SumFunction([u \in Stakers |->
        reward[u].bond_amount * (state.global_reward_index - reward[u].reward_index)])

\* Stakers together get no more than was distributed, except that each time a
\* reward is settled it may be rounded in the staker's favour, by less than one.
RewardsAccounted ==
    DECIMAL_FRACTIONAL * (Paid + Pending) + Accruing
        <= DECIMAL_FRACTIONAL * (distributed + settled)

\* What query_staker_info shows a staker does not shrink but by being paid out:
\* not by bonding, unbonding, migrating, nor by what other stakers do.
Claimable(u) == QueryStakerInfo(u).pending_reward
RewardsNeverLostStep ==
    RewardIsComputable /\ RewardIsComputable' =>
        \A u \in Stakers :
            Claimable(u) - Claimable(u)' <= (psi_balance - psi_balance') - (sent' - sent)
RewardsNeverLost == [][RewardsNeverLostStep]_vars

\* As long as the owners give only schedules that have a length, every staker
\* can take out the whole bond at any time: no migration, no order of messages
\* and no rounding leaves a state in which unbond aborts.
StakersCanLeave ==
    sound => \A u \in Stakers :
        reward[u].bond_amount > 0 => MayUnbond(u, reward[u].bond_amount)

=============================================================================
