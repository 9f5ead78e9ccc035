# Verification of the Nexus service contracts

TLA+ models, TLC runs and TLAPS proofs for the CosmWasm contracts of this
repository: `contracts/governance`, `staking`, `vesting`, `airdrop` and
`community`. All five are modelled and checked, the last two composed with the
governance that owns them. Every safety invariant and action property that the
runs check is proved for all values of the constants, and so are the two
refinements; section 4 has the premises. Liveness is model-checked.

## 1. The system

### How the parts run

Each contract is a sequential state machine: a message is handled to the end
before the next, and a handler that returns an error, underflows
(`overflow-checks = true`) or divides by zero leaves no trace. Concurrency
enters in two places:

* between messages: any user may send any message at any point, several in one
  block (at the same `now`), and the order within a block is nobody's choice;
* inside a transaction: a handler answers with messages to other contracts,
  which run after it, depth first, and may call the contract again. A
  submessage with a reply catches their failure; everything else fails as a
  whole.

All amounts of PSI are balances of one cw20 token (external). Contracts read
their own balance from it; governance keeps stake, rewards and poll deposits in
the same balance and tells them apart by its own counters.

### Components

| component | state | operations | calls | what makes it right |
|---|---|---|---|---|
| governance: stake | `BANK` (share, locks per user), `State.total_share`, cw20 balance | `stake_voting_tokens`, `withdraw_voting_tokens` | cw20 Send hook in, cw20 Transfer out, raw balance query | shares conserved and backed; roundings bounded; nobody withdraws what a ballot locks |
| governance: polls | `POLL`, `POLL_INDEXER`, `POLL_VOTER`, `State.poll_count`, `State.total_deposit` | `create_poll`, `cast_vote`, `snapshot_poll`, `end_poll` | cw20 Send hook in, refund out | one ballot per user, tallies match ballots, deposits accounted, index matches status, polls end |
| governance: execution | `POLL`, `TMP_POLL_ID` | `execute_poll`, `execute_poll_messages`, `fail_poll`, `reply` | itself, any contract, itself again through them | after the timelock, once, in order, all or nothing, and the right poll fails |
| governance: config | `KEY_CONFIG` | `instantiate`, `update_config`, `register_token` | called by its own polls | only the owner; fractions in range |
| governance: queries | - | `query_staker`, `query_polls`, `query_voters`, and three that return an item | - | what is reported as free can be withdrawn; a walk over pages meets every key once |
| staking | `State` (last_distributed, total_bond_amount, global_reward_index), `StakerInfo` per user, schedules in `Config` | `bond`, `unbond`, `withdraw`, `add_schedules`, `update_owner`, `migrate_staking`, `auto_stake` and its hook, `query_staker_info` | cw20 hooks, terraswap pair, itself | bonds conserved; rewards owed never exceed what schedules released nor the balance; migration leaves them covered; stakers can always leave |
| vesting | `Config`, `VestingInfo` per account | `register_vesting_accounts`, `claim`, `update_config`, `query_claimable_amount`, `query_vesting_accounts` | cw20 Transfer | claims add up to the schedule whenever they are made, never more |
| airdrop | `Config`, latest stage (u8), roots, claim index | `register_merkle_root`, `claim`, `update_config` | cw20 Transfer; owned by governance | one payment per user and stage, of a leaf of its tree; stages stay funded |
| community | `Config` | `spend`, `update_config` | cw20 Transfer; called by governance polls | only governance spends, and no longer once it handed the pool over; polls that compete for it take effect whole or not at all |
| services | message types | - | - | - |

What is hard here: rounding in the share price against locks and deposits held
in one balance; two storage items per ballot and two per status, changed in
different handlers; time boundaries where two handlers overlap; a timelock and
a quorum read at a later time than the one they are about; nested execution
with rollback; rewards and claims that are differences of roundings, taken at
moments users choose. PROJECT.json lists each such place at its line (`hazards`).

## 2. The modules

| module | what it is |
|---|---|
| `CosmMath` | the `cosmwasm_std` arithmetic and the iterators the contracts use (external) |
| `Governance` | the governance contract, one action per message |
| `PollLifecycle` | abstract: what the contract promises about a poll |
| `PollExecution` | the execution of passed polls call by call |
| `Staking` | the staking contract, one action per message |
| `Vesting` | the vesting contract, one action per message |
| `Cw20` | a transfer of the PSI token between accounts (external) |
| `Airdrop` | the airdrop contract, one action per message |
| `Community` | the community contract, one action per message |
| `GovernedContracts` | composes the two with polls, their rollback, users and owners |
| `Entitlements` | abstract: what an airdrop promises its users |
| `RangeQueries` | the paged queries of governance and vesting, and a caller who walks through them |
| `MCGovernance`, `MCPollExecution`, `MCStaking`, `MCVesting`, `MCGovernedContracts`, `MCRangeQueries` | instances for TLC |
| `CosmMathProofs` | lemmas on division, products and maxima, on sums over finite sets and lists, on sorting and filtering, and on what a schedule releases |
| `GovernanceProofs` | types, roundings, indexes and ballots, and that `Governance` implements `PollLifecycle` |
| `GovernanceAccountsProofs` | the sums of governance: shares, deposits, tallies; what can be withdrawn |
| `PollExecutionProofs` | replies, atomicity and status of executed polls |
| `StakingProofs` | types, bonds, leaving, migrations, rewards |
| `VestingProofs` | types, what claims release and pay |
| `GovernedContractsProofs` | types, handover of the pool, all or nothing, funds of stages, `GovernedContracts` implements `Entitlements` |
| `RangeQueriesProofs` | walks over pages |

### Governance

Variables are the storage items, in `state.rs`'s names, plus `psi_balance` (the
cw20 balance of the contract) and `now`. A map is a function; `locked_balance`,
a vector in the code, is a set of ballots, since only its maximum and membership
are ever read. `Option::None` and the empty token address are `NONE`.

| action | code (`contracts/governance/src`) |
|---|---|
| `Init` | `contract.rs` `instantiate` |
| `RegisterToken`, `UpdateConfig` | `commands.rs` `register_token`, `update_config` behind the owner check of `contract.rs` |
| `StakeVotingTokens`, `CreatePoll` | the two hooks of `receive_cw20`; the transfer that precedes the hook is part of the action |
| `CastVote`, `SnapshotPoll`, `EndPoll` | the functions of these names; `EndPoll` includes the refund |
| `ExecutePoll` | `execute_poll`, its submessage and either `execute_poll_messages`, of this poll and of those it runs (`Chains`), or `reply` / `fail_poll`, as one transaction |
| `WithdrawVotingTokens` | `withdraw_voting_tokens` with `compute_locked_balance` and the transfer |
| `TransferIn` | PSI sent to the contract without a message, which is how stakers are rewarded |
| `Tick` | block time |

Guards hold every check of the handler and every reason for which a call it
makes aborts: `DepositsCovered` is `psi_balance.checked_sub(total_deposit)`,
`Staked > 0` a division by `total_balance`, `CanPay` the cw20 transfer, which
refuses zero. `MayWithdraw` collects the guards of a withdrawal, so that
`ReportedIsWithdrawable` can say of `QueryStaker`, the answer of
`query_staker`, that the balance it shows less the largest lock it shows would
be paid out.

Abstractions: PSI outside the contract is one pool (`Supply` minus the
balance), so a user never lacks tokens somebody has; a poll's creator is not
kept (a refund goes to the pool); the messages of a poll are one unit that
updates the config, has the contract run another poll (`ExecutePollMsgs`), or
goes to other contracts (`EXTERNAL`) and succeeds or fails; polls whose messages
move the contract's own PSI are not modelled; titles and links are left out; a Decimal is an integer of `DECIMAL_FRACTIONAL`
parts; naturals are unbounded (u128 products and u64 sums of time do not
overflow).

`create_poll` takes any message to any contract, this one included. What a poll
may send the contract to more effect than anybody else is modelled:
`UpdateConfig`, while the contract owns itself, and `ExecutePollMsgs`, which
only it may send. `EndPoll`, `SnapshotPoll` and `ExecutePoll` of a poll do what
they do when anybody sends them right after it (`PollExecution` has the nested
execution call by call), `RegisterToken` comes too late, and a ballot of the
contract, which has no shares, counts nothing.

`Chains(id)` are the polls that the execution of `id` comes to run, one by the
message of the other. `execute_poll_messages` looks at no status: a poll in
progress that another one runs is executed, `end_poll` refuses it from then on,
its deposit stays counted and its index entry under `in_progress` stays. The
invariants say just that much: `DepositsAccounted` that nothing else is left
over, `IndexMatchesStatus` that no other entry is out of date (both name such
polls `RunByAnother`). Polls that run each other in a circle use up the gas of
the transaction, which leaves no trace: they can be executed neither way and
stay passed (`Endless`).

### PollLifecycle and the refinement

`PollLifecycle` knows of a poll only status, tallies, end, first snapshot and
whether it carries messages. `LifeOf` maps a stored poll to that record, and
`ImplementsLifecycle` says that every step of the contract is a step of one
poll's life, as long as no poll carries `ExecutePollMsgs` (`NoYourself`): no ballot outside the voting period or after the end, no tally that shrinks, no
second snapshot, no second end, no passing without a vote in favour, no
execution before the timelock in force or of a poll that has not passed, and
nothing after `executed`, `failed` or `rejected`.

### PollExecution

`calls` is the control stack of the virtual machine: calls to make, *catches*
(submessages with `reply_on_error`, holding the store to go back to) and
replies. `store` is what a rollback takes back: the polls' statuses and
messages, `TMP_POLL_ID`, and `effects`, the messages that other contracts have
carried out, each by its poll, list and place in the list. A call
of another contract may fail at will (`Caught`, `Uncaught`), gas may run out at
any point (`OutOfGas`), and a message of a poll may be `ExecutePoll`, of the
same poll too, or `ExecutePollMsgs`, which the contract accepts from itself.
The deposits, ballots and the index are left to `Governance`.

### Staking

`config`, `state` and `reward` are the storage items; a removed `StakerInfo`
reads as zeros. `Computed` is `compute_reward`, with the index it leaves in
`NewIndex`; `Settle` and `Settled` are `compute_staker_reward`, its result and
its `checked_sub`. `Bond`, `Unbond`, `Withdraw`, `AddSchedules`, `UpdateOwner`
and `MigrateStaking` are the functions of these names. `AutoStakeHook` is the
whole transaction of `auto_stake` when its sender is the contract: the balance
read first, the LP tokens the pair mints, the hook that bonds the difference;
any other sender may call the hook with any `prev`, and is refused.
`TransferLp` is LP tokens sent without a message. `QueryStakerInfo` is the
query at the current time, and what `Withdraw` pays. The owner may add a
schedule that ends when it starts or before, since `add_schedules` checks
nothing; once one is due, `RewardIsComputable` fails and with it every handler
that calls `compute_reward`, unbonding included, so that it stays due as long as
anything is bonded. The history variable `sound` says that
none has been added: `StakersCanLeave` holds as long as it is true. Other history variables count what
went into the index, what schedules were given, what migrations sent away, and
the two kinds of rounding that the properties allow for.

### Vesting

`vesting_info` is a function on the registered accounts. `Claim(a)` is `claim`,
sent by the account or by anybody with `ClaimFor`; it includes the transfer,
whose failure takes the claim back. `PassedTime` is the body of the loop in
`compute_claim_amount` (`Due` the schedules it does not skip, `CatchUp` the time
before the cliff), `Computable` the u64 difference not underflowing.
`RegisterVestingAccounts` takes a list in which an address may occur twice; one
invalid schedule refuses the whole list. `QueryClaimable` is
`query_claimable_amount`, `Worth` the tokens an account got or could claim at
once: `NothingForgone` says that no claim makes it less. History variables say how many seconds
of each schedule, and how many tokens, claims have paid since the registration.

### Airdrop, Community and GovernedContracts

`Airdrop` keeps `config`, `latest_stage`, `merkle_root` (a function on the
stages registered so far) and `claimed` (the keys of the claim index).
`NextStage` is the empty set where `latest_stage + 1` overflows a u8. Digests
are numbers, `Combine` is the branch on `bytes_cmp`, `RootOf` the fold over the
proof. `LeafHash` and `PairHash` are parameters; that they are free of
collisions on all that a model hashes is an assumption TLC evaluates (`Keccak`).
`Community` has the two messages of `ExecuteMsg::Governance`.

`GovernedContracts` instantiates both over one table of cw20 balances and gives
them to governance, as the deployment does. A poll is a list of messages;
`ExecutePoll`, `Deliver`, `Commit`, `FailPoll` and `OutOfGas` are the
transaction of its execution, message by message, with the state to go back to
in `tx.saved`. It is `PollExecution` cut down to polls that do not execute each
other, with the external call replaced by `Perform`, an action of `Airdrop` or
`Community`. Votes and timelocks are left out: every poll has passed, in any
order of execution. Between executions users claim with any amount and proof of
any stage, and the accounts to which a poll hands a contract over send messages
of their own (`Direct`, each at most once).

`Entitlements` knows neither trees nor tokens: whole stages are granted, and a
user takes one of their entitlements of a stage, once. The mapping reads the
roots that other transactions see (`Visible`): what a poll registers before it
fails is never granted.

### RangeQueries

`Page` is `read_polls`, `read_poll_voters` and `read_vesting_infos`, which
differ in the keys they range over (`Keys`): the limit clipped to `MAX_LIMIT`,
the exclusive bound on the side the order asks for, anything but `asc` read
downwards. The caller, who is not part of the repository, asks for the page
after the last key it got until a page is empty. In between polls are created,
end and are executed, by the message of another poll too (`RunPoll`, which may
leave an entry in `left`), voters and vesting accounts come, and the ballots of polls
that are over go. One walk is looked at, and only the keys of its list change:
no message that changes others can be seen in its pages. `met` counts up to 2,
which is enough to tell a duplicate.

## 3. What the runs check

All runs finish in two minutes each. Deadlock checking is off but for
vesting, where the owner can always register accounts: time ends at `MaxTime`,
and a contract nobody sends a message to rests.

| run | instance | properties |
|---|---|---|
| `stake` | 2 users (symmetric; the owner is the contract, so that Init is), `Supply` 5, amounts 0..3, one poll, one tick | `SharesConserved`, `TallyMatchesVoters`, `ShareBacked`, `ReportedIsWithdrawable`, `WithdrawBounded`, `LockedStakeKept`, `PriceNeverFalls` |
| `life` | 1 user, 2 polls, `Supply` 3, amount 1, two ticks, messages: external or owner + timelock change | `TypeOK`, `ImplementsLifecycle` |
| `chains` | 1 user, 2 polls, `Supply` 3, amount 1, two ticks, messages: run poll 1, 2 or 3 (which does not exist), or hand the contract to itself | `DepositsAccounted`, `VoterLockAgreement`, `IndexMatchesStatus` |
| `live` | 1 user, 1 poll, `Supply` 4, amounts 1..2, two ticks, a message that fails while a user owns the contract, one that runs the poll itself, one that runs a poll that does not exist | `PollsEndUnlessStuck`, `PassedPollsSettle` |
| `nested` | 3 polls: bodies that call out, execute a poll before or after calling out, or list messages out of order with a migration; the third poll calls out or executes the first | `AtomicExecution`, `ReplyFailsTheRightPoll`, `OnlyPassedPollsRun`, `TransactionsEnd` |
| `rewards` | 2 stakers and 2 owners (both symmetric), 3 LP tokens, a schedule whose rate does not divide evenly, one that may be added, and one of no length that may be added, three ticks, `DECIMAL_FRACTIONAL` 10 | `TypeOK`, `BondsHeld`, `MigrationLeavesRewards`, `RewardsAccounted`, `StakersCanLeave`, `RewardsNeverLost` |
| `claims` | 2 accounts, 2 owners, 2 tokens; cliffs at the start, inside, at the end of and after a schedule; a genesis time at 0, 2 or 3; 8 tokens of each kind, too few for all claims; six ticks | `TypeOK`, `ReleasedExactly`, `PaidAtMostVested`, `NothingForgone` |
| `governed` | 2 users, 1 account a contract may be handed to, 7 PSI in the pool, `U8_MAX` 2, seven polls: two that fund and register a stage, in either order of the messages, one with a malformed root, one more than there are stages for, two that hand the pool over before or after spending, one that hands the airdrop over; trees of one, two and three leaves, in the last of which a user has two | `TypeOK`, `AllOrNothing`, `StagesFunded`, `EntitledCanClaim`, `HandoverBinds`, `ImplementsEntitlements` |
| `pages` | 3 polls, 4 accounts, `DEFAULT_LIMIT` 2, `MAX_LIMIT` 3, limits 0, 1, none and 5, both orders, with no limit the default one too, all polls or those of one status, voters of a poll, vesting accounts; any state of the storage to begin with | `TypeOK`, `NoDuplicates`, `CompleteWalk`, `WalkEnds` |
| `cliff` | as `claims` | `ClaimableAfterSchedule`, violated, see section 5 |
| `deposits`, `yourself` | as above | one violated claim each, see section 5 |

Bounds: `Supply` 5 with a deposit of 1 or more suffices for prices of 2/1, 3/2 and 1/2,
for a withdrawal that rounds to zero shares (and burns one), a lock that rounds
down, and a deposit that pays for a stake. `MaxTime` 1 or 2 with voting,
timelock and snapshot periods of 1 puts every boundary (before, at, after
`end_time` and the end of the timelock) within reach. Two polls give a second
timelock and a second deposit, a poll that runs another, in progress, rejected
or passed, and a circle of two. `MaxCalls` (10) exceeds the deepest stack three
polls can build; a poll executing itself would hit it if the status were
written late, and then `TransactionsEnd` fails.

`OnlyPassedPollsRun` holds in `nested`, where no poll carries
`ExecutePollMsgs`, so that only the sender check keeps users out; `yourself`
shows what happens when one does.

The coarse Decimal of `rewards` and `claims` makes every rounding happen with
amounts of a few units; amounts near 10^18 per unit of time would be needed to
see them otherwise. `RewardsAccounted` allows a unit for each reward settled
(it is the difference of two floors) and `MigrationLeavesRewards` one for each
schedule that ends in the very second of a migration and is cut again (its
amount is divided and rounded a second time). Both allowances are needed: TLC
finds both invariants violated without them.

In `governed` the pool does not suffice for all polls (they ask for 11 of 7, and
one of them has the pool pay itself, which `AllOrNothing` counts as nothing), so
that every order of execution has polls that fail for lack of funds after
having registered a root. Two stages make a claim of one interfere with the
other, and the third registration is the one beyond `u8::MAX`. `StagesFunded`
and `EntitledCanClaim` are about stages that polls register together with
their funds (`OnlyPollsRegister`): an owner without polls may register a root
and pay nothing, and the contract does not mind. That the polls of the instance
give the airdrop what their stages cost (`PollsFundStages`), the premise of the
two theorems about it, is evaluated by TLC. The tree of three leaves has
one at depth one and two at depth two, and its digests fall on either side of
each other, which `Mut_LeftFirst` confirms. In `pages` every list is longer than
a page of any limit but the clipped one, so that a walk takes up to five pages.

### Fairness

`live` assumes that time passes (`WF(Tick)`) and that `EndPoll` and
`ExecutePoll` of each poll are eventually sent when they stay possible. Both
messages are open to everybody and the creator, who gets the deposit back, has
a reason to send the first. No fairness is assumed of voters, stakers or the
owner. `TransactionsEnd` assumes that the virtual machine runs what is pending;
no fairness makes gas run out. `WalkEnds` assumes that the caller goes on
asking, which is the caller's choice; nothing is assumed of those who change
the list.

## 4. What is proved

All theorems hold for all values of the constants that satisfy the named
assumptions of the modules, which TLC evaluates in the runs: types and bounds;
that `NONE` is no value and the contract no user; that `DECIMAL_FRACTIONAL` is
positive; that users, stakers, polls and trees are finitely many at any time
(`UsersAreFinite`, `StakersAreFinite`, `FinitelyMany`). What goes beyond that is
said with the theorem.

| module | theorem | states |
|---|---|---|
| `GovernanceProofs` | `TypeCorrect` | `[]TypeOK` |
| | `SharesStayBacked` | `[]ShareBacked` |
| | `IndexAlwaysMatches` | `[]IndexMatchesStatus` |
| | `VotersAndLocksAgree` | `[]VoterLockAgreement` |
| | `WithdrawalsBounded` | `WithdrawBounded` |
| | `LockedStakeStays` | `LockedStakeKept` |
| | `PriceKept` | `PriceNeverFalls` |
| | `RefinesLifecycle` (if `NoYourself`) | `ImplementsLifecycle` |
| `GovernanceAccountsProofs` | `SharesAddUp` | `[]SharesConserved` |
| | `DepositsAddUp` | `[]DepositsAccounted` |
| | `TalliesAreBallots` | `[]TallyMatchesVoters` |
| | `FreeIsWithdrawable` | `[]ReportedIsWithdrawable` |
| `PollExecutionProofs` | `RightPollFails` | `[]ReplyFailsTheRightPoll` |
| | `ExecutionIsAtomic` (if `NoYourself`) | `[]AtomicExecution` |
| | `PassedPollsRun` (if `NoYourself`) | `OnlyPassedPollsRun` |
| `StakingProofs` | `TypeCorrect` | `[]TypeOK` |
| | `BondsAreHeld` | `[]BondsHeld` |
| | `StakersLeave` | `[]StakersCanLeave` |
| | `MigrationsLeaveRewards` | `[]MigrationLeavesRewards` |
| | `RewardsAreAccounted` | `[]RewardsAccounted` |
| | `RewardsStay` | `RewardsNeverLost` |
| `VestingProofs` | `TypeCorrect` | `[]TypeOK` |
| | `ClaimsReleaseExactly` | `[]ReleasedExactly` |
| | `NeverPaidMoreThanVested` | `[]PaidAtMostVested` |
| | `NothingIsForgone` | `NothingForgone` |
| `GovernedContractsProofs` | `TypesCorrect` | `[]TypeOK` |
| | `PoolHandedOver` | `HandoverBinds` |
| | `PollsTakeEffectWhole` | `[]AllOrNothing` |
| | `FundedPollsCoverClaims` (if `PollsFundStages`) | `[]StagesFunded` |
| | `NoEntryIsLockedOut` (if `PollsFundStages`, `ProofsLead`) | `[]EntitledCanClaim` |
| | `AirdropKeepsPromise` | `ImplementsEntitlements` |
| `RangeQueriesProofs` | `TypeCorrect` | `[]TypeOK` |
| | `KeysAreMetOnce` | `[]NoDuplicates` |
| | `WalksAreComplete` | `[]CompleteWalk` |

The premises that are more than types:

* `NoYourself`: no poll carries the message `ExecutePollMsgs`. Without it the
  three properties are false, which run `yourself` shows of one of them: a poll
  in progress or rejected becomes executed, no timelock asked. All other
  theorems of `GovernanceProofs` and `GovernanceAccountsProofs`, and
  `RightPollFails`, do without it.
* `TimeAssumption` of `Staking`: time stays below `DECIMAL_FRACTIONAL`, that is
  10^18 seconds. The rate of a longer schedule, rounded down, could release
  more than a unit less than its amount by its end.
* `ProofsAreSound` of `GovernedContracts`: whoever leads a proof to a registered
  root has proved a leaf of its tree, which is what Keccak is there for.
  `ProofsLead`: the entries of a tree come with proofs that lead to its root,
  which is how the tree was built.
* `PollsFundStages`: a poll gives the airdrop what the stages it registers cost.
  The contract checks nothing of the kind.

### The arguments

**Governance.** The inductive core is `TypeInv == TypeOK /\ FiniteLocks`: the
locks of a user have to be a finite set for `LockedBalance`, their maximum, to
be one of them (`FiniteMax`, proved from well-founded induction on `Nat` by a
minimal counterexample over cardinalities). One lemma per action shows that it
is preserved. `ShareBacked` is inductive together with it: a withdrawal that
leaves shares leaves PSI behind them, because what is paid is less than
`burnt + 1` shares' worth (`WithdrawPrice`), the one hard case being a single
remaining unit. The action properties follow from the same two inequalities on
floors (`DivFloor`): minted shares are never worth more than what was paid
(`StakeEffect`), and locks are converted with the price before the step
(`WithdrawLeavesStake`). `IndexMatchesStatus` and `VoterLockAgreement` are
inductive relative to `TypeInv`. `ExecutePollEffect` says what an execution does
to the polls, however many it comes to run: each but the first is the one that
another executed poll names, which is what `IndexMatchesStatus` and
`DepositsAccounted` allow for, and nothing ever undoes (`RunByAnotherStays`).
The refinement has one lemma per handler that
changes a poll; all others are stutters, `Configure` or `Advance`.

**Sums.** `SharesConserved`, `DepositsAccounted` and `TallyMatchesVoters` are
inductive once a sum can be taken apart. `CosmMathProofs` shows of the sums of
the community modules, by a minimal counterexample over cardinalities again,
what the provers cannot get from the library's induction: a sum over
`S \cup {x}`, over sets where one value changed, and over a list as it grows.
For the tallies the ballots of a poll have to be finitely many
(`FiniteBallots`), and a forgotten ballot has to be one of a poll that is over,
which is where `VoterLockAgreement` comes in.

**PollExecution.** `Guarded` says of the stack that every catch holds a store in
which its poll has passed and is the one of `TMP_POLL_ID`, and that a reply is
on top, over such a store: a rollback is the only thing that puts it there.
It needs nothing of what polls carry. The other two theorems add `MessagesRun`
(what the contract sends itself is on top and about a passed poll) and `Kept`:
the store, and every store a catch keeps, *fits* the calls below it. To fit is
that of the messages carried out, followed by those on the stack, each poll that
is executed there has all of its own, each once and in the order of their
places, and any other poll none. `Kept` speaks of all the stores on the
stack since a failure may bring any of them back.

**Staking.** `IType` adds to the types that `last_distributed` is not ahead of
time and no staker's index ahead of the contract's. `BondsHeld` and
`SchedulesSound` give `StakersCanLeave`: the reward can be computed, and no
subtraction is short. `NothingOverspent` strengthens `MigrationLeavesRewards`
to what schedules still promise: distributed, sent and promised together stay
within what was given, up to what the schedules of today have given out
already. A migration cuts each schedule, and the lemmas on `Release` bound what
the second rounding of its rate may take. `RewardsAccounted` is inductive by
itself, from an inequality on the fractions a step of the index adds to all
bonds; `RewardsNeverLost` rests on `IndexKnown`, what the index would be now,
which does not fall as time passes or schedules are added and cut.

**Vesting.** The invariant is `Kept`: per schedule, the seconds paid for are
those that had vested at the last claim, and an account whose last claim lies
ahead (its genesis time does) was paid for none. `ReleasedExactly` is `Kept` with
cliffs no later than ends; `PaidAtMostVested` adds that the rounded parts are
worth no more than the whole (`PaidInParts`).

**GovernedContracts.** The invariant has to speak of the state a
transaction goes back to: `SavedInv` says that it is well typed, that no claim
is of a stage it lacks, that the stages opened since only extend it, and that
nothing has left the pool if governance did not own it then. With it, what other
transactions see of the roots only grows (`VisibleGrows`), whether the
transaction commits, fails or disappears, so that every step but a claim is a
`Grant`; a claim is a `Take` because its key was not claimed and what is not
claimed is not paid (`ClaimsMatch`). `AllOrNothing` comes from `Settles`: each
number of the contracts (stages, the pool's payments, a recipient's) *reaches*,
with the messages an open transaction has left to perform, the sum over all
executed polls and direct messages; and the saved state reaches that sum without
the open poll. Summing what stages cost instead gives the funds of
`StagesFunded`, with `PaidAsEntitled`: nobody was paid more than the largest of
their entries in the stage.

**RangeQueries.** `TypeOK` says that the cursor is the furthest key a walk was
shown, so that whatever is after it is new (`NoDuplicates`). `Walked` says that
what has stayed in the range and is not after the cursor has been shown; a page
leaves out only what comes after its last key (`PageProperties`, from the
sorting lemmas of `CosmMathProofs`), and an empty one leaves out nothing.

Only model-checked: the liveness properties `PollsEndUnlessStuck`,
`PassedPollsSettle`, `TransactionsEnd` and `WalkEnds`, which are out of the
prover's reach with fairness and `ENABLED`. What TLC refutes in section 5 has
no theorem, of course.

## 5. Where the code differs from what it says

* **Deposits can be withdrawn** (`deposits`). `withdraw_voting_tokens` compares
  shares, never PSI, and rounds the burnt shares down to no less than one: the
  owner of the only share, worth 2, withdraws 3 when a deposit is there. After
  that every `checked_sub(total_deposit)` fails. `WithdrawBounded` is the
  bound that does hold: less than a share too much.
* **A schedule can be lost** (`cliff`). `claim` moves `last_claim_time` even
  when it pays nothing, and schedules that ended before it are skipped: with a
  cliff after the end, which a test lists as valid, a claim in between, by
  anybody, forfeits the schedule. `ReleasedExactly` shows that all is well
  while cliffs are no later than ends.
* **Polls that have not passed can run** (`yourself`). `ExecutePollMsgs` checks
  the sender only, and the messages of polls are sent by the contract. A poll in
  progress that is run so can no longer be ended: its deposit stays in
  `total_deposit` for good and `query_polls` lists it as in progress (run
  `chains` allows for it). Polls that run each other in a circle stay passed.

Some things that are no contradiction to anything the repository says, but that
the models take into account:

* A poll may get stuck. `snapshot_poll` stores zero while nothing is staked; if
  somebody stakes before the poll is ended, `end_poll` divides by that zero and
  aborts. It does so as long as anybody holds shares: once all have been
  withdrawn, the branch for no shares ends the poll. (`cast_vote` stores no
  zero: with no shares it aborts, and with shares there is stake.)
  `PollsEndUnlessStuck` shows that this and deposits that the balance does not
  cover are the only ways for a poll not to end.
* Governance's `update_config` validates neither quorum nor threshold, which
  `instantiate` does: `TypeOK` of `Governance` types them as naturals.
* Staking's `add_schedules` accepts a schedule of no length, or of a negative
  one. Once it is due, bonding, unbonding and withdrawing abort for as long as
  anything is bonded, which then is for good (the premise of `StakersCanLeave`).

## 6. Plan

1. Done: all five contracts, the composition of airdrop and community with
   governance, the paged queries, their runs, and the theorems of section 4,
   which state every safety invariant and action property of the passing runs.
2. An abstract staking contract (rewards released over time and shared by
   bonds, without rounding) that `Staking` refines up to the counted roundings,
   and one for vesting (the seconds of each schedule, each paid once), with
   `ReleasedExactly` as the step lemma of the refinement.
3. `ExecutePoll` of `Governance` as the abstraction of `PollExecution`: a
   transaction there is one step here, for polls that do not nest.

## 7. Not modelled

* Texts of polls: title, description and link are checked for their lengths and
  stored; nothing depends on them.
* `querier.rs` reads a failing balance query as zero. The token is deployed
  before it is registered, so the models never let the query fail.
* The u128 products of `withdraw_voting_tokens` that are not `multiply_ratio`
  abort beyond 2^128; amounts are unbounded in the models.
* The terraswap pair beyond the LP tokens it mints, the cw20 token beyond its
  transfers, and Keccak beyond its lack of collisions.
* Queries that return a stored item as it is, `migrate` entry points (they do
  nothing), schemas, artifacts, examples and tests.
