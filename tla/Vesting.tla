-------------------------------- MODULE Vesting --------------------------------
(***************************************************************************)
(* contracts/vesting: the owner registers accounts with vesting schedules; *)
(* anybody makes an account claim what its schedules have released since   *)
(* the account claimed last.  Nothing is claimed before a schedule's       *)
(* cliff; the first claim after it catches up.                             *)
(*                                                                         *)
(* One action is one message, atomic with the cw20 transfer it sends.      *)
(* `genesis`, `released` and `paid` are history: no action depends on      *)
(* them.  Mut_X is X with a plausible mistake, as in Governance.tla.       *)
(***************************************************************************)
EXTENDS CosmMath, FiniteSets, Sequences, Functions

CONSTANTS
    Accounts,            \* accounts that may be registered
    Owners,              \* accounts that may own the contract
    Tokens,              \* cw20 tokens
    NONE,                \* Option::None
    DECIMAL_FRACTIONAL,  \* Decimal::one()
    InitConfigs,         \* the configs the contract may be instantiated with
    Updates,             \* the UpdateConfig messages of the owner
    Registrations,       \* the lists of vesting accounts the owner may register
    Funds,               \* tokens the contract is given, of each kind
    MaxTime              \* bound on block time, in seconds

ConfigType == [owner: Owners, psi_token: Tokens, genesis_time: Nat]
UpdateType == [owner: Owners \cup {NONE}, psi_token: Tokens \cup {NONE}, genesis_time: Nat \cup {NONE}]
VestingSchedule == [start_time: Nat, end_time: Nat, cliff_end_time: Nat, amount: Nat]
VestingAccount == [address: Accounts, schedules: Seq(VestingSchedule)]
VestingInfo == [last_claim_time: Nat, schedules: Seq(VestingSchedule)]

ASSUME NoneIsNotAValue == NONE \notin Nat \cup Owners \cup Tokens
ASSUME DecimalAssumption == DECIMAL_FRACTIONAL \in Nat \ {0}
ASSUME MessagesAssumption ==
    /\ InitConfigs \subseteq ConfigType /\ Updates \subseteq UpdateType
    /\ \A list \in Registrations : list \in Seq(VestingAccount)
ASSUME BoundsAssumption == Funds \in Nat /\ MaxTime \in Nat

VARIABLES
    config,         \* KEY_CONFIG
    vesting_info,   \* PREFIX_KEY_VESTING_INFO: a function on the registered accounts
    psi_balance,    \* external: what the contract holds of each token
    now,            \* env.block.time in seconds
    genesis,        \* history: last_claim_time as an account was registered
    released,       \* history: seconds paid for, of each schedule of an account
    paid            \* history: amount paid to an account since it was registered

vars == <<config, vesting_info, psi_balance, now, genesis, released, paid>>

Registered == DOMAIN vesting_info
Schedules(a) == vesting_info[a].schedules

\* Every variable has the type its storage item declares; the history follows.
TypeOK ==
    /\ config \in ConfigType
    /\ Registered \subseteq Accounts
    /\ vesting_info \in [Registered -> VestingInfo]
    /\ psi_balance \in [Tokens -> Nat] /\ now \in Nat
    /\ genesis \in [Registered -> Nat] /\ paid \in [Registered -> Nat]
    /\ DOMAIN released = Registered
    /\ \A a \in Registered : released[a] \in [DOMAIN Schedules(a) -> Nat]

-----------------------------------------------------------------------------
(* update_config *)

Mut_AlwaysSet(option, default) == option
OrElse(option, default) == IF option = NONE THEN default ELSE option

UpdateConfig(sender, update) ==
    /\ sender = config.owner
    /\ config' = [owner        |-> OrElse(update.owner, config.owner),
                  psi_token    |-> OrElse(update.psi_token, config.psi_token),
                  genesis_time |-> OrElse(update.genesis_time, config.genesis_time)]
    /\ UNCHANGED <<vesting_info, psi_balance, now, genesis, released, paid>>

-----------------------------------------------------------------------------
(* register_vesting_accounts *)

\* assert_vesting_schedules: a cliff may lie after the end.
Valid(s) == s.start_time < s.end_time /\ s.start_time <= s.cliff_end_time

\* Where a list names an account last: that entry is the one that stays.
LastEntry(list, a) == MaxOrZero({k \in DOMAIN list : list[k].address = a})
Named(list) == {list[k].address : k \in DOMAIN list}

\* f with the accounts of g set anew.
Renewed(f, g) ==
    [a \in DOMAIN f \cup DOMAIN g |-> IF a \in DOMAIN g THEN g[a] ELSE f[a]]

RegisterVestingAccounts(sender, list) ==
    LET schedules(a) == list[LastEntry(list, a)].schedules
    IN  /\ sender = config.owner
        /\ \A k \in DOMAIN list : \A i \in DOMAIN list[k].schedules : Valid(list[k].schedules[i])
        /\ vesting_info' = Renewed(vesting_info,
                [a \in Named(list) |-> [last_claim_time |-> config.genesis_time,
                                        schedules |-> schedules(a)]])
        /\ genesis' = Renewed(genesis, [a \in Named(list) |-> config.genesis_time])
        /\ released' = Renewed(released,
                [a \in Named(list) |-> [i \in DOMAIN schedules(a) |-> 0]])
        /\ paid' = Renewed(paid, [a \in Named(list) |-> 0])
        /\ UNCHANGED <<config, psi_balance, now>>

-----------------------------------------------------------------------------
(* claim, compute_claim_amount *)

\* A schedule that compute_claim_amount does not skip.
Mut_EndedIsOver(s, last) == s.start_time <= now /\ s.end_time >= now /\ s.cliff_end_time <= now
Due(s, last) == s.start_time <= now /\ s.end_time >= last /\ s.cliff_end_time <= now

Elapsed(s, last) == MinOf(s.end_time, now) - MaxOf(s.start_time, last)

\* What earlier claims left, as they came before the cliff.
Mut_NoCatchUp(s, last) == 0
CatchUp(s, last) ==
    IF last < s.cliff_end_time /\ last > s.start_time THEN last - s.start_time ELSE 0

\* Seconds a claim pays for.
PassedTime(s, last) == IF Due(s, last) THEN Elapsed(s, last) + CatchUp(s, last) ELSE 0

Rate(s) == FromRatio(DECIMAL_FRACTIONAL, s.amount, s.end_time - s.start_time)

\* What a schedule releases in `time` seconds.
Amount(s, time) == TimesDecimal(DECIMAL_FRACTIONAL, time, Rate(s))

ClaimAmount(info) ==
    SumFunction([i \in DOMAIN info.schedules |->
        Amount(info.schedules[i], PassedTime(info.schedules[i], info.last_claim_time))])

\* The u64 difference underflows while a genesis time is still to come.
Computable(info) ==
    \A i \in DOMAIN info.schedules :
        LET s == info.schedules[i]
        IN  Due(s, info.last_claim_time) => Elapsed(s, info.last_claim_time) >= 0

\* query_claimable_amount, which answers where Computable holds.
QueryClaimable(a) == ClaimAmount(vesting_info[a])

Mut_TimeKept(info) == info
Claimed(info) == [info EXCEPT !.last_claim_time = now]

\* Claim by the account, or ClaimFor it by anybody.  A cw20 transfer that fails
\* takes the whole message back.
Claim(a) ==
    LET info == vesting_info[a]
        amount == QueryClaimable(a)
    IN  /\ a \in Registered
        /\ Computable(info)
        /\ amount <= psi_balance[config.psi_token]
        /\ psi_balance' = [psi_balance EXCEPT ![config.psi_token] = @ - amount]
        /\ vesting_info' = [vesting_info EXCEPT ![a] = Claimed(@)]
        /\ released' = [released EXCEPT
                ![a] = [i \in DOMAIN released[a] |->
                           released[a][i] + PassedTime(info.schedules[i], info.last_claim_time)]]
        /\ paid' = [paid EXCEPT ![a] = @ + amount]
        /\ UNCHANGED <<config, now, genesis>>

-----------------------------------------------------------------------------

Tick ==
    /\ now < MaxTime
    /\ now' = now + 1
    /\ UNCHANGED <<config, vesting_info, psi_balance, genesis, released, paid>>

Init ==
    /\ config \in InitConfigs
    /\ vesting_info = <<>> /\ genesis = <<>> /\ released = <<>> /\ paid = <<>>
    /\ psi_balance = [t \in Tokens |-> Funds]
    /\ now = 0

Next ==
    \/ \E sender \in Owners, update \in Updates : UpdateConfig(sender, update)
    \/ \E sender \in Owners, list \in Registrations : RegisterVestingAccounts(sender, list)
    \/ \E a \in Accounts : Claim(a)
    \/ Tick

Spec == Init /\ [][Next]_vars

-----------------------------------------------------------------------------
(* Properties *)

\* The seconds of a schedule that have passed at time t, once its cliff has.
Vested(s, t) ==
    IF t >= s.cliff_end_time THEN MaxOf(0, MinOf(s.end_time, t) - s.start_time) ELSE 0

\* However the claims of an account are spread over its schedules (before and
\* after starts, cliffs and ends, by the account or for it, some failing for
\* lack of tokens), they have paid for each second up to the last claim once,
\* if the genesis time is no later than the start and the cliff than the end.
ReleasedExactly ==
    \A a \in Registered : \A i \in DOMAIN Schedules(a) :
        LET s == Schedules(a)[i]
        IN  genesis[a] <= s.start_time /\ s.cliff_end_time <= s.end_time =>
                released[a][i] = Vested(s, vesting_info[a].last_claim_time)

\* Whatever the genesis time and the schedules are, and whenever an account was
\* registered, its claims never pay more than what has vested by now.
PaidAtMostVested ==
    \A a \in Registered :
        paid[a] <= SumFunction([i \in DOMAIN Schedules(a) |->
                                   LET s == Schedules(a)[i]
                                   IN  MultiplyRatio(s.amount, Vested(s, now),
                                                     s.end_time - s.start_time)])

\* Neither time nor a claim, the account's own or one that anybody made for it,
\* takes from what an account has been paid and query_claimable_amount shows
\* together: what could once be claimed is never forgone.
Worth(a) == paid[a] + QueryClaimable(a)
NothingForgoneStep ==
    Tick \/ (\E a \in Accounts : Claim(a)) =>
        \A a \in Registered : vesting_info[a].last_claim_time <= now =>
            Computable(vesting_info[a])' /\ Worth(a)' >= Worth(a)
NothingForgone == [][NothingForgoneStep]_vars

\* "the accounts can claim a token at any time after the schedule has passed",
\* README.md:29: with what was paid, a claim then comes to the whole schedule.
ClaimableAfterSchedule ==
    \A a \in Registered : \A i \in DOMAIN Schedules(a) :
        LET s == Schedules(a)[i]
        IN  genesis[a] <= s.start_time /\ now >= MaxOf(s.end_time, s.cliff_end_time) =>
                released[a][i] + PassedTime(s, vesting_info[a].last_claim_time)
                    = s.end_time - s.start_time

=============================================================================
