--------------------------- MODULE GovernedContracts ---------------------------
(***************************************************************************)
(* The airdrop and the community pool as governance runs them.  Passed     *)
(* polls carry lists of messages to the two contracts; executing a poll    *)
(* sends them in order, in one transaction: one that is refused takes back *)
(* all the others and the poll fails.  In between users claim, and whoever *)
(* a contract was handed over to sends it messages.                        *)
(*                                                                         *)
(* The execution of polls is the one of PollExecution.tla for polls that   *)
(* do not execute others; what it calls is no longer an arbitrary external *)
(* call but an action of Airdrop.tla or Community.tla.                     *)
(*                                                                         *)
(* Mut_X is X with a plausible mistake, as in Governance.tla.              *)
(***************************************************************************)
EXTENDS Cw20, FiniteSets, FiniteSetsExt, SequencesExt

CONSTANTS
    Users,           \* accounts that claim
    Owners,          \* accounts a contract may be handed over to
    Gov,             \* the governance contract
    PoolAddr,        \* the community contract
    DropAddr,        \* the airdrop contract
    NONE,            \* Option::None; no transaction
    BAD,             \* a string that is no 32 bytes in hexadecimal
    LeafHash(_, _),  \* Keccak256 of an address followed by an amount
    PairHash(_, _),  \* Keccak256 of two digests, one after the other
    Distributions,   \* what may be airdropped: a root and its entries
    PollMessages,    \* the message list of each poll
    DirectMessages,  \* what an owner may send without a poll
    Funds,           \* PSI in the community pool at the start
    U8_MAX           \* u8::MAX

PollIds == DOMAIN PollMessages
Entries == UNION {d.entries : d \in Distributions}
Amounts == {e.amount : e \in Entries}
Proofs == {e.proof : e \in Entries}
Roots == {d.root : d \in Distributions} \cup {BAD}

VARIABLES
    drop_config, latest_stage, merkle_root, claimed, received,   \* Airdrop
    pool_config,                                                 \* Community
    balance,   \* external: cw20 balances of PSI
    polls,     \* the status of each poll
    tx,        \* the poll being executed, the messages left, the state before
    direct     \* history: messages owners sent (each once: a bound of the model)

Drop == INSTANCE Airdrop WITH Self <- DropAddr, config <- drop_config
Pool == INSTANCE Community WITH Self <- PoolAddr, config <- pool_config

drop_state == <<drop_config, latest_stage, merkle_root, claimed, received>>
contracts == <<drop_state, pool_config, balance>>
vars == <<contracts, polls, tx, direct>>

Addresses == Users \cup Owners \cup {Gov, PoolAddr, DropAddr}

\* What polls and owners send to the two contracts.
PoolMessage ==
    [kind: {"spend"}, recipient: Addresses, amount: Nat]
      \cup [kind: {"govern"}, governance_contract: Owners \cup {Gov, NONE}]
DropMessage ==
    [kind: {"register"}, root: Roots] \cup [kind: {"own"}, owner: Owners \cup {Gov, NONE}]
Message == PoolMessage \cup DropMessage

ASSUME AddressesApart ==
    /\ Gov # PoolAddr /\ Gov # DropAddr /\ PoolAddr # DropAddr
    /\ {Gov, PoolAddr, DropAddr, NONE} \cap (Users \cup Owners) = {}
ASSUME FinitelyMany ==
    IsFiniteSet(Users) /\ IsFiniteSet(PollIds) /\ IsFiniteSet(Distributions)
ASSUME BoundsAssumption == Funds \in Nat /\ U8_MAX \in Nat
ASSUME MessagesAssumption ==
    PollMessages \in [PollIds -> Seq(Message)] /\ DirectMessages \subseteq Message
ASSUME DistributionsAssumption ==
    /\ BAD \notin Nat
    /\ \A d \in Distributions :
          d.root \in Nat /\ IsFiniteSet(d.entries) /\ d.entries \subseteq [user: Users, amount: Nat, proof: Seq(Nat)]

\* Keccak256 has no collisions on what is hashed here, so that nobody proves what
\* is not a leaf of the tree.
ASSUME Keccak == Drop!NoCollisions
ASSUME ProofsAreSound ==
    \A user \in Users, amount \in Amounts, proof \in Proofs, d \in Distributions :
        Drop!RootOf(user, amount, proof) = d.root =>
            \E e \in d.entries : e.user = user /\ e.amount = amount

\* The storage that a transaction which aborts goes back to.
Storage ==
    [drop_config: [owner: Owners \cup {Gov}], latest_stage: 0..U8_MAX,
     merkle_root: UNION {[1..n -> Roots \ {BAD}] : n \in 0..U8_MAX},
     pool_config: [governance_contract: Owners \cup {Gov}], balance: [Addresses -> Nat]]
Transaction == [poll: PollIds, rest: Seq(Message), saved: Storage]
ASSUME NoneIsNoTransaction == NONE \notin Transaction

\* Every variable has the type of its storage item, within transactions too.
TypeOK ==
    /\ drop_config \in [owner: Owners \cup {Gov}]
    /\ pool_config \in [governance_contract: Owners \cup {Gov}]
    /\ merkle_root \in [1..latest_stage -> Roots \ {BAD}] /\ latest_stage \in 0..U8_MAX
    /\ claimed \subseteq Users \X DOMAIN merkle_root
    /\ received \in [Users \X Drop!Stages -> Nat]
    /\ balance \in [Addresses -> Nat]
    /\ polls \in [PollIds -> {"passed", "executed", "failed"}]
    /\ tx = NONE \/ polls[tx.poll] = "executed"
    /\ direct \subseteq DirectMessages

-----------------------------------------------------------------------------
(* A message to one of the contracts *)

Accepts(sender, m) ==
    \/ m.kind = "spend" /\ Pool!MaySpend(sender, m.amount)
    \/ m.kind = "govern" /\ Pool!MayUpdateConfig(sender)
    \/ m.kind = "register" /\ Drop!MayRegisterMerkleRoot(sender, m.root)
    \/ m.kind = "own" /\ Drop!MayUpdateConfig(sender)

Perform(sender, m) ==
    \/ /\ m.kind = "spend" /\ Pool!Spend(sender, m.recipient, m.amount)
       /\ UNCHANGED drop_state
    \/ /\ m.kind = "govern" /\ Pool!UpdateConfig(sender, m.governance_contract)
       /\ UNCHANGED drop_state
    \/ /\ m.kind = "register" /\ Drop!RegisterMerkleRoot(sender, m.root)
       /\ UNCHANGED pool_config
    \/ /\ m.kind = "own" /\ Drop!UpdateConfig(sender, m.owner)
       /\ UNCHANGED pool_config

-----------------------------------------------------------------------------
(* The execution of a poll *)

World == [drop_config |-> drop_config, latest_stage |-> latest_stage,
          merkle_root |-> merkle_root, pool_config |-> pool_config, balance |-> balance]

Mut_StatusKept(id) == polls
MarkedExecuted(id) == [polls EXCEPT ![id] = "executed"]

ExecutePoll(id) ==
    /\ tx = NONE
    /\ polls[id] = "passed"
    /\ polls' = MarkedExecuted(id)
    /\ tx' = [poll |-> id, rest |-> PollMessages[id], saved |-> World]
    /\ UNCHANGED <<contracts, direct>>

Deliver ==
    /\ tx # NONE /\ tx.rest # <<>>
    /\ Perform(Gov, Head(tx.rest))
    /\ tx' = [tx EXCEPT !.rest = Tail(@)]
    /\ UNCHANGED <<polls, direct>>

Commit ==
    /\ tx # NONE /\ tx.rest = <<>>
    /\ tx' = NONE
    /\ UNCHANGED <<contracts, polls, direct>>

\* The chain takes back what the messages did (no claim comes in between).
Mut_RootStays == [tx.saved EXCEPT !.latest_stage = latest_stage, !.merkle_root = merkle_root]
RolledBack == tx.saved

TakenBack(status) ==
    /\ drop_config' = RolledBack.drop_config
    /\ latest_stage' = RolledBack.latest_stage
    /\ merkle_root' = RolledBack.merkle_root
    /\ pool_config' = RolledBack.pool_config
    /\ balance' = RolledBack.balance
    /\ polls' = [polls EXCEPT ![tx.poll] = status]
    /\ tx' = NONE
    /\ UNCHANGED <<claimed, received, direct>>

\* reply, fail_poll
FailPoll ==
    /\ tx # NONE /\ tx.rest # <<>>
    /\ ~Accepts(Gov, Head(tx.rest))
    /\ TakenBack("failed")

\* The whole transaction is gone: the poll can be executed again.
OutOfGas == tx # NONE /\ TakenBack("passed")

-----------------------------------------------------------------------------

\* A message of an account that owns a contract, or would like to.
Direct(sender, m) ==
    /\ tx = NONE
    /\ m \notin direct
    /\ Perform(sender, m)
    /\ direct' = direct \cup {m}
    /\ UNCHANGED <<polls, tx>>

Claim(user, stage, amount, proof) ==
    /\ tx = NONE
    /\ Drop!Claim(user, stage, amount, proof)
    /\ UNCHANGED <<pool_config, polls, tx, direct>>

Init ==
    /\ Drop!Init(Gov)
    /\ Pool!Init(Gov)
    /\ balance = [a \in Addresses |-> IF a = PoolAddr THEN Funds ELSE 0]
    /\ polls = [id \in PollIds |-> "passed"]
    /\ tx = NONE
    /\ direct = {}

Next ==
    \/ \E id \in PollIds : ExecutePoll(id)
    \/ Deliver
    \/ Commit
    \/ FailPoll
    \/ OutOfGas
    \/ \E sender \in Owners, m \in DirectMessages : Direct(sender, m)
    \/ \E user \in Users, stage \in Drop!Stages, amount \in Amounts, proof \in Proofs :
          Claim(user, stage, amount, proof)

Spec == Init /\ [][Next]_vars

-----------------------------------------------------------------------------
(* Properties *)

Executed == {id \in PollIds : polls[id] = "executed"}

\* What a message adds to a number of the contracts when it takes effect.  What
\* the pool spends on itself it keeps.
Registrations == [m \in Message |-> IF m.kind = "register" THEN 1 ELSE 0]
Withdrawn ==
    [m \in Message |-> IF m.kind = "spend" /\ m.recipient # PoolAddr THEN m.amount ELSE 0]
SpentOn(to) ==
    [m \in Message |-> IF m.kind = "spend" /\ m.recipient = to THEN m.amount ELSE 0]

\* What the messages of a list add, and what all those in effect have added if
\* the polls `ids` have taken effect.
Effect(weight, list) == SumFunction([k \in DOMAIN list |-> weight[list[k]]])
DoneBy(ids, weight) ==
    SumFunction([id \in ids |-> Effect(weight, PollMessages[id])])
      + SumFunction([m \in direct |-> weight[m]])
Done(weight) == DoneBy(Executed, weight)

Received(a) ==
    IF a \in Users THEN SumFunction([s \in Drop!Stages |-> received[<<a, s>>]]) ELSE 0

\* Between transactions the contracts are as if the executed polls, and none of
\* the failed ones, had taken effect, each once and with all of its messages:
\* every balance and the number of stages follow (execute_poll_messages sends
\* the messages of a poll in one submessage).
AllOrNothing ==
    tx = NONE =>
        /\ latest_stage = Done(Registrations)
        /\ balance[PoolAddr] = Funds - Done(Withdrawn)
        /\ balance[DropAddr] = Done(SpentOn(DropAddr)) - SumFunction(received)
        /\ \A a \in Addresses \ {PoolAddr, DropAddr} :
              balance[a] = Done(SpentOn(a)) + Received(a)

\* The polls pay for the stages they register (a registration without a poll
\* may not).
OnlyPollsRegister == \A m \in direct : m.kind # "register"

EntriesOf(root) == UNION {d.entries : d \in {x \in Distributions : x.root = root}}
\* The most that a user can be paid of a tree, and is still to be paid for a stage.
Entitled(user, root) ==
    Max({0} \cup {e.amount : e \in {x \in EntriesOf(root) : x.user = user}})
Outstanding(user, stage) ==
    IF <<user, stage>> \in claimed THEN 0 ELSE Entitled(user, merkle_root[stage])

\* What a poll has to give the airdrop for the stages it registers.
TreeCost(root) == SumFunction([u \in Users |-> Entitled(u, root)])
Costs == [m \in Message |-> IF m.kind = "register" THEN TreeCost(m.root) ELSE 0]
PollsFundStages ==
    \A id \in PollIds :
        Effect(Costs, PollMessages[id]) <= Effect(SpentOn(DropAddr), PollMessages[id])

\* Whatever polls fail, run out of gas or compete for the pool, and whoever
\* claims in which order, the airdrop holds what its stages still owe.
StagesFunded ==
    tx = NONE /\ OnlyPollsRegister =>
        SumFunction([k \in Users \X DOMAIN merkle_root |-> Outstanding(k[1], k[2])])
            <= balance[DropAddr]

\* The proof published with an entry is one of its tree.
ProofsLead ==
    \A d \in Distributions : \A e \in d.entries :
        Drop!RootOf(e.user, e.amount, e.proof) = d.root

\* An entry of a registered stage that comes to anything can be claimed, with
\* its proof, until its user has been paid for that stage, in whatever order the
\* leaves were hashed and whatever was claimed or failed in other stages.
EntitledCanClaim ==
    tx = NONE /\ OnlyPollsRegister =>
        \A stage \in DOMAIN merkle_root : \A e \in EntriesOf(merkle_root[stage]) :
            e.amount > 0 /\ received[<<e.user, stage>>] = 0 =>
                Drop!MayClaim(e.user, stage, e.amount, e.proof)

\* The contracts as other transactions see them: without those of an open one.
Visible == IF tx = NONE THEN World ELSE tx.saved

\* Once the pool is handed over no poll takes anything out of it any more, one
\* that passed before or that spends elsewhere as well included (Community's
\* check, which every message of a poll meets again).
HandoverBindsStep ==
    Visible'.balance[PoolAddr] < Visible.balance[PoolAddr] =>
        IF tx = NONE
        THEN Visible.pool_config.governance_contract \in Owners
        ELSE Visible.pool_config.governance_contract = Gov
HandoverBinds == [][HandoverBindsStep]_vars

Granted(roots) ==
    UNION {{[stage |-> s, user |-> e.user, amount |-> e.amount] : e \in EntriesOf(roots[s])} :
              s \in DOMAIN roots}

Promise == INSTANCE Entitlements WITH
    Stages <- Drop!Stages, granted <- Granted(Visible.merkle_root), paid <- received

\* Users are paid what the trees of the stages hold, once a stage, and nothing
\* else: for any order of claims, with any proof, amount and stage.
ImplementsEntitlements == Promise!ESpec

=============================================================================
