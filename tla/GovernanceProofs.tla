--------------------------- MODULE GovernanceProofs ---------------------------
(***************************************************************************)
(* What holds of the governance contract for any number of users, polls,   *)
(* amounts and any configuration.  The invariants are proved in layers:    *)
(* types first, then each invariant from the types and those before it.    *)
(***************************************************************************)
EXTENDS Governance, CosmMathProofs

-----------------------------------------------------------------------------
(* Facts about the helpers *)

LEMMA NoneFacts ==
    /\ NONE \notin Nat /\ NONE \notin Principals /\ NONE \notin Tokens
    /\ NONE \notin Messages
  BY NoneIsNotAValue

\* Storing a poll under an existing or the next id keeps the type of POLL.
LEMMA StorePollType ==
    ASSUME NEW n \in Nat, NEW m \in Nat, NEW id \in 1..m, NEW p \in Poll,
           poll \in [1..n -> Poll], m = n \/ (m = n + 1 /\ id = m),
           StorePoll(id, p)
    PROVE  poll' \in [1..m -> Poll]
  <1>1. DOMAIN poll = 1..n
    OBVIOUS
  <1>2. 1..n \cup {id} = 1..m
    OBVIOUS
  <1>. QED
    BY <1>1, <1>2 DEF StorePoll

\* update_config keeps the type of the config.
LEMMA UpdatedType ==
    ASSUME NEW c \in ConfigType, NEW u \in UpdateType
    PROVE  Updated(c, u) \in ConfigType
  BY DEF Updated, OrElse, ConfigType, UpdateType

LEMMA UpdatesTyped == ConfigUpdates \subseteq UpdateType
  BY MessagesAssumption DEF ConfigUpdates

\* The ballots a user has locked are finitely many.
FiniteLocks == \A u \in Users : IsFiniteSet(bank[u].locked_balance)

\* The largest lock is a natural, and no lock is larger.
LEMMA LockedBalanceType ==
    ASSUME TypeOK, FiniteLocks, NEW user \in Users
    PROVE  /\ LockedBalance(user) \in Nat
           /\ \A b \in ActiveLocks(user) : b.balance <= LockedBalance(user)
  <1>. DEFINE L == ActiveLocks(user)
              B == {b.balance : b \in L}
              f == [b \in L |-> b.balance]
  <1>1. bank[user].locked_balance \in SUBSET Ballot
    BY DEF TypeOK, TokenManager
  <1>2. L \in SUBSET Ballot /\ IsFiniteSet(L)
    BY <1>1, FS_Subset DEF FiniteLocks, ActiveLocks
  <1>3. B \in SUBSET Nat
    BY <1>2 DEF Ballot
  <1>4. f \in Surjection(L, B)
    BY DEF Surjection
  <1>5. IsFiniteSet(B)
    BY <1>2, <1>4, FS_Surjection
  <1>. QED
    BY <1>3, <1>5, MaxOrZeroType DEF LockedBalance

-----------------------------------------------------------------------------
(* Types *)

TypeInv == TypeOK /\ FiniteLocks

LEMMA InitTypeInv == Init => TypeInv
  <1>. SUFFICES ASSUME Init PROVE TypeInv
    OBVIOUS
  <1>1. config \in ConfigType
    BY InitConfigsAssumption DEF Init
  <1>2. state \in StateType /\ psi_balance \in Nat /\ now \in Nat
    BY DEF Init, StateType
  <1>3. bank \in [Users -> TokenManager] /\ FiniteLocks
    BY FS_EmptySet DEF Init, TokenManager, FiniteLocks
  <1>4. poll \in [1..state.poll_count -> Poll]
    BY DEF Init
  <1>5. poll_indexer \in SUBSET (PollStatus \X Nat) /\ poll_voter \in [Users -> SUBSET Ballot]
    BY DEF Init
  <1>6. tmp_poll_id \in Nat \cup {NONE}
    BY DEF Init
  <1>. QED
    BY <1>1, <1>2, <1>3, <1>4, <1>5, <1>6 DEF TypeInv, TypeOK

\* A handler that leaves the polls alone, and one that changes a poll.
LEMMA ReindexType ==
    ASSUME poll_indexer \in SUBSET (PollStatus \X Nat), NEW ids \in SUBSET Nat,
           NEW from, NEW to \in PollStatus, Reindex(from, to, ids)
    PROVE  poll_indexer' \in SUBSET (PollStatus \X Nat)
  BY DEF Reindex

LEMMA ConfigTypeInv ==
    ASSUME TypeInv,
           \/ \E token \in Tokens : RegisterToken(token)
           \/ \E sender \in Users, update \in ConfigUpdates : UpdateConfig(sender, update)
    PROVE  TypeInv'
  <1>1. config' \in ConfigType
    <2>1. CASE \E token \in Tokens : RegisterToken(token)
      BY <2>1 DEF TypeInv, TypeOK, RegisterToken, ConfigType
    <2>2. CASE \E sender \in Users, update \in ConfigUpdates : UpdateConfig(sender, update)
      BY <2>2, UpdatesTyped, UpdatedType DEF TypeInv, TypeOK, UpdateConfig
    <2>. QED
      BY <2>1, <2>2
  <1>2. UNCHANGED <<state, bank, poll, poll_indexer, poll_voter, tmp_poll_id,
                    psi_balance, now>>
    BY DEF RegisterToken, UpdateConfig
  <1>. QED
    BY <1>1, <1>2 DEF TypeInv, TypeOK, FiniteLocks

LEMMA MintedShareType ==
    ASSUME TypeOK, DepositsCovered, NEW amount \in Nat
    PROVE  MintedShare(amount) \in Nat
  <1>1. Staked \in Nat /\ state.total_share \in Nat
    BY DEF TypeOK, StateType, Staked, DepositsCovered
  <1>2. CASE Staked = 0 \/ state.total_share = 0
    BY <1>2 DEF MintedShare
  <1>3. CASE Staked # 0
    BY <1>1, <1>3, MultiplyRatioType DEF MintedShare, AmountToShare
  <1>. QED
    BY <1>2, <1>3

LEMMA StakeTypeInv ==
    ASSUME TypeInv, NEW user \in Users, NEW amount \in Amounts,
           StakeVotingTokens(user, amount)
    PROVE  TypeInv'
  <1>1. amount \in Nat /\ MintedShare(amount) \in Nat
    BY AmountsAssumption, MintedShareType DEF StakeVotingTokens, TypeInv
  <1>2. state' \in StateType /\ state'.poll_count = state.poll_count
    BY <1>1, SMTT(30) DEF StakeVotingTokens, TypeInv, TypeOK, StateType
  <1>3. bank' \in [Users -> TokenManager]
    <2>. DEFINE manager == [bank[user] EXCEPT !.share = @ + MintedShare(amount)]
    <2>1. bank' = [bank EXCEPT ![user] = manager]
      BY DEF StakeVotingTokens
    <2>2. manager \in TokenManager
      <3>1. bank[user] \in TokenManager
        BY DEF TypeInv, TypeOK
      <3>2. bank[user].share + MintedShare(amount) \in Nat
        BY <1>1, <3>1 DEF TokenManager
      <3>. QED
        BY <3>1, <3>2 DEF TokenManager
    <2>. HIDE DEF manager
    <2>. QED
      BY <2>1, <2>2 DEF TypeInv, TypeOK
  <1>4. FiniteLocks'
    <2>1. \A u \in Users : bank'[u].locked_balance = bank[u].locked_balance
      BY DEF StakeVotingTokens, TypeInv, TypeOK, TokenManager
    <2>. QED
      BY <2>1 DEF TypeInv, FiniteLocks
  <1>5. psi_balance' \in Nat
    BY <1>1 DEF StakeVotingTokens, TypeInv, TypeOK
  <1>. QED
    BY <1>2, <1>3, <1>4, <1>5 DEF StakeVotingTokens, TypeInv, TypeOK

LEMMA CreatePollTypeInv ==
    ASSUME TypeInv, NEW amount \in Amounts, NEW data \in Messages \cup {NONE},
           CreatePoll(amount, data)
    PROVE  TypeInv'
  <1>. DEFINE id == state.poll_count + 1
              new == [status |-> "in_progress", yes_votes |-> 0, no_votes |-> 0,
                      end_time |-> now + config.voting_period,
                      execute_data |-> data, deposit_amount |-> amount,
                      total_balance_at_end_poll |-> NONE, staked_amount |-> NONE]
  <1>1. amount \in Nat /\ id \in Nat /\ state.poll_count \in Nat
    BY AmountsAssumption DEF TypeInv, TypeOK, StateType
  <1>2. state' \in StateType /\ state'.poll_count = id
    <2>1. state' = [state EXCEPT !.poll_count = id,
                                 !.total_deposit = state.total_deposit + amount]
      BY DEF CreatePoll
    <2>2. state.total_deposit + amount \in Nat
      BY <1>1 DEF TypeInv, TypeOK, StateType
    <2>. HIDE DEF id
    <2>. QED
      BY <1>1, <2>1, <2>2 DEF TypeInv, TypeOK, StateType
  <1>3. new \in Poll
    BY <1>1 DEF Poll, PollStatus, TypeInv, TypeOK, ConfigType
  <1>4. poll' \in [1..id -> Poll]
    <2>1. StorePoll(id, new)
      BY DEF CreatePoll
    <2>2. id \in 1..id
      BY <1>1
    <2>. QED
      BY <1>1, <1>3, <2>1, <2>2, StorePollType DEF TypeInv, TypeOK
  <1>5. poll_indexer' \in SUBSET (PollStatus \X Nat)
    BY <1>1 DEF CreatePoll, TypeInv, TypeOK, PollStatus
  <1>6. psi_balance' \in Nat
    BY <1>1 DEF CreatePoll, TypeInv, TypeOK
  <1>. QED
    BY <1>2, <1>4, <1>5, <1>6 DEF CreatePoll, TypeInv, TypeOK, FiniteLocks

\* What an existing poll is made of.
LEMMA PollFacts ==
    ASSUME TypeOK, NEW id \in DOMAIN poll
    PROVE  /\ state.poll_count \in Nat
           /\ id \in Nat /\ id \in 1..state.poll_count
           /\ poll[id] \in Poll
           /\ DOMAIN poll = 1..state.poll_count
  BY DEF TypeOK, StateType

\* Storing a poll of the right type under an existing id.
LEMMA UpdatePollType ==
    ASSUME TypeOK, NEW id \in DOMAIN poll, NEW p \in Poll, StorePoll(id, p)
    PROVE  poll' \in [1..state.poll_count -> Poll]
  BY PollFacts, StorePollType DEF TypeOK

LEMMA CastVoteTypeInv ==
    ASSUME TypeInv, NEW user \in Users, NEW id \in PollIds, NEW vote \in VoteOption,
           NEW amount \in Amounts, CastVote(user, id, vote, amount)
    PROVE  TypeInv'
  <1>. DEFINE p == poll[id]
              ballot == [poll |-> id, vote |-> vote, balance |-> amount]
              yes == IF vote = "yes" THEN p.yes_votes + amount ELSE p.yes_votes
              no == IF vote = "no" THEN p.no_votes + amount ELSE p.no_votes
              q == [p EXCEPT !.yes_votes = yes, !.no_votes = no,
                             !.staked_amount = SnapshotOnVote(p)]
  <1>1. id \in DOMAIN poll /\ id \in Nat /\ p \in Poll
    BY PollFacts DEF CastVote, TypeInv
  <1>2. amount \in Nat /\ ballot \in Ballot
    BY <1>1, AmountsAssumption DEF Ballot
  <1>3. SnapshotOnVote(p) \in Nat \cup {NONE}
    <2>1. Staked \in Nat
      BY DEF CastVote, TypeInv, TypeOK, StateType, Staked, DepositsCovered
    <2>. QED
      BY <1>1, <2>1 DEF SnapshotOnVote, Poll
  <1>4. q \in Poll
    <2>1. yes \in Nat /\ no \in Nat
      BY <1>1, <1>2 DEF Poll
    <2>. HIDE DEF p, yes, no
    <2>. QED
      BY <1>1, <1>3, <2>1 DEF Poll
  <1>5. poll' \in [1..state.poll_count -> Poll]
    <2>1. StorePoll(id, q)
      BY DEF CastVote
    <2>. QED
      BY <1>1, <1>4, <2>1, UpdatePollType DEF TypeInv
  <1>. DEFINE manager == [bank[user] EXCEPT !.locked_balance = @ \cup {ballot}]
  <1>6. bank' = [bank EXCEPT ![user] = manager] /\ manager \in TokenManager
    BY <1>2 DEF CastVote, TypeInv, TypeOK, TokenManager
  <1>7. FiniteLocks'
    <2>1. manager.locked_balance = bank[user].locked_balance \cup {ballot}
      BY DEF TypeInv, TypeOK, TokenManager
    <2>2. IsFiniteSet(manager.locked_balance)
      BY <2>1, FS_AddElement, ZenonT(30) DEF TypeInv, FiniteLocks
    <2>. HIDE DEF manager
    <2>. QED
      BY <1>6, <2>2 DEF TypeInv, TypeOK, FiniteLocks
  <1>8. poll_voter' \in [Users -> SUBSET Ballot]
    BY <1>2 DEF CastVote, StoreVoter, TypeInv, TypeOK
  <1>. QED
    BY <1>5, <1>6, <1>7, <1>8 DEF CastVote, TypeInv, TypeOK

LEMMA SnapshotTypeInv ==
    ASSUME TypeInv, NEW id \in PollIds, SnapshotPoll(id)
    PROVE  TypeInv'
  <1>. DEFINE q == [poll[id] EXCEPT !.staked_amount = Staked]
  <1>1. id \in DOMAIN poll /\ poll[id] \in Poll
    BY PollFacts DEF SnapshotPoll, TypeInv
  <1>2. Staked \in Nat
    BY DEF SnapshotPoll, TypeInv, TypeOK, StateType, Staked, DepositsCovered
  <1>3. q \in Poll
    BY <1>1, <1>2 DEF Poll
  <1>4. poll' \in [1..state.poll_count -> Poll]
    <2>1. StorePoll(id, q)
      BY DEF SnapshotPoll
    <2>. QED
      BY <1>1, <1>3, <2>1, UpdatePollType DEF TypeInv
  <1>. QED
    BY <1>4 DEF SnapshotPoll, TypeInv, TypeOK, FiniteLocks

\* What end_poll writes down as the stake voted on is a number.
LEMMA StakedWeightType ==
    ASSUME TypeInv, NEW id \in DOMAIN poll, WeightIsComputable(poll[id])
    PROVE  StakedWeight(poll[id]) \in Nat
  <1>. DEFINE p == poll[id]
  <1>1. p \in Poll
    BY PollFacts DEF TypeInv
  <1>2. CASE state.total_share = 0
    BY <1>2 DEF StakedWeight
  <1>3. CASE state.total_share # 0 /\ p.staked_amount # NONE
    BY <1>1, <1>3 DEF StakedWeight, Poll
  <1>4. CASE state.total_share # 0 /\ p.staked_amount = NONE
    <2>1. DepositsCovered
      BY <1>4 DEF WeightIsComputable
    <2>. QED
      BY <1>4, <2>1 DEF StakedWeight, Staked, DepositsCovered, TypeInv, TypeOK, StateType
  <1>. QED
    BY <1>2, <1>3, <1>4

LEMMA EndPollTypeInv ==
    ASSUME TypeInv, NEW id \in PollIds, EndPoll(id)
    PROVE  TypeInv'
  <1>. DEFINE p == poll[id]
              outcome == IF Approved(p) THEN "passed" ELSE "rejected"
              q == [p EXCEPT !.status = outcome,
                             !.total_balance_at_end_poll = StakedWeight(p)]
  <1>1. id \in DOMAIN poll /\ id \in Nat /\ p \in Poll
    BY PollFacts DEF EndPoll, TypeInv
  <1>2. StakedWeight(p) \in Nat
    BY <1>1, StakedWeightType DEF EndPoll
  <1>3. q \in Poll /\ outcome \in PollStatus
    BY <1>1, <1>2 DEF Poll, PollStatus
  <1>4. poll' \in [1..state.poll_count -> Poll]
    <2>1. StorePoll(id, q)
      BY DEF EndPoll
    <2>. QED
      BY <1>1, <1>3, <2>1, UpdatePollType DEF TypeInv
  <1>5. state' \in StateType /\ state'.poll_count = state.poll_count
    <2>. DEFINE d == DepositAfter(p)
    <2>1. state' = [state EXCEPT !.total_deposit = d] /\ d >= 0
      BY DEF EndPoll
    <2>2. d \in Nat
      BY <1>1, <2>1 DEF DepositAfter, TypeInv, TypeOK, StateType, Poll
    <2>. HIDE DEF d
    <2>. QED
      BY <2>1, <2>2 DEF TypeInv, TypeOK, StateType
  <1>6. psi_balance' \in Nat
    <2>1. Refund(p) \in Nat
      BY <1>1 DEF Refund, Poll
    <2>. QED
      BY <2>1 DEF EndPoll, CanPay, TypeInv, TypeOK
  <1>7. poll_indexer' \in SUBSET (PollStatus \X Nat)
    <2>1. Reindex("in_progress", outcome, {id})
      BY DEF EndPoll
    <2>. QED
      BY <1>1, <1>3, <2>1, ReindexType DEF TypeInv, TypeOK
  <1>. QED
    BY <1>4, <1>5, <1>6, <1>7 DEF EndPoll, TypeInv, TypeOK, FiniteLocks

\* What the execution of poll `id` does to the polls: it and those it runs, one
\* by the message of another, are executed, or it alone fails.
Executing(id, ran, status) ==
    /\ id \in ran /\ ran \subseteq DOMAIN poll
    /\ status \in {"executed", "failed"}
    /\ Reindex("passed", status, ran)
    /\ StoreStatus(ran, status)
    /\ status = "failed" => ran = {id} /\ UNCHANGED config
    /\ \A i \in ran \ {id} : \E j \in ran : poll[j].execute_data = [poll_id |-> i]

\* The polls of a chain begin with `id`, and each other one is run by one of them.
LEMMA ChainFacts ==
    ASSUME TypeOK, NEW id, NEW run \in Chains(id)
    PROVE  /\ id \in Range(run) /\ Range(run) \subseteq DOMAIN poll
           /\ \A i \in Range(run) \ {id} :
                 \E j \in Range(run) : poll[j].execute_data = [poll_id |-> i]
  <1>1. DOMAIN poll = 1..state.poll_count /\ state.poll_count \in Nat
    BY DEF TypeOK, StateType
  <1>2. PICK n \in DOMAIN poll : run \in [1..n -> DOMAIN poll]
    BY DEF Chains
  <1>3. /\ run[1] = id
        /\ \A k \in DOMAIN run \ {1} : poll[run[k - 1]].execute_data = [poll_id |-> run[k]]
    BY DEF Chains
  <1>4. n \in Nat /\ n >= 1 /\ DOMAIN run = 1..n
    BY <1>1, <1>2
  <1>5. id \in Range(run) /\ Range(run) \subseteq DOMAIN poll
    BY <1>2, <1>3, <1>4 DEF Range
  <1>6. ASSUME NEW i \in Range(run) \ {id}
        PROVE  \E j \in Range(run) : poll[j].execute_data = [poll_id |-> i]
    <2>1. PICK k \in DOMAIN run : i = run[k]
      BY <1>6 DEF Range
    <2>2. k # 1
      BY <1>3, <1>6, <2>1
    <2>3. k - 1 \in DOMAIN run
      BY <1>4, <2>2
    <2>4. run[k - 1] \in Range(run)
      BY <2>3 DEF Range
    <2>. QED
      BY <1>3, <2>1, <2>2, <2>4
  <1>. QED
    BY <1>5, <1>6

LEMMA ExecutePollEffect ==
    ASSUME TypeOK, NEW id, ExecutePoll(id)
    PROVE  \E ran, status : Executing(id, ran, status)
  <1>1. id \in DOMAIN poll
    BY DEF ExecutePoll
  <1>2. CASE ExecutePollMessages(id)
    <2>1. PICK run \in Chains(id) :
             Reindex("passed", "executed", Range(run)) /\ StoreStatus(Range(run), "executed")
      BY <1>2 DEF ExecutePollMessages
    <2>2. Executing(id, Range(run), "executed")
      BY <2>1, ChainFacts DEF Executing
    <2>. QED
      BY <2>2
  <1>3. CASE FailPoll(id)
    <2>1. Executing(id, {id}, "failed")
      BY <1>1, <1>3 DEF Executing, FailPoll
    <2>. QED
      BY <2>1
  <1>. QED
    BY <1>2, <1>3 DEF ExecutePoll

\* What becomes of the polls: those executed change their status and nothing else.
ExecutedPolls(id, ran, status) ==
    /\ id \in ran /\ ran \subseteq DOMAIN poll
    /\ DOMAIN poll' = DOMAIN poll
    /\ \A i \in DOMAIN poll : i \notin ran => poll'[i] = poll[i]
    /\ \A i \in ran : poll'[i].status = status
    /\ \A i \in DOMAIN poll :
          /\ poll'[i].yes_votes = poll[i].yes_votes
          /\ poll'[i].no_votes = poll[i].no_votes
          /\ poll'[i].execute_data = poll[i].execute_data
          /\ poll'[i].deposit_amount = poll[i].deposit_amount
          /\ poll'[i].total_balance_at_end_poll = poll[i].total_balance_at_end_poll

LEMMA ExecutedPollsIs ==
    ASSUME TypeOK, NEW id, NEW ran, NEW status, Executing(id, ran, status)
    PROVE  ExecutedPolls(id, ran, status)
  <1>1. /\ id \in ran /\ ran \subseteq DOMAIN poll
        /\ DOMAIN poll' = DOMAIN poll
        /\ \A i \in DOMAIN poll :
              poll'[i] = IF i \in ran THEN [poll[i] EXCEPT !.status = status] ELSE poll[i]
    BY DEF Executing, StoreStatus
  <1>2. \A i \in DOMAIN poll : poll[i] \in Poll
    BY PollFacts
  <1>. QED
    BY <1>1, <1>2 DEF ExecutedPolls, Poll

\* No other poll is run unless a poll says so.
LEMMA RunsAlone ==
    ASSUME TypeOK, NoYourself, NEW id, NEW ran, NEW status, Executing(id, ran, status)
    PROVE  ran = {id}
  <1>1. ASSUME NEW i \in ran \ {id} PROVE FALSE
    <2>1. PICK j \in ran : poll[j].execute_data = [poll_id |-> i]
      BY <1>1 DEF Executing
    <2>2. i \in Nat /\ j \in DOMAIN poll
      BY <1>1, PollFacts DEF Executing
    <2>3. poll[j].execute_data \in ExecutePollMsgs
      BY <2>1, <2>2 DEF ExecutePollMsgs
    <2>. QED
      BY <2>2, <2>3 DEF NoYourself
  <1>. QED
    BY <1>1 DEF Executing

LEMMA ExecutePollTypeInv ==
    ASSUME TypeInv, NEW id \in PollIds, ExecutePoll(id)
    PROVE  TypeInv'
  <1>1. id \in Nat
    BY PollFacts DEF ExecutePoll, TypeInv
  <1>2. PICK ran, status : Executing(id, ran, status)
    BY ExecutePollEffect DEF TypeInv
  <1>3. ran \subseteq DOMAIN poll /\ ran \in SUBSET Nat /\ status \in PollStatus
    BY <1>2, PollFacts DEF Executing, PollStatus, TypeInv
  <1>4. poll' \in [1..state.poll_count -> Poll]
    <2>1. DOMAIN poll = 1..state.poll_count /\ \A i \in DOMAIN poll : poll[i] \in Poll
      BY DEF TypeInv, TypeOK
    <2>2. \A i \in DOMAIN poll : [poll[i] EXCEPT !.status = status] \in Poll
      BY <1>3, <2>1 DEF Poll
    <2>3. poll' = [i \in DOMAIN poll |->
                     IF i \in ran THEN [poll[i] EXCEPT !.status = status] ELSE poll[i]]
      BY <1>2 DEF Executing, StoreStatus
    <2>. QED
      BY <2>1, <2>2, <2>3, Zenon
  <1>5. poll_indexer' \in SUBSET (PollStatus \X Nat)
    BY <1>2, <1>3, ReindexType DEF TypeInv, TypeOK, Executing
  <1>6. config' \in ConfigType
    <2>1. CASE UNCHANGED config
      BY <2>1 DEF TypeInv, TypeOK
    <2>2. ASSUME NEW update \in ConfigUpdates, config' = Updated(config, update)
          PROVE  config' \in ConfigType
      BY <2>2, UpdatesTyped, UpdatedType DEF TypeInv, TypeOK
    <2>. QED
      BY <2>1, <2>2 DEF ExecutePoll, ExecutePollMessages, FailPoll
  <1>7. tmp_poll_id' \in Nat \cup {NONE}
    BY <1>1 DEF ExecutePoll
  <1>. QED
    BY <1>4, <1>5, <1>6, <1>7 DEF ExecutePoll, TypeInv, TypeOK, FiniteLocks

\* The numbers of a withdrawal that succeeds.
LEMMA WithdrawFacts ==
    ASSUME TypeInv, NEW user \in Users, NEW amount \in Amounts \cup {NONE},
           WithdrawVotingTokens(user, amount)
    PROVE  /\ WithdrawShare(user, amount) \in Nat
           /\ WithdrawAmount(user, amount) \in Nat
           /\ LockedShare(user) \in Nat
           /\ bank[user].share \in Nat /\ state.total_share \in Nat
           /\ Staked \in Nat \ {0}
           /\ amount # NONE => amount \in Nat
  <1>1. Staked \in Nat \ {0} /\ state.total_share \in Nat /\ bank[user].share \in Nat
    BY DEF WithdrawVotingTokens, MayWithdraw, Staked, TypeInv, TypeOK, StateType, TokenManager
  <1>2. LockedShare(user) \in Nat
    BY <1>1, LockedBalanceType, MultiplyRatioType DEF LockedShare, AmountToShare, TypeInv
  <1>3. amount # NONE => amount \in Nat
    BY AmountsAssumption
  <1>4. WithdrawShare(user, amount) \in Nat
    <2>1. CASE amount = NONE
      BY <1>1, <1>2, <2>1 DEF WithdrawVotingTokens, MayWithdraw, WithdrawShare
    <2>2. CASE amount # NONE
      BY <1>1, <1>3, <2>2, MultiplyRatioType DEF WithdrawShare, AmountToShare, MaxOf
    <2>. QED
      BY <2>1, <2>2
  <1>5. WithdrawAmount(user, amount) \in Nat
    <2>1. CASE amount = NONE
      <3>1. state.total_share \in Nat \ {0}
        BY <1>1, <2>1 DEF WithdrawVotingTokens, MayWithdraw
      <3>. QED
        BY <1>1, <1>4, <2>1, <3>1, MultiplyRatioType DEF WithdrawAmount, ShareToAmount
    <2>2. CASE amount # NONE
      BY <1>3, <2>2 DEF WithdrawAmount
    <2>. QED
      BY <2>1, <2>2
  <1>. QED
    BY <1>1, <1>2, <1>3, <1>4, <1>5

LEMMA WithdrawTypeInv ==
    ASSUME TypeInv, NEW user \in Users, NEW amount \in Amounts \cup {NONE},
           WithdrawVotingTokens(user, amount)
    PROVE  TypeInv'
  <1>. DEFINE share == WithdrawShare(user, amount)
              manager == [share |-> ShareAfter(user, share),
                          locked_balance |-> ActiveLocks(user)]
  <1>0. /\ share \in Nat /\ WithdrawAmount(user, amount) \in Nat
        /\ LockedShare(user) \in Nat /\ bank[user].share \in Nat
        /\ state.total_share \in Nat
    BY WithdrawFacts
  <1>1. state' \in StateType /\ state'.poll_count = state.poll_count
    <2>1. state.total_share - share \in Nat
      BY <1>0 DEF WithdrawVotingTokens, MayWithdraw
    <2>2. state' = [state EXCEPT !.total_share = @ - share]
      BY DEF WithdrawVotingTokens, MayWithdraw
    <2>. HIDE DEF share
    <2>. QED
      BY <2>1, <2>2 DEF TypeInv, TypeOK, StateType
  <1>2. psi_balance' \in Nat
    BY <1>0 DEF WithdrawVotingTokens, MayWithdraw, CanPay, TypeInv, TypeOK
  <1>3. ActiveLocks(user) \in SUBSET Ballot /\ IsFiniteSet(ActiveLocks(user))
    <2>1. bank[user].locked_balance \in SUBSET Ballot
      BY DEF TypeInv, TypeOK, TokenManager
    <2>. QED
      BY <2>1, FS_Subset DEF ActiveLocks, TypeInv, FiniteLocks
  <1>4. ShareAfter(user, share) \in Nat
    BY <1>0 DEF WithdrawVotingTokens, MayWithdraw, ShareAfter
  <1>5. bank' = [bank EXCEPT ![user] = manager] /\ manager \in TokenManager
    BY <1>3, <1>4 DEF WithdrawVotingTokens, MayWithdraw, TokenManager
  <1>6. bank' \in [Users -> TokenManager] /\ FiniteLocks'
    <2>1. IsFiniteSet(manager.locked_balance)
      BY <1>3
    <2>. HIDE DEF manager
    <2>. QED
      BY <1>5, <2>1 DEF TypeInv, TypeOK, FiniteLocks
  <1>7. poll_voter' \in [Users -> SUBSET Ballot]
    BY DEF WithdrawVotingTokens, MayWithdraw, RetainedVoters, TypeInv, TypeOK
  <1>. QED
    BY <1>1, <1>2, <1>6, <1>7 DEF WithdrawVotingTokens, MayWithdraw, TypeInv, TypeOK

LEMMA EnvironmentTypeInv ==
    ASSUME TypeInv, (\E amount \in Amounts : TransferIn(amount)) \/ Tick
    PROVE  TypeInv'
  <1>1. psi_balance' \in Nat /\ now' \in Nat
    BY AmountsAssumption DEF TransferIn, Tick, TypeInv, TypeOK
  <1>2. UNCHANGED <<config, state, bank, poll, poll_indexer, poll_voter, tmp_poll_id>>
    BY DEF TransferIn, Tick
  <1>. QED
    BY <1>1, <1>2 DEF TypeInv, TypeOK, FiniteLocks

LEMMA NextTypeInv == TypeInv /\ [Next]_vars => TypeInv'
  <1>. SUFFICES ASSUME TypeInv, [Next]_vars PROVE TypeInv'
    OBVIOUS
  <1>1. CASE \/ \E token \in Tokens : RegisterToken(token)
             \/ \E sender \in Users, update \in ConfigUpdates : UpdateConfig(sender, update)
    BY <1>1, ConfigTypeInv
  <1>2. CASE \E user \in Users, amount \in Amounts : StakeVotingTokens(user, amount)
    BY <1>2, StakeTypeInv
  <1>3. CASE \E amount \in Amounts, data \in Messages \cup {NONE} : CreatePoll(amount, data)
    BY <1>3, CreatePollTypeInv
  <1>4. CASE \E user \in Users, id \in PollIds, vote \in VoteOption, amount \in Amounts :
                CastVote(user, id, vote, amount)
    BY <1>4, CastVoteTypeInv
  <1>5. CASE \E id \in PollIds : SnapshotPoll(id)
    BY <1>5, SnapshotTypeInv
  <1>6. CASE \E id \in PollIds : EndPoll(id)
    BY <1>6, EndPollTypeInv
  <1>7. CASE \E id \in PollIds : ExecutePoll(id)
    BY <1>7, ExecutePollTypeInv
  <1>8. CASE \E user \in Users, amount \in Amounts \cup {NONE} :
                WithdrawVotingTokens(user, amount)
    BY <1>8, WithdrawTypeInv
  <1>9. CASE (\E amount \in Amounts : TransferIn(amount)) \/ Tick
    BY <1>9, EnvironmentTypeInv
  <1>10. CASE UNCHANGED vars
    BY <1>10 DEF vars, TypeInv, TypeOK, FiniteLocks
  <1>. QED
    BY <1>1, <1>2, <1>3, <1>4, <1>5, <1>6, <1>7, <1>8, <1>9, <1>10 DEF Next

\* Every storage item keeps the type it is declared with: no balance, share,
\* deposit or tally underflows, and no key of a missing poll is stored.
THEOREM TypeCorrect == Spec => []TypeOK
  <1>1. Spec => []TypeInv
    BY InitTypeInv, NextTypeInv, PTL DEF Spec
  <1>2. TypeInv => TypeOK
    BY DEF TypeInv
  <1>. QED
    BY <1>1, <1>2, PTL

-----------------------------------------------------------------------------
(* Shares and the PSI behind them *)

\* What a withdrawal pays is worth less than the burnt shares and one more.
LEMMA WithdrawPrice ==
    ASSUME TypeInv, NEW user \in Users, NEW amount \in Amounts \cup {NONE},
           WithdrawVotingTokens(user, amount)
    PROVE  WithdrawAmount(user, amount) * state.total_share
             < (WithdrawShare(user, amount) + 1) * Staked
  <1>. DEFINE w == WithdrawShare(user, amount)
              v == WithdrawAmount(user, amount)
              S == state.total_share
  <1>1. w \in Nat /\ v \in Nat /\ S \in Nat /\ Staked \in Nat \ {0}
        /\ (amount # NONE => amount \in Nat)
    BY WithdrawFacts
  <1>2. CASE amount = NONE
    <2>1. v = MultiplyRatio(w, Staked, S) /\ S \in Nat \ {0}
      BY <1>1, <1>2 DEF WithdrawAmount, ShareToAmount, WithdrawVotingTokens, MayWithdraw
    <2>. HIDE DEF v, w, S
    <2>2. v * S <= w * Staked
      BY <1>1, <2>1, MultiplyRatioType
    <2>3. w * Staked \in Nat /\ v * S \in Nat /\ (w + 1) * Staked = w * Staked + Staked
      BY <1>1
    <2>. QED
      BY <1>1, <2>2, <2>3 DEF v, w, S
  <1>3. CASE amount # NONE
    <2>1. v = amount /\ MultiplyRatio(v, S, Staked) \in Nat /\ w >= MultiplyRatio(v, S, Staked)
      <3>1. MultiplyRatio(amount, S, Staked) \in Nat
        BY <1>1, <1>3, MultiplyRatioType
      <3>2. v = amount /\ w = MaxOf(MultiplyRatio(amount, S, Staked), 1)
        BY <1>3 DEF WithdrawAmount, WithdrawShare, AmountToShare
      <3>. HIDE DEF v, w, S
      <3>. QED
        BY <3>1, <3>2 DEF MaxOf
    <2>. DEFINE r == MultiplyRatio(v, S, Staked)
    <2>2. v * S < (r + 1) * Staked
      BY <1>1, MultiplyRatioType
    <2>. HIDE DEF v, w, S, r
    <2>3. r \in Nat /\ r + 1 <= w + 1 /\ r + 1 \in Nat /\ w + 1 \in Nat
      BY <1>1, <2>1 DEF r
    <2>4. (r + 1) * Staked <= (w + 1) * Staked
      BY <1>1, <2>3, MulMonotone
    <2>5. v * S \in Nat /\ (r + 1) * Staked \in Nat /\ (w + 1) * Staked \in Nat
      BY <1>1, <2>3, MulNat
    <2>6. v * S < (w + 1) * Staked
      BY <2>2, <2>4, <2>5
    <2>. QED
      BY <2>6 DEF v, w, S
  <1>. QED
    BY <1>2, <1>3

\* A withdrawal that leaves shares leaves PSI behind them.
LEMMA WithdrawLeavesStake ==
    ASSUME TypeInv, NEW user \in Users, NEW amount \in Amounts \cup {NONE},
           WithdrawVotingTokens(user, amount),
           WithdrawShare(user, amount) < state.total_share
    PROVE  WithdrawAmount(user, amount) < Staked
  <1>. DEFINE w == WithdrawShare(user, amount)
              v == WithdrawAmount(user, amount)
              S == state.total_share
  <1>1. w \in Nat /\ v \in Nat /\ S \in Nat /\ Staked \in Nat
    BY WithdrawFacts
  <1>2. v * S < (w + 1) * Staked
    BY WithdrawPrice
  <1>. HIDE DEF w, v, S
  <1>3. (w + 1) * Staked <= S * Staked
    BY <1>1, MulMonotone DEF w, S
  <1>4. v * S < Staked * S
    <2>1. v * S \in Nat /\ (w + 1) * Staked \in Nat /\ S * Staked \in Nat /\ S * Staked = Staked * S
      BY <1>1, MulNat
    <2>. QED
      BY <1>2, <1>3, <2>1
  <1>. QED
    BY <1>1, <1>4, MulCancel DEF v

LEMMA NextShareBacked == TypeInv /\ ShareBacked /\ [Next]_vars => ShareBacked'
  <1>. SUFFICES ASSUME TypeInv, ShareBacked, [Next]_vars PROVE ShareBacked'
    OBVIOUS
  <1>0. /\ state.total_share \in Nat /\ state.total_deposit \in Nat
        /\ psi_balance \in Nat /\ state \in StateType
    BY DEF TypeInv, TypeOK, StateType
  <1>1. CASE UNCHANGED <<state, psi_balance>>
    BY <1>1 DEF ShareBacked
  <1>2. ASSUME NEW user \in Users, NEW amount \in Amounts, StakeVotingTokens(user, amount)
        PROVE  ShareBacked'
    <2>1. amount > 0 /\ amount \in Nat /\ state.total_deposit <= psi_balance
      BY <1>2, AmountsAssumption DEF StakeVotingTokens, CanSend, DepositsCovered
    <2>2. state'.total_deposit = state.total_deposit /\ psi_balance' = psi_balance + amount
      BY <1>0, <1>2 DEF StakeVotingTokens, StateType
    <2>. QED
      BY <1>0, <2>1, <2>2 DEF ShareBacked
  <1>3. ASSUME NEW amount \in Amounts, NEW data \in Messages \cup {NONE},
               CreatePoll(amount, data)
        PROVE  ShareBacked'
    <2>1. /\ state'.total_share = state.total_share
          /\ state'.total_deposit = state.total_deposit + amount
          /\ psi_balance' = psi_balance + amount /\ amount \in Nat
      BY <1>0, <1>3, AmountsAssumption DEF CreatePoll, StateType
    <2>. QED
      BY <1>0, <2>1 DEF ShareBacked
  <1>4. ASSUME NEW id \in PollIds, EndPoll(id)
        PROVE  ShareBacked'
    <2>. DEFINE p == poll[id]
    <2>1. p \in Poll
      BY <1>4, PollFacts DEF EndPoll, TypeInv
    <2>2. Refund(p) \in {0, p.deposit_amount} /\ p.deposit_amount \in Nat
      BY <2>1 DEF Refund, Poll
    <2>3. /\ state'.total_share = state.total_share
          /\ state'.total_deposit = state.total_deposit - p.deposit_amount
          /\ psi_balance' = psi_balance - Refund(p)
      BY <1>0, <1>4 DEF EndPoll, DepositAfter, StateType
    <2>. HIDE DEF p
    <2>. QED
      BY <1>0, <2>2, <2>3 DEF ShareBacked
  <1>5. ASSUME NEW user \in Users, NEW amount \in Amounts \cup {NONE},
               WithdrawVotingTokens(user, amount)
        PROVE  ShareBacked'
    <2>. DEFINE w == WithdrawShare(user, amount)
                v == WithdrawAmount(user, amount)
    <2>1. w \in Nat /\ v \in Nat
      BY <1>5, WithdrawFacts
    <2>2. /\ state'.total_share = state.total_share - w
          /\ state'.total_deposit = state.total_deposit
          /\ psi_balance' = psi_balance - v
      BY <1>0, <1>5 DEF WithdrawVotingTokens, MayWithdraw, StateType
    <2>3. w < state.total_share => v < psi_balance - state.total_deposit
      BY <1>5, WithdrawLeavesStake DEF Staked
    <2>. HIDE DEF w, v
    <2>. QED
      BY <1>0, <2>1, <2>2, <2>3 DEF ShareBacked
  <1>6. ASSUME NEW amount \in Amounts, TransferIn(amount)
        PROVE  ShareBacked'
    <2>1. psi_balance' = psi_balance + amount /\ state' = state /\ amount \in Nat
      BY <1>6, AmountsAssumption DEF TransferIn
    <2>. QED
      BY <1>0, <2>1 DEF ShareBacked
  <1>7. ASSUME \/ \E token \in Tokens : RegisterToken(token)
               \/ \E sender \in Users, update \in ConfigUpdates : UpdateConfig(sender, update)
               \/ \E user \in Users, id \in PollIds, vote \in VoteOption, amount \in Amounts :
                     CastVote(user, id, vote, amount)
               \/ \E id \in PollIds : SnapshotPoll(id) \/ ExecutePoll(id)
               \/ Tick \/ UNCHANGED vars
        PROVE  UNCHANGED <<state, psi_balance>>
    BY <1>7, ZenonT(30) DEF RegisterToken, UpdateConfig, CastVote, SnapshotPoll, ExecutePoll, Tick, vars
  <1>. QED
    BY <1>1, <1>2, <1>3, <1>4, <1>5, <1>6, <1>7 DEF Next

LEMMA ShareBackedInvariant == Spec => [](TypeInv /\ ShareBacked)
  <1>1. Init => TypeInv /\ ShareBacked
    BY InitTypeInv DEF Init, ShareBacked
  <1>2. (TypeInv /\ ShareBacked) /\ [Next]_vars => (TypeInv /\ ShareBacked)'
    BY NextTypeInv, NextShareBacked
  <1>. QED
    BY <1>1, <1>2, PTL DEF Spec

\* While anyone holds shares, PSI beyond the deposits is behind them: no handler
\* that divides by the stake meets a zero while there is a staker.
THEOREM SharesStayBacked == Spec => []ShareBacked
  BY ShareBackedInvariant, PTL

-----------------------------------------------------------------------------
(* What a step may do to prices and locks *)

\* The effect of a withdrawal on the numbers.
LEMMA WithdrawEffect ==
    ASSUME TypeInv, NEW user \in Users, NEW amount \in Amounts \cup {NONE},
           WithdrawVotingTokens(user, amount)
    PROVE  /\ PaidOut = WithdrawAmount(user, amount)
           /\ BurntShare(user) = WithdrawShare(user, amount)
           /\ bank'[user].share = bank[user].share - WithdrawShare(user, amount)
           /\ \A u \in Users : u # user => BurntShare(u) = 0
           /\ state'.total_share = state.total_share - WithdrawShare(user, amount)
           /\ state'.total_deposit = state.total_deposit
           /\ psi_balance' = psi_balance - WithdrawAmount(user, amount)
  <1>1. WithdrawShare(user, amount) \in Nat /\ WithdrawAmount(user, amount) \in Nat
        /\ bank[user].share \in Nat /\ psi_balance \in Nat
    BY WithdrawFacts DEF TypeInv, TypeOK
  <1>2. bank'[user].share = bank[user].share - WithdrawShare(user, amount)
        /\ \A u \in Users : u # user => bank'[u] = bank[u]
    BY DEF WithdrawVotingTokens, MayWithdraw, ShareAfter, TypeInv, TypeOK
  <1>3. \A u \in Users : bank[u].share \in Nat
    BY DEF TypeInv, TypeOK, TokenManager
  <1>4. psi_balance' = psi_balance - WithdrawAmount(user, amount)
    BY DEF WithdrawVotingTokens, MayWithdraw
  <1>5. state'.total_share = state.total_share - WithdrawShare(user, amount)
        /\ state'.total_deposit = state.total_deposit
    BY DEF WithdrawVotingTokens, MayWithdraw, TypeInv, TypeOK, StateType
  <1>. QED
    BY <1>1, <1>2, <1>3, <1>4, <1>5 DEF PaidOut, BurntShare

\* A withdrawal that pays burns a share.
LEMMA WithdrawBurns ==
    ASSUME TypeInv, NEW user \in Users, NEW amount \in Amounts \cup {NONE},
           WithdrawVotingTokens(user, amount)
    PROVE  WithdrawShare(user, amount) > 0
  <1>. DEFINE w == WithdrawShare(user, amount)
  <1>1. w \in Nat /\ Staked \in Nat \ {0} /\ state.total_share \in Nat
        /\ (amount # NONE => amount \in Nat)
    BY WithdrawFacts
  <1>2. CASE amount = NONE
    <2>1. state.total_share \in Nat \ {0}
      BY <1>1, <1>2 DEF WithdrawVotingTokens, MayWithdraw
    <2>2. MultiplyRatio(w, Staked, state.total_share) > 0
      BY <1>2 DEF WithdrawVotingTokens, MayWithdraw, CanPay, WithdrawAmount, ShareToAmount
    <2>3. MultiplyRatio(0, Staked, state.total_share) = 0
      BY <1>1, <2>1 DEF MultiplyRatio
    <2>. HIDE DEF w
    <2>4. w # 0
      BY <2>2, <2>3
    <2>. QED
      BY <1>1, <2>4 DEF w
  <1>3. CASE amount # NONE
    <2>1. MultiplyRatio(amount, state.total_share, Staked) \in Nat
      BY <1>1, <1>3, MultiplyRatioType
    <2>. QED
      BY <1>3, <2>1 DEF WithdrawShare, AmountToShare, MaxOf
  <1>. QED
    BY <1>2, <1>3

\* What the other handlers do to the numbers that prices are made of.
LEMMA StakeEffect ==
    ASSUME TypeInv, NEW user \in Users, NEW amount \in Amounts,
           StakeVotingTokens(user, amount)
    PROVE  /\ amount \in Nat /\ MintedShare(amount) \in Nat
           /\ psi_balance' = psi_balance + amount
           /\ state'.total_deposit = state.total_deposit
           /\ state'.total_share = state.total_share + MintedShare(amount)
           /\ \A u \in Users : bank'[u].share >= bank[u].share
  <1>1. amount \in Nat /\ MintedShare(amount) \in Nat
    BY AmountsAssumption, MintedShareType DEF StakeVotingTokens, TypeInv
  <1>2. /\ psi_balance' = psi_balance + amount
        /\ state'.total_deposit = state.total_deposit
        /\ state'.total_share = state.total_share + MintedShare(amount)
    BY DEF StakeVotingTokens, TypeInv, TypeOK, StateType
  <1>3. \A u \in Users : bank'[u].share \in {bank[u].share, bank[u].share + MintedShare(amount)}
    BY DEF StakeVotingTokens, TypeInv, TypeOK, TokenManager
  <1>4. \A u \in Users : bank[u].share \in Nat
    BY DEF TypeInv, TypeOK, TokenManager
  <1>. QED
    BY <1>1, <1>2, <1>3, <1>4

LEMMA EndPollEffect ==
    ASSUME TypeInv, NEW id \in PollIds, EndPoll(id)
    PROVE  \E d \in Nat :
             /\ state'.total_share = state.total_share
             /\ state'.total_deposit = state.total_deposit - d
             /\ psi_balance' \in {psi_balance, psi_balance - d}
             /\ bank' = bank
  <1>1. poll[id] \in Poll
    BY PollFacts DEF EndPoll, TypeInv
  <1>2. poll[id].deposit_amount \in Nat /\ Refund(poll[id]) \in {0, poll[id].deposit_amount}
    BY <1>1 DEF Refund, Poll
  <1>3. /\ state'.total_share = state.total_share
        /\ state'.total_deposit = state.total_deposit - poll[id].deposit_amount
        /\ psi_balance' = psi_balance - Refund(poll[id])
        /\ bank' = bank
    BY DEF EndPoll, DepositAfter, TypeInv, TypeOK, StateType
  <1>4. psi_balance - 0 = psi_balance
    BY DEF TypeInv, TypeOK
  <1>. QED
    BY <1>2, <1>3, <1>4

\* The steps, by what they do to the shares, the deposits and the balance.
Minting == \E user \in Users, amount \in Amounts : StakeVotingTokens(user, amount)
Burning == \E user \in Users, amount \in Amounts \cup {NONE} :
              WithdrawVotingTokens(user, amount)
Settling == \E id \in PollIds : EndPoll(id)
\* Deposits and rewards come in, or nothing moves at all.
Receiving ==
    \E d, r \in Nat :
        /\ state'.total_share = state.total_share
        /\ state'.total_deposit = state.total_deposit + d
        /\ psi_balance' = psi_balance + d + r
        /\ \A u \in Users : bank'[u].share = bank[u].share

LEMMA StepKinds ==
    TypeInv /\ [Next]_vars => Minting \/ Burning \/ Settling \/ Receiving
  <1>. SUFFICES ASSUME TypeInv, [Next]_vars, ~Minting, ~Burning, ~Settling
                PROVE  Receiving
    OBVIOUS
  <1>0. state.total_deposit \in Nat /\ psi_balance \in Nat
    BY DEF TypeInv, TypeOK, StateType
  <1>1. CASE UNCHANGED <<state, bank, psi_balance>>
    BY <1>0, <1>1 DEF Receiving
  <1>2. ASSUME NEW amount \in Amounts, NEW data \in Messages \cup {NONE},
               CreatePoll(amount, data)
        PROVE  Receiving
    <2>1. /\ state'.total_share = state.total_share
          /\ state'.total_deposit = state.total_deposit + amount
          /\ psi_balance' = psi_balance + amount + 0
          /\ amount \in Nat /\ bank' = bank
      BY <1>0, <1>2, AmountsAssumption DEF CreatePoll, TypeInv, TypeOK, StateType
    <2>. QED
      BY <2>1 DEF Receiving
  <1>3. ASSUME NEW amount \in Amounts, TransferIn(amount)
        PROVE  Receiving
    <2>1. /\ psi_balance' = psi_balance + 0 + amount
          /\ state' = state /\ bank' = bank
          /\ state.total_deposit = state.total_deposit + 0
          /\ amount \in Nat
      BY <1>0, <1>3, AmountsAssumption DEF TransferIn
    <2>. QED
      BY <2>1 DEF Receiving
  <1>4. ASSUME NEW user \in Users, NEW id \in PollIds, NEW vote \in VoteOption,
               NEW amount \in Amounts, CastVote(user, id, vote, amount)
        PROVE  Receiving
    <2>1. \A u \in Users : bank'[u].share = bank[u].share
      BY <1>4 DEF CastVote, TypeInv, TypeOK, TokenManager
    <2>2. psi_balance' = psi_balance + 0 + 0 /\ state' = state
          /\ state.total_deposit = state.total_deposit + 0
      BY <1>0, <1>4 DEF CastVote
    <2>. QED
      BY <2>1, <2>2 DEF Receiving
  <1>5. ASSUME \/ \E token \in Tokens : RegisterToken(token)
               \/ \E sender \in Users, update \in ConfigUpdates : UpdateConfig(sender, update)
               \/ \E id \in PollIds : SnapshotPoll(id) \/ ExecutePoll(id)
               \/ Tick \/ UNCHANGED vars
        PROVE  UNCHANGED <<state, bank, psi_balance>>
    BY <1>5 DEF RegisterToken, UpdateConfig, SnapshotPoll, ExecutePoll, Tick, vars
  <1>. QED
    BY <1>1, <1>2, <1>3, <1>4, <1>5 DEF Next, Minting, Burning, Settling

LEMMA NextWithdrawBounded == TypeInv /\ [Next]_vars => WithdrawBoundedStep
  <1>. SUFFICES ASSUME TypeInv, [Next]_vars, PaidOut > 0,
                       state'.total_deposit = state.total_deposit
                PROVE  \E u \in Users :
                          /\ BurntShare(u) > 0
                          /\ PaidOut * state.total_share < (BurntShare(u) + 1) * Staked
    BY DEF WithdrawBoundedStep
  <1>0. psi_balance \in Nat /\ state.total_deposit \in Nat
    BY DEF TypeInv, TypeOK, StateType
  <1>1. CASE Burning
    <2>1. PICK user \in Users, amount \in Amounts \cup {NONE} : WithdrawVotingTokens(user, amount)
      BY <1>1 DEF Burning
    <2>. QED
      BY <2>1, WithdrawEffect, WithdrawBurns, WithdrawPrice
  <1>2. CASE Minting
    <2>1. PICK amount \in Nat : psi_balance' = psi_balance + amount
      BY <1>2, StakeEffect DEF Minting
    <2>. QED
      BY <1>0, <2>1 DEF PaidOut
  <1>3. CASE Settling
    <2>1. PICK d \in Nat : /\ state'.total_deposit = state.total_deposit - d
                          /\ psi_balance' \in {psi_balance, psi_balance - d}
      BY <1>3, EndPollEffect DEF Settling
    <2>2. d = 0
      BY <1>0, <2>1
    <2>3. psi_balance' = psi_balance
      BY <1>0, <2>1, <2>2
    <2>. QED
      BY <1>0, <2>3 DEF PaidOut
  <1>4. CASE Receiving
    BY <1>0, <1>4 DEF Receiving, PaidOut
  <1>. QED
    BY <1>1, <1>2, <1>3, <1>4, StepKinds

\* PSI leaves the contract only with the deposit of a poll that ends or against
\* burnt shares, for less than their worth and one share more.
THEOREM WithdrawalsBounded == Spec => WithdrawBounded
  <1>1. TypeInv /\ [Next]_vars => [WithdrawBoundedStep]_vars
    BY NextWithdrawBounded
  <1>. QED
    BY <1>1, InitTypeInv, NextTypeInv, PTL DEF Spec, WithdrawBounded

LEMMA NextLockedStakeKept == TypeInv /\ [Next]_vars => LockedStakeKeptStep
  <1>. SUFFICES ASSUME TypeInv, [Next]_vars, NEW u \in Users, BurntShare(u) > 0,
                       NEW b \in ActiveLocks(u)
                PROVE  b.balance * state.total_share < (bank'[u].share + 1) * Staked
    BY DEF LockedStakeKeptStep
  <1>0. \A x \in Users : bank[x].share \in Nat
    BY DEF TypeInv, TypeOK, TokenManager
  <1>1. CASE Minting
    <2>1. bank'[u].share >= bank[u].share
      BY <1>1, StakeEffect DEF Minting
    <2>2. bank'[u].share \in Nat
      BY <1>1, StakeTypeInv DEF Minting, TypeInv, TypeOK, TokenManager
    <2>. QED
      BY <1>0, <2>1, <2>2 DEF BurntShare
  <1>2. CASE Settling \/ Receiving
    <2>1. bank'[u].share = bank[u].share
      BY <1>2, EndPollEffect DEF Settling, Receiving
    <2>. QED
      BY <1>0, <2>1 DEF BurntShare
  <1>3. CASE Burning
    <2>1. PICK amount \in Amounts \cup {NONE} : WithdrawVotingTokens(u, amount)
      BY <1>3, WithdrawEffect DEF Burning
    <2>. DEFINE S == state.total_share
                locked == LockedBalance(u)
                r == MultiplyRatio(locked, S, Staked)
                rest == bank'[u].share
    <2>2. S \in Nat /\ Staked \in Nat \ {0} /\ locked \in Nat /\ b.balance <= locked
      BY <2>1, WithdrawFacts, LockedBalanceType DEF TypeInv
    <2>3. b.balance \in Nat
      BY DEF ActiveLocks, TypeInv, TypeOK, TokenManager, Ballot
    <2>4. r \in Nat /\ locked * S < (r + 1) * Staked
      BY <2>2, MultiplyRatioType
    <2>5. r <= rest /\ rest \in Nat
      <3>1. rest = bank[u].share - WithdrawShare(u, amount) /\ WithdrawShare(u, amount) \in Nat
        BY <2>1, WithdrawEffect, WithdrawFacts
      <3>2. r + WithdrawShare(u, amount) <= bank[u].share
        BY <2>1 DEF WithdrawVotingTokens, MayWithdraw, LockedShare, AmountToShare
      <3>. HIDE DEF r, rest
      <3>. QED
        BY <1>0, <2>4, <3>1, <3>2
    <2>. HIDE DEF S, locked, r, rest
    <2>6. b.balance * S <= locked * S
      BY <2>2, <2>3, MulMonotone
    <2>7. (r + 1) * Staked <= (rest + 1) * Staked
      <3>1. r + 1 \in Nat /\ rest + 1 \in Nat /\ r + 1 <= rest + 1
        BY <2>4, <2>5
      <3>. QED
        BY <2>2, <3>1, MulMonotone
    <2>8. /\ b.balance * S \in Nat /\ locked * S \in Nat
          /\ (r + 1) * Staked \in Nat /\ (rest + 1) * Staked \in Nat
      BY <2>2, <2>3, <2>4, <2>5, MulNat
    <2>9. b.balance * S < (rest + 1) * Staked
      BY <2>4, <2>6, <2>7, <2>8
    <2>. QED
      BY <2>9 DEF S, rest
  <1>. QED
    BY <1>1, <1>2, <1>3, StepKinds

\* A withdrawal leaves behind every ballot of a poll in progress the stake it
\* was cast with, up to one share's worth.
THEOREM LockedStakeStays == Spec => LockedStakeKept
  <1>1. TypeInv /\ [Next]_vars => [LockedStakeKeptStep]_vars
    BY NextLockedStakeKept
  <1>. QED
    BY <1>1, InitTypeInv, NextTypeInv, PTL DEF Spec, LockedStakeKept

LEMMA NextPriceNeverFalls ==
    TypeInv /\ ShareBacked /\ [Next]_vars => PriceNeverFallsStep
  <1>. DEFINE S == state.total_share
              T == state'.total_share
              Staked2 == psi_balance' - state'.total_deposit
  <1>. SUFFICES ASSUME TypeInv, ShareBacked, [Next]_vars, S > 0,
                       \/ T >= S
                       \/ \E u \in Users : WithdrawVotingTokens(u, NONE)
                PROVE  Staked2 * S >= Staked * T
    BY DEF PriceNeverFallsStep
  <1>0. /\ S \in Nat \ {0} /\ Staked \in Nat \ {0}
        /\ psi_balance \in Nat /\ state.total_deposit \in Nat
    BY DEF TypeInv, TypeOK, StateType, ShareBacked, Staked
  <1>1. CASE Minting
    <2>1. PICK user \in Users, amount \in Amounts : StakeVotingTokens(user, amount)
      BY <1>1 DEF Minting
    <2>. DEFINE m == MintedShare(amount)
    <2>2. /\ amount \in Nat /\ m \in Nat
          /\ Staked2 = Staked + amount /\ T = S + m
      BY <1>0, <2>1, StakeEffect DEF Staked
    <2>3. m = MultiplyRatio(amount, S, Staked)
      BY <1>0 DEF MintedShare, AmountToShare
    <2>4. m * Staked <= amount * S
      BY <1>0, <2>2, <2>3, MultiplyRatioType
    <2>. HIDE DEF S, T, Staked2, m
    <2>5. (Staked + amount) * S = Staked * S + amount * S
      BY <1>0, <2>2
    <2>6. Staked * (S + m) = Staked * S + m * Staked
      BY <1>0, <2>2
    <2>7. Staked * S \in Nat /\ amount * S \in Nat /\ m * Staked \in Nat
      BY <1>0, <2>2, MulNat
    <2>. QED
      BY <2>2, <2>4, <2>5, <2>6, <2>7 DEF S, T, Staked2
  <1>2. CASE Burning
    <2>1. PICK user \in Users : WithdrawVotingTokens(user, NONE)
      <3>1. ASSUME NEW u \in Users, NEW amount \in Amounts \cup {NONE},
                   WithdrawVotingTokens(u, amount), T >= S
            PROVE  FALSE
        <4>1. T = S - WithdrawShare(u, amount) /\ WithdrawShare(u, amount) > 0
              /\ WithdrawShare(u, amount) \in Nat
          BY <3>1, WithdrawEffect, WithdrawBurns, WithdrawFacts
        <4>. HIDE DEF S, T
        <4>. QED
          BY <1>0, <3>1, <4>1
      <3>. QED
        BY <1>2, <3>1 DEF Burning
    <2>. DEFINE w == WithdrawShare(user, NONE)
                v == WithdrawAmount(user, NONE)
    <2>2. /\ w \in Nat /\ v \in Nat /\ w <= S
          /\ Staked2 = Staked - v /\ T = S - w
      <3>1. NONE \in Amounts \cup {NONE}
        OBVIOUS
      <3>2. w \in Nat /\ v \in Nat
        BY <2>1, <3>1, WithdrawFacts
      <3>3. w <= S
        BY <2>1 DEF WithdrawVotingTokens, MayWithdraw
      <3>4. /\ T = S - w /\ psi_balance' = psi_balance - v
            /\ state'.total_deposit = state.total_deposit
        BY <2>1, <3>1, WithdrawEffect
      <3>. HIDE DEF w, v
      <3>. QED
        BY <1>0, <3>2, <3>3, <3>4 DEF Staked
    <2>3. v = MultiplyRatio(w, Staked, S)
      BY DEF WithdrawAmount, ShareToAmount
    <2>4. v * S <= w * Staked
      BY <1>0, <2>2, <2>3, MultiplyRatioType
    <2>. HIDE DEF S, T, Staked2, w, v
    <2>5. (Staked - v) * S = Staked * S - v * S
      BY <1>0, <2>2
    <2>6. Staked * (S - w) = Staked * S - w * Staked
      BY <1>0, <2>2
    <2>7. Staked * S \in Nat /\ v * S \in Nat /\ w * Staked \in Nat
      BY <1>0, <2>2, MulNat
    <2>. QED
      BY <2>2, <2>4, <2>5, <2>6, <2>7 DEF S, T, Staked2
  <1>3. CASE Settling \/ Receiving
    <2>1. T = S /\ Staked2 \in Nat /\ Staked2 >= Staked
      <3>1. CASE Settling
        <4>1. PICK d \in Nat :
                 /\ T = S /\ state'.total_deposit = state.total_deposit - d
                 /\ psi_balance' \in {psi_balance, psi_balance - d}
          BY <3>1, EndPollEffect DEF Settling
        <4>. QED
          BY <1>0, <4>1 DEF Staked
      <3>2. CASE Receiving
        BY <1>0, <3>2 DEF Receiving, Staked
      <3>. QED
        BY <1>3, <3>1, <3>2
    <2>. HIDE DEF S, T, Staked2
    <2>2. Staked * S <= Staked2 * S
      BY <1>0, <2>1, MulMonotone
    <2>3. Staked * S \in Nat /\ Staked2 * S \in Nat
      BY <1>0, <2>1, MulNat
    <2>. QED
      BY <2>1, <2>2, <2>3 DEF S, T, Staked2
  <1>. QED
    BY <1>1, <1>2, <1>3, StepKinds

\* Only a withdrawal of an explicit amount can lower the price of a share.
THEOREM PriceKept == Spec => PriceNeverFalls
  <1>1. TypeInv /\ ShareBacked /\ [Next]_vars => [PriceNeverFallsStep]_vars
    BY NextPriceNeverFalls
  <1>. QED
    BY <1>1, ShareBackedInvariant, PTL DEF Spec, PriceNeverFalls

-----------------------------------------------------------------------------
(* The index and the ballots *)

\* A poll that another one ran stays so: both are executed for good.
LEMMA RunByAnotherStays ==
    ASSUME NEW id \in DOMAIN poll, RunByAnother(id), DOMAIN poll \subseteq DOMAIN poll',
           \A i \in DOMAIN poll : poll[i].status = "executed" =>
              /\ poll'[i].status = "executed"
              /\ poll'[i].execute_data = poll[i].execute_data
    PROVE  RunByAnother(id)'
  BY DEF RunByAnother

LEMMA NextIndexMatches == TypeInv /\ IndexMatchesStatus /\ [Next]_vars => IndexMatchesStatus'
  <1>. SUFFICES ASSUME TypeInv, IndexMatchesStatus, [Next]_vars PROVE IndexMatchesStatus'
    OBVIOUS
  <1>1. CASE UNCHANGED <<poll, poll_indexer>>
    BY <1>1 DEF IndexMatchesStatus, RunByAnother
  \* A poll in progress gets another status, or keeps it.
  <1>2. ASSUME NEW id \in DOMAIN poll, NEW p, StorePoll(id, p), InProgress(id),
               p.status = "in_progress", UNCHANGED poll_indexer
        PROVE  IndexMatchesStatus'
    <2>1. /\ DOMAIN poll' = DOMAIN poll
          /\ \A i \in DOMAIN poll : poll'[i].status = poll[i].status
          /\ \A i \in DOMAIN poll : i # id => poll'[i] = poll[i]
      BY <1>2 DEF StorePoll, InProgress
    <2>2. \A i \in DOMAIN poll : poll[i].status = "executed" => poll'[i] = poll[i]
      BY <1>2, <2>1 DEF InProgress
    <2>3. \A i \in DOMAIN poll : RunByAnother(i) => RunByAnother(i)'
      BY <2>1, <2>2, RunByAnotherStays
    <2>. QED
      BY <1>2, <2>1, <2>3 DEF IndexMatchesStatus
  <1>3. ASSUME NEW id \in DOMAIN poll, NEW p, NEW outcome, StorePoll(id, p), InProgress(id),
               p.status = outcome, outcome # "in_progress",
               Reindex("in_progress", outcome, {id})
        PROVE  IndexMatchesStatus'
    <2>1. /\ DOMAIN poll' = DOMAIN poll /\ poll'[id].status = outcome
          /\ \A i \in DOMAIN poll : i # id => poll'[i] = poll[i]
      BY <1>3 DEF StorePoll
    <2>2. \A i \in DOMAIN poll : poll[i].status = "executed" => poll'[i] = poll[i]
      BY <1>3, <2>1 DEF InProgress
    <2>3. \A i \in DOMAIN poll : RunByAnother(i) => RunByAnother(i)'
      BY <2>1, <2>2, RunByAnotherStays
    <2>4. poll_indexer' = (poll_indexer \ {<<"in_progress", id>>}) \cup {<<outcome, id>>}
      BY <1>3 DEF Reindex
    <2>5. ASSUME NEW i \in DOMAIN poll' PROVE <<poll'[i].status, i>> \in poll_indexer'
      <3>1. CASE i = id
        BY <2>1, <2>4, <3>1
      <3>2. CASE i # id
        BY <2>1, <2>4, <3>2 DEF IndexMatchesStatus
      <3>. QED
        BY <3>1, <3>2
    <2>6. ASSUME NEW entry \in poll_indexer'
          PROVE  /\ entry[2] \in DOMAIN poll'
                 /\ entry[1] = poll'[entry[2]].status \/ RunByAnother(entry[2])'
      <3>1. CASE entry = <<outcome, id>>
        BY <2>1, <3>1
      <3>2. CASE entry \in poll_indexer /\ entry # <<"in_progress", id>>
        <4>1. /\ entry[2] \in DOMAIN poll
              /\ entry[1] = poll[entry[2]].status \/ RunByAnother(entry[2])
          BY <3>2 DEF IndexMatchesStatus
        <4>2. entry = <<entry[1], entry[2]>>
          BY <3>2 DEF TypeInv, TypeOK
        <4>3. entry[2] = id => entry[1] # poll[id].status /\ ~RunByAnother(id)
          BY <1>3, <3>2, <4>2 DEF InProgress, RunByAnother
        <4>. QED
          BY <2>1, <2>3, <4>1, <4>3
      <3>. QED
        BY <2>4, <3>1, <3>2
    <2>. QED
      BY <2>5, <2>6 DEF IndexMatchesStatus
  <1>4. ASSUME NEW amount \in Amounts, NEW data \in Messages \cup {NONE},
               CreatePoll(amount, data)
        PROVE  IndexMatchesStatus'
    <2>. DEFINE id == state.poll_count + 1
    <2>1. id \notin DOMAIN poll
      BY DEF TypeInv, TypeOK, StateType
    <2>2. PICK p : StorePoll(id, p) /\ p.status = "in_progress"
      BY <1>4 DEF CreatePoll
    <2>3. poll_indexer' = poll_indexer \cup {<<"in_progress", id>>}
      BY <1>4 DEF CreatePoll
    <2>. HIDE DEF id
    <2>4. /\ DOMAIN poll' = DOMAIN poll \cup {id} /\ poll'[id] = p
          /\ \A i \in DOMAIN poll : poll'[i] = poll[i]
      BY <2>1, <2>2 DEF StorePoll
    <2>5. \A i \in DOMAIN poll : RunByAnother(i) => RunByAnother(i)'
      BY <2>4, RunByAnotherStays
    <2>. QED
      BY <2>2, <2>3, <2>4, <2>5 DEF IndexMatchesStatus
  <1>5. ASSUME NEW user \in Users, NEW id \in PollIds, NEW vote \in VoteOption,
               NEW amount \in Amounts, CastVote(user, id, vote, amount)
        PROVE  IndexMatchesStatus'
    <2>. DEFINE p == [poll[id] EXCEPT
                        !.yes_votes = IF vote = "yes" THEN @ + amount ELSE @,
                        !.no_votes = IF vote = "no" THEN @ + amount ELSE @,
                        !.staked_amount = SnapshotOnVote(poll[id])]
    <2>1. /\ id \in DOMAIN poll /\ StorePoll(id, p) /\ UNCHANGED poll_indexer
          /\ InProgress(id)
      BY <1>5 DEF CastVote, VotingOpen
    <2>2. p.status = "in_progress"
      BY <2>1, PollFacts DEF InProgress, Poll, TypeInv
    <2>. HIDE DEF p
    <2>. QED
      BY <1>2, <2>1, <2>2
  <1>6. ASSUME NEW id \in PollIds, SnapshotPoll(id)
        PROVE  IndexMatchesStatus'
    <2>. DEFINE p == [poll[id] EXCEPT !.staked_amount = Staked]
    <2>1. /\ id \in DOMAIN poll /\ StorePoll(id, p) /\ UNCHANGED poll_indexer
          /\ InProgress(id)
      BY <1>6 DEF SnapshotPoll
    <2>2. p.status = "in_progress"
      BY <2>1, PollFacts DEF InProgress, Poll, TypeInv
    <2>. HIDE DEF p
    <2>. QED
      BY <1>2, <2>1, <2>2
  <1>7. ASSUME NEW id \in PollIds, EndPoll(id)
        PROVE  IndexMatchesStatus'
    <2>. DEFINE outcome == IF Approved(poll[id]) THEN "passed" ELSE "rejected"
                p == [poll[id] EXCEPT !.status = outcome,
                        !.total_balance_at_end_poll = StakedWeight(poll[id])]
    <2>1. /\ id \in DOMAIN poll /\ StorePoll(id, p) /\ InProgress(id)
          /\ Reindex("in_progress", outcome, {id})
      BY <1>7 DEF EndPoll, MayEnd
    <2>2. p.status = outcome /\ outcome # "in_progress"
      BY <2>1, PollFacts DEF Poll, TypeInv
    <2>. HIDE DEF p, outcome
    <2>. QED
      BY <1>3, <2>1, <2>2
  <1>8. ASSUME NEW id \in PollIds, ExecutePoll(id)
        PROVE  IndexMatchesStatus'
    <2>1. id \in DOMAIN poll /\ poll[id].status = "passed"
      BY <1>8 DEF ExecutePoll, Executable
    <2>2. PICK ran, status : Executing(id, ran, status)
      BY <1>8, ExecutePollEffect DEF TypeInv
    <2>3. /\ DOMAIN poll' = DOMAIN poll
          /\ \A i \in DOMAIN poll : i \notin ran => poll'[i] = poll[i]
          /\ \A i \in ran : poll'[i].status = status
                            /\ poll'[i].execute_data = poll[i].execute_data
      BY <2>2, ExecutedPollsIs DEF ExecutedPolls, TypeInv
    <2>4. \A i \in DOMAIN poll : RunByAnother(i) => RunByAnother(i)'
      <3>1. \A i \in DOMAIN poll : poll[i].status = "executed" =>
               /\ poll'[i].status = "executed"
               /\ poll'[i].execute_data = poll[i].execute_data
        BY <2>1, <2>2, <2>3 DEF Executing
      <3>. QED
        BY <2>3, <3>1, RunByAnotherStays
    <2>5. \A i \in ran \ {id} : RunByAnother(i)'
      BY <2>2, <2>3 DEF Executing, RunByAnother
    <2>6. poll_indexer' = (poll_indexer \ ({"passed"} \X ran)) \cup ({status} \X ran)
      BY <2>2 DEF Executing, Reindex
    <2>7. ASSUME NEW i \in DOMAIN poll' PROVE <<poll'[i].status, i>> \in poll_indexer'
      <3>1. CASE i \in ran
        BY <2>3, <2>6, <3>1
      <3>2. CASE i \notin ran
        BY <2>3, <2>6, <3>2 DEF IndexMatchesStatus
      <3>. QED
        BY <3>1, <3>2
    <2>8. ASSUME NEW entry \in poll_indexer'
          PROVE  /\ entry[2] \in DOMAIN poll'
                 /\ entry[1] = poll'[entry[2]].status \/ RunByAnother(entry[2])'
      <3>1. CASE entry \in {status} \X ran
        BY <2>2, <2>3, <3>1 DEF Executing
      <3>2. CASE entry \in poll_indexer /\ entry \notin {"passed"} \X ran
        <4>1. /\ entry[2] \in DOMAIN poll
              /\ entry[1] = poll[entry[2]].status \/ RunByAnother(entry[2])
          BY <3>2 DEF IndexMatchesStatus
        <4>2. entry = <<entry[1], entry[2]>>
          BY <3>2 DEF TypeInv, TypeOK
        <4>3. entry[2] = id => FALSE
          BY <2>1, <2>2, <3>2, <4>1, <4>2 DEF Executing, RunByAnother
        <4>. QED
          BY <2>3, <2>4, <2>5, <4>1, <4>3
      <3>. QED
        BY <2>6, <3>1, <3>2
    <2>. QED
      BY <2>7, <2>8 DEF IndexMatchesStatus
  <1>9. ASSUME \/ \E token \in Tokens : RegisterToken(token)
               \/ \E sender \in Users, update \in ConfigUpdates : UpdateConfig(sender, update)
               \/ \E user \in Users, amount \in Amounts : StakeVotingTokens(user, amount)
               \/ \E user \in Users, amount \in Amounts \cup {NONE} :
                     WithdrawVotingTokens(user, amount)
               \/ \E amount \in Amounts : TransferIn(amount)
               \/ Tick \/ UNCHANGED vars
        PROVE  UNCHANGED <<poll, poll_indexer>>
    BY <1>9 DEF RegisterToken, UpdateConfig, StakeVotingTokens, WithdrawVotingTokens, MayWithdraw,
                TransferIn, Tick, vars
  <1>. QED
    BY <1>1, <1>4, <1>5, <1>6, <1>7, <1>8, <1>9 DEF Next

\* query_polls, which filters by the index, finds each poll under its status, and
\* under an earlier one only if another poll has run it.
THEOREM IndexAlwaysMatches == Spec => []IndexMatchesStatus
  <1>1. Init => IndexMatchesStatus
    BY DEF Init, IndexMatchesStatus, RunByAnother
  <1>. QED
    BY <1>1, InitTypeInv, NextTypeInv, NextIndexMatches, PTL DEF Spec

LEMMA NextVoterLock == TypeInv /\ VoterLockAgreement /\ [Next]_vars => VoterLockAgreement'
  <1>. SUFFICES ASSUME TypeInv, VoterLockAgreement, [Next]_vars PROVE VoterLockAgreement'
    OBVIOUS
  <1>0. bank \in [Users -> TokenManager] /\ poll_voter \in [Users -> SUBSET Ballot]
    BY DEF TypeInv, TypeOK
  <1>1. DOMAIN poll \subseteq DOMAIN poll'
    <2>1. CASE UNCHANGED poll
      BY <2>1
    <2>2. CASE \/ \E id \in Nat : \E p : StorePoll(id, p)
               \/ \E id \in PollIds : ExecutePoll(id)
      BY <2>2, ExecutePollEffect DEF StorePoll, Executing, StoreStatus, TypeInv
    <2>3. state.poll_count + 1 \in Nat /\ PollIds \subseteq Nat
      BY BoundsAssumption DEF TypeInv, TypeOK, StateType, PollIds
    <2>. QED
      BY <2>1, <2>2, <2>3, ZenonT(30) DEF Next, vars, RegisterToken, UpdateConfig, StakeVotingTokens,
           CreatePoll, CastVote, SnapshotPoll, EndPoll, WithdrawVotingTokens, MayWithdraw,
           TransferIn, Tick
  <1>2. ASSUME \A u \in Users : bank'[u].locked_balance = bank[u].locked_balance,
               UNCHANGED poll_voter
        PROVE  VoterLockAgreement'
    BY <1>1, <1>2 DEF VoterLockAgreement
  <1>3. ASSUME NEW user \in Users, NEW id \in PollIds, NEW vote \in VoteOption,
               NEW amount \in Amounts, CastVote(user, id, vote, amount)
        PROVE  VoterLockAgreement'
    <2>. DEFINE ballot == [poll |-> id, vote |-> vote, balance |-> amount]
    <2>1. ballot.poll = id /\ id \in DOMAIN poll
          /\ \A b \in poll_voter[user] : b.poll # id
      BY <1>3 DEF CastVote, HasVoted
    <2>2. /\ bank'[user].locked_balance = bank[user].locked_balance \cup {ballot}
          /\ \A u \in Users : u # user => bank'[u] = bank[u]
      BY <1>0, <1>3 DEF CastVote, TokenManager
    <2>3. /\ poll_voter'[user] = {b \in poll_voter[user] : b.poll # ballot.poll} \cup {ballot}
          /\ \A u \in Users : u # user => poll_voter'[u] = poll_voter[u]
      BY <1>0, <1>3 DEF CastVote, StoreVoter
    <2>. HIDE DEF ballot
    <2>4. poll_voter'[user] = poll_voter[user] \cup {ballot}
      BY <2>1, <2>3
    <2>5. ASSUME NEW u \in Users
          PROVE  /\ poll_voter'[u] = bank'[u].locked_balance
                 /\ \A b, c \in poll_voter'[u] : b.poll = c.poll => b = c
                 /\ \A b \in poll_voter'[u] : b.poll \in DOMAIN poll'
      <3>1. CASE u = user
        BY <1>1, <2>1, <2>2, <2>4, <3>1 DEF VoterLockAgreement
      <3>2. CASE u # user
        BY <1>1, <2>2, <2>3, <3>2 DEF VoterLockAgreement
      <3>. QED
        BY <3>1, <3>2
    <2>. QED
      BY <2>5 DEF VoterLockAgreement
  <1>4. ASSUME NEW user \in Users, NEW amount \in Amounts \cup {NONE},
               WithdrawVotingTokens(user, amount)
        PROVE  VoterLockAgreement'
    <2>1. /\ bank'[user].locked_balance = ActiveLocks(user)
          /\ \A u \in Users : u # user => bank'[u] = bank[u]
      BY <1>0, <1>4 DEF WithdrawVotingTokens, MayWithdraw
    <2>2. /\ poll_voter'[user] = RetainedVoters(user)
          /\ \A u \in Users : u # user => poll_voter'[u] = poll_voter[u]
      BY <1>0, <1>4 DEF WithdrawVotingTokens, MayWithdraw
    <2>3. RetainedVoters(user) = ActiveLocks(user) /\ ActiveLocks(user) \subseteq poll_voter[user]
      BY DEF RetainedVoters, ActiveLocks, VoterLockAgreement
    <2>. QED
      BY <1>1, <2>1, <2>2, <2>3 DEF VoterLockAgreement
  <1>5. ASSUME NEW user \in Users, NEW amount \in Amounts, StakeVotingTokens(user, amount)
        PROVE  VoterLockAgreement'
    <2>1. UNCHANGED poll_voter
          /\ \A u \in Users : bank'[u].locked_balance = bank[u].locked_balance
      BY <1>0, <1>5 DEF StakeVotingTokens, TokenManager
    <2>. QED
      BY <1>2, <2>1
  <1>6. ASSUME \/ \E token \in Tokens : RegisterToken(token)
               \/ \E sender \in Users, update \in ConfigUpdates : UpdateConfig(sender, update)
               \/ \E amount \in Amounts, data \in Messages \cup {NONE} : CreatePoll(amount, data)
               \/ \E id \in PollIds : SnapshotPoll(id) \/ EndPoll(id) \/ ExecutePoll(id)
               \/ \E amount \in Amounts : TransferIn(amount)
               \/ Tick \/ UNCHANGED vars
        PROVE  VoterLockAgreement'
    <2>1. UNCHANGED <<bank, poll_voter>>
      BY <1>6 DEF RegisterToken, UpdateConfig, CreatePoll, SnapshotPoll, EndPoll, ExecutePoll,
                  TransferIn, Tick, vars
    <2>. QED
      BY <1>2, <2>1
  <1>. QED
    BY <1>3, <1>4, <1>5, <1>6 DEF Next

\* A user's locks and the ballots kept for them are the same, one per poll, all
\* of existing polls.
THEOREM VotersAndLocksAgree == Spec => []VoterLockAgreement
  <1>1. Init => VoterLockAgreement
    BY DEF Init, VoterLockAgreement
  <1>. QED
    BY <1>1, InitTypeInv, NextTypeInv, NextVoterLock, PTL DEF Spec

-----------------------------------------------------------------------------
(* The governance contract implements PollLifecycle, as long as no poll has *)
(* it run the messages of a poll: its initial states are initial there, and *)
(* every message it handles is a step of the life of one poll, a change of  *)
(* the timelock, the passing of time or nothing.                            *)

\* The state of PollLifecycle that a state of the contract stands for.
Lives == [i \in DOMAIN poll |-> LifeOf(poll[i])]

LEMMA InitRefines == Init => Lifecycle!LInit
  <1>. SUFFICES ASSUME Init PROVE Lifecycle!LInit
    OBVIOUS
  <1>1. Lives = [i \in {} |-> NONE]
    BY DEF Init, Lives
  <1>2. config.timelock_period \in Nat /\ now = 0
    BY InitTypeInv DEF Init, TypeInv, TypeOK, ConfigType
  <1>. QED
    BY <1>1, <1>2 DEF Lifecycle!LInit, Lives

\* Storing a poll changes one life, or adds one.
LEMMA StoreIsBecomes ==
    ASSUME NEW id, NEW p, StorePoll(id, p)
    PROVE  /\ Lives' = [i \in DOMAIN Lives \cup {id} |-> IF i = id THEN LifeOf(p) ELSE Lives[i]]
           /\ Lifecycle!Becomes(id, LifeOf(p))
           /\ id \in DOMAIN Lives'
           /\ Lives'[id] = LifeOf(p)
  <1>1. Lives' = [i \in DOMAIN poll \cup {id} |-> LifeOf(IF i = id THEN p ELSE poll[i])]
    BY DEF StorePoll, Lives
  <1>2. \A i \in DOMAIN poll \cup {id} :
           LifeOf(IF i = id THEN p ELSE poll[i]) = IF i = id THEN LifeOf(p) ELSE Lives[i]
    BY DEF Lives
  <1>3. DOMAIN Lives = DOMAIN poll
    BY DEF Lives
  <1>4. Lives' = [i \in DOMAIN Lives \cup {id} |-> IF i = id THEN LifeOf(p) ELSE Lives[i]]
    BY <1>1, <1>2, <1>3
  <1>. QED
    BY <1>4 DEF Lifecycle!Becomes, Lives

\* A change of one existing poll that Lifecycle!Change allows is a step of it.
LEMMA ChangeIsNext ==
    ASSUME NEW id, id \in DOMAIN Lives', Lifecycle!Change(id, Lives'[id])
    PROVE  Lifecycle!LNext
  BY DEF Lifecycle!LNext, Lives

LEMMA CreateRefines ==
    ASSUME TypeInv, NEW amount \in Amounts, NEW data \in Messages \cup {NONE},
           CreatePoll(amount, data)
    PROVE  Lifecycle!LNext
  <1>. DEFINE id == state.poll_count + 1
              new == [status |-> "in_progress", yes_votes |-> 0, no_votes |-> 0,
                      end_time |-> now + config.voting_period,
                      execute_data |-> data, deposit_amount |-> amount,
                      total_balance_at_end_poll |-> NONE, staked_amount |-> NONE]
              life == [status |-> "in_progress", yes |-> 0, no |-> 0,
                       end_time |-> now + config.voting_period, snapshot |-> NONE,
                       executable |-> data # NONE]
  <1>1. StorePoll(id, new) /\ UNCHANGED <<config, now>>
    BY DEF CreatePoll
  <1>2. LifeOf(new) = life
    BY DEF LifeOf
  <1>3. /\ id \notin DOMAIN Lives /\ id > 0
        /\ id > 1 => id - 1 \in DOMAIN Lives
    <2>1. state.poll_count \in Nat /\ DOMAIN Lives = 1..state.poll_count
      BY DEF Lives, TypeInv, TypeOK, StateType
    <2>. QED
      BY <2>1
  <1>4. now + config.voting_period >= now
    BY DEF TypeInv, TypeOK, ConfigType
  <1>. HIDE DEF id, new
  <1>5. Lifecycle!Becomes(id, life) /\ id \in DOMAIN Lives' /\ Lives'[id] = life
    BY <1>1, <1>2, StoreIsBecomes
  <1>6. Lifecycle!Create(id, now + config.voting_period, data # NONE)
    BY <1>1, <1>3, <1>4, <1>5 DEF Lifecycle!Create, Lives
  <1>7. Lifecycle!Change(id, Lives'[id])
    BY <1>5, <1>6 DEF Lifecycle!Change
  <1>. QED
    BY <1>5, <1>7, ChangeIsNext

\* A ballot, and a snapshot.
LEMMA VoteRefines ==
    ASSUME TypeInv, NEW id \in DOMAIN poll, NEW yes \in Nat, NEW no \in Nat,
           NEW snapshot, NEW q, StorePoll(id, q),
           InProgress(id), now <= poll[id].end_time,
           q = [poll[id] EXCEPT !.yes_votes = yes, !.no_votes = no,
                                !.staked_amount = snapshot],
           yes >= poll[id].yes_votes, no >= poll[id].no_votes,
           yes = poll[id].yes_votes \/ no = poll[id].no_votes,
           poll[id].staked_amount \in {NONE, snapshot},
           UNCHANGED <<config, now>>
    PROVE  Lifecycle!LNext
  <1>. DEFINE life == [status |-> "in_progress", yes |-> yes, no |-> no,
                       end_time |-> poll[id].end_time, snapshot |-> snapshot,
                       executable |-> poll[id].execute_data # NONE]
  <1>1. poll[id] \in Poll /\ Lives[id] = LifeOf(poll[id])
    BY PollFacts DEF TypeInv, Lives
  <1>2. LifeOf(q) = life
    <2>1. /\ q.status = "in_progress" /\ q.end_time = poll[id].end_time
          /\ q.execute_data = poll[id].execute_data
          /\ q.yes_votes = yes /\ q.no_votes = no /\ q.staked_amount = snapshot
      BY <1>1 DEF Poll, InProgress
    <2>. QED
      BY <2>1, Zenon DEF LifeOf
  <1>3. /\ Lifecycle!Becomes(id, LifeOf(q)) /\ id \in DOMAIN Lives'
        /\ Lives'[id] = LifeOf(q)
    BY StoreIsBecomes
  <1>4. /\ Lives[id].status = "in_progress" /\ Lives[id].end_time = poll[id].end_time
        /\ Lives[id].yes = poll[id].yes_votes /\ Lives[id].no = poll[id].no_votes
        /\ Lives[id].snapshot = poll[id].staked_amount
        /\ Lives[id].executable = (poll[id].execute_data # NONE)
    BY <1>1 DEF LifeOf, InProgress
  <1>5. Lifecycle!Vote(id, yes, no, snapshot)
    BY <1>1, <1>2, <1>3, <1>4 DEF Lifecycle!Vote, Lives
  <1>6. life.yes = yes /\ life.no = no /\ life.snapshot = snapshot
    BY DEF LifeOf
  <1>7. id \in DOMAIN Lives
    BY DEF Lives
  <1>8. Lifecycle!Change(id, Lives'[id])
    BY <1>2, <1>3, <1>5, <1>6, <1>7 DEF Lifecycle!Change, Lives
  <1>. QED
    BY <1>3, <1>8, ChangeIsNext

LEMMA CastVoteRefines ==
    ASSUME TypeInv, NEW user \in Users, NEW id \in PollIds, NEW vote \in VoteOption,
           NEW amount \in Amounts, CastVote(user, id, vote, amount)
    PROVE  Lifecycle!LNext
  <1>. DEFINE p == poll[id]
              yes == IF vote = "yes" THEN p.yes_votes + amount ELSE p.yes_votes
              no == IF vote = "no" THEN p.no_votes + amount ELSE p.no_votes
              q == [p EXCEPT !.yes_votes = yes, !.no_votes = no,
                             !.staked_amount = SnapshotOnVote(p)]
  <1>1. id \in DOMAIN poll /\ p \in Poll
    BY PollFacts DEF CastVote, TypeInv
  <1>2. p.yes_votes \in Nat /\ p.no_votes \in Nat /\ amount \in Nat
    BY <1>1, AmountsAssumption DEF Poll
  <1>3. /\ yes \in Nat /\ no \in Nat /\ yes >= p.yes_votes /\ no >= p.no_votes
        /\ yes = p.yes_votes \/ no = p.no_votes
    BY <1>2 DEF VoteOption
  <1>4. p.staked_amount \in {NONE, SnapshotOnVote(p)}
    BY DEF SnapshotOnVote
  <1>5. /\ StorePoll(id, q) /\ InProgress(id) /\ now <= p.end_time
        /\ UNCHANGED <<config, now>>
    BY DEF CastVote, VotingOpen
  <1>. HIDE DEF yes, no
  <1>. QED
    BY <1>1, <1>3, <1>4, <1>5, VoteRefines

LEMMA SnapshotRefines ==
    ASSUME TypeInv, NEW id \in PollIds, SnapshotPoll(id)
    PROVE  Lifecycle!LNext
  <1>. DEFINE p == poll[id]
  <1>1. id \in DOMAIN poll /\ p \in Poll
    BY PollFacts DEF SnapshotPoll, TypeInv
  <1>2. p.yes_votes \in Nat /\ p.no_votes \in Nat
    BY <1>1 DEF Poll
  <1>3. [p EXCEPT !.staked_amount = Staked]
          = [p EXCEPT !.yes_votes = p.yes_votes, !.no_votes = p.no_votes,
                      !.staked_amount = Staked]
    BY <1>1 DEF Poll
  <1>4. /\ StorePoll(id, [p EXCEPT !.staked_amount = Staked])
        /\ InProgress(id) /\ now <= p.end_time /\ p.staked_amount = NONE
        /\ UNCHANGED <<config, now>>
    BY DEF SnapshotPoll, MaySnapshot
  <1>. HIDE DEF p
  <1>5. p.yes_votes >= p.yes_votes /\ p.no_votes >= p.no_votes
    BY <1>2
  <1>. QED
    BY <1>1, <1>2, <1>3, <1>4, <1>5, VoteRefines DEF p

\* A poll approved by end_poll has somebody for it.
LEMMA ApprovedHasYes ==
    ASSUME TypeInv, NEW p \in Poll, Approved(p)
    PROVE  p.yes_votes > 0
  <1>1. p.yes_votes \in Nat /\ Tallied(p) \in Nat \ {0} /\ config.threshold \in Nat
    BY DEF Approved, QuorumReached, Tallied, Poll, TypeInv, TypeOK, ConfigType
  <1>2. FromRatio(DECIMAL_FRACTIONAL, p.yes_votes, Tallied(p)) > config.threshold
    BY DEF Approved
  <1>3. FromRatio(DECIMAL_FRACTIONAL, 0, Tallied(p)) = 0
    BY <1>1, DecimalAssumption DEF FromRatio
  <1>4. p.yes_votes # 0
    BY <1>1, <1>2, <1>3
  <1>. QED
    BY <1>1, <1>4

LEMMA EndPollRefines ==
    ASSUME TypeInv, NEW id \in PollIds, EndPoll(id)
    PROVE  Lifecycle!LNext
  <1>. DEFINE p == poll[id]
              outcome == IF Approved(p) THEN "passed" ELSE "rejected"
              q == [p EXCEPT !.status = outcome,
                             !.total_balance_at_end_poll = StakedWeight(p)]
  <1>1. id \in DOMAIN poll /\ p \in Poll
    BY PollFacts DEF EndPoll, TypeInv
  <1>2. /\ StorePoll(id, q) /\ p.status = "in_progress" /\ p.end_time <= now
        /\ UNCHANGED <<config, now>>
    BY DEF EndPoll, MayEnd, InProgress
  <1>3. (outcome = "passed" /\ p.yes_votes > 0) \/ outcome = "rejected"
    BY <1>1, ApprovedHasYes
  <1>. HIDE DEF outcome
  <1>4. LifeOf(q) = [LifeOf(p) EXCEPT !.status = outcome]
    BY <1>1 DEF LifeOf, Poll
  <1>5. /\ Lifecycle!Becomes(id, LifeOf(q)) /\ id \in DOMAIN Lives'
        /\ Lives'[id] = LifeOf(q)
    BY <1>2, StoreIsBecomes
  <1>6. /\ Lives[id] = LifeOf(p) /\ id \in DOMAIN Lives
        /\ Lives[id].status = "in_progress" /\ Lives[id].end_time <= now
        /\ Lives[id].yes = p.yes_votes
    BY <1>1, <1>2 DEF Lives, LifeOf
  <1>7. Lifecycle!End(id, outcome)
    BY <1>2, <1>3, <1>4, <1>5, <1>6 DEF Lifecycle!End, Lives
  <1>8. LifeOf(q).status = outcome
    BY <1>4 DEF LifeOf
  <1>9. Lifecycle!Change(id, Lives'[id])
    BY <1>5, <1>6, <1>7, <1>8 DEF Lifecycle!Change, Lives
  <1>. QED
    BY <1>5, <1>9, ChangeIsNext

LEMMA ExecutePollRefines ==
    ASSUME TypeInv, NoYourself, NEW id \in PollIds, ExecutePoll(id)
    PROVE  Lifecycle!LNext
  <1>. DEFINE p == poll[id]
  <1>1. id \in DOMAIN poll /\ p \in Poll
    BY PollFacts DEF ExecutePoll, TypeInv
  <1>2. PICK status \in {"executed", "failed"} :
           /\ StorePoll(id, [p EXCEPT !.status = status])
           /\ status = "failed" => UNCHANGED config
    <2>1. PICK ran, status : Executing(id, ran, status)
      BY ExecutePollEffect DEF TypeInv
    <2>2. StoreStatus({id}, status)
      BY <2>1, RunsAlone DEF Executing, TypeInv
    <2>3. DOMAIN poll \cup {id} = DOMAIN poll
      BY <1>1
    <2>4. StorePoll(id, [p EXCEPT !.status = status])
      BY <2>2, <2>3 DEF StoreStatus, StorePoll
    <2>. QED
      BY <2>1, <2>4 DEF Executing
  <1>3. /\ p.status = "passed" /\ p.execute_data # NONE
        /\ p.end_time + config.timelock_period <= now /\ now' = now
    BY DEF ExecutePoll, Executable, TimelockExpired
  <1>4. config'.timelock_period \in Nat
    BY ExecutePollTypeInv DEF TypeInv, TypeOK, ConfigType
  <1>5. LifeOf([p EXCEPT !.status = status]) = [LifeOf(p) EXCEPT !.status = status]
    BY <1>1 DEF LifeOf, Poll
  <1>. DEFINE life == [LifeOf(p) EXCEPT !.status = status]
  <1>6. /\ Lifecycle!Becomes(id, life) /\ id \in DOMAIN Lives' /\ Lives'[id] = life
    BY <1>2, <1>5, StoreIsBecomes
  <1>7. /\ Lives[id] = LifeOf(p) /\ id \in DOMAIN Lives
        /\ Lives[id].status = "passed" /\ Lives[id].executable
        /\ Lives[id].end_time = p.end_time
    BY <1>1, <1>3 DEF Lives, LifeOf
  <1>8. Lifecycle!Execute(id, status)
    BY <1>2, <1>3, <1>4, <1>6, <1>7 DEF Lifecycle!Execute, Lives
  <1>9. life.status = status
    BY DEF LifeOf
  <1>10. Lifecycle!Change(id, Lives'[id])
    BY <1>6, <1>7, <1>8, <1>9 DEF Lifecycle!Change, Lives
  <1>. QED
    BY <1>6, <1>10, ChangeIsNext

LEMMA NextRefines ==
    TypeInv /\ NoYourself /\ [Next]_vars => [Lifecycle!LNext]_(Lifecycle!lvars)
  <1>. SUFFICES ASSUME TypeInv, NoYourself, [Next]_vars
                PROVE Lifecycle!LNext \/ UNCHANGED Lifecycle!lvars
    OBVIOUS
  <1>1. CASE \/ \E token \in Tokens : RegisterToken(token)
             \/ \E sender \in Users, update \in ConfigUpdates : UpdateConfig(sender, update)
    <2>1. config'.timelock_period \in Nat
      BY <1>1, ConfigTypeInv DEF TypeInv, TypeOK, ConfigType
    <2>2. UNCHANGED <<poll, now>>
      BY <1>1 DEF RegisterToken, UpdateConfig
    <2>. QED
      BY <2>1, <2>2 DEF Lifecycle!LNext, Lifecycle!Configure
  <1>2. CASE \E amount \in Amounts, data \in Messages \cup {NONE} : CreatePoll(amount, data)
    BY <1>2, CreateRefines
  <1>3. CASE \E user \in Users, id \in PollIds, vote \in VoteOption, amount \in Amounts :
                CastVote(user, id, vote, amount)
    BY <1>3, CastVoteRefines
  <1>4. CASE \E id \in PollIds : SnapshotPoll(id)
    BY <1>4, SnapshotRefines
  <1>5. CASE \E id \in PollIds : EndPoll(id)
    BY <1>5, EndPollRefines
  <1>6. CASE \E id \in PollIds : ExecutePoll(id)
    BY <1>6, ExecutePollRefines
  <1>7. CASE Tick
    <2>1. now' > now /\ UNCHANGED <<poll, config>>
      BY <1>7 DEF Tick, TypeInv, TypeOK
    <2>. QED
      BY <2>1 DEF Lifecycle!LNext, Lifecycle!Advance
  <1>8. CASE \/ \E user \in Users, amount \in Amounts : StakeVotingTokens(user, amount)
             \/ \E user \in Users, amount \in Amounts \cup {NONE} :
                   WithdrawVotingTokens(user, amount)
             \/ \E amount \in Amounts : TransferIn(amount)
             \/ UNCHANGED vars
    <2>1. UNCHANGED <<poll, config, now>>
      BY <1>8 DEF StakeVotingTokens, WithdrawVotingTokens, MayWithdraw, TransferIn, vars
    <2>. QED
      BY <2>1 DEF Lifecycle!lvars
  <1>. QED
    BY <1>1, <1>2, <1>3, <1>4, <1>5, <1>6, <1>7, <1>8 DEF Next

\* As long as no poll has the contract run the messages of a poll, the contract
\* implements the life of a poll: forward only, ballots and snapshot fixed once
\* it ends, executed at most once and after its timelock.
THEOREM RefinesLifecycle == Spec /\ []NoYourself => ImplementsLifecycle
  <1>. QED
    BY InitRefines, InitTypeInv, NextTypeInv, NextRefines, PTL
    DEF Spec, ImplementsLifecycle, Lifecycle!LSpec

=============================================================================
