----------------------- MODULE GovernanceAccountsProofs -----------------------
(***************************************************************************)
(* The accounts of the governance contract: numbers that several storage   *)
(* items keep in step.  The shares add up to total_share, the deposits of  *)
(* the polls that have not ended to total_deposit, the kept ballots to the *)
(* tallies; and what query_staker reports as free can be withdrawn.        *)
(***************************************************************************)
EXTENDS GovernanceProofs

-----------------------------------------------------------------------------
(* Shares *)

SharesOf(b) == [u \in Users |-> b[u].share]

LEMMA SharesTyped ==
    ASSUME NEW b \in [Users -> TokenManager]
    PROVE  /\ \A u \in Users : SharesOf(b)[u] \in Nat
           /\ Sum(SharesOf(b), Users) \in Nat
  <1>1. \A u \in Users : SharesOf(b)[u] \in Nat
    BY DEF SharesOf, TokenManager
  <1>. QED
    BY <1>1, UsersAreFinite, SumNat

LEMMA SharesConservedIs ==
    /\ SharesConserved <=> state.total_share = Sum(SharesOf(bank), Users)
    /\ SharesConserved' <=> state'.total_share = Sum(SharesOf(bank'), Users)
  <1>1. \A b : DOMAIN SharesOf(b) = Users
    BY DEF SharesOf
  <1>2. \A b : SumFunction(SharesOf(b)) = Sum(SharesOf(b), Users)
    BY <1>1, SumFunctionIsSum
  <1>. QED
    BY <1>2 DEF SharesConserved, SharesOf

\* The shares of one user change, and total_share with them.
LEMMA ShareMoves ==
    ASSUME TypeInv, TypeInv', SharesConserved, NEW user \in Users, NEW d \in Int,
           bank'[user].share = bank[user].share + d,
           \A u \in Users \ {user} : bank'[u].share = bank[u].share,
           state'.total_share = state.total_share + d
    PROVE  SharesConserved'
  <1>. DEFINE g == SharesOf(bank)
              h == SharesOf(bank')
  <1>1. bank \in [Users -> TokenManager] /\ bank' \in [Users -> TokenManager]
    BY DEF TypeInv, TypeOK
  <1>2. (\A u \in Users : g[u] \in Int /\ h[u] \in Int) /\ Sum(g, Users) \in Int
    BY <1>1, SharesTyped
  <1>3. h[user] = g[user] + d /\ \A u \in Users \ {user} : g[u] = h[u]
    BY DEF SharesOf
  <1>. HIDE DEF g, h
  <1>4. Sum(h, Users) = Sum(g, Users) - g[user] + h[user]
    BY <1>2, <1>3, UsersAreFinite, SumChange
  <1>5. Sum(h, Users) = Sum(g, Users) + d
    BY <1>2, <1>3, <1>4
  <1>. QED
    BY <1>5, SharesConservedIs DEF g, h

LEMMA NextSharesConserved ==
    TypeInv /\ TypeInv' /\ SharesConserved /\ [Next]_vars => SharesConserved'
  <1>. SUFFICES ASSUME TypeInv, TypeInv', SharesConserved, [Next]_vars
                PROVE  SharesConserved'
    OBVIOUS
  <1>1. ASSUME NEW user \in Users, NEW amount \in Amounts, StakeVotingTokens(user, amount)
        PROVE  SharesConserved'
    <2>1. MintedShare(amount) \in Int
          /\ state'.total_share = state.total_share + MintedShare(amount)
      BY <1>1, StakeEffect
    <2>2. bank'[user].share = bank[user].share + MintedShare(amount)
          /\ \A u \in Users \ {user} : bank'[u].share = bank[u].share
      BY <1>1 DEF StakeVotingTokens, TypeInv, TypeOK, TokenManager
    <2>. QED
      BY <2>1, <2>2, ShareMoves
  <1>2. ASSUME NEW user \in Users, NEW amount \in Amounts \cup {NONE},
               WithdrawVotingTokens(user, amount)
        PROVE  SharesConserved'
    <2>. DEFINE d == 0 - WithdrawShare(user, amount)
    <2>1. WithdrawShare(user, amount) \in Nat /\ bank[user].share \in Nat
          /\ state.total_share \in Nat
      BY <1>2, WithdrawFacts
    <2>2. /\ bank'[user].share = bank[user].share - WithdrawShare(user, amount)
          /\ state'.total_share = state.total_share - WithdrawShare(user, amount)
      BY <1>2, WithdrawEffect
    <2>3. \A u \in Users \ {user} : bank'[u].share = bank[u].share
      BY <1>2 DEF WithdrawVotingTokens, MayWithdraw, TypeInv, TypeOK
    <2>4. /\ d \in Int /\ bank'[user].share = bank[user].share + d
          /\ state'.total_share = state.total_share + d
      BY <2>1, <2>2
    <2>. QED
      BY <2>3, <2>4, ShareMoves
  <1>3. ASSUME \A u \in Users : bank'[u].share = bank[u].share,
               state'.total_share = state.total_share
        PROVE  SharesConserved'
    <2>1. SharesOf(bank') = SharesOf(bank)
      BY <1>3 DEF SharesOf
    <2>. QED
      BY <1>3, <2>1, SharesConservedIs
  <1>4. CASE Settling \/ Receiving
    <2>1. /\ \A u \in Users : bank'[u].share = bank[u].share
          /\ state'.total_share = state.total_share
      BY <1>4, EndPollEffect DEF Settling, Receiving
    <2>. QED
      BY <1>3, <2>1
  <1>. QED
    BY <1>1, <1>2, <1>4, StepKinds DEF Minting, Burning

LEMMA SharesInvariant == Spec => [](TypeInv /\ SharesConserved)
  <1>1. Init => SharesConserved
    <2>. SUFFICES ASSUME Init PROVE SharesConserved
      OBVIOUS
    <2>1. \A u \in Users : SharesOf(bank)[u] = 0
      BY DEF Init, SharesOf
    <2>2. Sum(SharesOf(bank), Users) = 0
      BY <2>1, UsersAreFinite, SumZero
    <2>. QED
      BY <2>2, SharesConservedIs DEF Init
  <1>2. TypeInv /\ SharesConserved /\ [Next]_vars => (TypeInv /\ SharesConserved)'
    BY NextTypeInv, NextSharesConserved
  <1>. QED
    BY <1>1, <1>2, InitTypeInv, PTL DEF Spec

\* However users stake and withdraw, at whatever prices and with whatever
\* roundings, the shares that stake_voting_tokens and withdraw_voting_tokens
\* keep per user add up to the total_share that every price divides by.
THEOREM SharesAddUp == Spec => []SharesConserved
  BY SharesInvariant, PTL

\* So nobody's share exceeds the total.
LEMMA ShareIsPart ==
    ASSUME TypeInv, SharesConserved, NEW user \in Users
    PROVE  bank[user].share <= state.total_share
  <1>1. bank \in [Users -> TokenManager]
    BY DEF TypeInv, TypeOK
  <1>2. SharesOf(bank)[user] <= Sum(SharesOf(bank), Users)
    BY <1>1, SharesTyped, UsersAreFinite, SumPart
  <1>. QED
    BY <1>2, SharesConservedIs DEF SharesOf

-----------------------------------------------------------------------------
(* Deposits *)

OpenIn(p) == {i \in DOMAIN p : p[i].total_balance_at_end_poll = NONE}
DepositsIn(p) == [i \in DOMAIN p |-> p[i].deposit_amount]

LEMMA DepositsTyped ==
    ASSUME NEW n \in Nat, NEW p \in [1..n -> Poll]
    PROVE  /\ IsFiniteSet(OpenIn(p))
           /\ \A i \in DOMAIN p : DepositsIn(p)[i] \in Nat
           /\ Sum(DepositsIn(p), OpenIn(p)) \in Nat
  <1>1. DOMAIN p = 1..n /\ IsFiniteSet(1..n)
    BY FS_Interval
  <1>2. IsFiniteSet(OpenIn(p))
    BY <1>1, FS_Subset DEF OpenIn
  <1>3. \A i \in DOMAIN p : DepositsIn(p)[i] \in Nat
    BY DEF DepositsIn, Poll
  <1>4. \A i \in OpenIn(p) : DepositsIn(p)[i] \in Nat
    BY <1>3 DEF OpenIn
  <1>. QED
    BY <1>2, <1>3, <1>4, SumNat

\* The polls that have not ended are those in progress, and those that were run
\* by another one before they could.
UnendedKnown ==
    /\ \A i \in DOMAIN poll : InProgress(i) => i \in Unended
    /\ \A i \in Unended : InProgress(i) \/ RunByAnother(i)

LEMMA DepositsAccountedIs ==
    ASSUME TypeInv, TypeInv'
    PROVE  /\ DepositsAccounted <=>
                /\ state.total_deposit = Sum(DepositsIn(poll), OpenIn(poll))
                /\ UnendedKnown
           /\ DepositsAccounted' <=>
                /\ state'.total_deposit = Sum(DepositsIn(poll'), OpenIn(poll'))
                /\ UnendedKnown'
  <1>. DEFINE D(p) == [i \in OpenIn(p) |-> p[i].deposit_amount]
  <1>1. ASSUME NEW n \in Nat, NEW p \in [1..n -> Poll]
        PROVE  SumFunction(D(p)) = Sum(DepositsIn(p), OpenIn(p))
    <2>1. DOMAIN D(p) = OpenIn(p)
      OBVIOUS
    <2>2. \A i \in OpenIn(p) : D(p)[i] = DepositsIn(p)[i]
      BY DEF DepositsIn, OpenIn
    <2>3. IsFiniteSet(OpenIn(p))
      BY DepositsTyped
    <2>. HIDE DEF D
    <2>. QED
      BY <2>1, <2>2, <2>3, SumFunctionIsSum, SumCongruence
  <1>2. /\ state.poll_count \in Nat /\ poll \in [1..state.poll_count -> Poll]
        /\ state'.poll_count \in Nat /\ poll' \in [1..state'.poll_count -> Poll]
    BY DEF TypeInv, TypeOK, StateType
  <1>3. /\ DepositsAccounted <=> state.total_deposit = SumFunction(D(poll)) /\ UnendedKnown
        /\ DepositsAccounted' <=> state'.total_deposit = SumFunction(D(poll')) /\ UnendedKnown'
    BY DEF DepositsAccounted, UnendedKnown, Unended, OpenIn
  <1>. QED
    BY <1>1, <1>2, <1>3

\* What becomes of the polls when one is stored.
LEMMA StoredPoll ==
    ASSUME NEW id, NEW q, StorePoll(id, q)
    PROVE  /\ DOMAIN poll' = DOMAIN poll \cup {id}
           /\ poll'[id] = q
           /\ \A i \in DOMAIN poll : i # id => poll'[i] = poll[i]
  BY DEF StorePoll

\* Which polls have not ended is known after every step: only end_poll ends one,
\* and only execute_poll has one leave its progress otherwise.
LEMMA NextUnendedKnown == TypeInv /\ UnendedKnown /\ [Next]_vars => UnendedKnown'
  <1>. SUFFICES ASSUME TypeInv, UnendedKnown, [Next]_vars PROVE UnendedKnown'
    OBVIOUS
  <1>1. CASE UNCHANGED poll
    BY <1>1 DEF UnendedKnown, Unended, InProgress, RunByAnother
  \* A poll is created, or changed while it is in progress.
  <1>2. ASSUME NEW id, NEW q, StorePoll(id, q), id \in DOMAIN poll => InProgress(id),
               q.status = "in_progress" <=> q.total_balance_at_end_poll = NONE
        PROVE  UnendedKnown'
    <2>1. /\ DOMAIN poll' = DOMAIN poll \cup {id} /\ poll'[id] = q
          /\ \A i \in DOMAIN poll : i # id => poll'[i] = poll[i]
      BY <1>2, StoredPoll
    <2>2. \A i \in DOMAIN poll : poll[i].status = "executed" => poll'[i] = poll[i]
      BY <1>2, <2>1 DEF InProgress
    <2>3. \A i \in DOMAIN poll : RunByAnother(i) => RunByAnother(i)'
      BY <2>1, <2>2, RunByAnotherStays
    <2>. QED
      BY <1>2, <2>1, <2>3 DEF UnendedKnown, Unended, InProgress
  <1>3. ASSUME NEW amount \in Amounts, NEW data \in Messages \cup {NONE},
               CreatePoll(amount, data)
        PROVE  UnendedKnown'
    <2>. DEFINE id == state.poll_count + 1
                new == [status |-> "in_progress", yes_votes |-> 0, no_votes |-> 0,
                        end_time |-> now + config.voting_period,
                        execute_data |-> data, deposit_amount |-> amount,
                        total_balance_at_end_poll |-> NONE, staked_amount |-> NONE]
    <2>1. StorePoll(id, new)
      BY <1>3 DEF CreatePoll
    <2>2. new.status = "in_progress" /\ new.total_balance_at_end_poll = NONE
      OBVIOUS
    <2>3. id \notin DOMAIN poll
      BY DEF TypeInv, TypeOK, StateType
    <2>. HIDE DEF id, new
    <2>. QED
      BY <1>2, <2>1, <2>2, <2>3
  <1>4. ASSUME NEW user \in Users, NEW id \in PollIds, NEW vote \in VoteOption,
               NEW amount \in Amounts, CastVote(user, id, vote, amount)
        PROVE  UnendedKnown'
    <2>. DEFINE p == poll[id]
                q == [p EXCEPT !.yes_votes = IF vote = "yes" THEN @ + amount ELSE @,
                               !.no_votes = IF vote = "no" THEN @ + amount ELSE @,
                               !.staked_amount = SnapshotOnVote(p)]
    <2>1. id \in DOMAIN poll /\ StorePoll(id, q) /\ InProgress(id)
      BY <1>4 DEF CastVote, VotingOpen
    <2>2. p \in Poll /\ p.status = "in_progress" /\ p.total_balance_at_end_poll = NONE
      BY <2>1, PollFacts DEF TypeInv, UnendedKnown, Unended, InProgress
    <2>3. q.status = "in_progress" /\ q.total_balance_at_end_poll = NONE
      BY <2>2 DEF Poll
    <2>. HIDE DEF q
    <2>. QED
      BY <1>2, <2>1, <2>3
  <1>5. ASSUME NEW id \in PollIds, SnapshotPoll(id)
        PROVE  UnendedKnown'
    <2>. DEFINE q == [poll[id] EXCEPT !.staked_amount = Staked]
    <2>1. id \in DOMAIN poll /\ StorePoll(id, q) /\ InProgress(id)
      BY <1>5 DEF SnapshotPoll
    <2>2. /\ poll[id] \in Poll /\ poll[id].status = "in_progress"
          /\ poll[id].total_balance_at_end_poll = NONE
      BY <2>1, PollFacts DEF TypeInv, UnendedKnown, Unended, InProgress
    <2>3. q.status = "in_progress" /\ q.total_balance_at_end_poll = NONE
      BY <2>2 DEF Poll
    <2>. HIDE DEF q
    <2>. QED
      BY <1>2, <2>1, <2>3
  <1>6. ASSUME NEW id \in PollIds, EndPoll(id)
        PROVE  UnendedKnown'
    <2>. DEFINE outcome == IF Approved(poll[id]) THEN "passed" ELSE "rejected"
                weight == StakedWeight(poll[id])
                q == [poll[id] EXCEPT !.status = outcome, !.total_balance_at_end_poll = weight]
    <2>1. id \in DOMAIN poll /\ StorePoll(id, q) /\ InProgress(id)
      BY <1>6 DEF EndPoll, MayEnd
    <2>2. weight # NONE
      BY <1>6, <2>1, StakedWeightType, NoneFacts DEF EndPoll
    <2>3. outcome # "in_progress"
      OBVIOUS
    <2>. HIDE DEF outcome, weight
    <2>4. q.status = outcome /\ q.total_balance_at_end_poll = weight
      BY <2>1, PollFacts DEF TypeInv, Poll
    <2>. HIDE DEF q
    <2>. QED
      BY <1>2, <2>1, <2>2, <2>3, <2>4
  <1>7. ASSUME NEW id \in PollIds, ExecutePoll(id)
        PROVE  UnendedKnown'
    <2>1. PICK ran, status : Executing(id, ran, status)
      BY <1>7, ExecutePollEffect DEF TypeInv
    <2>2. ExecutedPolls(id, ran, status)
      BY <2>1, ExecutedPollsIs DEF TypeInv
    <2>3. poll[id].status = "passed" /\ id \notin Unended
      BY <1>7 DEF ExecutePoll, Executable, UnendedKnown, Unended, InProgress, RunByAnother
    <2>4. \A i \in DOMAIN poll : RunByAnother(i) => RunByAnother(i)'
      <3>1. DOMAIN poll \subseteq DOMAIN poll'
        BY <2>2 DEF ExecutedPolls
      <3>2. \A i \in DOMAIN poll : poll[i].status = "executed" =>
               /\ poll'[i].status = "executed"
               /\ poll'[i].execute_data = poll[i].execute_data
        BY <2>1, <2>2, <2>3 DEF Executing, ExecutedPolls
      <3>. QED
        BY <3>1, <3>2, RunByAnotherStays
    <2>5. \A i \in ran \ {id} : RunByAnother(i)'
      BY <2>1, <2>2 DEF Executing, ExecutedPolls, RunByAnother
    <2>6. Unended' = Unended
      BY <2>2 DEF ExecutedPolls, Unended
    <2>7. ASSUME NEW i \in DOMAIN poll', InProgress(i)' PROVE i \in Unended'
      BY <2>1, <2>2, <2>6, <2>7 DEF Executing, ExecutedPolls, InProgress, UnendedKnown
    <2>8. ASSUME NEW i \in Unended PROVE InProgress(i)' \/ RunByAnother(i)'
      <3>1. CASE i \in ran
        BY <2>3, <2>5, <3>1
      <3>2. CASE i \notin ran
        BY <2>2, <2>4, <3>2 DEF ExecutedPolls, UnendedKnown, Unended, InProgress
      <3>. QED
        BY <3>1, <3>2
    <2>. QED
      BY <2>6, <2>7, <2>8 DEF UnendedKnown
  <1>8. ASSUME \/ \E token \in Tokens : RegisterToken(token)
               \/ \E sender \in Users, update \in ConfigUpdates : UpdateConfig(sender, update)
               \/ \E user \in Users, amount \in Amounts : StakeVotingTokens(user, amount)
               \/ \E user \in Users, amount \in Amounts \cup {NONE} :
                     WithdrawVotingTokens(user, amount)
               \/ \E amount \in Amounts : TransferIn(amount)
               \/ Tick \/ UNCHANGED vars
        PROVE  UNCHANGED poll
    BY <1>8 DEF RegisterToken, UpdateConfig, StakeVotingTokens, WithdrawVotingTokens,
                MayWithdraw, TransferIn, Tick, vars
  <1>. QED
    BY <1>1, <1>3, <1>4, <1>5, <1>6, <1>7, <1>8 DEF Next

\* A poll keeps its deposit and whether it has ended.
LEMMA DepositStays ==
    ASSUME TypeInv, TypeInv', DepositsAccounted, UnendedKnown', DOMAIN poll' = DOMAIN poll,
           \A i \in DOMAIN poll :
              /\ poll'[i].deposit_amount = poll[i].deposit_amount
              /\ poll'[i].total_balance_at_end_poll = poll[i].total_balance_at_end_poll,
           state'.total_deposit = state.total_deposit
    PROVE  DepositsAccounted'
  <1>1. OpenIn(poll') = OpenIn(poll)
    BY DEF OpenIn
  <1>2. DepositsIn(poll') = DepositsIn(poll)
    BY DEF DepositsIn
  <1>. QED
    BY <1>1, <1>2, DepositsAccountedIs

LEMMA NextDepositsAccounted ==
    TypeInv /\ TypeInv' /\ DepositsAccounted /\ [Next]_vars => DepositsAccounted'
  <1>. SUFFICES ASSUME TypeInv, TypeInv', DepositsAccounted, [Next]_vars
                PROVE  DepositsAccounted'
    OBVIOUS
  <1>. DEFINE g == DepositsIn(poll)
              h == DepositsIn(poll')
              S == OpenIn(poll)
              T == OpenIn(poll')
  <1>. UnendedKnown /\ UnendedKnown'
    BY DepositsAccountedIs, NextUnendedKnown
  <1>0. /\ state.total_deposit = Sum(g, S)
        /\ state.total_deposit \in Nat
        /\ DepositsAccounted' <=> state'.total_deposit = Sum(h, T)
    BY DepositsAccountedIs DEF TypeInv, TypeOK, StateType
  <1>1. /\ IsFiniteSet(S) /\ IsFiniteSet(T)
        /\ \A i \in S : g[i] \in Int
        /\ \A i \in T : h[i] \in Int
    <2>1. /\ state.poll_count \in Nat /\ poll \in [1..state.poll_count -> Poll]
          /\ state'.poll_count \in Nat /\ poll' \in [1..state'.poll_count -> Poll]
      BY DEF TypeInv, TypeOK, StateType
    <2>2. S \subseteq DOMAIN poll /\ T \subseteq DOMAIN poll'
      BY DEF OpenIn
    <2>3. IsFiniteSet(S) /\ \A i \in DOMAIN poll : g[i] \in Nat
      BY <2>1, DepositsTyped
    <2>4. IsFiniteSet(T) /\ \A i \in DOMAIN poll' : h[i] \in Nat
      BY <2>1, DepositsTyped
    <2>. QED
      BY <2>2, <2>3, <2>4
  <1>2. ASSUME NEW amount \in Amounts, NEW data \in Messages \cup {NONE},
               CreatePoll(amount, data)
        PROVE  DepositsAccounted'
    <2>. DEFINE id == state.poll_count + 1
    <2>1. /\ DOMAIN poll' = DOMAIN poll \cup {id}
          /\ poll'[id].total_balance_at_end_poll = NONE
          /\ poll'[id].deposit_amount = amount
          /\ \A i \in DOMAIN poll : i # id => poll'[i] = poll[i]
      <3>. DEFINE new == [status |-> "in_progress", yes_votes |-> 0, no_votes |-> 0,
                          end_time |-> now + config.voting_period,
                          execute_data |-> data, deposit_amount |-> amount,
                          total_balance_at_end_poll |-> NONE, staked_amount |-> NONE]
      <3>1. StorePoll(id, new)
        BY <1>2 DEF CreatePoll
      <3>2. new.total_balance_at_end_poll = NONE /\ new.deposit_amount = amount
        OBVIOUS
      <3>. HIDE DEF id, new
      <3>. QED
        BY <3>1, <3>2, StoredPoll
    <2>2. id \notin DOMAIN poll
      BY DEF TypeInv, TypeOK, StateType
    <2>3. state'.total_deposit = state.total_deposit + amount /\ amount \in Nat
      BY <1>2, AmountsAssumption DEF CreatePoll, TypeInv, TypeOK, StateType
    <2>. HIDE DEF id
    <2>4. T = S \cup {id} /\ id \notin S /\ h[id] = amount /\ \A i \in S : h[i] = g[i]
      BY <2>1, <2>2 DEF OpenIn, DepositsIn
    <2>. HIDE DEF g, h, S, T
    <2>5. Sum(h, T) = h[id] + Sum(h, S)
      BY <1>1, <2>4, SumAdd
    <2>6. Sum(h, S) = Sum(g, S)
      BY <1>1, <2>4, SumCongruence
    <2>. QED
      BY <1>0, <2>3, <2>4, <2>5, <2>6
  <1>3. ASSUME NEW id \in PollIds, EndPoll(id)
        PROVE  DepositsAccounted'
    <2>. DEFINE d == poll[id].deposit_amount
    <2>1. /\ DOMAIN poll' = DOMAIN poll \cup {id} /\ id \in DOMAIN poll
          /\ poll[id].total_balance_at_end_poll = NONE
          /\ \A i \in DOMAIN poll : i # id => poll'[i] = poll[i]
      BY <1>3, StoredPoll DEF EndPoll, MayEnd, UnendedKnown, Unended
    <2>2. poll'[id].total_balance_at_end_poll # NONE
      <3>. DEFINE outcome == IF Approved(poll[id]) THEN "passed" ELSE "rejected"
                  q == [poll[id] EXCEPT !.status = outcome,
                          !.total_balance_at_end_poll = StakedWeight(poll[id])]
      <3>1. poll'[id] = q
        BY <1>3, StoredPoll DEF EndPoll
      <3>2. poll[id] \in Poll
        BY <2>1, PollFacts DEF TypeInv
      <3>3. StakedWeight(poll[id]) # NONE
        BY <1>3, <2>1, StakedWeightType, NoneFacts DEF EndPoll
      <3>. QED
        BY <3>1, <3>2, <3>3 DEF Poll
    <2>3. state'.total_deposit = state.total_deposit - d
      BY <1>3 DEF EndPoll, DepositAfter, TypeInv, TypeOK, StateType
    <2>4. T = S \ {id} /\ id \in S /\ g[id] = d /\ \A i \in T : h[i] = g[i]
      BY <2>1, <2>2 DEF OpenIn, DepositsIn
    <2>. HIDE DEF g, h, S, T, d
    <2>5. Sum(g, S) = d + Sum(g, T)
      BY <1>1, <2>4, SumRemove
    <2>6. Sum(h, T) = Sum(g, T) /\ Sum(h, T) \in Int /\ d \in Int
      BY <1>1, <2>4, SumCongruence, SumInt
    <2>. QED
      BY <1>0, <2>3, <2>5, <2>6
  <1>4. ASSUME NEW user \in Users, NEW id \in PollIds, NEW vote \in VoteOption,
               NEW amount \in Amounts, CastVote(user, id, vote, amount)
        PROVE  DepositsAccounted'
    <2>. DEFINE p == poll[id]
                q == [p EXCEPT !.yes_votes = IF vote = "yes" THEN @ + amount ELSE @,
                               !.no_votes = IF vote = "no" THEN @ + amount ELSE @,
                               !.staked_amount = SnapshotOnVote(p)]
    <2>1. id \in DOMAIN poll /\ StorePoll(id, q) /\ UNCHANGED state
      BY <1>4 DEF CastVote
    <2>2. p \in Poll
      BY <2>1, PollFacts DEF TypeInv
    <2>3. /\ q.deposit_amount = p.deposit_amount
          /\ q.total_balance_at_end_poll = p.total_balance_at_end_poll
      BY <2>2 DEF Poll
    <2>. HIDE DEF q
    <2>. QED
      BY <2>1, <2>3, StoredPoll, DepositStays
  <1>5. ASSUME NEW id \in PollIds, SnapshotPoll(id)
        PROVE  DepositsAccounted'
    <2>. DEFINE q == [poll[id] EXCEPT !.staked_amount = Staked]
    <2>1. id \in DOMAIN poll /\ StorePoll(id, q) /\ UNCHANGED state
      BY <1>5 DEF SnapshotPoll
    <2>2. /\ q.deposit_amount = poll[id].deposit_amount
          /\ q.total_balance_at_end_poll = poll[id].total_balance_at_end_poll
      BY <2>1, PollFacts DEF TypeInv, Poll
    <2>. HIDE DEF q
    <2>. QED
      BY <2>1, <2>2, StoredPoll, DepositStays
  <1>6. ASSUME NEW id \in PollIds, ExecutePoll(id)
        PROVE  DepositsAccounted'
    <2>1. PICK ran, status : Executing(id, ran, status)
      BY <1>6, ExecutePollEffect DEF TypeInv
    <2>2. UNCHANGED state
      BY <1>6 DEF ExecutePoll
    <2>. QED
      BY <2>1, <2>2, ExecutedPollsIs, DepositStays DEF ExecutedPolls, TypeInv
  <1>7. ASSUME UNCHANGED poll, state'.total_deposit = state.total_deposit
        PROVE  DepositsAccounted'
    BY <1>7, DepositsAccountedIs
  <1>8. ASSUME \/ \E token \in Tokens : RegisterToken(token)
               \/ \E sender \in Users, update \in ConfigUpdates : UpdateConfig(sender, update)
               \/ \E user \in Users, amount \in Amounts : StakeVotingTokens(user, amount)
               \/ \E user \in Users, amount \in Amounts \cup {NONE} :
                     WithdrawVotingTokens(user, amount)
               \/ \E amount \in Amounts : TransferIn(amount)
               \/ Tick \/ UNCHANGED vars
        PROVE  UNCHANGED poll /\ state'.total_deposit = state.total_deposit
    BY <1>8 DEF RegisterToken, UpdateConfig, StakeVotingTokens, WithdrawVotingTokens,
                MayWithdraw, TransferIn, Tick, vars, TypeInv, TypeOK, StateType
  <1>. QED
    BY <1>2, <1>3, <1>4, <1>5, <1>6, <1>7, <1>8 DEF Next

\* Whatever polls are created, voted on, ended or executed, total_deposit is the
\* sum of the deposits of the polls that have not ended: create_poll counts each
\* in, end_poll counts it out once, whether it pays it back or keeps it.  They are
\* the polls in progress, and those another poll ran before end_poll could.
THEOREM DepositsAddUp == Spec => []DepositsAccounted
  <1>1. Init => DepositsAccounted
    <2>. SUFFICES ASSUME Init PROVE DepositsAccounted
      OBVIOUS
    <2>. DEFINE f == [i \in Unended |-> poll[i].deposit_amount]
    <2>1. DOMAIN poll = {} /\ Unended = {}
      BY DEF Init, Unended
    <2>2. DOMAIN f = {}
      BY <2>1
    <2>. HIDE DEF f
    <2>3. SumFunction(f) = 0
      BY <2>2, SumFunctionIsSum, SumEmpty
    <2>. QED
      BY <2>1, <2>3 DEF f, Init, DepositsAccounted
  <1>2. TypeInv /\ DepositsAccounted /\ [Next]_vars => (TypeInv /\ DepositsAccounted)'
    BY NextTypeInv, NextDepositsAccounted
  <1>. QED
    BY <1>1, <1>2, InitTypeInv, PTL DEF Spec

-----------------------------------------------------------------------------
(* Ballots *)

\* The ballots that POLL_VOTER, as pv, keeps for a poll, and what they count.
BallotsIn(pv, id, vote) ==
    {ub \in UNION {{u} \X pv[u] : u \in Users} : ub[2].poll = id /\ ub[2].vote = vote}
Weights == [ub \in Users \X Ballot |-> ub[2].balance]
TallyIn(pv, id, vote) == Sum(Weights, BallotsIn(pv, id, vote))

FiniteBallots == \A u \in Users : IsFiniteSet(poll_voter[u])

LEMMA BallotIn ==
    ASSUME NEW pv \in [Users -> SUBSET Ballot], NEW id, NEW vote, NEW u, NEW b
    PROVE  <<u, b>> \in BallotsIn(pv, id, vote)
             <=> u \in Users /\ b \in pv[u] /\ b.poll = id /\ b.vote = vote
  BY DEF BallotsIn

LEMMA BallotsTyped ==
    ASSUME NEW pv \in [Users -> SUBSET Ballot], \A u \in Users : IsFiniteSet(pv[u]),
           NEW id, NEW vote
    PROVE  /\ BallotsIn(pv, id, vote) \subseteq Users \X Ballot
           /\ IsFiniteSet(BallotsIn(pv, id, vote))
           /\ \A ub \in BallotsIn(pv, id, vote) : Weights[ub] \in Nat
           /\ TallyIn(pv, id, vote) \in Nat
  <1>. DEFINE P == {{u} \X pv[u] : u \in Users}
              f == [u \in Users |-> {u} \X pv[u]]
              B == BallotsIn(pv, id, vote)
  <1>1. B \subseteq Users \X Ballot
    BY DEF BallotsIn
  <1>2. \A X \in P : IsFiniteSet(X)
    <2>1. ASSUME NEW u \in Users PROVE IsFiniteSet({u} \X pv[u])
      <3>1. IsFiniteSet({u})
        BY FS_Singleton
      <3>. QED
        BY <3>1, FS_Product
    <2>. QED
      BY <2>1
  <1>3. IsFiniteSet(P)
    <2>1. f \in Surjection(Users, P)
      BY DEF Surjection
    <2>. QED
      BY <2>1, UsersAreFinite, FS_Surjection
  <1>4. IsFiniteSet(UNION P)
    BY <1>2, <1>3, FS_UNION
  <1>5. IsFiniteSet(B)
    BY <1>4, FS_Subset DEF BallotsIn
  <1>6. \A ub \in B : Weights[ub] \in Nat
    BY <1>1 DEF Weights, Ballot
  <1>. QED
    BY <1>1, <1>5, <1>6, SumNat DEF TallyIn

TalliesAgree(p, pv) ==
    \A id \in DOMAIN p : p[id].status = "in_progress" =>
        /\ p[id].yes_votes = TallyIn(pv, id, "yes")
        /\ p[id].no_votes = TallyIn(pv, id, "no")

LEMMA TallyMatchesIs ==
    ASSUME TypeInv, TypeInv', FiniteBallots, FiniteBallots'
    PROVE  /\ TallyMatchesVoters <=> TalliesAgree(poll, poll_voter)
           /\ TallyMatchesVoters' <=> TalliesAgree(poll', poll_voter')
  <1>. DEFINE W(pv, id, vote) == [ub \in BallotsIn(pv, id, vote) |-> ub[2].balance]
  <1>1. ASSUME NEW pv \in [Users -> SUBSET Ballot], \A u \in Users : IsFiniteSet(pv[u])
        PROVE  \A id, vote : SumFunction(W(pv, id, vote)) = TallyIn(pv, id, vote)
    <2>. SUFFICES ASSUME NEW id, NEW vote
                  PROVE  SumFunction(W(pv, id, vote)) = TallyIn(pv, id, vote)
      OBVIOUS
    <2>1. /\ BallotsIn(pv, id, vote) \subseteq Users \X Ballot
          /\ IsFiniteSet(BallotsIn(pv, id, vote))
      BY <1>1, BallotsTyped
    <2>2. DOMAIN W(pv, id, vote) = BallotsIn(pv, id, vote)
      OBVIOUS
    <2>3. \A ub \in BallotsIn(pv, id, vote) : W(pv, id, vote)[ub] = Weights[ub]
      BY <2>1 DEF Weights
    <2>. HIDE DEF W
    <2>. QED
      BY <2>1, <2>2, <2>3, SumFunctionIsSum, SumCongruence DEF TallyIn
  <1>2. /\ poll_voter \in [Users -> SUBSET Ballot]
        /\ poll_voter' \in [Users -> SUBSET Ballot]
    BY DEF TypeInv, TypeOK
  <1>3. \A id, vote : /\ SumFunction(W(poll_voter, id, vote)) = TallyIn(poll_voter, id, vote)
                      /\ SumFunction(W(poll_voter', id, vote)) = TallyIn(poll_voter', id, vote)
    BY <1>1, <1>2 DEF FiniteBallots
  <1>4. /\ TallyMatchesVoters <=>
             \A id \in DOMAIN poll : InProgress(id) =>
                /\ poll[id].yes_votes = SumFunction(W(poll_voter, id, "yes"))
                /\ poll[id].no_votes = SumFunction(W(poll_voter, id, "no"))
        /\ TallyMatchesVoters' <=>
             \A id \in DOMAIN poll' : InProgress(id)' =>
                /\ poll'[id].yes_votes = SumFunction(W(poll_voter', id, "yes"))
                /\ poll'[id].no_votes = SumFunction(W(poll_voter', id, "no"))
    BY DEF TallyMatchesVoters, BallotsOf, BallotsIn
  <1>. HIDE DEF W
  <1>. QED
    BY <1>3, <1>4 DEF TalliesAgree, InProgress

\* Every poll in progress was in progress with the same tallies, and its ballots
\* are those that were kept for it.
LEMMA TalliesStay ==
    ASSUME TalliesAgree(poll, poll_voter),
           \A id \in DOMAIN poll' : poll'[id].status = "in_progress" =>
               /\ id \in DOMAIN poll /\ poll[id].status = "in_progress"
               /\ poll'[id].yes_votes = poll[id].yes_votes
               /\ poll'[id].no_votes = poll[id].no_votes
               /\ \A vote : BallotsIn(poll_voter', id, vote) = BallotsIn(poll_voter, id, vote)
    PROVE  TalliesAgree(poll', poll_voter')
  BY DEF TalliesAgree, TallyIn

\* An existing poll is stored with the same tallies and not put in progress.
LEMMA StoredTalliesStay ==
    ASSUME TalliesAgree(poll, poll_voter), NEW id \in DOMAIN poll, NEW q, StorePoll(id, q),
           q.yes_votes = poll[id].yes_votes, q.no_votes = poll[id].no_votes,
           q.status = "in_progress" => poll[id].status = "in_progress",
           UNCHANGED poll_voter
    PROVE  TalliesAgree(poll', poll_voter')
  BY StoredPoll, TalliesStay, SMTT(30)

LEMMA NextTalliesAgree ==
    ASSUME TypeInv, TypeInv', VoterLockAgreement, FiniteBallots, FiniteBallots',
           TalliesAgree(poll, poll_voter), [Next]_vars
    PROVE  TalliesAgree(poll', poll_voter')
  <1>0. /\ poll_voter \in [Users -> SUBSET Ballot]
        /\ poll_voter' \in [Users -> SUBSET Ballot]
    BY DEF TypeInv, TypeOK
  <1>1. ASSUME NEW amount \in Amounts, NEW data \in Messages \cup {NONE},
               CreatePoll(amount, data)
        PROVE  TalliesAgree(poll', poll_voter')
    <2>. DEFINE id == state.poll_count + 1
                new == [status |-> "in_progress", yes_votes |-> 0, no_votes |-> 0,
                        end_time |-> now + config.voting_period,
                        execute_data |-> data, deposit_amount |-> amount,
                        total_balance_at_end_poll |-> NONE, staked_amount |-> NONE]
    <2>1. StorePoll(id, new) /\ UNCHANGED poll_voter
      BY <1>1 DEF CreatePoll
    <2>2. new.yes_votes = 0 /\ new.no_votes = 0
      OBVIOUS
    <2>3. id \notin DOMAIN poll
      BY DEF TypeInv, TypeOK, StateType
    <2>. HIDE DEF id, new
    <2>4. \A vote : BallotsIn(poll_voter, id, vote) = {}
      BY <2>3 DEF BallotsIn, VoterLockAgreement
    <2>5. \A vote : TallyIn(poll_voter, id, vote) = 0
      BY <2>4, SumEmpty DEF TallyIn
    <2>6. /\ DOMAIN poll' = DOMAIN poll \cup {id}
          /\ poll'[id] = new
          /\ \A i \in DOMAIN poll : poll'[i] = poll[i]
      BY <2>1, <2>3, StoredPoll
    <2>. QED
      BY <2>1, <2>2, <2>5, <2>6 DEF TalliesAgree
  <1>2. ASSUME NEW user \in Users, NEW id \in PollIds, NEW vote \in VoteOption,
               NEW amount \in Amounts, CastVote(user, id, vote, amount)
        PROVE  TalliesAgree(poll', poll_voter')
    <2>. DEFINE p == poll[id]
                ballot == [poll |-> id, vote |-> vote, balance |-> amount]
                yes == IF vote = "yes" THEN p.yes_votes + amount ELSE p.yes_votes
                no == IF vote = "no" THEN p.no_votes + amount ELSE p.no_votes
                q == [p EXCEPT !.yes_votes = yes, !.no_votes = no,
                               !.staked_amount = SnapshotOnVote(p)]
    <2>1. id \in DOMAIN poll /\ StorePoll(id, q) /\ p.status = "in_progress"
      BY <1>2 DEF CastVote, VotingOpen, InProgress
    <2>2. p \in Poll /\ amount \in Nat /\ id \in Nat
      BY <2>1, PollFacts, AmountsAssumption DEF TypeInv
    <2>3. /\ poll_voter' = [poll_voter EXCEPT ![user] =
                               {b \in @ : b.poll # ballot.poll} \cup {ballot}]
          /\ \A b \in poll_voter[user] : b.poll # id
      BY <1>2 DEF CastVote, StoreVoter, HasVoted
    <2>4. /\ ballot.poll = id /\ ballot.vote = vote /\ ballot.balance = amount
          /\ ballot \in Ballot
      BY <2>2 DEF Ballot
    <2>5. q.yes_votes = yes /\ q.no_votes = no
      <3>. HIDE DEF yes, no
      <3>. QED
        BY <2>2 DEF Poll
    <2>. HIDE DEF p, q, ballot
    <2>6. /\ poll_voter'[user] = poll_voter[user] \cup {ballot}
          /\ \A u \in Users : u # user => poll_voter'[u] = poll_voter[u]
      BY <1>0, <2>3, <2>4
    <2>7. \A i, v : (i # id \/ v # vote) =>
             BallotsIn(poll_voter', i, v) = BallotsIn(poll_voter, i, v)
      BY <2>4, <2>6 DEF BallotsIn
    <2>8. /\ BallotsIn(poll_voter', id, vote)
                = BallotsIn(poll_voter, id, vote) \cup {<<user, ballot>>}
          /\ <<user, ballot>> \notin BallotsIn(poll_voter, id, vote)
      BY <2>3, <2>4, <2>6 DEF BallotsIn
    <2>9. TallyIn(poll_voter', id, vote) = amount + TallyIn(poll_voter, id, vote)
      <3>. DEFINE B == BallotsIn(poll_voter, id, vote)
                  e == <<user, ballot>>
      <3>1. IsFiniteSet(B) /\ \A ub \in B : Weights[ub] \in Int
        BY <1>0, BallotsTyped DEF FiniteBallots
      <3>2. Weights[e] = amount /\ amount \in Int
        BY <2>2, <2>4 DEF Weights
      <3>. HIDE DEF B, e
      <3>3. Sum(Weights, B \cup {e}) = Weights[e] + Sum(Weights, B)
        BY <2>8, <3>1, <3>2, SumAdd DEF B, e
      <3>. QED
        BY <2>8, <3>2, <3>3 DEF TallyIn, B, e
    <2>10. \A v : v # vote => TallyIn(poll_voter', id, v) = TallyIn(poll_voter, id, v)
      BY <2>7 DEF TallyIn
    <2>11. \A i : i # id => /\ TallyIn(poll_voter', i, "yes") = TallyIn(poll_voter, i, "yes")
                            /\ TallyIn(poll_voter', i, "no") = TallyIn(poll_voter, i, "no")
      BY <2>7 DEF TallyIn
    <2>12. \A v : TallyIn(poll_voter, id, v) \in Nat
      BY <1>0, BallotsTyped DEF FiniteBallots
    <2>13. /\ p.yes_votes = TallyIn(poll_voter, id, "yes")
           /\ p.no_votes = TallyIn(poll_voter, id, "no")
      BY <2>1 DEF TalliesAgree, p
    <2>14. yes = TallyIn(poll_voter', id, "yes") /\ no = TallyIn(poll_voter', id, "no")
      <3>1. CASE vote = "yes"
        BY <2>2, <2>9, <2>10, <2>12, <2>13, <3>1
      <3>2. CASE vote = "no"
        BY <2>2, <2>9, <2>10, <2>12, <2>13, <3>2
      <3>. QED
        BY <3>1, <3>2 DEF VoteOption
    <2>15. /\ DOMAIN poll' = DOMAIN poll /\ poll'[id] = q
           /\ \A i \in DOMAIN poll : i # id => poll'[i] = poll[i]
      BY <2>1, StoredPoll
    <2>. HIDE DEF yes, no
    <2>. QED
      BY <2>5, <2>11, <2>14, <2>15 DEF TalliesAgree
  <1>3. ASSUME NEW id \in PollIds, SnapshotPoll(id)
        PROVE  TalliesAgree(poll', poll_voter')
    <2>. DEFINE q == [poll[id] EXCEPT !.staked_amount = Staked]
    <2>1. id \in DOMAIN poll /\ StorePoll(id, q) /\ UNCHANGED poll_voter
      BY <1>3 DEF SnapshotPoll
    <2>2. /\ q.yes_votes = poll[id].yes_votes /\ q.no_votes = poll[id].no_votes
          /\ q.status = poll[id].status
      BY <2>1, PollFacts DEF TypeInv, Poll
    <2>. HIDE DEF q
    <2>. QED
      BY <2>1, <2>2, StoredTalliesStay
  <1>4. ASSUME NEW id \in PollIds, EndPoll(id)
        PROVE  TalliesAgree(poll', poll_voter')
    <2>. DEFINE outcome == IF Approved(poll[id]) THEN "passed" ELSE "rejected"
                q == [poll[id] EXCEPT !.status = outcome,
                        !.total_balance_at_end_poll = StakedWeight(poll[id])]
    <2>1. id \in DOMAIN poll /\ StorePoll(id, q) /\ UNCHANGED poll_voter
      BY <1>4 DEF EndPoll
    <2>2. /\ q.yes_votes = poll[id].yes_votes /\ q.no_votes = poll[id].no_votes
          /\ q.status # "in_progress"
      BY <2>1, PollFacts DEF TypeInv, Poll
    <2>. HIDE DEF q
    <2>. QED
      BY <2>1, <2>2, StoredTalliesStay
  <1>5. ASSUME NEW id \in PollIds, ExecutePoll(id)
        PROVE  TalliesAgree(poll', poll_voter')
    <2>1. PICK ran, status : Executing(id, ran, status)
      BY <1>5, ExecutePollEffect DEF TypeInv
    <2>2. ExecutedPolls(id, ran, status) /\ status # "in_progress"
      BY <2>1, ExecutedPollsIs DEF TypeInv, Executing
    <2>3. UNCHANGED poll_voter
      BY <1>5 DEF ExecutePoll
    <2>. QED
      BY <2>2, <2>3, TalliesStay DEF ExecutedPolls
  <1>6. ASSUME NEW user \in Users, NEW amount \in Amounts \cup {NONE},
               WithdrawVotingTokens(user, amount)
        PROVE  TalliesAgree(poll', poll_voter')
    <2>1. UNCHANGED poll /\ poll_voter' = [poll_voter EXCEPT ![user] = RetainedVoters(user)]
      BY <1>6 DEF WithdrawVotingTokens, MayWithdraw
    <2>2. \A b \in Ballot : InProgress(b.poll) =>
             (b \in RetainedVoters(user) <=> b \in poll_voter[user])
      BY DEF RetainedVoters
    <2>3. \A u \in Users : \A b \in Ballot : InProgress(b.poll) =>
             (b \in poll_voter'[u] <=> b \in poll_voter[u])
      BY <1>0, <2>1, <2>2
    <2>4. ASSUME NEW id \in DOMAIN poll, poll[id].status = "in_progress", NEW vote
          PROVE  BallotsIn(poll_voter', id, vote) = BallotsIn(poll_voter, id, vote)
      <3>1. \A u \in Users : \A b \in Ballot :
               b.poll = id => (b \in poll_voter'[u] <=> b \in poll_voter[u])
        BY <2>3, <2>4 DEF InProgress
      <3>2. /\ BallotsIn(poll_voter', id, vote) \subseteq Users \X Ballot
            /\ BallotsIn(poll_voter, id, vote) \subseteq Users \X Ballot
        BY <1>0, BallotsTyped DEF FiniteBallots
      <3>3. ASSUME NEW u \in Users, NEW b \in Ballot
            PROVE  <<u, b>> \in BallotsIn(poll_voter', id, vote)
                     <=> <<u, b>> \in BallotsIn(poll_voter, id, vote)
        <4>1. <<u, b>> \in BallotsIn(poll_voter, id, vote)
                <=> b \in poll_voter[u] /\ b.poll = id /\ b.vote = vote
          BY <1>0, BallotIn
        <4>2. <<u, b>> \in BallotsIn(poll_voter', id, vote)
                <=> b \in poll_voter'[u] /\ b.poll = id /\ b.vote = vote
          BY <1>0, BallotIn
        <4>. QED
          BY <3>1, <4>1, <4>2
      <3>. HIDE DEF BallotsIn
      <3>. QED
        BY <3>2, <3>3
    <2>. QED
      BY <2>1, <2>4, TalliesStay
  <1>7. ASSUME UNCHANGED <<poll, poll_voter>>
        PROVE  TalliesAgree(poll', poll_voter')
    BY <1>7
  <1>8. ASSUME \/ \E token \in Tokens : RegisterToken(token)
               \/ \E sender \in Users, update \in ConfigUpdates : UpdateConfig(sender, update)
               \/ \E user \in Users, amount \in Amounts : StakeVotingTokens(user, amount)
               \/ \E amount \in Amounts : TransferIn(amount)
               \/ Tick \/ UNCHANGED vars
        PROVE  UNCHANGED <<poll, poll_voter>>
    BY <1>8 DEF RegisterToken, UpdateConfig, StakeVotingTokens, TransferIn, Tick, vars
  <1>. QED
    BY <1>1, <1>2, <1>3, <1>4, <1>5, <1>6, <1>7, <1>8 DEF Next

\* Votes, snapshots and withdrawals in any order: while a poll is in progress,
\* its tallies in POLL are the sums of the ballots POLL_VOTER keeps for it, none
\* of which a withdrawal has removed.
THEOREM TalliesAreBallots == Spec => []TallyMatchesVoters
  <1>. DEFINE I == TypeInv /\ VoterLockAgreement /\ TallyMatchesVoters
  <1>1. Init => I
    <2>1. Init => VoterLockAgreement /\ TallyMatchesVoters
      BY DEF Init, VoterLockAgreement, TallyMatchesVoters
    <2>. QED
      BY <2>1, InitTypeInv
  <1>2. I /\ [Next]_vars => I'
    <2>. SUFFICES ASSUME TypeInv, VoterLockAgreement, TallyMatchesVoters, [Next]_vars
                  PROVE  I'
      OBVIOUS
    <2>1. TypeInv' /\ VoterLockAgreement'
      BY NextTypeInv, NextVoterLock
    <2>2. FiniteBallots /\ FiniteBallots'
      BY <2>1 DEF TypeInv, FiniteLocks, VoterLockAgreement, FiniteBallots
    <2>. QED
      BY <2>1, <2>2, TallyMatchesIs, NextTalliesAgree
  <1>3. I => TallyMatchesVoters
    OBVIOUS
  <1>. QED
    BY <1>1, <1>2, <1>3, PTL DEF Spec

-----------------------------------------------------------------------------
(* What query_staker reports can be withdrawn *)

\* Two amounts that together are worth no more than a share, at the price of
\* `stake` for `total`, come to no more than that share when each is converted
\* on its own; and the second still costs a share when it is worth less.
LEMMA TwoConversions ==
    ASSUME NEW locked \in Nat, NEW free \in Nat \ {0}, NEW share \in Nat,
           NEW stake \in Nat \ {0}, NEW total \in Nat \ {0},
           locked + free <= MultiplyRatio(share, stake, total)
    PROVE  MultiplyRatio(locked, total, stake)
              + MaxOf(MultiplyRatio(free, total, stake), 1) <= share
  <1>. DEFINE a == MultiplyRatio(locked, total, stake)
              b == MultiplyRatio(free, total, stake)
              v == MultiplyRatio(share, stake, total)
  <1>1. /\ a \in Nat /\ b \in Nat /\ v \in Nat
        /\ a * stake <= locked * total
        /\ b * stake <= free * total
        /\ v * total <= share * stake
    BY MultiplyRatioType
  <1>. HIDE DEF a, b, v
  <1>2. (locked + free) * total <= v * total
    BY <1>1, MulMonotone DEF v
  <1>3. /\ locked * total \in Nat /\ free * total \in Nat /\ v * total \in Nat
        /\ share * stake \in Nat /\ a * stake \in Nat /\ b * stake \in Nat
        /\ (locked + free) * total = locked * total + free * total
        /\ (a + b) * stake = a * stake + b * stake
    BY <1>1, MulNat
  <1>4. (a + b) * stake <= share * stake
    BY <1>1, <1>2, <1>3
  <1>5. a + b <= share
    <2>1. SUFFICES ASSUME share + 1 <= a + b PROVE FALSE
      BY <1>1
    <2>2. (share + 1) * stake <= (a + b) * stake
      BY <1>1, <2>1, MulMonotone
    <2>3. (share + 1) * stake = share * stake + stake
      OBVIOUS
    <2>. QED
      BY <1>3, <1>4, <2>2, <2>3
  <1>6. CASE b = 0
    <2>1. free * total >= total
      BY MulMonotone
    <2>2. a * stake < share * stake
      BY <1>1, <1>2, <1>3, <2>1
    <2>3. a < share
      BY <1>1, <2>2, MulCancel
    <2>. QED
      BY <1>1, <1>6, <2>3 DEF MaxOf, a, b
  <1>7. CASE b # 0
    BY <1>1, <1>5, <1>7 DEF MaxOf, a, b
  <1>. QED
    BY <1>6, <1>7

LEMMA ReportedFollows ==
    ASSUME TypeInv, ShareBacked, SharesConserved
    PROVE  ReportedIsWithdrawable
  <1>. SUFFICES ASSUME DepositsCovered, NEW u \in Users, Free(u) > 0
                PROVE  MayWithdraw(u, Free(u))
    BY DEF ReportedIsWithdrawable
  <1>. DEFINE s == bank[u].share
              S == Staked
              T == state.total_share
              L == LockedBalance(u)
              F == Free(u)
              V == MultiplyRatio(s, S, T)
  <1>1. /\ s \in Nat /\ T \in Nat /\ S \in Nat /\ L \in Nat
        /\ state.total_deposit \in Nat /\ psi_balance \in Nat
    BY LockedBalanceType DEF TypeInv, TypeOK, StateType, TokenManager, Staked, DepositsCovered
  <1>2. T # 0
    <2>1. SUFFICES ASSUME T = 0 PROVE FALSE
      OBVIOUS
    <2>2. Free(u) = 0 - L
      BY <2>1 DEF Free, QueryStaker
    <2>. QED
      BY <1>1, <2>2
  <1>3. F = V - L
    BY <1>2 DEF Free, QueryStaker, ShareToAmount
  <1>4. S > 0
    BY <1>1, <1>2 DEF ShareBacked, Staked
  <1>5. V \in Nat /\ V * T <= s * S
    BY <1>1, <1>2, MultiplyRatioType
  <1>6. F \in Nat \ {0} /\ L + F = V
    BY <1>1, <1>3, <1>5
  <1>7. s <= T
    BY ShareIsPart
  <1>. HIDE DEF s, S, T, L, F, V
  <1>8. V <= S
    <2>1. SUFFICES ASSUME S + 1 <= V PROVE FALSE
      BY <1>1, <1>5
    <2>2. (S + 1) * T <= V * T /\ s * S <= T * S
      BY <1>1, <1>5, <1>7, <2>1, MulMonotone
    <2>3. (S + 1) * T = S * T + T /\ S * T = T * S
      BY <1>1
    <2>4. V * T \in Nat /\ s * S \in Nat /\ T * S \in Nat
      BY <1>1, <1>5, MulNat
    <2>. QED
      BY <1>1, <1>2, <1>5, <2>2, <2>3, <2>4
  <1>9. F # NONE
    BY <1>6, NoneFacts
  <1>10. MultiplyRatio(L, T, S) + MaxOf(MultiplyRatio(F, T, S), 1) <= s
    BY <1>1, <1>2, <1>4, <1>6, TwoConversions DEF V
  <1>11. /\ WithdrawShare(u, Free(u)) = MaxOf(MultiplyRatio(F, T, S), 1)
         /\ WithdrawAmount(u, Free(u)) = F
         /\ LockedShare(u) = MultiplyRatio(L, T, S)
    BY <1>9 DEF WithdrawShare, WithdrawAmount, LockedShare, AmountToShare, F, L, T, S
  <1>12. /\ MultiplyRatio(L, T, S) \in Nat /\ MultiplyRatio(F, T, S) \in Nat
         /\ MaxOf(MultiplyRatio(F, T, S), 1) \in Nat
    <2>1. S \in Nat \ {0} /\ F \in Nat
      BY <1>1, <1>4, <1>6
    <2>2. MultiplyRatio(L, T, S) \in Nat
      BY <1>1, <2>1, MultiplyRatioType
    <2>3. MultiplyRatio(F, T, S) \in Nat
      BY <1>1, <2>1, MultiplyRatioType
    <2>. QED
      BY <2>2, <2>3 DEF MaxOf
  <1>13. MaxOf(MultiplyRatio(F, T, S), 1) <= T
    BY <1>1, <1>7, <1>10, <1>12
  <1>14. CanPay(F)
    BY <1>1, <1>6, <1>8 DEF CanPay, S, Staked
  <1>. QED
    BY <1>1, <1>4, <1>9, <1>10, <1>11, <1>12, <1>13, <1>14 DEF MayWithdraw, F, T, S, s

\* What query_staker shows as free of a staker's balance, the worth of the share
\* less the largest lock, is accepted by withdraw_voting_tokens whenever the
\* deposits are covered: the roundings of the query, which prices the share, and
\* of the withdrawal, which prices the amount and the lock, never conflict.
THEOREM FreeIsWithdrawable == Spec => []ReportedIsWithdrawable
  BY ShareBackedInvariant, SharesInvariant, ReportedFollows, PTL

=============================================================================
