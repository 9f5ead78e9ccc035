------------------------- MODULE GovernedContractsProofs -------------------------
(***************************************************************************)
(* Theorems of GovernedContracts.tla, for all users, owners, polls,        *)
(* messages, trees and bounds: the types, the handover of the pool, that   *)
(* the airdrop keeps the promise of Entitlements.tla, and, if polls pay    *)
(* for the stages they register, that all that is owed can be claimed.     *)
(*                                                                         *)
(* The inductive invariant is TypeOK with what a transaction keeps of the  *)
(* state before it (SavedInv), as an aborted one goes back to it, and with *)
(* ClaimsMatch, which ties the payments of a stage to the claim index.     *)
(* Settles adds what the executed polls made of stages and balances, and   *)
(* PaidAsEntitled that no claim paid more than its stage owed.             *)
(***************************************************************************)
EXTENDS GovernedContracts, CosmMathProofs

\* The storage items that a rollback restores have their types.
WorldOK(w) ==
    /\ w.drop_config \in [owner: Owners \cup {Gov}]
    /\ w.latest_stage \in 0..U8_MAX
    /\ w.merkle_root \in [1..w.latest_stage -> Roots \ {BAD}]
    /\ w.pool_config \in [governance_contract: Owners \cup {Gov}]
    /\ w.balance \in [Addresses -> Nat]

\* The stages of `old` are stages of `new`, with the same roots.
Extends(new, old) ==
    /\ DOMAIN old \subseteq DOMAIN new
    /\ \A s \in DOMAIN old : new[s] = old[s]

\* Of the state before it, an open transaction keeps the stages; and as long as
\* governance did not own the pool then, the pool.
SavedInv ==
    tx # NONE =>
        /\ tx = [poll |-> tx.poll, rest |-> tx.rest, saved |-> tx.saved]
        /\ tx.poll \in PollIds /\ tx.rest \in Seq(Message)
        /\ WorldOK(tx.saved)
        /\ claimed \subseteq Users \X DOMAIN tx.saved.merkle_root
        /\ Extends(merkle_root, tx.saved.merkle_root)
        /\ tx.saved.pool_config.governance_contract # Gov =>
              /\ pool_config = tx.saved.pool_config
              /\ balance[PoolAddr] >= tx.saved.balance[PoolAddr]

\* What has not been claimed has not been paid.
ClaimsMatch == \A k \in Users \X Drop!Stages : k \notin claimed => received[k] = 0

IInv == TypeOK /\ SavedInv /\ ClaimsMatch

LEMMA TypeIsWorldOK == ASSUME TypeOK PROVE WorldOK(World)
BY DEF TypeOK, WorldOK, World

LEMMA InitInv == Init => IInv
<1> SUFFICES ASSUME Init PROVE IInv
    OBVIOUS
<1> USE DEF Init, Drop!Init, Pool!Init
<1>1. TypeOK
  <2>1. merkle_root \in [1..latest_stage -> Roots \ {BAD}]
    <3>1. latest_stage = 0 /\ 1..latest_stage = {}
        OBVIOUS
    <3>2. DOMAIN merkle_root = {}
        OBVIOUS
    <3> QED
        BY <3>1, <3>2
  <2>2. balance \in [Addresses -> Nat]
      BY BoundsAssumption DEF Addresses
  <2>3. latest_stage \in 0..U8_MAX /\ received \in [Users \X Drop!Stages -> Nat]
      BY BoundsAssumption
  <2>4. drop_config \in [owner: Owners \cup {Gov}] /\ pool_config \in [governance_contract: Owners \cup {Gov}]
      OBVIOUS
  <2>5. polls \in [PollIds -> {"passed", "executed", "failed"}] /\ claimed = {} /\ direct = {} /\ tx = NONE
      OBVIOUS
  <2> QED
      BY <2>1, <2>2, <2>3, <2>4, <2>5 DEF TypeOK
<1>2. SavedInv
    BY DEF SavedInv
<1>3. ClaimsMatch
    BY DEF ClaimsMatch
<1> QED
    BY <1>1, <1>2, <1>3 DEF IInv

-----------------------------------------------------------------------------
(* A message to one of the contracts *)

\* A transfer keeps balances natural, and takes only from its sender.
LEMMA TransferEffect ==
    ASSUME NEW b \in [Addresses -> Nat], NEW from \in Addresses, NEW to \in Addresses,
           NEW amount \in Nat, CanTransfer(b, from, amount)
    PROVE  /\ Transferred(b, from, to, amount) \in [Addresses -> Nat]
           /\ \A a \in Addresses \ {from} : Transferred(b, from, to, amount)[a] >= b[a]
<1>1. CASE from = to
    BY <1>1 DEF Transferred
<1>2. CASE from # to
    BY <1>2 DEF Transferred, CanTransfer
<1> QED
    BY <1>1, <1>2

\* A message leaves the claims alone and every stage as it was, and the pool as
\* well if its sender does not govern it.
LEMMA PerformEffect ==
    ASSUME TypeOK, NEW sender \in Owners \cup {Gov}, NEW m \in Message, Perform(sender, m)
    PROVE  /\ WorldOK(World')
           /\ UNCHANGED <<claimed, received>>
           /\ Extends(merkle_root', merkle_root)
           /\ sender # pool_config.governance_contract =>
                 pool_config' = pool_config /\ balance'[PoolAddr] >= balance[PoolAddr]
<1> USE DEF TypeOK, World
<1>1. CASE m.kind = "spend" /\ Pool!Spend(sender, m.recipient, m.amount) /\ UNCHANGED drop_state
  <2>1. m.recipient \in Addresses /\ m.amount \in Nat
      BY <1>1 DEF Message, PoolMessage, DropMessage
  <2>2. /\ balance' = Transferred(balance, PoolAddr, m.recipient, m.amount)
        /\ CanTransfer(balance, PoolAddr, m.amount)
        /\ sender = pool_config.governance_contract
        /\ pool_config' = pool_config
      BY <1>1 DEF Pool!Spend, Pool!MaySpend, Pool!Governs, Pool!CanTransfer, Pool!Transferred,
                 CanTransfer, Transferred
  <2>3. balance' \in [Addresses -> Nat]
      BY <2>1, <2>2, TransferEffect DEF Addresses
  <2> QED
      BY <1>1, <2>2, <2>3 DEF drop_state, WorldOK, Extends
<1>2. CASE m.kind = "govern" /\ Pool!UpdateConfig(sender, m.governance_contract) /\ UNCHANGED drop_state
  <2>1. m.governance_contract \in Owners \cup {Gov, NONE}
      BY <1>2 DEF Message, PoolMessage, DropMessage
  <2>2. pool_config' \in [governance_contract: Owners \cup {Gov}]
      BY <1>2, <2>1 DEF Pool!UpdateConfig
  <2>3. balance' = balance /\ sender = pool_config.governance_contract
      BY <1>2 DEF Pool!UpdateConfig, Pool!MayUpdateConfig, Pool!Governs
  <2> QED
      BY <1>2, <2>2, <2>3 DEF drop_state, WorldOK, Extends
<1>3. CASE m.kind = "register" /\ Drop!RegisterMerkleRoot(sender, m.root) /\ UNCHANGED pool_config
  <2>1. m.root \in Roots \ {BAD}
      BY <1>3 DEF Message, PoolMessage, DropMessage, Drop!RegisterMerkleRoot, Drop!MayRegisterMerkleRoot
  <2>2. PICK stage \in Drop!NextStage :
            /\ merkle_root' = [s \in DOMAIN merkle_root \cup {stage} |->
                                  IF s = stage THEN m.root ELSE merkle_root[s]]
            /\ latest_stage' = stage
      BY <1>3 DEF Drop!RegisterMerkleRoot
  <2>3. stage = latest_stage + 1 /\ stage \in 0..U8_MAX
      BY <2>2 DEF Drop!NextStage
  <2>4. DOMAIN merkle_root \cup {stage} = 1..latest_stage' /\ stage \notin DOMAIN merkle_root
      BY <2>2, <2>3
  <2>5. merkle_root' \in [1..latest_stage' -> Roots \ {BAD}] /\ Extends(merkle_root', merkle_root)
      BY <2>1, <2>2, <2>4 DEF Extends
  <2>6. UNCHANGED <<drop_config, pool_config, claimed, received, balance>>
      BY <1>3 DEF Drop!RegisterMerkleRoot
  <2> QED
      BY <2>2, <2>3, <2>5, <2>6 DEF WorldOK, Addresses
<1>4. CASE m.kind = "own" /\ Drop!UpdateConfig(sender, m.owner) /\ UNCHANGED pool_config
  <2>1. m.owner \in Owners \cup {Gov, NONE}
      BY <1>4 DEF Message, PoolMessage, DropMessage
  <2>2. drop_config' \in [owner: Owners \cup {Gov}]
      BY <1>4, <2>1 DEF Drop!UpdateConfig
  <2>3. UNCHANGED <<latest_stage, merkle_root, claimed, received, balance, pool_config>>
      BY <1>4 DEF Drop!UpdateConfig
  <2> QED
      BY <2>2, <2>3 DEF WorldOK, Extends, Addresses
<1> QED
    BY <1>1, <1>2, <1>3, <1>4 DEF Perform

-----------------------------------------------------------------------------
(* The invariant *)

\* The types of the state after a step, from those of its parts.
LEMMA TypedAgain ==
    ASSUME WorldOK(World'),
           claimed' \subseteq Users \X DOMAIN merkle_root',
           received' \in [Users \X Drop!Stages -> Nat],
           polls' \in [PollIds -> {"passed", "executed", "failed"}],
           tx' = NONE \/ polls'[tx'.poll] = "executed",
           direct' \subseteq DirectMessages
    PROVE  TypeOK'
BY DEF TypeOK, WorldOK, World

\* Nothing is claimed or paid.
LEMMA ClaimsMatchKept ==
    ASSUME ClaimsMatch, UNCHANGED <<claimed, received>> PROVE ClaimsMatch'
BY DEF ClaimsMatch

LEMMA ExecutePollInv ==
    ASSUME IInv, NEW id \in PollIds, ExecutePoll(id) PROVE IInv'
<1> USE DEF IInv, TypeOK
<1>1. /\ UNCHANGED <<drop_config, latest_stage, merkle_root, claimed, received, pool_config,
                     balance, direct>>
      /\ polls' = [polls EXCEPT ![id] = "executed"]
      /\ tx' = [poll |-> id, rest |-> PollMessages[id], saved |-> World]
    BY DEF ExecutePoll, contracts, drop_state, MarkedExecuted
<1>2. WorldOK(World) /\ World' = World
    BY <1>1, TypeIsWorldOK DEF World
<1>3. TypeOK'
    BY <1>1, <1>2, TypedAgain
<1>4. SavedInv'
  <2>1. /\ tx'.poll = id /\ tx'.rest = PollMessages[id] /\ tx'.saved = World
        /\ PollMessages[id] \in Seq(Message)
      BY <1>1, MessagesAssumption
  <2>2. Extends(merkle_root', World.merkle_root) /\ claimed' \subseteq Users \X DOMAIN World.merkle_root
      BY <1>1 DEF World, Extends
  <2>3. pool_config' = World.pool_config /\ balance'[PoolAddr] >= World.balance[PoolAddr]
      BY <1>1 DEF World, Addresses
  <2> QED
      BY <1>1, <1>2, <2>1, <2>2, <2>3 DEF SavedInv
<1> QED
    BY <1>1, <1>3, <1>4, ClaimsMatchKept

LEMMA DeliverInv == ASSUME IInv, Deliver PROVE IInv'
<1> USE DEF IInv
<1> DEFINE m == Head(tx.rest)
<1>1. /\ tx # NONE /\ tx.rest # <<>>
      /\ Perform(Gov, m)
      /\ tx' = [tx EXCEPT !.rest = Tail(tx.rest)]
      /\ UNCHANGED <<polls, direct>>
    BY DEF Deliver
<1>2. /\ tx = [poll |-> tx.poll, rest |-> tx.rest, saved |-> tx.saved]
      /\ tx.poll \in PollIds /\ tx.rest \in Seq(Message) /\ WorldOK(tx.saved)
    BY <1>1 DEF SavedInv
<1>3. m \in Message /\ Tail(tx.rest) \in Seq(Message)
    BY <1>1, <1>2
<1>4. /\ tx' = [poll |-> tx.poll, rest |-> Tail(tx.rest), saved |-> tx.saved]
      /\ tx'.poll = tx.poll /\ tx'.rest = Tail(tx.rest) /\ tx'.saved = tx.saved
    BY <1>1, <1>2
<1>5. /\ WorldOK(World')
      /\ UNCHANGED <<claimed, received>>
      /\ Extends(merkle_root', merkle_root)
      /\ Gov # pool_config.governance_contract =>
            pool_config' = pool_config /\ balance'[PoolAddr] >= balance[PoolAddr]
  <2> HIDE DEF m
  <2> QED
    BY <1>1, <1>3, PerformEffect
<1>6. TypeOK'
  <2>1. claimed' \subseteq Users \X DOMAIN merkle_root'
      BY <1>5 DEF TypeOK, Extends
  <2> QED
      BY <1>1, <1>4, <1>5, <2>1, TypedAgain DEF TypeOK
<1>7. SavedInv'
  <2>1. Extends(merkle_root', tx.saved.merkle_root)
      BY <1>1, <1>5 DEF SavedInv, Extends
  <2>2. ASSUME tx.saved.pool_config.governance_contract # Gov
        PROVE  pool_config' = tx.saved.pool_config /\ balance'[PoolAddr] >= tx.saved.balance[PoolAddr]
    <3>1. pool_config = tx.saved.pool_config /\ balance[PoolAddr] >= tx.saved.balance[PoolAddr]
        BY <1>1, <2>2 DEF SavedInv
    <3>2. pool_config' = pool_config /\ balance'[PoolAddr] >= balance[PoolAddr]
        BY <1>5, <2>2, <3>1
    <3>3. /\ balance[PoolAddr] \in Nat /\ balance'[PoolAddr] \in Nat
          /\ tx.saved.balance[PoolAddr] \in Nat
        BY <1>2, <1>6 DEF TypeOK, WorldOK, Addresses
    <3> QED
        BY <3>1, <3>2, <3>3
  <2> QED
      BY <1>1, <1>2, <1>3, <1>4, <1>5, <2>1, <2>2 DEF SavedInv
<1> QED
    BY <1>5, <1>6, <1>7, ClaimsMatchKept

LEMMA CommitInv == ASSUME IInv, Commit PROVE IInv'
<1>1. tx' = NONE /\ UNCHANGED <<drop_config, latest_stage, merkle_root, claimed, received,
                                pool_config, balance, polls, direct>>
    BY DEF Commit, contracts, drop_state
<1>2. TypeOK'
    BY <1>1 DEF IInv, TypeOK
<1>3. SavedInv'
    BY <1>1 DEF SavedInv
<1> QED
    BY <1>1, <1>2, <1>3, ClaimsMatchKept DEF IInv

LEMMA TakenBackInv ==
    ASSUME IInv, tx # NONE, NEW status \in {"passed", "failed"}, TakenBack(status) PROVE IInv'
<1> USE DEF IInv
<1>1. /\ drop_config' = tx.saved.drop_config /\ latest_stage' = tx.saved.latest_stage
      /\ merkle_root' = tx.saved.merkle_root /\ pool_config' = tx.saved.pool_config
      /\ balance' = tx.saved.balance
      /\ polls' = [polls EXCEPT ![tx.poll] = status] /\ tx' = NONE
      /\ UNCHANGED <<claimed, received, direct>>
    BY DEF TakenBack, RolledBack
<1>2. /\ WorldOK(tx.saved)
      /\ claimed \subseteq Users \X DOMAIN tx.saved.merkle_root
    BY DEF SavedInv
<1>3. WorldOK(World')
    BY <1>1, <1>2 DEF World, WorldOK
<1>4. TypeOK'
    BY <1>1, <1>2, <1>3, TypedAgain DEF TypeOK
<1>5. SavedInv'
    BY <1>1 DEF SavedInv
<1> QED
    BY <1>1, <1>4, <1>5, ClaimsMatchKept

LEMMA DirectInv ==
    ASSUME IInv, NEW sender \in Owners, NEW m \in DirectMessages, Direct(sender, m) PROVE IInv'
<1> USE DEF IInv
<1>1. /\ tx = NONE /\ Perform(sender, m) /\ direct' = direct \cup {m} /\ UNCHANGED <<polls, tx>>
    BY DEF Direct
<1>2. WorldOK(World') /\ UNCHANGED <<claimed, received>> /\ Extends(merkle_root', merkle_root)
    BY <1>1, PerformEffect, MessagesAssumption
<1>3. TypeOK'
  <2>1. claimed' \subseteq Users \X DOMAIN merkle_root'
      BY <1>2 DEF TypeOK, Extends
  <2> QED
      BY <1>1, <1>2, <2>1, TypedAgain DEF TypeOK
<1>4. SavedInv'
    BY <1>1 DEF SavedInv
<1> QED
    BY <1>2, <1>3, <1>4, ClaimsMatchKept

\* What a claim changes, and why it is one of something granted.
LEMMA ClaimEffect ==
    ASSUME IInv, NEW user \in Users, NEW stage \in Drop!Stages,
           NEW amount \in Amounts, NEW proof \in Proofs, Claim(user, stage, amount, proof)
    PROVE  /\ tx = NONE /\ tx' = NONE
           /\ amount \in Nat /\ amount > 0
           /\ stage \in DOMAIN merkle_root /\ <<user, stage>> \notin claimed
           /\ Drop!RootOf(user, amount, proof) = merkle_root[stage]
           /\ claimed' = claimed \cup {<<user, stage>>}
           /\ received' = [received EXCEPT ![<<user, stage>>] = @ + amount]
           /\ balance' \in [Addresses -> Nat] /\ balance'[PoolAddr] >= balance[PoolAddr]
           /\ UNCHANGED <<drop_config, latest_stage, merkle_root, pool_config, polls, direct>>
<1> USE DEF IInv, TypeOK
<1>1. amount \in Nat
    BY DistributionsAssumption DEF Amounts, Entries
<1>2. /\ tx = NONE /\ tx' = NONE
      /\ stage \in DOMAIN merkle_root /\ <<user, stage>> \notin claimed
      /\ Drop!RootOf(user, amount, proof) = merkle_root[stage]
      /\ CanTransfer(balance, DropAddr, amount)
      /\ claimed' = claimed \cup {<<user, stage>>}
      /\ balance' = Transferred(balance, DropAddr, user, amount)
      /\ received' = [received EXCEPT ![<<user, stage>>] = @ + amount]
      /\ UNCHANGED <<drop_config, latest_stage, merkle_root, pool_config, polls, direct>>
    BY DEF Claim, Drop!Claim, Drop!MayClaim, Drop!ClaimKey, Drop!CanTransfer, Drop!Transferred,
           CanTransfer, Transferred
<1>3. DropAddr \in Addresses /\ user \in Addresses /\ PoolAddr \in Addresses \ {DropAddr}
    BY AddressesApart DEF Addresses
<1>4. balance' \in [Addresses -> Nat] /\ balance'[PoolAddr] >= balance[PoolAddr]
    BY <1>1, <1>2, <1>3, TransferEffect
<1>5. amount > 0
    BY <1>2 DEF CanTransfer
<1> QED
    BY <1>1, <1>2, <1>4, <1>5

LEMMA ClaimInv ==
    ASSUME IInv, NEW user \in Users, NEW stage \in Drop!Stages,
           NEW amount \in Amounts, NEW proof \in Proofs, Claim(user, stage, amount, proof)
    PROVE  IInv'
<1> DEFINE k == <<user, stage>>
<1>1. /\ tx' = NONE /\ amount \in Nat /\ stage \in DOMAIN merkle_root
      /\ claimed' = claimed \cup {k} /\ received' = [received EXCEPT ![k] = @ + amount]
      /\ balance' \in [Addresses -> Nat]
      /\ UNCHANGED <<drop_config, latest_stage, merkle_root, pool_config, polls, direct>>
    BY ClaimEffect
<1>2. TypeOK'
  <2>1. WorldOK(World')
      BY <1>1 DEF IInv, TypeOK, WorldOK, World
  <2>2. received' \in [Users \X Drop!Stages -> Nat]
    <3>1. k \in Users \X Drop!Stages /\ received \in [Users \X Drop!Stages -> Nat]
        BY DEF IInv, TypeOK
    <3> HIDE DEF k
    <3> QED
        BY <1>1, <3>1
  <2>3. claimed' \subseteq Users \X DOMAIN merkle_root'
      BY <1>1 DEF IInv, TypeOK
  <2> QED
      BY <1>1, <2>1, <2>2, <2>3, TypedAgain DEF IInv, TypeOK
<1>3. SavedInv'
    BY <1>1 DEF SavedInv
<1>4. ClaimsMatch'
  <2> SUFFICES ASSUME NEW j \in Users \X Drop!Stages, j \notin claimed' PROVE received'[j] = 0
      BY DEF ClaimsMatch
  <2>1. j # k /\ j \notin claimed
      BY <1>1
  <2>2. received'[j] = received[j] /\ received[j] = 0
    <3> HIDE DEF k
    <3> QED
        BY <1>1, <2>1 DEF IInv, TypeOK, ClaimsMatch
  <2> QED
      BY <2>2
<1> QED
    BY <1>2, <1>3, <1>4 DEF IInv

LEMMA NextInv == IInv /\ [Next]_vars => IInv'
<1> SUFFICES ASSUME IInv, [Next]_vars PROVE IInv'
    OBVIOUS
<1>1. ASSUME NEW id \in PollIds, ExecutePoll(id) PROVE IInv'
    BY <1>1, ExecutePollInv
<1>2. CASE Deliver
    BY <1>2, DeliverInv
<1>3. CASE Commit
    BY <1>3, CommitInv
<1>4. CASE FailPoll
    BY <1>4, TakenBackInv DEF FailPoll
<1>5. CASE OutOfGas
    BY <1>5, TakenBackInv DEF OutOfGas
<1>6. ASSUME NEW sender \in Owners, NEW m \in DirectMessages, Direct(sender, m) PROVE IInv'
    BY <1>6, DirectInv
<1>7. ASSUME NEW user \in Users, NEW stage \in Drop!Stages, NEW amount \in Amounts,
             NEW proof \in Proofs, Claim(user, stage, amount, proof)
      PROVE  IInv'
    BY <1>7, ClaimInv
<1>8. CASE UNCHANGED vars
  <2>1. UNCHANGED <<drop_config, latest_stage, merkle_root, claimed, received, pool_config,
                    balance, polls, tx, direct>>
      BY <1>8 DEF vars, contracts, drop_state
  <2> QED
      BY <2>1 DEF IInv, TypeOK, SavedInv, ClaimsMatch
<1> QED
    BY <1>1, <1>2, <1>3, <1>4, <1>5, <1>6, <1>7, <1>8 DEF Next

LEMMA Invariance == Spec => []IInv
BY InitInv, NextInv, PTL DEF Spec

\* Every storage item has its type in every reachable state, transactions cut
\* short at any message included (all handlers of the two contracts).
THEOREM TypesCorrect == Spec => []TypeOK
BY Invariance, PTL DEF IInv

-----------------------------------------------------------------------------
(* The handover of the pool *)

LEMMA HandoverStep == ASSUME IInv, [Next]_vars PROVE HandoverBindsStep
<1> USE DEF Visible, World
<1>1. ASSUME tx = NONE, [Next]_vars, Visible'.balance[PoolAddr] < Visible.balance[PoolAddr]
      PROVE  pool_config.governance_contract \in Owners
  <2>1. ASSUME NEW id \in PollIds, ExecutePoll(id) PROVE FALSE
    <3>1. Visible'.balance = balance /\ Visible.balance = balance
        BY <1>1, <2>1 DEF ExecutePoll, contracts
    <3> QED
        BY <1>1, <3>1 DEF IInv, TypeOK, Addresses
  <2>2. ASSUME NEW sender \in Owners, NEW m \in DirectMessages, Direct(sender, m)
        PROVE  pool_config.governance_contract \in Owners
    <3>1. sender # pool_config.governance_contract => balance'[PoolAddr] >= balance[PoolAddr]
        BY <2>2, PerformEffect, MessagesAssumption DEF Direct, IInv
    <3>2. Visible.balance = balance /\ Visible'.balance = balance'
        BY <1>1, <2>2 DEF Direct
    <3>3. balance[PoolAddr] \in Nat /\ balance'[PoolAddr] \in Nat
      <4>1. TypeOK /\ TypeOK'
          BY <2>2, DirectInv DEF IInv
      <4> QED
          BY <4>1 DEF TypeOK, Addresses
    <3> QED
        BY <1>1, <3>1, <3>2, <3>3
  <2>3. ASSUME NEW user \in Users, NEW stage \in Drop!Stages, NEW amount \in Amounts,
               NEW proof \in Proofs, Claim(user, stage, amount, proof)
        PROVE  FALSE
    <3>1. balance'[PoolAddr] >= balance[PoolAddr] /\ tx' = NONE /\ balance' \in [Addresses -> Nat]
        BY <2>3, ClaimEffect
    <3>2. Visible.balance = balance /\ Visible'.balance = balance'
        BY <1>1, <3>1
    <3> QED
        BY <1>1, <3>1, <3>2 DEF IInv, TypeOK, Addresses
  <2>4. ~Deliver /\ ~Commit /\ ~FailPoll /\ ~OutOfGas
      BY <1>1 DEF Deliver, Commit, FailPoll, OutOfGas
  <2>5. CASE UNCHANGED vars
    <3>1. Visible'.balance = balance /\ Visible.balance = balance
        BY <1>1, <2>5 DEF vars, contracts
    <3> QED
        BY <1>1, <3>1 DEF IInv, TypeOK, Addresses
  <2> QED
      BY <1>1, <2>1, <2>2, <2>3, <2>4, <2>5 DEF Next
<1>2. ASSUME tx # NONE, [Next]_vars, Visible'.balance[PoolAddr] < Visible.balance[PoolAddr]
      PROVE  tx.saved.pool_config.governance_contract = Gov
  <2> SUFFICES ASSUME tx.saved.pool_config.governance_contract # Gov PROVE FALSE
      OBVIOUS
  <2>1. /\ tx = [poll |-> tx.poll, rest |-> tx.rest, saved |-> tx.saved]
        /\ WorldOK(tx.saved) /\ balance[PoolAddr] >= tx.saved.balance[PoolAddr]
        /\ Visible.balance = tx.saved.balance
      BY <1>2 DEF IInv, SavedInv
  <2>2. tx.saved.balance[PoolAddr] \in Nat /\ balance[PoolAddr] \in Nat
      BY <2>1 DEF IInv, TypeOK, WorldOK, Addresses
  <2>3. CASE Deliver
    <3>1. IInv'
        BY <2>3, DeliverInv
    <3>2. tx'.saved = tx.saved
        BY <2>1, <2>3 DEF Deliver
    <3>3. tx' # NONE => Visible'.balance = tx.saved.balance
        BY <3>2
    <3>4. tx' = NONE => Visible'.balance = balance'
        OBVIOUS
    <3>5. balance'[PoolAddr] \in Nat /\ balance'[PoolAddr] >= balance[PoolAddr]
      <4>1. Perform(Gov, Head(tx.rest)) /\ Head(tx.rest) \in Message
          BY <1>2, <2>3 DEF Deliver, IInv, SavedInv
      <4>2. Gov # pool_config.governance_contract
          BY <1>2 DEF IInv, SavedInv
      <4>3. balance'[PoolAddr] >= balance[PoolAddr]
          BY <4>1, <4>2, PerformEffect DEF IInv
      <4> QED
          BY <3>1, <4>3 DEF IInv, TypeOK, Addresses
    <3> QED
        BY <1>2, <2>1, <2>2, <3>3, <3>4, <3>5
  <2>4. CASE Commit
    <3>1. Visible'.balance = balance
        BY <2>4 DEF Commit, contracts
    <3> QED
        BY <1>2, <2>1, <2>2, <3>1
  <2>5. CASE FailPoll \/ OutOfGas
    <3>1. Visible'.balance = tx.saved.balance
        BY <2>5 DEF FailPoll, OutOfGas, TakenBack, RolledBack
    <3> QED
        BY <1>2, <2>1, <2>2, <3>1
  <2>6. CASE UNCHANGED vars
    <3>1. Visible'.balance = tx.saved.balance
        BY <1>2, <2>6 DEF vars
    <3> QED
        BY <1>2, <2>1, <2>2, <3>1
  <2>7. /\ \A id \in PollIds : ~ExecutePoll(id)
        /\ \A sender \in Owners, m \in DirectMessages : ~Direct(sender, m)
        /\ \A user \in Users, stage \in Drop!Stages, amount \in Amounts, proof \in Proofs :
              ~Claim(user, stage, amount, proof)
      BY <1>2 DEF ExecutePoll, Direct, Claim
  <2> QED
      BY <1>2, <2>3, <2>4, <2>5, <2>6, <2>7 DEF Next
<1> QED
    BY <1>1, <1>2 DEF HandoverBindsStep

\* A pool that was handed over is out of governance's reach, whichever polls
\* passed before and wherever among a poll's messages the handover stands (the
\* check of Community's execute, met again by every message).
THEOREM PoolHandedOver == Spec => HandoverBinds
<1>1. IInv /\ [Next]_vars => [HandoverBindsStep]_vars
    BY HandoverStep
<1> QED
    BY Invariance, <1>1, PTL DEF Spec, HandoverBinds

-----------------------------------------------------------------------------
(* The airdrop implements Entitlements *)

\* The entitlements of more stages are those of fewer and of the new stages.
LEMMA GrantedGrows ==
    ASSUME NEW old, NEW new, Extends(new, old)
    PROVE  /\ Granted(old) \subseteq Granted(new)
           /\ \A n \in Granted(new) \ Granted(old), o \in Granted(old) : n.stage # o.stage
<1>1. \A s \in DOMAIN old : s \in DOMAIN new /\ new[s] = old[s]
    BY DEF Extends
<1>2. Granted(old) \subseteq Granted(new)
    BY <1>1 DEF Granted
<1>3. \A e \in Granted(old) : e.stage \in DOMAIN old
    BY DEF Granted
<1>4. \A e \in Granted(new) : e.stage \in DOMAIN old => e \in Granted(old)
  <2> SUFFICES ASSUME NEW e \in Granted(new), e.stage \in DOMAIN old PROVE e \in Granted(old)
      OBVIOUS
  <2>1. PICK s \in DOMAIN new : \E x \in EntriesOf(new[s]) :
                                    e = [stage |-> s, user |-> x.user, amount |-> x.amount]
      BY DEF Granted
  <2>2. s \in DOMAIN old /\ new[s] = old[s]
      BY <1>1, <2>1
  <2> QED
      BY <2>1, <2>2 DEF Granted
<1> QED
    BY <1>2, <1>3, <1>4

\* What other transactions see of the roots only grows.
LEMMA VisibleGrows ==
    ASSUME IInv, [Next]_vars
    PROVE  Extends(Visible'.merkle_root, Visible.merkle_root)
<1> USE DEF Visible, World
<1>1. ASSUME NEW id \in PollIds, ExecutePoll(id)
      PROVE  Extends(Visible'.merkle_root, Visible.merkle_root)
  <2>1. Visible'.merkle_root = merkle_root /\ Visible.merkle_root = merkle_root
      BY <1>1 DEF ExecutePoll, contracts, drop_state
  <2> QED
      BY <2>1 DEF Extends
<1>2. CASE Deliver
  <2>1. tx # NONE /\ Visible.merkle_root = tx.saved.merkle_root /\ tx'.saved = tx.saved
      BY <1>2 DEF Deliver, IInv, SavedInv
  <2>2. Extends(merkle_root, tx.saved.merkle_root)
      BY <2>1 DEF IInv, SavedInv
  <2>3. Extends(merkle_root', merkle_root)
    <3>1. Perform(Gov, Head(tx.rest)) /\ Head(tx.rest) \in Message
        BY <1>2 DEF Deliver, IInv, SavedInv
    <3> QED
        BY <3>1, PerformEffect DEF IInv
  <2>4. tx' # NONE => Visible'.merkle_root = tx.saved.merkle_root
      BY <2>1
  <2>5. tx' = NONE => Visible'.merkle_root = merkle_root'
      OBVIOUS
  <2> QED
      BY <2>1, <2>2, <2>3, <2>4, <2>5 DEF Extends
<1>3. CASE Commit
  <2>1. Visible.merkle_root = tx.saved.merkle_root /\ Visible'.merkle_root = merkle_root
      BY <1>3 DEF Commit, contracts, drop_state
  <2> QED
      BY <1>3, <2>1 DEF Commit, IInv, SavedInv
<1>4. CASE FailPoll \/ OutOfGas
  <2>1. Visible.merkle_root = tx.saved.merkle_root /\ Visible'.merkle_root = tx.saved.merkle_root
      BY <1>4 DEF FailPoll, OutOfGas, TakenBack, RolledBack
  <2> QED
      BY <2>1 DEF Extends
<1>5. ASSUME NEW sender \in Owners, NEW m \in DirectMessages, Direct(sender, m)
      PROVE  Extends(Visible'.merkle_root, Visible.merkle_root)
  <2>1. Visible.merkle_root = merkle_root /\ Visible'.merkle_root = merkle_root'
      BY <1>5 DEF Direct
  <2> QED
      BY <1>5, <2>1, PerformEffect, MessagesAssumption DEF Direct, IInv
<1>6. ASSUME NEW user \in Users, NEW stage \in Drop!Stages, NEW amount \in Amounts,
             NEW proof \in Proofs, Claim(user, stage, amount, proof)
      PROVE  Extends(Visible'.merkle_root, Visible.merkle_root)
  <2>1. Visible.merkle_root = merkle_root /\ Visible'.merkle_root = merkle_root
      BY <1>6, ClaimEffect
  <2> QED
      BY <2>1 DEF Extends
<1>7. CASE UNCHANGED vars
  <2>1. Visible'.merkle_root = Visible.merkle_root
      BY <1>7 DEF vars, contracts, drop_state
  <2> QED
      BY <2>1 DEF Extends
<1> QED
    BY <1>1, <1>2, <1>3, <1>4, <1>5, <1>6, <1>7 DEF Next

\* No step but a claim pays anything.
LEMMA OthersPayNothing ==
    ASSUME IInv, [Next]_vars,
           ~\E user \in Users, stage \in Drop!Stages, amount \in Amounts, proof \in Proofs :
               Claim(user, stage, amount, proof)
    PROVE  received' = received
<1>1. ASSUME NEW id \in PollIds, ExecutePoll(id) PROVE received' = received
    BY <1>1 DEF ExecutePoll, contracts, drop_state
<1>2. CASE Deliver
  <2>1. Perform(Gov, Head(tx.rest)) /\ Head(tx.rest) \in Message
      BY <1>2 DEF Deliver, IInv, SavedInv
  <2> QED
      BY <2>1, PerformEffect DEF IInv
<1>3. CASE Commit
    BY <1>3 DEF Commit, contracts, drop_state
<1>4. CASE FailPoll \/ OutOfGas
    BY <1>4 DEF FailPoll, OutOfGas, TakenBack
<1>5. ASSUME NEW sender \in Owners, NEW m \in DirectMessages, Direct(sender, m)
      PROVE  received' = received
    BY <1>5, PerformEffect, MessagesAssumption DEF Direct, IInv
<1>6. CASE UNCHANGED vars
    BY <1>6 DEF vars, contracts, drop_state
<1> QED
    BY <1>1, <1>2, <1>3, <1>4, <1>5, <1>6 DEF Next

\* A claim takes an entitlement that was granted and not yet taken.
LEMMA ClaimTakes ==
    ASSUME IInv, NEW user \in Users, NEW stage \in Drop!Stages,
           NEW amount \in Amounts, NEW proof \in Proofs, Claim(user, stage, amount, proof)
    PROVE  \E e \in Granted(Visible.merkle_root) : Promise!Take(e)
<1> DEFINE e == [stage |-> stage, user |-> user, amount |-> amount]
<1>1. /\ tx = NONE /\ tx' = NONE /\ amount > 0
      /\ stage \in DOMAIN merkle_root /\ <<user, stage>> \notin claimed
      /\ Drop!RootOf(user, amount, proof) = merkle_root[stage]
      /\ received' = [received EXCEPT ![<<user, stage>>] = @ + amount]
      /\ amount \in Nat /\ merkle_root' = merkle_root
    BY ClaimEffect
<1>2. Visible.merkle_root = merkle_root /\ Visible'.merkle_root = merkle_root
    BY <1>1 DEF Visible, World
<1>3. PICK d \in Distributions : d.root = merkle_root[stage]
  <2>1. merkle_root[stage] \in Roots \ {BAD}
      BY <1>1 DEF IInv, TypeOK
  <2> QED
      BY <2>1 DEF Roots
<1>4. PICK x \in d.entries : x.user = user /\ x.amount = amount
    BY <1>1, <1>3, ProofsAreSound
<1>5. x \in EntriesOf(merkle_root[stage])
    BY <1>3, <1>4 DEF EntriesOf
<1>6. e \in Granted(Visible.merkle_root)
    BY <1>1, <1>2, <1>4, <1>5 DEF Granted
<1>7. received[<<user, stage>>] = 0
    BY <1>1 DEF IInv, ClaimsMatch
<1>8. Promise!Take(e)
  <2>1. e.user = user /\ e.stage = stage /\ e.amount = amount
      OBVIOUS
  <2>2. received' = [received EXCEPT ![<<user, stage>>] = amount]
    <3>1. received[<<user, stage>>] + amount = amount
        BY <1>1, <1>7
    <3>2. received' = [received EXCEPT ![<<user, stage>>] = received[<<user, stage>>] + amount]
        BY <1>1
    <3> QED
        BY <3>1, <3>2
  <2>3. Granted(Visible.merkle_root)' = Granted(Visible.merkle_root)
      BY <1>2 DEF Granted, EntriesOf
  <2> HIDE DEF e
  <2> QED
      BY <1>1, <1>7, <2>1, <2>2, <2>3 DEF Promise!Take
<1> QED
    BY <1>6, <1>8

LEMMA InitPromise == Init => Promise!Init
<1> SUFFICES ASSUME Init PROVE Promise!Init
    OBVIOUS
<1>1. merkle_root = <<>> /\ received = [k \in Users \X Drop!Stages |-> 0] /\ tx = NONE
    BY DEF Init, Drop!Init
<1>2. Granted(Visible.merkle_root) = {}
    BY <1>1 DEF Granted, Visible, World
<1> QED
    BY <1>1, <1>2 DEF Promise!Init

LEMMA NextPromise ==
    IInv /\ [Next]_vars => [Promise!Next]_<<Granted(Visible.merkle_root), received>>
<1> SUFFICES ASSUME IInv, [Next]_vars PROVE Promise!Next
    OBVIOUS
<1>1. CASE \E user \in Users, stage \in Drop!Stages, amount \in Amounts, proof \in Proofs :
               Claim(user, stage, amount, proof)
    BY <1>1, ClaimTakes DEF Promise!Next
<1>2. CASE ~\E user \in Users, stage \in Drop!Stages, amount \in Amounts, proof \in Proofs :
               Claim(user, stage, amount, proof)
  <2>1. received' = received
      BY <1>2, OthersPayNothing
  <2>2. Extends(Visible'.merkle_root, Visible.merkle_root)
      BY VisibleGrows
  <2>3. /\ Granted(Visible.merkle_root) \subseteq Granted(Visible'.merkle_root)
        /\ \A n \in Granted(Visible'.merkle_root) \ Granted(Visible.merkle_root),
              o \in Granted(Visible.merkle_root) : n.stage # o.stage
      BY <2>2, GrantedGrows
  <2>4. Granted(Visible.merkle_root)' = Granted(Visible'.merkle_root)
      BY DEF Granted, EntriesOf
  <2> QED
      BY <2>1, <2>3, <2>4 DEF Promise!Next, Promise!Grant
<1> QED
    BY <1>1, <1>2

\* However claims, polls, their failures and owners interleave, whatever roots
\* and proofs are sent, users are paid what the trees of the stages hold, once a
\* stage (claim and register_merkle_root of the airdrop under governance).
THEOREM AirdropKeepsPromise == Spec => ImplementsEntitlements
BY Invariance, InitPromise, NextPromise, PTL DEF Spec, ImplementsEntitlements, Promise!ESpec


-----------------------------------------------------------------------------
(***************************************************************************)
(* What polls and messages add up to.  A weight says what each message     *)
(* adds to one of the contracts' numbers; the lemmas are about any.        *)
(***************************************************************************)

LEMMA EffectIsListSum == ASSUME NEW w, NEW list PROVE Effect(w, list) = ListSum(w, list)
BY DEF Effect, ListSum

\* The first message of a list adds what it weighs.
LEMMA EffectOfFirst ==
    ASSUME NEW w \in [Message -> Nat], NEW list \in Seq(Message)
    PROVE  /\ Effect(w, list) \in Nat
           /\ list = <<>> => Effect(w, list) = 0
           /\ list # <<>> =>
                 /\ Head(list) \in Message /\ Tail(list) \in Seq(Message)
                 /\ Effect(w, list) = w[Head(list)] + Effect(w, Tail(list))
<1>1. \A m \in Message : w[m] \in Nat /\ w[m] \in Int
    OBVIOUS
<1>2. \A l \in Seq(Message) : Effect(w, l) \in Nat /\ Effect(w, l) = ListSum(w, l)
    BY <1>1, ListSumNat, EffectIsListSum
<1>3. ASSUME list = <<>> PROVE Effect(w, list) = 0
  <2>1. DOMAIN list = {}
      BY <1>3
  <2> DEFINE g == [k \in DOMAIN list |-> w[list[k]]]
  <2>2. DOMAIN g = {} /\ Effect(w, list) = SumFunction(g)
      BY <2>1 DEF Effect
  <2> HIDE DEF g
  <2> QED
      BY <2>2, SumFunctionIsSum, SumEmpty
<1>4. ASSUME list # <<>>
      PROVE  /\ Head(list) \in Message /\ Tail(list) \in Seq(Message)
             /\ Effect(w, list) = w[Head(list)] + Effect(w, Tail(list))
  <2>1. Head(list) \in Message /\ Tail(list) \in Seq(Message) /\ list = <<Head(list)>> \o Tail(list)
      BY <1>4
  <2> DEFINE h == Head(list)
             t == Tail(list)
             g == [k \in {1} |-> w[<<h>>[k]]]
  <2> HIDE DEF h, t
  <2>2. /\ h \in Message /\ t \in Seq(Message) /\ list = <<h>> \o t /\ <<h>> \in Seq(Message)
      BY <2>1 DEF h, t
  <2>3. Effect(w, list) = Effect(w, <<h>>) + Effect(w, t)
    <3>1. ListSum(w, <<h>> \o t) = ListSum(w, <<h>>) + ListSum(w, t)
        BY <1>1, <2>2, ListSumConcat
    <3> QED
        BY <1>2, <2>2, <3>1
  <2>4. Effect(w, <<h>>) = w[h]
    <3>1. DOMAIN <<h>> = {1}
        OBVIOUS
    <3>2. Effect(w, <<h>>) = SumFunction(g) /\ DOMAIN g = {1} /\ g[1] = w[h]
        BY <3>1 DEF Effect
    <3> HIDE DEF g
    <3>3. IsFiniteSet({1}) /\ 1 \in {1} /\ \A x \in {1} : g[x] \in Int
        BY <1>1, <2>2, <3>2, FS_Singleton
    <3>4. Sum(g, {1}) = g[1] + Sum(g, {1} \ {1})
        BY <3>3, SumRemove
    <3>5. Sum(g, {1} \ {1}) = 0
      <4>1. {1} \ {1} = {}
          OBVIOUS
      <4> QED
          BY <4>1, SumEmpty
    <3>6. SumFunction(g) = Sum(g, {1})
        BY <3>2, SumFunctionIsSum
    <3>7. w[h] \in Int
        BY <1>1, <2>2
    <3> QED
        BY <3>2, <3>4, <3>5, <3>6, <3>7
  <2> QED
      BY <2>1, <2>3, <2>4 DEF h, t
<1> QED
    BY <1>2, <1>3, <1>4

LEMMA MessagesOfPolls == \A id \in PollIds : PollMessages[id] \in Seq(Message)
BY MessagesAssumption

\* The parts of DoneBy, and DoneBy itself if owners have sent the messages d.
PollsSum(ids, w) == SumFunction([id \in ids |-> Effect(w, PollMessages[id])])
DirectSum(d, w) == SumFunction([m \in d |-> w[m]])
Total(ids, d, w) == PollsSum(ids, w) + DirectSum(d, w)

LEMMA DoneByIsTotal == ASSUME NEW ids, NEW w PROVE DoneBy(ids, w) = Total(ids, direct, w)
BY DEF DoneBy, Total, PollsSum, DirectSum

LEMMA PollsSumGrows ==
    ASSUME NEW w \in [Message -> Nat], NEW ids \in SUBSET PollIds
    PROVE  /\ PollsSum(ids, w) \in Nat
           /\ ids = {} => PollsSum(ids, w) = 0
           /\ \A id \in PollIds \ ids :
                 PollsSum(ids \cup {id}, w) = PollsSum(ids, w) + Effect(w, PollMessages[id])
<1> DEFINE g == [id \in PollIds |-> Effect(w, PollMessages[id])]
<1>1. \A id \in PollIds : g[id] \in Nat /\ g[id] \in Int
    BY MessagesOfPolls, EffectOfFirst
<1>2. \A S \in SUBSET PollIds : IsFiniteSet(S)
    BY FS_Subset, FinitelyMany
<1>3. ASSUME NEW S \in SUBSET PollIds PROVE PollsSum(S, w) = Sum(g, S)
  <2> DEFINE f == [id \in S |-> Effect(w, PollMessages[id])]
  <2>1. PollsSum(S, w) = SumFunction(f) /\ DOMAIN f = S /\ \A id \in S : f[id] = g[id]
      BY DEF PollsSum
  <2> HIDE DEF f, g
  <2>2. SumFunction(f) = Sum(f, S)
      BY <2>1, SumFunctionIsSum
  <2>3. Sum(f, S) = Sum(g, S)
      BY <1>2, <2>1, SumCongruence
  <2> QED
      BY <2>1, <2>2, <2>3
<1>4. Sum(g, ids) \in Nat
  <2> HIDE DEF g
  <2> QED
      BY <1>1, <1>2, SumNat
<1>5. ASSUME NEW id \in PollIds \ ids
      PROVE  PollsSum(ids \cup {id}, w) = PollsSum(ids, w) + Effect(w, PollMessages[id])
  <2>1. ids \cup {id} \in SUBSET PollIds
      OBVIOUS
  <2>2. PollsSum(ids \cup {id}, w) = Sum(g, ids \cup {id}) /\ PollsSum(ids, w) = Sum(g, ids)
      BY <1>3, <2>1
  <2>3. g[id] = Effect(w, PollMessages[id])
      OBVIOUS
  <2> HIDE DEF g
  <2>4. Sum(g, ids \cup {id}) = g[id] + Sum(g, ids)
      BY <1>1, <1>2, <2>1, SumAdd
  <2> QED
      BY <1>1, <1>4, <2>2, <2>3, <2>4
<1>6. ids = {} => PollsSum(ids, w) = 0
    BY <1>3, SumEmpty
<1> QED
    BY <1>3, <1>4, <1>5, <1>6

LEMMA DirectSumGrows ==
    ASSUME NEW w \in [Message -> Nat], NEW d \in SUBSET Message, IsFiniteSet(d)
    PROVE  /\ DirectSum(d, w) \in Nat
           /\ d = {} => DirectSum(d, w) = 0
           /\ \A m \in Message \ d : DirectSum(d \cup {m}, w) = DirectSum(d, w) + w[m]
<1>1. \A m \in Message : w[m] \in Nat /\ w[m] \in Int
    OBVIOUS
<1>2. ASSUME NEW S, IsFiniteSet(S) PROVE DirectSum(S, w) = Sum(w, S)
  <2> DEFINE f == [m \in S |-> w[m]]
  <2>1. DirectSum(S, w) = SumFunction(f) /\ DOMAIN f = S /\ \A m \in S : f[m] = w[m]
      BY DEF DirectSum
  <2> HIDE DEF f
  <2> QED
      BY <1>2, <2>1, SumFunctionIsSum, SumCongruence
<1>3. Sum(w, d) \in Nat
    BY <1>1, SumNat
<1>4. ASSUME NEW m \in Message \ d PROVE DirectSum(d \cup {m}, w) = DirectSum(d, w) + w[m]
  <2>1. IsFiniteSet(d \cup {m})
      BY FS_AddElement
  <2>2. Sum(w, d \cup {m}) = w[m] + Sum(w, d)
      BY <1>1, SumAdd
  <2> QED
      BY <1>1, <1>2, <1>3, <2>1, <2>2
<1> QED
    BY <1>2, <1>3, <1>4, SumEmpty

\* One more poll adds what its messages do, one more message what it weighs.
LEMMA TotalGrows ==
    ASSUME NEW w \in [Message -> Nat], NEW ids \in SUBSET PollIds,
           NEW d \in SUBSET Message, IsFiniteSet(d)
    PROVE  /\ Total(ids, d, w) \in Nat
           /\ ids = {} /\ d = {} => Total(ids, d, w) = 0
           /\ \A id \in PollIds \ ids :
                 Total(ids \cup {id}, d, w) = Total(ids, d, w) + Effect(w, PollMessages[id])
           /\ \A m \in Message \ d : Total(ids, d \cup {m}, w) = Total(ids, d, w) + w[m]
<1>1. PollsSum(ids, w) \in Nat /\ DirectSum(d, w) \in Nat
    BY PollsSumGrows, DirectSumGrows
<1>2. ASSUME NEW id \in PollIds \ ids
      PROVE  Total(ids \cup {id}, d, w) = Total(ids, d, w) + Effect(w, PollMessages[id])
  <2>1. PollsSum(ids \cup {id}, w) = PollsSum(ids, w) + Effect(w, PollMessages[id])
      BY PollsSumGrows
  <2>2. Effect(w, PollMessages[id]) \in Nat
      BY MessagesOfPolls, EffectOfFirst
  <2> QED
      BY <1>1, <2>1, <2>2 DEF Total
<1>3. ASSUME NEW m \in Message \ d PROVE Total(ids, d \cup {m}, w) = Total(ids, d, w) + w[m]
  <2>1. DirectSum(d \cup {m}, w) = DirectSum(d, w) + w[m] /\ w[m] \in Nat
      BY DirectSumGrows
  <2> QED
      BY <1>1, <2>1 DEF Total
<1>4. ids = {} /\ d = {} => Total(ids, d, w) = 0
    BY PollsSumGrows, DirectSumGrows DEF Total
<1> QED
    BY <1>1, <1>2, <1>3, <1>4 DEF Total

-----------------------------------------------------------------------------
(* What the trees of stages hold *)

LEMMA EntriesFinite ==
    ASSUME NEW root
    PROVE  IsFiniteSet(EntriesOf(root)) /\ \A e \in EntriesOf(root) : e.user \in Users /\ e.amount \in Nat
<1> DEFINE T == {x \in Distributions : x.root = root}
           E == {d.entries : d \in T}
<1>1. IsFiniteSet(T)
    BY FinitelyMany, FS_Subset
<1>2. IsFiniteSet(E)
  <2> DEFINE f == [d \in T |-> d.entries]
  <2>1. f \in Surjection(T, E)
      BY DEF Surjection
  <2> HIDE DEF f, T, E
  <2> QED
      BY <1>1, <2>1, FS_Surjection
<1>3. \A S \in E : IsFiniteSet(S)
    BY DistributionsAssumption
<1>4. IsFiniteSet(UNION E)
  <2> HIDE DEF E
  <2> QED
      BY <1>2, <1>3, FS_UNION
<1>5. EntriesOf(root) = UNION E
    BY DEF EntriesOf
<1>6. \A e \in UNION E : e.user \in Users /\ e.amount \in Nat
    BY DistributionsAssumption
<1> QED
    BY <1>4, <1>5, <1>6

\* A user is entitled to no less than any of their entries.
LEMMA EntitledType ==
    ASSUME NEW user, NEW root
    PROVE  /\ Entitled(user, root) \in Nat
           /\ \A e \in EntriesOf(root) : e.user = user => e.amount <= Entitled(user, root)
<1> DEFINE T == {x \in EntriesOf(root) : x.user = user}
           A == {e.amount : e \in T}
           S == {0} \cup A
<1>1. IsFiniteSet(T) /\ \A e \in T : e.amount \in Nat
    BY EntriesFinite, FS_Subset
<1>2. IsFiniteSet(A) /\ A \in SUBSET Nat
  <2> DEFINE f == [e \in T |-> e.amount]
  <2>1. f \in Surjection(T, A)
      BY DEF Surjection
  <2>2. A \in SUBSET Nat
      BY <1>1
  <2> HIDE DEF f, T, A
  <2> QED
      BY <1>1, <2>1, <2>2, FS_Surjection
<1>3. IsFiniteSet(S) /\ S \in SUBSET Nat /\ S # {}
  <2> HIDE DEF A
  <2>1. {0} \cup A = A \cup {0}
      OBVIOUS
  <2> QED
      BY <1>2, <2>1, FS_AddElement
<1>4. Entitled(user, root) = Max(S)
    BY DEF Entitled
<1>5. Max(S) \in S /\ \A x \in S : x <= Max(S)
  <2> HIDE DEF S
  <2>1. \E m \in S : \A n \in S : n <= m
      BY <1>3, FiniteMax
  <2>2. \E m \in S : \A n \in S : m >= n
      BY <1>3, <2>1
  <2>3. Max(S) \in S /\ \A n \in S : Max(S) >= n
      BY <2>2 DEF Max
  <2> QED
      BY <1>3, <2>3
<1>6. \A e \in EntriesOf(root) : e.user = user => e.amount \in S
    OBVIOUS
<1> QED
    BY <1>3, <1>4, <1>5, <1>6

LEMMA TreeCostType == ASSUME NEW root PROVE TreeCost(root) \in Nat
<1> DEFINE g == [u \in Users |-> Entitled(u, root)]
<1>1. TreeCost(root) = SumFunction(g) /\ DOMAIN g = Users /\ \A u \in Users : g[u] \in Nat
    BY EntitledType DEF TreeCost
<1> HIDE DEF g
<1> QED
    BY <1>1, FinitelyMany, SumFunctionIsSum, SumNat

\* What all stages come to.
CostAt(roots) == [k \in Users \X DOMAIN roots |-> Entitled(k[1], roots[k[2]])]
StageCosts(roots) == SumFunction(CostAt(roots))

LEMMA StageCostsType ==
    ASSUME NEW roots, IsFiniteSet(DOMAIN roots)
    PROVE  /\ IsFiniteSet(Users \X DOMAIN roots)
           /\ StageCosts(roots) = Sum(CostAt(roots), Users \X DOMAIN roots)
           /\ StageCosts(roots) \in Nat
           /\ \A k \in Users \X DOMAIN roots :
                 CostAt(roots)[k] = Entitled(k[1], roots[k[2]]) /\ CostAt(roots)[k] \in Nat
<1> DEFINE D == Users \X DOMAIN roots
<1>1. IsFiniteSet(D)
    BY FinitelyMany, FS_Product
<1>2. DOMAIN CostAt(roots) = D
    BY DEF CostAt
<1>3. \A k \in D : CostAt(roots)[k] = Entitled(k[1], roots[k[2]]) /\ CostAt(roots)[k] \in Nat
    BY EntitledType DEF CostAt
<1>4. StageCosts(roots) = Sum(CostAt(roots), D)
    BY <1>2, SumFunctionIsSum DEF StageCosts
<1>5. Sum(CostAt(roots), D) \in Nat
  <2> HIDE DEF D
  <2> QED
      BY <1>1, <1>3, SumNat
<1> QED
    BY <1>1, <1>3, <1>4, <1>5

\* A new stage adds what its tree holds.
LEMMA StageCostsGrow ==
    ASSUME NEW old, NEW new, IsFiniteSet(DOMAIN old), NEW stage, stage \notin DOMAIN old, NEW root,
           DOMAIN new = DOMAIN old \cup {stage}, new[stage] = root,
           \A s \in DOMAIN old : new[s] = old[s]
    PROVE  StageCosts(new) = StageCosts(old) + TreeCost(root)
<1> DEFINE D == Users \X DOMAIN old
           C == Users \X {stage}
           g == CostAt(new)
           h == CostAt(old)
           f == [u \in Users |-> Entitled(u, root)]
           b == [u \in Users |-> <<u, stage>>]
<1>2. IsFiniteSet(DOMAIN new)
    BY FS_AddElement
<1>3. Users \X DOMAIN new = D \cup C /\ D \cap C = {}
    OBVIOUS
<1>4. /\ IsFiniteSet(D) /\ StageCosts(old) = Sum(h, D)
      /\ \A k \in D : h[k] = Entitled(k[1], old[k[2]])
      /\ StageCosts(new) = Sum(g, D \cup C)
      /\ \A k \in D \cup C : g[k] = Entitled(k[1], new[k[2]]) /\ g[k] \in Nat
    BY <1>2, <1>3, StageCostsType
<1>5. Sum(g, D) = Sum(h, D)
  <2>1. \A k \in D : g[k] = h[k]
    <3>1. \A k \in D : new[k[2]] = old[k[2]]
        OBVIOUS
    <3> HIDE DEF D, C, g, h
    <3> QED
        BY <1>4, <3>1
  <2> HIDE DEF D, g, h
  <2> QED
      BY <1>4, <2>1, SumCongruence
<1>6. IsFiniteSet(C) /\ Sum(g, C) = TreeCost(root)
  <2>1. TreeCost(root) = SumFunction(f) /\ DOMAIN f = Users
      BY DEF TreeCost
  <2>2. \A u \in Users : f[u] = g[b[u]] /\ g[b[u]] \in Int
    <3>1. \A u \in Users : /\ b[u] \in C /\ b[u][1] = u /\ b[u][2] = stage
                           /\ f[u] = Entitled(u, root)
        OBVIOUS
    <3> HIDE DEF D, C, g, h, f, b
    <3> QED
        BY <1>4, <3>1
  <2>3. OneToOne(b, Users, C)
      BY DEF OneToOne
  <2>4. SumFunction(f) = Sum(f, Users)
    <3> HIDE DEF f
    <3> QED
        BY <2>1, SumFunctionIsSum
  <2> HIDE DEF f, g, b, C
  <2>5. IsFiniteSet(C) /\ Sum(f, Users) = Sum(g, C)
      BY <2>2, <2>3, FinitelyMany, SumReindex
  <2> QED
      BY <2>1, <2>4, <2>5
<1>7. Sum(g, D \cup C) = Sum(g, D) + Sum(g, C)
  <2> HIDE DEF D, C, g, h
  <2>1. \A k \in D \cup C : g[k] \in Int
      BY <1>4
  <2> QED
      BY <1>3, <1>4, <1>6, <2>1, SumUnion
<1> QED
    BY <1>4, <1>5, <1>6, <1>7

-----------------------------------------------------------------------------
(* What one message adds *)

LEMMA WeightsTyped ==
    /\ Registrations \in [Message -> Nat]
    /\ Withdrawn \in [Message -> Nat]
    /\ \A a : SpentOn(a) \in [Message -> Nat]
    /\ Costs \in [Message -> Nat]
<1>1. \A m \in Message : m.kind = "spend" => m.amount \in Nat
    BY DEF Message, PoolMessage, DropMessage
<1> QED
    BY <1>1, TreeCostType DEF Registrations, Withdrawn, SpentOn, Costs

\* The numbers of `new` are those of `old` and what m adds to them.
Adds(new, old, m) ==
    /\ new.latest_stage = old.latest_stage + Registrations[m]
    /\ new.balance[PoolAddr] + Withdrawn[m] = old.balance[PoolAddr]
    /\ \A a \in Addresses \ {PoolAddr} : new.balance[a] = old.balance[a] + SpentOn(a)[m]
    /\ StageCosts(new.merkle_root) = StageCosts(old.merkle_root) + Costs[m]

\* A message that is carried out adds what it weighs.
LEMMA PerformAdds ==
    ASSUME TypeOK, NEW sender \in Owners \cup {Gov}, NEW m \in Message, Perform(sender, m)
    PROVE  Adds(World', World, m)
<1> SUFFICES /\ latest_stage' = latest_stage + Registrations[m]
             /\ balance'[PoolAddr] + Withdrawn[m] = balance[PoolAddr]
             /\ \A a \in Addresses \ {PoolAddr} : balance'[a] = balance[a] + SpentOn(a)[m]
             /\ StageCosts(merkle_root') = StageCosts(merkle_root) + Costs[m]
    BY DEF Adds, World
<1>0. /\ balance \in [Addresses -> Nat] /\ latest_stage \in Nat
      /\ DOMAIN merkle_root = 1..latest_stage /\ IsFiniteSet(DOMAIN merkle_root)
      /\ PoolAddr \in Addresses
  <2>1. /\ balance \in [Addresses -> Nat] /\ latest_stage \in Nat
        /\ DOMAIN merkle_root = 1..latest_stage /\ PoolAddr \in Addresses
      BY BoundsAssumption DEF TypeOK, Addresses
  <2>2. IsFiniteSet(1..latest_stage)
      BY <2>1, FS_Interval
  <2> QED
      BY <2>1, <2>2
<1>1. /\ Registrations[m] = IF m.kind = "register" THEN 1 ELSE 0
      /\ Withdrawn[m] = IF m.kind = "spend" /\ m.recipient # PoolAddr THEN m.amount ELSE 0
      /\ \A a : SpentOn(a)[m] = IF m.kind = "spend" /\ m.recipient = a THEN m.amount ELSE 0
      /\ Costs[m] = IF m.kind = "register" THEN TreeCost(m.root) ELSE 0
    BY DEF Registrations, Withdrawn, SpentOn, Costs
<1>2. StageCosts(merkle_root) \in Nat
    BY <1>0, StageCostsType
<1>3. CASE m.kind = "spend" /\ Pool!Spend(sender, m.recipient, m.amount) /\ UNCHANGED drop_state
  <2>1. m.recipient \in Addresses /\ m.amount \in Nat
      BY <1>3 DEF Message, PoolMessage, DropMessage
  <2>2. /\ balance' = Transferred(balance, PoolAddr, m.recipient, m.amount)
        /\ m.amount <= balance[PoolAddr]
        /\ latest_stage' = latest_stage /\ merkle_root' = merkle_root
      BY <1>3 DEF Pool!Spend, Pool!MaySpend, Pool!CanTransfer, Pool!Transferred, Transferred, drop_state
  <2>3. CASE m.recipient = PoolAddr
    <3>1. balance' = balance
        BY <2>2, <2>3 DEF Transferred
    <3> QED
        BY <1>0, <1>1, <1>2, <1>3, <2>2, <2>3, <3>1
  <2>4. CASE m.recipient # PoolAddr
    <3>1. /\ balance'[PoolAddr] = balance[PoolAddr] - m.amount
          /\ balance'[m.recipient] = balance[m.recipient] + m.amount
          /\ \A a \in Addresses \ {PoolAddr, m.recipient} : balance'[a] = balance[a]
        BY <1>0, <2>1, <2>2, <2>4 DEF Transferred
    <3> QED
        BY <1>0, <1>1, <1>2, <1>3, <2>1, <2>2, <2>4, <3>1
  <2> QED
      BY <2>3, <2>4
<1>4. CASE m.kind = "register" /\ Drop!RegisterMerkleRoot(sender, m.root) /\ UNCHANGED pool_config
  <2>1. PICK stage \in Drop!NextStage :
            /\ merkle_root' = [s \in DOMAIN merkle_root \cup {stage} |->
                                  IF s = stage THEN m.root ELSE merkle_root[s]]
            /\ latest_stage' = stage
      BY <1>4 DEF Drop!RegisterMerkleRoot
  <2>2. stage = latest_stage + 1 /\ stage \notin DOMAIN merkle_root
      BY <1>0, <2>1 DEF Drop!NextStage
  <2>3. balance' = balance
      BY <1>4 DEF Drop!RegisterMerkleRoot
  <2>4. StageCosts(merkle_root') = StageCosts(merkle_root) + TreeCost(m.root)
    <3>1. /\ DOMAIN merkle_root' = DOMAIN merkle_root \cup {stage} /\ merkle_root'[stage] = m.root
          /\ \A s \in DOMAIN merkle_root : merkle_root'[s] = merkle_root[s]
        BY <2>1, <2>2
    <3> QED
        BY <1>0, <2>2, <3>1, StageCostsGrow
  <2> QED
      BY <1>0, <1>1, <1>4, <2>1, <2>2, <2>3, <2>4
<1>5. CASE \/ m.kind = "govern" /\ Pool!UpdateConfig(sender, m.governance_contract) /\ UNCHANGED drop_state
           \/ m.kind = "own" /\ Drop!UpdateConfig(sender, m.owner) /\ UNCHANGED pool_config
  <2>1. balance' = balance /\ latest_stage' = latest_stage /\ merkle_root' = merkle_root
      BY <1>5 DEF Pool!UpdateConfig, Drop!UpdateConfig, drop_state
  <2> QED
      BY <1>0, <1>1, <1>2, <1>5, <2>1
<1> QED
    BY <1>3, <1>4, <1>5 DEF Perform

-----------------------------------------------------------------------------
(***************************************************************************)
(* All or nothing.  In `world`, with the claims `rec` paid, the polls ids  *)
(* and the messages d of owners have taken effect, but for the messages in *)
(* `rest`.                                                                 *)
(***************************************************************************)

ReceivedIn(rec, a) ==
    IF a \in Users THEN SumFunction([s \in Drop!Stages |-> rec[<<a, s>>]]) ELSE 0

Others == Addresses \ {PoolAddr, DropAddr}

\* A number of the contracts stands at x, which the messages to come take to
\* what all the messages in effect add.
Reaches(x, w, rest, ids, d) == x + Effect(w, rest) = Total(ids, d, w)

Settled(world, ids, rest, d, rec) ==
    /\ Reaches(world.latest_stage, Registrations, rest, ids, d)
    /\ Reaches(Funds - world.balance[PoolAddr], Withdrawn, rest, ids, d)
    /\ Reaches(world.balance[DropAddr] + SumFunction(rec), SpentOn(DropAddr), rest, ids, d)
    /\ \A a \in Others :
          Reaches(world.balance[a] - ReceivedIn(rec, a), SpentOn(a), rest, ids, d)
    /\ Reaches(StageCosts(world.merkle_root), Costs, rest, ids, d)

\* An open transaction has settled its world but for the messages left, and the
\* world it may go back to was settled without its poll.
Settles ==
    /\ IsFiniteSet(direct)
    /\ tx = NONE => Settled(World, Executed, <<>>, direct, received)
    /\ tx # NONE => /\ tx \in Transaction
                    /\ Settled(World, Executed, tx.rest, direct, received)
                    /\ Settled(tx.saved, Executed \ {tx.poll}, <<>>, direct, received)

Payments == [Users \X Drop!Stages -> Nat]

LEMMA WorldNumbers ==
    ASSUME NEW world, WorldOK(world)
    PROVE  /\ world.latest_stage \in Nat
           /\ \A a \in Addresses : world.balance[a] \in Nat
           /\ IsFiniteSet(DOMAIN world.merkle_root)
           /\ StageCosts(world.merkle_root) \in Nat
<1>1. /\ world.latest_stage \in Nat /\ \A a \in Addresses : world.balance[a] \in Nat
      /\ DOMAIN world.merkle_root = 1..world.latest_stage
    BY BoundsAssumption DEF WorldOK
<1>2. IsFiniteSet(1..world.latest_stage)
    BY <1>1, FS_Interval
<1> QED
    BY <1>1, <1>2, StageCostsType

\* Payments are naturals, and so are their sums.
LEMMA PaymentSums ==
    ASSUME NEW rec \in Payments
    PROVE  /\ IsFiniteSet(Users \X Drop!Stages) /\ IsFiniteSet(Drop!Stages)
           /\ SumFunction(rec) = Sum(rec, Users \X Drop!Stages)
           /\ SumFunction(rec) \in Nat
           /\ \A a : ReceivedIn(rec, a) \in Nat
<1>1. IsFiniteSet(Drop!Stages)
    BY BoundsAssumption, FS_Interval DEF Drop!Stages
<1>2. IsFiniteSet(Users \X Drop!Stages)
    BY <1>1, FinitelyMany, FS_Product
<1>3. DOMAIN rec = Users \X Drop!Stages /\ \A k \in Users \X Drop!Stages : rec[k] \in Nat
    BY DEF Payments
<1>4. SumFunction(rec) = Sum(rec, Users \X Drop!Stages)
    BY <1>3, SumFunctionIsSum
<1>5. Sum(rec, Users \X Drop!Stages) \in Nat
    BY <1>2, <1>3, SumNat
<1>6. ASSUME NEW a PROVE ReceivedIn(rec, a) \in Nat
  <2>1. CASE a \in Users
    <3> DEFINE f == [s \in Drop!Stages |-> rec[<<a, s>>]]
    <3>1. ReceivedIn(rec, a) = SumFunction(f) /\ DOMAIN f = Drop!Stages
        BY <2>1 DEF ReceivedIn
    <3>2. \A s \in Drop!Stages : f[s] \in Nat
        BY <1>3, <2>1
    <3> HIDE DEF f
    <3>3. SumFunction(f) = Sum(f, Drop!Stages)
        BY <3>1, SumFunctionIsSum
    <3> QED
        BY <1>1, <3>1, <3>2, <3>3, SumNat
  <2> QED
      BY <2>1 DEF ReceivedIn
<1> QED
    BY <1>1, <1>2, <1>4, <1>5, <1>6

\* A poll begins: its messages are to come.
LEMMA PollReaches ==
    ASSUME NEW x \in Int, NEW w \in [Message -> Nat], NEW ids \in SUBSET PollIds,
           NEW d \in SUBSET Message, IsFiniteSet(d), NEW id \in PollIds \ ids,
           Reaches(x, w, <<>>, ids, d)
    PROVE  Reaches(x, w, PollMessages[id], ids \cup {id}, d)
<1>1. Total(ids, d, w) \in Nat
    BY TotalGrows
<1>2. Total(ids \cup {id}, d, w) = Total(ids, d, w) + Effect(w, PollMessages[id])
    BY TotalGrows
<1>3. Effect(w, <<>>) = 0 /\ Effect(w, PollMessages[id]) \in Nat
  <2>1. <<>> \in Seq(Message)
      OBVIOUS
  <2> QED
      BY <2>1, EffectOfFirst, MessagesOfPolls
<1>4. x = Total(ids, d, w)
    BY <1>1, <1>3 DEF Reaches
<1> QED
    BY <1>1, <1>2, <1>3, <1>4 DEF Reaches

\* The next message is carried out.
LEMMA MessageReaches ==
    ASSUME NEW x \in Int, NEW w \in [Message -> Nat], NEW ids \in SUBSET PollIds,
           NEW d \in SUBSET Message, IsFiniteSet(d), NEW rest \in Seq(Message), rest # <<>>,
           Reaches(x, w, rest, ids, d)
    PROVE  Reaches(x + w[Head(rest)], w, Tail(rest), ids, d)
<1>1. /\ Head(rest) \in Message /\ Tail(rest) \in Seq(Message)
      /\ Effect(w, rest) = w[Head(rest)] + Effect(w, Tail(rest))
    BY EffectOfFirst
<1>2. w[Head(rest)] \in Nat /\ Effect(w, Tail(rest)) \in Nat
    BY <1>1, EffectOfFirst
<1>3. Total(ids, d, w) \in Nat
    BY TotalGrows
<1> QED
    BY <1>1, <1>2, <1>3 DEF Reaches

\* A message of an owner is carried out, with no transaction open.
LEMMA DirectReaches ==
    ASSUME NEW x \in Int, NEW w \in [Message -> Nat], NEW ids \in SUBSET PollIds,
           NEW d \in SUBSET Message, IsFiniteSet(d), NEW m \in Message \ d,
           Reaches(x, w, <<>>, ids, d)
    PROVE  Reaches(x + w[m], w, <<>>, ids, d \cup {m})
<1>1. Total(ids, d, w) \in Nat /\ Total(ids, d \cup {m}, w) = Total(ids, d, w) + w[m]
    BY TotalGrows
<1>2. Effect(w, <<>>) = 0 /\ w[m] \in Nat
  <2>1. <<>> \in Seq(Message)
      OBVIOUS
  <2> QED
      BY <2>1, EffectOfFirst
<1> QED
    BY <1>1, <1>2 DEF Reaches

\* The numbers that Settled is about.
LEMMA SettledNumbers ==
    ASSUME NEW world, WorldOK(world), NEW rec \in Payments
    PROVE  /\ world.latest_stage \in Int
           /\ Funds - world.balance[PoolAddr] \in Int
           /\ world.balance[DropAddr] + SumFunction(rec) \in Int
           /\ \A a \in Others : world.balance[a] - ReceivedIn(rec, a) \in Int
           /\ StageCosts(world.merkle_root) \in Int
<1>1. /\ world.latest_stage \in Nat /\ StageCosts(world.merkle_root) \in Nat
      /\ \A a \in Addresses : world.balance[a] \in Nat
    BY WorldNumbers
<1>2. SumFunction(rec) \in Nat /\ \A a : ReceivedIn(rec, a) \in Nat
    BY PaymentSums
<1>3. PoolAddr \in Addresses /\ DropAddr \in Addresses /\ Others \subseteq Addresses /\ Funds \in Nat
    BY BoundsAssumption DEF Addresses, Others
<1> QED
    BY <1>1, <1>2, <1>3

\* A message moves them by what it weighs.
LEMMA NumbersMove ==
    ASSUME NEW world, WorldOK(world), NEW new, WorldOK(new), NEW rec \in Payments,
           NEW m \in Message, Adds(new, world, m)
    PROVE  /\ new.latest_stage = world.latest_stage + Registrations[m]
           /\ Funds - new.balance[PoolAddr] = (Funds - world.balance[PoolAddr]) + Withdrawn[m]
           /\ new.balance[DropAddr] + SumFunction(rec)
                 = (world.balance[DropAddr] + SumFunction(rec)) + SpentOn(DropAddr)[m]
           /\ \A a \in Others :
                 new.balance[a] - ReceivedIn(rec, a)
                    = (world.balance[a] - ReceivedIn(rec, a)) + SpentOn(a)[m]
           /\ StageCosts(new.merkle_root) = StageCosts(world.merkle_root) + Costs[m]
<1>1. /\ \A a \in Addresses : world.balance[a] \in Nat
      /\ \A a \in Addresses : new.balance[a] \in Nat
    BY WorldNumbers
<1>2. SumFunction(rec) \in Nat /\ \A a : ReceivedIn(rec, a) \in Nat
    BY PaymentSums
<1>3. /\ PoolAddr \in Addresses /\ DropAddr \in Addresses \ {PoolAddr}
      /\ Others \subseteq Addresses \ {PoolAddr} /\ Funds \in Nat
    BY BoundsAssumption, AddressesApart DEF Addresses, Others
<1>4. Withdrawn[m] \in Nat /\ \A a : SpentOn(a)[m] \in Nat
    BY WeightsTyped
<1>5. Funds - new.balance[PoolAddr] = (Funds - world.balance[PoolAddr]) + Withdrawn[m]
  <2> DEFINE n == new.balance[PoolAddr]
             o == world.balance[PoolAddr]
  <2>1. n + Withdrawn[m] = o /\ n \in Nat /\ o \in Nat
      BY <1>1, <1>3 DEF Adds
  <2> HIDE DEF n, o
  <2>2. n \in Int /\ o \in Int /\ Withdrawn[m] \in Int /\ Funds \in Int
      BY <1>3, <1>4, <2>1
  <2>3. Funds - n = (Funds - o) + Withdrawn[m]
      BY <2>1, <2>2
  <2> QED
      BY <2>3 DEF n, o
<1>6. ASSUME NEW a \in Addresses \ {PoolAddr}, NEW r \in Int
      PROVE  new.balance[a] + r = (world.balance[a] + r) + SpentOn(a)[m]
  <2> DEFINE n == new.balance[a]
             o == world.balance[a]
  <2>1. n = o + SpentOn(a)[m] /\ n \in Nat /\ o \in Nat
      BY <1>1 DEF Adds
  <2> HIDE DEF n, o
  <2>2. n + r = (o + r) + SpentOn(a)[m]
      BY <1>4, <2>1
  <2> QED
      BY <2>2 DEF n, o
<1>7. ASSUME NEW a \in Others
      PROVE  new.balance[a] - ReceivedIn(rec, a)
                = (world.balance[a] - ReceivedIn(rec, a)) + SpentOn(a)[m]
  <2> DEFINE n == new.balance[a]
             o == world.balance[a]
             r == ReceivedIn(rec, a)
  <2>1. n = o + SpentOn(a)[m] /\ n \in Nat /\ o \in Nat /\ r \in Nat
      BY <1>1, <1>2, <1>3 DEF Adds
  <2> HIDE DEF n, o, r
  <2>2. n - r = (o - r) + SpentOn(a)[m]
      BY <1>4, <2>1
  <2> QED
      BY <2>2 DEF n, o, r
<1>8. new.balance[DropAddr] + SumFunction(rec)
         = (world.balance[DropAddr] + SumFunction(rec)) + SpentOn(DropAddr)[m]
    BY <1>2, <1>3, <1>6
<1> QED
    BY <1>5, <1>7, <1>8 DEF Adds

\* A poll begins: its status is `executed`, its messages are to come.
LEMMA PollSettles ==
    ASSUME NEW world, WorldOK(world), NEW ids \in SUBSET PollIds, NEW id \in PollIds \ ids,
           NEW d \in SUBSET Message, IsFiniteSet(d), NEW rec \in Payments,
           Settled(world, ids, <<>>, d, rec)
    PROVE  Settled(world, ids \cup {id}, PollMessages[id], d, rec)
<1>1. \A x \in Int, w \in [Message -> Nat] :
         Reaches(x, w, <<>>, ids, d) => Reaches(x, w, PollMessages[id], ids \cup {id}, d)
    BY PollReaches
<1> QED
    BY <1>1, SettledNumbers, WeightsTyped DEF Settled

LEMMA MessageSettles ==
    ASSUME NEW world, WorldOK(world), NEW new, WorldOK(new), NEW ids \in SUBSET PollIds,
           NEW d \in SUBSET Message, IsFiniteSet(d), NEW rec \in Payments,
           NEW rest \in Seq(Message), rest # <<>>, Adds(new, world, Head(rest)),
           Settled(world, ids, rest, d, rec)
    PROVE  Settled(new, ids, Tail(rest), d, rec)
<1> DEFINE m == Head(rest)
<1>1. \A x \in Int, w \in [Message -> Nat] :
         Reaches(x, w, rest, ids, d) => Reaches(x + w[m], w, Tail(rest), ids, d)
    BY MessageReaches
<1>2. m \in Message /\ Adds(new, world, m)
    OBVIOUS
<1> HIDE DEF m
<1>3. /\ new.latest_stage = world.latest_stage + Registrations[m]
      /\ Funds - new.balance[PoolAddr] = (Funds - world.balance[PoolAddr]) + Withdrawn[m]
      /\ new.balance[DropAddr] + SumFunction(rec)
            = (world.balance[DropAddr] + SumFunction(rec)) + SpentOn(DropAddr)[m]
      /\ \A a \in Others :
            new.balance[a] - ReceivedIn(rec, a)
               = (world.balance[a] - ReceivedIn(rec, a)) + SpentOn(a)[m]
      /\ StageCosts(new.merkle_root) = StageCosts(world.merkle_root) + Costs[m]
    BY <1>2, NumbersMove
<1> QED
    BY <1>1, <1>3, SettledNumbers, WeightsTyped DEF Settled

LEMMA DirectSettles ==
    ASSUME NEW world, WorldOK(world), NEW new, WorldOK(new), NEW ids \in SUBSET PollIds,
           NEW d \in SUBSET Message, IsFiniteSet(d), NEW rec \in Payments,
           NEW m \in Message \ d, Adds(new, world, m), Settled(world, ids, <<>>, d, rec)
    PROVE  Settled(new, ids, <<>>, d \cup {m}, rec)
<1>1. \A x \in Int, w \in [Message -> Nat] :
         Reaches(x, w, <<>>, ids, d) => Reaches(x + w[m], w, <<>>, ids, d \cup {m})
    BY DirectReaches
<1>2. /\ new.latest_stage = world.latest_stage + Registrations[m]
      /\ Funds - new.balance[PoolAddr] = (Funds - world.balance[PoolAddr]) + Withdrawn[m]
      /\ new.balance[DropAddr] + SumFunction(rec)
            = (world.balance[DropAddr] + SumFunction(rec)) + SpentOn(DropAddr)[m]
      /\ \A a \in Others :
            new.balance[a] - ReceivedIn(rec, a)
               = (world.balance[a] - ReceivedIn(rec, a)) + SpentOn(a)[m]
      /\ StageCosts(new.merkle_root) = StageCosts(world.merkle_root) + Costs[m]
    BY NumbersMove
<1> QED
    BY <1>1, <1>2, SettledNumbers, WeightsTyped DEF Settled

\* A claim moves an amount from the airdrop to a user, and is counted for both.
Paid(rec, k, amount) == [rec EXCEPT ![k] = @ + amount]

LEMMA PaymentAdds ==
    ASSUME NEW rec \in Payments, NEW user \in Users, NEW stage \in Drop!Stages, NEW amount \in Nat,
           NEW new, new = Paid(rec, <<user, stage>>, amount)
    PROVE  /\ new \in Payments
           /\ SumFunction(new) = SumFunction(rec) + amount
           /\ ReceivedIn(new, user) = ReceivedIn(rec, user) + amount
           /\ \A a : a # user => ReceivedIn(new, a) = ReceivedIn(rec, a)
<1> DEFINE K == Users \X Drop!Stages
           e == <<user, stage>>
<1>1. e \in K /\ rec \in [K -> Nat]
    BY DEF Payments
<1>2. new = [rec EXCEPT ![e] = rec[e] + amount]
    BY DEF Paid
<1>3. /\ new \in [K -> Nat] /\ new[e] = rec[e] + amount
      /\ \A k \in K \ {e} : new[k] = rec[k]
  <2> DEFINE v == rec[e] + amount
  <2> HIDE DEF e, K
  <2>1. v \in Nat
      BY <1>1
  <2>2. new = [rec EXCEPT ![e] = v]
      BY <1>2
  <2> HIDE DEF v
  <2>3. new \in [K -> Nat] /\ new[e] = v /\ \A k \in K \ {e} : new[k] = rec[k]
      BY <1>1, <2>1, <2>2
  <2> QED
      BY <2>3 DEF v
<1>4. new \in Payments
    BY <1>3 DEF Payments
<1>5. /\ IsFiniteSet(K) /\ IsFiniteSet(Drop!Stages)
      /\ SumFunction(rec) = Sum(rec, K) /\ SumFunction(new) = Sum(new, K)
      /\ SumFunction(rec) \in Nat /\ SumFunction(new) \in Nat
      /\ \A a : ReceivedIn(rec, a) \in Nat /\ ReceivedIn(new, a) \in Nat
    BY <1>4, PaymentSums
<1>6. SumFunction(new) = SumFunction(rec) + amount
  <2> HIDE DEF e, K
  <2>1. \A k \in K : rec[k] \in Int /\ new[k] \in Int
      BY <1>1, <1>3
  <2>2. \A k \in K \ {e} : rec[k] = new[k]
      BY <1>3
  <2>5. IsFiniteSet(K) /\ e \in K
      BY <1>1, <1>5
  <2>3. Sum(new, K) = Sum(rec, K) - rec[e] + new[e]
      BY <2>1, <2>2, <2>5, SumChange
  <2>4. rec[e] \in Nat /\ new[e] \in Nat
      BY <1>1, <1>3
  <2> QED
      BY <1>3, <1>5, <2>3, <2>4
<1>7. ASSUME NEW a \in Users
      PROVE  ReceivedIn(new, a) = IF a = user THEN ReceivedIn(rec, a) + amount ELSE ReceivedIn(rec, a)
  <2> DEFINE g == [s \in Drop!Stages |-> rec[<<a, s>>]]
             h == [s \in Drop!Stages |-> new[<<a, s>>]]
  <2>1. /\ DOMAIN g = Drop!Stages /\ DOMAIN h = Drop!Stages
        /\ ReceivedIn(rec, a) = SumFunction(g) /\ ReceivedIn(new, a) = SumFunction(h)
      BY DEF ReceivedIn
  <2>2. \A s \in Drop!Stages : /\ <<a, s>> \in K /\ g[s] = rec[<<a, s>>] /\ h[s] = new[<<a, s>>]
                               /\ <<a, s>> = e <=> (a = user /\ s = stage)
      OBVIOUS
  <2> HIDE DEF g, h, K, e
  <2>3. \A s \in Drop!Stages : g[s] \in Int /\ h[s] \in Int
    <3>1. \A k \in K : rec[k] \in Int /\ new[k] \in Int
        BY <1>1, <1>3
    <3> QED
        BY <2>2, <3>1
  <2>4. SumFunction(g) = Sum(g, Drop!Stages) /\ SumFunction(h) = Sum(h, Drop!Stages)
      BY <2>1, SumFunctionIsSum
  <2>5. CASE a = user
    <3>1. /\ h[stage] = g[stage] + amount
          /\ \A s \in Drop!Stages \ {stage} : g[s] = h[s]
        BY <1>3, <2>2, <2>5
    <3>2. Sum(h, Drop!Stages) = Sum(g, Drop!Stages) - g[stage] + h[stage]
        BY <1>5, <2>3, <3>1, SumChange
    <3>3. g[stage] \in Int /\ h[stage] \in Int /\ Sum(g, Drop!Stages) \in Nat
        BY <1>5, <2>1, <2>3, <2>4
    <3> QED
        BY <2>1, <2>4, <2>5, <3>1, <3>2, <3>3
  <2>6. CASE a # user
    <3>1. \A s \in Drop!Stages : g[s] = h[s]
        BY <1>3, <2>2, <2>6
    <3>2. Sum(g, Drop!Stages) = Sum(h, Drop!Stages)
        BY <1>5, <3>1, SumCongruence
    <3> QED
        BY <2>1, <2>4, <2>6, <3>2
  <2> QED
      BY <2>5, <2>6
<1>8. \A a : a \notin Users => ReceivedIn(new, a) = ReceivedIn(rec, a)
    BY DEF ReceivedIn
<1> QED
    BY <1>4, <1>6, <1>7, <1>8

LEMMA ClaimSettles ==
    ASSUME NEW world, WorldOK(world), NEW new, WorldOK(new), NEW ids, NEW d,
           NEW rec \in Payments, NEW user \in Users, NEW stage \in Drop!Stages, NEW amount \in Nat,
           NEW paid, paid = Paid(rec, <<user, stage>>, amount),
           new.latest_stage = world.latest_stage, new.merkle_root = world.merkle_root,
           new.balance = Transferred(world.balance, DropAddr, user, amount),
           amount <= world.balance[DropAddr],
           Settled(world, ids, <<>>, d, rec)
    PROVE  Settled(new, ids, <<>>, d, paid)
<1>1. /\ SumFunction(paid) = SumFunction(rec) + amount
      /\ ReceivedIn(paid, user) = ReceivedIn(rec, user) + amount
      /\ \A a : a # user => ReceivedIn(paid, a) = ReceivedIn(rec, a)
    BY PaymentAdds
<1>2. SumFunction(rec) \in Nat /\ \A a : ReceivedIn(rec, a) \in Nat
    BY PaymentSums
<1>3. DropAddr \in Addresses /\ user \in Addresses \ {DropAddr, PoolAddr}
      /\ PoolAddr \in Addresses \ {DropAddr} /\ Others \subseteq Addresses \ {DropAddr}
    BY AddressesApart DEF Addresses, Others
<1>4. world.balance \in [Addresses -> Nat]
    BY DEF WorldOK
<1>5. /\ new.balance[DropAddr] = world.balance[DropAddr] - amount
      /\ new.balance[user] = world.balance[user] + amount
      /\ \A a \in Addresses \ {DropAddr, user} : new.balance[a] = world.balance[a]
  <2> DEFINE b == world.balance
             c == new.balance
  <2>1. b \in [Addresses -> Nat] /\ c = [b EXCEPT ![DropAddr] = @ - amount, ![user] = @ + amount]
      BY <1>3, <1>4 DEF Transferred
  <2> HIDE DEF b, c
  <2>2. /\ c[DropAddr] = b[DropAddr] - amount /\ c[user] = b[user] + amount
        /\ \A a \in Addresses \ {DropAddr, user} : c[a] = b[a]
      BY <1>3, <2>1
  <2> QED
      BY <2>2 DEF b, c
<1>6. new.balance[DropAddr] + SumFunction(paid) = world.balance[DropAddr] + SumFunction(rec)
  <2> DEFINE n == new.balance[DropAddr]
             o == world.balance[DropAddr]
  <2>1. n = o - amount /\ o \in Nat
      BY <1>3, <1>4, <1>5
  <2> HIDE DEF n, o
  <2>2. n + SumFunction(paid) = o + SumFunction(rec)
      BY <1>1, <1>2, <2>1
  <2> QED
      BY <2>2 DEF n, o
<1>7. ASSUME NEW a \in Others
      PROVE  new.balance[a] - ReceivedIn(paid, a) = world.balance[a] - ReceivedIn(rec, a)
  <2>1. CASE a = user
    <3> DEFINE n == new.balance[a]
               o == world.balance[a]
    <3>1. n = o + amount /\ o \in Nat
        BY <1>3, <1>4, <1>5, <2>1
    <3> HIDE DEF n, o
    <3>2. n - ReceivedIn(paid, a) = o - ReceivedIn(rec, a)
        BY <1>1, <1>2, <2>1, <3>1
    <3> QED
        BY <3>2 DEF n, o
  <2>2. CASE a # user
      BY <1>1, <1>3, <1>5, <2>2
  <2> QED
      BY <2>1, <2>2
<1>8. new.balance[PoolAddr] = world.balance[PoolAddr]
    BY <1>3, <1>5
<1> QED
    BY <1>6, <1>7, <1>8 DEF Settled

\* Settled is about three of the storage items.
LEMMA SettledSame ==
    ASSUME NEW world, NEW new, new.latest_stage = world.latest_stage,
           new.merkle_root = world.merkle_root, new.balance = world.balance,
           NEW ids, NEW rest, NEW d, NEW rec, Settled(world, ids, rest, d, rec)
    PROVE  Settled(new, ids, rest, d, rec)
BY DEF Settled

LEMMA TypesForSums ==
    ASSUME IInv
    PROVE  /\ WorldOK(World) /\ received \in Payments
           /\ Executed \in SUBSET PollIds /\ direct \in SUBSET Message
           /\ tx # NONE => /\ tx.poll \in Executed /\ tx.rest \in Seq(Message)
                           /\ WorldOK(tx.saved)
           /\ \A id \in PollIds : id \in Executed <=> polls[id] = "executed"
<1>1. WorldOK(World) /\ received \in Payments
    BY TypeIsWorldOK DEF IInv, TypeOK, Payments
<1>2. Executed \in SUBSET PollIds /\ \A id \in PollIds : id \in Executed <=> polls[id] = "executed"
    BY DEF Executed
<1>3. direct \in SUBSET Message
    BY MessagesAssumption DEF IInv, TypeOK
<1>4. tx # NONE => /\ tx.poll \in Executed /\ tx.rest \in Seq(Message) /\ WorldOK(tx.saved)
    BY <1>2 DEF IInv, TypeOK, SavedInv
<1> QED
    BY <1>1, <1>2, <1>3, <1>4

LEMMA InitSettles == Init => Settles
<1> SUFFICES ASSUME Init PROVE Settles
    OBVIOUS
<1>1. /\ latest_stage = 0 /\ merkle_root = <<>> /\ tx = NONE /\ direct = {}
      /\ balance = [a \in Addresses |-> IF a = PoolAddr THEN Funds ELSE 0]
      /\ received = [k \in Users \X Drop!Stages |-> 0]
      /\ polls = [id \in PollIds |-> "passed"]
    BY DEF Init, Drop!Init
<1>2. Executed = {} /\ IsFiniteSet(direct)
    BY <1>1, FS_EmptySet DEF Executed
<1>3. received \in Payments
    BY <1>1 DEF Payments
<1>4. SumFunction(received) = 0
  <2>1. \A k \in Users \X Drop!Stages : received[k] = 0
      BY <1>1
  <2> QED
      BY <1>3, <2>1, PaymentSums, SumZero
<1>5. \A a : ReceivedIn(received, a) = 0
  <2>1. ASSUME NEW a \in Users PROVE ReceivedIn(received, a) = 0
    <3> DEFINE f == [s \in Drop!Stages |-> received[<<a, s>>]]
    <3>1. /\ ReceivedIn(received, a) = SumFunction(f) /\ DOMAIN f = Drop!Stages
          /\ \A s \in Drop!Stages : f[s] = 0
        BY <1>1 DEF ReceivedIn
    <3> HIDE DEF f
    <3>2. SumFunction(f) = Sum(f, Drop!Stages) /\ IsFiniteSet(Drop!Stages)
        BY <1>3, <3>1, SumFunctionIsSum, PaymentSums
    <3> QED
        BY <3>1, <3>2, SumZero
  <2>2. \A a : a \notin Users => ReceivedIn(received, a) = 0
      BY DEF ReceivedIn
  <2> QED
      BY <2>1, <2>2
<1>6. StageCosts(merkle_root) = 0
  <2>1. DOMAIN CostAt(merkle_root) = {}
      BY <1>1 DEF CostAt
  <2> QED
      BY <2>1, SumFunctionIsSum, SumEmpty DEF StageCosts
<1>7. \A w \in [Message -> Nat] : Total(Executed, direct, w) = 0 /\ Effect(w, <<>>) = 0
  <2>1. <<>> \in Seq(Message)
      OBVIOUS
  <2>2. Executed \in SUBSET PollIds /\ direct \in SUBSET Message
      BY <1>1, <1>2
  <2>3. ASSUME NEW w \in [Message -> Nat] PROVE Total(Executed, direct, w) = 0
      BY <1>1, <1>2, <2>2, TotalGrows
  <2>4. ASSUME NEW w \in [Message -> Nat] PROVE Effect(w, <<>>) = 0
      BY <2>1, EffectOfFirst
  <2> QED
      BY <2>3, <2>4
<1>8. \A w \in [Message -> Nat] : Reaches(0, w, <<>>, Executed, direct)
    BY <1>7 DEF Reaches
<1>9. /\ Funds - balance[PoolAddr] = 0 /\ balance[DropAddr] + SumFunction(received) = 0
      /\ \A a \in Others : balance[a] - ReceivedIn(received, a) = 0
    BY <1>1, <1>4, <1>5, AddressesApart, BoundsAssumption DEF Addresses, Others
<1>10. Settled(World, Executed, <<>>, direct, received)
    BY <1>1, <1>6, <1>8, <1>9, WeightsTyped DEF Settled, World
<1> QED
    BY <1>1, <1>2, <1>10 DEF Settles

LEMMA ExecutePollSettles ==
    ASSUME IInv, Settles, NEW id \in PollIds, ExecutePoll(id) PROVE Settles'
<1>1. /\ tx = NONE /\ polls[id] = "passed" /\ polls' = [polls EXCEPT ![id] = "executed"]
      /\ UNCHANGED <<latest_stage, merkle_root, received, balance, direct>>
      /\ tx' = [poll |-> id, rest |-> PollMessages[id], saved |-> World]
    BY DEF ExecutePoll, contracts, drop_state, MarkedExecuted
<1>2. tx' \in Transaction /\ tx' # NONE /\ tx'.poll = id /\ tx'.rest = PollMessages[id] /\ tx'.saved = World
  <2>1. World \in Storage
    <3>1. WorldOK(World) /\ World.latest_stage \in 0..U8_MAX
        BY TypesForSums DEF WorldOK
    <3> QED
        BY <3>1 DEF WorldOK, World, Storage
  <2>2. [poll |-> id, rest |-> PollMessages[id], saved |-> World] \in Transaction
      BY <2>1, MessagesOfPolls DEF Transaction
  <2> QED
      BY <1>1, <2>2, NoneIsNoTransaction
<1>3. /\ Executed \in SUBSET PollIds /\ id \in PollIds \ Executed
      /\ Executed' = Executed \cup {id} /\ (Executed \cup {id}) \ {id} = Executed
  <2>1. polls \in [PollIds -> {"passed", "executed", "failed"}]
      BY DEF IInv, TypeOK
  <2> QED
      BY <1>1, <2>1 DEF Executed
<1>4. WorldOK(World) /\ received \in Payments /\ direct \in SUBSET Message /\ IsFiniteSet(direct)
    BY TypesForSums DEF Settles
<1>5. Settled(World, Executed, <<>>, direct, received)
    BY <1>1 DEF Settles
<1>6. Settled(World, Executed \cup {id}, PollMessages[id], direct, received)
    BY <1>3, <1>4, <1>5, PollSettles
<1>7. Settled(World', Executed \cup {id}, PollMessages[id], direct, received)
  <2>1. World' = World
      BY <1>1 DEF ExecutePoll, contracts, drop_state, World
  <2> QED
      BY <1>6, <2>1
<1> QED
    BY <1>1, <1>2, <1>3, <1>4, <1>5, <1>7 DEF Settles

LEMMA DeliverSettles == ASSUME IInv, Settles, Deliver PROVE Settles'
<1> DEFINE m == Head(tx.rest)
<1>1. /\ tx # NONE /\ tx.rest # <<>> /\ Perform(Gov, m)
      /\ tx' = [tx EXCEPT !.rest = Tail(tx.rest)]
      /\ polls' = polls /\ direct' = direct
    BY DEF Deliver
<1>2. /\ tx = [poll |-> tx.poll, rest |-> tx.rest, saved |-> tx.saved]
      /\ tx.poll \in PollIds /\ tx.rest \in Seq(Message) /\ WorldOK(tx.saved)
    BY <1>1 DEF IInv, SavedInv
<1>3. m \in Message /\ Tail(tx.rest) \in Seq(Message)
    BY <1>1, <1>2
<1>4. /\ tx' = [poll |-> tx.poll, rest |-> Tail(tx.rest), saved |-> tx.saved]
      /\ tx'.poll = tx.poll /\ tx'.rest = Tail(tx.rest) /\ tx'.saved = tx.saved
    BY <1>1, <1>2
<1>5. WorldOK(World') /\ received' = received /\ Adds(World', World, m)
  <2> HIDE DEF m
  <2> QED
    BY <1>1, <1>3, PerformEffect, PerformAdds DEF IInv
<1>6. Executed' = Executed
    BY <1>1 DEF Executed
<1>7. /\ WorldOK(World) /\ received \in Payments /\ Executed \in SUBSET PollIds
      /\ direct \in SUBSET Message /\ IsFiniteSet(direct)
    BY TypesForSums DEF Settles
<1>8. /\ Settled(World, Executed, tx.rest, direct, received)
      /\ Settled(tx.saved, Executed \ {tx.poll}, <<>>, direct, received)
    BY <1>1 DEF Settles
<1>9. Settled(World', Executed, Tail(tx.rest), direct, received)
    BY <1>1, <1>2, <1>5, <1>7, <1>8, MessageSettles
<1>10. tx' \in Transaction /\ tx' # NONE
  <2>1. tx \in Transaction
      BY <1>1 DEF Settles
  <2>2. tx' \in Transaction
      BY <1>3, <1>4, <2>1 DEF Transaction
  <2> QED
      BY <2>2, NoneIsNoTransaction
<1> QED
    BY <1>1, <1>4, <1>5, <1>6, <1>7, <1>8, <1>9, <1>10 DEF Settles

LEMMA CommitSettles == ASSUME IInv, Settles, Commit PROVE Settles'
<1>1. /\ tx # NONE /\ tx.rest = <<>> /\ tx' = NONE
      /\ UNCHANGED <<drop_config, latest_stage, merkle_root, received, pool_config, balance,
                     polls, direct>>
    BY DEF Commit, contracts, drop_state
<1>2. World' = World /\ Executed' = Executed
    BY <1>1 DEF World, Executed
<1>3. Settled(World, Executed, <<>>, direct, received) /\ IsFiniteSet(direct)
    BY <1>1 DEF Settles
<1> QED
    BY <1>1, <1>2, <1>3 DEF Settles

LEMMA TakenBackSettles ==
    ASSUME IInv, Settles, tx # NONE, NEW status \in {"passed", "failed"}, TakenBack(status)
    PROVE  Settles'
<1>1. /\ drop_config' = tx.saved.drop_config /\ latest_stage' = tx.saved.latest_stage
      /\ merkle_root' = tx.saved.merkle_root /\ pool_config' = tx.saved.pool_config
      /\ balance' = tx.saved.balance
      /\ polls' = [polls EXCEPT ![tx.poll] = status] /\ tx' = NONE
      /\ UNCHANGED <<claimed, received, direct>>
    BY DEF TakenBack, RolledBack
<1>2. Executed' = Executed \ {tx.poll}
  <2>1. polls \in [PollIds -> {"passed", "executed", "failed"}] /\ tx.poll \in PollIds
      BY DEF IInv, TypeOK, SavedInv
  <2>2. polls'[tx.poll] # "executed" /\ \A id \in PollIds \ {tx.poll} : polls'[id] = polls[id]
      BY <1>1, <2>1
  <2> QED
      BY <2>2 DEF Executed
<1>3. Settled(tx.saved, Executed \ {tx.poll}, <<>>, direct, received) /\ IsFiniteSet(direct)
    BY DEF Settles
<1>4. /\ World'.latest_stage = tx.saved.latest_stage /\ World'.balance = tx.saved.balance
      /\ World'.merkle_root = tx.saved.merkle_root
    BY <1>1 DEF World
<1>5. Settled(World', Executed \ {tx.poll}, <<>>, direct, received)
    BY <1>3, <1>4, SettledSame
<1> QED
    BY <1>1, <1>2, <1>3, <1>5 DEF Settles

LEMMA DirectMessageSettles ==
    ASSUME IInv, Settles, NEW sender \in Owners, NEW m \in DirectMessages, Direct(sender, m)
    PROVE  Settles'
<1>1. /\ tx = NONE /\ tx' = NONE /\ m \notin direct /\ Perform(sender, m)
      /\ direct' = direct \cup {m} /\ polls' = polls
    BY DEF Direct
<1>2. m \in Message \ direct
    BY <1>1, MessagesAssumption
<1>3. WorldOK(World') /\ received' = received /\ Adds(World', World, m)
    BY <1>1, <1>2, PerformEffect, PerformAdds DEF IInv
<1>4. Executed' = Executed
    BY <1>1 DEF Executed
<1>5. /\ WorldOK(World) /\ received \in Payments /\ Executed \in SUBSET PollIds
      /\ direct \in SUBSET Message /\ IsFiniteSet(direct)
    BY TypesForSums DEF Settles
<1>6. Settled(World, Executed, <<>>, direct, received)
    BY <1>1 DEF Settles
<1>7. Settled(World', Executed, <<>>, direct \cup {m}, received)
    BY <1>2, <1>3, <1>5, <1>6, DirectSettles
<1>8. IsFiniteSet(direct \cup {m})
    BY <1>5, FS_AddElement
<1> QED
    BY <1>1, <1>3, <1>4, <1>7, <1>8 DEF Settles

LEMMA ClaimKeepsSettled ==
    ASSUME IInv, Settles, NEW user \in Users, NEW stage \in Drop!Stages,
           NEW amount \in Amounts, NEW proof \in Proofs, Claim(user, stage, amount, proof)
    PROVE  Settles'
<1>1. /\ tx = NONE /\ tx' = NONE /\ amount \in Nat
      /\ received' = [received EXCEPT ![<<user, stage>>] = @ + amount]
      /\ UNCHANGED <<drop_config, latest_stage, merkle_root, pool_config, polls, direct>>
    BY ClaimEffect
<1>2. amount <= balance[DropAddr] /\ balance' = Transferred(balance, DropAddr, user, amount)
    BY DEF Claim, Drop!Claim, Drop!MayClaim, Drop!CanTransfer, Drop!Transferred, Transferred
<1>3. received' = Paid(received, <<user, stage>>, amount)
    BY <1>1 DEF Paid
<1>4. WorldOK(World) /\ WorldOK(World') /\ received \in Payments
  <2>1. IInv'
      BY ClaimInv
  <2>2. TypeOK'
      BY <2>1 DEF IInv
  <2>3. WorldOK(World')
      BY <2>2 DEF TypeOK, WorldOK, World
  <2> QED
      BY <2>3, TypesForSums
<1>5. Settled(World, Executed, <<>>, direct, received) /\ IsFiniteSet(direct)
    BY <1>1 DEF Settles
<1>6. /\ World'.latest_stage = World.latest_stage /\ World'.merkle_root = World.merkle_root
      /\ World'.balance = Transferred(World.balance, DropAddr, user, amount)
      /\ amount <= World.balance[DropAddr]
    BY <1>1, <1>2 DEF World
<1>7. Settled(World', Executed, <<>>, direct, received')
    BY <1>1, <1>3, <1>4, <1>5, <1>6, ClaimSettles
<1>8. Executed' = Executed
    BY <1>1 DEF Executed
<1> QED
    BY <1>1, <1>5, <1>7, <1>8 DEF Settles

LEMMA NextSettles == ASSUME IInv, Settles, [Next]_vars PROVE Settles'
<1>1. ASSUME NEW id \in PollIds, ExecutePoll(id) PROVE Settles'
    BY <1>1, ExecutePollSettles
<1>2. CASE Deliver
    BY <1>2, DeliverSettles
<1>3. CASE Commit
    BY <1>3, CommitSettles
<1>4. CASE FailPoll
    BY <1>4, TakenBackSettles DEF FailPoll
<1>5. CASE OutOfGas
    BY <1>5, TakenBackSettles DEF OutOfGas
<1>6. ASSUME NEW sender \in Owners, NEW m \in DirectMessages, Direct(sender, m) PROVE Settles'
    BY <1>6, DirectMessageSettles
<1>7. ASSUME NEW user \in Users, NEW stage \in Drop!Stages, NEW amount \in Amounts,
             NEW proof \in Proofs, Claim(user, stage, amount, proof)
      PROVE  Settles'
    BY <1>7, ClaimKeepsSettled
<1>8. CASE UNCHANGED vars
  <2>1. UNCHANGED <<drop_config, latest_stage, merkle_root, received, pool_config, balance,
                    polls, tx, direct>>
      BY <1>8 DEF vars, contracts, drop_state
  <2>2. World' = World /\ Executed' = Executed
      BY <2>1 DEF World, Executed
  <2> QED
      BY <2>1, <2>2 DEF Settles
<1> QED
    BY <1>1, <1>2, <1>3, <1>4, <1>5, <1>6, <1>7, <1>8 DEF Next

LEMMA SettlesInvariance == Spec => [](IInv /\ Settles)
<1>1. Init => IInv /\ Settles
    BY InitInv, InitSettles
<1>2. IInv /\ Settles /\ [Next]_vars => (IInv /\ Settles)'
    BY NextInv, NextSettles
<1> QED
    BY <1>1, <1>2, PTL DEF Spec

LEMMA SettlesImplies == ASSUME IInv, Settles PROVE AllOrNothing
<1> SUFFICES ASSUME tx = NONE
             PROVE  /\ latest_stage = Done(Registrations)
                    /\ balance[PoolAddr] = Funds - Done(Withdrawn)
                    /\ balance[DropAddr] = Done(SpentOn(DropAddr)) - SumFunction(received)
                    /\ \A a \in Addresses \ {PoolAddr, DropAddr} :
                          balance[a] = Done(SpentOn(a)) + Received(a)
    BY DEF AllOrNothing
<1>1. \A w : Done(w) = Total(Executed, direct, w)
    BY DoneByIsTotal DEF Done
<1>2. /\ WorldOK(World) /\ received \in Payments /\ Executed \in SUBSET PollIds
      /\ direct \in SUBSET Message /\ IsFiniteSet(direct)
    BY TypesForSums DEF Settles
<1>3. \A w \in [Message -> Nat] : Done(w) \in Nat /\ Effect(w, <<>>) = 0
  <2>1. <<>> \in Seq(Message)
      OBVIOUS
  <2> QED
      BY <1>1, <1>2, <2>1, TotalGrows, EffectOfFirst
<1>4. Settled(World, Executed, <<>>, direct, received)
    BY DEF Settles
<1>5. ASSUME NEW x \in Int, NEW w \in [Message -> Nat], Reaches(x, w, <<>>, Executed, direct)
      PROVE  x = Done(w)
    BY <1>1, <1>3, <1>5 DEF Reaches
<1>6. /\ latest_stage = Done(Registrations)
      /\ Funds - balance[PoolAddr] = Done(Withdrawn)
      /\ balance[DropAddr] + SumFunction(received) = Done(SpentOn(DropAddr))
      /\ \A a \in Others : balance[a] - ReceivedIn(received, a) = Done(SpentOn(a))
    BY <1>2, <1>4, <1>5, SettledNumbers, WeightsTyped DEF Settled, World
<1>7. SumFunction(received) \in Nat /\ \A a : ReceivedIn(received, a) \in Nat
    BY <1>2, PaymentSums
<1>8. \A a : Received(a) = ReceivedIn(received, a)
    BY DEF Received, ReceivedIn
<1>9. /\ Funds \in Nat /\ \A a \in Addresses : balance[a] \in Nat
      /\ PoolAddr \in Addresses /\ DropAddr \in Addresses
    BY BoundsAssumption DEF IInv, TypeOK, Addresses
<1>10. balance[PoolAddr] = Funds - Done(Withdrawn)
    BY <1>6, <1>9
<1>11. balance[DropAddr] = Done(SpentOn(DropAddr)) - SumFunction(received)
    BY <1>6, <1>7, <1>9
<1>12. ASSUME NEW a \in Addresses \ {PoolAddr, DropAddr}
       PROVE  balance[a] = Done(SpentOn(a)) + Received(a)
    BY <1>6, <1>7, <1>8, <1>9 DEF Others
<1> QED
    BY <1>6, <1>10, <1>11, <1>12

\* Whatever polls fail, run out of gas or compete for the pool, and whoever
\* claims or sends messages in between, the contracts are as if the executed
\* polls alone had taken effect, each with all of its messages and once
\* (execute_poll_messages, fail_poll; the two contracts' handlers).
THEOREM PollsTakeEffectWhole == Spec => []AllOrNothing
<1>1. IInv /\ Settles => AllOrNothing
    BY SettlesImplies
<1> QED
    BY <1>1, SettlesInvariance, PTL

-----------------------------------------------------------------------------
(***************************************************************************)
(* The funds of the stages, if every poll pays for those it registers.     *)
(***************************************************************************)

\* What a claim paid is something, and no more than its user was entitled to.
PaidAsEntitled ==
    \A k \in claimed : 0 < received[k] /\ received[k] <= Entitled(k[1], merkle_root[k[2]])

\* Stages that were claimed keep their roots, and nothing is paid.
LEMMA PaidAsBefore ==
    ASSUME PaidAsEntitled, UNCHANGED <<claimed, received>>,
           \A k \in claimed : merkle_root'[k[2]] = merkle_root[k[2]]
    PROVE  PaidAsEntitled'
<1> SUFFICES ASSUME NEW k \in claimed
             PROVE  0 < received[k] /\ received[k] <= Entitled(k[1], merkle_root'[k[2]])
    BY DEF PaidAsEntitled, Entitled, EntriesOf
<1> QED
    BY DEF PaidAsEntitled

LEMMA RootsKept ==
    ASSUME IInv, PaidAsEntitled, UNCHANGED <<claimed, received>>, Extends(merkle_root', merkle_root)
    PROVE  PaidAsEntitled'
<1>1. \A k \in claimed : k[2] \in DOMAIN merkle_root
    BY DEF IInv, TypeOK
<1>2. \A k \in claimed : merkle_root'[k[2]] = merkle_root[k[2]]
    BY <1>1 DEF Extends
<1> QED
    BY <1>2, PaidAsBefore

LEMMA ClaimPaysAsEntitled ==
    ASSUME IInv, PaidAsEntitled, NEW user \in Users, NEW stage \in Drop!Stages,
           NEW amount \in Amounts, NEW proof \in Proofs, Claim(user, stage, amount, proof)
    PROVE  PaidAsEntitled'
<1> DEFINE j == <<user, stage>>
<1>1. /\ amount \in Nat /\ amount > 0 /\ stage \in DOMAIN merkle_root /\ j \notin claimed
      /\ Drop!RootOf(user, amount, proof) = merkle_root[stage]
      /\ claimed' = claimed \cup {j}
      /\ received' = [received EXCEPT ![j] = @ + amount]
      /\ merkle_root' = merkle_root
    BY ClaimEffect
<1>2. PICK d \in Distributions : d.root = merkle_root[stage]
  <2>1. merkle_root[stage] \in Roots \ {BAD}
      BY <1>1 DEF IInv, TypeOK
  <2> QED
      BY <2>1 DEF Roots
<1>3. PICK e \in d.entries : e.user = user /\ e.amount = amount
    BY <1>1, <1>2, ProofsAreSound
<1>4. e \in EntriesOf(merkle_root[stage])
    BY <1>2, <1>3 DEF EntriesOf
<1>5. amount <= Entitled(user, merkle_root[stage])
    BY <1>3, <1>4, EntitledType
<1>6. j \in Users \X Drop!Stages /\ received \in [Users \X Drop!Stages -> Nat] /\ received[j] = 0
      /\ claimed \subseteq Users \X DOMAIN merkle_root
    BY <1>1 DEF IInv, TypeOK, ClaimsMatch
<1>7. j[1] = user /\ j[2] = stage
    OBVIOUS
<1> HIDE DEF j
<1>8. received'[j] = amount
    BY <1>1, <1>6
<1>9. ASSUME NEW k \in claimed'
      PROVE  0 < received'[k] /\ received'[k] <= Entitled(k[1], merkle_root[k[2]])
  <2>1. CASE k = j
      BY <1>1, <1>5, <1>7, <1>8, <2>1
  <2>2. CASE k # j
    <3>1. k \in claimed /\ received'[k] = received[k]
        BY <1>1, <1>6, <2>2
    <3> QED
        BY <3>1 DEF PaidAsEntitled
  <2> QED
      BY <2>1, <2>2
<1> QED
    BY <1>1, <1>9 DEF PaidAsEntitled, Entitled, EntriesOf

LEMMA NextPaysAsEntitled == ASSUME IInv, PaidAsEntitled, [Next]_vars PROVE PaidAsEntitled'
<1>1. ASSUME NEW id \in PollIds, ExecutePoll(id) PROVE PaidAsEntitled'
    BY <1>1, PaidAsBefore DEF ExecutePoll, contracts, drop_state
<1>2. CASE Deliver
  <2>1. Perform(Gov, Head(tx.rest)) /\ Head(tx.rest) \in Message
      BY <1>2 DEF Deliver, IInv, SavedInv
  <2>2. UNCHANGED <<claimed, received>> /\ Extends(merkle_root', merkle_root)
      BY <2>1, PerformEffect DEF IInv
  <2> QED
      BY <2>2, RootsKept
<1>3. CASE Commit
    BY <1>3, PaidAsBefore DEF Commit, contracts, drop_state
<1>4. CASE FailPoll \/ OutOfGas
  <2>1. /\ tx # NONE /\ merkle_root' = tx.saved.merkle_root /\ UNCHANGED <<claimed, received>>
      BY <1>4 DEF FailPoll, OutOfGas, TakenBack, RolledBack
  <2>2. /\ claimed \subseteq Users \X DOMAIN tx.saved.merkle_root
        /\ Extends(merkle_root, tx.saved.merkle_root)
      BY <2>1 DEF IInv, SavedInv
  <2>3. \A k \in claimed : k[2] \in DOMAIN tx.saved.merkle_root
      BY <2>2
  <2>4. \A k \in claimed : merkle_root'[k[2]] = merkle_root[k[2]]
      BY <2>1, <2>2, <2>3 DEF Extends
  <2> QED
      BY <2>1, <2>4, PaidAsBefore
<1>5. ASSUME NEW sender \in Owners, NEW m \in DirectMessages, Direct(sender, m)
      PROVE  PaidAsEntitled'
  <2>1. UNCHANGED <<claimed, received>> /\ Extends(merkle_root', merkle_root)
      BY <1>5, PerformEffect, MessagesAssumption DEF Direct, IInv
  <2> QED
      BY <2>1, RootsKept
<1>6. ASSUME NEW user \in Users, NEW stage \in Drop!Stages, NEW amount \in Amounts,
             NEW proof \in Proofs, Claim(user, stage, amount, proof)
      PROVE  PaidAsEntitled'
    BY <1>6, ClaimPaysAsEntitled
<1>7. CASE UNCHANGED vars
    BY <1>7, PaidAsBefore DEF vars, contracts, drop_state
<1> QED
    BY <1>1, <1>2, <1>3, <1>4, <1>5, <1>6, <1>7 DEF Next

LEMMA PaymentsInvariance == Spec => [](IInv /\ Settles /\ PaidAsEntitled)
<1>1. Init => PaidAsEntitled
    BY DEF Init, Drop!Init, PaidAsEntitled
<1>2. IInv /\ PaidAsEntitled /\ [Next]_vars => PaidAsEntitled'
    BY NextPaysAsEntitled
<1> QED
    BY <1>1, <1>2, SettlesInvariance, PTL DEF Spec

LEMMA SumsWithin ==
    ASSUME NEW A, IsFiniteSet(A), NEW K \in SUBSET A, NEW owed, NEW rec, NEW cost,
           \A k \in K : owed[k] \in Nat /\ cost[k] \in Nat /\ owed[k] + rec[k] <= cost[k],
           \A k \in A : rec[k] \in Nat,
           \A k \in A \ K : rec[k] = 0
    PROVE  /\ Sum(owed, K) \in Nat
           /\ Sum(owed, K) + Sum(rec, A) <= Sum(cost, K)
<1> DEFINE both == [k \in K |-> owed[k] + rec[k]]
           R == A \ K
<1>1. \A k \in K : /\ owed[k] \in Int /\ rec[k] \in Int /\ cost[k] \in Int
                   /\ both[k] = owed[k] + rec[k] /\ both[k] <= cost[k] /\ both[k] \in Int
    OBVIOUS
<1>2. IsFiniteSet(K) /\ IsFiniteSet(R) /\ A = K \cup R /\ K \cap R = {}
    BY FS_Subset
<1>3. \A k \in R : rec[k] = 0
    OBVIOUS
<1>4. \A k \in K \cup R : rec[k] \in Int
    OBVIOUS
<1> HIDE DEF both, R
<1>5. Sum(both, K) = Sum(owed, K) + Sum(rec, K)
    BY <1>1, <1>2, SumPlus
<1>6. Sum(both, K) <= Sum(cost, K)
    BY <1>1, <1>2, SumMonotone
<1>7. Sum(rec, A) = Sum(rec, K) + Sum(rec, R)
    BY <1>2, <1>4, SumUnion
<1>8. Sum(rec, R) = 0
    BY <1>2, <1>3, SumZero
<1>9. Sum(owed, K) \in Nat /\ Sum(rec, K) \in Nat
    BY <1>2, SumNat
<1> QED
    BY <1>5, <1>6, <1>7, <1>8, <1>9

\* What is still owed, and that it is, with what was paid, within what the stages cost.
Owed == [k \in Users \X DOMAIN merkle_root |-> Outstanding(k[1], k[2])]

LEMMA OwedWithinCosts ==
    ASSUME IInv, PaidAsEntitled
    PROVE  /\ IsFiniteSet(Users \X DOMAIN merkle_root)
           /\ \A k \in Users \X DOMAIN merkle_root : Owed[k] \in Nat
           /\ SumFunction(Owed) = Sum(Owed, Users \X DOMAIN merkle_root)
           /\ SumFunction(Owed) \in Nat
           /\ SumFunction(Owed) + SumFunction(received) <= StageCosts(merkle_root)
<1> DEFINE K == Users \X DOMAIN merkle_root
           A == Users \X Drop!Stages
           cost == CostAt(merkle_root)
<1>1. IsFiniteSet(DOMAIN merkle_root) /\ received \in Payments
    BY WorldNumbers, TypesForSums DEF World
<1>2. /\ IsFiniteSet(K) /\ StageCosts(merkle_root) = Sum(cost, K)
      /\ \A k \in K : cost[k] = Entitled(k[1], merkle_root[k[2]]) /\ cost[k] \in Nat
    BY <1>1, StageCostsType
<1>3. /\ IsFiniteSet(A) /\ SumFunction(received) = Sum(received, A)
      /\ \A k \in A : received[k] \in Nat
    BY <1>1, PaymentSums DEF Payments
<1>4. K \subseteq A /\ claimed \subseteq K /\ \A k \in A : k \notin claimed => received[k] = 0
    BY BoundsAssumption DEF IInv, TypeOK, ClaimsMatch, Drop!Stages
<1>5. \A k \in K : <<k[1], k[2]>> = k
    OBVIOUS
<1>6. DOMAIN Owed = K /\ \A k \in K : Owed[k] = Outstanding(k[1], k[2])
    BY DEF Owed
<1> HIDE DEF K, A, cost
<1>7. \A k \in K : Owed[k] = IF k \in claimed THEN 0 ELSE cost[k]
    BY <1>2, <1>5, <1>6 DEF Outstanding
<1>8. ASSUME NEW k \in K
      PROVE  Owed[k] \in Nat /\ cost[k] \in Nat /\ Owed[k] + received[k] <= cost[k]
  <2>1. cost[k] \in Nat /\ received[k] \in Nat /\ k \in A
      BY <1>2, <1>3, <1>4
  <2>2. CASE k \in claimed
    <3>1. received[k] <= cost[k] /\ Owed[k] = 0
        BY <1>2, <1>7, <2>2 DEF PaidAsEntitled
    <3> QED
        BY <2>1, <3>1
  <2>3. CASE k \notin claimed
    <3>1. received[k] = 0 /\ Owed[k] = cost[k]
        BY <1>4, <1>7, <2>1, <2>3
    <3> QED
        BY <2>1, <3>1
  <2> QED
      BY <2>2, <2>3
<1>9. \A k \in A \ K : received[k] = 0
    BY <1>4
<1>10. Sum(Owed, K) \in Nat /\ Sum(Owed, K) + Sum(received, A) <= Sum(cost, K)
    BY <1>3, <1>4, <1>8, <1>9, SumsWithin
<1>11. SumFunction(Owed) = Sum(Owed, K)
    BY <1>6, SumFunctionIsSum
<1> QED
    BY <1>2, <1>3, <1>8, <1>10, <1>11 DEF K

\* The polls in effect have paid for the stages they registered.
LEMMA PollsPay ==
    ASSUME PollsFundStages, NEW ids \in SUBSET PollIds
    PROVE  PollsSum(ids, Costs) <= PollsSum(ids, SpentOn(DropAddr))
<1> DEFINE f == [id \in ids |-> Effect(Costs, PollMessages[id])]
           g == [id \in ids |-> Effect(SpentOn(DropAddr), PollMessages[id])]
<1>1. /\ PollsSum(ids, Costs) = SumFunction(f) /\ PollsSum(ids, SpentOn(DropAddr)) = SumFunction(g)
      /\ DOMAIN f = ids /\ DOMAIN g = ids
    BY DEF PollsSum
<1>2. \A id \in ids : f[id] \in Int /\ g[id] \in Int /\ f[id] <= g[id]
  <2> TAKE id \in ids
  <2>1. /\ Effect(Costs, PollMessages[id]) \in Nat
        /\ Effect(SpentOn(DropAddr), PollMessages[id]) \in Nat
      BY MessagesOfPolls, WeightsTyped, EffectOfFirst
  <2> QED
      BY <2>1 DEF PollsFundStages
<1>3. IsFiniteSet(ids)
    BY FinitelyMany, FS_Subset
<1> HIDE DEF f, g
<1>4. SumFunction(f) = Sum(f, ids) /\ SumFunction(g) = Sum(g, ids)
    BY <1>1, SumFunctionIsSum
<1>5. Sum(f, ids) <= Sum(g, ids)
    BY <1>2, <1>3, SumMonotone
<1> QED
    BY <1>1, <1>4, <1>5

LEMMA OwnersOweNothing ==
    ASSUME OnlyPollsRegister, direct \in SUBSET Message, IsFiniteSet(direct)
    PROVE  DirectSum(direct, Costs) = 0
<1> DEFINE f == [m \in direct |-> Costs[m]]
<1>1. DirectSum(direct, Costs) = SumFunction(f) /\ DOMAIN f = direct
    BY DEF DirectSum
<1>2. \A m \in direct : f[m] = 0
    BY DEF OnlyPollsRegister, Costs
<1> HIDE DEF f
<1> QED
    BY <1>1, <1>2, SumFunctionIsSum, SumZero

LEMMA FundsSuffice ==
    ASSUME PollsFundStages, IInv, Settles, PaidAsEntitled, tx = NONE, OnlyPollsRegister
    PROVE  SumFunction(Owed) <= balance[DropAddr]
<1>1. /\ WorldOK(World) /\ received \in Payments /\ Executed \in SUBSET PollIds
      /\ direct \in SUBSET Message /\ IsFiniteSet(direct)
    BY TypesForSums DEF Settles
<1>2. /\ Reaches(StageCosts(merkle_root), Costs, <<>>, Executed, direct)
      /\ Reaches(balance[DropAddr] + SumFunction(received), SpentOn(DropAddr), <<>>, Executed, direct)
  <2>1. Settled(World, Executed, <<>>, direct, received)
      BY DEF Settles
  <2> QED
      BY <2>1 DEF Settled, World
<1>3. /\ StageCosts(merkle_root) \in Nat /\ balance[DropAddr] \in Nat
      /\ SumFunction(received) \in Nat
  <2>1. StageCosts(World.merkle_root) \in Nat
      BY <1>1, WorldNumbers
  <2>2. balance[DropAddr] \in Nat
      BY DEF IInv, TypeOK, Addresses
  <2> QED
      BY <1>1, <2>1, <2>2, PaymentSums DEF World
<1>4. Effect(Costs, <<>>) = 0 /\ Effect(SpentOn(DropAddr), <<>>) = 0
  <2>1. <<>> \in Seq(Message)
      OBVIOUS
  <2> QED
      BY <2>1, WeightsTyped, EffectOfFirst
<1>5. /\ StageCosts(merkle_root) = Total(Executed, direct, Costs)
      /\ balance[DropAddr] + SumFunction(received) = Total(Executed, direct, SpentOn(DropAddr))
    BY <1>2, <1>3, <1>4 DEF Reaches
<1>6. /\ PollsSum(Executed, Costs) \in Nat /\ PollsSum(Executed, SpentOn(DropAddr)) \in Nat
      /\ DirectSum(direct, SpentOn(DropAddr)) \in Nat
    BY <1>1, WeightsTyped, PollsSumGrows, DirectSumGrows
<1>7. DirectSum(direct, Costs) = 0
    BY <1>1, OwnersOweNothing
<1>8. PollsSum(Executed, Costs) <= PollsSum(Executed, SpentOn(DropAddr))
    BY <1>1, PollsPay
<1>9. StageCosts(merkle_root) <= balance[DropAddr] + SumFunction(received)
    BY <1>5, <1>6, <1>7, <1>8 DEF Total
<1>10. SumFunction(Owed) \in Nat /\ SumFunction(Owed) + SumFunction(received) <= StageCosts(merkle_root)
    BY OwedWithinCosts
<1> QED
    BY <1>3, <1>9, <1>10

\* If every poll gives the airdrop what its stages may pay out, the airdrop always
\* holds what its stages still owe, polls that fail half way, competing polls
\* and the order of claims notwithstanding (claim, register_merkle_root, spend).
THEOREM FundedPollsCoverClaims == ASSUME PollsFundStages PROVE Spec => []StagesFunded
<1>1. IInv /\ Settles /\ PaidAsEntitled => StagesFunded
    BY FundsSuffice DEF StagesFunded, Owed
<1> QED
    BY <1>1, PaymentsInvariance, PTL

LEMMA EntryCanClaim ==
    ASSUME PollsFundStages, ProofsLead, IInv, Settles, PaidAsEntitled, tx = NONE, OnlyPollsRegister,
           NEW stage \in DOMAIN merkle_root, NEW e \in EntriesOf(merkle_root[stage]),
           e.amount > 0, received[<<e.user, stage>>] = 0
    PROVE  Drop!MayClaim(e.user, stage, e.amount, e.proof)
<1> DEFINE k == <<e.user, stage>>
           K == Users \X DOMAIN merkle_root
<1>1. PICK d \in Distributions : d.root = merkle_root[stage] /\ e \in d.entries
    BY DEF EntriesOf
<1>2. e.user \in Users /\ e.amount \in Nat /\ e.proof \in Seq(Nat) /\ BAD \notin Nat
    BY <1>1, DistributionsAssumption
<1>3. k \notin claimed /\ k \in K /\ k[1] = e.user /\ k[2] = stage
    BY <1>2 DEF PaidAsEntitled
<1>4. Drop!RootOf(e.user, e.amount, e.proof) = merkle_root[stage]
    BY <1>1 DEF ProofsLead
<1>5. BAD \notin Drop!Range(e.proof)
    BY <1>2 DEF Drop!Range
<1>6. e.amount <= Owed[k]
  <2>1. Owed[k] = Outstanding(e.user, stage)
      BY <1>3 DEF Owed
  <2>2. Outstanding(e.user, stage) = Entitled(e.user, merkle_root[stage])
      BY <1>3 DEF Outstanding
  <2>3. e.amount <= Entitled(e.user, merkle_root[stage])
      BY EntitledType
  <2> QED
      BY <2>1, <2>2, <2>3
<1>7. /\ IsFiniteSet(K) /\ \A j \in K : Owed[j] \in Nat
      /\ SumFunction(Owed) = Sum(Owed, K) /\ SumFunction(Owed) \in Nat
    BY OwedWithinCosts
<1>8. SumFunction(Owed) <= balance[DropAddr] /\ balance[DropAddr] \in Nat
    BY FundsSuffice DEF IInv, TypeOK, Addresses
<1>9. e.amount <= balance[DropAddr]
  <2> HIDE DEF K, k
  <2>1. Owed[k] <= Sum(Owed, K) /\ Owed[k] \in Nat
      BY <1>3, <1>7, SumPart
  <2> QED
      BY <1>2, <1>6, <1>7, <1>8, <2>1
<1> QED
    BY <1>2, <1>3, <1>4, <1>5, <1>9 DEF Drop!MayClaim, Drop!ClaimKey, Drop!CanTransfer

\* Nobody is locked out of what a stage owes them: an entry can be claimed as
\* long as its user has not been paid for the stage (claim and its checks).
THEOREM NoEntryIsLockedOut ==
    ASSUME PollsFundStages, ProofsLead PROVE Spec => []EntitledCanClaim
<1>1. IInv /\ Settles /\ PaidAsEntitled => EntitledCanClaim
    BY EntryCanClaim DEF EntitledCanClaim
<1> QED
    BY <1>1, PaymentsInvariance, PTL

=============================================================================
