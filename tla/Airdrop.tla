-------------------------------- MODULE Airdrop --------------------------------
(***************************************************************************)
(* contracts/airdrop: the owner registers the root of a Merkle tree of     *)
(* <<user, amount>> pairs, which opens a new stage; a user who proves that *)
(* a pair of theirs is a leaf of a stage's tree is paid its amount, once   *)
(* per stage.                                                              *)
(*                                                                         *)
(* One action is one message, atomic with the cw20 transfer it sends.      *)
(* Digests are naturals: the order on them is that of bytes_cmp.  BAD is   *)
(* any string that is not the hexadecimal form of 32 bytes.                *)
(*                                                                         *)
(* `received` is history: no action depends on it.  Mut_X is X with a      *)
(* plausible mistake, as in Governance.tla.                                *)
(***************************************************************************)
EXTENDS Cw20, FiniteSets, SequencesExt

CONSTANTS
    Users,           \* accounts that claim
    Self,            \* the contract's own address
    NONE,            \* Option::None
    BAD,             \* a string that hex::decode_to_slice refuses
    LeafHash(_, _),  \* Keccak256 of an address followed by an amount
    PairHash(_, _),  \* Keccak256 of two digests, one after the other
    Amounts,         \* the amounts users put into claims
    Proofs,          \* the proofs users put into claims
    Roots,           \* the roots an owner registers
    U8_MAX           \* u8::MAX

VARIABLES
    config,          \* KEY_CONFIG: the owner (the token never changes)
    latest_stage,    \* KEY_LATEST_STAGE
    merkle_root,     \* PREFIX_MERKLE_ROOT: the root of each stage
    claimed,         \* PREFIX_CLAIM_INDEX: the keys <<user, stage>> set to true
    balance,         \* external: cw20 balances, by address
    received         \* history: what claims have paid, by <<user, stage>>

vars == <<config, latest_stage, merkle_root, claimed, balance, received>>

-----------------------------------------------------------------------------
(* update_config, register_merkle_root *)

MayUpdateConfig(sender) == sender = config.owner
UpdateConfig(sender, owner) ==
    /\ MayUpdateConfig(sender)
    /\ config' = IF owner = NONE THEN config ELSE [config EXCEPT !.owner = owner]
    /\ UNCHANGED <<latest_stage, merkle_root, claimed, balance, received>>

\* latest_stage + 1, which aborts beyond u8.
Mut_StageWraps == {(latest_stage + 1) % (U8_MAX + 1)}
NextStage == {latest_stage + 1} \cap 0..U8_MAX

MayRegisterMerkleRoot(sender, root) ==
    sender = config.owner /\ root # BAD /\ NextStage # {}
RegisterMerkleRoot(sender, root) ==
    /\ MayRegisterMerkleRoot(sender, root)
    /\ \E stage \in NextStage :
          /\ merkle_root' = [s \in DOMAIN merkle_root \cup {stage} |->
                                IF s = stage THEN root ELSE merkle_root[s]]
          /\ latest_stage' = stage
    /\ UNCHANGED <<config, claimed, balance, received>>

-----------------------------------------------------------------------------
(* claim *)

\* The smaller digest comes first: a proof does not say on which side it is.
Mut_LeftFirst(hash, p) == PairHash(hash, p)
Combine(hash, p) == IF hash < p THEN PairHash(hash, p) ELSE PairHash(p, hash)

\* The root that a leaf and a proof lead to.
RootOf(user, amount, proof) == FoldLeft(Combine, LeafHash(user, amount), proof)

Mut_LatestStage(user, stage) == <<user, latest_stage>>
ClaimKey(user, stage) == <<user, stage>>

MayClaim(user, stage, amount, proof) ==
    /\ stage \in DOMAIN merkle_root
    /\ ClaimKey(user, stage) \notin claimed
    /\ BAD \notin Range(proof)
    /\ RootOf(user, amount, proof) = merkle_root[stage]
    /\ CanTransfer(balance, Self, amount)

Claim(user, stage, amount, proof) ==
    /\ MayClaim(user, stage, amount, proof)
    /\ claimed' = claimed \cup {ClaimKey(user, stage)}
    /\ balance' = Transferred(balance, Self, user, amount)
    /\ received' = [received EXCEPT ![<<user, stage>>] = @ + amount]
    /\ UNCHANGED <<config, latest_stage, merkle_root>>

-----------------------------------------------------------------------------

Stages == 0..U8_MAX

Init(owner) ==
    /\ config = [owner |-> owner]
    /\ latest_stage = 0
    /\ merkle_root = <<>>
    /\ claimed = {}
    /\ received = [k \in Users \X Stages |-> 0]

\* What the contract takes for granted of Keccak256, of all that it hashes:
\* no two inputs have one digest, and no pair of digests that of a leaf.
NoCollisions ==
    LET leaves == {LeafHash(u, a) : u \in Users, a \in Amounts}
        given == leaves \cup (UNION {Range(p) : p \in Proofs} \ {BAD})
        nodes == given \cup {PairHash(x, y) : x \in given, y \in given}
        pairs == {PairHash(x, y) : x \in nodes, y \in nodes}
    IN  /\ Cardinality(leaves) = Cardinality(Users \X Amounts)
        /\ Cardinality(pairs) = Cardinality(nodes \X nodes)
        /\ pairs \cap leaves = {}

=============================================================================
