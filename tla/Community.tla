------------------------------- MODULE Community -------------------------------
(***************************************************************************)
(* contracts/community: a pool of PSI that its governance contract spends, *)
(* and hands over to another one.  One action is one message, atomic with  *)
(* the cw20 transfer it sends.  Mut_X is X with a plausible mistake.       *)
(***************************************************************************)
EXTENDS Cw20

CONSTANTS
    Self,     \* the contract's own address
    NONE      \* Option::None

VARIABLES
    config,   \* KEY_CONFIG: governance_contract (the token never changes)
    balance   \* external: cw20 balances, by address

vars == <<config, balance>>

\* ExecuteMsg::Governance is reserved to the governance contract.
Mut_AnySender(sender) == TRUE
Governs(sender) == sender = config.governance_contract

MayUpdateConfig(sender) == Governs(sender)
UpdateConfig(sender, governance_contract) ==
    /\ MayUpdateConfig(sender)
    /\ config' = IF governance_contract = NONE THEN config
                 ELSE [config EXCEPT !.governance_contract = governance_contract]
    /\ UNCHANGED balance

\* The handler checks no amount: the transfer it sends fails, and it with it.
MaySpend(sender, amount) == Governs(sender) /\ CanTransfer(balance, Self, amount)
Spend(sender, recipient, amount) ==
    /\ MaySpend(sender, amount)
    /\ balance' = Transferred(balance, Self, recipient, amount)
    /\ UNCHANGED config

Init(governance_contract) == config = [governance_contract |-> governance_contract]

=============================================================================
