--------------------------------- MODULE Cw20 ---------------------------------
(***************************************************************************)
(* The cw20 token, as the contracts that are paid from and pay into one    *)
(* rely on it.  Its code (cw20-base) is not part of the repository.        *)
(***************************************************************************)
EXTENDS Naturals

\* Transfer { recipient, amount } sent by `from`: no zero amount, no overdraft.
CanTransfer(balance, from, amount) == amount > 0 /\ amount <= balance[from]

Transferred(balance, from, to, amount) ==
    IF from = to THEN balance
    ELSE [balance EXCEPT ![from] = @ - amount, ![to] = @ + amount]

=============================================================================
