----------------------------- MODULE Entitlements -----------------------------
(***************************************************************************)
(* What an airdrop promises, with no trees, proofs, tokens or owners:      *)
(* entitlements are granted by whole stages and never changed or taken     *)
(* back, and each user is paid one of theirs of each stage, once.          *)
(***************************************************************************)
EXTENDS Naturals

CONSTANTS Users, Stages

VARIABLES
    granted,   \* the entitlements, records of stage, user and amount
    paid       \* what a user has been paid for a stage, by <<user, stage>>

Init ==
    /\ granted = {}
    /\ paid = [k \in Users \X Stages |-> 0]

\* A stage is granted as a whole: nothing is added to one granted before.
Grant ==
    /\ granted \subseteq granted'
    /\ \A new \in granted' \ granted, old \in granted : new.stage # old.stage
    /\ UNCHANGED paid

Take(e) ==
    /\ e.amount > 0
    /\ paid[<<e.user, e.stage>>] = 0
    /\ paid' = [paid EXCEPT ![<<e.user, e.stage>>] = e.amount]
    /\ UNCHANGED granted

Next == Grant \/ \E e \in granted : Take(e)

ESpec == Init /\ [][Next]_<<granted, paid>>

=============================================================================
