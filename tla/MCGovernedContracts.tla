-------------------------- MODULE MCGovernedContracts --------------------------
(* Small instances of GovernedContracts.                                    *)
EXTENDS GovernedContracts

CONSTANTS u1, u2, o

\* Digests that differ for all that is hashed here (Keccak checks it).
Number(user) == IF user = u1 THEN 1 ELSE 2
MCLeafHash(user, amount) == 10 * Number(user) + amount
MCPairHash(a, b) == (140 * a + 585 * b + 101 * (a % 97) * (b % 89)) % 1000003

Node(a, b) == IF a < b THEN MCPairHash(a, b) ELSE MCPairHash(b, a)
Entry(user, amount, proof) == [user |-> user, amount |-> amount, proof |-> proof]

\* One entry for each user; three leaves, two of them of one user; one leaf.
L11 == MCLeafHash(u1, 1)
L12 == MCLeafHash(u1, 2)
L21 == MCLeafHash(u2, 1)
Both == [root |-> Node(L12, L21), entries |-> {Entry(u1, 2, <<L21>>), Entry(u2, 1, <<L12>>)}]
Twice == [root |-> Node(Node(L21, L12), L11),
          entries |-> {Entry(u2, 1, <<L12, L11>>), Entry(u1, 2, <<L21, L11>>),
                       Entry(u1, 1, <<Node(L21, L12)>>)}]
Single == [root |-> L11, entries |-> {Entry(u1, 1, <<>>)}]
MCDistributions == {Both, Twice, Single}

Spend(to, amount) == [kind |-> "spend", recipient |-> to, amount |-> amount]
Govern(by) == [kind |-> "govern", governance_contract |-> by]
Register(root) == [kind |-> "register", root |-> root]
Own(by) == [kind |-> "own", owner |-> by]

\* Polls that fund and register stages, that compete for the pool's 7 PSI, that
\* hand a contract over before and after spending, that spend the pool on itself, that
\* nobody can perform.
MCPollMessages ==
    << <<Spend(DropAddr, 3), Register(Both.root)>>,
       <<Register(Twice.root), Spend(DropAddr, 3)>>,
       <<Spend(DropAddr, 1), Register(BAD)>>,
       <<Register(Single.root), Spend(DropAddr, 2)>>,
       <<Spend(u2, 1), Govern(o)>>,
       <<Govern(o), Spend(u2, 1)>>,
       <<Own(o), Govern(NONE), Spend(PoolAddr, 1)>> >>

\* The premise of what is proved about the funds of stages.
ASSUME PollsFundStages

MCDirectMessages == {Spend(o, 1), Register(Single.root), Govern(Gov), Own(NONE)}

=============================================================================
