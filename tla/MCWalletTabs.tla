---------------------------- MODULE MCWalletTabs ----------------------------
EXTENDS WalletTabs

CONSTANTS w1, w2, t1, t2

\* One wallet uses every surface, the other shares the launch and the handoff store
\* with it.
MCFlowsOf == [w \in Wallets |-> IF w = w1 THEN Flows ELSE {"launch", "handoff"}]

\* For the liveness both wallets only launch, from no allowance.
LaunchesOnly == [w \in Wallets |-> {"launch"}]
NoAllowances == [w \in Wallets |-> [factory |-> 0, router |-> 0]]

\* w1 may launch at once and trade after an approval; w2 has a stale allowance.
MCAllowances == [w \in Wallets |-> IF w = w1 THEN [factory |-> 1, router |-> 0]
                                             ELSE [factory |-> 2, router |-> 2]]
=============================================================================
