---------------------------- MODULE MCMarketFeed ----------------------------
EXTENDS MarketFeed

CONSTANTS w1, w2

\* w1 launches the first token and w2 the second; the others come from elsewhere.
MCLaunched == [w \in Accounts |-> IF w = w1 THEN {1} ELSE {2}]
=============================================================================
