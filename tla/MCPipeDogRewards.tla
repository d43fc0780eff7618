--------------------------- MODULE MCPipeDogRewards ---------------------------
EXTENDS PipeDogRewards, TLC

Symmetric == Permutations(Accounts)
=============================================================================
