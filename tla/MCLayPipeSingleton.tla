-------------------------- MODULE MCLayPipeSingleton --------------------------
EXTENDS LayPipeSingleton, TLC

CONSTANTS h1, h2

\* Transfers name the traders and the owner; the owner, until its release, stands
\* for every excluded address that only receives.
MCRecipients == {h1, h2, InitialSupplyOwner}
MCAccounts == {h1, h2, InitialSupplyOwner, Launcher, Hook, PoolManager, Router}
Symmetric == Permutations({h1, h2})
=============================================================================
