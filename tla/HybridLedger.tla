----------------------------- MODULE HybridLedger -----------------------------
(***************************************************************************)
(* The storage of contracts/src/LayPipeHybridToken.sol with that of the    *)
(* reward vault it syncs, as one record, and what a transfer does to both. *)
(* The DN404 base is external: it is modelled by the mirrored NFT counts   *)
(* it keeps.  No variables: LayPipeSingleton composes transfers into the   *)
(* transactions of the launcher and the router.                            *)
(***************************************************************************)
EXTENDS RewardAccounting

CONSTANTS
    NFT_UNIT,                  \* LAYPIPE per PipeDog (100,000e18)
    INITIAL_SUPPLY,            \* the fixed supply
    MAX_AUTOMATIC_NFT_DELTA,   \* most PipeDogs one transfer may mint or burn
    InitialSupplyOwner         \* the deployment wallet

ASSUME UnitAssumption   == NFT_UNIT \in Nat \ {0}
ASSUME SupplyAssumption == INITIAL_SUPPLY \in Nat /\ NFT_UNIT <= INITIAL_SUPPLY
ASSUME DeltaAssumption  == MAX_AUTOMATIC_NFT_DELTA \in Nat
ASSUME OwnerAssumption  == InitialSupplyOwner \in Accounts

Ledgers ==
    [balances : [Accounts -> Nat],
     nfts     : [Accounts -> Nat],       \* DN404's owned ids, counted
     skipNFT  : [Accounts -> BOOLEAN],
     excluded : SUBSET Accounts,
     vault    : Vaults]

\* The constructor's exclusions of token, mirror and vault are left out: those
\* addresses are accounts only as recipients, for which any excluded one stands.
InitialLedger ==
    [balances |-> [a \in Accounts |-> IF a = InitialSupplyOwner THEN INITIAL_SUPPLY ELSE 0],
     nfts     |-> [a \in Accounts |-> 0],
     skipNFT  |-> [a \in Accounts |-> a = InitialSupplyOwner],
     excluded |-> {InitialSupplyOwner},
     vault    |-> EmptyVault]

WholeUnits(l, a) == l.balances[a] \div NFT_UNIT

EligibleUnits(l, a) == IF a \in l.excluded THEN 0 ELSE WholeUnits(l, a)

SyncReward(l, a) == [l EXCEPT !.vault = SyncVault(@, a, EligibleUnits(l, a))]

\* _syncReward(from); if (to != from) _syncReward(to);
SyncBoth(l, from, to) ==
    IF to = from THEN SyncReward(l, from) ELSE SyncReward(SyncReward(l, from), to)

-----------------------------------------------------------------------------
Lesser(x, y) == IF x < y THEN x ELSE y
Greater(x, y) == IF x < y THEN y ELSE x

\* DN404: burn from's ids down to its whole units, mint to's up unless it skips.
MirrorNFTs(l, from, to) ==
    LET burnt == [l.nfts EXCEPT ![from] = Lesser(@, WholeUnits(l, from))]
    IN  IF l.skipNFT[to] THEN burnt
        ELSE [burnt EXCEPT ![to] = Greater(@, WholeUnits(l, to))]

Moved(l, from, to, amount) ==
    LET paid == [l EXCEPT !.balances[from] = @ - amount]
        done == [paid EXCEPT !.balances[to] = @ + amount]
    IN  [done EXCEPT !.nfts = MirrorNFTs(done, from, to)]

\* _checkAutomaticNFTDelta, and the base's InsufficientBalance.
DeltaAllowed(l, from, to, amount) ==
    LET burns == IF from \in l.excluded THEN 0
                 ELSE WholeUnits(l, from) - (l.balances[from] - amount) \div NFT_UNIT
        mints == IF to \in l.excluded THEN 0
                 ELSE (l.balances[to] + amount) \div NFT_UNIT - WholeUnits(l, to)
    IN  from # to => burns <= MAX_AUTOMATIC_NFT_DELTA /\ mints <= MAX_AUTOMATIC_NFT_DELTA

TransferAllowed(l, from, to, amount) ==
    /\ amount <= l.balances[from]
    /\ DeltaAllowed(l, from, to, amount)

\* Mutant of Transferred: no sync once the balances have moved.
SyncedBeforeOnly(l, from, to, amount) == Moved(SyncBoth(l, from, to), from, to, amount)

\* _transfer: both accounts are settled before the balances move and after.
Transferred(l, from, to, amount) ==
    SyncBoth(Moved(SyncBoth(l, from, to), from, to, amount), from, to)

\* DN404's transfer of one id carries NFT_UNIT of balance with it.
MovedNFT(l, from, to) ==
    LET paid == [l EXCEPT !.balances[from] = @ - NFT_UNIT, !.nfts[from] = @ - 1]
    IN  [paid EXCEPT !.balances[to] = @ + NFT_UNIT, !.nfts[to] = @ + 1]

\* _transferFromNFT
NFTTransferred(l, from, to) == SyncBoth(MovedNFT(SyncBoth(l, from, to), from, to), from, to)

\* _exclude, for a set of addresses
Excluded(l, S) ==
    [l EXCEPT !.excluded = @ \cup S,
              !.skipNFT = [a \in Accounts |-> a \in S \/ l.skipNFT[a]]]

\* _requireUnfundedSystemAddress
Unfunded(l, a) == l.balances[a] = 0 /\ l.nfts[a] = 0 /\ l.vault.units[a] = 0

\* The effect of releaseInitialSupplyOwner on both contracts.
OwnerReleased(l) ==
    LET a == InitialSupplyOwner
    IN  [l EXCEPT !.excluded = @ \ {a},
                  !.skipNFT[a] = FALSE,
                  !.vault = SyncVault(@, a, 0)]
=============================================================================
