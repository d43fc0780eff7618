---------------------------- MODULE PipeDogRewards ----------------------------
(***************************************************************************)
(* contracts/src/PipeDogRewards.sol by itself: the linked token syncs any  *)
(* account to any unit count, PoolManager claims reach the vault by the    *)
(* hook's mint or by anyone's transfer, the notifier notifies, holders     *)
(* claim.  Each external function is one transaction, hence one step.      *)
(***************************************************************************)
EXTENDS RewardAccounting

CONSTANTS
    MaxUnits,    \* bound: largest unit count the token asks for
    MaxMinted    \* bound: PIPEDOG claims ever credited to the vault

ASSUME BoundsAssumption == MaxUnits \in Nat /\ MaxMinted \in Nat

VARIABLES
    vault,           \* the contract's storage
    notifierSet,     \* rewardNotifier # address(0)
    claimBalance,    \* poolManager.balanceOf(vault, pipedogClaimId)
    minted           \* claims ever credited to the vault

vars == <<vault, notifierSet, claimBalance, minted>>

TypeOK ==
    /\ vault \in Vaults
    /\ notifierSet \in BOOLEAN
    /\ claimBalance \in Nat
    /\ minted \in Nat

Init ==
    /\ vault = EmptyVault
    /\ notifierSet = FALSE
    /\ claimBalance = 0
    /\ minted = 0

SetRewardNotifier ==
    /\ ~notifierSet
    /\ notifierSet' = TRUE
    /\ UNCHANGED <<vault, claimBalance, minted>>

\* The PoolManager credits claims to the vault: the hook's mint or a donation.
CreditClaims(amount) ==
    /\ amount > 0
    /\ minted + amount <= MaxMinted
    /\ claimBalance' = claimBalance + amount
    /\ minted' = minted + amount
    /\ UNCHANGED <<vault, notifierSet>>

Sync(a, newUnits) ==
    /\ newUnits <= MaxUint64
    /\ vault' = SyncVault(vault, a, newUnits)
    /\ UNCHANGED <<notifierSet, claimBalance, minted>>

NotifyRewardClaim(amount) ==
    /\ notifierSet
    /\ amount # 0
    /\ claimBalance >= Accounted(vault) + amount
    /\ vault' = NotifyVault(vault, amount)
    /\ UNCHANGED <<notifierSet, claimBalance, minted>>

\* The unlock callback burns the claim it pays; burning more than the balance
\* reverts the whole call.
Claim(a) ==
    LET amount == Claimable(vault, a)
    IN  /\ amount # 0
        /\ amount <= claimBalance
        /\ vault' = ClaimVault(vault, a)
        /\ claimBalance' = claimBalance - amount
        /\ UNCHANGED <<notifierSet, minted>>

Next ==
    \/ SetRewardNotifier
    \/ \E amount \in 1 .. MaxMinted : CreditClaims(amount) \/ NotifyRewardClaim(amount)
    \/ \E a \in Accounts, n \in 0 .. MaxUnits : Sync(a, n)
    \/ \E a \in Accounts : Claim(a)

Spec == Init /\ [][Next]_vars

-----------------------------------------------------------------------------
\* Everything the accounts have earned, and everything still undistributed, is
\* covered by what was notified and not claimed, and that by the PoolManager
\* claims the vault holds; so no claim in any reachable state reverts for lack
\* of them, in whatever order the holders claim.
Solvent ==
    /\ Dust(vault) >= 0
    /\ Accounted(vault) <= claimBalance
    /\ \A a \in Accounts : Claimable(vault, a) <= claimBalance

\* The unit total sync keeps by subtraction is the sum of the accounts' units,
\* and rewards wait undistributed only while that is zero.
BooksBalance ==
    /\ vault.totalEligibleUnits = Cardinality(Slots(vault))
    /\ vault.undistributedRewards # 0 => vault.totalEligibleUnits = 0

\* Only a claim lowers what an account can claim, and it pays exactly that;
\* unless the accumulator moves nothing raises it, so units bought after a
\* notification never earn from it.
EarningsKept ==
    [][\A a \in Accounts :
        LET was == Claimable(vault, a)
            now == Claimable(vault', a)
        IN  \/ now = was
            \/ /\ now = 0
               /\ vault'.totalRewardsClaimed = vault.totalRewardsClaimed + was
            \/ /\ now > was
               /\ vault'.rewardPerUnitStored > vault.rewardPerUnitStored]_vars

\* A step strands less than one wei for the account it settles and one atom per
\* eligible unit for the reward it spreads: everything else notified is owed.
OnlyDustIsLost ==
    [][Dust(vault') < Dust(vault) + ACC_PRECISION + vault'.totalEligibleUnits]_vars
=============================================================================
