--------------------------- MODULE RewardAccounting ---------------------------
(***************************************************************************)
(* The storage of contracts/src/PipeDogRewards.sol as one record, and what *)
(* each of its external functions does to that record.  The module has no  *)
(* variables: PipeDogRewards runs the vault by itself, LayPipeHybridToken  *)
(* runs it inside the token, whose transfers call sync four times.         *)
(***************************************************************************)
EXTENDS Integers, FiniteSets

CONSTANTS
    Accounts,       \* the addresses that may hold eligible units
    ACC_PRECISION,  \* fixed-point scale of the accumulator (1e24 in the code)
    MaxUint64       \* largest unit count an account may carry

ASSUME AccountsAssumption  == IsFiniteSet(Accounts)
ASSUME PrecisionAssumption == ACC_PRECISION \in Nat \ {0}
ASSUME UnitsAssumption     == MaxUint64 \in Nat

Vaults ==
    [units                : [Accounts -> Nat],
     rewardPerUnitPaid    : [Accounts -> Nat],
     accrued              : [Accounts -> Nat],
     totalEligibleUnits   : Nat,
     rewardPerUnitStored  : Nat,
     undistributedRewards : Nat,
     totalRewardsNotified : Nat,
     totalRewardsClaimed  : Nat]

EmptyVault ==
    [units                |-> [a \in Accounts |-> 0],
     rewardPerUnitPaid    |-> [a \in Accounts |-> 0],
     accrued              |-> [a \in Accounts |-> 0],
     totalEligibleUnits   |-> 0,
     rewardPerUnitStored  |-> 0,
     undistributedRewards |-> 0,
     totalRewardsNotified |-> 0,
     totalRewardsClaimed  |-> 0]

\* What the vault still has to answer for: notified and not yet claimed.
Accounted(v) == v.totalRewardsNotified - v.totalRewardsClaimed

-----------------------------------------------------------------------------
\* Math.mulDiv(units, accumulator - rewardPerUnitPaid, ACC_PRECISION)
Earned(v, a) ==
    (v.units[a] * (v.rewardPerUnitStored - v.rewardPerUnitPaid[a])) \div ACC_PRECISION

Claimable(v, a) == v.accrued[a] + Earned(v, a)

\* The accumulator takes in everything undistributed, once some unit can earn it.
Distribute(v) ==
    IF v.totalEligibleUnits = 0 \/ v.undistributedRewards = 0 THEN v
    ELSE [v EXCEPT !.undistributedRewards = 0,
                   !.rewardPerUnitStored =
                       @ + (v.undistributedRewards * ACC_PRECISION) \div v.totalEligibleUnits]

\* Mutants of Settle: old and new weight swapped in the total, the old weight
\* left in the total, and the reward computed with the new weight.
SettleSwapped(v, a, n) ==
    [v EXCEPT !.accrued[a] = Claimable(v, a),
              !.units[a] = n,
              !.rewardPerUnitPaid[a] = v.rewardPerUnitStored,
              !.totalEligibleUnits = @ - n + v.units[a]]
SettleAddsOnly(v, a, n) ==
    [v EXCEPT !.accrued[a] = Claimable(v, a),
              !.units[a] = n,
              !.rewardPerUnitPaid[a] = v.rewardPerUnitStored,
              !.totalEligibleUnits = @ + n]
SettleNewWeight(v, a, n) ==
    [v EXCEPT !.accrued[a] = Claimable([v EXCEPT !.units[a] = n], a),
              !.units[a] = n,
              !.rewardPerUnitPaid[a] = v.rewardPerUnitStored,
              !.totalEligibleUnits = @ - v.units[a] + n]

\* Settles a under its old weight and gives it n units.
Settle(v, a, n) ==
    [v EXCEPT !.accrued[a] = Claimable(v, a),
              !.units[a] = n,
              !.rewardPerUnitPaid[a] = v.rewardPerUnitStored,
              !.totalEligibleUnits = @ - v.units[a] + n]

\* Mutant of SyncVault: the checkpoint is taken after the fold.
SyncCheckpointsLast(v, a, n) ==
    LET folded == Distribute(Settle(v, a, n))
    IN  [folded EXCEPT !.rewardPerUnitPaid[a] = folded.rewardPerUnitStored]

\* sync: the fold comes after the checkpoint, so a's new units share in it.
SyncVault(v, a, n) == Distribute(Settle(v, a, n))

\* notifyRewardClaim: with no eligible unit the amount waits undistributed.
NotifyVault(v, amount) ==
    Distribute([v EXCEPT !.totalRewardsNotified = @ + amount,
                         !.undistributedRewards = @ + amount])

\* Mutant of ClaimVault: the checkpoint is not moved.
ClaimKeepsCheckpoint(v, a) ==
    [v EXCEPT !.accrued[a] = 0, !.totalRewardsClaimed = @ + Claimable(v, a)]

\* claim
ClaimVault(v, a) ==
    [v EXCEPT !.accrued[a] = 0,
              !.rewardPerUnitPaid[a] = v.rewardPerUnitStored,
              !.totalRewardsClaimed = @ + Claimable(v, a)]

-----------------------------------------------------------------------------
(***************************************************************************)
(* Sums over the accounts, as cardinalities.  A slot is one eligible unit; *)
(* an atom is 1/ACC_PRECISION of a PIPEDOG wei that an account has earned: *)
(* one per slot and accumulator tick since the account was last settled,   *)
(* and ACC_PRECISION per wei already accrued.                              *)
(***************************************************************************)
SlotsOf(v, a) == {a} \X (1 .. v.units[a])
Slots(v) == UNION {SlotsOf(v, a) : a \in Accounts}

OwedTo(v, a) ==
    (SlotsOf(v, a) \X (v.rewardPerUnitPaid[a] + 1 .. v.rewardPerUnitStored))
        \cup ({<<a, 0>>} \X (1 .. v.accrued[a] * ACC_PRECISION))
Owed(v) == UNION {OwedTo(v, a) : a \in Accounts}

\* Atoms notified and distributed that no account has earned: rounding dust.
Dust(v) ==
    ACC_PRECISION * (Accounted(v) - v.undistributedRewards) - Cardinality(Owed(v))

\* What sync, notifyRewardClaim and claim each preserve; Balanced holds even
\* between sync's checkpoint and its fold.
Balanced(v) ==
    /\ v \in Vaults
    /\ \A a \in Accounts : v.rewardPerUnitPaid[a] <= v.rewardPerUnitStored
    /\ v.totalEligibleUnits = Cardinality(Slots(v))
    /\ Dust(v) >= 0
VaultInv(v) ==
    /\ Balanced(v)
    /\ v.undistributedRewards # 0 => v.totalEligibleUnits = 0
=============================================================================
