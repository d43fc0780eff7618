------------------------- MODULE PipeDogRewards_proofs -------------------------
(***************************************************************************)
(* Theorems about PipeDogRewards, from the vault lemmas.                   *)
(***************************************************************************)
EXTENDS PipeDogRewards, RewardAccounting_proofs

\* The inductive invariant: the vault's own bookkeeping, and claims enough to
\* cover what is notified and not claimed.
IInv ==
    /\ TypeOK
    /\ VaultInv(vault)
    /\ Accounted(vault) <= claimBalance

LEMMA NotifyAccounted ==
    ASSUME NEW v \in Vaults, NEW amount \in Nat
    PROVE  Accounted(NotifyVault(v, amount)) = Accounted(v) + amount
  BY DEF NotifyVault, Distribute, Accounted, Vaults

LEMMA SyncAccounted ==
    ASSUME NEW v \in Vaults, NEW a \in Accounts, NEW n \in Nat
    PROVE  Accounted(SyncVault(v, a, n)) = Accounted(v)
  <1> DEFINE w == Settle(v, a, n)
  <1>1. /\ w.totalRewardsNotified = v.totalRewardsNotified
        /\ w.totalRewardsClaimed = v.totalRewardsClaimed
    BY DEF Settle, Vaults
  <1>2. /\ Distribute(w).totalRewardsNotified = w.totalRewardsNotified
        /\ Distribute(w).totalRewardsClaimed = w.totalRewardsClaimed
    <2>1. \A x : x \in {w} => "totalRewardsNotified" \in DOMAIN x
                              /\ "totalRewardsClaimed" \in DOMAIN x
      BY DEF Settle, Vaults
    <2> HIDE DEF w
    <2> QED  BY <2>1 DEF Distribute
  <1> HIDE DEF w
  <1> QED  BY <1>1, <1>2 DEF SyncVault, Accounted, w

-----------------------------------------------------------------------------
\* What an account can claim grows with the accumulator and with nothing else.
LEMMA AccumulatorPays ==
    ASSUME NEW v \in Vaults, Settled(v), NEW w \in Vaults, Settled(w), NEW b \in Accounts,
           w.units[b] = v.units[b],
           w.rewardPerUnitPaid[b] = v.rewardPerUnitPaid[b],
           w.accrued[b] = v.accrued[b],
           w.rewardPerUnitStored >= v.rewardPerUnitStored
    PROVE  \/ Claimable(w, b) = Claimable(v, b)
           \/ /\ Claimable(w, b) > Claimable(v, b)
              /\ w.rewardPerUnitStored > v.rewardPerUnitStored
  <1> DEFINE u == v.units[b]
             x == u * (v.rewardPerUnitStored - v.rewardPerUnitPaid[b])
             y == u * (w.rewardPerUnitStored - v.rewardPerUnitPaid[b])
  <1>1. u \in Nat /\ v.accrued[b] \in Nat
        /\ v.rewardPerUnitStored - v.rewardPerUnitPaid[b] \in Nat
        /\ w.rewardPerUnitStored - v.rewardPerUnitPaid[b] \in Nat
        /\ v.rewardPerUnitStored \in Nat /\ w.rewardPerUnitStored \in Nat
    BY DEF Vaults, Settled
  <1>2. x \in Nat /\ y \in Nat
    BY <1>1, ProductNat
  <1>3. x <= y
    <2> DEFINE i == v.rewardPerUnitStored - v.rewardPerUnitPaid[b]
               d == w.rewardPerUnitStored - v.rewardPerUnitStored
    <2>1. i \in Nat /\ d \in Nat /\ w.rewardPerUnitStored - v.rewardPerUnitPaid[b] = i + d
      BY <1>1 DEF Vaults
    <2> HIDE DEF i, d, u
    <2>2. u * (i + d) = u * i + u * d /\ u * d \in Nat /\ u * i \in Nat
      BY <1>1, <2>1, ProductNat
    <2> QED  BY <2>1, <2>2 DEF i
  <1>4. Claimable(v, b) = v.accrued[b] + x \div ACC_PRECISION
        /\ Claimable(w, b) = v.accrued[b] + y \div ACC_PRECISION
    BY DEF Claimable, Earned
  <1> HIDE DEF x, y
  <1>5. x \div ACC_PRECISION <= y \div ACC_PRECISION
        /\ x \div ACC_PRECISION \in Nat /\ y \div ACC_PRECISION \in Nat
    <2>1. \A n \in Nat, d \in Nat \ {0} : n = d * (n \div d) + (n % d) /\ n % d \in 0 .. d - 1
                                          /\ n \div d \in Nat
      BY SMT
    <2> QED  BY <1>2, <1>3, <2>1, PrecisionAssumption
  <1>6. w.rewardPerUnitStored = v.rewardPerUnitStored => x = y
    BY DEF x, y
  <1> QED  BY <1>1, <1>4, <1>5, <1>6

LEMMA InitIInv == Init => IInv
  <1>1. EmptyVault \in Vaults
    BY EmptyInv DEF VaultInv, Balanced
  <1>2. Accounted(EmptyVault) = 0
    BY DEF EmptyVault, Accounted
  <1>3. VaultInv(EmptyVault) /\ Accounted(EmptyVault) <= 0 /\ 0 \in Nat
    BY <1>2, EmptyInv
  <1> SUFFICES ASSUME Init PROVE IInv
    OBVIOUS
  <1>4. vault = EmptyVault /\ notifierSet = FALSE /\ claimBalance = 0 /\ minted = 0
    BY DEF Init
  <1> QED  BY <1>1, <1>3, <1>4, Zenon DEF IInv, TypeOK

LEMMA NextIInv == IInv /\ [Next]_vars => IInv'
  <1> SUFFICES ASSUME IInv, [Next]_vars PROVE IInv'
    OBVIOUS
  <1> USE DEF IInv, TypeOK
  <1>0. vault \in Vaults /\ Accounted(vault) \in Int
    BY DEF Accounted, Vaults
  <1>1. CASE SetRewardNotifier
    BY <1>1 DEF SetRewardNotifier
  <1>2. ASSUME NEW amount \in 1 .. MaxMinted, CreditClaims(amount) PROVE IInv'
    BY <1>0, <1>2, BoundsAssumption DEF CreditClaims
  <1>3. ASSUME NEW amount \in 1 .. MaxMinted, NotifyRewardClaim(amount) PROVE IInv'
    <2>1. amount \in Nat
      BY <1>3, BoundsAssumption
    <2>2. VaultInv(vault')
      BY <1>3, <2>1, NotifyInv DEF NotifyRewardClaim
    <2>3. Accounted(vault') <= claimBalance'
      BY <1>0, <1>3, <2>1, NotifyAccounted DEF NotifyRewardClaim
    <2> QED  BY <1>3, <2>2, <2>3 DEF NotifyRewardClaim, VaultInv, Balanced
  <1>4. ASSUME NEW a \in Accounts, NEW n \in 0 .. MaxUnits, Sync(a, n) PROVE IInv'
    <2>1. n \in Nat
      BY <1>4, BoundsAssumption
    <2>2. VaultInv(vault')
      BY <1>4, <2>1, SyncInv DEF Sync
    <2>3. Accounted(vault') <= claimBalance'
      BY <1>0, <1>4, <2>1, SyncAccounted DEF Sync
    <2> QED  BY <1>4, <2>2, <2>3 DEF Sync, VaultInv, Balanced
  <1>5. ASSUME NEW a \in Accounts, Claim(a) PROVE IInv'
    <2>1. VaultInv(vault')
      BY <1>5, ClaimInv DEF Claim
    <2>2. Claimable(vault, a) \in Nat
      BY ClaimableBound
    <2>3. Accounted(vault') = Accounted(vault) - Claimable(vault, a)
      BY <1>0, <1>5, <2>2 DEF Claim, ClaimVault, Accounted, Vaults
    <2>4. claimBalance' \in Nat /\ Accounted(vault') <= claimBalance'
      BY <1>0, <1>5, <2>2, <2>3 DEF Claim
    <2> QED  BY <1>5, <2>1, <2>4 DEF Claim, VaultInv, Balanced
  <1>6. CASE UNCHANGED vars
    BY <1>6 DEF vars
  <1> QED  BY <1>1, <1>2, <1>3, <1>4, <1>5, <1>6 DEF Next

\* Every reachable state of the vault satisfies the inductive invariant.
THEOREM Inductive == Spec => []IInv
  BY InitIInv, NextIInv, PTL DEF Spec

\* The storage keeps its types: no counter of the contract ever underflows.
THEOREM TypeCorrect == Spec => []TypeOK
  <1>1. IInv => TypeOK
    BY DEF IInv
  <1> QED  BY <1>1, Inductive, PTL

\* PipeDogRewards never owes more than it holds, and every claim is covered,
\* whoever claims and in whatever order.
THEOREM Solvency == Spec => []Solvent
  <1>1. IInv => Solvent
    <2> SUFFICES ASSUME IInv PROVE Solvent
      OBVIOUS
    <2>1. Dust(vault) >= 0 /\ Accounted(vault) <= claimBalance
      BY DEF IInv, VaultInv, Balanced
    <2>2. ASSUME NEW a \in Accounts PROVE Claimable(vault, a) <= claimBalance
      <3>1. Claimable(vault, a) \in Nat
            /\ Claimable(vault, a) <= Accounted(vault) - vault.undistributedRewards
        BY ClaimableBound DEF IInv
      <3> QED  BY <3>1 DEF IInv, TypeOK, Accounted, Vaults
    <2> QED  BY <2>1, <2>2 DEF Solvent
  <1> QED  BY <1>1, Inductive, PTL

\* The running unit total is the sum of the accounts' units, and rewards wait
\* undistributed only while no unit is eligible.
THEOREM BooksCorrect == Spec => []BooksBalance
  <1>1. IInv => BooksBalance
    BY DEF IInv, BooksBalance, VaultInv, Balanced
  <1> QED  BY <1>1, Inductive, PTL

LEMMA SyncKeeps ==
    ASSUME NEW v, VaultInv(v), NEW a \in Accounts, NEW n \in Nat, NEW b \in Accounts
    PROVE  LET w == SyncVault(v, a, n)
           IN  \/ Claimable(w, b) = Claimable(v, b)
               \/ /\ Claimable(w, b) > Claimable(v, b)
                  /\ w.rewardPerUnitStored > v.rewardPerUnitStored
  <1> DEFINE m == Settle(v, a, n)
             w == Distribute(m)
  <1>0. v \in Vaults /\ Settled(v) /\ Balanced(v)
    BY DEF VaultInv, Balanced, Settled
  <1>1. Balanced(m) /\ m \in Vaults /\ Settled(m)
    BY <1>0, SettleBalanced DEF Balanced, Settled
  <1>2. Unpaid(v, m)
    BY <1>0, SettleUnpaid
  <1> HIDE DEF m
  <1>4. w \in Vaults /\ Settled(w)
    BY <1>1, DistributeInv DEF VaultInv, Balanced, Settled
  <1>5. w.units = m.units /\ w.accrued = m.accrued
        /\ w.rewardPerUnitPaid = m.rewardPerUnitPaid
        /\ w.rewardPerUnitStored >= m.rewardPerUnitStored
    BY <1>1, DistributeKeeps
  <1> HIDE DEF w
  <1>6. \/ Claimable(w, b) = Claimable(m, b)
        \/ /\ Claimable(w, b) > Claimable(m, b)
           /\ w.rewardPerUnitStored > m.rewardPerUnitStored
    BY <1>1, <1>4, <1>5, AccumulatorPays
  <1> QED  BY <1>2, <1>6 DEF SyncVault, Unpaid, w, m

LEMMA NotifyKeeps ==
    ASSUME NEW v, VaultInv(v), NEW amount \in Nat, NEW b \in Accounts
    PROVE  LET w == NotifyVault(v, amount)
           IN  \/ Claimable(w, b) = Claimable(v, b)
               \/ /\ Claimable(w, b) > Claimable(v, b)
                  /\ w.rewardPerUnitStored > v.rewardPerUnitStored
  <1> DEFINE m == [v EXCEPT !.totalRewardsNotified = @ + amount,
                            !.undistributedRewards = @ + amount]
             w == Distribute(m)
  <1>0. v \in Vaults /\ Settled(v)
    BY DEF VaultInv, Balanced, Settled
  <1>1. m.units = v.units /\ m.accrued = v.accrued
        /\ m.rewardPerUnitPaid = v.rewardPerUnitPaid
        /\ m.rewardPerUnitStored = v.rewardPerUnitStored
    BY <1>0 DEF Vaults
  <1>2. Balanced(m)
    BY NotifyBalanced
  <1> HIDE DEF m
  <1>3. w \in Vaults /\ Settled(w)
    BY <1>2, DistributeInv DEF VaultInv, Balanced, Settled
  <1>4. w.units = m.units /\ w.accrued = m.accrued
        /\ w.rewardPerUnitPaid = m.rewardPerUnitPaid
        /\ w.rewardPerUnitStored >= m.rewardPerUnitStored
    BY <1>2, DistributeKeeps
  <1> HIDE DEF w
  <1>5. \/ Claimable(w, b) = Claimable(v, b)
        \/ /\ Claimable(w, b) > Claimable(v, b)
           /\ w.rewardPerUnitStored > v.rewardPerUnitStored
    BY <1>0, <1>1, <1>3, <1>4, AccumulatorPays
  <1> QED  BY <1>5 DEF NotifyVault, w, m

\* The body of EarningsKept, for one account.
Kept(b) ==
    LET was == Claimable(vault, b)
        now == Claimable(vault', b)
    IN  \/ now = was
        \/ /\ now = 0
           /\ vault'.totalRewardsClaimed = vault.totalRewardsClaimed + was
        \/ /\ now > was
           /\ vault'.rewardPerUnitStored > vault.rewardPerUnitStored

LEMMA StepKeeps == IInv /\ [Next]_vars => \A b \in Accounts : Kept(b)
  <1> SUFFICES ASSUME IInv, [Next]_vars, NEW b \in Accounts PROVE Kept(b)
    OBVIOUS
  <1>0. vault \in Vaults /\ VaultInv(vault) /\ Settled(vault)
    BY DEF IInv, VaultInv, Balanced, Settled
  <1>1. CASE UNCHANGED vault
    BY <1>1 DEF Kept
  <1>2. ASSUME NEW amount \in 1 .. MaxMinted, NotifyRewardClaim(amount) PROVE Kept(b)
    <2>1. amount \in Nat
      BY BoundsAssumption
    <2> QED  BY <1>0, <1>2, <2>1, NotifyKeeps DEF NotifyRewardClaim, Kept
  <1>3. ASSUME NEW a \in Accounts, NEW n \in 0 .. MaxUnits, Sync(a, n) PROVE Kept(b)
    <2>1. n \in Nat
      BY BoundsAssumption
    <2> QED  BY <1>0, <1>3, <2>1, SyncKeeps DEF Sync, Kept
  <1>4. ASSUME NEW a \in Accounts, Claim(a) PROVE Kept(b)
    <2> DEFINE w == ClaimVault(vault, a)
    <2>1. /\ w.units = vault.units
          /\ w.rewardPerUnitPaid = [vault.rewardPerUnitPaid EXCEPT ![a] = vault.rewardPerUnitStored]
          /\ w.accrued = [vault.accrued EXCEPT ![a] = 0]
          /\ w.rewardPerUnitStored = vault.rewardPerUnitStored
          /\ w.totalRewardsClaimed = vault.totalRewardsClaimed + Claimable(vault, a)
      BY <1>0 DEF ClaimVault, Vaults
    <2>2. vault' = w
      BY <1>4 DEF Claim
    <2> HIDE DEF w
    <2>3. CASE b = a
      <3>1. w.units[b] \in Nat /\ w.accrued[b] = 0
            /\ w.rewardPerUnitStored - w.rewardPerUnitPaid[b] = 0
        BY <1>0, <2>1, <2>3 DEF Vaults
      <3>2. Claimable(w, b) = 0
        BY <3>1, PrecisionAssumption DEF Claimable, Earned
      <3> QED  BY <2>1, <2>2, <2>3, <3>2 DEF Kept
    <2>4. CASE b # a
      <3>1. w.units[b] = vault.units[b] /\ w.accrued[b] = vault.accrued[b]
            /\ w.rewardPerUnitPaid[b] = vault.rewardPerUnitPaid[b]
        BY <1>0, <2>1, <2>4 DEF Vaults
      <3> QED  BY <2>1, <2>2, <3>1 DEF Kept, Claimable, Earned
    <2> QED  BY <2>3, <2>4
  <1> QED
    BY <1>1, <1>2, <1>3, <1>4 DEF Next, SetRewardNotifier, CreditClaims, vars

\* Nobody's claimable falls but by their own claim, and none grows without the
\* accumulator: no retroactive earnings, no earnings lost to a sync.
THEOREM NoRetroactiveEarnings == Spec => EarningsKept
  <1>1. IInv /\ [Next]_vars =>
          [\A a \in Accounts :
              LET was == Claimable(vault, a)
                  now == Claimable(vault', a)
              IN  \/ now = was
                  \/ /\ now = 0
                     /\ vault'.totalRewardsClaimed = vault.totalRewardsClaimed + was
                  \/ /\ now > was
                     /\ vault'.rewardPerUnitStored > vault.rewardPerUnitStored]_vars
    BY StepKeeps DEF Kept
  <1> QED  BY <1>1, Inductive, PTL DEF Spec, EarningsKept

LEMMA SyncDust ==
    ASSUME NEW v, VaultInv(v), NEW a \in Accounts, NEW n \in Nat
    PROVE  LET w == SyncVault(v, a, n)
           IN  Dust(w) < Dust(v) + ACC_PRECISION + w.totalEligibleUnits
  <1> DEFINE m == Settle(v, a, n)
             w == Distribute(m)
  <1>0. v \in Vaults /\ Settled(v) /\ Balanced(v)
    BY DEF VaultInv, Balanced, Settled
  <1>1. Balanced(m) /\ Dust(m) < Dust(v) + ACC_PRECISION
    BY <1>0, SettleBalanced
  <1> HIDE DEF m
  <1>2. /\ VaultInv(w) /\ Dust(w) <= Dust(m) + m.totalEligibleUnits
        /\ w.totalEligibleUnits = m.totalEligibleUnits
    BY <1>1, DistributeInv, DistributeKeeps
  <1> HIDE DEF w
  <1>3. Dust(v) \in Int /\ Dust(m) \in Int /\ Dust(w) \in Int /\ m.totalEligibleUnits \in Nat
    BY <1>0, <1>1, <1>2, DustInt DEF VaultInv, Balanced, Settled, Vaults
  <1>4. Dust(w) < Dust(v) + ACC_PRECISION + w.totalEligibleUnits
    BY <1>1, <1>2, <1>3, PrecisionAssumption
  <1> QED  BY <1>4 DEF SyncVault, w, m

LEMMA NotifyDust ==
    ASSUME NEW v, VaultInv(v), NEW amount \in Nat
    PROVE  LET w == NotifyVault(v, amount)
           IN  Dust(w) < Dust(v) + ACC_PRECISION + w.totalEligibleUnits
  <1> DEFINE m == [v EXCEPT !.totalRewardsNotified = @ + amount,
                            !.undistributedRewards = @ + amount]
             w == Distribute(m)
  <1>1. Balanced(m) /\ Dust(m) = Dust(v)
    BY NotifyBalanced
  <1> HIDE DEF m
  <1>2. /\ VaultInv(w) /\ Dust(w) <= Dust(m) + m.totalEligibleUnits
        /\ w.totalEligibleUnits = m.totalEligibleUnits
    BY <1>1, DistributeInv, DistributeKeeps
  <1> HIDE DEF w
  <1>3. Dust(m) \in Int /\ Dust(w) \in Int /\ m.totalEligibleUnits \in Nat
    BY <1>1, <1>2, DustInt DEF VaultInv, Balanced, Settled, Vaults
  <1>4. Dust(w) < Dust(v) + ACC_PRECISION + w.totalEligibleUnits
    BY <1>1, <1>2, <1>3, PrecisionAssumption
  <1> QED  BY <1>4 DEF NotifyVault, w, m

LEMMA ClaimDust ==
    ASSUME NEW v, VaultInv(v), NEW a \in Accounts
    PROVE  LET w == ClaimVault(v, a)
           IN  Dust(w) < Dust(v) + ACC_PRECISION + w.totalEligibleUnits
  <1> DEFINE w == ClaimVault(v, a)
  <1>1. VaultInv(w) /\ Dust(w) < Dust(v) + ACC_PRECISION
    BY ClaimInv
  <1> HIDE DEF w
  <1>2. Dust(v) \in Int /\ Dust(w) \in Int /\ w.totalEligibleUnits \in Nat
    BY <1>1, DustInt DEF VaultInv, Balanced, Settled, Vaults
  <1>3. Dust(w) < Dust(v) + ACC_PRECISION + w.totalEligibleUnits
    BY <1>1, <1>2, PrecisionAssumption
  <1> QED  BY <1>3 DEF w

LEMMA StepDust ==
    IInv /\ [Next]_vars =>
        (Dust(vault') < Dust(vault) + ACC_PRECISION + vault'.totalEligibleUnits)
  <1> SUFFICES ASSUME IInv, [Next]_vars
               PROVE  Dust(vault') < Dust(vault) + ACC_PRECISION + vault'.totalEligibleUnits
    OBVIOUS
  <1>0. VaultInv(vault)
    BY DEF IInv
  <1>1. CASE UNCHANGED vault
    <2>1. Dust(vault) \in Int /\ vault.totalEligibleUnits \in Nat
      BY <1>0, DustInt DEF VaultInv, Balanced, Settled, Vaults
    <2>2. Dust(vault') = Dust(vault) /\ vault'.totalEligibleUnits = vault.totalEligibleUnits
      BY <1>1
    <2> QED  BY <2>1, <2>2, PrecisionAssumption
  <1>2. ASSUME NEW amount \in 1 .. MaxMinted, NotifyRewardClaim(amount)
        PROVE  Dust(vault') < Dust(vault) + ACC_PRECISION + vault'.totalEligibleUnits
    <2>1. amount \in Nat /\ vault' = NotifyVault(vault, amount)
      BY <1>2, BoundsAssumption DEF NotifyRewardClaim
    <2> QED  BY <1>0, <2>1, NotifyDust
  <1>3. ASSUME NEW a \in Accounts, NEW n \in 0 .. MaxUnits, Sync(a, n)
        PROVE  Dust(vault') < Dust(vault) + ACC_PRECISION + vault'.totalEligibleUnits
    <2>1. n \in Nat /\ vault' = SyncVault(vault, a, n)
      BY <1>3, BoundsAssumption DEF Sync
    <2> QED  BY <1>0, <2>1, SyncDust
  <1>4. ASSUME NEW a \in Accounts, Claim(a)
        PROVE  Dust(vault') < Dust(vault) + ACC_PRECISION + vault'.totalEligibleUnits
    BY <1>0, <1>4, ClaimDust DEF Claim
  <1> QED
    BY <1>1, <1>2, <1>3, <1>4 DEF Next, SetRewardNotifier, CreditClaims, vars

\* The vault rounds only down, and by little: a transaction strands less than one
\* wei for the account it settles and one atom per eligible unit.
THEOREM RoundingIsBounded == Spec => OnlyDustIsLost
  <1>1. IInv /\ [Next]_vars =>
          [Dust(vault') < Dust(vault) + ACC_PRECISION + vault'.totalEligibleUnits]_vars
    BY StepDust
  <1> QED  BY <1>1, Inductive, PTL DEF Spec, OnlyDustIsLost
=============================================================================
