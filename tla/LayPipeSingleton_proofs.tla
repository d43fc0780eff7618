------------------------ MODULE LayPipeSingleton_proofs ------------------------
(***************************************************************************)
(* The books of the single-coin deployment, for every set of accounts,     *)
(* supply, unit and amount of fees.  A transfer is a sync, a move and a    *)
(* sync (Transferred); what holds of a ledger between two of them is       *)
(* LedgerInv, and inside one of them the weaker Kept, in which the units   *)
(* the vault weighs may lag behind the balances.  Payments are followed    *)
(* with Quiet, a sync that distributes nothing, and Pays, whose units a    *)
(* step that distributes pays for.                                         *)
(***************************************************************************)
EXTENDS LayPipeSingleton, RewardAccounting_proofs

\* Excluded accounts have earned nothing.
Unrewarded(l, a) == l.vault.units[a] = 0 /\ l.vault.accrued[a] = 0

Kept(l) ==
    /\ l \in Ledgers
    /\ VaultInv(l.vault)
    /\ \A a \in Accounts : l.skipNFT[a] <=> a \in l.excluded
    /\ \A a \in l.excluded : Unrewarded(l, a)

Matched(l) == \A a \in Accounts : /\ l.vault.units[a] = EligibleUnits(l, a)
                                  /\ l.nfts[a] = EligibleUnits(l, a)

LedgerInv(l) == Kept(l) /\ Matched(l)

-----------------------------------------------------------------------------
(* Whole units.                                                              *)

LEMMA WholeFacts ==
    ASSUME NEW m \in Nat
    PROVE  /\ m \div NFT_UNIT \in Nat
           /\ (m \div NFT_UNIT) * NFT_UNIT <= m
           /\ m < (m \div NFT_UNIT) * NFT_UNIT + NFT_UNIT
  <1>1. NFT_UNIT \in Nat \ {0}
    BY UnitAssumption
  <1>2. m \div NFT_UNIT \in Nat /\ m = NFT_UNIT * (m \div NFT_UNIT) + (m % NFT_UNIT)
        /\ m % NFT_UNIT \in 0 .. NFT_UNIT - 1
    BY <1>1, SMT
  <1> QED  BY <1>1, <1>2, SMT

\* A quotient is known by its bounds.
LEMMA WholeIs ==
    ASSUME NEW m \in Nat, NEW k \in Nat, k * NFT_UNIT <= m, m < k * NFT_UNIT + NFT_UNIT
    PROVE  m \div NFT_UNIT = k
  <1> DEFINE q == m \div NFT_UNIT
  <1>1. NFT_UNIT \in Nat \ {0}
    BY UnitAssumption
  <1>2. q \in Nat /\ q * NFT_UNIT <= m /\ m < q * NFT_UNIT + NFT_UNIT
    BY WholeFacts
  <1> HIDE DEF q
  <1>3. ASSUME NEW x \in Nat, NEW y \in Nat, x < y
        PROVE  x * NFT_UNIT + NFT_UNIT <= y * NFT_UNIT
    <2>1. y = x + 1 + (y - x - 1) /\ y - x - 1 \in Nat
      BY <1>3
    <2>2. (y - x - 1) * NFT_UNIT >= 0
      BY <1>1, <2>1, SMT
    <2> QED  BY <1>1, <2>1, <2>2, SMT
  <1>4. q * NFT_UNIT \in Nat /\ k * NFT_UNIT \in Nat
    BY <1>1, <1>2, SMT
  <1>5. ~(q < k)
    BY <1>1, <1>2, <1>3, <1>4
  <1>6. ~(k < q)
    BY <1>1, <1>2, <1>3, <1>4
  <1>7. q = k
    BY <1>2, <1>5, <1>6
  <1> QED  BY <1>7 DEF q

LEMMA WholeGrows ==
    ASSUME NEW m \in Nat, NEW n \in Nat, m <= n
    PROVE  m \div NFT_UNIT <= n \div NFT_UNIT
  <1> DEFINE q == m \div NFT_UNIT
             r == n \div NFT_UNIT
  <1>1. NFT_UNIT \in Nat \ {0}
    BY UnitAssumption
  <1>2. /\ q \in Nat /\ q * NFT_UNIT <= m
        /\ r \in Nat /\ n < r * NFT_UNIT + NFT_UNIT
    BY WholeFacts
  <1> HIDE DEF q, r
  <1>3. ASSUME r < q PROVE FALSE
    <2>1. q = r + 1 + (q - r - 1) /\ q - r - 1 \in Nat
      BY <1>2, <1>3
    <2>2. (q - r - 1) * NFT_UNIT >= 0
      BY <1>1, <2>1, SMT
    <2>3. q * NFT_UNIT = r * NFT_UNIT + NFT_UNIT + (q - r - 1) * NFT_UNIT
      BY <1>1, <1>2, <2>1, SMT
    <2>4. r * NFT_UNIT \in Nat /\ q * NFT_UNIT \in Nat /\ (q - r - 1) * NFT_UNIT \in Nat
      BY <1>1, <1>2, <2>1, SMT
    <2> QED  BY <1>1, <1>2, <2>2, <2>3, <2>4
  <1> QED  BY <1>2, <1>3 DEF q, r

\* One unit more or less of balance is one whole unit more or less.
LEMMA WholeUnitMoves ==
    ASSUME NEW m \in Nat
    PROVE  /\ (m + NFT_UNIT) \div NFT_UNIT = m \div NFT_UNIT + 1
           /\ m \div NFT_UNIT >= 1 => /\ m - NFT_UNIT \in Nat
                                      /\ (m - NFT_UNIT) \div NFT_UNIT = m \div NFT_UNIT - 1
  <1> DEFINE q == m \div NFT_UNIT
  <1>1. NFT_UNIT \in Nat \ {0}
    BY UnitAssumption
  <1>2. q \in Nat /\ q * NFT_UNIT <= m /\ m < q * NFT_UNIT + NFT_UNIT
    BY WholeFacts
  <1> HIDE DEF q
  <1>3. (m + NFT_UNIT) \div NFT_UNIT = q + 1
    <2>1. (q + 1) * NFT_UNIT = q * NFT_UNIT + NFT_UNIT /\ q * NFT_UNIT \in Nat
      BY <1>1, <1>2, SMT
    <2>2. m + NFT_UNIT \in Nat /\ q + 1 \in Nat
      BY <1>1, <1>2
    <2>3. (q + 1) * NFT_UNIT <= m + NFT_UNIT
          /\ m + NFT_UNIT < (q + 1) * NFT_UNIT + NFT_UNIT
      BY <1>1, <1>2, <2>1
    <2> QED  BY <2>2, <2>3, WholeIs
  <1>4. ASSUME q >= 1
        PROVE  m - NFT_UNIT \in Nat /\ (m - NFT_UNIT) \div NFT_UNIT = q - 1
    <2>1. (q - 1) * NFT_UNIT = q * NFT_UNIT - NFT_UNIT /\ q * NFT_UNIT \in Nat
          /\ (q - 1) * NFT_UNIT \in Nat
      BY <1>1, <1>2, <1>4, SMT
    <2>2. m - NFT_UNIT \in Nat /\ q - 1 \in Nat
      BY <1>1, <1>2, <1>4, <2>1
    <2>3. (q - 1) * NFT_UNIT <= m - NFT_UNIT
          /\ m - NFT_UNIT < (q - 1) * NFT_UNIT + NFT_UNIT
      BY <1>1, <1>2, <2>1
    <2> QED  BY <2>2, <2>3, WholeIs
  <1> QED  BY <1>3, <1>4 DEF q

LEMMA WholeMonotone ==
    ASSUME NEW m \in Nat, NEW n \in Nat, m <= n
    PROVE  m \div NFT_UNIT <= n \div NFT_UNIT
  <1> DEFINE q == m \div NFT_UNIT
             r == n \div NFT_UNIT
  <1>1. /\ NFT_UNIT \in Nat \ {0} /\ q \in Nat /\ r \in Nat
        /\ q * NFT_UNIT <= m /\ n < r * NFT_UNIT + NFT_UNIT
    BY UnitAssumption, WholeFacts
  <1> HIDE DEF q, r
  <1>2. ASSUME r < q PROVE FALSE
    <2> DEFINE d == q - r - 1
    <2>1. d \in Nat /\ q = r + 1 + d
      BY <1>1, <1>2
    <2> HIDE DEF d
    <2>2. d * NFT_UNIT \in Nat /\ r * NFT_UNIT \in Nat
      BY <1>1, <2>1, ProductNat
    <2>3. (r + 1 + d) * NFT_UNIT = r * NFT_UNIT + NFT_UNIT + d * NFT_UNIT
      BY <1>1, <2>1, SMT
    <2> QED  BY <1>1, <2>1, <2>2, <2>3
  <1>3. q <= r
    BY <1>1, <1>2
  <1> QED  BY <1>3 DEF q, r

LEMMA EligibleNat ==
    ASSUME NEW l, Kept(l), NEW a \in Accounts
    PROVE  WholeUnits(l, a) \in Nat /\ EligibleUnits(l, a) \in Nat
  BY WholeFacts DEF Kept, Ledgers, WholeUnits, EligibleUnits

-----------------------------------------------------------------------------
(* What a step of the vault leaves of units, credits and books.              *)

LEMMA VaultFields ==
    ASSUME NEW v, VaultInv(v)
    PROVE  /\ v \in Vaults /\ v.units \in [Accounts -> Nat] /\ v.accrued \in [Accounts -> Nat]
           /\ \A a \in Accounts : Claimable(v, a) \in Nat
           /\ \A a \in Accounts : v.units[a] = 0 => Claimable(v, a) = v.accrued[a]
  <1>1. v \in Vaults /\ v.units \in [Accounts -> Nat] /\ v.accrued \in [Accounts -> Nat]
    BY DEF VaultInv, Balanced, Vaults
  <1>2. \A a \in Accounts : Claimable(v, a) \in Nat
    BY ClaimableBound
  <1>3. ASSUME NEW a \in Accounts, v.units[a] = 0 PROVE Claimable(v, a) = v.accrued[a]
    <2>1. v.rewardPerUnitStored - v.rewardPerUnitPaid[a] \in Int /\ v.accrued[a] \in Nat
      BY <1>1 DEF Vaults
    <2>2. 0 * (v.rewardPerUnitStored - v.rewardPerUnitPaid[a]) = 0
      BY <2>1, SMT
    <2>3. 0 \div ACC_PRECISION = 0
      BY PrecisionAssumption, SMT
    <2> QED  BY <1>3, <2>1, <2>2, <2>3 DEF Claimable, Earned
  <1> QED  BY <1>1, <1>2, <1>3

LEMMA DistributeFields ==
    ASSUME NEW v \in Vaults
    PROVE  /\ Distribute(v).units = v.units /\ Distribute(v).accrued = v.accrued
           /\ Accounted(Distribute(v)) = Accounted(v)
  <1>1. CASE v.totalEligibleUnits = 0 \/ v.undistributedRewards = 0
    BY <1>1 DEF Distribute
  <1>2. CASE ~(v.totalEligibleUnits = 0 \/ v.undistributedRewards = 0)
    BY <1>2 DEF Distribute, Vaults, Accounted
  <1> QED  BY <1>1, <1>2

LEMMA SyncFields ==
    ASSUME NEW v, VaultInv(v), NEW a \in Accounts, NEW n \in Nat
    PROVE  LET w == SyncVault(v, a, n)
           IN  /\ VaultInv(w)
               /\ w.units = [v.units EXCEPT ![a] = n]
               /\ w.accrued = [v.accrued EXCEPT ![a] = Claimable(v, a)]
               /\ Accounted(w) = Accounted(v)
  <1> DEFINE s == Settle(v, a, n)
  <1>1. Balanced(v) /\ v \in Vaults
    BY DEF VaultInv, Balanced
  <1>2. s \in Vaults
    BY <1>1, SettleBalanced DEF Balanced
  <1>3. /\ s.units = [v.units EXCEPT ![a] = n]
        /\ s.accrued = [v.accrued EXCEPT ![a] = Claimable(v, a)]
        /\ Accounted(s) = Accounted(v)
    BY <1>1 DEF Settle, Vaults, Accounted
  <1> HIDE DEF s
  <1>4. /\ Distribute(s).units = s.units /\ Distribute(s).accrued = s.accrued
        /\ Accounted(Distribute(s)) = Accounted(s)
    BY <1>2, DistributeFields
  <1>5. SyncVault(v, a, n) = Distribute(s)
    BY DEF SyncVault, s
  <1> QED  BY <1>3, <1>4, <1>5, SyncInv

LEMMA NotifyFields ==
    ASSUME NEW v, VaultInv(v), NEW amount \in Nat
    PROVE  LET w == NotifyVault(v, amount)
           IN  /\ VaultInv(w) /\ w.units = v.units /\ w.accrued = v.accrued
               /\ Accounted(w) = Accounted(v) + amount
  <1> DEFINE s == [v EXCEPT !.totalRewardsNotified = @ + amount,
                            !.undistributedRewards = @ + amount]
  <1>1. v \in Vaults
    BY DEF VaultInv, Balanced
  <1>2. s \in Vaults
    BY NotifyBalanced DEF Balanced
  <1>3. s.units = v.units /\ s.accrued = v.accrued /\ Accounted(s) = Accounted(v) + amount
    BY <1>1 DEF Vaults, Accounted
  <1> HIDE DEF s
  <1>4. /\ Distribute(s).units = s.units /\ Distribute(s).accrued = s.accrued
        /\ Accounted(Distribute(s)) = Accounted(s)
    BY <1>2, DistributeFields
  <1>5. NotifyVault(v, amount) = Distribute(s)
    BY DEF NotifyVault, s
  <1> QED  BY <1>3, <1>4, <1>5, NotifyInv

-----------------------------------------------------------------------------
(* One transfer.                                                             *)

\* Everything but the vault is the same.
SameBooks(l, m) ==
    m.balances = l.balances /\ m.nfts = l.nfts /\ m.skipNFT = l.skipNFT /\ m.excluded = l.excluded

LEMMA SameUnits ==
    ASSUME NEW l, NEW m, SameBooks(l, m)
    PROVE  \A x : WholeUnits(m, x) = WholeUnits(l, x) /\ EligibleUnits(m, x) = EligibleUnits(l, x)
  BY DEF SameBooks, WholeUnits, EligibleUnits

LEMMA SyncRewardFacts ==
    ASSUME NEW l, Kept(l), NEW a \in Accounts, NEW m, m = SyncReward(l, a)
    PROVE  /\ Kept(m) /\ SameBooks(l, m) /\ Accounted(m.vault) = Accounted(l.vault)
           /\ m.vault.units = [l.vault.units EXCEPT ![a] = EligibleUnits(l, a)]
  <1> DEFINE n == EligibleUnits(l, a)
             w == SyncVault(l.vault, a, n)
  <1>1. n \in Nat
    BY EligibleNat
  <1>2. l \in Ledgers /\ VaultInv(l.vault)
    BY DEF Kept
  <1> HIDE DEF n
  <1>3. /\ VaultInv(w)
        /\ w.units = [l.vault.units EXCEPT ![a] = n]
        /\ w.accrued = [l.vault.accrued EXCEPT ![a] = Claimable(l.vault, a)]
        /\ Accounted(w) = Accounted(l.vault)
    BY <1>1, <1>2, SyncFields
  <1>4. m = [l EXCEPT !.vault = w]
    BY <1>2 DEF SyncReward, n, Ledgers
  <1> HIDE DEF w
  <1>5. m.vault = w /\ SameBooks(l, m) /\ m \in Ledgers
    <2>1. w \in Vaults
      BY <1>3, VaultFields
    <2> QED  BY <1>2, <1>4, <2>1 DEF Ledgers, SameBooks
  <1>6. l.vault.units \in [Accounts -> Nat] /\ l.vault.accrued \in [Accounts -> Nat]
    BY <1>2, VaultFields
  <1>7. ASSUME NEW b \in m.excluded PROVE Unrewarded(m, b)
    <2>1. b \in l.excluded /\ b \in Accounts /\ Unrewarded(l, b)
      BY <1>2, <1>5, <1>7 DEF SameBooks, Ledgers, Kept
    <2>2. CASE b = a
      <3>1. n = 0
        BY <2>1, <2>2 DEF n, EligibleUnits
      <3>2. Claimable(l.vault, a) = 0
        BY <1>2, <2>1, <2>2, VaultFields DEF Unrewarded
      <3> QED  BY <1>3, <1>5, <1>6, <2>2, <3>1, <3>2 DEF Unrewarded
    <2>3. CASE b # a
      BY <1>3, <1>5, <1>6, <2>1, <2>3 DEF Unrewarded
    <2> QED  BY <2>2, <2>3
  <1>8. Kept(m)
    BY <1>3, <1>5, <1>7 DEF Kept, SameBooks
  <1> QED  BY <1>3, <1>5, <1>8 DEF n

Synced(l, from, to, m) ==
    /\ Kept(m) /\ SameBooks(l, m) /\ Accounted(m.vault) = Accounted(l.vault)
    /\ m.vault.units[from] = EligibleUnits(l, from)
    /\ m.vault.units[to] = EligibleUnits(l, to)
    /\ \A x \in Accounts : x # from /\ x # to => m.vault.units[x] = l.vault.units[x]

LEMMA SyncBothFacts ==
    ASSUME NEW l, Kept(l), NEW from \in Accounts, NEW to \in Accounts,
           NEW m, m = SyncBoth(l, from, to)
    PROVE  Synced(l, from, to, m)
  <1> DEFINE h == SyncReward(l, from)
             k == SyncReward(h, to)
  <1>1. /\ Kept(h) /\ SameBooks(l, h) /\ Accounted(h.vault) = Accounted(l.vault)
        /\ h.vault.units = [l.vault.units EXCEPT ![from] = EligibleUnits(l, from)]
    BY SyncRewardFacts
  <1>2. l.vault.units \in [Accounts -> Nat]
    BY VaultFields DEF Kept
  <1> HIDE DEF h
  <1>3. CASE to = from
    <2>1. m = h
      BY <1>3 DEF SyncBoth, h
    <2> QED  BY <1>1, <1>2, <1>3, <2>1 DEF Synced
  <1>4. CASE to # from
    <2>1. m = k
      BY <1>4 DEF SyncBoth, h
    <2>2. /\ Kept(k) /\ SameBooks(h, k) /\ Accounted(k.vault) = Accounted(h.vault)
          /\ k.vault.units = [h.vault.units EXCEPT ![to] = EligibleUnits(h, to)]
      BY <1>1, SyncRewardFacts
    <2> HIDE DEF k
    <2>3. EligibleUnits(h, to) = EligibleUnits(l, to)
      BY <1>1, SameUnits
    <2>4. SameBooks(l, k) /\ Accounted(k.vault) = Accounted(l.vault)
      BY <1>1, <2>2 DEF SameBooks
    <2> QED  BY <1>1, <1>2, <1>4, <2>1, <2>2, <2>3, <2>4 DEF Synced
  <1> QED  BY <1>3, <1>4

\* The balances after an amount has moved.
Paid(balances, from, to, amount) ==
    LET paid == [balances EXCEPT ![from] = @ - amount]
    IN  [paid EXCEPT ![to] = @ + amount]

LEMMA PaidFacts ==
    ASSUME NEW balances \in [Accounts -> Nat], NEW from \in Accounts, NEW to \in Accounts,
           NEW amount \in Nat, amount <= balances[from]
    PROVE  LET p == Paid(balances, from, to, amount)
           IN  /\ p \in [Accounts -> Nat] /\ Together(p) = Together(balances)
               /\ \A x \in Accounts \ {from, to} : p[x] = balances[x]
               /\ from = to => p = balances
               /\ from # to => p[from] = balances[from] - amount /\ p[to] = balances[to] + amount
  <1> DEFINE half == [balances EXCEPT ![from] = @ - amount]
             p == Paid(balances, from, to, amount)
  <1>1. /\ balances[from] \in Nat /\ half \in [Accounts -> Nat]
        /\ half[from] = balances[from] - amount
        /\ \A x \in Accounts \ {from} : half[x] = balances[x]
    OBVIOUS
  <1>2. p = [half EXCEPT ![to] = half[to] + amount]
    BY DEF Paid
  <1> HIDE DEF half, p
  <1>3. /\ p \in [Accounts -> Nat] /\ p[to] = half[to] + amount
        /\ \A x \in Accounts \ {to} : p[x] = half[x]
    BY <1>1, <1>2
  <1>4. Together(p) = Together(balances)
    <2>1. balances[from] \in Nat /\ half[from] = balances[from] - amount
      BY <1>1
    <2>2. \A x \in Accounts \ {from} : half[x] = balances[x]
      BY <1>1
    <2>3. p[to] = half[to] + amount
      BY <1>3
    <2>4. \A x \in Accounts \ {to} : p[x] = half[x]
      BY <1>3
    <2>5. half \in [Accounts -> Nat] /\ p \in [Accounts -> Nat]
      BY <1>1, <1>3
    <2>6. Together(half) = Together(balances) - balances[from] + half[from]
      BY <2>2, <2>5, AccountsAssumption, TogetherChanged
    <2>7. Together(p) = Together(half) - half[to] + p[to]
      BY <2>4, <2>5, AccountsAssumption, TogetherChanged
    <2>8. /\ Together(balances) \in Nat /\ Together(half) \in Nat
          /\ half[from] \in Nat /\ half[to] \in Nat
      BY <2>5, AccountsAssumption, TogetherNat
    <2> QED  BY <2>1, <2>3, <2>6, <2>7, <2>8
  <1>5. from = to => p = balances
    <2> SUFFICES ASSUME from = to PROVE p = balances
      OBVIOUS
    <2>1. p[from] = balances[from]
      BY <1>1, <1>3
    <2>2. \A x \in Accounts : p[x] = balances[x]
      BY <1>1, <1>3, <2>1
    <2> QED  BY <1>3, <2>2
  <1> QED  BY <1>1, <1>3, <1>4, <1>5 DEF p

LEMMA MovedFacts ==
    ASSUME NEW l, LedgerInv(l), NEW from \in Accounts, NEW to \in Accounts,
           NEW amount \in Nat, amount <= l.balances[from], NEW m, m = Moved(l, from, to, amount)
    PROVE  /\ Kept(m) /\ m.vault = l.vault /\ m.excluded = l.excluded
           /\ m.balances = Paid(l.balances, from, to, amount)
           /\ \A x \in Accounts : m.nfts[x] = EligibleUnits(m, x)
  <1> DEFINE p == Paid(l.balances, from, to, amount)
             done == [l EXCEPT !.balances = p]
             burnt == [l.nfts EXCEPT ![from] = Lesser(@, WholeUnits(done, from))]
             shown == IF l.skipNFT[to] THEN burnt
                      ELSE [burnt EXCEPT ![to] = Greater(@, WholeUnits(done, to))]
  <1>1. /\ l \in Ledgers /\ l.balances \in [Accounts -> Nat] /\ l.nfts \in [Accounts -> Nat]
        /\ l.skipNFT[to] <=> to \in l.excluded
        /\ \A x \in Accounts : l.nfts[x] = EligibleUnits(l, x)
    BY DEF LedgerInv, Kept, Matched, Ledgers
  <1>2. /\ p \in [Accounts -> Nat]
        /\ \A x \in Accounts \ {from, to} : p[x] = l.balances[x]
        /\ from = to => p = l.balances
        /\ from # to => p[from] = l.balances[from] - amount /\ p[to] = l.balances[to] + amount
    BY <1>1, PaidFacts
  <1>3. m = [done EXCEPT !.nfts = shown]
    <2>1. done = [[l EXCEPT !.balances[from] = @ - amount] EXCEPT !.balances[to] = @ + amount]
      BY <1>1 DEF Paid, Ledgers
    <2>2. done.nfts = l.nfts /\ done.skipNFT = l.skipNFT
      BY <1>1 DEF Ledgers
    <2>3. MirrorNFTs(done, from, to) = shown
      BY <2>2 DEF MirrorNFTs
    <2> HIDE DEF done, shown
    <2> QED  BY <2>1, <2>3 DEF Moved
  <1>4. /\ m.balances = p /\ m.nfts = shown /\ m.skipNFT = l.skipNFT
        /\ m.excluded = l.excluded /\ m.vault = l.vault
    BY <1>1, <1>3 DEF Ledgers
  <1>5. \A x \in Accounts : /\ WholeUnits(done, x) = p[x] \div NFT_UNIT
                            /\ WholeUnits(done, x) \in Nat
                            /\ EligibleUnits(m, x) = IF x \in l.excluded THEN 0
                                                     ELSE p[x] \div NFT_UNIT
                            /\ EligibleUnits(l, x) = IF x \in l.excluded THEN 0
                                                     ELSE l.balances[x] \div NFT_UNIT
                            /\ l.balances[x] \div NFT_UNIT \in Nat
    BY <1>1, <1>2, <1>4, WholeFacts DEF WholeUnits, EligibleUnits, Ledgers
  <1> HIDE DEF p, done
  <1>6. /\ burnt \in [Accounts -> Nat]
        /\ burnt[from] = Lesser(l.nfts[from], WholeUnits(done, from))
        /\ \A x \in Accounts \ {from} : burnt[x] = l.nfts[x]
    BY <1>1, <1>5 DEF Lesser
  <1> HIDE DEF burnt
  <1>7. /\ shown \in [Accounts -> Nat]
        /\ \A x \in Accounts \ {to} : shown[x] = burnt[x]
        /\ shown[to] = IF to \in l.excluded THEN burnt[to]
                       ELSE Greater(burnt[to], WholeUnits(done, to))
    BY <1>1, <1>5, <1>6 DEF Greater
  <1> HIDE DEF shown
  <1>8. ASSUME NEW b \in Accounts PROVE shown[b] = EligibleUnits(m, b)
    <2>1. CASE b \notin {from, to}
      BY <1>1, <1>2, <1>5, <1>6, <1>7, <2>1
    <2>2. CASE b = from /\ from # to
      <3>1. p[from] <= l.balances[from] /\ p[from] \in Nat /\ l.balances[from] \in Nat
        BY <1>1, <1>2, <2>2
      <3>2. p[from] \div NFT_UNIT <= l.balances[from] \div NFT_UNIT
        BY <3>1, WholeGrows
      <3>3. shown[b] = Lesser(EligibleUnits(l, from), p[from] \div NFT_UNIT)
        BY <1>1, <1>5, <1>6, <1>7, <2>2
      <3> QED  BY <1>5, <2>2, <3>2, <3>3 DEF Lesser
    <2>3. CASE b = to /\ from # to
      <3>1. l.balances[to] <= p[to] /\ p[to] \in Nat /\ l.balances[to] \in Nat
        BY <1>1, <1>2, <2>3
      <3>2. l.balances[to] \div NFT_UNIT <= p[to] \div NFT_UNIT
        BY <3>1, WholeGrows
      <3>3. burnt[to] = EligibleUnits(l, to)
        BY <1>1, <1>6, <2>3
      <3> QED  BY <1>5, <1>7, <2>3, <3>2, <3>3 DEF Greater
    <2>4. CASE b = from /\ from = to
      <3>1. p[b] \div NFT_UNIT = l.balances[b] \div NFT_UNIT
        BY <1>2, <2>4
      <3>2. burnt[b] = EligibleUnits(l, b)
        BY <1>1, <1>5, <1>6, <2>4, <3>1 DEF Lesser
      <3> QED  BY <1>5, <1>7, <2>4, <3>1, <3>2 DEF Greater
    <2> QED  BY <2>1, <2>2, <2>3, <2>4
  <1>9. Kept(m)
    <2>1. m \in Ledgers
      <3>1. m = [l EXCEPT !.balances = p, !.nfts = shown]
        BY <1>1, <1>3 DEF Ledgers, done
      <3> QED  BY <1>1, <1>2, <1>7, <3>1 DEF Ledgers
    <2> QED  BY <1>4, <2>1 DEF LedgerInv, Kept, Unrewarded
  <1> QED  BY <1>4, <1>8, <1>9 DEF p

\* Between its two syncs a transfer may move balances and PipeDogs in any way
\* that keeps them in step.
LEMMA BetweenSyncs ==
    ASSUME NEW l, LedgerInv(l), NEW from \in Accounts, NEW to \in Accounts,
           NEW h, h = SyncBoth(l, from, to), NEW k, Kept(k),
           k.vault = h.vault, k.excluded = l.excluded,
           \A x \in Accounts : k.nfts[x] = EligibleUnits(k, x),
           \A x \in Accounts : x # from /\ x # to => k.balances[x] = l.balances[x],
           NEW m, m = SyncBoth(k, from, to)
    PROVE  /\ LedgerInv(m) /\ SameBooks(k, m)
           /\ Accounted(m.vault) = Accounted(l.vault)
  <1>0. Kept(l) /\ Matched(l)
    BY DEF LedgerInv
  <1>1. Synced(l, from, to, h)
    BY <1>0, SyncBothFacts
  <1>2. Synced(k, from, to, m)
    BY SyncBothFacts
  <1>3. Kept(m) /\ SameBooks(k, m) /\ Accounted(m.vault) = Accounted(l.vault)
    BY <1>1, <1>2 DEF Synced
  <1>4. ASSUME NEW b \in Accounts
        PROVE  m.vault.units[b] = EligibleUnits(m, b) /\ m.nfts[b] = EligibleUnits(m, b)
    <2>1. EligibleUnits(m, b) = EligibleUnits(k, b) /\ m.nfts[b] = k.nfts[b]
      BY <1>3, SameUnits DEF SameBooks
    <2>2. CASE b = from \/ b = to
      BY <1>2, <2>1, <2>2 DEF Synced
    <2>3. CASE b # from /\ b # to
      <3>1. EligibleUnits(k, b) = EligibleUnits(l, b)
        BY <2>3 DEF EligibleUnits, WholeUnits
      <3>2. m.vault.units[b] = k.vault.units[b] /\ h.vault.units[b] = l.vault.units[b]
        BY <1>1, <1>2, <2>3 DEF Synced
      <3> QED  BY <1>0, <2>1, <3>1, <3>2 DEF Matched
    <2> QED  BY <2>2, <2>3
  <1>5. Matched(m)
    BY <1>4 DEF Matched
  <1> QED  BY <1>3, <1>5 DEF LedgerInv

\* A sync first brings the vault up to date and changes nothing else.
LEMMA FirstSync ==
    ASSUME NEW l, LedgerInv(l), NEW from \in Accounts, NEW to \in Accounts,
           NEW h, h = SyncBoth(l, from, to)
    PROVE  LedgerInv(h) /\ SameBooks(l, h)
  <1>1. Synced(l, from, to, h)
    BY SyncBothFacts DEF LedgerInv
  <1>2. \A x \in Accounts : EligibleUnits(h, x) = EligibleUnits(l, x)
    BY <1>1, SameUnits DEF Synced
  <1>3. ASSUME NEW b \in Accounts
        PROVE  h.vault.units[b] = EligibleUnits(h, b) /\ h.nfts[b] = EligibleUnits(h, b)
    BY <1>1, <1>2 DEF Synced, LedgerInv, Matched, SameBooks
  <1> QED  BY <1>1, <1>3 DEF Synced, LedgerInv, Matched

\* A whole transfer keeps units, PipeDogs and the vault's books.
LEMMA TransferredFacts ==
    ASSUME NEW l, LedgerInv(l), NEW from \in Accounts, NEW to \in Accounts,
           NEW amount \in Nat, amount <= l.balances[from],
           NEW m, m = Transferred(l, from, to, amount)
    PROVE  /\ LedgerInv(m) /\ m.excluded = l.excluded
           /\ m.balances = Paid(l.balances, from, to, amount)
           /\ Accounted(m.vault) = Accounted(l.vault)
  <1> DEFINE h == SyncBoth(l, from, to)
             k == Moved(h, from, to, amount)
  <1>0. l.balances \in [Accounts -> Nat]
    BY DEF LedgerInv, Kept, Ledgers
  <1>1. LedgerInv(h) /\ SameBooks(l, h)
    BY FirstSync
  <1>2. amount <= h.balances[from]
    BY <1>1 DEF SameBooks
  <1>3. m = SyncBoth(k, from, to)
    BY DEF Transferred
  <1> HIDE DEF h
  <1>4. /\ Kept(k) /\ k.vault = h.vault /\ k.excluded = h.excluded
        /\ k.balances = Paid(h.balances, from, to, amount)
        /\ \A x \in Accounts : k.nfts[x] = EligibleUnits(k, x)
    BY <1>1, <1>2, MovedFacts
  <1> HIDE DEF k
  <1>5. k.balances = Paid(l.balances, from, to, amount) /\ k.excluded = l.excluded
    BY <1>1, <1>4 DEF SameBooks
  <1>6. \A x \in Accounts : x # from /\ x # to => k.balances[x] = l.balances[x]
    BY <1>0, <1>5, PaidFacts
  <1>7. LedgerInv(m) /\ SameBooks(k, m) /\ Accounted(m.vault) = Accounted(l.vault)
    <2>1. h = SyncBoth(l, from, to)
      BY DEF h
    <2> QED  BY <1>3, <1>4, <1>5, <1>6, <2>1, BetweenSyncs
  <1> QED  BY <1>5, <1>7 DEF SameBooks

LEMMA MovedNFTFacts ==
    ASSUME NEW l, LedgerInv(l), NEW from \in Accounts, NEW to \in Accounts \ l.excluded,
           l.nfts[from] > 0, NEW m, m = MovedNFT(l, from, to)
    PROVE  /\ NFT_UNIT <= l.balances[from]
           /\ Kept(m) /\ m.vault = l.vault /\ m.excluded = l.excluded
           /\ m.balances = Paid(l.balances, from, to, NFT_UNIT)
           /\ \A x \in Accounts : m.nfts[x] = EligibleUnits(m, x)
  <1> DEFINE p == Paid(l.balances, from, to, NFT_UNIT)
             half == [l.nfts EXCEPT ![from] = @ - 1]
             shown == [half EXCEPT ![to] = @ + 1]
  <1>1. /\ l \in Ledgers /\ l.balances \in [Accounts -> Nat] /\ l.nfts \in [Accounts -> Nat]
        /\ l.excluded \in SUBSET Accounts
        /\ \A x \in Accounts : l.nfts[x] = EligibleUnits(l, x)
    BY DEF LedgerInv, Kept, Matched, Ledgers
  <1>2. /\ from \notin l.excluded /\ NFT_UNIT \in Nat \ {0}
        /\ l.nfts[from] = l.balances[from] \div NFT_UNIT
        /\ l.nfts[to] = l.balances[to] \div NFT_UNIT
    BY <1>1, UnitAssumption DEF EligibleUnits, WholeUnits
  <1>3. NFT_UNIT <= l.balances[from]
    <2>1. l.balances[from] \in Nat /\ l.balances[from] \div NFT_UNIT >= 1
      BY <1>1, <1>2
    <2>2. l.balances[from] - NFT_UNIT \in Nat
      BY <2>1, WholeUnitMoves
    <2> QED  BY <1>2, <2>1, <2>2
  <1>4. /\ p \in [Accounts -> Nat]
        /\ \A x \in Accounts \ {from, to} : p[x] = l.balances[x]
        /\ from = to => p = l.balances
        /\ from # to => p[from] = l.balances[from] - NFT_UNIT
                        /\ p[to] = l.balances[to] + NFT_UNIT
    BY <1>1, <1>2, <1>3, PaidFacts
  <1>5. half \in [Accounts -> Nat] /\ half[from] = l.nfts[from] - 1
        /\ \A x \in Accounts \ {from} : half[x] = l.nfts[x]
    BY <1>1
  <1>6. m = [l EXCEPT !.balances = p, !.nfts = shown]
    BY <1>1 DEF MovedNFT, Paid, Ledgers
  <1> HIDE DEF p, half
  <1>7. shown \in [Accounts -> Nat] /\ shown[to] = half[to] + 1
        /\ \A x \in Accounts \ {to} : shown[x] = half[x]
    BY <1>5
  <1> HIDE DEF shown
  <1>8. /\ m \in Ledgers /\ m.balances = p /\ m.nfts = shown /\ m.skipNFT = l.skipNFT
        /\ m.excluded = l.excluded /\ m.vault = l.vault
    BY <1>1, <1>4, <1>6, <1>7 DEF Ledgers
  <1>9. Kept(m)
    BY <1>8 DEF LedgerInv, Kept, Unrewarded
  <1>10. ASSUME NEW b \in Accounts PROVE m.nfts[b] = EligibleUnits(m, b)
    <2>1. /\ EligibleUnits(m, b) = IF b \in l.excluded THEN 0 ELSE p[b] \div NFT_UNIT
          /\ EligibleUnits(l, b) = IF b \in l.excluded THEN 0
                                   ELSE l.balances[b] \div NFT_UNIT
      BY <1>8 DEF EligibleUnits, WholeUnits
    <2>2. CASE b # from /\ b # to
      BY <1>1, <1>4, <1>5, <1>7, <1>8, <2>1, <2>2
    <2>3. CASE b = from /\ from # to
      <3>1. p[from] \div NFT_UNIT = l.balances[from] \div NFT_UNIT - 1
        BY <1>1, <1>2, <1>4, <2>3, WholeUnitMoves
      <3> QED  BY <1>2, <1>5, <1>7, <1>8, <2>1, <2>3, <3>1
    <2>4. CASE b = to /\ from # to
      <3>1. p[to] \div NFT_UNIT = l.balances[to] \div NFT_UNIT + 1
        BY <1>1, <1>2, <1>4, <2>4, WholeUnitMoves
      <3> QED  BY <1>2, <1>5, <1>7, <1>8, <2>1, <2>4, <3>1
    <2>5. CASE b = from /\ from = to
      <3>1. shown[b] = l.nfts[b] /\ p[b] = l.balances[b]
        BY <1>1, <1>4, <1>5, <1>7, <2>5
      <3> QED  BY <1>2, <1>8, <2>1, <2>5, <3>1
    <2> QED  BY <2>2, <2>3, <2>4, <2>5
  <1> QED  BY <1>3, <1>8, <1>9, <1>10 DEF p

LEMMA NFTTransferredFacts ==
    ASSUME NEW l, LedgerInv(l), NEW from \in Accounts, NEW to \in Accounts \ l.excluded,
           l.nfts[from] > 0, NEW m, m = NFTTransferred(l, from, to)
    PROVE  /\ NFT_UNIT <= l.balances[from]
           /\ LedgerInv(m) /\ m.excluded = l.excluded
           /\ m.balances = Paid(l.balances, from, to, NFT_UNIT)
           /\ Accounted(m.vault) = Accounted(l.vault)
  <1> DEFINE h == SyncBoth(l, from, to)
             k == MovedNFT(h, from, to)
  <1>0. l.balances \in [Accounts -> Nat]
    BY DEF LedgerInv, Kept, Ledgers
  <1>1. LedgerInv(h) /\ SameBooks(l, h)
    BY FirstSync
  <1>2. to \in Accounts \ h.excluded /\ h.nfts[from] > 0
    BY <1>1 DEF SameBooks
  <1>3. m = SyncBoth(k, from, to)
    BY DEF NFTTransferred
  <1> HIDE DEF h
  <1>4. /\ NFT_UNIT <= h.balances[from]
        /\ Kept(k) /\ k.vault = h.vault /\ k.excluded = h.excluded
        /\ k.balances = Paid(h.balances, from, to, NFT_UNIT)
        /\ \A x \in Accounts : k.nfts[x] = EligibleUnits(k, x)
    BY <1>1, <1>2, MovedNFTFacts
  <1> HIDE DEF k
  <1>5. /\ k.balances = Paid(l.balances, from, to, NFT_UNIT) /\ k.excluded = l.excluded
        /\ NFT_UNIT <= l.balances[from]
    BY <1>1, <1>4 DEF SameBooks
  <1>6. \A x \in Accounts : x # from /\ x # to => k.balances[x] = l.balances[x]
    BY <1>0, <1>5, UnitAssumption, PaidFacts
  <1>7. LedgerInv(m) /\ SameBooks(k, m) /\ Accounted(m.vault) = Accounted(l.vault)
    <2>1. h = SyncBoth(l, from, to)
      BY DEF h
    <2> QED  BY <1>3, <1>4, <1>5, <1>6, <2>1, BetweenSyncs
  <1> QED  BY <1>5, <1>7 DEF SameBooks

\* What the transactions need to know of one transfer.
Moves(l, from, to, amount, m) ==
    /\ LedgerInv(m) /\ m.excluded = l.excluded
    /\ Accounted(m.vault) = Accounted(l.vault)
    /\ Together(m.balances) = Together(l.balances)
    /\ m.balances \in [Accounts -> Nat]
    /\ from = to => m.balances = l.balances
    /\ from # to => /\ m.balances[from] = l.balances[from] - amount
                    /\ m.balances[to] = l.balances[to] + amount
    /\ \A x \in Accounts : x # from /\ x # to => m.balances[x] = l.balances[x]

LEMMA PaidMoves ==
    ASSUME NEW l, LedgerInv(l), NEW from \in Accounts, NEW to \in Accounts,
           NEW amount \in Nat, amount <= l.balances[from],
           NEW m, LedgerInv(m), m.excluded = l.excluded,
           m.balances = Paid(l.balances, from, to, amount),
           Accounted(m.vault) = Accounted(l.vault)
    PROVE  Moves(l, from, to, amount, m)
  <1>1. l.balances \in [Accounts -> Nat]
    BY DEF LedgerInv, Kept, Ledgers
  <1> DEFINE p == Paid(l.balances, from, to, amount)
  <1>2. /\ p \in [Accounts -> Nat] /\ Together(p) = Together(l.balances)
        /\ \A x \in Accounts \ {from, to} : p[x] = l.balances[x]
        /\ from = to => p = l.balances
        /\ from # to => p[from] = l.balances[from] - amount /\ p[to] = l.balances[to] + amount
    BY <1>1, PaidFacts
  <1>3. m.balances = p
    OBVIOUS
  <1> HIDE DEF p
  <1> QED  BY <1>2, <1>3 DEF Moves

LEMMA TransferMoves ==
    ASSUME NEW l, LedgerInv(l), NEW from \in Accounts, NEW to \in Accounts,
           NEW amount \in Nat, amount <= l.balances[from]
    PROVE  Moves(l, from, to, amount, Transferred(l, from, to, amount))
  <1> DEFINE m == Transferred(l, from, to, amount)
  <1>1. /\ LedgerInv(m) /\ m.excluded = l.excluded
        /\ m.balances = Paid(l.balances, from, to, amount)
        /\ Accounted(m.vault) = Accounted(l.vault)
    BY TransferredFacts
  <1> HIDE DEF m
  <1>2. Moves(l, from, to, amount, m)
    BY <1>1, PaidMoves
  <1> QED  BY <1>2 DEF m

\* The hook's fee reaches the vault's books and nothing else.
LEMMA AccruedFacts ==
    ASSUME NEW l, LedgerInv(l), NEW fee \in Nat, NEW m, m = Accrued(l, fee)
    PROVE  LedgerInv(m) /\ SameBooks(l, m) /\ Accounted(m.vault) = Accounted(l.vault) + fee
  <1>0. l \in Ledgers /\ VaultInv(l.vault)
    BY DEF LedgerInv, Kept
  <1>1. CASE fee = 0
    <2>1. m = l
      BY <1>1 DEF Accrued
    <2>2. Accounted(l.vault) \in Int
      BY <1>0 DEF Accounted, Ledgers, Vaults
    <2> QED  BY <1>1, <2>1, <2>2 DEF SameBooks
  <1>2. CASE fee # 0
    <2> DEFINE w == NotifyVault(l.vault, fee)
    <2>1. /\ VaultInv(w) /\ w.units = l.vault.units /\ w.accrued = l.vault.accrued
          /\ Accounted(w) = Accounted(l.vault) + fee
      BY <1>0, NotifyFields
    <2>2. m = [l EXCEPT !.vault = w]
      BY <1>0, <1>2 DEF Accrued, Ledgers
    <2> HIDE DEF w
    <2>3. m.vault = w /\ SameBooks(l, m) /\ m \in Ledgers
      <3>1. w \in Vaults
        BY <2>1, VaultFields
      <3> QED  BY <1>0, <2>2, <3>1 DEF Ledgers, SameBooks
    <2>4. \A x \in Accounts : EligibleUnits(m, x) = EligibleUnits(l, x)
      BY <2>3, SameUnits
    <2>5. Kept(m)
      BY <2>1, <2>3 DEF LedgerInv, Kept, SameBooks, Unrewarded
    <2>6. Matched(m)
      BY <2>1, <2>3, <2>4 DEF LedgerInv, Matched, SameBooks
    <2> QED  BY <2>1, <2>3, <2>5, <2>6 DEF LedgerInv
  <1> QED  BY <1>1, <1>2

-----------------------------------------------------------------------------
(* Who is paid by a transfer.                                                *)

\* A sync of a distributes nothing: nothing waits, or no unit is there to earn it
\* before and after.
Quiet(l, a) ==
    \/ l.vault.undistributedRewards = 0
    \/ l.vault.totalEligibleUnits = 0 /\ l.vault.units[a] = EligibleUnits(l, a)

LEMMA SyncRewardQuiet ==
    ASSUME NEW l, Kept(l), NEW a \in Accounts, Quiet(l, a), NEW m, m = SyncReward(l, a)
    PROVE  /\ Unpaid(l.vault, m.vault)
           /\ m.vault.undistributedRewards = l.vault.undistributedRewards
           /\ \A b \in Accounts : Quiet(l, b) => Quiet(m, b)
  <1> DEFINE v == l.vault
             n == EligibleUnits(l, a)
             s == Settle(v, a, n)
  <1>1. l \in Ledgers /\ Balanced(v) /\ v \in Vaults /\ n \in Nat
    BY EligibleNat DEF Kept, VaultInv, Balanced
  <1>2. Unpaid(v, s) /\ Balanced(s)
    BY <1>1, SettleUnpaid, SettleBalanced
  <1>3. /\ s.undistributedRewards = v.undistributedRewards
        /\ s.totalEligibleUnits = v.totalEligibleUnits - v.units[a] + n
    BY <1>1 DEF Settle, Vaults
  <1>4. v.units[a] \in Nat /\ v.totalEligibleUnits \in Nat
    BY <1>1 DEF Vaults
  <1>5. s.undistributedRewards = 0 \/ s.totalEligibleUnits = 0
    BY <1>1, <1>3, <1>4 DEF Quiet
  <1>6. m.vault = Distribute(s)
    BY <1>1 DEF SyncReward, SyncVault, Ledgers
  <1>7. SameBooks(l, m) /\ m.vault.units = [v.units EXCEPT ![a] = n]
    BY SyncRewardFacts
  <1> HIDE DEF s
  <1>8. m.vault = s
    BY <1>5, <1>6 DEF Distribute
  <1>9. ASSUME NEW b \in Accounts, Quiet(l, b) PROVE Quiet(m, b)
    <2>1. CASE v.undistributedRewards = 0
      BY <1>3, <1>8, <2>1 DEF Quiet
    <2>2. CASE v.undistributedRewards # 0
      <3>1. /\ v.totalEligibleUnits = 0 /\ v.units[a] = n
            /\ v.units[b] = EligibleUnits(l, b)
        BY <1>9, <2>2 DEF Quiet
      <3>2. m.vault.units[b] = v.units[b]
        BY <1>1, <1>7, <3>1 DEF Vaults
      <3>3. EligibleUnits(m, b) = EligibleUnits(l, b)
        BY <1>7, SameUnits
      <3>4. s.totalEligibleUnits = 0
        BY <1>1, <1>3, <3>1
      <3> QED  BY <1>8, <3>1, <3>2, <3>3, <3>4 DEF Quiet
    <2> QED  BY <2>1, <2>2
  <1> QED  BY <1>2, <1>3, <1>8, <1>9

LEMMA SyncBothQuiet ==
    ASSUME NEW l, Kept(l), NEW from \in Accounts, NEW to \in Accounts,
           Quiet(l, from), Quiet(l, to), NEW m, m = SyncBoth(l, from, to)
    PROVE  /\ Unpaid(l.vault, m.vault)
           /\ m.vault.undistributedRewards = l.vault.undistributedRewards
  <1> DEFINE h == SyncReward(l, from)
  <1>1. /\ Unpaid(l.vault, h.vault) /\ Kept(h) /\ Quiet(h, to)
        /\ h.vault.undistributedRewards = l.vault.undistributedRewards
    BY SyncRewardQuiet, SyncRewardFacts
  <1>2. m = IF to = from THEN h ELSE SyncReward(h, to)
    BY DEF SyncBoth
  <1> HIDE DEF h
  <1>3. CASE to = from
    BY <1>1, <1>2, <1>3
  <1>4. CASE to # from
    <2>1. m = SyncReward(h, to)
      BY <1>2, <1>4
    <2>2. /\ Unpaid(h.vault, m.vault)
          /\ m.vault.undistributedRewards = h.vault.undistributedRewards
      BY <1>1, <2>1, SyncRewardQuiet
    <2> QED  BY <1>1, <2>2 DEF Unpaid
  <1> QED  BY <1>3, <1>4

\* With units and balances in step every sync is quiet, and so is one of an
\* excluded account.
LEMMA WhenQuiet ==
    ASSUME NEW l, Kept(l), NEW a \in Accounts, Matched(l) \/ a \in l.excluded
    PROVE  Quiet(l, a)
  <1>1. l.vault.undistributedRewards # 0 => l.vault.totalEligibleUnits = 0
    BY DEF Kept, VaultInv
  <1>2. l.vault.units[a] = EligibleUnits(l, a)
    BY DEF Kept, Matched, Unrewarded, EligibleUnits
  <1> QED  BY <1>1, <1>2 DEF Quiet

\* What happens between the two syncs of a transfer, and after.
LEMMA BetweenPays ==
    ASSUME NEW l, LedgerInv(l), NEW from \in Accounts, NEW to \in Accounts,
           NEW h, h = SyncBoth(l, from, to), NEW k, Kept(k),
           k.vault = h.vault, k.excluded = l.excluded,
           NEW m, m = SyncBoth(k, from, to)
    PROVE  /\ l.vault.undistributedRewards = 0 \/ {from, to} \subseteq l.excluded
                => Unpaid(l.vault, m.vault)
                   /\ m.vault.undistributedRewards = l.vault.undistributedRewards
           /\ from # to /\ from \in l.excluded => Pays(l.vault, m.vault, m.vault.units)
  <1>1. /\ Unpaid(l.vault, k.vault)
        /\ k.vault.undistributedRewards = l.vault.undistributedRewards
    BY WhenQuiet, SyncBothQuiet DEF LedgerInv
  <1>2. ASSUME l.vault.undistributedRewards = 0 \/ {from, to} \subseteq l.excluded
        PROVE  Unpaid(l.vault, m.vault)
               /\ m.vault.undistributedRewards = l.vault.undistributedRewards
    <2>1. Quiet(k, from) /\ Quiet(k, to)
      BY <1>1, <1>2, WhenQuiet DEF Quiet
    <2>2. Unpaid(k.vault, m.vault)
          /\ m.vault.undistributedRewards = k.vault.undistributedRewards
      BY <2>1, SyncBothQuiet
    <2> QED  BY <1>1, <2>2 DEF Unpaid
  <1>3. ASSUME from # to, from \in l.excluded
        PROVE  Pays(l.vault, m.vault, m.vault.units)
    <2> DEFINE g == SyncReward(k, from)
               n == EligibleUnits(g, to)
    <2>1. Quiet(k, from)
      BY <1>3, WhenQuiet
    <2>2. Unpaid(k.vault, g.vault) /\ Kept(g)
      BY <2>1, SyncRewardQuiet, SyncRewardFacts
    <2>3. m = SyncReward(g, to)
      BY <1>3 DEF SyncBoth
    <2> HIDE DEF g
    <2>4. m.vault = SyncVault(g.vault, to, n) /\ n \in Nat /\ VaultInv(g.vault)
      BY <2>2, <2>3, EligibleNat DEF SyncReward, Kept, Ledgers
    <2>5. Pays(g.vault, m.vault, m.vault.units)
      BY <2>4, SyncPays
    <2> QED  BY <1>1, <2>2, <2>5 DEF Unpaid, Pays
  <1> QED  BY <1>2, <1>3

LEMMA TransferPays ==
    ASSUME NEW l, LedgerInv(l), NEW from \in Accounts, NEW to \in Accounts,
           NEW amount \in Nat, amount <= l.balances[from],
           NEW m, m = Transferred(l, from, to, amount)
    PROVE  /\ l.vault.undistributedRewards = 0 \/ {from, to} \subseteq l.excluded
                => Unpaid(l.vault, m.vault)
                   /\ m.vault.undistributedRewards = l.vault.undistributedRewards
           /\ from # to /\ from \in l.excluded => Pays(l.vault, m.vault, m.vault.units)
  <1> DEFINE h == SyncBoth(l, from, to)
             k == Moved(h, from, to, amount)
  <1>1. LedgerInv(h) /\ SameBooks(l, h)
    BY FirstSync
  <1>2. m = SyncBoth(k, from, to)
    BY DEF Transferred
  <1>3. Kept(k) /\ k.vault = h.vault /\ k.excluded = l.excluded
    <2>1. amount <= h.balances[from]
      BY <1>1 DEF SameBooks
    <2> HIDE DEF h
    <2> QED  BY <1>1, <2>1, MovedFacts DEF SameBooks
  <1> HIDE DEF k
  <1> QED  BY <1>2, <1>3, BetweenPays

LEMMA NFTTransferPays ==
    ASSUME NEW l, LedgerInv(l), NEW from \in Accounts, NEW to \in Accounts \ l.excluded,
           l.nfts[from] > 0, l.vault.undistributedRewards = 0,
           NEW m, m = NFTTransferred(l, from, to)
    PROVE  Unpaid(l.vault, m.vault)
  <1> DEFINE h == SyncBoth(l, from, to)
             k == MovedNFT(h, from, to)
  <1>1. LedgerInv(h) /\ SameBooks(l, h)
    BY FirstSync
  <1>2. m = SyncBoth(k, from, to)
    BY DEF NFTTransferred
  <1>3. Kept(k) /\ k.vault = h.vault /\ k.excluded = l.excluded
    <2>1. to \in Accounts \ h.excluded /\ h.nfts[from] > 0
      BY <1>1 DEF SameBooks
    <2> HIDE DEF h
    <2> QED  BY <1>1, <2>1, MovedNFTFacts DEF SameBooks
  <1> HIDE DEF k
  <1> QED  BY <1>2, <1>3, BetweenPays

\* The hook's fee pays for the units there are, or waits for some.
LEMMA AccruedPays ==
    ASSUME NEW l, LedgerInv(l), NEW fee \in Nat, NEW m, m = Accrued(l, fee)
    PROVE  /\ Pays(l.vault, m.vault, l.vault.units)
           /\ m.vault.undistributedRewards # 0 => Unpaid(l.vault, m.vault)
           /\ l.vault.totalEligibleUnits # 0 => m.vault.undistributedRewards = 0
  <1>1. /\ l \in Ledgers /\ VaultInv(l.vault) /\ l.vault.units \in [Accounts -> Nat]
        /\ VaultInv(m.vault)
    BY AccruedFacts, VaultFields DEF LedgerInv, Kept
  <1>2. CASE fee = 0
    <2>1. m = l /\ Unpaid(l.vault, m.vault)
      BY <1>2 DEF Accrued, Unpaid
    <2> QED  BY <1>1, <2>1, UnpaidPays DEF VaultInv
  <1>3. CASE fee # 0
    <2>1. m.vault = NotifyVault(l.vault, fee)
      BY <1>1, <1>3 DEF Accrued, Ledgers
    <2>2. /\ Pays(l.vault, m.vault, l.vault.units)
          /\ l.vault.totalEligibleUnits = 0 => Unpaid(l.vault, m.vault)
          /\ m.vault.totalEligibleUnits = l.vault.totalEligibleUnits
      BY <1>1, <2>1, NotifyPays
    <2>3. m.vault.undistributedRewards # 0 => m.vault.totalEligibleUnits = 0
      BY <1>1 DEF VaultInv
    <2> QED  BY <2>2, <2>3
  <1> QED  BY <1>2, <1>3

\* An account that is excluded or holds no more has no more units.
LEMMA FewerUnits ==
    ASSUME NEW l, LedgerInv(l), NEW m, LedgerInv(m), m.excluded = l.excluded,
           \A x \in Accounts : x \in l.excluded \/ m.balances[x] <= l.balances[x]
    PROVE  /\ m.vault.units \in [Accounts -> Nat] /\ l.vault.units \in [Accounts -> Nat]
           /\ \A x \in Accounts : m.vault.units[x] <= l.vault.units[x]
  <1>1. /\ m.vault.units \in [Accounts -> Nat] /\ l.vault.units \in [Accounts -> Nat]
        /\ m.balances \in [Accounts -> Nat] /\ l.balances \in [Accounts -> Nat]
    BY VaultFields DEF LedgerInv, Kept, Ledgers
  <1>2. ASSUME NEW x \in Accounts PROVE m.vault.units[x] <= l.vault.units[x]
    <2>1. m.vault.units[x] = EligibleUnits(m, x) /\ l.vault.units[x] = EligibleUnits(l, x)
      BY DEF LedgerInv, Matched
    <2>2. CASE x \in l.excluded
      BY <2>1, <2>2 DEF EligibleUnits
    <2>3. CASE x \notin l.excluded
      <3>1. m.balances[x] \div NFT_UNIT <= l.balances[x] \div NFT_UNIT
        BY <1>1, <2>3, WholeMonotone
      <3> QED  BY <2>1, <2>3, <3>1 DEF EligibleUnits, WholeUnits
    <2> QED  BY <2>2, <2>3
  <1> QED  BY <1>1, <1>2

-----------------------------------------------------------------------------
(* The specification.                                                        *)

Types ==
    /\ claimBalance \in Nat
    /\ wiring \subseteq Steps
    /\ allowance \in {0, INITIAL_SUPPLY}
    /\ fees \in Nat

\* The order the configurator, the launcher and the token insist on.
Order ==
    /\ "launched" \in wiring => "exclusions" \in wiring
    /\ "released" \in wiring => "launched" \in wiring

\* Until the launch no fee is earned and nothing leaves the owner.
BeforeLaunch ==
    "launched" \notin wiring =>
        /\ claimBalance = 0
        /\ InitialSupplyOwner \in ledger.excluded
        /\ ledger.balances = InitialLedger.balances

Empty(a) == {Router, Launcher} \cap Recipients = {} => ledger.balances[a] = 0
Custody ==
    /\ Together(ledger.balances) = INITIAL_SUPPLY
    /\ Empty(Router) /\ Empty(Launcher)

\* The system contracts stay excluded; only the owner is ever released.
SystemHeld == "exclusions" \in wiring => SystemAddresses \subseteq ledger.excluded

IInv ==
    /\ LedgerInv(ledger)
    /\ Accounted(ledger.vault) = claimBalance
    /\ Types /\ Order /\ BeforeLaunch /\ Custody /\ SystemHeld

LEMMA SystemFacts ==
    /\ Router \in Accounts /\ Launcher \in Accounts /\ PoolManager \in Accounts
    /\ InitialSupplyOwner \in Accounts
    /\ InitialSupplyOwner \notin {Router, Launcher, PoolManager}
    /\ Launcher # Router /\ Launcher # PoolManager /\ Router # PoolManager
    /\ Recipients \in SUBSET Accounts
    /\ Holders \in SUBSET Accounts
    /\ Holders \cap {Router, Launcher, PoolManager} = {}
  BY SystemAssumption, OwnerAssumption DEF SystemAddresses, Holders

LEMMA OneHolder ==
    /\ InitialLedger.balances \in [Accounts -> Nat]
    /\ InitialLedger.balances[InitialSupplyOwner] = INITIAL_SUPPLY
    /\ \A x \in Accounts : x # InitialSupplyOwner => InitialLedger.balances[x] = 0
    /\ Together(InitialLedger.balances) = INITIAL_SUPPLY
  <1> DEFINE f == InitialLedger.balances
             none == [x \in Accounts |-> 0]
  <1>1. /\ f \in [Accounts -> Nat] /\ f[InitialSupplyOwner] = INITIAL_SUPPLY
        /\ \A x \in Accounts : x # InitialSupplyOwner => f[x] = 0
    BY SupplyAssumption, OwnerAssumption DEF InitialLedger
  <1>2. Together(none) = 0
    <2>1. Parcels(none) = {}
      BY DEF Parcels
    <2> QED  BY <2>1, FS_EmptySet DEF Together
  <1>3. none \in [Accounts -> Nat] /\ none[InitialSupplyOwner] = 0
        /\ \A x \in Accounts \ {InitialSupplyOwner} : f[x] = none[x]
    BY <1>1, OwnerAssumption
  <1> HIDE DEF f, none
  <1>4. Together(f) = Together(none) - none[InitialSupplyOwner] + f[InitialSupplyOwner]
    BY <1>1, <1>3, AccountsAssumption, OwnerAssumption, TogetherChanged
  <1>5. Together(f) = INITIAL_SUPPLY
    BY <1>1, <1>2, <1>3, <1>4, SupplyAssumption
  <1> QED  BY <1>1, <1>5 DEF f

LEMMA InitInv == Init => IInv
  <1> SUFFICES ASSUME Init PROVE IInv
    OBVIOUS
  <1>1. ledger = InitialLedger
    BY DEF Init
  <1>2. /\ ledger.vault = EmptyVault /\ ledger.excluded = {InitialSupplyOwner}
        /\ ledger.nfts = [x \in Accounts |-> 0]
        /\ ledger.skipNFT = [x \in Accounts |-> x = InitialSupplyOwner]
        /\ ledger.balances = InitialLedger.balances
    BY <1>1 DEF InitialLedger
  <1>3. VaultInv(EmptyVault) /\ EmptyVault \in Vaults
    BY EmptyInv DEF VaultInv, Balanced
  <1>4. ledger \in Ledgers
    <2>1. ledger = [balances |-> InitialLedger.balances,
                    nfts |-> [x \in Accounts |-> 0],
                    skipNFT |-> [x \in Accounts |-> x = InitialSupplyOwner],
                    excluded |-> {InitialSupplyOwner}, vault |-> EmptyVault]
      BY <1>1 DEF InitialLedger
    <2> QED  BY <1>3, <2>1, OneHolder, OwnerAssumption DEF Ledgers
  <1>5. Kept(ledger)
    <2>1. \A x \in Accounts : ledger.skipNFT[x] <=> x \in ledger.excluded
      BY <1>2, Zenon
    <2>2. \A x \in ledger.excluded : Unrewarded(ledger, x)
      BY <1>2, OwnerAssumption DEF Unrewarded, EmptyVault
    <2> QED  BY <1>2, <1>3, <1>4, <2>1, <2>2 DEF Kept
  <1>6. Matched(ledger)
    <2>1. ASSUME NEW b \in Accounts PROVE EligibleUnits(ledger, b) = 0
      <3>1. CASE b = InitialSupplyOwner
        BY <1>2, <3>1 DEF EligibleUnits
      <3>2. CASE b # InitialSupplyOwner
        <4>1. 0 \div NFT_UNIT = 0
          BY UnitAssumption, SMT
        <4> QED  BY <1>2, <3>2, <4>1, OneHolder DEF EligibleUnits, WholeUnits
      <3> QED  BY <3>1, <3>2
    <2> QED  BY <1>2, <2>1 DEF Matched, EmptyVault
  <1>7. Accounted(ledger.vault) = claimBalance
    BY <1>2 DEF Init, Accounted, EmptyVault
  <1>8. Custody
    BY <1>2, OneHolder, SystemFacts DEF Custody, Empty
  <1>9. Types /\ Order /\ BeforeLaunch /\ SystemHeld
    BY <1>2 DEF Init, Types, Order, BeforeLaunch, SystemHeld
  <1> QED  BY <1>5, <1>6, <1>7, <1>8, <1>9 DEF IInv, LedgerInv

\* A call that moves no LAYPIPE and does not launch.
LEMMA QuietStep ==
    ASSUME IInv, LedgerInv(ledger'), ledger'.balances = ledger.balances,
           Accounted(ledger'.vault) = claimBalance', Types', Order',
           "launched" \in wiring' <=> "launched" \in wiring,
           "launched" \notin wiring => /\ claimBalance' = 0
                                       /\ InitialSupplyOwner \in ledger'.excluded,
           SystemHeld'
    PROVE  IInv'
  BY DEF IInv, BeforeLaunch, Custody, Empty

\* Until the launch no account has earned anything.
LEMMA NothingEarned ==
    ASSUME IInv, claimBalance = 0, NEW a \in Accounts
    PROVE  ledger.vault.accrued[a] = 0 /\ Claimable(ledger.vault, a) = 0
  <1>1. VaultInv(ledger.vault) /\ Accounted(ledger.vault) = 0
    BY DEF IInv, LedgerInv, Kept
  <1> DEFINE v == ledger.vault
  <1>2. v \in Vaults /\ v.undistributedRewards \in Nat /\ v.accrued[a] \in Nat
    BY <1>1, VaultFields DEF Vaults
  <1>3. Claimable(v, a) \in Nat /\ Claimable(v, a) <= Accounted(v) - v.undistributedRewards
    BY <1>1, ClaimableBound
  <1>4. Settled(v)
    BY <1>1 DEF VaultInv, Balanced, Settled
  <1>5. Earned(v, a) \in Nat
    BY <1>2, <1>4, EarnedFacts
  <1> HIDE DEF v
  <1>6. Claimable(v, a) = 0
    BY <1>1, <1>2, <1>3 DEF v
  <1> QED  BY <1>2, <1>5, <1>6 DEF Claimable, v

-----------------------------------------------------------------------------
(* One lemma per action that touches the ledger.                             *)

LEMMA ExclusionsInv ==
    ASSUME IInv, ConfigureSystemExclusions
    PROVE  IInv'
  <1>1. /\ "exclusions" \notin wiring /\ wiring' = wiring \cup {"exclusions"}
        /\ \A a \in SystemAddresses : Unfunded(ledger, a)
        /\ ledger' = Excluded(ledger, SystemAddresses)
        /\ UNCHANGED <<claimBalance, allowance, fees>>
    BY DEF ConfigureSystemExclusions, Wire
  <1>2. "launched" \notin wiring /\ claimBalance = 0 /\ InitialSupplyOwner \in ledger.excluded
    BY <1>1 DEF IInv, Order, BeforeLaunch
  <1>3. Kept(ledger) /\ Matched(ledger) /\ ledger \in Ledgers
    BY DEF IInv, LedgerInv, Kept
  <1> DEFINE S == SystemAddresses
             skip == [x \in Accounts |-> x \in S \/ ledger.skipNFT[x]]
  <1>4. S \in SUBSET Accounts
    BY SystemAssumption
  <1>5. skip \in [Accounts -> BOOLEAN]
        /\ \A x \in Accounts : skip[x] <=> x \in ledger.excluded \cup S
    <2>1. \A x \in Accounts : ledger.skipNFT[x] <=> x \in ledger.excluded
      BY <1>3 DEF Kept
    <2>2. ledger.skipNFT \in [Accounts -> BOOLEAN]
      BY <1>3 DEF Ledgers
    <2> QED  BY <2>1, <2>2, Zenon
  <1>6. ledger' = [ledger EXCEPT !.excluded = ledger.excluded \cup S, !.skipNFT = skip]
    BY <1>1, <1>3 DEF Excluded, Ledgers
  <1> HIDE DEF skip, S
  <1>7. /\ ledger' \in Ledgers /\ ledger'.balances = ledger.balances
        /\ ledger'.nfts = ledger.nfts /\ ledger'.vault = ledger.vault
        /\ ledger'.excluded = ledger.excluded \cup S /\ ledger'.skipNFT = skip
    BY <1>3, <1>4, <1>5, <1>6 DEF Ledgers
  <1>8. Kept(ledger')
    <2>1. ASSUME NEW b \in ledger'.excluded PROVE Unrewarded(ledger', b)
      <3>1. CASE b \in ledger.excluded
        BY <1>3, <1>7, <3>1 DEF Kept, Unrewarded
      <3>2. CASE b \in S
        BY <1>1, <1>2, <1>4, <1>7, <3>2, NothingEarned DEF S, Unfunded, Unrewarded
      <3> QED  BY <1>7, <2>1, <3>1, <3>2
    <2> QED  BY <1>3, <1>5, <1>7, <2>1 DEF Kept
  <1>9. Matched(ledger')
    <2>1. ASSUME NEW b \in Accounts
          PROVE  /\ ledger'.vault.units[b] = EligibleUnits(ledger', b)
                 /\ ledger'.nfts[b] = EligibleUnits(ledger', b)
      <3>1. CASE b \in S
        BY <1>1, <1>7, <3>1 DEF S, Unfunded, EligibleUnits
      <3>2. CASE b \notin S
        <4>1. EligibleUnits(ledger', b) = EligibleUnits(ledger, b)
          BY <1>7, <3>2 DEF EligibleUnits, WholeUnits
        <4> QED  BY <1>3, <1>7, <4>1 DEF Matched
      <3> QED  BY <3>1, <3>2
    <2> QED  BY <2>1 DEF Matched
  <1>10. Types' /\ Order'
    BY <1>1 DEF IInv, Types, Order, Steps
  <1>11. Accounted(ledger'.vault) = claimBalance'
    BY <1>1, <1>7 DEF IInv
  <1>12. SystemHeld'
    BY <1>7 DEF SystemHeld, S
  <1> QED  BY <1>1, <1>2, <1>7, <1>8, <1>9, <1>10, <1>11, <1>12, QuietStep DEF LedgerInv

LEMMA ReleaseInv ==
    ASSUME IInv, ReleaseInitialSupplyOwner
    PROVE  IInv'
  <1> DEFINE a == InitialSupplyOwner
             w == SyncVault(ledger.vault, a, 0)
  <1>1. /\ wiring' = wiring \cup {"released"}
        /\ ledger.balances[a] < NFT_UNIT
        /\ ledger' = OwnerReleased(ledger)
        /\ UNCHANGED <<claimBalance, allowance, fees>>
    BY DEF ReleaseInitialSupplyOwner, Wire
  <1>2. "launched" \in wiring
    BY <1>1, OneHolder, UnitAssumption, SupplyAssumption DEF IInv, BeforeLaunch
  <1>3. Kept(ledger) /\ Matched(ledger) /\ ledger \in Ledgers /\ VaultInv(ledger.vault)
    BY DEF IInv, LedgerInv, Kept
  <1>4. /\ VaultInv(w) /\ w \in Vaults
        /\ w.units = [ledger.vault.units EXCEPT ![a] = 0]
        /\ w.accrued = [ledger.vault.accrued EXCEPT ![a] = Claimable(ledger.vault, a)]
        /\ Accounted(w) = Accounted(ledger.vault)
    BY <1>3, SyncFields, VaultFields, OwnerAssumption
  <1>5. /\ ledger.vault.units \in [Accounts -> Nat] /\ ledger.vault.accrued \in [Accounts -> Nat]
        /\ a \in Accounts
    BY <1>3, VaultFields, OwnerAssumption
  <1>6. ledger' = [ledger EXCEPT !.excluded = ledger.excluded \ {a},
                                 !.skipNFT = [ledger.skipNFT EXCEPT ![a] = FALSE],
                                 !.vault = w]
    BY <1>1, <1>3 DEF OwnerReleased, Ledgers
  <1> HIDE DEF w
  <1>7. /\ ledger' \in Ledgers /\ ledger'.balances = ledger.balances
        /\ ledger'.nfts = ledger.nfts /\ ledger'.vault = w
        /\ ledger'.excluded = ledger.excluded \ {a}
        /\ ledger'.skipNFT = [ledger.skipNFT EXCEPT ![a] = FALSE]
    BY <1>3, <1>4, <1>6 DEF Ledgers
  <1>8. Kept(ledger')
    <2>1. ASSUME NEW b \in ledger'.excluded PROVE Unrewarded(ledger', b)
      <3>1. b \in ledger.excluded /\ b # a /\ b \in Accounts
        BY <1>3, <1>7, <2>1 DEF Ledgers
      <3> QED  BY <1>3, <1>4, <1>5, <1>7, <3>1 DEF Kept, Unrewarded
    <2>2. ASSUME NEW b \in Accounts PROVE ledger'.skipNFT[b] <=> b \in ledger'.excluded
      <3>1. ledger.skipNFT \in [Accounts -> BOOLEAN]
            /\ (ledger.skipNFT[b] <=> b \in ledger.excluded)
        BY <1>3 DEF Kept, Ledgers
      <3>2. CASE b = a
        BY <1>5, <1>7, <3>1, <3>2
      <3>3. CASE b # a
        BY <1>5, <1>7, <3>1, <3>3
      <3> QED  BY <3>2, <3>3
    <2> QED  BY <1>4, <1>7, <2>1, <2>2 DEF Kept
  <1>9. Matched(ledger')
    <2>1. ASSUME NEW b \in Accounts
          PROVE  /\ ledger'.vault.units[b] = EligibleUnits(ledger', b)
                 /\ ledger'.nfts[b] = EligibleUnits(ledger', b)
      <3>1. CASE b = a
        <4>1. ledger.balances[a] \in Nat
          BY <1>3, <1>5 DEF Ledgers
        <4>2. ledger.balances[a] \div NFT_UNIT = 0
          BY <1>1, <4>1, WholeIs, UnitAssumption
        <4>3. EligibleUnits(ledger, a) = 0 /\ EligibleUnits(ledger', a) = 0
          BY <1>7, <4>2 DEF EligibleUnits, WholeUnits
        <4> QED  BY <1>3, <1>4, <1>5, <1>7, <3>1, <4>3 DEF Matched
      <3>2. CASE b # a
        <4>1. EligibleUnits(ledger', b) = EligibleUnits(ledger, b)
          BY <1>7, <3>2 DEF EligibleUnits, WholeUnits
        <4> QED  BY <1>3, <1>4, <1>5, <1>7, <3>2, <4>1 DEF Matched
      <3> QED  BY <3>1, <3>2
    <2> QED  BY <2>1 DEF Matched
  <1>10. Types' /\ Order'
    BY <1>1, <1>2 DEF IInv, Types, Order, Steps
  <1>11. Accounted(ledger'.vault) = claimBalance'
    BY <1>1, <1>4, <1>7 DEF IInv
  <1>12. SystemHeld'
    BY <1>1, <1>7, SystemAssumption DEF IInv, SystemHeld
  <1> QED  BY <1>1, <1>2, <1>7, <1>8, <1>9, <1>10, <1>11, <1>12, QuietStep DEF LedgerInv

LEMMA SetSkipInv ==
    ASSUME IInv, NEW a \in Holders, SetSkipNFT(a)
    PROVE  IInv'
  <1>1. ledger \in Ledgers /\ (ledger.skipNFT[a] <=> a \in ledger.excluded) /\ a \in Accounts
    BY SystemFacts DEF IInv, LedgerInv, Kept
  <1>2. ledger.skipNFT \in [Accounts -> BOOLEAN] /\ (a \in ledger.excluded) \in BOOLEAN
    BY <1>1 DEF Ledgers
  <1>3. [ledger.skipNFT EXCEPT ![a] = a \in ledger.excluded] = ledger.skipNFT
    <2>1. ledger.skipNFT[a] = (a \in ledger.excluded)
      BY <1>1, <1>2
    <2> QED  BY <1>1, <1>2, <2>1
  <1>4. ledger' = ledger
    BY <1>1, <1>3 DEF SetSkipNFT, Ledgers
  <1>5. UNCHANGED <<claimBalance, wiring, allowance, fees>>
    BY DEF SetSkipNFT
  <1> QED  BY <1>4, <1>5 DEF IInv, Types, Order, BeforeLaunch, Custody, Empty, SystemHeld

LEMMA ClaimKeeps ==
    ASSUME IInv, NEW a \in Holders, Claim(a)
    PROVE  IInv'
  <1> DEFINE v == ledger.vault
             c == Claimable(v, a)
             w == ClaimVault(v, a)
  <1>1. /\ c # 0 /\ c <= claimBalance
        /\ ledger' = [ledger EXCEPT !.vault = ClaimVault(@, a)]
        /\ claimBalance' = claimBalance - c
        /\ UNCHANGED <<wiring, allowance, fees>>
    BY DEF Claim
  <1>2. /\ Kept(ledger) /\ Matched(ledger) /\ ledger \in Ledgers /\ VaultInv(v)
        /\ a \in Accounts /\ claimBalance \in Nat /\ Accounted(v) = claimBalance
    BY SystemFacts DEF IInv, LedgerInv, Kept, Types
  <1>3. "launched" \in wiring
    BY <1>1, <1>2, NothingEarned DEF IInv, BeforeLaunch
  <1>4. v \in Vaults /\ c \in Nat
    BY <1>2, VaultFields
  <1>5. /\ VaultInv(w) /\ w.units = v.units
        /\ w.accrued = [v.accrued EXCEPT ![a] = 0]
        /\ Accounted(w) = Accounted(v) - c
    <2>1. VaultInv(w)
      BY <1>2, ClaimInv
    <2>2. /\ w.units = v.units /\ w.accrued = [v.accrued EXCEPT ![a] = 0]
          /\ w.totalRewardsNotified = v.totalRewardsNotified
          /\ w.totalRewardsClaimed = v.totalRewardsClaimed + c
      BY <1>4 DEF ClaimVault, Vaults
    <2>3. Accounted(w) = Accounted(v) - c
      BY <1>4, <2>2 DEF Accounted, Vaults
    <2> QED  BY <2>1, <2>2, <2>3
  <1>6. ledger' = [ledger EXCEPT !.vault = w]
    BY <1>1, <1>2 DEF Ledgers
  <1> HIDE DEF c, w
  <1>7. ledger'.vault = w /\ SameBooks(ledger, ledger') /\ ledger' \in Ledgers
    <2>1. w \in Vaults
      BY <1>5, VaultFields
    <2> QED  BY <1>2, <1>6, <2>1 DEF Ledgers, SameBooks
  <1>8. Kept(ledger')
    <2>1. v.accrued \in [Accounts -> Nat]
      BY <1>2, VaultFields
    <2>2. ASSUME NEW b \in ledger'.excluded PROVE Unrewarded(ledger', b)
      <3>1. b \in Accounts /\ Unrewarded(ledger, b)
        BY <1>2, <1>7, <2>2 DEF SameBooks, Kept, Ledgers
      <3> QED  BY <1>5, <1>7, <2>1, <3>1 DEF Unrewarded
    <2> QED  BY <1>2, <1>5, <1>7, <2>2 DEF Kept, SameBooks
  <1>9. Matched(ledger')
    <2>1. \A x \in Accounts : EligibleUnits(ledger', x) = EligibleUnits(ledger, x)
      BY <1>7, SameUnits
    <2> QED  BY <1>2, <1>5, <1>7, <2>1 DEF Matched, SameBooks
  <1>10. Types' /\ Order' /\ Accounted(ledger'.vault) = claimBalance'
    BY <1>1, <1>2, <1>4, <1>5, <1>7 DEF IInv, Types, Order
  <1>11. SystemHeld'
    BY <1>1, <1>7 DEF IInv, SystemHeld, SameBooks
  <1> QED  BY <1>1, <1>3, <1>7, <1>8, <1>9, <1>10, <1>11, QuietStep DEF LedgerInv, SameBooks

\* A transaction after the launch that keeps the total and leaves nothing with
\* launcher and router.
LEMMA TradeStep ==
    ASSUME IInv, "launched" \in wiring, wiring' = wiring, allowance' = allowance,
           LedgerInv(ledger'), Accounted(ledger'.vault) = claimBalance',
           ledger'.excluded = ledger.excluded, claimBalance' \in Nat, fees' \in Nat,
           Together(ledger'.balances) = Together(ledger.balances),
           {Router, Launcher} \cap Recipients = {} =>
                ledger'.balances[Router] = 0 /\ ledger'.balances[Launcher] = 0
    PROVE  IInv'
  BY DEF IInv, Types, Order, BeforeLaunch, Custody, Empty, SystemHeld

LEMMA TransferInv ==
    ASSUME IInv, NEW from \in Holders, NEW to \in Recipients,
           NEW amount \in 1 .. INITIAL_SUPPLY, Transfer(from, to, amount)
    PROVE  IInv'
  <1>1. /\ InventoryUnlocked(from) /\ amount <= ledger.balances[from]
        /\ ledger' = Transferred(ledger, from, to, amount)
        /\ UNCHANGED <<claimBalance, wiring, allowance, fees>>
    BY DEF Transfer, TransferAllowed
  <1>2. /\ from \in Accounts /\ to \in Accounts /\ amount \in Nat /\ amount > 0
        /\ from # Router /\ from # Launcher
    BY SystemFacts, SupplyAssumption
  <1>3. Moves(ledger, from, to, amount, ledger')
    BY <1>1, <1>2, TransferMoves DEF IInv
  <1>4. "launched" \in wiring
    BY <1>1, <1>2, OneHolder DEF IInv, BeforeLaunch, Order, InventoryUnlocked
  <1>5. {Router, Launcher} \cap Recipients = {} =>
            ledger'.balances[Router] = 0 /\ ledger'.balances[Launcher] = 0
    BY <1>2, <1>3, SystemFacts DEF IInv, Custody, Empty, Moves
  <1> QED  BY <1>1, <1>3, <1>4, <1>5, TradeStep DEF IInv, Types, Moves

LEMMA TransferNFTInv ==
    ASSUME IInv, NEW from \in Holders, NEW to \in Recipients, TransferNFT(from, to)
    PROVE  IInv'
  <1>1. /\ to \notin ledger.excluded /\ ledger.nfts[from] > 0
        /\ ledger' = NFTTransferred(ledger, from, to)
        /\ UNCHANGED <<claimBalance, wiring, allowance, fees>>
    BY DEF TransferNFT
  <1>2. /\ from \in Accounts /\ to \in Accounts \ ledger.excluded
        /\ from # Router /\ from # Launcher /\ LedgerInv(ledger)
    BY <1>1, SystemFacts DEF IInv
  <1>3. /\ NFT_UNIT <= ledger.balances[from]
        /\ LedgerInv(ledger') /\ ledger'.excluded = ledger.excluded
        /\ ledger'.balances = Paid(ledger.balances, from, to, NFT_UNIT)
        /\ Accounted(ledger'.vault) = Accounted(ledger.vault)
    BY <1>1, <1>2, NFTTransferredFacts
  <1>4. Moves(ledger, from, to, NFT_UNIT, ledger')
    BY <1>2, <1>3, UnitAssumption, PaidMoves
  <1>5. "launched" \in wiring
    <2> SUFFICES ASSUME "launched" \notin wiring PROVE FALSE
      OBVIOUS
    <2>1. ledger.balances = InitialLedger.balances /\ InitialSupplyOwner \in ledger.excluded
      BY DEF IInv, BeforeLaunch
    <2>2. from = InitialSupplyOwner
      BY <1>2, <1>3, <2>1, OneHolder, UnitAssumption
    <2>3. ledger.nfts[from] = 0
      BY <1>2, <2>1, <2>2 DEF LedgerInv, Matched, EligibleUnits
    <2> QED  BY <1>1, <2>3
  <1>6. {Router, Launcher} \cap Recipients = {} =>
            ledger'.balances[Router] = 0 /\ ledger'.balances[Launcher] = 0
    BY <1>2, <1>4, SystemFacts DEF IInv, Custody, Empty, Moves
  <1> QED  BY <1>1, <1>4, <1>5, <1>6, TradeStep DEF IInv, Types, Moves

\* The ledgers a buy goes through.
BuyOK(recipient, out, fee, paid, taken) ==
    /\ "launched" \in wiring /\ recipient # Router
    /\ fees' = fees + fee /\ claimBalance' = claimBalance + fee
    /\ UNCHANGED <<wiring, allowance>>
    /\ recipient \in Accounts /\ out \in Nat /\ fee \in Nat
    /\ claimBalance \in Nat /\ fees \in Nat
    /\ LedgerInv(ledger) /\ Accounted(ledger.vault) = claimBalance
    /\ LedgerInv(paid) /\ SameBooks(ledger, paid)
    /\ Accounted(paid.vault) = Accounted(ledger.vault) + fee
    /\ out <= paid.balances[PoolManager] /\ Moves(paid, PoolManager, Router, out, taken)
    /\ out <= taken.balances[Router] /\ Moves(taken, Router, recipient, out, ledger')
    /\ ledger' = Transferred(taken, Router, recipient, out)

LEMMA BuyMoves ==
    ASSUME IInv, NEW recipient \in Recipients, NEW out \in 1 .. INITIAL_SUPPLY,
           NEW fee \in 0 .. MaxFees, Buy(recipient, out, fee)
    PROVE  LET paid == Accrued(ledger, fee)
           IN  BuyOK(recipient, out, fee, paid, SwapTaken(paid, out))
  <1> DEFINE paid  == Accrued(ledger, fee)
             taken == SwapTaken(paid, out)
  <1>1. /\ "launched" \in wiring /\ recipient # Router
        /\ out <= paid.balances[PoolManager] /\ out <= taken.balances[Router]
        /\ fees' = fees + fee /\ claimBalance' = claimBalance + fee
        /\ ledger' = Transferred(taken, Router, recipient, out)
        /\ UNCHANGED <<wiring, allowance>>
    BY DEF Buy, TransferAllowed, AccrueFee
  <1>2. /\ recipient \in Accounts /\ out \in Nat /\ fee \in Nat
        /\ claimBalance \in Nat /\ fees \in Nat
        /\ LedgerInv(ledger) /\ Accounted(ledger.vault) = claimBalance
    BY SystemFacts, SupplyAssumption, DustAssumption DEF IInv, Types
  <1>3. LedgerInv(paid) /\ SameBooks(ledger, paid)
        /\ Accounted(paid.vault) = Accounted(ledger.vault) + fee
    BY <1>2, AccruedFacts
  <1> HIDE DEF paid
  <1>4. Moves(paid, PoolManager, Router, out, taken)
    BY <1>1, <1>2, <1>3, SystemFacts, TransferMoves DEF SwapTaken
  <1> HIDE DEF taken
  <1>5. Moves(taken, Router, recipient, out, ledger')
    <2>1. LedgerInv(taken)
      BY <1>4 DEF Moves
    <2>2. Moves(taken, Router, recipient, out, Transferred(taken, Router, recipient, out))
      BY <1>1, <1>2, <2>1, SystemFacts, TransferMoves
    <2> QED  BY <1>1, <2>2
  <1>6. BuyOK(recipient, out, fee, paid, taken)
    BY <1>1, <1>2, <1>3, <1>4, <1>5 DEF BuyOK
  <1> QED  BY <1>6 DEF paid, taken

LEMMA BuyInv ==
    ASSUME IInv, NEW recipient \in Recipients, NEW out \in 1 .. INITIAL_SUPPLY,
           NEW fee \in 0 .. MaxFees, Buy(recipient, out, fee)
    PROVE  IInv'
  <1>1. PICK paid, taken : BuyOK(recipient, out, fee, paid, taken)
    BY BuyMoves
  <1> USE DEF BuyOK
  <1>2. /\ LedgerInv(ledger') /\ Accounted(ledger'.vault) = claimBalance'
        /\ Together(ledger'.balances) = Together(ledger.balances)
        /\ ledger'.excluded = ledger.excluded
    BY <1>1 DEF Moves, SameBooks
  <1>3. ASSUME {Router, Launcher} \cap Recipients = {}
        PROVE  ledger'.balances[Router] = 0 /\ ledger'.balances[Launcher] = 0
    <2>1. ledger.balances[Router] = 0 /\ ledger.balances[Launcher] = 0
      BY <1>3 DEF IInv, Custody, Empty
    <2>2. taken.balances[Router] = out /\ taken.balances[Launcher] = 0
      BY <1>1, <2>1, SystemFacts DEF Moves, SameBooks
    <2>3. recipient # Launcher
      BY <1>3
    <2> QED  BY <1>1, <2>2, <2>3, SystemFacts DEF Moves
  <1>4. claimBalance' \in Nat /\ fees' \in Nat
    BY <1>1
  <1> QED  BY <1>1, <1>2, <1>3, <1>4, TradeStep

\* The ledgers a sale goes through.
SellOK(seller, amount, spent, fee, pulled, paid, settled, back) ==
    /\ "launched" \in wiring /\ spent <= amount
    /\ fees' = fees + fee /\ claimBalance' = claimBalance + fee
    /\ UNCHANGED <<wiring, allowance>>
    /\ seller \in Accounts /\ seller # Router /\ seller # Launcher /\ seller # PoolManager
    /\ amount \in Nat /\ spent \in Nat /\ fee \in Nat /\ amount - spent \in Nat
    /\ claimBalance \in Nat /\ fees \in Nat
    /\ LedgerInv(ledger) /\ Accounted(ledger.vault) = claimBalance
    /\ amount <= ledger.balances[seller] /\ Moves(ledger, seller, Router, amount, pulled)
    /\ LedgerInv(paid) /\ SameBooks(pulled, paid)
    /\ Accounted(paid.vault) = Accounted(pulled.vault) + fee
    /\ spent <= paid.balances[Router] /\ Moves(paid, Router, PoolManager, spent, settled)
    /\ amount - spent <= settled.balances[Router]
    /\ Moves(settled, Router, seller, amount - spent, back)
    /\ ledger' = IF spent = amount THEN settled ELSE back

LEMMA SellMoves ==
    ASSUME IInv, NEW seller \in Holders, NEW amount \in 1 .. INITIAL_SUPPLY,
           NEW spent \in 1 .. INITIAL_SUPPLY, NEW fee \in 0 .. MaxFees,
           Sell(seller, amount, spent, fee)
    PROVE  LET pulled  == Transferred(ledger, seller, Router, amount)
               paid    == Accrued(pulled, fee)
               settled == SwapSettled(paid, spent)
           IN  SellOK(seller, amount, spent, fee, pulled, paid, settled,
                      Transferred(settled, Router, seller, amount - spent))
  <1> DEFINE pulled  == Transferred(ledger, seller, Router, amount)
             paid    == Accrued(pulled, fee)
             settled == SwapSettled(paid, spent)
             left    == amount - spent
             back    == Transferred(settled, Router, seller, left)
  <1>1. /\ "launched" \in wiring /\ spent <= amount
        /\ amount <= ledger.balances[seller] /\ spent <= paid.balances[Router]
        /\ left <= settled.balances[Router]
        /\ fees' = fees + fee /\ claimBalance' = claimBalance + fee
        /\ ledger' = IF spent = amount THEN settled ELSE back
        /\ UNCHANGED <<wiring, allowance>>
    BY DEF Sell, TransferAllowed, AccrueFee
  <1>2. /\ seller \in Accounts /\ seller # Router /\ seller # Launcher /\ seller # PoolManager
        /\ amount \in Nat /\ spent \in Nat /\ fee \in Nat /\ left \in Nat
        /\ claimBalance \in Nat /\ fees \in Nat
        /\ LedgerInv(ledger) /\ Accounted(ledger.vault) = claimBalance
    BY <1>1, SystemFacts, SupplyAssumption, DustAssumption DEF IInv, Types
  <1>3. Moves(ledger, seller, Router, amount, pulled)
    BY <1>1, <1>2, SystemFacts, TransferMoves
  <1> HIDE DEF pulled
  <1>4. LedgerInv(paid) /\ SameBooks(pulled, paid)
        /\ Accounted(paid.vault) = Accounted(pulled.vault) + fee
    BY <1>2, <1>3, AccruedFacts DEF Moves
  <1> HIDE DEF paid
  <1>5. Moves(paid, Router, PoolManager, spent, settled)
    BY <1>1, <1>2, <1>4, SystemFacts, TransferMoves DEF SwapSettled
  <1> HIDE DEF settled
  <1>6. LedgerInv(settled)
    BY <1>5 DEF Moves
  <1>7. Moves(settled, Router, seller, left, back)
    BY <1>1, <1>2, <1>6, SystemFacts, TransferMoves
  <1> HIDE DEF back
  <1>8. SellOK(seller, amount, spent, fee, pulled, paid, settled, back)
    BY <1>1, <1>2, <1>3, <1>4, <1>5, <1>7 DEF SellOK
  <1> QED  BY <1>8 DEF pulled, paid, settled, back

LEMMA SellInv ==
    ASSUME IInv, NEW seller \in Holders, NEW amount \in 1 .. INITIAL_SUPPLY,
           NEW spent \in 1 .. INITIAL_SUPPLY, NEW fee \in 0 .. MaxFees,
           Sell(seller, amount, spent, fee)
    PROVE  IInv'
  <1>1. PICK pulled, paid, settled, back :
                SellOK(seller, amount, spent, fee, pulled, paid, settled, back)
    BY SellMoves
  <1> USE DEF SellOK
  <1>2. LedgerInv(settled) /\ Accounted(settled.vault) = claimBalance'
        /\ Together(settled.balances) = Together(ledger.balances)
        /\ settled.excluded = ledger.excluded
    BY <1>1 DEF Moves, SameBooks
  <1>3. ledger.balances[Router] \in Nat
    BY <1>1, SystemFacts DEF LedgerInv, Kept, Ledgers
  <1>4. /\ settled.balances[Router] = ledger.balances[Router] + (amount - spent)
        /\ settled.balances[Launcher] = ledger.balances[Launcher]
    <2>1. /\ pulled.balances[Router] = ledger.balances[Router] + amount
          /\ pulled.balances[Launcher] = ledger.balances[Launcher]
      BY <1>1, SystemFacts DEF Moves
    <2> QED  BY <1>1, <1>3, <2>1, SystemFacts DEF Moves, SameBooks
  <1>5. /\ LedgerInv(ledger') /\ Accounted(ledger'.vault) = claimBalance'
        /\ Together(ledger'.balances) = Together(ledger.balances)
        /\ ledger'.balances[Router] = ledger.balances[Router]
        /\ ledger'.balances[Launcher] = ledger.balances[Launcher]
        /\ ledger'.excluded = ledger.excluded
    <2>1. CASE spent = amount
      <3>1. amount - spent = 0 /\ ledger' = settled
        BY <1>1, <2>1
      <3> QED  BY <1>2, <1>3, <1>4, <3>1
    <2>2. CASE spent # amount
      <3>1. ledger' = back
        BY <1>1, <2>2
      <3>2. back.balances[Router] = settled.balances[Router] - (amount - spent)
            /\ back.balances[Launcher] = settled.balances[Launcher]
        BY <1>1, SystemFacts DEF Moves
      <3>3. back.balances[Router] = ledger.balances[Router]
        BY <1>1, <1>3, <1>4, <3>2
      <3> QED  BY <1>1, <1>2, <1>4, <3>1, <3>2, <3>3 DEF Moves
    <2> QED  BY <2>1, <2>2
  <1>6. {Router, Launcher} \cap Recipients = {} =>
            ledger'.balances[Router] = 0 /\ ledger'.balances[Launcher] = 0
    BY <1>5 DEF IInv, Custody, Empty
  <1>7. claimBalance' \in Nat /\ fees' \in Nat
    BY <1>1
  <1> QED  BY <1>1, <1>5, <1>6, <1>7, TradeStep

LEMMA LaunchInv ==
    ASSUME IInv, NEW dust \in 0 .. MaxLaunchDust, Launch(dust)
    PROVE  IInv'
  <1> DEFINE own    == InitialSupplyOwner
             pulled == Transferred(ledger, own, Launcher, INITIAL_SUPPLY)
             rest   == INITIAL_SUPPLY - dust
             seeded == Seeded(pulled, dust)
             back   == Transferred(seeded, Launcher, own, dust)
  <1>1. /\ "launched" \notin wiring /\ wiring' = wiring \cup {"launched"}
        /\ "exclusions" \in wiring
        /\ INITIAL_SUPPLY <= ledger.balances[own] /\ rest <= pulled.balances[Launcher]
        /\ ledger' = IF dust = 0 THEN seeded ELSE back
        /\ allowance' = 0 /\ UNCHANGED <<claimBalance, fees>>
    BY DEF Launch, Wire, SystemConfigurationValid, TransferAllowed
  <1>2. /\ own \in Accounts /\ own # Launcher /\ own # PoolManager /\ own # Router
        /\ dust \in Nat /\ rest \in Nat /\ rest + dust = INITIAL_SUPPLY
        /\ INITIAL_SUPPLY \in Nat
        /\ LedgerInv(ledger) /\ Accounted(ledger.vault) = claimBalance
    BY SystemFacts, SupplyAssumption, UnitAssumption, DustAssumption DEF IInv
  <1>3. /\ ledger.balances[own] = INITIAL_SUPPLY
        /\ ledger.balances[Launcher] = 0 /\ ledger.balances[Router] = 0
    BY <1>1, <1>2, SystemFacts, OneHolder DEF IInv, BeforeLaunch
  <1>4. Moves(ledger, own, Launcher, INITIAL_SUPPLY, pulled)
    BY <1>1, <1>2, SystemFacts, TransferMoves
  <1> HIDE DEF pulled
  <1>5. Moves(pulled, Launcher, PoolManager, rest, seeded)
    <2>1. seeded = Transferred(pulled, Launcher, PoolManager, rest)
      BY DEF Seeded
    <2>2. LedgerInv(pulled)
      BY <1>4 DEF Moves
    <2>3. Launcher \in Accounts /\ PoolManager \in Accounts
      BY SystemFacts
    <2> HIDE DEF seeded, rest
    <2> QED  BY <1>1, <1>2, <2>1, <2>2, <2>3, TransferMoves
  <1> HIDE DEF seeded
  <1>6. /\ seeded.balances[Launcher] = dust /\ seeded.balances[Router] = 0
        /\ LedgerInv(seeded) /\ Accounted(seeded.vault) = claimBalance
        /\ Together(seeded.balances) = Together(ledger.balances)
    <2>1. /\ pulled.balances[Launcher] = INITIAL_SUPPLY /\ pulled.balances[Router] = 0
          /\ Together(pulled.balances) = Together(ledger.balances)
          /\ Accounted(pulled.vault) = claimBalance
      <3>1. pulled.balances[Launcher] = ledger.balances[Launcher] + INITIAL_SUPPLY
        BY <1>2, <1>4 DEF Moves
      <3>2. pulled.balances[Router] = ledger.balances[Router]
        BY <1>2, <1>4, SystemFacts DEF Moves
      <3>3. Together(pulled.balances) = Together(ledger.balances)
            /\ Accounted(pulled.vault) = Accounted(ledger.vault)
        BY <1>4 DEF Moves
      <3> QED  BY <1>2, <1>3, <3>1, <3>2, <3>3
    <2>2. seeded.balances[Launcher] = INITIAL_SUPPLY - rest
          /\ seeded.balances[Router] = 0
      BY <1>2, <1>5, <2>1, SystemFacts DEF Moves
    <2> QED  BY <1>2, <1>5, <2>1, <2>2 DEF Moves
  <1>7. Moves(seeded, Launcher, own, dust, back)
    BY <1>2, <1>6, SystemFacts, TransferMoves
  <1> HIDE DEF back
  <1>8. /\ LedgerInv(ledger') /\ Accounted(ledger'.vault) = claimBalance
        /\ ledger'.excluded = ledger.excluded
        /\ Together(ledger'.balances) = Together(ledger.balances)
        /\ ledger'.balances[Launcher] = 0 /\ ledger'.balances[Router] = 0
    <2>0. seeded.excluded = ledger.excluded
      BY <1>4, <1>5 DEF Moves
    <2>1. CASE dust = 0
      BY <1>1, <1>6, <2>0, <2>1
    <2>2. CASE dust # 0
      BY <1>1, <2>0, <1>2, <1>6, <1>7, <2>2, SystemFacts DEF Moves
    <2> QED  BY <2>1, <2>2
  <1>9. Types'
    BY <1>1 DEF IInv, Types, Steps
  <1>10. Order' /\ BeforeLaunch'
    BY <1>1 DEF IInv, Order, BeforeLaunch
  <1>11. Custody'
    BY <1>8 DEF IInv, Custody, Empty
  <1>12. SystemHeld'
    BY <1>1, <1>8 DEF IInv, SystemHeld
  <1> QED  BY <1>1, <1>8, <1>9, <1>10, <1>11, <1>12 DEF IInv

\* Settings and approvals touch no book.
LEMMA WireInv ==
    ASSUME IInv, NEW step \in {"notifier", "launcher", "router"}, NEW needs,
           Wire(step, needs), UNCHANGED <<ledger, claimBalance, allowance, fees>>
    PROVE  IInv'
  <1>1. wiring' = wiring \cup {step} /\ step \in Steps
    BY DEF Wire, Steps
  <1> QED  BY <1>1, QuietStep DEF IInv, Types, Order, BeforeLaunch, Wire, SystemHeld

LEMMA ApproveInv ==
    ASSUME IInv, NEW amount \in {0, INITIAL_SUPPLY}, Approve(amount)
    PROVE  IInv'
  BY QuietStep DEF IInv, Types, Order, BeforeLaunch, Approve, SystemHeld

LEMMA NextInv ==
    ASSUME IInv, [Next]_vars
    PROVE  IInv'
  <1>1. CASE SetRewardNotifier \/ SetLauncher \/ SetCanonicalRouter
    BY <1>1, WireInv DEF SetRewardNotifier, SetLauncher, SetCanonicalRouter
  <1>2. CASE ConfigureSystemExclusions
    BY <1>2, ExclusionsInv
  <1>3. CASE ReleaseInitialSupplyOwner
    BY <1>3, ReleaseInv
  <1>4. CASE \E amount \in {0, INITIAL_SUPPLY} : Approve(amount)
    BY <1>4, ApproveInv
  <1>5. CASE \E dust \in 0 .. MaxLaunchDust : Launch(dust)
    BY <1>5, LaunchInv
  <1>6. CASE \E from \in Holders, to \in Recipients, amount \in 1 .. INITIAL_SUPPLY :
                Transfer(from, to, amount)
    BY <1>6, TransferInv
  <1>7. CASE \E from \in Holders, to \in Recipients : TransferNFT(from, to)
    BY <1>7, TransferNFTInv
  <1>8. CASE \E a \in Holders : SetSkipNFT(a) \/ Claim(a)
    BY <1>8, SetSkipInv, ClaimKeeps
  <1>9. CASE \E fee \in 0 .. MaxFees, to \in Recipients, out \in 1 .. INITIAL_SUPPLY :
                Buy(to, out, fee)
    BY <1>9, BuyInv
  <1>10. CASE \E fee \in 0 .. MaxFees, seller \in Holders,
                amount, spent \in 1 .. INITIAL_SUPPLY : Sell(seller, amount, spent, fee)
    BY <1>10, SellInv
  <1>11. CASE UNCHANGED vars
    BY <1>11 DEF vars, IInv, Types, Order, BeforeLaunch, Custody, Empty, SystemHeld
  <1> QED  BY <1>1, <1>2, <1>3, <1>4, <1>5, <1>6, <1>7, <1>8, <1>9, <1>10, <1>11 DEF Next

LEMMA Inductive == Spec => []IInv
  <1>1. IInv /\ [Next]_vars => IInv'
    BY NextInv
  <1> QED  BY <1>1, InitInv, PTL DEF Spec

-----------------------------------------------------------------------------
\* Every reachable state of token, vault, wiring and launch has its type.
THEOREM TypeCorrect == Spec => []TypeOK
  <1>1. IInv => TypeOK
    BY DEF IInv, LedgerInv, Kept, Types, TypeOK
  <1> QED  BY <1>1, Inductive, PTL

\* However LAYPIPE moves (transfers, single PipeDogs, buys and sells, the launch,
\* the exclusions and the release), the vault weighs and the mirror shows exactly
\* the whole units of every account that is not excluded.
THEOREM UnitsFollowBalances == Spec => []UnitsMatchBalances
  <1>1. IInv => UnitsMatchBalances
    BY DEF IInv, LedgerInv, Kept, Matched, UnitsMatchBalances
  <1> QED  BY <1>1, Inductive, PTL

\* The vault's claims are exactly the fees notified and not yet claimed, they
\* cover everything the holders have earned, and excluded custody earns nothing.
THEOREM VaultIsBacked == Spec => []VaultBacked
  <1>1. ASSUME IInv PROVE VaultBacked
    <2>1. VaultInv(ledger.vault) /\ ledger \in Ledgers /\ Accounted(ledger.vault) = claimBalance
      BY <1>1 DEF IInv, LedgerInv, Kept
    <2>2. ASSUME NEW a \in ledger.excluded PROVE Claimable(ledger.vault, a) = 0
      <3>1. a \in Accounts /\ Unrewarded(ledger, a)
        BY <1>1, <2>1, <2>2 DEF IInv, LedgerInv, Kept, Ledgers
      <3> QED  BY <2>1, <3>1, VaultFields DEF Unrewarded
    <2> QED  BY <2>1, <2>2 DEF VaultBacked
  <1>2. IInv => VaultBacked
    BY <1>1
  <1> QED  BY <1>2, Inductive, PTL

\* Transfers compose without minting or burning LAYPIPE; the owner has all of it
\* until the launch, and launcher and router end every transaction empty.
THEOREM CustodyIsKept == Spec => []CustodyHolds
  <1>1. IInv => CustodyHolds
    BY OneHolder DEF IInv, Custody, Empty, BeforeLaunch, CustodyHolds
  <1> QED  BY <1>1, Inductive, PTL

-----------------------------------------------------------------------------
(* A transaction pays for the units an account had.                          *)

PaysHolders == Pays(ledger.vault, ledger'.vault, ledger.vault.units)

\* While someone is eligible, nothing waits to be distributed.
LEMMA NothingWaits ==
    ASSUME IInv, ledger.vault.totalEligibleUnits # 0
    PROVE  /\ LedgerInv(ledger) /\ ledger \in Ledgers /\ VaultInv(ledger.vault)
           /\ ledger.vault.undistributedRewards = 0
           /\ ledger.vault.units \in [Accounts -> Nat]
  BY VaultFields DEF IInv, LedgerInv, Kept, VaultInv

LEMMA UnpaidStep ==
    ASSUME IInv, ledger.vault.totalEligibleUnits # 0, Unpaid(ledger.vault, ledger'.vault)
    PROVE  PaysHolders
  BY NothingWaits, UnpaidPays DEF PaysHolders

LEMMA SameVault ==
    ASSUME IInv, ledger.vault.totalEligibleUnits # 0, ledger'.vault = ledger.vault
    PROVE  PaysHolders
  <1>1. Unpaid(ledger.vault, ledger'.vault)
    BY DEF Unpaid
  <1> QED  BY <1>1, UnpaidStep

\* Before the launch nobody is eligible: all LAYPIPE is the excluded owner's.
LEMMA NobodyYet ==
    ASSUME IInv, "launched" \notin wiring
    PROVE  ledger.vault.totalEligibleUnits = 0
  <1>1. /\ ledger.balances = InitialLedger.balances
        /\ InitialSupplyOwner \in ledger.excluded
        /\ LedgerInv(ledger)
    BY DEF IInv, BeforeLaunch
  <1>2. ASSUME NEW x \in Accounts PROVE SlotsOf(ledger.vault, x) = {}
    <2>1. EligibleUnits(ledger, x) = 0
      <3>1. CASE x = InitialSupplyOwner
        BY <1>1, <3>1 DEF EligibleUnits
      <3>2. CASE x # InitialSupplyOwner
        <4>1. 0 \div NFT_UNIT = 0
          BY UnitAssumption, SMT
        <4> QED  BY <1>1, <3>2, <4>1, OneHolder DEF EligibleUnits, WholeUnits
      <3> QED  BY <3>1, <3>2
    <2>2. ledger.vault.units[x] = 0
      BY <1>1, <2>1 DEF LedgerInv, Matched
    <2> QED  BY <2>2 DEF SlotsOf
  <1>3. Slots(ledger.vault) = {}
    BY <1>2 DEF Slots
  <1>4. ledger.vault.totalEligibleUnits = Cardinality(Slots(ledger.vault))
    BY <1>1 DEF LedgerInv, Kept, VaultInv, Balanced
  <1> QED  BY <1>3, <1>4, FS_EmptySet

LEMMA ReleasePays ==
    ASSUME IInv, ledger.vault.totalEligibleUnits # 0, ReleaseInitialSupplyOwner
    PROVE  PaysHolders
  <1> DEFINE v == ledger.vault
             s == Settle(v, InitialSupplyOwner, 0)
  <1>1. v.undistributedRewards = 0 /\ Balanced(v) /\ v \in Vaults /\ ledger \in Ledgers
    BY NothingWaits DEF VaultInv, Balanced
  <1>2. Unpaid(v, s)
    BY <1>1, OwnerAssumption, SettleUnpaid
  <1>3. s.undistributedRewards = 0
    BY <1>1 DEF Settle, Vaults
  <1>4. ledger'.vault = Distribute(s)
    BY <1>1 DEF ReleaseInitialSupplyOwner, OwnerReleased, SyncVault, Ledgers
  <1> HIDE DEF s
  <1>5. ledger'.vault = s
    BY <1>3, <1>4 DEF Distribute
  <1> QED  BY <1>2, <1>5, UnpaidStep

LEMMA BuyPays ==
    ASSUME IInv, ledger.vault.totalEligibleUnits # 0,
           NEW recipient \in Recipients, NEW out \in 1 .. INITIAL_SUPPLY,
           NEW fee \in 0 .. MaxFees, Buy(recipient, out, fee)
    PROVE  PaysHolders
  <1> DEFINE paid  == Accrued(ledger, fee)
             taken == SwapTaken(paid, out)
  <1>1. BuyOK(recipient, out, fee, paid, taken)
    BY BuyMoves
  <1>2. VaultInv(ledger.vault) /\ LedgerInv(ledger)
    BY NothingWaits
  <1>3. /\ Pays(ledger.vault, paid.vault, ledger.vault.units)
        /\ paid.vault.undistributedRewards = 0
    BY <1>1, <1>2, AccruedPays DEF BuyOK
  <1>4. taken = Transferred(paid, PoolManager, Router, out)
    BY DEF SwapTaken
  <1> HIDE DEF paid, taken
  <1>5. /\ Unpaid(paid.vault, taken.vault)
        /\ taken.vault.undistributedRewards = 0
    BY <1>1, <1>3, <1>4, SystemFacts, TransferPays DEF BuyOK
  <1>6. LedgerInv(taken)
    BY <1>1 DEF BuyOK, Moves
  <1>7. Unpaid(taken.vault, ledger'.vault)
    BY <1>1, <1>5, <1>6, SystemFacts, TransferPays DEF BuyOK
  <1> QED  BY <1>3, <1>5, <1>7 DEF PaysHolders, Pays, Unpaid

LEMMA SellPays ==
    ASSUME IInv, ledger.vault.totalEligibleUnits # 0,
           NEW seller \in Holders, NEW amount \in 1 .. INITIAL_SUPPLY,
           NEW spent \in 1 .. INITIAL_SUPPLY, NEW fee \in 0 .. MaxFees,
           Sell(seller, amount, spent, fee)
    PROVE  PaysHolders
  <1> DEFINE pulled  == Transferred(ledger, seller, Router, amount)
             paid    == Accrued(pulled, fee)
             settled == SwapSettled(paid, spent)
             left    == amount - spent
             back    == Transferred(settled, Router, seller, left)
  <1>1. SellOK(seller, amount, spent, fee, pulled, paid, settled, back)
    BY SellMoves
  <1>2. /\ VaultInv(ledger.vault) /\ LedgerInv(ledger)
        /\ ledger.vault.undistributedRewards = 0
        /\ ledger.vault.units \in [Accounts -> Nat]
    BY NothingWaits
  <1>3. {Router, PoolManager} \subseteq ledger.excluded
    BY <1>1 DEF SellOK, IInv, Order, SystemHeld, SystemAddresses
  <1>4. /\ Unpaid(ledger.vault, pulled.vault)
        /\ pulled.vault.undistributedRewards = 0
    BY <1>1, <1>2, SystemFacts, TransferPays DEF SellOK
  <1> HIDE DEF pulled
  <1>5. LedgerInv(pulled) /\ pulled.excluded = ledger.excluded
    BY <1>1 DEF SellOK, Moves
  <1>6. /\ Pays(pulled.vault, paid.vault, pulled.vault.units)
        /\ paid.vault.undistributedRewards # 0 => Unpaid(pulled.vault, paid.vault)
    BY <1>1, <1>5, AccruedPays DEF SellOK
  <1> HIDE DEF paid
  <1>7. LedgerInv(paid) /\ {Router, PoolManager} \subseteq paid.excluded
    BY <1>1, <1>3, <1>5 DEF SellOK, SameBooks
  <1>8. /\ Unpaid(paid.vault, settled.vault)
        /\ settled.vault.undistributedRewards = paid.vault.undistributedRewards
    <2>1. settled = Transferred(paid, Router, PoolManager, spent)
      BY DEF SwapSettled
    <2> HIDE DEF settled
    <2> QED  BY <1>1, <1>7, <2>1, SystemFacts, TransferPays DEF SellOK
  <1> HIDE DEF settled
  <1>9. LedgerInv(settled) /\ settled.excluded = ledger.excluded
    BY <1>1, <1>5 DEF SellOK, Moves, SameBooks
  <1>10. /\ settled.vault.undistributedRewards = 0 => Unpaid(settled.vault, back.vault)
         /\ Pays(settled.vault, back.vault, back.vault.units)
    BY <1>1, <1>3, <1>9, SystemFacts, TransferPays DEF SellOK
  <1> HIDE DEF back
  <1>11. LedgerInv(back) /\ back.excluded = ledger.excluded
    BY <1>1, <1>9 DEF SellOK, Moves
  <1>12. /\ pulled.vault.units \in [Accounts -> Nat]
         /\ \A x \in Accounts : pulled.vault.units[x] <= ledger.vault.units[x]
    <2>1. ASSUME NEW x \in Accounts, x \notin ledger.excluded
          PROVE  pulled.balances[x] <= ledger.balances[x]
      <3>1. ledger.balances[x] \in Nat /\ x # Router
        BY <1>2, <1>3, <2>1 DEF LedgerInv, Kept, Ledgers
      <3> QED  BY <1>1, <3>1 DEF SellOK, Moves
    <2> QED  BY <1>2, <1>5, <2>1, FewerUnits
  <1>13. /\ back.vault.units \in [Accounts -> Nat]
         /\ \A x \in Accounts : back.vault.units[x] <= ledger.vault.units[x]
    <2>1. ASSUME NEW x \in Accounts, x \notin ledger.excluded
          PROVE  back.balances[x] <= ledger.balances[x]
      <3>1. ledger.balances[x] \in Nat /\ x # Router /\ x # PoolManager
        BY <1>2, <1>3, <2>1 DEF LedgerInv, Kept, Ledgers
      <3>2. settled.balances[x] = pulled.balances[x]
        BY <1>1, <3>1 DEF SellOK, Moves, SameBooks
      <3>3. CASE x = seller
        <4>1. pulled.balances[x] = ledger.balances[x] - amount
              /\ back.balances[x] = settled.balances[x] + (amount - spent)
          BY <1>1, <3>3 DEF SellOK, Moves
        <4>2. amount \in Nat /\ spent \in Nat
          BY <1>1 DEF SellOK
        <4> QED  BY <3>1, <3>2, <4>1, <4>2
      <3>4. CASE x # seller
        <4>1. pulled.balances[x] = ledger.balances[x]
              /\ back.balances[x] = settled.balances[x]
          BY <1>1, <3>1, <3>4 DEF SellOK, Moves
        <4> QED  BY <3>1, <3>2, <4>1
      <3> QED  BY <3>3, <3>4
    <2> QED  BY <1>2, <1>11, <2>1, FewerUnits
  <1>14. ledger' = settled \/ ledger' = back
    BY <1>1 DEF SellOK
  <1>15. CASE paid.vault.undistributedRewards = 0
    <2>1. Unpaid(settled.vault, ledger'.vault)
      BY <1>8, <1>10, <1>14, <1>15 DEF Unpaid
    <2>2. Pays(ledger.vault, ledger'.vault, pulled.vault.units)
      BY <1>4, <1>6, <1>8, <2>1 DEF Unpaid, Pays
    <2>3. VaultInv(ledger'.vault)
      BY <1>9, <1>11, <1>14 DEF LedgerInv, Kept
    <2> QED  BY <1>2, <1>12, <2>2, <2>3, PaysMore DEF PaysHolders
  <1>16. CASE paid.vault.undistributedRewards # 0
    <2>1. Unpaid(ledger.vault, settled.vault)
      BY <1>4, <1>6, <1>8, <1>16 DEF Unpaid
    <2>2. CASE ledger' = settled
      BY <2>1, <2>2, UnpaidStep
    <2>3. CASE ledger' = back
      <3>1. Pays(ledger.vault, back.vault, back.vault.units)
        BY <1>10, <2>1 DEF Unpaid, Pays
      <3>2. VaultInv(back.vault)
        BY <1>11 DEF LedgerInv, Kept
      <3>3. Pays(ledger.vault, back.vault, ledger.vault.units)
        BY <1>2, <1>13, <3>1, <3>2, PaysMore
      <3> QED  BY <2>3, <3>3 DEF PaysHolders
    <2> QED  BY <1>14, <2>2, <2>3
  <1> QED  BY <1>15, <1>16

LEMMA StepPays ==
    IInv /\ [Next]_vars => (ledger.vault.totalEligibleUnits # 0 => PaysHolders)
  <1> SUFFICES ASSUME IInv, [Next]_vars, ledger.vault.totalEligibleUnits # 0
               PROVE  PaysHolders
    OBVIOUS
  <1>0. /\ LedgerInv(ledger) /\ ledger \in Ledgers /\ VaultInv(ledger.vault)
        /\ ledger.vault.undistributedRewards = 0
    BY NothingWaits
  <1>1. CASE UNCHANGED ledger
    BY <1>1, SameVault
  <1>2. CASE ConfigureSystemExclusions
    <2>1. ledger'.vault = ledger.vault
      BY <1>0, <1>2 DEF ConfigureSystemExclusions, Excluded, Ledgers
    <2> QED  BY <2>1, SameVault
  <1>3. CASE ReleaseInitialSupplyOwner
    BY <1>3, ReleasePays
  <1>4. CASE \E dust \in 0 .. MaxLaunchDust : Launch(dust)
    BY <1>4, NobodyYet DEF Launch, Wire
  <1>5. ASSUME NEW from \in Holders, NEW to \in Recipients, NEW amount \in 1 .. INITIAL_SUPPLY,
               Transfer(from, to, amount)
        PROVE  PaysHolders
    <2>1. /\ amount \in Nat /\ amount <= ledger.balances[from]
          /\ ledger' = Transferred(ledger, from, to, amount)
      BY <1>5, SupplyAssumption DEF Transfer, TransferAllowed
    <2>2. Unpaid(ledger.vault, ledger'.vault)
      BY <1>0, <2>1, SystemFacts, TransferPays
    <2> QED  BY <2>2, UnpaidStep
  <1>6. ASSUME NEW from \in Holders, NEW to \in Recipients, TransferNFT(from, to)
        PROVE  PaysHolders
    <2>1. Unpaid(ledger.vault, ledger'.vault)
      BY <1>0, <1>6, SystemFacts, NFTTransferPays DEF TransferNFT
    <2> QED  BY <2>1, UnpaidStep
  <1>7. ASSUME NEW a \in Holders, SetSkipNFT(a) PROVE PaysHolders
    <2>1. ledger'.vault = ledger.vault
      BY <1>0, <1>7 DEF SetSkipNFT, Ledgers
    <2> QED  BY <2>1, SameVault
  <1>8. ASSUME NEW a \in Holders, Claim(a) PROVE PaysHolders
    <2>1. ledger'.vault = ClaimVault(ledger.vault, a)
      BY <1>0, <1>8 DEF Claim, Ledgers
    <2> QED  BY <1>0, <2>1, SystemFacts, ClaimPays DEF PaysHolders
  <1>9. CASE \E fee \in 0 .. MaxFees, to \in Recipients, out \in 1 .. INITIAL_SUPPLY :
                Buy(to, out, fee)
    BY <1>9, BuyPays
  <1>10. CASE \E fee \in 0 .. MaxFees, seller \in Holders,
                amount, spent \in 1 .. INITIAL_SUPPLY : Sell(seller, amount, spent, fee)
    BY <1>10, SellPays
  <1>11. CASE SetRewardNotifier \/ SetLauncher \/ SetCanonicalRouter
              \/ \E amount \in {0, INITIAL_SUPPLY} : Approve(amount)
    <2>1. UNCHANGED ledger
      BY <1>11 DEF SetRewardNotifier, SetLauncher, SetCanonicalRouter, Approve
    <2> QED  BY <1>1, <2>1
  <1> QED
    BY <1>1, <1>2, <1>3, <1>4, <1>5, <1>6, <1>7, <1>8, <1>9, <1>10, <1>11 DEF Next, vars

\* No transaction pays for units it brings: what a buy delivers earns nothing of
\* that buy's own fee, and a seller whose refund alone is eligible when the fee is
\* spread is paid for no more than was held before.
THEOREM NoPayForNewUnits == Spec => NewUnitsEarnNothing
  <1>1. IInv /\ [Next]_vars =>
          [ledger.vault.totalEligibleUnits # 0 =>
              \A a \in Accounts :
                  (Claimable(ledger'.vault, a) - Claimable(ledger.vault, a)) * ACC_PRECISION
                      < ledger.vault.units[a]
                          * (ledger'.vault.rewardPerUnitStored - ledger.vault.rewardPerUnitStored)
                        + ACC_PRECISION]_vars
    BY StepPays DEF PaysHolders, Pays
  <1> QED  BY <1>1, Inductive, PTL DEF Spec, NewUnitsEarnNothing

================================================================================
