------------------------ MODULE RewardAccounting_proofs ------------------------
(***************************************************************************)
(* What each function of the reward vault preserves, for every set of      *)
(* accounts, precision and amount.  The sums over accounts are             *)
(* cardinalities of finite unions, so the argument needs no induction:     *)
(* settling an account replaces its part of the union (SplitUnion), a      *)
(* distribution adds slots times new ticks (FS_Product).  The lemmas on    *)
(* such sums come first (CountCard to the sums of Totals); the proofs of   *)
(* the singleton and of the launchpad's revenue use them too.              *)
(***************************************************************************)
EXTENDS RewardAccounting, Totals, FiniteSetTheorems, TLAPS

-----------------------------------------------------------------------------
\* The integers above p up to s number s - p.
LEMMA CountCard ==
    ASSUME NEW p \in Nat, NEW s \in Nat, p <= s
    PROVE  IsFiniteSet(p + 1 .. s) /\ Cardinality(p + 1 .. s) = s - p
  <1>1. p + 1 \in Int /\ s \in Int
    OBVIOUS
  <1>2. IsFiniteSet(p + 1 .. s)
        /\ Cardinality(p + 1 .. s) = IF p + 1 > s THEN 0 ELSE s - (p + 1) + 1
    BY <1>1, FS_Interval
  <1>3. (IF p + 1 > s THEN 0 ELSE s - (p + 1) + 1) = s - p
    OBVIOUS
  <1> QED  BY <1>2, <1>3, SMT

LEMMA DisjointCard ==
    ASSUME NEW S, IsFiniteSet(S), NEW T, IsFiniteSet(T), S \cap T = {}
    PROVE  /\ IsFiniteSet(S \cup T)
           /\ Cardinality(S \cup T) = Cardinality(S) + Cardinality(T)
  <1>1. IsFiniteSet(S \cup T)
        /\ Cardinality(S \cup T) = Cardinality(S) + Cardinality(T) - Cardinality(S \cap T)
    BY FS_Union
  <1>2. Cardinality(S) \in Nat /\ Cardinality(T) \in Nat /\ Cardinality(S \cap T) = 0
    BY FS_CardinalityType, FS_EmptySet
  <1> QED  BY <1>1, <1>2

\* The union of a finite, pairwise disjoint family counts one member apart.
LEMMA SplitUnion ==
    ASSUME NEW A, IsFiniteSet(A), NEW F, NEW a \in A,
           \A b \in A : IsFiniteSet(F[b]),
           \A b \in A \ {a} : F[b] \cap F[a] = {}
    PROVE  LET all  == UNION {F[b] : b \in A}
               rest == UNION {F[b] : b \in A \ {a}}
           IN  /\ IsFiniteSet(all) /\ IsFiniteSet(rest)
               /\ all = rest \cup F[a]
               /\ Cardinality(all) = Cardinality(rest) + Cardinality(F[a])
  <1> DEFINE all  == UNION {F[b] : b \in A}
             rest == UNION {F[b] : b \in A \ {a}}
             parts == {F[b] : b \in A}
             pick == [b \in A |-> F[b]]
  <1>1. IsFiniteSet(parts)
    <2>1. pick \in Surjection(A, parts)
      BY DEF Surjection
    <2> QED  BY <2>1, FS_Surjection
  <1>2. IsFiniteSet(all)
    BY <1>1, FS_UNION
  <1>3. rest \in SUBSET all
    OBVIOUS
  <1>4. IsFiniteSet(rest)
    BY <1>2, <1>3, FS_Subset
  <1>5. all = rest \cup F[a]
    OBVIOUS
  <1>6. rest \cap F[a] = {}
    OBVIOUS
  <1>7. Cardinality(rest \cup F[a]) = Cardinality(rest) + Cardinality(F[a])
    BY <1>4, <1>6, DisjointCard
  <1> QED  BY <1>2, <1>4, <1>5, <1>7

-----------------------------------------------------------------------------
LEMMA ParcelCard ==
    ASSUME NEW q, NEW n \in Nat
    PROVE  IsFiniteSet({q} \X (1 .. n)) /\ Cardinality({q} \X (1 .. n)) = n
  <1>0. n \in Nat /\ 0 \in Nat /\ 0 <= n
    OBVIOUS
  <1>1. IsFiniteSet(0 + 1 .. n) /\ Cardinality(0 + 1 .. n) = n - 0
    BY <1>0, CountCard
  <1>2. IsFiniteSet(1 .. n) /\ Cardinality(1 .. n) = n
    BY <1>1
  <1>3. IsFiniteSet({q}) /\ Cardinality({q}) = 1
    BY FS_Singleton
  <1>4. IsFiniteSet({q} \X (1 .. n)) /\ Cardinality({q} \X (1 .. n)) = 1 * n
    BY <1>2, <1>3, FS_Product
  <1> QED  BY <1>4

LEMMA ParcelsSplit ==
    ASSUME NEW S, IsFiniteSet(S), NEW f \in [S -> Nat], NEW p \in S
    PROVE  LET rest == UNION {{q} \X (1 .. f[q]) : q \in S \ {p}}
           IN  /\ IsFiniteSet(Parcels(f)) /\ IsFiniteSet(rest)
               /\ Cardinality(Parcels(f)) = Cardinality(rest) + f[p]
  <1> DEFINE F == [q \in S |-> {q} \X (1 .. f[q])]
  <1>1. \A q \in S : IsFiniteSet(F[q]) /\ Cardinality(F[q]) = f[q]
    BY ParcelCard
  <1>2. \A q \in S \ {p} : F[q] \cap F[p] = {}
    OBVIOUS
  <1>3. Parcels(f) = UNION {F[q] : q \in S}
    BY DEF Parcels
  <1>4. UNION {{q} \X (1 .. f[q]) : q \in S \ {p}} = UNION {F[q] : q \in S \ {p}}
    OBVIOUS
  <1>a. \A q \in S : IsFiniteSet(F[q])
    BY <1>1
  <1> HIDE DEF F
  <1>5. LET all  == UNION {F[q] : q \in S}
            rest == UNION {F[q] : q \in S \ {p}}
        IN  /\ IsFiniteSet(all) /\ IsFiniteSet(rest)
            /\ all = rest \cup F[p]
            /\ Cardinality(all) = Cardinality(rest) + Cardinality(F[p])
    BY <1>a, <1>2, SplitUnion, Zenon
  <1>6. Cardinality(F[p]) = f[p]
    BY <1>1
  <1> QED  BY <1>3, <1>4, <1>5, <1>6, Zenon

LEMMA TogetherNat ==
    ASSUME NEW S, IsFiniteSet(S), NEW f \in [S -> Nat]
    PROVE  Together(f) \in Nat
  <1>1. IsFiniteSet(Parcels(f))
    <2>1. CASE S = {}
      <3>1. Parcels(f) = {}
        BY <2>1 DEF Parcels
      <3> QED  BY <3>1, FS_EmptySet
    <2>2. CASE \E p \in S : TRUE
      BY <2>2, ParcelsSplit
    <2> QED  BY <2>1, <2>2
  <1> QED  BY <1>1, FS_CardinalityType DEF Together

\* One amount changes, the others stay.
LEMMA TogetherChanged ==
    ASSUME NEW S, IsFiniteSet(S), NEW f \in [S -> Nat], NEW g \in [S -> Nat], NEW p \in S,
           \A q \in S \ {p} : g[q] = f[q]
    PROVE  Together(g) = Together(f) - f[p] + g[p]
  <1> DEFINE rest(x) == UNION {{q} \X (1 .. x[q]) : q \in S \ {p}}
  <1>1. g[p] \in Nat /\ f[p] \in Nat
    OBVIOUS
  <1>2. rest(g) = rest(f)
    <2>1. \A q \in S \ {p} : {q} \X (1 .. g[q]) = {q} \X (1 .. f[q])
      OBVIOUS
    <2> QED  BY <2>1
  <1>3. IsFiniteSet(rest(f)) /\ Cardinality(Parcels(f)) = Cardinality(rest(f)) + f[p]
    BY ParcelsSplit, Zenon
  <1>4. Cardinality(Parcels(g)) = Cardinality(rest(g)) + g[p]
    BY ParcelsSplit, Zenon
  <1> HIDE DEF rest
  <1>5. Cardinality(rest(f)) \in Nat
    BY <1>3, FS_CardinalityType
  <1>6. Cardinality(Parcels(g)) = Cardinality(Parcels(f)) - f[p] + g[p]
    BY <1>1, <1>2, <1>3, <1>4, <1>5
  <1> QED  BY <1>6 DEF Together

LEMMA TogetherReplaced ==
    ASSUME NEW S, IsFiniteSet(S), NEW f \in [S -> Nat], NEW p \in S, NEW n \in Nat
    PROVE  Together([f EXCEPT ![p] = n]) = Together(f) - f[p] + n
  <1> DEFINE g == [f EXCEPT ![p] = n]
  <1>1. g \in [S -> Nat] /\ g[p] = n /\ \A q \in S \ {p} : g[q] = f[q]
    OBVIOUS
  <1> HIDE DEF g
  <1>2. Together(g) = Together(f) - f[p] + g[p]
    BY <1>1, TogetherChanged, Zenon
  <1> QED  BY <1>1, <1>2 DEF g

-----------------------------------------------------------------------------
LEMMA FloorFacts ==
    ASSUME NEW n \in Nat, NEW d \in Nat \ {0}
    PROVE  /\ n \div d \in Nat
           /\ (n \div d) * d <= n
           /\ n < (n \div d) * d + d
  <1>1. n \div d \in Nat
    BY SMT
  <1>2. n = d * (n \div d) + (n % d) /\ n % d \in 0 .. d - 1
    BY SMT
  <1> QED  BY <1>1, <1>2, SMT

LEMMA ProductNat ==
    ASSUME NEW m \in Nat, NEW n \in Nat
    PROVE  m * n \in Nat
  BY SMT

-----------------------------------------------------------------------------
\* The slots of one account.
LEMMA SlotsOfCard ==
    ASSUME NEW v \in Vaults, NEW a \in Accounts
    PROVE  /\ IsFiniteSet(SlotsOf(v, a))
           /\ Cardinality(SlotsOf(v, a)) = v.units[a]
  <1> DEFINE u == v.units[a]
  <1>1. u \in Nat
    BY DEF Vaults
  <1> HIDE DEF u
  <1>2. IsFiniteSet(1 .. u) /\ Cardinality(1 .. u) = u
    <2>1. IsFiniteSet(0 + 1 .. u) /\ Cardinality(0 + 1 .. u) = u - 0
      BY <1>1, CountCard
    <2> QED  BY <1>1, <2>1
  <1>3. IsFiniteSet({a}) /\ Cardinality({a}) = 1
    BY FS_Singleton
  <1>4. IsFiniteSet({a} \X (1 .. u)) /\ Cardinality({a} \X (1 .. u)) = 1 * u
    BY <1>2, <1>3, FS_Product
  <1> QED  BY <1>1, <1>4 DEF SlotsOf, u

\* The atoms of one account: its unsettled ticks and its accrued wei.
LEMMA OwedToCard ==
    ASSUME NEW v \in Vaults, NEW a \in Accounts,
           v.rewardPerUnitPaid[a] <= v.rewardPerUnitStored
    PROVE  /\ IsFiniteSet(OwedTo(v, a))
           /\ Cardinality(OwedTo(v, a)) =
                v.units[a] * (v.rewardPerUnitStored - v.rewardPerUnitPaid[a])
                  + v.accrued[a] * ACC_PRECISION
  <1> DEFINE u == v.units[a]
             p == v.rewardPerUnitPaid[a]
             s == v.rewardPerUnitStored
             w == v.accrued[a] * ACC_PRECISION
             ticks == SlotsOf(v, a) \X (p + 1 .. s)
             wei   == {<<a, 0>>} \X (1 .. w)
  <1>1. p \in Nat /\ s \in Nat /\ p <= s /\ u \in Nat /\ v.accrued[a] \in Nat
    BY DEF Vaults
  <1>2. w \in Nat
    BY <1>1, ProductNat, PrecisionAssumption
  <1> HIDE DEF u, p, s, w
  <1>3. IsFiniteSet(p + 1 .. s) /\ Cardinality(p + 1 .. s) = s - p
    BY <1>1, CountCard
  <1>4. IsFiniteSet(1 .. w) /\ Cardinality(1 .. w) = w
    <2>1. IsFiniteSet(0 + 1 .. w) /\ Cardinality(0 + 1 .. w) = w - 0
      BY <1>2, CountCard
    <2> QED  BY <1>2, <2>1
  <1>5. IsFiniteSet(ticks) /\ Cardinality(ticks) = u * (s - p)
    <2>1. IsFiniteSet(SlotsOf(v, a)) /\ Cardinality(SlotsOf(v, a)) = u
      BY SlotsOfCard DEF u
    <2>2. IsFiniteSet(ticks)
          /\ Cardinality(ticks) = Cardinality(SlotsOf(v, a)) * Cardinality(p + 1 .. s)
      BY <1>3, <2>1, FS_Product
    <2> QED  BY <1>3, <2>1, <2>2, Zenon
  <1>6. IsFiniteSet(wei) /\ Cardinality(wei) = w
    <2>1. IsFiniteSet({<<a, 0>>}) /\ Cardinality({<<a, 0>>}) = 1
      BY FS_Singleton
    <2>2. IsFiniteSet(wei) /\ Cardinality(wei) = 1 * w
      BY <1>4, <2>1, FS_Product
    <2> QED  BY <1>2, <2>2
  <1>7. ticks \cap wei = {}
    <2>1. <<a, 0>> \notin SlotsOf(v, a)
      BY <1>1 DEF SlotsOf, u
    <2> QED  BY <2>1
  <1>8. OwedTo(v, a) = ticks \cup wei
    BY DEF OwedTo, p, s, w
  <1> HIDE DEF ticks, wei
  <1>9. IsFiniteSet(ticks \cup wei)
        /\ Cardinality(ticks \cup wei) = Cardinality(ticks) + Cardinality(wei)
    BY <1>5, <1>6, <1>7, DisjointCard
  <1> QED  BY <1>5, <1>6, <1>8, <1>9, Zenon DEF u, p, s, w

\* Every checkpoint lies at or below the accumulator.
Settled(v) == \A a \in Accounts : v.rewardPerUnitPaid[a] <= v.rewardPerUnitStored

LEMMA SlotsSplit ==
    ASSUME NEW v \in Vaults, NEW a \in Accounts
    PROVE  LET rest == UNION {SlotsOf(v, b) : b \in Accounts \ {a}}
           IN  /\ IsFiniteSet(Slots(v)) /\ IsFiniteSet(rest)
               /\ Cardinality(Slots(v)) = Cardinality(rest) + v.units[a]
  <1> DEFINE F == [b \in Accounts |-> SlotsOf(v, b)]
  <1>1. \A b \in Accounts : IsFiniteSet(F[b])
    BY SlotsOfCard
  <1>2. \A b \in Accounts \ {a} : F[b] \cap F[a] = {}
    BY DEF SlotsOf
  <1>3. Slots(v) = UNION {F[b] : b \in Accounts}
    BY DEF Slots
  <1>4. UNION {SlotsOf(v, b) : b \in Accounts \ {a}} = UNION {F[b] : b \in Accounts \ {a}}
    OBVIOUS
  <1>5. F[a] = SlotsOf(v, a)
    OBVIOUS
  <1> HIDE DEF F
  <1>6. LET all  == UNION {F[b] : b \in Accounts}
            rest == UNION {F[b] : b \in Accounts \ {a}}
        IN  /\ IsFiniteSet(all) /\ IsFiniteSet(rest)
            /\ all = rest \cup F[a]
            /\ Cardinality(all) = Cardinality(rest) + Cardinality(F[a])
    BY <1>1, <1>2, AccountsAssumption, SplitUnion, Zenon
  <1>7. Cardinality(F[a]) = v.units[a]
    BY <1>5, SlotsOfCard
  <1> QED  BY <1>3, <1>4, <1>6, <1>7, Zenon

LEMMA OwedSplit ==
    ASSUME NEW v \in Vaults, Settled(v), NEW a \in Accounts
    PROVE  LET rest == UNION {OwedTo(v, b) : b \in Accounts \ {a}}
           IN  /\ IsFiniteSet(Owed(v)) /\ IsFiniteSet(rest)
               /\ Cardinality(Owed(v)) = Cardinality(rest) + Cardinality(OwedTo(v, a))
  <1> DEFINE F == [b \in Accounts |-> OwedTo(v, b)]
  <1>1. \A b \in Accounts : IsFiniteSet(F[b])
    BY OwedToCard DEF Settled
  <1>2. \A b \in Accounts \ {a} : F[b] \cap F[a] = {}
    <2>1. \A b \in Accounts : \A x \in OwedTo(v, b) : x[1][1] = b
      BY DEF OwedTo, SlotsOf
    <2> QED  BY <2>1
  <1>3. Owed(v) = UNION {F[b] : b \in Accounts}
    BY DEF Owed
  <1>4. UNION {OwedTo(v, b) : b \in Accounts \ {a}} = UNION {F[b] : b \in Accounts \ {a}}
    OBVIOUS
  <1>5. F[a] = OwedTo(v, a)
    OBVIOUS
  <1> HIDE DEF F
  <1>6. LET all  == UNION {F[b] : b \in Accounts}
            rest == UNION {F[b] : b \in Accounts \ {a}}
        IN  /\ IsFiniteSet(all) /\ IsFiniteSet(rest)
            /\ all = rest \cup F[a]
            /\ Cardinality(all) = Cardinality(rest) + Cardinality(F[a])
    BY <1>1, <1>2, AccountsAssumption, SplitUnion, Zenon
  <1> QED  BY <1>3, <1>4, <1>5, <1>6, Zenon

\* Slots and atoms are finite also when there is no account at all.
LEMMA Finiteness ==
    ASSUME NEW v \in Vaults, Settled(v)
    PROVE  /\ IsFiniteSet(Slots(v)) /\ Cardinality(Slots(v)) \in Nat
           /\ IsFiniteSet(Owed(v)) /\ Cardinality(Owed(v)) \in Nat
  <1>1. IsFiniteSet(Slots(v)) /\ IsFiniteSet(Owed(v))
    <2>1. CASE Accounts = {}
      <3>1. Slots(v) = {} /\ Owed(v) = {}
        BY <2>1 DEF Slots, Owed
      <3> QED  BY <3>1, FS_EmptySet
    <2>2. CASE \E a \in Accounts : TRUE
      BY <2>2, SlotsSplit, OwedSplit
    <2> QED  BY <2>1, <2>2
  <1> QED  BY <1>1, FS_CardinalityType

LEMMA DustInt ==
    ASSUME NEW v \in Vaults, Settled(v)
    PROVE  Dust(v) \in Int
  <1>1. Cardinality(Owed(v)) \in Nat
    BY Finiteness
  <1>2. Accounted(v) - v.undistributedRewards \in Int
    BY DEF Accounted, Vaults
  <1>3. ACC_PRECISION * (Accounted(v) - v.undistributedRewards) \in Int
    BY <1>2, PrecisionAssumption
  <1> QED  BY <1>1, <1>3 DEF Dust

-----------------------------------------------------------------------------
\* claimable(a) is the accrued wei plus the whole wei among the unsettled ticks.
LEMMA EarnedFacts ==
    ASSUME NEW v \in Vaults, Settled(v), NEW a \in Accounts
    PROVE  /\ Earned(v, a) \in Nat
           /\ Claimable(v, a) \in Nat
           /\ Claimable(v, a) * ACC_PRECISION <= Cardinality(OwedTo(v, a))
           /\ Cardinality(OwedTo(v, a)) < Claimable(v, a) * ACC_PRECISION + ACC_PRECISION
           /\ Cardinality(OwedTo(v, a)) \in Nat
  <1> DEFINE t == v.units[a] * (v.rewardPerUnitStored - v.rewardPerUnitPaid[a])
             c == v.accrued[a]
  <1>1. v.units[a] \in Nat /\ v.rewardPerUnitStored - v.rewardPerUnitPaid[a] \in Nat
    BY DEF Vaults, Settled
  <1>2. t \in Nat
    BY <1>1, ProductNat
  <1>3. c \in Nat
    BY DEF Vaults
  <1>4. Cardinality(OwedTo(v, a)) = t + c * ACC_PRECISION
    BY OwedToCard DEF Settled
  <1>5. Earned(v, a) = t \div ACC_PRECISION /\ Claimable(v, a) = c + Earned(v, a)
    BY DEF Earned, Claimable
  <1> HIDE DEF t, c
  <1>6. /\ t \div ACC_PRECISION \in Nat /\ (t \div ACC_PRECISION) * ACC_PRECISION <= t
        /\ t < (t \div ACC_PRECISION) * ACC_PRECISION + ACC_PRECISION
    BY <1>2, FloorFacts, PrecisionAssumption
  <1> DEFINE q == t \div ACC_PRECISION
  <1>7. /\ q \in Nat /\ q * ACC_PRECISION <= t /\ ACC_PRECISION \in Nat
        /\ t < q * ACC_PRECISION + ACC_PRECISION
    BY <1>6, PrecisionAssumption
  <1> HIDE DEF q
  <1>8. (c + q) * ACC_PRECISION = c * ACC_PRECISION + q * ACC_PRECISION
    BY <1>3, <1>7
  <1>9. c * ACC_PRECISION \in Nat /\ q * ACC_PRECISION \in Nat
    BY <1>3, <1>7, ProductNat
  <1>10. /\ (c + q) * ACC_PRECISION <= t + c * ACC_PRECISION
         /\ t + c * ACC_PRECISION < (c + q) * ACC_PRECISION + ACC_PRECISION
    BY <1>2, <1>7, <1>8, <1>9
  <1>11. c + q \in Nat /\ t + c * ACC_PRECISION \in Nat
    BY <1>2, <1>3, <1>7, <1>9
  <1> QED  BY <1>4, <1>5, <1>7, <1>10, <1>11 DEF q

\* The atoms owed change only by those of the account a step touches.
LEMMA OwedReplaced ==
    ASSUME NEW v \in Vaults, Settled(v), NEW w \in Vaults, Settled(w),
           NEW a \in Accounts,
           \A b \in Accounts \ {a} : OwedTo(w, b) = OwedTo(v, b)
    PROVE  Cardinality(Owed(w)) =
             Cardinality(Owed(v)) - Cardinality(OwedTo(v, a)) + Cardinality(OwedTo(w, a))
  <1> DEFINE rest(x) == UNION {OwedTo(x, b) : b \in Accounts \ {a}}
  <1>1. rest(w) = rest(v)
    OBVIOUS
  <1>2. IsFiniteSet(rest(v)) /\ Cardinality(Owed(v)) = Cardinality(rest(v)) + Cardinality(OwedTo(v, a))
    BY OwedSplit, Zenon
  <1>3. Cardinality(Owed(w)) = Cardinality(rest(w)) + Cardinality(OwedTo(w, a))
    BY OwedSplit, Zenon
  <1> HIDE DEF rest
  <1>4. Cardinality(rest(v)) \in Nat
    BY <1>2, FS_CardinalityType
  <1>5. Cardinality(OwedTo(v, a)) \in Nat /\ Cardinality(OwedTo(w, a)) \in Nat
    BY EarnedFacts
  <1> QED  BY <1>1, <1>2, <1>3, <1>4, <1>5

\* Settling an account strands less than one wei.
LEMMA SettleBalanced ==
    ASSUME NEW v, Balanced(v), NEW a \in Accounts, NEW n \in Nat
    PROVE  /\ Balanced(Settle(v, a, n))
           /\ Dust(Settle(v, a, n)) < Dust(v) + ACC_PRECISION
  <1> DEFINE w == Settle(v, a, n)
  <1>0. v \in Vaults /\ Settled(v)
    BY DEF Balanced, Settled
  <1>1. Claimable(v, a) \in Nat
    BY <1>0, EarnedFacts
  <1>2. /\ w.units = [v.units EXCEPT ![a] = n]
        /\ w.rewardPerUnitPaid = [v.rewardPerUnitPaid EXCEPT ![a] = v.rewardPerUnitStored]
        /\ w.accrued = [v.accrued EXCEPT ![a] = Claimable(v, a)]
        /\ w.totalEligibleUnits = v.totalEligibleUnits - v.units[a] + n
        /\ w.rewardPerUnitStored = v.rewardPerUnitStored
        /\ w.undistributedRewards = v.undistributedRewards
        /\ w.totalRewardsNotified = v.totalRewardsNotified
        /\ w.totalRewardsClaimed = v.totalRewardsClaimed
    BY <1>0 DEF Settle, Vaults
  <1>3. w.totalEligibleUnits \in Nat
    <2>1. IsFiniteSet(UNION {SlotsOf(v, b) : b \in Accounts \ {a}})
          /\ v.totalEligibleUnits =
               Cardinality(UNION {SlotsOf(v, b) : b \in Accounts \ {a}}) + v.units[a]
      BY <1>0, SlotsSplit, Zenon DEF Balanced
    <2>2. Cardinality(UNION {SlotsOf(v, b) : b \in Accounts \ {a}}) \in Nat
      BY <2>1, FS_CardinalityType
    <2>3. v.units[a] \in Nat
      BY <1>0 DEF Vaults
    <2> QED  BY <1>2, <2>1, <2>2, <2>3
  <1>4. w \in Vaults
    BY <1>0, <1>1, <1>3 DEF Settle, Vaults
  <1>5. Settled(w)
    BY <1>0, <1>2 DEF Settled, Vaults
  <1> HIDE DEF w
  <1>6. w.totalEligibleUnits = Cardinality(Slots(w))
    <2> DEFINE rest(x) == UNION {SlotsOf(x, b) : b \in Accounts \ {a}}
    <2>1. rest(w) = rest(v)
      <3>1. \A b \in Accounts \ {a} : SlotsOf(w, b) = SlotsOf(v, b)
        BY <1>0, <1>2 DEF SlotsOf, Vaults
      <3> QED  BY <3>1
    <2>2. IsFiniteSet(rest(v)) /\ Cardinality(Slots(v)) = Cardinality(rest(v)) + v.units[a]
      BY <1>0, SlotsSplit, Zenon
    <2>3. Cardinality(Slots(w)) = Cardinality(rest(w)) + w.units[a]
      BY <1>4, SlotsSplit, Zenon
    <2> HIDE DEF rest
    <2>4. w.units[a] = n /\ v.units[a] \in Nat
      BY <1>0, <1>2 DEF Vaults
    <2>5. Cardinality(rest(v)) \in Nat
      BY <2>2, FS_CardinalityType
    <2>6. v.totalEligibleUnits = Cardinality(Slots(v))
      BY DEF Balanced
    <2> QED  BY <1>2, <2>1, <2>2, <2>3, <2>4, <2>5, <2>6
  <1>7. Cardinality(OwedTo(w, a)) = Claimable(v, a) * ACC_PRECISION
    <2>1. Cardinality(OwedTo(w, a)) =
            w.units[a] * (w.rewardPerUnitStored - w.rewardPerUnitPaid[a])
              + w.accrued[a] * ACC_PRECISION
      BY <1>4, <1>5, OwedToCard DEF Settled
    <2>2. w.accrued[a] = Claimable(v, a) /\ w.units[a] = n
          /\ w.rewardPerUnitStored - w.rewardPerUnitPaid[a] = 0
      BY <1>0, <1>2 DEF Vaults
    <2>3. Claimable(v, a) * ACC_PRECISION \in Nat
      BY <1>1, ProductNat, PrecisionAssumption
    <2> QED  BY <2>1, <2>2, <2>3
  <1>8. /\ Cardinality(Owed(w)) <= Cardinality(Owed(v))
        /\ Cardinality(Owed(v)) < Cardinality(Owed(w)) + ACC_PRECISION
    <2>1. \A b \in Accounts \ {a} : OwedTo(w, b) = OwedTo(v, b)
      BY <1>0, <1>2 DEF OwedTo, SlotsOf, Vaults
    <2>2. Cardinality(Owed(w)) =
             Cardinality(Owed(v)) - Cardinality(OwedTo(v, a)) + Cardinality(OwedTo(w, a))
      BY <1>0, <1>4, <1>5, <2>1, OwedReplaced
    <2>3. /\ Claimable(v, a) * ACC_PRECISION <= Cardinality(OwedTo(v, a))
          /\ Cardinality(OwedTo(v, a)) < Claimable(v, a) * ACC_PRECISION + ACC_PRECISION
          /\ Cardinality(OwedTo(v, a)) \in Nat /\ Cardinality(Owed(v)) \in Nat
      BY <1>0, EarnedFacts, Finiteness
    <2>4. Claimable(v, a) * ACC_PRECISION \in Nat /\ ACC_PRECISION \in Nat
      BY <1>1, ProductNat, PrecisionAssumption
    <2> QED  BY <1>7, <2>2, <2>3, <2>4
  <1>9. Dust(w) >= 0 /\ Dust(w) < Dust(v) + ACC_PRECISION
    <2>1. Dust(v) >= 0
      BY DEF Balanced
    <2>2. Dust(w) = ACC_PRECISION * (Accounted(v) - v.undistributedRewards) - Cardinality(Owed(w))
      BY <1>2 DEF Dust, Accounted
    <2> DEFINE m == ACC_PRECISION * (Accounted(v) - v.undistributedRewards)
    <2>3. m \in Int
      BY <1>0, PrecisionAssumption DEF Accounted, Vaults
    <2>4. Cardinality(Owed(v)) \in Nat /\ Cardinality(Owed(w)) \in Nat
      BY <1>0, <1>4, <1>5, Finiteness
    <2>5. Dust(v) = m - Cardinality(Owed(v)) /\ Dust(w) = m - Cardinality(Owed(w))
      BY <2>2 DEF Dust
    <2> HIDE DEF m
    <2> QED  BY <1>8, <2>1, <2>3, <2>4, <2>5, PrecisionAssumption
  <1> QED  BY <1>4, <1>5, <1>6, <1>9 DEF Balanced, Settled, w

\* The distributed atoms are one per slot and new tick; less than one atom per
\* slot is left over.
LEMMA DistributeInv ==
    ASSUME NEW v, Balanced(v)
    PROVE  /\ VaultInv(Distribute(v))
           /\ Dust(Distribute(v)) <= Dust(v) + v.totalEligibleUnits
  <1>0. v \in Vaults /\ Settled(v)
    BY DEF Balanced, Settled
  <1>1. CASE v.totalEligibleUnits = 0 \/ v.undistributedRewards = 0
    <2>1. Distribute(v) = v
      BY <1>1 DEF Distribute
    <2>2. Dust(v) \in Int /\ v.totalEligibleUnits \in Nat
      BY <1>0, DustInt DEF Vaults
    <2> QED  BY <1>1, <2>1, <2>2 DEF VaultInv
  <1>2. CASE v.totalEligibleUnits # 0 /\ v.undistributedRewards # 0
    <2> DEFINE w == Distribute(v)
               T == v.totalEligibleUnits
               U == v.undistributedRewards
               q == (U * ACC_PRECISION) \div T
               s == v.rewardPerUnitStored
    <2>1. T \in Nat \ {0} /\ U \in Nat /\ s \in Nat /\ U * ACC_PRECISION \in Nat
      BY <1>0, <1>2, ProductNat, PrecisionAssumption DEF Vaults
    <2>2. q \in Nat /\ q * T <= U * ACC_PRECISION /\ U * ACC_PRECISION < q * T + T
      BY <2>1, FloorFacts
    <2>3. w = [v EXCEPT !.undistributedRewards = 0, !.rewardPerUnitStored = s + q]
      BY <1>2 DEF Distribute
    <2> HIDE DEF q, w
    <2>4. /\ w.units = v.units /\ w.accrued = v.accrued
          /\ w.rewardPerUnitPaid = v.rewardPerUnitPaid
          /\ w.totalEligibleUnits = T
          /\ w.rewardPerUnitStored = s + q
          /\ w.undistributedRewards = 0
          /\ w.totalRewardsNotified = v.totalRewardsNotified
          /\ w.totalRewardsClaimed = v.totalRewardsClaimed
      BY <1>0, <2>3 DEF Vaults
    <2>5. w \in Vaults
      <3> DEFINE x == s + q
      <3>1. x \in Nat
        BY <2>1, <2>2
      <3>2. w = [v EXCEPT !.undistributedRewards = 0, !.rewardPerUnitStored = x]
        BY <2>3
      <3> HIDE DEF x
      <3> QED  BY <1>0, <3>1, <3>2 DEF Vaults
    <2>6. Settled(w)
      BY <1>0, <2>1, <2>2, <2>4 DEF Settled, Vaults
    <2>7. Slots(w) = Slots(v)
      BY <2>4 DEF Slots, SlotsOf
    <2> DEFINE added == Slots(v) \X (s + 1 .. s + q)
    <2>8. Owed(w) = Owed(v) \cup added
      <3>1. \A a \in Accounts :
              OwedTo(w, a) = OwedTo(v, a) \cup (SlotsOf(v, a) \X (s + 1 .. s + q))
        <4> TAKE a \in Accounts
        <4> DEFINE p == v.rewardPerUnitPaid[a]
        <4>1. p \in Nat /\ p <= s
          BY <1>0 DEF Vaults, Settled
        <4>2. (p + 1 .. s + q) = (p + 1 .. s) \cup (s + 1 .. s + q)
          BY <2>1, <2>2, <4>1
        <4>3. SlotsOf(w, a) = SlotsOf(v, a)
          BY <2>4 DEF SlotsOf
        <4>4. w.rewardPerUnitPaid[a] = p /\ w.accrued[a] = v.accrued[a]
          BY <2>4
        <4> HIDE DEF p
        <4>5. SlotsOf(v, a) \X (p + 1 .. s + q) =
                (SlotsOf(v, a) \X (p + 1 .. s)) \cup (SlotsOf(v, a) \X (s + 1 .. s + q))
          BY <4>2
        <4> QED  BY <2>4, <4>3, <4>4, <4>5 DEF OwedTo, p
      <3> QED  BY <3>1 DEF Owed, Slots
    <2>9. IsFiniteSet(added) /\ Cardinality(added) = T * q
      <3>1. IsFiniteSet(Slots(v)) /\ T = Cardinality(Slots(v))
        BY <1>0, Finiteness DEF Balanced
      <3>2. IsFiniteSet(s + 1 .. s + q) /\ Cardinality(s + 1 .. s + q) = q
        <4>1. s + q \in Nat /\ s <= s + q /\ (s + q) - s = q
          BY <2>1, <2>2
        <4> QED  BY <2>1, <4>1, CountCard
      <3>3. IsFiniteSet(added)
            /\ Cardinality(added) = Cardinality(Slots(v)) * Cardinality(s + 1 .. s + q)
        BY <3>1, <3>2, FS_Product
      <3> QED  BY <3>1, <3>2, <3>3, Zenon
    <2>10. Owed(v) \cap added = {}
      <3>1. \A a \in Accounts : \A x \in OwedTo(v, a) : x[1] \in Slots(v) => x[2] <= s
        <4> TAKE a \in Accounts
        <4> TAKE x \in OwedTo(v, a)
        <4>1. CASE x \in {<<a, 0>>} \X (1 .. v.accrued[a] * ACC_PRECISION)
          <5>1. x[1] = <<a, 0>>
            BY <4>1
          <5>2. <<a, 0>> \notin Slots(v)
            BY DEF Slots, SlotsOf
          <5> QED  BY <5>1, <5>2
        <4>2. CASE x \in SlotsOf(v, a) \X (v.rewardPerUnitPaid[a] + 1 .. s)
          BY <4>2, <2>1
        <4> QED  BY <4>1, <4>2 DEF OwedTo
      <3>2. \A x \in added : x[1] \in Slots(v) /\ ~(x[2] <= s)
        BY <2>1, <2>2
      <3> QED  BY <3>1, <3>2 DEF Owed
    <2>11. Cardinality(Owed(w)) = Cardinality(Owed(v)) + T * q
      <3>1. IsFiniteSet(Owed(v))
        BY <1>0, Finiteness
      <3> HIDE DEF added
      <3>2. Cardinality(Owed(v) \cup added) = Cardinality(Owed(v)) + Cardinality(added)
        BY <2>9, <2>10, <3>1, DisjointCard
      <3> QED  BY <2>8, <2>9, <3>2, Zenon
    <2>12. Dust(w) >= 0 /\ Dust(w) <= Dust(v) + T
      <3> DEFINE m == ACC_PRECISION * (Accounted(v) - U)
      <3>1. Accounted(w) = Accounted(v) /\ Accounted(v) \in Int
        BY <1>0, <2>4 DEF Accounted, Vaults
      <3>2. ACC_PRECISION * (Accounted(w) - w.undistributedRewards) = m + U * ACC_PRECISION
        BY <2>1, <2>4, <3>1, PrecisionAssumption
      <3>3. /\ m \in Int /\ T * q \in Nat /\ T * q <= U * ACC_PRECISION
            /\ U * ACC_PRECISION < T * q + T
        BY <2>1, <2>2, <3>1, ProductNat, PrecisionAssumption
      <3>4. Cardinality(Owed(v)) \in Nat
        BY <1>0, Finiteness
      <3>5. m - Cardinality(Owed(v)) >= 0 /\ Dust(v) = m - Cardinality(Owed(v))
        BY DEF Balanced, Dust
      <3> HIDE DEF m
      <3>6. Dust(w) = m + U * ACC_PRECISION - (Cardinality(Owed(v)) + T * q)
        <4>1. Dust(w) = ACC_PRECISION * (Accounted(w) - w.undistributedRewards)
                          - Cardinality(Owed(w))
          BY DEF Dust
        <4> DEFINE lhs == ACC_PRECISION * (Accounted(w) - w.undistributedRewards)
                   owed == Cardinality(Owed(w))
        <4>2. Dust(w) = lhs - owed /\ lhs = m + U * ACC_PRECISION
              /\ owed = Cardinality(Owed(v)) + T * q
          BY <2>11, <3>2, <4>1
        <4> HIDE DEF lhs, owed
        <4> QED  BY <2>1, <3>3, <3>4, <4>2
      <3> QED  BY <2>1, <3>3, <3>4, <3>5, <3>6
    <2>13. w.totalEligibleUnits = Cardinality(Slots(w))
      BY <2>4, <2>7 DEF Balanced
    <2>14. VaultInv(w)
      BY <2>4, <2>5, <2>6, <2>12, <2>13 DEF VaultInv, Balanced, Settled
    <2> QED  BY <2>12, <2>14 DEF w
  <1> QED  BY <1>1, <1>2

\* The accumulator never falls, and a distribution touches no account.
LEMMA DistributeKeeps ==
    ASSUME NEW v, Balanced(v)
    PROVE  LET w == Distribute(v)
           IN  /\ w.units = v.units /\ w.accrued = v.accrued
               /\ w.rewardPerUnitPaid = v.rewardPerUnitPaid
               /\ w.rewardPerUnitStored >= v.rewardPerUnitStored
               /\ w.totalEligibleUnits = v.totalEligibleUnits
  <1>0. v \in Vaults
    BY DEF Balanced
  <1>1. CASE v.totalEligibleUnits = 0 \/ v.undistributedRewards = 0
    BY <1>0, <1>1 DEF Distribute, Vaults
  <1>2. CASE v.totalEligibleUnits # 0 /\ v.undistributedRewards # 0
    <2> DEFINE q == (v.undistributedRewards * ACC_PRECISION) \div v.totalEligibleUnits
    <2>1. v.totalEligibleUnits \in Nat \ {0} /\ v.undistributedRewards * ACC_PRECISION \in Nat
      BY <1>0, <1>2, ProductNat, PrecisionAssumption DEF Vaults
    <2>2. q \in Nat
      BY <2>1, FloorFacts
    <2>3. Distribute(v) = [v EXCEPT !.undistributedRewards = 0,
                                    !.rewardPerUnitStored = v.rewardPerUnitStored + q]
      BY <1>0, <1>2 DEF Distribute
    <2> HIDE DEF q
    <2> QED  BY <1>0, <2>2, <2>3 DEF Vaults
  <1> QED  BY <1>1, <1>2

LEMMA SyncInv ==
    ASSUME NEW v, VaultInv(v), NEW a \in Accounts, NEW n \in Nat
    PROVE  VaultInv(SyncVault(v, a, n))
  BY SettleBalanced, DistributeInv DEF VaultInv, SyncVault

\* The notified amount waits undistributed until the distribution that follows.
LEMMA NotifyBalanced ==
    ASSUME NEW v, VaultInv(v), NEW amount \in Nat
    PROVE  LET w == [v EXCEPT !.totalRewardsNotified = @ + amount,
                              !.undistributedRewards = @ + amount]
           IN  Balanced(w) /\ Dust(w) = Dust(v)
  <1> DEFINE w == [v EXCEPT !.totalRewardsNotified = @ + amount,
                            !.undistributedRewards = @ + amount]
  <1>0. v \in Vaults /\ Settled(v) /\ Balanced(v)
    BY DEF VaultInv, Balanced, Settled
  <1>1. w \in Vaults
    <2> DEFINE x == v.totalRewardsNotified + amount
               y == v.undistributedRewards + amount
    <2>1. x \in Nat /\ y \in Nat
      BY <1>0 DEF Vaults
    <2>2. w = [v EXCEPT !.totalRewardsNotified = x, !.undistributedRewards = y]
      BY <1>0 DEF Vaults
    <2> HIDE DEF x, y, w
    <2> QED  BY <1>0, <2>1, <2>2 DEF Vaults
  <1>2. Settled(w) /\ Slots(w) = Slots(v) /\ Owed(w) = Owed(v)
        /\ w.totalEligibleUnits = v.totalEligibleUnits
    BY <1>0 DEF Settled, Slots, SlotsOf, Owed, OwedTo, Vaults
  <1>3. Accounted(w) - w.undistributedRewards = Accounted(v) - v.undistributedRewards
    BY <1>0 DEF Accounted, Vaults
  <1> QED  BY <1>0, <1>1, <1>2, <1>3 DEF Balanced, Settled, Dust

LEMMA NotifyInv ==
    ASSUME NEW v, VaultInv(v), NEW amount \in Nat
    PROVE  VaultInv(NotifyVault(v, amount))
  BY NotifyBalanced, DistributeInv DEF NotifyVault

\* What an account can claim never exceeds what was notified and distributed.
LEMMA ClaimableBound ==
    ASSUME NEW v, VaultInv(v), NEW a \in Accounts
    PROVE  /\ Claimable(v, a) \in Nat
           /\ Claimable(v, a) <= Accounted(v) - v.undistributedRewards
  <1>0. v \in Vaults /\ Settled(v) /\ Dust(v) >= 0
    BY DEF VaultInv, Balanced, Settled
  <1> DEFINE c == Claimable(v, a)
             d == Accounted(v) - v.undistributedRewards
  <1>1. c \in Nat /\ c * ACC_PRECISION <= Cardinality(OwedTo(v, a))
        /\ Cardinality(OwedTo(v, a)) \in Nat
    BY <1>0, EarnedFacts
  <1>2. Cardinality(OwedTo(v, a)) <= Cardinality(Owed(v)) /\ Cardinality(Owed(v)) \in Nat
    <2>1. OwedTo(v, a) \in SUBSET Owed(v)
      BY DEF Owed
    <2>2. IsFiniteSet(Owed(v))
      BY <1>0, Finiteness
    <2> QED  BY <2>1, <2>2, FS_Subset, FS_CardinalityType
  <1>3. d \in Int
    BY <1>0 DEF Accounted, Vaults
  <1>4. ACC_PRECISION * d - Cardinality(Owed(v)) >= 0
    BY <1>0 DEF Dust
  <1> HIDE DEF c, d
  <1>5. c * ACC_PRECISION <= ACC_PRECISION * d
    <2>1. ACC_PRECISION * d \in Int /\ c * ACC_PRECISION \in Nat
      BY <1>1, <1>3, ProductNat, PrecisionAssumption
    <2> QED  BY <1>1, <1>2, <1>4, <2>1
  <1>6. c <= d
    BY <1>1, <1>3, <1>5, PrecisionAssumption
  <1> QED  BY <1>1, <1>6 DEF c, d

\* claim zeroes the claimant's whole wei and keeps every other account's; the
\* claimant's part of a wei is dust.
LEMMA ClaimInv ==
    ASSUME NEW v, VaultInv(v), NEW a \in Accounts
    PROVE  VaultInv(ClaimVault(v, a)) /\ Dust(ClaimVault(v, a)) < Dust(v) + ACC_PRECISION
  <1> DEFINE w == ClaimVault(v, a)
             c == Claimable(v, a)
  <1>0. v \in Vaults /\ Settled(v) /\ Dust(v) >= 0
    BY DEF VaultInv, Balanced, Settled
  <1>1. c \in Nat
    BY ClaimableBound
  <1> HIDE DEF c
  <1>2. w \in Vaults
    <2> DEFINE x == v.totalRewardsClaimed + c
    <2>1. x \in Nat
      BY <1>0, <1>1 DEF Vaults
    <2>2. w = [v EXCEPT !.accrued = [v.accrued EXCEPT ![a] = 0],
                        !.rewardPerUnitPaid = [v.rewardPerUnitPaid EXCEPT ![a] = v.rewardPerUnitStored],
                        !.totalRewardsClaimed = x]
      BY <1>0 DEF ClaimVault, Vaults, c
    <2> HIDE DEF x, w
    <2> QED  BY <1>0, <2>1, <2>2 DEF Vaults
  <1>3. /\ w.units = v.units
        /\ w.rewardPerUnitPaid = [v.rewardPerUnitPaid EXCEPT ![a] = v.rewardPerUnitStored]
        /\ w.accrued = [v.accrued EXCEPT ![a] = 0]
        /\ w.totalEligibleUnits = v.totalEligibleUnits
        /\ w.rewardPerUnitStored = v.rewardPerUnitStored
        /\ w.undistributedRewards = v.undistributedRewards
        /\ w.totalRewardsNotified = v.totalRewardsNotified
        /\ w.totalRewardsClaimed = v.totalRewardsClaimed + c
    BY <1>0 DEF ClaimVault, Vaults, c
  <1> HIDE DEF w
  <1>4. Settled(w)
    BY <1>0, <1>3 DEF Settled, Vaults
  <1>5. Slots(w) = Slots(v)
    BY <1>3 DEF Slots, SlotsOf
  <1>6. Cardinality(OwedTo(w, a)) = 0
    <2>1. Cardinality(OwedTo(w, a)) =
            w.units[a] * (w.rewardPerUnitStored - w.rewardPerUnitPaid[a])
              + w.accrued[a] * ACC_PRECISION
      BY <1>2, <1>4, OwedToCard DEF Settled
    <2>2. w.accrued[a] = 0 /\ w.units[a] \in Nat
          /\ w.rewardPerUnitStored - w.rewardPerUnitPaid[a] = 0
      BY <1>0, <1>3 DEF Vaults
    <2> QED  BY <2>1, <2>2, PrecisionAssumption
  <1>7. Dust(w) >= 0 /\ Dust(w) < Dust(v) + ACC_PRECISION
    <2>1. \A b \in Accounts \ {a} : OwedTo(w, b) = OwedTo(v, b)
      BY <1>0, <1>3 DEF OwedTo, SlotsOf, Vaults
    <2>2. Cardinality(Owed(w)) =
             Cardinality(Owed(v)) - Cardinality(OwedTo(v, a)) + Cardinality(OwedTo(w, a))
      BY <1>0, <1>2, <1>4, <2>1, OwedReplaced
    <2>3. /\ c * ACC_PRECISION <= Cardinality(OwedTo(v, a))
          /\ Cardinality(OwedTo(v, a)) < c * ACC_PRECISION + ACC_PRECISION
          /\ Cardinality(OwedTo(v, a)) \in Nat /\ Cardinality(Owed(v)) \in Nat
      BY <1>0, EarnedFacts, Finiteness DEF c
    <2> DEFINE d == Accounted(v) - v.undistributedRewards
    <2>4. Accounted(w) - w.undistributedRewards = d - c /\ d \in Int
      BY <1>0, <1>1, <1>3 DEF Accounted, Vaults
    <2>5. /\ ACC_PRECISION * d - Cardinality(Owed(v)) >= 0
          /\ Dust(v) = ACC_PRECISION * d - Cardinality(Owed(v))
      BY <1>0 DEF Dust
    <2>6. Dust(w) = ACC_PRECISION * (d - c) - Cardinality(Owed(w))
      <3>1. Dust(w) = ACC_PRECISION * (Accounted(w) - w.undistributedRewards)
                        - Cardinality(Owed(w))
        BY DEF Dust
      <3> HIDE DEF d
      <3> QED  BY <2>4, <3>1
    <2> HIDE DEF d
    <2>7. ACC_PRECISION * (d - c) = ACC_PRECISION * d - c * ACC_PRECISION
      BY <1>1, <2>4, PrecisionAssumption
    <2>8. ACC_PRECISION * d \in Int /\ c * ACC_PRECISION \in Nat
      BY <1>1, <2>4, PrecisionAssumption
    <2> QED  BY <1>6, <2>2, <2>3, <2>5, <2>6, <2>7, <2>8, PrecisionAssumption
  <1>8. VaultInv(w)
    BY <1>2, <1>3, <1>4, <1>5, <1>7 DEF VaultInv, Balanced, Settled
  <1> QED  BY <1>7, <1>8 DEF w

LEMMA EmptyInv == VaultInv(EmptyVault)
  <1>1. EmptyVault \in Vaults /\ Settled(EmptyVault)
    BY DEF EmptyVault, Vaults, Settled
  <1>2. Slots(EmptyVault) = {}
    BY DEF Slots, SlotsOf, EmptyVault
  <1>3. Owed(EmptyVault) = {}
    BY <1>2, PrecisionAssumption DEF Owed, OwedTo, Slots, EmptyVault
  <1>4. Cardinality(Slots(EmptyVault)) = 0 /\ Cardinality(Owed(EmptyVault)) = 0
    BY <1>2, <1>3, FS_EmptySet
  <1>5. EmptyVault.totalEligibleUnits = 0
        /\ Accounted(EmptyVault) - EmptyVault.undistributedRewards = 0
    BY DEF EmptyVault, Accounted
  <1>6. Dust(EmptyVault) >= 0
    BY <1>4, <1>5, PrecisionAssumption DEF Dust
  <1> QED  BY <1>1, <1>4, <1>5, <1>6 DEF VaultInv, Balanced, Settled

-----------------------------------------------------------------------------
(* Who is paid by a step.                                                    *)

\* From v to w nobody is paid.
Unpaid(v, w) ==
    /\ w.rewardPerUnitStored = v.rewardPerUnitStored
    /\ \A a \in Accounts : Claimable(w, a) = Claimable(v, a)

\* From v to w an account is paid for at most the given units, up to a wei.
Pays(v, w, units) ==
    /\ w.rewardPerUnitStored >= v.rewardPerUnitStored
    /\ \A a \in Accounts :
            (Claimable(w, a) - Claimable(v, a)) * ACC_PRECISION
                < units[a] * (w.rewardPerUnitStored - v.rewardPerUnitStored) + ACC_PRECISION

\* A checkpoint turns ticks into wei and changes no claim.
LEMMA SettleUnpaid ==
    ASSUME NEW v, Balanced(v), NEW a \in Accounts, NEW n \in Nat
    PROVE  Unpaid(v, Settle(v, a, n))
  <1> DEFINE m == Settle(v, a, n)
  <1>0. v \in Vaults /\ Settled(v)
    BY DEF Balanced, Settled
  <1>1. m \in Vaults
    BY SettleBalanced DEF Balanced
  <1>2. /\ m.units = [v.units EXCEPT ![a] = n]
        /\ m.rewardPerUnitPaid = [v.rewardPerUnitPaid EXCEPT ![a] = v.rewardPerUnitStored]
        /\ m.accrued = [v.accrued EXCEPT ![a] = Claimable(v, a)]
        /\ m.rewardPerUnitStored = v.rewardPerUnitStored
    BY <1>0 DEF Settle, Vaults
  <1> HIDE DEF m
  <1>3. ASSUME NEW b \in Accounts PROVE Claimable(m, b) = Claimable(v, b)
    <2>1. CASE b = a
      <3>1. m.units[b] \in Nat /\ m.rewardPerUnitStored - m.rewardPerUnitPaid[b] = 0
            /\ m.accrued[b] = Claimable(v, a)
        BY <1>0, <1>1, <1>2, <2>1 DEF Vaults
      <3>2. 0 \div ACC_PRECISION = 0 /\ Claimable(v, a) \in Nat
        BY <1>0, EarnedFacts, PrecisionAssumption
      <3> QED  BY <2>1, <3>1, <3>2 DEF Claimable, Earned
    <2>2. CASE b # a
      <3>1. m.units[b] = v.units[b] /\ m.rewardPerUnitPaid[b] = v.rewardPerUnitPaid[b]
            /\ m.accrued[b] = v.accrued[b]
        BY <1>0, <1>2, <2>2 DEF Vaults
      <3> QED  BY <1>2, <3>1 DEF Claimable, Earned
    <2> QED  BY <2>1, <2>2
  <1> QED  BY <1>2, <1>3 DEF Unpaid, m

\* A distribution pays each account for its units.
LEMMA DistributePays ==
    ASSUME NEW v, Balanced(v)
    PROVE  Pays(v, Distribute(v), v.units)
  <1> DEFINE w == Distribute(v)
  <1>0. v \in Vaults /\ Settled(v)
    BY DEF Balanced, Settled
  <1>1. w \in Vaults /\ Settled(w)
    BY DistributeInv DEF VaultInv, Balanced, Settled
  <1>2. w.units = v.units /\ w.accrued = v.accrued
        /\ w.rewardPerUnitPaid = v.rewardPerUnitPaid
        /\ w.rewardPerUnitStored >= v.rewardPerUnitStored
    BY DistributeKeeps
  <1> HIDE DEF w
  <1>3. ASSUME NEW a \in Accounts
        PROVE  (Claimable(w, a) - Claimable(v, a)) * ACC_PRECISION
                 < v.units[a] * (w.rewardPerUnitStored - v.rewardPerUnitStored) + ACC_PRECISION
    <2> DEFINE u == v.units[a]
               i == v.rewardPerUnitStored - v.rewardPerUnitPaid[a]
               d == w.rewardPerUnitStored - v.rewardPerUnitStored
               x == (u * i) \div ACC_PRECISION
               y == (u * (i + d)) \div ACC_PRECISION
    <2>1. /\ u \in Nat /\ i \in Nat /\ d \in Nat /\ v.accrued[a] \in Nat
          /\ w.rewardPerUnitStored - w.rewardPerUnitPaid[a] = i + d
      BY <1>0, <1>1, <1>2 DEF Vaults, Settled
    <2>2. Claimable(v, a) = v.accrued[a] + x /\ Claimable(w, a) = v.accrued[a] + y
      BY <1>2, <2>1 DEF Claimable, Earned
    <2> HIDE DEF u, i, d
    <2>3. u * (i + d) = u * i + u * d /\ u * i \in Nat /\ u * d \in Nat
          /\ u * (i + d) \in Nat
      BY <2>1, ProductNat
    <2>4. /\ x \in Nat /\ u * i < x * ACC_PRECISION + ACC_PRECISION
          /\ y \in Nat /\ y * ACC_PRECISION <= u * (i + d)
      BY <2>3, FloorFacts, PrecisionAssumption
    <2> HIDE DEF x, y
    <2>5. x * ACC_PRECISION \in Nat /\ y * ACC_PRECISION \in Nat /\ ACC_PRECISION \in Nat
      BY <2>4, ProductNat, PrecisionAssumption
    <2>6. (y - x) * ACC_PRECISION = y * ACC_PRECISION - x * ACC_PRECISION
      BY <2>4, <2>5
    <2>7. (y - x) * ACC_PRECISION < u * d + ACC_PRECISION
      BY <2>3, <2>4, <2>5, <2>6
    <2>8. Claimable(w, a) - Claimable(v, a) = y - x
      BY <2>1, <2>2, <2>4
    <2> QED  BY <2>7, <2>8 DEF u, d
  <1> QED  BY <1>2, <1>3 DEF Pays, w

\* Steps that pay nobody may come before and after one that pays.
LEMMA PaysOnce ==
    ASSUME NEW v, VaultInv(v), NEW x, Unpaid(v, x), NEW y, NEW units, Pays(x, y, units),
           NEW w, Unpaid(y, w)
    PROVE  Pays(v, w, units)
  BY DEF Unpaid, Pays

\* A sync pays for the units it leaves.
LEMMA SyncPays ==
    ASSUME NEW v, VaultInv(v), NEW a \in Accounts, NEW n \in Nat
    PROVE  Pays(v, SyncVault(v, a, n), SyncVault(v, a, n).units)
  <1> DEFINE m == Settle(v, a, n)
             w == Distribute(m)
  <1>1. Unpaid(v, m) /\ Balanced(m)
    BY SettleUnpaid, SettleBalanced DEF VaultInv
  <1> HIDE DEF m
  <1>2. Pays(m, w, m.units) /\ w.units = m.units
    BY <1>1, DistributePays, DistributeKeeps
  <1> HIDE DEF w
  <1>3. Pays(v, w, w.units)
    BY <1>1, <1>2 DEF Pays, Unpaid
  <1> QED  BY <1>3 DEF SyncVault, m, w

\* A notification pays for the units there are.
LEMMA NotifyPays ==
    ASSUME NEW v, VaultInv(v), NEW amount \in Nat
    PROVE  LET w == NotifyVault(v, amount)
           IN  /\ Pays(v, w, v.units)
               /\ v.totalEligibleUnits = 0 => Unpaid(v, w)
               /\ w.totalEligibleUnits = v.totalEligibleUnits
  <1> DEFINE m == [v EXCEPT !.totalRewardsNotified = @ + amount,
                            !.undistributedRewards = @ + amount]
             w == Distribute(m)
  <1>0. v \in Vaults
    BY DEF VaultInv, Balanced
  <1>1. /\ m.units = v.units /\ m.accrued = v.accrued
        /\ m.rewardPerUnitPaid = v.rewardPerUnitPaid
        /\ m.rewardPerUnitStored = v.rewardPerUnitStored
        /\ m.totalEligibleUnits = v.totalEligibleUnits
    BY <1>0 DEF Vaults
  <1>2. Balanced(m)
    BY NotifyBalanced
  <1> HIDE DEF m
  <1>3. Unpaid(v, m)
    BY <1>1 DEF Unpaid, Claimable, Earned
  <1>4. Pays(m, w, m.units)
    BY <1>2, DistributePays
  <1>5. v.totalEligibleUnits = 0 => w = m
    BY <1>1 DEF Distribute
  <1>6. w.totalEligibleUnits = v.totalEligibleUnits
    BY <1>1, <1>2, DistributeKeeps
  <1> HIDE DEF w
  <1>7. Pays(v, w, v.units)
    BY <1>1, <1>3, <1>4 DEF Pays, Unpaid
  <1> QED  BY <1>3, <1>5, <1>6, <1>7 DEF NotifyVault, m, w

\* A claim pays nobody further.
LEMMA ClaimPays ==
    ASSUME NEW v, VaultInv(v), NEW a \in Accounts
    PROVE  Pays(v, ClaimVault(v, a), v.units)
  <1> DEFINE w == ClaimVault(v, a)
  <1>0. v \in Vaults /\ Settled(v)
    BY DEF VaultInv, Balanced, Settled
  <1>1. /\ w.units = v.units
        /\ w.rewardPerUnitPaid = [v.rewardPerUnitPaid EXCEPT ![a] = v.rewardPerUnitStored]
        /\ w.accrued = [v.accrued EXCEPT ![a] = 0]
        /\ w.rewardPerUnitStored = v.rewardPerUnitStored
    BY <1>0 DEF ClaimVault, Vaults
  <1> HIDE DEF w
  <1>2. ASSUME NEW b \in Accounts
        PROVE  Claimable(w, b) \in Nat /\ Claimable(w, b) <= Claimable(v, b)
    <2>1. Claimable(v, b) \in Nat
      BY <1>0, EarnedFacts
    <2>2. CASE b = a
      <3>1. w.units[b] \in Nat /\ w.accrued[b] = 0
            /\ w.rewardPerUnitStored - w.rewardPerUnitPaid[b] = 0
        BY <1>0, <1>1, <2>2 DEF Vaults
      <3>2. Claimable(w, b) = 0
        BY <3>1, PrecisionAssumption DEF Claimable, Earned
      <3> QED  BY <2>1, <3>2
    <2>3. CASE b # a
      <3>1. w.units[b] = v.units[b] /\ w.accrued[b] = v.accrued[b]
            /\ w.rewardPerUnitPaid[b] = v.rewardPerUnitPaid[b]
        BY <1>0, <1>1, <2>3 DEF Vaults
      <3>2. Claimable(w, b) = Claimable(v, b)
        BY <1>1, <3>1 DEF Claimable, Earned
      <3> QED  BY <2>1, <3>2
    <2> QED  BY <2>2, <2>3
  <1>3. ASSUME NEW b \in Accounts
        PROVE  (Claimable(w, b) - Claimable(v, b)) * ACC_PRECISION
                 < v.units[b] * (w.rewardPerUnitStored - v.rewardPerUnitStored) + ACC_PRECISION
    <2> DEFINE fall == Claimable(v, b) - Claimable(w, b)
               gain == Claimable(w, b) - Claimable(v, b)
    <2>1. fall \in Nat /\ gain = 0 - fall
      BY <1>0, <1>2, EarnedFacts
    <2>2. v.units[b] * (w.rewardPerUnitStored - v.rewardPerUnitStored) = 0
      BY <1>0, <1>1 DEF Vaults
    <2> HIDE DEF fall, gain
    <2>3. fall * ACC_PRECISION \in Nat /\ gain * ACC_PRECISION = 0 - fall * ACC_PRECISION
      BY <2>1, ProductNat, PrecisionAssumption
    <2> QED  BY <2>2, <2>3, PrecisionAssumption DEF gain
  <1> QED  BY <1>0, <1>1, <1>3 DEF Pays, Vaults, w

\* Who pays nobody pays for no more than any units.
LEMMA UnpaidPays ==
    ASSUME NEW v, VaultInv(v), NEW w, Unpaid(v, w), NEW units \in [Accounts -> Nat]
    PROVE  Pays(v, w, units)
  <1>0. v \in Vaults /\ v.rewardPerUnitStored \in Nat
    BY DEF VaultInv, Balanced, Vaults
  <1>1. ASSUME NEW a \in Accounts
        PROVE  (Claimable(w, a) - Claimable(v, a)) * ACC_PRECISION
                 < units[a] * (w.rewardPerUnitStored - v.rewardPerUnitStored) + ACC_PRECISION
    <2>1. Claimable(w, a) - Claimable(v, a) = 0
          /\ w.rewardPerUnitStored - v.rewardPerUnitStored = 0 /\ units[a] \in Nat
      BY <1>0, ClaimableBound DEF Unpaid
    <2> QED  BY <2>1, PrecisionAssumption
  <1> QED  BY <1>0, <1>1 DEF Pays, Unpaid

\* What is paid for some units is paid for no more than any greater number.
LEMMA PaysMore ==
    ASSUME NEW v, VaultInv(v), NEW w, VaultInv(w), NEW few \in [Accounts -> Nat],
           NEW units \in [Accounts -> Nat], \A a \in Accounts : few[a] <= units[a],
           Pays(v, w, few)
    PROVE  Pays(v, w, units)
  <1> DEFINE d == w.rewardPerUnitStored - v.rewardPerUnitStored
  <1>1. d \in Nat
    BY DEF VaultInv, Balanced, Vaults, Pays
  <1>2. ASSUME NEW a \in Accounts
        PROVE  (Claimable(w, a) - Claimable(v, a)) * ACC_PRECISION
                 < units[a] * d + ACC_PRECISION
    <2> DEFINE gain == (Claimable(w, a) - Claimable(v, a)) * ACC_PRECISION
               more == units[a] - few[a]
    <2>1. gain < few[a] * d + ACC_PRECISION
      BY DEF Pays
    <2>2. gain \in Int
      BY ClaimableBound, PrecisionAssumption
    <2>3. few[a] \in Nat /\ more \in Nat /\ units[a] = few[a] + more
      OBVIOUS
    <2> HIDE DEF d, gain, more
    <2>4. (few[a] + more) * d = few[a] * d + more * d
          /\ few[a] * d \in Nat /\ more * d \in Nat
      BY <1>1, <2>3, ProductNat
    <2>5. gain < units[a] * d + ACC_PRECISION
      BY <2>1, <2>2, <2>3, <2>4, PrecisionAssumption
    <2> QED  BY <2>5 DEF gain
  <1> QED  BY <1>2 DEF Pays, d
=============================================================================
