------------------------ MODULE LaunchpadRevenue_proofs ------------------------
(***************************************************************************)
(* The books of the launchpad's revenue, for every set of pools, split,    *)
(* cap and bounty and every amount of revenue: hook, self-burner and       *)
(* router each hold what they owe, and creators keep their share.  What    *)
(* all pools have together is a cardinality, so a call that changes one    *)
(* pool changes the sum by that pool's difference (TogetherReplaced, with  *)
(* the lemmas on sums of RewardAccounting_proofs; the vault's constants    *)
(* play no part here).  The last part is about module Reconciliation: the  *)
(* sums of the indexed rows agree with what the contracts answer           *)
(* (LedgerInv) over the same calls, so the same invariant of the contracts *)
(* is used.                                                                *)
(***************************************************************************)
EXTENDS Reconciliation, RewardAccounting_proofs

LEMMA FloorShare ==
    ASSUME NEW n \in Nat, NEW b \in 0 .. BPS
    PROVE  Share(n, b) \in Nat /\ Share(n, b) <= n
  <1>1. n * b \in Nat /\ n * b <= n * BPS /\ BPS \in Nat \ {0}
    <2>1. b \in Nat /\ BPS \in Nat /\ b <= BPS /\ BPS # 0
      BY SharesAssumption
    <2> QED  BY <2>1, SMT
  <1>2. ASSUME NEW m \in Nat, NEW d \in Nat \ {0}, m <= n * d
        PROVE  m \div d \in Nat /\ m \div d <= n
    <2>1. m \div d \in Nat /\ (m \div d) * d <= m
      BY SMT
    <2>2. (m \div d) * d <= n * d
      BY <1>2, <2>1, SMT
    <2> QED  BY <2>1, <2>2, SMT
  <1> QED  BY <1>1, <1>2 DEF Share

\* The two rounded shares together never exceed what is split.
LEMMA SharesFit ==
    ASSUME NEW n \in Nat
    PROVE  /\ Share(n, SequesterBps) \in Nat /\ Share(n, TreasuryBps) \in Nat
           /\ Share(n, SequesterBps) + Share(n, TreasuryBps) <= n
  <1>1. SequesterBps \in 0 .. BPS /\ TreasuryBps \in 0 .. BPS
    BY SharesAssumption
  <1>2. Share(n, SequesterBps) \in Nat /\ Share(n, TreasuryBps) \in Nat
    BY <1>1, FloorShare
  <1>3. ASSUME NEW a \in Nat, NEW b \in Nat, NEW d \in Nat \ {0}, a + b <= d
        PROVE  (n * a) \div d + (n * b) \div d <= n
    <2> DEFINE x == (n * a) \div d
    <2> DEFINE y == (n * b) \div d
    <2>1. x \in Nat /\ y \in Nat /\ x * d <= n * a /\ y * d <= n * b
      <3>1. n * a \in Nat /\ n * b \in Nat
        BY SMT
      <3>2. \A m \in Nat : m \div d \in Nat /\ (m \div d) * d <= m
        BY SMT
      <3> QED  BY <3>1, <3>2
    <2> HIDE DEF x, y
    <2>2. (x + y) * d <= n * (a + b)
      BY <2>1, SMT
    <2>3. n * (a + b) <= n * d
      BY <1>3, SMT
    <2>4. (x + y) * d <= n * d
      BY <2>1, <2>2, <2>3, SMT
    <2> QED  BY <2>1, <2>4, SMT DEF x, y
  <1> QED  BY <1>2, <1>3, SharesAssumption DEF Share

LEMMA InvType ==
    ASSUME NEW r \in Routers, RouterInv(r)
    PROVE  Unallocated(r) \in Nat
  BY DEF Routers, RouterInv, Unallocated, Lanes

LEMMA ReceivedInv ==
    ASSUME NEW r \in Routers, RouterInv(r), NEW n \in Nat
    PROVE  Received(r, n) \in Routers /\ RouterInv(Received(r, n))
  BY DEF Received, Routers, RouterInv, Lanes

LEMMA AllocatedInv ==
    ASSUME NEW r \in Routers, RouterInv(r)
    PROVE  Allocated(r) \in Routers /\ RouterInv(Allocated(r))
  <1> DEFINE n == Unallocated(r)
  <1> DEFINE s == Share(n, SequesterBps)
  <1> DEFINE t == Share(n, TreasuryBps)
  <1>1. n \in Nat /\ s \in Nat /\ t \in Nat /\ s + t <= n
    BY InvType, SharesFit
  <1>2. n = r.balance - Lanes(r)
    BY DEF Unallocated
  <1> DEFINE w == Allocated(r)
  <1>3. /\ w.sequesterTank = r.sequesterTank + s /\ w.treasuryTank = r.treasuryTank + t
        /\ w.operationsTab = r.operationsTab + (n - s - t)
        /\ w.allocated = r.allocated + n /\ w.balance = r.balance
        /\ w.sequestered = r.sequestered /\ w.routed = r.routed
        /\ w.collected = r.collected /\ w.bounties = r.bounties /\ w.migrated = r.migrated
    BY DEF Allocated, Routers
  <1>4. w \in Routers
    <2>1. /\ r.sequesterTank + s \in Nat /\ r.treasuryTank + t \in Nat
          /\ r.operationsTab + (n - s - t) \in Nat /\ r.allocated + n \in Nat
      BY <1>1 DEF Routers
    <2> QED  BY <2>1 DEF Allocated, Routers
  <1> HIDE DEF n, s, t, w
  <1>5. RouterInv(w)
    BY <1>1, <1>2, <1>3 DEF Routers, RouterInv, Lanes
  <1> QED  BY <1>4, <1>5 DEF w

LEMMA ChunkFits ==
    ASSUME NEW fuel \in Nat, NEW cap \in Nat
    PROVE  /\ Chunk(fuel, cap) \in Nat /\ Chunk(fuel, cap) <= fuel
           /\ Bounty(Chunk(fuel, cap)) \in Nat
           /\ Bounty(Chunk(fuel, cap)) <= Chunk(fuel, cap)
  <1>1. Chunk(fuel, cap) \in Nat /\ Chunk(fuel, cap) <= fuel
    BY DEF Chunk
  <1> QED  BY <1>1, FloorShare, SharesAssumption DEF Bounty

LEMMA SequesteredInv ==
    ASSUME NEW r \in Routers, RouterInv(r), NEW cap \in Nat
    PROVE  Sequestered(r, cap) \in Routers /\ RouterInv(Sequestered(r, cap))
  <1> DEFINE k == Chunk(r.sequesterTank, cap)
  <1> DEFINE b == Bounty(k)
  <1>1. k \in Nat /\ k <= r.sequesterTank /\ b \in Nat /\ b <= k
    BY ChunkFits DEF Routers
  <1> DEFINE w == Sequestered(r, cap)
  <1>2. /\ w.balance = r.balance - k /\ w.sequesterTank = r.sequesterTank - k
        /\ w.sequestered = r.sequestered + (k - b) /\ w.bounties = r.bounties + b
        /\ w.treasuryTank = r.treasuryTank /\ w.operationsTab = r.operationsTab
        /\ w.routed = r.routed /\ w.collected = r.collected
        /\ w.allocated = r.allocated /\ w.migrated = r.migrated
    BY DEF Sequestered, Routers
  <1>3. w \in Routers
    <2>1. /\ r.balance - k \in Nat /\ r.sequesterTank - k \in Nat
          /\ r.sequestered + (k - b) \in Nat /\ r.bounties + b \in Nat
      BY <1>1 DEF Routers, RouterInv, Lanes
    <2> QED  BY <2>1 DEF Sequestered, Routers
  <1> HIDE DEF k, b, w
  <1>4. RouterInv(w)
    BY <1>1, <1>2 DEF Routers, RouterInv, Lanes
  <1> QED  BY <1>3, <1>4 DEF w

LEMMA RoutedInv ==
    ASSUME NEW r \in Routers, RouterInv(r), NEW cap \in Nat
    PROVE  Routed(r, cap) \in Routers /\ RouterInv(Routed(r, cap))
  <1> DEFINE k == Chunk(r.treasuryTank, cap)
  <1> DEFINE b == Bounty(k)
  <1>1. k \in Nat /\ k <= r.treasuryTank /\ b \in Nat /\ b <= k
    BY ChunkFits DEF Routers
  <1> DEFINE w == Routed(r, cap)
  <1>2. /\ w.balance = r.balance - k /\ w.treasuryTank = r.treasuryTank - k
        /\ w.routed = r.routed + (k - b) /\ w.bounties = r.bounties + b
        /\ w.sequesterTank = r.sequesterTank /\ w.operationsTab = r.operationsTab
        /\ w.sequestered = r.sequestered /\ w.collected = r.collected
        /\ w.allocated = r.allocated /\ w.migrated = r.migrated
    BY DEF Routed, Routers
  <1>3. w \in Routers
    <2>1. /\ r.balance - k \in Nat /\ r.treasuryTank - k \in Nat
          /\ r.routed + (k - b) \in Nat /\ r.bounties + b \in Nat
      BY <1>1 DEF Routers, RouterInv, Lanes
    <2> QED  BY <2>1 DEF Routed, Routers
  <1> HIDE DEF k, b, w
  <1>4. RouterInv(w)
    BY <1>1, <1>2 DEF Routers, RouterInv, Lanes
  <1> QED  BY <1>3, <1>4 DEF w

LEMMA CollectedInv ==
    ASSUME NEW r \in Routers, RouterInv(r)
    PROVE  Collected(r) \in Routers /\ RouterInv(Collected(r))
  <1>1. r.balance - r.operationsTab \in Nat /\ r.collected + r.operationsTab \in Nat
    BY DEF Routers, RouterInv, Lanes
  <1>2. Collected(r) \in Routers
    BY <1>1 DEF Collected, Routers
  <1>3. /\ Collected(r).balance = r.balance - r.operationsTab /\ Collected(r).operationsTab = 0
        /\ Collected(r).collected = r.collected + r.operationsTab
        /\ Collected(r).sequesterTank = r.sequesterTank
        /\ Collected(r).treasuryTank = r.treasuryTank
        /\ Collected(r).allocated = r.allocated
        /\ Collected(r).sequestered = r.sequestered /\ Collected(r).routed = r.routed
        /\ Collected(r).bounties = r.bounties /\ Collected(r).migrated = r.migrated
    BY DEF Collected, Routers
  <1>4. RouterInv(Collected(r))
    BY <1>3 DEF Routers, RouterInv, Lanes
  <1> QED  BY <1>2, <1>4

\* A migration is made of allocated PIPEDOG only: whatever was not in a lane has
\* just been put into one.
LEMMA AllAllocated ==
    ASSUME NEW r \in Routers, RouterInv(r)
    PROVE  Lanes(Allocated(r)) = Allocated(r).balance
  <1> DEFINE n == Unallocated(r)
  <1> DEFINE s == Share(n, SequesterBps)
  <1> DEFINE t == Share(n, TreasuryBps)
  <1>1. n \in Nat /\ s \in Nat /\ t \in Nat /\ n = r.balance - Lanes(r)
    BY InvType, SharesFit DEF Unallocated
  <1>2. /\ Allocated(r).sequesterTank = r.sequesterTank + s
        /\ Allocated(r).treasuryTank = r.treasuryTank + t
        /\ Allocated(r).operationsTab = r.operationsTab + (n - s - t)
        /\ Allocated(r).balance = r.balance
    BY DEF Allocated, Routers
  <1> HIDE DEF n, s, t
  <1> QED  BY <1>1, <1>2 DEF Routers, Lanes

LEMMA MigratedInv ==
    ASSUME NEW r \in Routers, RouterInv(r), Lanes(r) = r.balance
    PROVE  Migrated(r) \in Routers /\ RouterInv(Migrated(r))
  <1>1. Migrated(r) \in Routers
    <2>1. r.migrated + r.balance \in Nat
      BY DEF Routers
    <2> QED  BY <2>1 DEF Migrated, Routers
  <1>2. /\ Migrated(r).balance = 0 /\ Migrated(r).sequesterTank = 0
        /\ Migrated(r).treasuryTank = 0 /\ Migrated(r).operationsTab = 0
        /\ Migrated(r).migrated = r.migrated + r.balance
        /\ Migrated(r).allocated = r.allocated
        /\ Migrated(r).sequestered = r.sequestered /\ Migrated(r).routed = r.routed
        /\ Migrated(r).collected = r.collected /\ Migrated(r).bounties = r.bounties
    BY DEF Migrated, Routers
  <1>3. RouterInv(Migrated(r))
    BY <1>2 DEF Routers, RouterInv, Lanes
  <1> QED  BY <1>1, <1>3

LEMMA TogetherZero == \A S : Together(Zero(S)) = 0
  <1> SUFFICES ASSUME NEW S PROVE Together(Zero(S)) = 0
    OBVIOUS
  <1>1. Parcels(Zero(S)) = {}
    BY DEF Parcels, Zero
  <1> QED  BY <1>1, FS_EmptySet DEF Together

-----------------------------------------------------------------------------
(* The hook's books: what each of its steps does to them and keeps of them.   *)

\* Hooks before it is known that claims and balance are not negative.
Books ==
  [pending : [Pools -> Nat], tab : [Pools -> Nat], platformTab : Nat,
   claims : Int, balance : Int]

Backed(h, gift) ==
  /\ h.claims = Together(h.pending)
  /\ h.balance = Together(h.tab) + h.platformTab + gift

LEMMA FinitePools == IsFiniteSet(Pools) /\ IsFiniteSet(SelfBurnPools)
  <1>1. SelfBurnPools \in SUBSET Pools
    BY DEF Pools
  <1> QED  BY <1>1, RevenueAssumption, FS_Subset

LEMMA BackedHooks ==
    ASSUME NEW h \in Books, NEW gift \in Nat, Backed(h, gift)
    PROVE  h \in Hooks
  <1>1. Together(h.pending) \in Nat /\ Together(h.tab) \in Nat
    BY FinitePools, TogetherNat DEF Books
  <1>2. h.claims \in Nat /\ h.balance \in Nat
    BY <1>1 DEF Backed, Books
  <1> QED  BY <1>2 DEF Books, Hooks

LEMMA AccruedBacked ==
    ASSUME NEW h \in Books, NEW gift \in Nat, Backed(h, gift),
           NEW p \in Pools, NEW fee \in Nat
    PROVE  /\ Accrued(h, p, fee) \in Books /\ Backed(Accrued(h, p, fee), gift)
           /\ Accrued(h, p, fee).pending = [h.pending EXCEPT ![p] = h.pending[p] + fee]
           /\ Accrued(h, p, fee).tab = h.tab
  <1> DEFINE w == Accrued(h, p, fee)
  <1>1. /\ w.pending = [h.pending EXCEPT ![p] = h.pending[p] + fee]
        /\ w.claims = h.claims + fee
        /\ w.tab = h.tab /\ w.platformTab = h.platformTab /\ w.balance = h.balance
    BY DEF Accrued, Books
  <1>2. h.pending \in [Pools -> Nat] /\ h.pending[p] \in Nat /\ h.pending[p] + fee \in Nat
    BY DEF Books
  <1>3. w \in Books
    <2>1. w = [h EXCEPT !.claims = h.claims + fee,
                        !.pending = [h.pending EXCEPT ![p] = h.pending[p] + fee]]
      BY DEF Accrued, Books
    <2>2. [h.pending EXCEPT ![p] = h.pending[p] + fee] \in [Pools -> Nat]
          /\ h.claims + fee \in Int
      BY <1>2 DEF Books
    <2> QED  BY <2>1, <2>2 DEF Books
  <1>4. Together(w.pending) = Together(h.pending) - h.pending[p] + (h.pending[p] + fee)
    BY <1>1, <1>2, FinitePools, TogetherReplaced
  <1>5. Together(h.pending) \in Nat
    BY <1>2, FinitePools, TogetherNat
  <1> HIDE DEF w
  <1>6. Backed(w, gift)
    BY <1>1, <1>2, <1>4, <1>5 DEF Backed
  <1> QED  BY <1>1, <1>3, <1>6 DEF w

\* The parts of a sweep.
LEMMA PartsFit ==
    ASSUME NEW h \in Books, NEW p \in Pools
    PROVE  /\ CreatorPart(h, p) \in Nat /\ PlatformPart(h, p) \in Nat
           /\ CreatorPart(h, p) + PlatformPart(h, p) = h.pending[p]
  <1>1. h.pending[p] \in Nat
    BY DEF Books
  <1>2. CreatorPart(h, p) \in Nat /\ CreatorPart(h, p) <= h.pending[p]
    BY <1>1, FloorShare, RevenueAssumption DEF CreatorPart, CreatorCut
  <1> QED  BY <1>1, <1>2 DEF PlatformPart

LEMMA SweptBacked ==
    ASSUME NEW h \in Books, NEW gift \in Nat, Backed(h, gift), NEW p \in Pools
    PROVE  /\ Swept(h, p) \in Books /\ Backed(Swept(h, p), gift)
           /\ Swept(h, p).pending = [h.pending EXCEPT ![p] = 0]
           /\ Swept(h, p).tab = [h.tab EXCEPT ![p] = h.tab[p] + CreatorPart(h, p)]
  <1> DEFINE n == h.pending[p]
             k == CreatorPart(h, p)
             m == PlatformPart(h, p)
             w == Swept(h, p)
             parked == IF Deliverable THEN 0 ELSE m
             sent == IF Deliverable THEN m ELSE 0
  <1>1. n \in Nat /\ k \in Nat /\ m \in Nat /\ k + m = n
    BY PartsFit DEF Books
  <1>2. parked \in Nat /\ sent \in Nat /\ parked + sent = m
    BY <1>1
  <1>3. /\ w.pending = [h.pending EXCEPT ![p] = 0]
        /\ w.tab = [h.tab EXCEPT ![p] = h.tab[p] + k]
        /\ w.claims = h.claims - n
        /\ w.balance = h.balance + n - sent
        /\ w.platformTab = h.platformTab + parked
    BY DEF Swept, Books
  <1>4. /\ h.pending \in [Pools -> Nat] /\ h.tab \in [Pools -> Nat]
        /\ h.tab[p] \in Nat /\ h.tab[p] + k \in Nat
        /\ h.claims \in Int /\ h.balance \in Int /\ h.platformTab \in Nat
    BY <1>1 DEF Books
  <1>5. w \in Books
    <2>1. w = [h EXCEPT !.pending = [h.pending EXCEPT ![p] = 0],
                        !.claims = h.claims - n,
                        !.tab = [h.tab EXCEPT ![p] = h.tab[p] + k],
                        !.balance = h.balance + n - sent,
                        !.platformTab = h.platformTab + parked]
      BY DEF Swept, Books
    <2> HIDE DEF n, k, m, w, parked, sent
    <2>2. /\ [h.pending EXCEPT ![p] = 0] \in [Pools -> Nat]
          /\ [h.tab EXCEPT ![p] = h.tab[p] + k] \in [Pools -> Nat]
          /\ h.claims - n \in Int /\ h.balance + n - sent \in Int
          /\ h.platformTab + parked \in Nat
      BY <1>1, <1>2, <1>4
    <2> QED  BY <2>1, <2>2 DEF Books
  <1>6. Together(w.pending) = Together(h.pending) - n + 0
    BY <1>3, <1>4, FinitePools, TogetherReplaced
  <1>7. Together(w.tab) = Together(h.tab) - h.tab[p] + (h.tab[p] + k)
    BY <1>3, <1>4, FinitePools, TogetherReplaced
  <1>8. Together(h.pending) \in Nat /\ Together(h.tab) \in Nat
    BY <1>4, FinitePools, TogetherNat
  <1> HIDE DEF n, k, m, w, parked, sent
  <1>9. Backed(w, gift)
    BY <1>1, <1>2, <1>3, <1>4, <1>6, <1>7, <1>8 DEF Backed
  <1> QED  BY <1>3, <1>5, <1>9 DEF w, k

LEMMA PaidOutBacked ==
    ASSUME NEW h \in Books, NEW gift \in Nat, Backed(h, gift), NEW p \in Pools
    PROVE  /\ PaidOut(h, p) \in Books /\ Backed(PaidOut(h, p), gift)
           /\ PaidOut(h, p).pending = h.pending
           /\ PaidOut(h, p).tab = [h.tab EXCEPT ![p] = 0]
  <1> DEFINE w == PaidOut(h, p)
  <1>1. /\ w.tab = [h.tab EXCEPT ![p] = 0] /\ w.balance = h.balance - h.tab[p]
        /\ w.pending = h.pending /\ w.claims = h.claims /\ w.platformTab = h.platformTab
    BY DEF PaidOut, Books
  <1>2. h.tab \in [Pools -> Nat] /\ h.tab[p] \in Nat /\ h.balance \in Int
    BY DEF Books
  <1>3. w \in Books
    <2>1. [h.tab EXCEPT ![p] = 0] \in [Pools -> Nat] /\ h.balance - h.tab[p] \in Int
      BY <1>2
    <2> QED  BY <2>1 DEF PaidOut, Books
  <1>4. Together(w.tab) = Together(h.tab) - h.tab[p] + 0
    BY <1>1, <1>2, FinitePools, TogetherReplaced
  <1>5. Together(h.tab) \in Nat
    BY <1>2, FinitePools, TogetherNat
  <1> HIDE DEF w
  <1>6. Backed(w, gift)
    BY <1>1, <1>2, <1>4, <1>5 DEF Backed, Books
  <1> QED  BY <1>1, <1>3, <1>6 DEF w

-----------------------------------------------------------------------------
(* The creators' share.                                                       *)

Kept(swept, credited, times) ==
  /\ BPS * credited <= CreatorBps * swept
  /\ BPS * (credited + times) >= CreatorBps * swept

LEMMA Floor ==
    ASSUME NEW m \in Nat, NEW d \in Nat \ {0}
    PROVE  /\ m \div d \in Nat
           /\ d * (m \div d) <= m /\ m <= d * (m \div d) + d
  <1>1. m \div d \in Nat
    BY SMT
  <1>2. m = d * (m \div d) + (m % d) /\ m % d \in 0 .. d - 1
    BY SMT
  <1> QED  BY <1>1, <1>2, SMT

Once(n) == IF n > 0 THEN 1 ELSE 0

\* The creator's part of one sweep is the share to the rounding of one unit.
LEMMA CutRounds ==
    ASSUME NEW n \in Nat
    PROVE  CreatorCut(n) \in Nat /\ Kept(n, CreatorCut(n), Once(n))
  <1> DEFINE m == n * CreatorBps
             k == m \div BPS
  <1>1. BPS \in Nat \ {0} /\ CreatorBps \in Nat
    BY SharesAssumption, RevenueAssumption
  <1>2. m \in Nat
    BY <1>1, SMT
  <1> HIDE DEF m
  <1>3. k \in Nat /\ BPS * k <= m /\ m <= BPS * k + BPS
    BY <1>1, <1>2, Floor
  <1> HIDE DEF k
  <1>4. m = CreatorBps * n
    BY <1>1 DEF m
  <1>5. BPS * (k + Once(n)) >= m
    <2>1. CASE n = 0
      <3>1. m = 0
        BY <1>1, <2>1 DEF m
      <3> QED  BY <1>1, <1>3, <2>1, <3>1, SMT DEF Once
    <2>2. CASE n > 0
      <3>1. BPS * (k + 1) = BPS * k + BPS
        BY <1>1, <1>3, SMT
      <3> QED  BY <1>3, <2>2, <3>1 DEF Once
    <2> QED  BY <2>1, <2>2
  <1>6. CreatorCut(n) = k
    BY DEF CreatorCut, Share, k, m
  <1> QED  BY <1>3, <1>4, <1>5, <1>6 DEF Kept

LEMMA KeptAdds ==
    ASSUME NEW s \in Int, NEW c \in Nat, NEW z \in Nat, Kept(s, c, z),
           NEW n \in Nat, NEW k \in Nat, NEW y \in Nat, Kept(n, k, y)
    PROVE  Kept(s + n, c + k, z + y)
  <1>1. BPS \in Nat /\ CreatorBps \in Nat
    BY SharesAssumption, RevenueAssumption
  <1>2. /\ BPS * (c + k) = BPS * c + BPS * k
        /\ CreatorBps * (s + n) = CreatorBps * s + CreatorBps * n
        /\ BPS * ((c + k) + (z + y)) = BPS * (c + z) + BPS * (k + y)
    BY <1>1, SMT
  <1>3. /\ BPS * c \in Int /\ BPS * k \in Int /\ CreatorBps * s \in Int
        /\ CreatorBps * n \in Int /\ BPS * (c + z) \in Int /\ BPS * (k + y) \in Int
    BY <1>1, SMT
  <1> QED  BY <1>2, <1>3 DEF Kept

-----------------------------------------------------------------------------
(* The specification.  Its state falls into parts that a call changes or not. *)

HookPart == hook \in Books /\ Backed(hook, gifts.hook)
BurnerPart == unburned \in [SelfBurnPools -> Nat] /\ burnerBalance \in Int /\ BurnerBacked
RouterPart == router \in Routers /\ RouterInv(router)
SharePart ==
  /\ earned \in [Pools -> Nat] /\ paid \in [Pools -> Nat] /\ sweeps \in [Pools -> Nat]
  /\ \A p \in Pools :
       Kept(earned[p] - hook.pending[p], hook.tab[p] + paid[p], sweeps[p])
PolicyPart ==
  /\ treasury \in {"router", "wallet", "hook"}
  /\ caps \in [sequester : RouterCaps, treasury : RouterCaps]
  /\ paused \in BOOLEAN /\ launchEnabled \in BOOLEAN
  /\ done \subseteq SelfBurnPools \cup {"sequester", "treasury"}
  /\ gifts \in [hook : Nat, burner : Nat, router : Nat]
  /\ swaps \in Nat /\ migrations \in Nat

IInv == HookPart /\ BurnerPart /\ RouterPart /\ SharePart /\ PolicyPart

LEMMA InitInv == Init => IInv
  <1> SUFFICES ASSUME Init PROVE IInv
    OBVIOUS
  <1>1. HookPart
    BY TogetherZero DEF Init, HookPart, Books, Backed, EmptyHook, Zero
  <1>2. BurnerPart
    BY TogetherZero DEF Init, BurnerPart, BurnerBacked, Zero
  <1>3. RouterPart
    BY DEF Init, RouterPart, EmptyRouter, Routers, RouterInv, Lanes
  <1>4. SharePart
    <2>1. BPS \in Nat /\ CreatorBps \in Nat
      BY SharesAssumption, RevenueAssumption
    <2>2. Kept(0 - 0, 0 + 0, 0)
      BY <2>1 DEF Kept
    <2> QED  BY <2>2 DEF Init, SharePart, EmptyHook, Zero
  <1>5. PolicyPart
    BY DEF Init, PolicyPart
  <1> QED  BY <1>1, <1>2, <1>3, <1>4, <1>5 DEF IInv

LEMMA ToRouterInv ==
    ASSUME RouterPart, NEW n \in Nat
    PROVE  ToRouter(n) \in Routers /\ RouterInv(ToRouter(n))
  BY ReceivedInv DEF RouterPart, ToRouter

\* A call that touches the history of one pool only.
LEMMA ShareStep ==
    ASSUME SharePart, hook \in Books, hook' \in Books, NEW p \in Pools,
           NEW e \in Nat, NEW d \in Nat, NEW z \in Nat,
           earned' = [earned EXCEPT ![p] = e],
           paid' = [paid EXCEPT ![p] = d],
           sweeps' = [sweeps EXCEPT ![p] = z],
           \A q \in Pools \ {p} : hook'.pending[q] = hook.pending[q]
                                  /\ hook'.tab[q] = hook.tab[q],
           Kept(e - hook'.pending[p], hook'.tab[p] + d, z)
    PROVE  SharePart'
  <1>1. /\ earned' \in [Pools -> Nat] /\ paid' \in [Pools -> Nat]
        /\ sweeps' \in [Pools -> Nat]
    BY DEF SharePart
  <1>2. \A q \in Pools :
          Kept(earned'[q] - hook'.pending[q], hook'.tab[q] + paid'[q], sweeps'[q])
    BY DEF SharePart
  <1> QED  BY <1>1, <1>2 DEF SharePart

\* A call that touches neither hook nor history.
LEMMA ShareSame ==
    ASSUME SharePart, UNCHANGED <<earned, paid, sweeps>>,
           hook'.pending = hook.pending, hook'.tab = hook.tab
    PROVE  SharePart'
  BY DEF SharePart

\* One sweep credits its pool with the share of what it swept.
LEMMA SweptShare ==
    ASSUME SharePart, hook \in Books, NEW p \in Pools
    PROVE  /\ earned[p] - 0 \in Int
           /\ Kept(earned[p] - 0, (hook.tab[p] + CreatorPart(hook, p)) + paid[p],
                   sweeps[p] + Once(hook.pending[p]))
  <1> DEFINE n == hook.pending[p]
             k == CreatorPart(hook, p)
             t == hook.tab[p]
             d == paid[p]
             z == sweeps[p]
             e == earned[p]
  <1>1. /\ n \in Nat /\ t \in Nat /\ d \in Nat /\ z \in Nat /\ e \in Nat
        /\ Kept(e - n, t + d, z)
    BY DEF SharePart, Books
  <1> HIDE DEF n, t, d, z, e
  <1>2. k = CreatorCut(n)
    BY DEF CreatorPart, n
  <1> HIDE DEF k
  <1>3. k \in Nat /\ Kept(n, k, Once(n)) /\ Once(n) \in Nat
    BY <1>1, <1>2, CutRounds DEF Once
  <1>4. Kept((e - n) + n, (t + d) + k, z + Once(n))
    <2>1. e - n \in Int /\ t + d \in Nat
      BY <1>1
    <2> QED  BY <1>1, <1>3, <2>1, KeptAdds
  <1>5. (e - n) + n = e - 0 /\ (t + d) + k = (t + k) + d
    BY <1>1, <1>3
  <1> QED  BY <1>1, <1>4, <1>5 DEF n, k, t, d, z, e

-----------------------------------------------------------------------------
(* One lemma per action.                                                      *)

\* A call that leaves hook, self-burner and history alone.
LEMMA RouterStep ==
    ASSUME IInv, router' \in Routers, RouterInv(router'), PolicyPart',
           UNCHANGED <<hook, unburned, burnerBalance, earned, paid, sweeps>>,
           gifts'.hook = gifts.hook, gifts'.burner = gifts.burner
    PROVE  IInv'
  <1>1. HookPart' /\ BurnerPart' /\ RouterPart'
    BY DEF IInv, HookPart, BurnerPart, BurnerBacked, RouterPart
  <1>2. SharePart'
    BY ShareSame DEF IInv
  <1> QED  BY <1>1, <1>2 DEF IInv

LEMMA SwapInv ==
    ASSUME IInv, NEW p \in Pools, NEW fee \in SwapFees, Swap(p, fee)
    PROVE  IInv'
  <1>1. fee \in Nat
    BY RevenueAssumption
  <1>2. hook \in Books /\ Backed(hook, gifts.hook) /\ gifts.hook \in Nat
    BY DEF IInv, HookPart, PolicyPart
  <1>3. /\ hook' = Accrued(hook, p, fee)
        /\ earned' = [earned EXCEPT ![p] = earned[p] + fee]
        /\ swaps' = swaps + 1
        /\ UNCHANGED <<treasury, caps, paused, launchEnabled, unburned, burnerBalance,
                       router, done, paid, sweeps, gifts, migrations>>
    BY DEF Swap, policy
  <1>4. /\ hook' \in Books /\ Backed(hook', gifts.hook)
        /\ hook'.pending = [hook.pending EXCEPT ![p] = hook.pending[p] + fee]
        /\ hook'.tab = hook.tab
    BY <1>1, <1>2, <1>3, AccruedBacked
  <1>5. HookPart' /\ BurnerPart' /\ RouterPart' /\ PolicyPart'
    BY <1>3, <1>4 DEF IInv, HookPart, BurnerPart, BurnerBacked, RouterPart, PolicyPart
  <1>6. SharePart'
    <2>1. /\ hook.pending \in [Pools -> Nat] /\ hook.pending[p] \in Nat
          /\ earned[p] \in Nat /\ paid \in [Pools -> Nat] /\ sweeps \in [Pools -> Nat]
          /\ paid[p] \in Nat /\ sweeps[p] \in Nat
          /\ Kept(earned[p] - hook.pending[p], hook.tab[p] + paid[p], sweeps[p])
      BY <1>2 DEF IInv, SharePart, Books
    <2>2. /\ hook'.pending[p] = hook.pending[p] + fee /\ hook'.tab[p] = hook.tab[p]
          /\ \A q \in Pools \ {p} : hook'.pending[q] = hook.pending[q]
                                    /\ hook'.tab[q] = hook.tab[q]
      BY <1>4, <2>1
    <2>3. (earned[p] + fee) - hook'.pending[p] = earned[p] - hook.pending[p]
      BY <1>1, <2>1, <2>2
    <2>4. Kept((earned[p] + fee) - hook'.pending[p], hook'.tab[p] + paid[p], sweeps[p])
      BY <2>1, <2>2, <2>3
    <2>5. paid' = [paid EXCEPT ![p] = paid[p]] /\ sweeps' = [sweeps EXCEPT ![p] = sweeps[p]]
      BY <1>3, <2>1
    <2>6. earned[p] + fee \in Nat
      BY <1>1, <2>1
    <2>7. SharePart
      BY DEF IInv
    <2> DEFINE e == earned[p] + fee
    <2>8. earned' = [earned EXCEPT ![p] = e]
      BY <1>3
    <2> HIDE DEF e
    <2>9. e \in Nat /\ Kept(e - hook'.pending[p], hook'.tab[p] + paid[p], sweeps[p])
      BY <2>4, <2>6 DEF e
    <2>10. paid[p] \in Nat /\ sweeps[p] \in Nat /\ hook \in Books /\ hook' \in Books
      BY <1>2, <1>4, <2>1
    <2> QED  BY <2>2, <2>5, <2>7, <2>8, <2>9, <2>10, ShareStep
  <1> QED  BY <1>5, <1>6 DEF IInv

LEMMA SweepInv ==
    ASSUME IInv, NEW p \in Pools, Sweep(p)
    PROVE  IInv'
  <1>1. hook \in Books /\ Backed(hook, gifts.hook) /\ gifts.hook \in Nat
    BY DEF IInv, HookPart, PolicyPart
  <1>2. /\ hook' = Swept(hook, p)
        /\ router' = ToRouter(PlatformPart(hook, p))
        /\ sweeps' = [sweeps EXCEPT ![p] = sweeps[p] + Once(hook.pending[p])]
        /\ UNCHANGED <<treasury, caps, paused, launchEnabled, unburned, burnerBalance,
                       done, earned, paid, gifts, swaps, migrations>>
    BY DEF Sweep, policy, bounds, CountSweep, Once
  <1>3. /\ hook' \in Books /\ Backed(hook', gifts.hook)
        /\ hook'.pending = [hook.pending EXCEPT ![p] = 0]
        /\ hook'.tab = [hook.tab EXCEPT ![p] = hook.tab[p] + CreatorPart(hook, p)]
    BY <1>1, <1>2, SweptBacked
  <1>4. HookPart' /\ BurnerPart' /\ PolicyPart'
    BY <1>2, <1>3 DEF IInv, HookPart, BurnerPart, BurnerBacked, PolicyPart
  <1>5. RouterPart'
    <2>1. ToRouter(PlatformPart(hook, p)) \in Routers
          /\ RouterInv(ToRouter(PlatformPart(hook, p)))
      BY <1>1, PartsFit, ToRouterInv DEF IInv
    <2> QED  BY <1>2, <2>1 DEF RouterPart
  <1>6. SharePart'
    <2>1. SharePart
      BY DEF IInv
    <2>2. /\ earned[p] \in Nat /\ paid[p] \in Nat
          /\ sweeps[p] + Once(hook.pending[p]) \in Nat
          /\ earned' = [earned EXCEPT ![p] = earned[p]] /\ paid' = [paid EXCEPT ![p] = paid[p]]
      BY <1>2, <2>1 DEF SharePart, Once
    <2>3. /\ hook'.pending[p] = 0 /\ hook'.tab[p] = hook.tab[p] + CreatorPart(hook, p)
          /\ \A q \in Pools \ {p} : hook'.pending[q] = hook.pending[q]
                                    /\ hook'.tab[q] = hook.tab[q]
      BY <1>1, <1>3 DEF Books
    <2>4. Kept(earned[p] - hook'.pending[p], hook'.tab[p] + paid[p],
               sweeps[p] + Once(hook.pending[p]))
      BY <1>1, <2>1, <2>3, SweptShare
    <2> DEFINE z == sweeps[p] + Once(hook.pending[p])
    <2>5. z \in Nat /\ sweeps' = [sweeps EXCEPT ![p] = z]
      BY <1>2, <2>2
    <2>6. Kept(earned[p] - hook'.pending[p], hook'.tab[p] + paid[p], z)
      BY <2>4
    <2> HIDE DEF z
    <2>7. hook \in Books /\ hook' \in Books
      BY <1>1, <1>3
    <2> QED  BY <2>1, <2>2, <2>3, <2>5, <2>6, <2>7, ShareStep
  <1> QED  BY <1>4, <1>5, <1>6 DEF IInv

\* A sweep followed by the payment of the whole tab moves the share from the
\* tab to what was paid.
LEMMA PaidShare ==
    ASSUME SharePart, hook \in Books, NEW p \in Pools, NEW h,
           h.tab = [hook.tab EXCEPT ![p] = hook.tab[p] + CreatorPart(hook, p)]
    PROVE  /\ h.tab[p] \in Nat /\ paid[p] + h.tab[p] \in Nat
           /\ sweeps[p] + Once(hook.pending[p]) \in Nat
           /\ Kept(earned[p] - 0, 0 + (paid[p] + h.tab[p]),
                   sweeps[p] + Once(hook.pending[p]))
  <1>1. hook.tab[p] \in Nat /\ paid[p] \in Nat /\ sweeps[p] \in Nat
    BY DEF SharePart, Books
  <1>2. CreatorPart(hook, p) \in Nat
    BY PartsFit
  <1>3. h.tab[p] = hook.tab[p] + CreatorPart(hook, p)
    BY DEF Books
  <1>4. Kept(earned[p] - 0, (hook.tab[p] + CreatorPart(hook, p)) + paid[p],
             sweeps[p] + Once(hook.pending[p]))
    BY SweptShare
  <1>5. (hook.tab[p] + CreatorPart(hook, p)) + paid[p] = 0 + (paid[p] + h.tab[p])
    BY <1>1, <1>2, <1>3
  <1>6. Once(hook.pending[p]) \in Nat
    BY DEF Once
  <1> QED  BY <1>1, <1>2, <1>3, <1>4, <1>5, <1>6

LEMMA ClaimedInv ==
    ASSUME IInv, NEW p \in CreatorPools, Claim(p)
    PROVE  IInv'
  <1> DEFINE h == Swept(hook, p)
  <1>0. p \in Pools
    BY DEF Pools
  <1>1. hook \in Books /\ Backed(hook, gifts.hook) /\ gifts.hook \in Nat /\ SharePart
    BY DEF IInv, HookPart, PolicyPart
  <1>2. /\ hook' = PaidOut(h, p)
        /\ paid' = [paid EXCEPT ![p] = paid[p] + h.tab[p]]
        /\ router' = ToRouter(PlatformPart(hook, p))
        /\ sweeps' = [sweeps EXCEPT ![p] = sweeps[p] + Once(hook.pending[p])]
        /\ UNCHANGED <<treasury, caps, paused, launchEnabled, unburned, burnerBalance,
                       done, earned, gifts, swaps, migrations>>
    BY DEF Claim, policy, bounds, CountSweep, Once
  <1>3. /\ h \in Books /\ Backed(h, gifts.hook)
        /\ h.pending = [hook.pending EXCEPT ![p] = 0]
        /\ h.tab = [hook.tab EXCEPT ![p] = hook.tab[p] + CreatorPart(hook, p)]
    BY <1>0, <1>1, SweptBacked
  <1> HIDE DEF h
  <1>4. /\ hook' \in Books /\ Backed(hook', gifts.hook)
        /\ hook'.pending = h.pending /\ hook'.tab = [h.tab EXCEPT ![p] = 0]
    BY <1>0, <1>1, <1>2, <1>3, PaidOutBacked
  <1>5. HookPart' /\ BurnerPart' /\ PolicyPart'
    BY <1>2, <1>4 DEF IInv, HookPart, BurnerPart, BurnerBacked, PolicyPart
  <1>6. RouterPart'
    <2>1. ToRouter(PlatformPart(hook, p)) \in Routers
          /\ RouterInv(ToRouter(PlatformPart(hook, p)))
      BY <1>0, <1>1, PartsFit, ToRouterInv DEF IInv
    <2> QED  BY <1>2, <2>1 DEF RouterPart
  <1>7. SharePart'
    <2>1. /\ paid[p] + h.tab[p] \in Nat /\ sweeps[p] + Once(hook.pending[p]) \in Nat
          /\ Kept(earned[p] - 0, 0 + (paid[p] + h.tab[p]), sweeps[p] + Once(hook.pending[p]))
      BY <1>0, <1>1, <1>3, PaidShare
    <2>2. earned[p] \in Nat /\ earned' = [earned EXCEPT ![p] = earned[p]]
      BY <1>0, <1>1, <1>2 DEF SharePart
    <2>3. /\ hook'.pending[p] = 0 /\ hook'.tab[p] = 0
          /\ \A q \in Pools \ {p} : hook'.pending[q] = hook.pending[q]
                                    /\ hook'.tab[q] = hook.tab[q]
      BY <1>0, <1>1, <1>3, <1>4 DEF Books
    <2>4. Kept(earned[p] - hook'.pending[p], hook'.tab[p] + (paid[p] + h.tab[p]),
               sweeps[p] + Once(hook.pending[p]))
      BY <2>1, <2>3
    <2> QED  BY <1>0, <1>1, <1>2, <1>4, <2>1, <2>2, <2>3, <2>4, ShareStep
  <1> QED  BY <1>5, <1>6, <1>7 DEF IInv

\* A burn claims through the same sweep, which leaves the hook alone when there
\* is nothing to sweep.
LEMMA HookForBurnBacked ==
    ASSUME NEW p \in Pools, hook \in Books, NEW gift \in Nat, Backed(hook, gift)
    PROVE  LET h == HookForBurn(p)
           IN  /\ h \in Books /\ Backed(h, gift)
               /\ h.pending = [hook.pending EXCEPT ![p] = 0]
               /\ h.tab = [hook.tab EXCEPT ![p] = hook.tab[p] + CreatorPart(hook, p)]
  <1>1. CASE hook.pending[p] > 0 \/ hook.tab[p] > 0
    BY <1>1, SweptBacked DEF HookForBurn
  <1>2. CASE ~(hook.pending[p] > 0 \/ hook.tab[p] > 0)
    <2>1. /\ hook.pending \in [Pools -> Nat] /\ hook.tab \in [Pools -> Nat]
          /\ hook.pending[p] \in Nat /\ hook.tab[p] \in Nat
      BY DEF Books
    <2>2. hook.pending[p] = 0 /\ HookForBurn(p) = hook
      BY <1>2, <2>1 DEF HookForBurn
    <2>3. CreatorPart(hook, p) = 0
      BY <2>2, PartsFit
    <2>4. hook.pending = [hook.pending EXCEPT ![p] = 0]
      BY <2>1, <2>2
    <2>5. hook.tab = [hook.tab EXCEPT ![p] = hook.tab[p] + CreatorPart(hook, p)]
      BY <2>1, <2>3
    <2> QED  BY <2>2, <2>4, <2>5
  <1> QED  BY <1>1, <1>2

LEMMA BurnInv ==
    ASSUME IInv, NEW p \in SelfBurnPools, Burn(p)
    PROVE  IInv'
  <1> DEFINE h == HookForBurn(p)
             w == PaidOut(h, p)
             fee == BurnFee(p)
             k == BurnChunk(p)
  <1>0. p \in Pools
    BY DEF Pools
  <1>1. /\ hook \in Books /\ Backed(hook, gifts.hook) /\ gifts.hook \in Nat /\ SharePart
        /\ gifts.burner \in Nat /\ unburned \in [SelfBurnPools -> Nat] /\ burnerBalance \in Int
    BY DEF IInv, HookPart, PolicyPart, BurnerPart
  <1>2. /\ hook' = Accrued(w, p, fee)
        /\ paid' = [paid EXCEPT ![p] = paid[p] + h.tab[p]]
        /\ burnerBalance' = burnerBalance + h.tab[p] - k
        /\ unburned' = [unburned EXCEPT ![p] = Carried(p)]
        /\ earned' = [earned EXCEPT ![p] = earned[p] + fee]
        /\ router' = ToRouter(PlatformPart(hook, p))
        /\ sweeps' = [sweeps EXCEPT ![p] = sweeps[p] + Once(hook.pending[p])]
        /\ done' = done \cup {p}
        /\ UNCHANGED <<treasury, caps, paused, launchEnabled, gifts, swaps, migrations>>
    BY DEF Burn, policy, bounds, CountSweep, Once
  <1>3. /\ h \in Books /\ Backed(h, gifts.hook)
        /\ h.pending = [hook.pending EXCEPT ![p] = 0]
        /\ h.tab = [hook.tab EXCEPT ![p] = hook.tab[p] + CreatorPart(hook, p)]
    BY <1>0, <1>1, HookForBurnBacked
  <1>4. /\ k \in Nat /\ k <= Fuel(p) /\ fee \in Nat
        /\ Fuel(p) = unburned[p] + h.tab[p] /\ Carried(p) = Fuel(p) - k
        /\ unburned[p] \in Nat /\ h.tab[p] \in Nat
    <2>1. h.tab[p] \in Nat /\ unburned[p] \in Nat /\ Fuel(p) = unburned[p] + h.tab[p]
      BY <1>0, <1>1, <1>3 DEF Fuel, Books
    <2>2. Fuel(p) \in Nat
      BY <2>1
    <2>3. k \in Nat /\ k <= Fuel(p) /\ Carried(p) = Fuel(p) - k
      BY <2>2, RevenueAssumption DEF BurnChunk, Chunk, Carried
    <2>4. BurnBountyBps \in 0 .. BPS /\ BurnFeeBps \in 0 .. BPS
      BY RevenueAssumption, SharesAssumption
    <2>5. BurnQuote(p) \in Nat
      BY <2>3, <2>4, FloorShare DEF BurnQuote, BurnBounty
    <2>6. fee \in Nat
      BY <2>4, <2>5, FloorShare DEF BurnFee
    <2> QED  BY <2>1, <2>3, <2>6
  <1> HIDE DEF h, fee, k
  <1>5. /\ w \in Books /\ Backed(w, gifts.hook)
        /\ w.pending = h.pending /\ w.tab = [h.tab EXCEPT ![p] = 0]
    BY <1>0, <1>1, <1>3, PaidOutBacked
  <1> HIDE DEF w
  <1>6. /\ hook' \in Books /\ Backed(hook', gifts.hook)
        /\ hook'.pending = [w.pending EXCEPT ![p] = w.pending[p] + fee]
        /\ hook'.tab = w.tab
    BY <1>0, <1>1, <1>2, <1>4, <1>5, AccruedBacked
  <1>7. HookPart'
    BY <1>2, <1>6 DEF HookPart
  <1>8. PolicyPart'
    BY <1>2 DEF IInv, PolicyPart
  <1>9. BurnerPart'
    <2>1. Carried(p) \in Nat
      BY <1>4
    <2>2. Together(unburned') = Together(unburned) - unburned[p] + Carried(p)
      BY <1>1, <1>2, <2>1, FinitePools, TogetherReplaced
    <2>3. Together(unburned) \in Nat
      BY <1>1, FinitePools, TogetherNat
    <2>4. burnerBalance = Together(unburned) + gifts.burner
      BY DEF IInv, BurnerPart, BurnerBacked
    <2>5. burnerBalance' = Together(unburned') + gifts'.burner
      BY <1>1, <1>2, <1>4, <2>2, <2>3, <2>4
    <2>6. unburned' \in [SelfBurnPools -> Nat] /\ burnerBalance' \in Int
      BY <1>1, <1>2, <1>4, <2>1
    <2> QED  BY <2>5, <2>6 DEF BurnerPart, BurnerBacked
  <1>10. RouterPart'
    <2>1. ToRouter(PlatformPart(hook, p)) \in Routers
          /\ RouterInv(ToRouter(PlatformPart(hook, p)))
      BY <1>0, <1>1, PartsFit, ToRouterInv DEF IInv
    <2> QED  BY <1>2, <2>1 DEF RouterPart
  <1>11. SharePart'
    <2> DEFINE e == earned[p] + fee
               d == paid[p] + h.tab[p]
               z == sweeps[p] + Once(hook.pending[p])
    <2>1. d \in Nat /\ z \in Nat /\ Kept(earned[p] - 0, 0 + d, z)
      BY <1>0, <1>1, <1>3, PaidShare
    <2>2. earned[p] \in Nat /\ e \in Nat /\ e - fee = earned[p] - 0
      BY <1>0, <1>1, <1>4 DEF SharePart
    <2>3. /\ hook'.pending[p] = fee /\ hook'.tab[p] = 0
          /\ \A q \in Pools \ {p} : hook'.pending[q] = hook.pending[q]
                                    /\ hook'.tab[q] = hook.tab[q]
      <3>1. w.pending[p] = 0
        BY <1>0, <1>1, <1>3, <1>5 DEF Books
      <3>2. hook'.pending[p] = 0 + fee /\ hook'.tab[p] = 0
        BY <1>0, <1>3, <1>5, <1>6, <3>1 DEF Books
      <3>3. \A q \in Pools \ {p} : hook'.pending[q] = hook.pending[q]
                                   /\ hook'.tab[q] = hook.tab[q]
        BY <1>1, <1>3, <1>5, <1>6 DEF Books
      <3> QED  BY <1>4, <3>2, <3>3
    <2>4. /\ earned' = [earned EXCEPT ![p] = e] /\ paid' = [paid EXCEPT ![p] = d]
          /\ sweeps' = [sweeps EXCEPT ![p] = z]
      BY <1>2
    <2> HIDE DEF e, d, z
    <2>5. Kept(e - hook'.pending[p], hook'.tab[p] + d, z)
      BY <2>1, <2>2, <2>3
    <2>6. SharePart /\ hook \in Books /\ hook' \in Books
      BY <1>1, <1>6
    <2> QED  BY <1>0, <2>1, <2>2, <2>3, <2>4, <2>5, <2>6, ShareStep
  <1> QED  BY <1>7, <1>8, <1>9, <1>10, <1>11 DEF IInv

LEMMA CollectPlatformInv ==
    ASSUME IInv, CollectPlatform
    PROVE  IInv'
  <1>1. hook \in Books /\ Backed(hook, gifts.hook) /\ gifts.hook \in Nat /\ SharePart
    BY DEF IInv, HookPart, PolicyPart
  <1>2. /\ hook' = [hook EXCEPT !.platformTab = 0,
                                !.balance = hook.balance - hook.platformTab]
        /\ router' = ToRouter(hook.platformTab)
        /\ UNCHANGED <<treasury, caps, paused, launchEnabled, unburned, burnerBalance,
                       done, earned, paid, sweeps, gifts, swaps, migrations>>
    BY DEF CollectPlatform, policy, bounds
  <1>3. /\ hook.platformTab \in Nat /\ hook.balance \in Int
        /\ hook.tab \in [Pools -> Nat]
    BY <1>1 DEF Books
  <1>4. /\ hook' \in Books /\ hook'.pending = hook.pending /\ hook'.tab = hook.tab
        /\ hook'.claims = hook.claims /\ hook'.platformTab = 0
        /\ hook'.balance = hook.balance - hook.platformTab
    <2>1. hook.balance - hook.platformTab \in Int
      BY <1>3
    <2> QED  BY <1>1, <1>2, <2>1 DEF Books
  <1>5. Together(hook.tab) \in Nat
    BY <1>3, FinitePools, TogetherNat
  <1>6. Backed(hook', gifts.hook)
    BY <1>1, <1>3, <1>4, <1>5 DEF Backed
  <1>7. HookPart' /\ BurnerPart' /\ PolicyPart'
    BY <1>2, <1>4, <1>6 DEF IInv, HookPart, BurnerPart, BurnerBacked, PolicyPart
  <1>8. RouterPart'
    BY <1>2, <1>3, ToRouterInv DEF IInv, RouterPart
  <1>9. SharePart'
    BY <1>1, <1>2, <1>4, ShareSame
  <1> QED  BY <1>7, <1>8, <1>9 DEF IInv

\* PIPEDOG from outside raises what a contract has and what it was given.
LEMMA GiftInv ==
    ASSUME IInv, Gift
    PROVE  IInv'
  <1>1. /\ hook \in Books /\ Backed(hook, gifts.hook) /\ router \in Routers /\ RouterInv(router)
        /\ gifts \in [hook : Nat, burner : Nat, router : Nat] /\ SharePart
        /\ burnerBalance \in Int /\ unburned \in [SelfBurnPools -> Nat]
        /\ burnerBalance = Together(unburned) + gifts.burner
    BY DEF IInv, HookPart, PolicyPart, BurnerPart, BurnerBacked, RouterPart
  <1>2. UNCHANGED <<treasury, caps, paused, launchEnabled, unburned, done, earned, paid,
                    sweeps, swaps, migrations>>
    BY DEF Gift, policy
  <1>3. gifts' \in [hook : Nat, burner : Nat, router : Nat]
    BY <1>1 DEF Gift
  <1>4. PolicyPart'
    BY <1>2, <1>3 DEF IInv, PolicyPart
  <1>5. CASE /\ gifts' = [gifts EXCEPT !.hook = @ + 1]
             /\ hook' = [hook EXCEPT !.balance = @ + 1]
             /\ UNCHANGED <<burnerBalance, router>>
    <2>1. /\ hook' \in Books /\ hook'.pending = hook.pending /\ hook'.tab = hook.tab
          /\ hook'.claims = hook.claims /\ hook'.platformTab = hook.platformTab
          /\ hook'.balance = hook.balance + 1
          /\ gifts'.hook = gifts.hook + 1 /\ gifts'.burner = gifts.burner
      BY <1>1, <1>5 DEF Books
    <2>2. Together(hook.tab) \in Nat /\ hook.platformTab \in Nat /\ gifts.hook \in Nat
      BY <1>1, FinitePools, TogetherNat DEF Books
    <2>3. HookPart'
      BY <1>1, <2>1, <2>2 DEF HookPart, Backed
    <2>4. BurnerPart' /\ RouterPart'
      BY <1>1, <1>2, <1>5, <2>1 DEF BurnerPart, BurnerBacked, RouterPart
    <2>5. SharePart'
      BY <1>1, <1>2, <2>1, ShareSame
    <2> QED  BY <1>4, <2>3, <2>4, <2>5 DEF IInv
  <1>6. CASE /\ gifts' = [gifts EXCEPT !.burner = @ + 1]
             /\ burnerBalance' = burnerBalance + 1
             /\ UNCHANGED <<hook, router>>
    <2>1. gifts'.hook = gifts.hook /\ gifts'.burner = gifts.burner + 1
      BY <1>1, <1>6
    <2>2. Together(unburned) \in Nat /\ gifts.burner \in Nat
      BY <1>1, FinitePools, TogetherNat
    <2>3. BurnerPart'
      BY <1>1, <1>2, <1>6, <2>1, <2>2 DEF BurnerPart, BurnerBacked
    <2>4. HookPart' /\ RouterPart'
      BY <1>1, <1>6, <2>1 DEF HookPart, RouterPart
    <2>5. SharePart'
      BY <1>1, <1>2, <1>6, ShareSame
    <2> QED  BY <1>4, <2>3, <2>4, <2>5 DEF IInv
  <1>7. CASE /\ gifts' = [gifts EXCEPT !.router = @ + 1]
             /\ router' = Received(router, 1)
             /\ UNCHANGED <<hook, burnerBalance>>
    <2>1. Received(router, 1) \in Routers /\ RouterInv(Received(router, 1))
      BY <1>1, ReceivedInv
    <2>2. gifts'.hook = gifts.hook /\ gifts'.burner = gifts.burner
      BY <1>1, <1>7
    <2> QED  BY <1>2, <1>4, <1>7, <2>1, <2>2, RouterStep
  <1> QED  BY <1>5, <1>6, <1>7 DEF Gift

LEMMA NextInv == IInv /\ [Next]_vars => IInv'
  <1> SUFFICES ASSUME IInv, [Next]_vars PROVE IInv'
    OBVIOUS
  <1>0. router \in Routers /\ RouterInv(router) /\ PolicyPart
    BY DEF IInv, RouterPart
  <1>a. Allocated(router) \in Routers /\ RouterInv(Allocated(router))
    BY <1>0, AllocatedInv
  <1>b. caps.sequester \in Nat /\ caps.treasury \in Nat
    BY <1>0, RevenueAssumption DEF PolicyPart
  <1>1. ASSUME NEW p \in Pools, NEW fee \in SwapFees, Swap(p, fee) PROVE IInv'
    BY <1>1, SwapInv
  <1>2. ASSUME NEW p \in Pools, Sweep(p) PROVE IInv'
    BY <1>2, SweepInv
  <1>3. ASSUME NEW p \in CreatorPools, Claim(p) PROVE IInv'
    BY <1>3, ClaimedInv
  <1>4. ASSUME NEW p \in SelfBurnPools, Burn(p) PROVE IInv'
    BY <1>4, BurnInv
  <1>5. CASE CollectPlatform
    BY <1>5, CollectPlatformInv
  <1>6. CASE Allocate
    <2>1. PolicyPart'
      BY <1>0, <1>6 DEF Allocate, policy, bounds, PolicyPart
    <2> QED  BY <1>6, <1>a, <2>1, RouterStep DEF Allocate, bounds
  <1>7. CASE SequesterPipedog
    <2>1. PolicyPart'
      BY <1>0, <1>7 DEF SequesterPipedog, policy, bounds, PolicyPart
    <2> QED  BY <1>7, <1>a, <1>b, <2>1, SequesteredInv, RouterStep
             DEF SequesterPipedog, bounds
  <1>8. CASE RouteTreasuryPipedog
    <2>1. PolicyPart'
      BY <1>0, <1>8 DEF RouteTreasuryPipedog, policy, bounds, PolicyPart
    <2> QED  BY <1>8, <1>a, <1>b, <2>1, RoutedInv, RouterStep
             DEF RouteTreasuryPipedog, bounds
  <1>9. CASE CollectOperations
    <2>1. PolicyPart'
      BY <1>0, <1>9 DEF CollectOperations, policy, bounds, PolicyPart
    <2> QED  BY <1>9, <1>a, <2>1, CollectedInv, RouterStep DEF CollectOperations, bounds
  <1>10. CASE Migrate
    <2>1. PolicyPart'
      BY <1>0, <1>10 DEF Migrate, policy, PolicyPart
    <2> QED  BY <1>0, <1>10, <1>a, <2>1, AllAllocated, MigratedInv, RouterStep
             DEF Migrate
  <1>11. CASE SetPolicy
    <2>1. PolicyPart'
      BY <1>0, <1>11 DEF SetPolicy, bounds, PolicyPart
    <2> QED  BY <1>0, <1>11, <2>1, RouterStep DEF SetPolicy, bounds
  <1>12. CASE SetLaunchEnabled
    <2>1. PolicyPart'
      BY <1>0, <1>12 DEF SetLaunchEnabled, bounds, PolicyPart
    <2> QED  BY <1>0, <1>12, <2>1, RouterStep DEF SetLaunchEnabled, bounds
  <1>13. CASE Gift
    BY <1>13, GiftInv
  <1>14. CASE Deposit
    <2>1. Received(router, 1) \in Routers /\ RouterInv(Received(router, 1))
      BY <1>0, ReceivedInv
    <2>2. router' \in Routers /\ RouterInv(router')
      BY <1>14, <2>1, AllocatedInv DEF Deposit
    <2>3. PolicyPart' /\ gifts'.hook = gifts.hook /\ gifts'.burner = gifts.burner
      BY <1>0, <1>14 DEF Deposit, policy, PolicyPart
    <2> QED  BY <1>14, <2>2, <2>3, RouterStep DEF Deposit
  <1>15. CASE NewBlock
    <2>1. PolicyPart'
      BY <1>0, <1>15 DEF NewBlock, policy, bounds, PolicyPart
    <2> QED  BY <1>0, <1>15, <2>1, RouterStep DEF NewBlock, bounds
  <1>16. CASE UNCHANGED vars
    <2>1. PolicyPart'
      BY <1>0, <1>16 DEF vars, PolicyPart
    <2> QED  BY <1>0, <1>16, <2>1, RouterStep DEF vars
  <1> QED
    BY <1>1, <1>2, <1>3, <1>4, <1>5, <1>6, <1>7, <1>8, <1>9, <1>10, <1>11, <1>12, <1>13,
       <1>14, <1>15, <1>16 DEF Next, Keepers

LEMMA Inductive == Spec => []IInv
  BY InitInv, NextInv, PTL DEF Spec

\* Every variable keeps its type; in particular neither the hook's claims and
\* balance nor the self-burner's balance ever go below zero.
THEOREM TypeCorrect == Spec => []TypeOK
  <1>1. IInv => TypeOK
    <2> SUFFICES ASSUME IInv PROVE TypeOK
      OBVIOUS
    <2>1. gifts.hook \in Nat /\ gifts.burner \in Nat
      BY DEF IInv, PolicyPart
    <2>2. hook \in Hooks
      BY <2>1, BackedHooks DEF IInv, HookPart
    <2>3. Together(unburned) \in Nat
      BY FinitePools, TogetherNat DEF IInv, BurnerPart
    <2>4. burnerBalance \in Nat
      BY <2>1, <2>3 DEF IInv, BurnerPart, BurnerBacked
    <2> QED  BY <2>2, <2>4 DEF IInv, BurnerPart, RouterPart, SharePart, PolicyPart, TypeOK
  <1> QED  BY <1>1, Inductive, PTL

\* PipedogHook can pay all it owes: its PoolManager claims are the unswept fees
\* of all pools, its PIPEDOG the creators' tabs, the parked platform money and
\* gifts, for every number of pools, whatever platform transfer fails.
THEOREM HookIsBacked == Spec => []HookBacked
  <1>1. IInv => HookBacked
    BY DEF IInv, HookPart, Backed, HookBacked
  <1> QED  BY <1>1, Inductive, PTL

\* The self-burner holds exactly the unburned fuel of all of its pools and what
\* it was given: no burn spends another pool's fuel.
THEOREM BurnerIsBacked == Spec => []BurnerBacked
  <1>1. IInv => BurnerBacked
    BY DEF IInv, BurnerPart
  <1> QED  BY <1>1, Inductive, PTL

\* The lanes of PipedogRevenueRouter are covered by its balance, and every unit
\* it ever allocated is in a lane or left by exactly one exit.
THEOREM RouterSolvent == Spec => []RouterBooks
  <1>1. IInv => RouterBooks
    BY DEF IInv, RouterPart, RouterBooks
  <1> QED  BY <1>1, Inductive, PTL

\* A pool's creator has, in tab and payouts, the agreed share of all fees swept
\* so far, to one unit per sweep and never above it.
THEOREM CreatorsKeepShare == Spec => []CreatorKeepsShare
  <1>1. IInv => CreatorKeepsShare
    BY DEF IInv, SharePart, Kept, CreatorKeepsShare
  <1> QED  BY <1>1, Inductive, PTL
-----------------------------------------------------------------------------
(* The reconciliation.  Its sums are folds; what they come to is shown first. *)

\* The sum of a function over a finite set is the number of its parcels.
LEMMA SumIsTogether ==
    ASSUME NEW S, IsFiniteSet(S), NEW f \in [S -> Nat]
    PROVE  SumFunction(f) = Together(f)
  <1> DEFINE Any(s) == CHOOSE x \in s : TRUE
             Folds(g) == g = [s \in SUBSET S |->
                                IF s = {} THEN 0 ELSE f[Any(s)] + g[s \ {Any(s)}]]
             Part(s) == Together([x \in s |-> f[x]])
             parts == [s \in SUBSET S |-> Part(s)]
             fold == CHOOSE g : Folds(g)
  <1>1. SumFunction(f) = fold[S]
    BY DEF SumFunction, SumFunctionOnSet, FoldFunctionOnSet, MapThenFoldSet
  <1>2. Part({}) = 0
    <2>1. Parcels([x \in {} |-> f[x]]) = {}
      BY DEF Parcels
    <2> QED  BY <2>1, FS_EmptySet DEF Together
  <1>3. ASSUME NEW s \in SUBSET S, s # {}
        PROVE  Any(s) \in s /\ Part(s) = f[Any(s)] + Part(s \ {Any(s)})
    <2>1. PICK x : x = Any(s)
      OBVIOUS
    <2>2. x \in s
      BY <1>3, <2>1
    <2> HIDE DEF Any
    <2>3. IsFiniteSet(s)
      BY FS_Subset
    <2> DEFINE g == [y \in s |-> f[y]]
               h == [y \in s \ {x} |-> f[y]]
               rest == UNION {{q} \X (1 .. g[q]) : q \in s \ {x}}
    <2>4. g \in [s -> Nat] /\ g[x] = f[x] /\ f[x] \in Nat
      BY <2>2
    <2>5. Parcels(h) = rest
      BY DEF Parcels
    <2>6. IsFiniteSet(rest) /\ Cardinality(Parcels(g)) = Cardinality(rest) + g[x]
      <3> HIDE DEF g
      <3> QED  BY <2>2, <2>3, <2>4, ParcelsSplit, Zenon
    <2>7. Cardinality(rest) \in Nat
      BY <2>6, FS_CardinalityType
    <2> HIDE DEF g, h, rest
    <2>8. Together(g) = f[x] + Together(h)
      BY <2>4, <2>5, <2>6, <2>7 DEF Together
    <2> QED  BY <2>1, <2>2, <2>8 DEF g, h
  <1>4. Folds(parts)
    <2>1. ASSUME NEW s \in SUBSET S
          PROVE  parts[s] = IF s = {} THEN 0 ELSE f[Any(s)] + parts[s \ {Any(s)}]
      <3> HIDE DEF Part, Any
      <3>1. s \ {Any(s)} \in SUBSET S
        OBVIOUS
      <3>2. parts[s] = Part(s) /\ parts[s \ {Any(s)}] = Part(s \ {Any(s)})
        BY <3>1
      <3> HIDE DEF parts
      <3> QED  BY <1>2, <1>3, <3>2
    <2> HIDE DEF Part, Any
    <2> QED  BY <2>1
  <1>5. Folds(fold)
    BY <1>4
  <1> HIDE DEF fold, parts
  <1>6. \A s \in SUBSET S : fold[s] = IF s = {} THEN 0 ELSE f[Any(s)] + fold[s \ {Any(s)}]
    BY <1>5
  <1> DEFINE Wrong == {s \in SUBSET S : fold[s] # Part(s)}
  <1>7. Wrong = {}
    <2> HIDE DEF Part, Any
    <2> SUFFICES ASSUME Wrong # {} PROVE FALSE
      OBVIOUS
    <2>1. IsWellFoundedOn(StrictSubsetOrdering(S), FiniteSubsetsOf(S))
      BY FS_StrictSubsetOrderingWellFounded
    <2>2. Wrong \subseteq FiniteSubsetsOf(S)
      BY FS_Subset DEF FiniteSubsetsOf
    <2> HIDE DEF Wrong
    <2>3. PICK s \in Wrong : \A t \in Wrong : <<t, s>> \notin StrictSubsetOrdering(S)
      BY <2>1, <2>2, WFMin
    <2> USE DEF Wrong
    <2>4. s \in SUBSET S /\ s # {}
      BY <1>2, <1>6, <2>3
    <2>5. s \ {Any(s)} \in SUBSET S /\ s \ {Any(s)} # s
      BY <1>3, <2>4
    <2>6. s \ {Any(s)} \notin Wrong
      BY <2>3, <2>4, <2>5 DEF StrictSubsetOrdering
    <2>7. fold[s \ {Any(s)}] = Part(s \ {Any(s)})
      BY <2>5, <2>6
    <2>8. fold[s] = Part(s)
      BY <1>3, <1>6, <2>4, <2>7
    <2> QED  BY <2>3, <2>8
  <1>8. fold[S] = Part(S)
    BY <1>7
  <1>9. [x \in S |-> f[x]] = f
    OBVIOUS
  <1> QED  BY <1>1, <1>8, <1>9

\* A call writes at most one row of a sum.
Written(rows) ==
  \A r \in rows :
    /\ r.amount \in Int
    /\ \A s \in rows : s.sum = r.sum /\ s.key = r.key => s = r

AmountOf(rows) == MapThenSumSet(LAMBDA r : r.amount, rows)

LEMMA AmountOfNone == AmountOf({}) = 0
  <1> DEFINE Any(s) == CHOOSE x \in s : TRUE
             Folds(g) == g = [s \in SUBSET {} |->
                                IF s = {} THEN 0 ELSE Any(s).amount + g[s \ {Any(s)}]]
             fold == CHOOSE g : Folds(g)
  <1>1. AmountOf({}) = fold[{}]
    BY DEF AmountOf, MapThenSumSet, MapThenFoldSet
  <1>2. Folds([s \in SUBSET {} |-> 0])
    OBVIOUS
  <1>3. Folds(fold)
    BY <1>2
  <1> HIDE DEF fold
  <1>4. fold[{}] = 0
    BY <1>3
  <1> QED  BY <1>1, <1>4

LEMMA AmountOfOne ==
    ASSUME NEW r, r.amount \in Int
    PROVE  AmountOf({r}) = r.amount
  <1> DEFINE Any(s) == CHOOSE x \in s : TRUE
             Folds(g) == g = [s \in SUBSET {r} |->
                                IF s = {} THEN 0 ELSE Any(s).amount + g[s \ {Any(s)}]]
             fold == CHOOSE g : Folds(g)
             sums == [s \in SUBSET {r} |-> IF s = {} THEN 0 ELSE r.amount]
  <1>1. AmountOf({r}) = fold[{r}]
    BY DEF AmountOf, MapThenSumSet, MapThenFoldSet
  <1>2. \A s \in SUBSET {r} : s # {} => s = {r} /\ Any(s) = r /\ s \ {Any(s)} = {}
    OBVIOUS
  <1> HIDE DEF Any
  <1>3. Folds(sums)
    <2>1. \A s \in SUBSET {r} :
            sums[s] = IF s = {} THEN 0 ELSE Any(s).amount + sums[s \ {Any(s)}]
      BY <1>2
    <2> QED  BY <2>1
  <1>4. Folds(fold)
    BY <1>3
  <1> HIDE DEF fold
  <1>5. \A s \in SUBSET {r} : fold[s] = IF s = {} THEN 0 ELSE Any(s).amount + fold[s \ {Any(s)}]
    BY <1>4
  <1>6. {} \in SUBSET {r} /\ {r} \in SUBSET {r} /\ {r} # {}
    OBVIOUS
  <1>7. Any({r}) = r /\ {r} \ {Any({r})} = {}
    BY <1>2, <1>6
  <1>8. fold[{}] = 0
    BY <1>5, <1>6
  <1>9. fold[{r}] = r.amount + 0
    <2>1. fold[{r}] = Any({r}).amount + fold[{r} \ {Any({r})}]
      BY <1>5, <1>6
    <2> QED  BY <1>7, <1>8, <2>1
  <1>10. fold[{r}] = r.amount
    BY <1>9
  <1> QED  BY <1>1, <1>10

LEMMA Emitted ==
    ASSUME ledger \in [Keys -> Int], NEW rows, Written(rows), Emit(rows)
    PROVE  /\ ledger' \in [Keys -> Int]
           /\ \A k \in Keys : (\A r \in rows : <<r.sum, r.key>> # k) => ledger'[k] = ledger[k]
           /\ \A r \in rows : <<r.sum, r.key>> \in Keys =>
                ledger'[<<r.sum, r.key>>] = ledger[<<r.sum, r.key>>] + r.amount
  <1> DEFINE At(k) == {r \in rows : <<r.sum, r.key>> = k}
  <1>1. ledger' = [k \in Keys |-> ledger[k] + AmountOf(At(k))]
    BY DEF Emit, AmountOf
  <1>2. ASSUME NEW k, \A r \in rows : <<r.sum, r.key>> # k
        PROVE  AmountOf(At(k)) = 0
    <2>1. At(k) = {}
      BY <1>2
    <2> QED  BY <2>1, AmountOfNone
  <1>3. ASSUME NEW r \in rows
        PROVE  r.amount \in Int /\ AmountOf(At(<<r.sum, r.key>>)) = r.amount
    <2>1. At(<<r.sum, r.key>>) = {r}
      BY DEF Written
    <2>2. r.amount \in Int
      BY DEF Written
    <2> QED  BY <2>1, <2>2, AmountOfOne
  <1> HIDE DEF At
  <1>4. \A k : AmountOf(At(k)) \in Int
    <2> SUFFICES ASSUME NEW k PROVE AmountOf(At(k)) \in Int
      OBVIOUS
    <2>1. CASE \A r \in rows : <<r.sum, r.key>> # k
      BY <1>2, <2>1
    <2>2. CASE \E r \in rows : <<r.sum, r.key>> = k
      BY <1>3, <2>2
    <2> QED  BY <2>1, <2>2
  <1>5. ledger' \in [Keys -> Int]
    BY <1>1, <1>4
  <1> QED  BY <1>1, <1>2, <1>3, <1>5

-----------------------------------------------------------------------------
(* What each comparison finds.  The sums of a pool agree with hook and        *)
(* self-burner, those of the platform lane with the hook, and those of the    *)
(* router with its books.                                                     *)

PoolAgrees(q) ==
  /\ PendingExpected(q) = hook.pending[q]
  /\ TabExpected(q) = hook.tab[q]
  /\ q \in SelfBurnPools =>
       UnburnedExpected(q) = unburned[q] /\ Of("nonBurnerClaims", q) = 0
  /\ q \in CreatorPools => Of("burnCount", q) = 0

PoolsAgree == \A q \in Pools : PoolAgrees(q)

PlatformAgrees == Total("platformDeferred") - Total("platformCollected") = hook.platformTab

LanesAgree ==
  /\ Total("allocatedSequester") - Total("sequestered") - Total("sequesterBounties")
       = router.sequesterTank
  /\ Total("allocatedTreasury") - Total("treasuryRouted") - Total("treasuryBounties")
       = router.treasuryTank
  /\ Total("allocatedOperations") - Total("operationsCollected") = router.operationsTab

\* A migration leaves the sums of the lanes behind, which is why it is refused.
RouterAgrees ==
  /\ Total("allocatedSequester") + Total("allocatedTreasury") + Total("allocatedOperations")
       = router.allocated
  /\ Total("sequestered") = router.sequestered
  /\ Total("treasuryRouted") = router.routed
  /\ Total("operationsCollected") = router.collected
  /\ Total("sequesterBounties") + Total("treasuryBounties") = router.bounties
  /\ Total("migrations") = migrations
  /\ router.migrated > 0 => migrations > 0
  /\ migrations = 0 => LanesAgree

LedgerInv == ledger \in [Keys -> Int] /\ PoolsAgree /\ PlatformAgrees /\ RouterAgrees

PlatformSums == {"platformDeferred", "platformCollected"}
RouterSums == GlobalSums \ PlatformSums

LEMMA KeysOf ==
    /\ \A s \in PoolSums, q \in Pools : <<s, q>> \in Keys
    /\ \A s \in GlobalSums : <<s, Global>> \in Keys
    /\ \A q \in SelfBurnPools : <<"nonBurnerClaims", q>> \in Keys
    /\ \A q \in CreatorPools : <<"burnCount", q>> \in Keys
  BY DEF Keys

\* Rows of one pool leave the others alone.
LEMMA OtherPool ==
    ASSUME ledger \in [Keys -> Int], NEW rows, Written(rows), Emit(rows),
           NEW p, \A r \in rows : r.key \in {p, Global},
           NEW q \in Pools, q # p, PoolAgrees(q),
           hook'.pending[q] = hook.pending[q], hook'.tab[q] = hook.tab[q],
           q \in SelfBurnPools => unburned'[q] = unburned[q]
    PROVE  PoolAgrees(q)'
  <1>1. \A s : <<s, q>> \in Keys => ledger'[<<s, q>>] = ledger[<<s, q>>]
    <2> SUFFICES ASSUME NEW s, <<s, q>> \in Keys
                 PROVE  ledger'[<<s, q>>] = ledger[<<s, q>>]
      OBVIOUS
    <2>1. q # Global
      BY GlobalAssumption
    <2>2. \A r \in rows : <<r.sum, r.key>> # <<s, q>>
      BY <2>1
    <2> QED  BY <2>2, Emitted
  <1>2. \A s \in PoolSums : ledger'[<<s, q>>] = ledger[<<s, q>>]
    BY <1>1, KeysOf
  <1>3. q \in SelfBurnPools => ledger'[<<"nonBurnerClaims", q>>] = ledger[<<"nonBurnerClaims", q>>]
    BY <1>1, KeysOf
  <1>4. q \in CreatorPools => ledger'[<<"burnCount", q>>] = ledger[<<"burnCount", q>>]
    BY <1>1, KeysOf
  <1> QED  BY <1>2, <1>3, <1>4
           DEF PoolAgrees, PendingExpected, TabExpected, UnburnedExpected, Of, PoolSums

\* Rows of the router or the platform leave every pool alone.
LEMMA NoPool ==
    ASSUME ledger \in [Keys -> Int], PoolsAgree, NEW rows, Written(rows), Emit(rows),
           \A r \in rows : r.key = Global,
           hook'.pending = hook.pending, hook'.tab = hook.tab, unburned' = unburned
    PROVE  PoolsAgree'
  <1> SUFFICES ASSUME NEW q \in Pools PROVE PoolAgrees(q)'
    BY DEF PoolsAgree
  <1>1. q # Global /\ PoolAgrees(q)
    BY GlobalAssumption DEF PoolsAgree
  <1> QED  BY <1>1, OtherPool

LEMMA GlobalKept ==
    ASSUME ledger \in [Keys -> Int], NEW rows, Written(rows), Emit(rows),
           NEW s \in GlobalSums, \A r \in rows : r.sum # s
    PROVE  Total(s)' = Total(s)
  <1>1. \A r \in rows : <<r.sum, r.key>> # <<s, Global>>
    OBVIOUS
  <1> QED  BY <1>1, Emitted, KeysOf DEF Total

LEMMA PlatformKept ==
    ASSUME ledger \in [Keys -> Int], PlatformAgrees, NEW rows, Written(rows), Emit(rows),
           \A r \in rows : r.sum \notin PlatformSums,
           hook'.platformTab = hook.platformTab
    PROVE  PlatformAgrees'
  <1>1. \A s \in PlatformSums : s \in GlobalSums /\ \A r \in rows : r.sum # s
    BY DEF PlatformSums, GlobalSums
  <1>2. \A s \in PlatformSums : Total(s)' = Total(s)
    BY <1>1, GlobalKept
  <1> QED  BY <1>2 DEF PlatformAgrees, PlatformSums

\* The router was paid, or nothing happened to it.
SameBooks(r, w) ==
  /\ w.sequesterTank = r.sequesterTank /\ w.treasuryTank = r.treasuryTank
  /\ w.operationsTab = r.operationsTab /\ w.allocated = r.allocated
  /\ w.sequestered = r.sequestered /\ w.routed = r.routed /\ w.collected = r.collected
  /\ w.bounties = r.bounties /\ w.migrated = r.migrated

LEMMA ReceivedBooks ==
    ASSUME router \in Routers, NEW n
    PROVE  SameBooks(router, Received(router, n)) /\ SameBooks(router, ToRouter(n))
  BY DEF SameBooks, Received, ToRouter, Routers

LEMMA RouterKept ==
    ASSUME ledger \in [Keys -> Int], RouterAgrees, NEW rows, Written(rows), Emit(rows),
           \A r \in rows : r.sum \notin RouterSums,
           SameBooks(router, router'), migrations' = migrations
    PROVE  RouterAgrees'
  <1>1. \A s \in RouterSums : s \in GlobalSums /\ \A r \in rows : r.sum # s
    BY DEF RouterSums, PlatformSums, GlobalSums
  <1>2. \A s \in RouterSums : Total(s)' = Total(s)
    BY <1>1, GlobalKept
  <1> QED  BY <1>2 DEF RouterAgrees, LanesAgree, SameBooks, RouterSums, PlatformSums, GlobalSums

-----------------------------------------------------------------------------
(* One lemma per call.                                                        *)

\* One row of a call.
LEMMA Booked ==
    ASSUME ledger \in [Keys -> Int], NEW rows, Written(rows), Emit(rows),
           NEW s, NEW k, NEW n, Row(s, k, n) \in rows, <<s, k>> \in Keys
    PROVE  ledger'[<<s, k>>] = ledger[<<s, k>>] + n
  <1>1. Row(s, k, n).sum = s /\ Row(s, k, n).key = k /\ Row(s, k, n).amount = n
    BY DEF Row
  <1>2. \A r \in rows : <<r.sum, r.key>> \in Keys =>
          ledger'[<<r.sum, r.key>>] = ledger[<<r.sum, r.key>>] + r.amount
    BY Emitted
  <1> QED  BY <1>1, <1>2

SweptSums == {"sweptCreator", "sweptPlatform", "platformDeferred"}
Parked(p) == IF Deliverable THEN 0 ELSE PlatformPart(hook, p)

\* The rows of a sweep, alone or inside a claim or a burn, say what it moved;
\* a sweep of nothing has no rows and moves nothing.
LEMMA SweepBooked ==
    ASSUME ledger \in [Keys -> Int], hook \in Books, NEW p \in Pools,
           NEW more, Written(more), \A r \in more : r.sum \notin SweptSums,
           Emit(FeesSwept(p) \cup more)
    PROVE  /\ Written(FeesSwept(p) \cup more)
           /\ Of("sweptCreator", p)' = Of("sweptCreator", p) + CreatorPart(hook, p)
           /\ Of("sweptPlatform", p)' = Of("sweptPlatform", p) + PlatformPart(hook, p)
           /\ Total("platformDeferred")' = Total("platformDeferred") + Parked(p)
  <1> DEFINE rows == FeesSwept(p) \cup more
             Moved ==
               /\ Of("sweptCreator", p)' = Of("sweptCreator", p) + CreatorPart(hook, p)
               /\ Of("sweptPlatform", p)' = Of("sweptPlatform", p) + PlatformPart(hook, p)
               /\ Total("platformDeferred")' = Total("platformDeferred") + Parked(p)
  <1>1. /\ CreatorPart(hook, p) \in Nat /\ PlatformPart(hook, p) \in Nat
        /\ CreatorPart(hook, p) + PlatformPart(hook, p) = hook.pending[p]
        /\ hook.pending[p] \in Nat
    BY PartsFit DEF Books
  <1>2. \A r \in FeesSwept(p) : r.sum \in SweptSums /\ r.amount \in Int
    BY <1>1 DEF FeesSwept, Row, SweptSums
  <1>3. Written(FeesSwept(p))
    BY <1>2 DEF FeesSwept, Row, Written
  <1>4. Written(rows)
    BY <1>2, <1>3 DEF Written
  <1>5. /\ <<"sweptCreator", p>> \in Keys /\ <<"sweptPlatform", p>> \in Keys
        /\ <<"platformDeferred", Global>> \in Keys
        /\ ledger[<<"sweptCreator", p>>] \in Int /\ ledger[<<"sweptPlatform", p>>] \in Int
        /\ ledger[<<"platformDeferred", Global>>] \in Int
    BY KeysOf DEF PoolSums, GlobalSums
  <1>6. ASSUME hook.pending[p] = 0
        PROVE  Moved
    <2>1. FeesSwept(p) = {} /\ CreatorPart(hook, p) = 0 /\ PlatformPart(hook, p) = 0
      BY <1>1, <1>6 DEF FeesSwept
    <2>2. \A r \in rows : r.sum \notin SweptSums
      BY <2>1
    <2>3. /\ \A r \in rows : <<r.sum, r.key>> # <<"sweptCreator", p>>
          /\ \A r \in rows : <<r.sum, r.key>> # <<"sweptPlatform", p>>
          /\ \A r \in rows : <<r.sum, r.key>> # <<"platformDeferred", Global>>
      BY <2>2 DEF SweptSums
    <2> HIDE DEF rows
    <2>4. /\ Of("sweptCreator", p)' = Of("sweptCreator", p)
          /\ Of("sweptPlatform", p)' = Of("sweptPlatform", p)
          /\ Total("platformDeferred")' = Total("platformDeferred")
      BY <1>4, <1>5, <2>3, Emitted DEF Of, Total, rows
    <2>5. Parked(p) = 0
      BY <2>1 DEF Parked
    <2>6. /\ Of("sweptCreator", p) \in Int /\ Of("sweptPlatform", p) \in Int
          /\ Total("platformDeferred") \in Int
      BY <1>5 DEF Of, Total
    <2> QED  BY <2>1, <2>4, <2>5, <2>6
  <1>7. ASSUME hook.pending[p] # 0
        PROVE  Moved
    <2>1. /\ Row("sweptCreator", p, CreatorPart(hook, p)) \in rows
          /\ Row("sweptPlatform", p, PlatformPart(hook, p)) \in rows
      BY <1>7 DEF FeesSwept
    <2>2. ~Deliverable => Row("platformDeferred", Global, PlatformPart(hook, p)) \in rows
      BY <1>7 DEF FeesSwept
    <2>3. Deliverable => \A r \in rows : <<r.sum, r.key>> # <<"platformDeferred", Global>>
      BY <1>7 DEF FeesSwept, Row, SweptSums
    <2> HIDE DEF rows
    <2>5. /\ Of("sweptCreator", p)' = Of("sweptCreator", p) + CreatorPart(hook, p)
          /\ Of("sweptPlatform", p)' = Of("sweptPlatform", p) + PlatformPart(hook, p)
      BY <1>4, <1>5, <2>1, Booked DEF Of, rows
    <2>6. Total("platformDeferred")' = Total("platformDeferred") + Parked(p)
      <3>1. CASE Deliverable
        <4>1. ledger'[<<"platformDeferred", Global>>] = ledger[<<"platformDeferred", Global>>]
          BY <1>4, <1>5, <2>3, <3>1, Emitted DEF rows
        <4> QED  BY <1>5, <3>1, <4>1 DEF Total, Parked
      <3>2. CASE ~Deliverable
        BY <1>4, <1>5, <2>2, <3>2, Booked DEF Total, Parked, rows
      <3> QED  BY <3>1, <3>2
    <2> QED  BY <2>5, <2>6
  <1> QED  BY <1>4, <1>6, <1>7

\* What a sweep could not deliver is parked in hook and sums alike.
LEMMA SweepPlatform ==
    ASSUME ledger \in [Keys -> Int], hook \in Books, NEW p \in Pools, PlatformAgrees,
           NEW more, Written(more), \A r \in more : r.sum \notin SweptSums \cup PlatformSums,
           Emit(FeesSwept(p) \cup more),
           hook'.platformTab = hook.platformTab + Parked(p)
    PROVE  PlatformAgrees'
  <1> DEFINE rows == FeesSwept(p) \cup more
  <1>1. Written(rows) /\ Total("platformDeferred")' = Total("platformDeferred") + Parked(p)
    BY SweepBooked
  <1>2. \A r \in rows : r.sum # "platformCollected"
    BY DEF FeesSwept, Row, PlatformSums
  <1> HIDE DEF rows
  <1>3. Total("platformCollected")' = Total("platformCollected")
    BY <1>1, <1>2, GlobalKept DEF rows, GlobalSums
  <1>4. /\ Parked(p) \in Int /\ Total("platformDeferred") \in Int
        /\ Total("platformCollected") \in Int
    BY PartsFit, KeysOf DEF Parked, Total, GlobalSums
  <1> QED  BY <1>1, <1>3, <1>4 DEF PlatformAgrees

LEMMA SumInts ==
    ASSUME ledger \in [Keys -> Int]
    PROVE  /\ \A s \in PoolSums, q \in Pools : Of(s, q) \in Int
           /\ \A s \in GlobalSums : Total(s) \in Int
  BY KeysOf DEF Of, Total

LEMMA SwapBooked ==
    ASSUME IInv, LedgerInv, NEW p \in Pools, NEW fee \in SwapFees,
           Swap(p, fee), Emit(FeeAccrued(p, fee))
    PROVE  LedgerInv'
  <1> DEFINE rows == FeeAccrued(p, fee)
  <1>1. hook \in Books /\ router \in Routers /\ ledger \in [Keys -> Int] /\ fee \in Nat
    BY RevenueAssumption DEF IInv, HookPart, RouterPart, LedgerInv
  <1>2. /\ hook'.pending = [hook.pending EXCEPT ![p] = hook.pending[p] + fee]
        /\ hook'.tab = hook.tab /\ hook'.platformTab = hook.platformTab
        /\ UNCHANGED <<unburned, router, migrations>>
    BY <1>1 DEF Swap, Accrued, Books
  <1>3. Written(rows) /\ \A r \in rows : r.key = p /\ r.sum = "accrued"
    BY <1>1 DEF FeeAccrued, Row, Written
  <1>4. Row("accrued", p, fee) \in rows /\ Emit(rows)
    BY DEF FeeAccrued
  <1> HIDE DEF rows
  <1>5. ledger' \in [Keys -> Int]
    BY <1>1, <1>3, <1>4, Emitted
  <1>6. PlatformAgrees'
    BY <1>1, <1>2, <1>3, <1>4, PlatformKept DEF LedgerInv, PlatformSums
  <1>7. RouterAgrees'
    <2>1. SameBooks(router, router')
      BY <1>2 DEF SameBooks
    <2>2. "accrued" \notin RouterSums
      BY DEF RouterSums, GlobalSums
    <2> QED  BY <1>1, <1>2, <1>3, <1>4, <2>1, <2>2, RouterKept DEF LedgerInv
  <1>8. PoolAgrees(p)'
    <2>1. ledger'[<<"accrued", p>>] = ledger[<<"accrued", p>>] + fee
      BY <1>1, <1>3, <1>4, Booked, KeysOf DEF PoolSums
    <2>2. \A k \in Keys : k[1] # "accrued" => ledger'[k] = ledger[k]
      BY <1>1, <1>3, <1>4, Emitted
    <2>3. \A s \in PoolSums \ {"accrued"} : ledger'[<<s, p>>] = ledger[<<s, p>>]
      BY <2>2, KeysOf
    <2>4. /\ p \in SelfBurnPools =>
               ledger'[<<"nonBurnerClaims", p>>] = ledger[<<"nonBurnerClaims", p>>]
          /\ p \in CreatorPools => ledger'[<<"burnCount", p>>] = ledger[<<"burnCount", p>>]
      BY <2>2, KeysOf
    <2>5. PoolAgrees(p) /\ \A s \in PoolSums : Of(s, p) \in Int
      BY <1>1, SumInts DEF LedgerInv, PoolsAgree
    <2>6. hook.pending[p] \in Nat /\ hook'.pending[p] = hook.pending[p] + fee
      BY <1>1, <1>2 DEF Books
    <2>7. PendingExpected(p)' = PendingExpected(p) + fee
      BY <1>1, <2>1, <2>3, <2>5 DEF PendingExpected, Of, PoolSums
    <2>8. TabExpected(p)' = TabExpected(p) /\ UnburnedExpected(p)' = UnburnedExpected(p)
      BY <2>3 DEF TabExpected, UnburnedExpected, Of, PoolSums
    <2> QED  BY <1>2, <2>4, <2>5, <2>6, <2>7, <2>8 DEF PoolAgrees, Of
  <1>9. PoolsAgree'
    <2> SUFFICES ASSUME NEW q \in Pools, q # p PROVE PoolAgrees(q)'
      BY <1>8 DEF PoolsAgree
    <2>1. hook'.pending[q] = hook.pending[q] /\ hook'.tab[q] = hook.tab[q]
          /\ unburned'[q] = unburned[q] /\ PoolAgrees(q)
      BY <1>1, <1>2 DEF LedgerInv, PoolsAgree, Books
    <2>2. \A r \in rows : r.key \in {p, Global}
      BY <1>3
    <2> QED  BY <1>1, <1>3, <1>4, <2>1, <2>2, OtherPool
  <1> QED  BY <1>5, <1>6, <1>7, <1>9 DEF LedgerInv

\* What a call that sweeps pool p leaves to show: its own rows and what they do
\* to p, to the platform lane of the hook and to nobody else.
LEMMA SweepingCall ==
    ASSUME IInv, LedgerInv, NEW p \in Pools, NEW more, Written(more),
           \A r \in more : r.key = p /\ r.sum \notin SweptSums \cup GlobalSums,
           Emit(FeesSwept(p) \cup more),
           hook'.platformTab = hook.platformTab + Parked(p),
           router' = ToRouter(PlatformPart(hook, p)), migrations' = migrations,
           \A q \in Pools \ {p} : /\ hook'.pending[q] = hook.pending[q]
                                  /\ hook'.tab[q] = hook.tab[q]
                                  /\ q \in SelfBurnPools => unburned'[q] = unburned[q],
           PoolAgrees(p)'
    PROVE  LedgerInv'
  <1> DEFINE rows == FeesSwept(p) \cup more
  <1>1. hook \in Books /\ router \in Routers /\ ledger \in [Keys -> Int]
    BY DEF IInv, HookPart, RouterPart, LedgerInv
  <1>2. /\ \A r \in more : r.sum \notin SweptSums
        /\ \A r \in more : r.sum \notin SweptSums \cup PlatformSums
    BY DEF PlatformSums, GlobalSums
  <1>3. Written(rows) /\ Emit(rows)
    BY <1>1, <1>2, SweepBooked
  <1>4. \A r \in rows : r.key \in {p, Global} /\ r.sum \notin RouterSums
    BY DEF FeesSwept, Row, RouterSums, PlatformSums, GlobalSums
  <1>5. PlatformAgrees'
    BY <1>1, <1>2, SweepPlatform DEF LedgerInv
  <1> HIDE DEF rows
  <1>6. ledger' \in [Keys -> Int]
    BY <1>1, <1>3, Emitted
  <1>7. RouterAgrees'
    <2>1. SameBooks(router, router')
      BY <1>1, ReceivedBooks
    <2> QED  BY <1>1, <1>3, <1>4, <2>1, RouterKept DEF LedgerInv
  <1>8. PoolsAgree'
    <2> SUFFICES ASSUME NEW q \in Pools, q # p PROVE PoolAgrees(q)'
      BY DEF PoolsAgree
    <2>1. PoolAgrees(q)
      BY DEF LedgerInv, PoolsAgree
    <2> QED  BY <1>1, <1>3, <1>4, <2>1, OtherPool
  <1> QED  BY <1>5, <1>6, <1>7, <1>8 DEF LedgerInv

LEMMA SweptPlatform ==
    ASSUME hook \in Books, NEW p \in Pools
    PROVE  Swept(hook, p).platformTab = hook.platformTab + Parked(p)
  BY DEF Swept, Parked, Books

LEMMA SweepCallBooked ==
    ASSUME IInv, LedgerInv, NEW p \in Pools, Sweep(p), Emit(FeesSwept(p))
    PROVE  LedgerInv'
  <1>1. /\ hook \in Books /\ Backed(hook, gifts.hook) /\ gifts.hook \in Nat
        /\ ledger \in [Keys -> Int]
    BY DEF IInv, HookPart, PolicyPart, LedgerInv
  <1>2. /\ hook' = Swept(hook, p) /\ router' = ToRouter(PlatformPart(hook, p))
        /\ unburned' = unburned /\ migrations' = migrations
    BY DEF Sweep, bounds
  <1>3. /\ hook'.pending = [hook.pending EXCEPT ![p] = 0]
        /\ hook'.tab = [hook.tab EXCEPT ![p] = hook.tab[p] + CreatorPart(hook, p)]
        /\ hook'.platformTab = hook.platformTab + Parked(p)
    BY <1>1, <1>2, SweptBacked, SweptPlatform
  <1>4. Written({}) /\ Emit(FeesSwept(p) \cup {})
    BY DEF Written
  <1>5. /\ Written(FeesSwept(p))
        /\ Of("sweptCreator", p)' = Of("sweptCreator", p) + CreatorPart(hook, p)
        /\ Of("sweptPlatform", p)' = Of("sweptPlatform", p) + PlatformPart(hook, p)
    BY <1>1, <1>4, SweepBooked
  <1>6. \A k \in Keys : k[1] \notin SweptSums => ledger'[k] = ledger[k]
    <2>1. \A r \in FeesSwept(p) : r.sum \in SweptSums
      BY DEF FeesSwept, Row, SweptSums
    <2> QED  BY <1>1, <1>5, <2>1, Emitted
  <1>7. PoolAgrees(p)'
    <2>1. \A s \in PoolSums \ SweptSums : Of(s, p)' = Of(s, p)
      BY <1>6, KeysOf DEF Of
    <2>2. /\ p \in SelfBurnPools => Of("nonBurnerClaims", p)' = Of("nonBurnerClaims", p)
          /\ p \in CreatorPools => Of("burnCount", p)' = Of("burnCount", p)
      BY <1>6, KeysOf DEF Of, SweptSums
    <2>3. PoolAgrees(p) /\ \A s \in PoolSums : Of(s, p) \in Int
      BY <1>1, SumInts DEF LedgerInv, PoolsAgree
    <2>4. /\ CreatorPart(hook, p) \in Nat /\ PlatformPart(hook, p) \in Nat
          /\ CreatorPart(hook, p) + PlatformPart(hook, p) = hook.pending[p]
          /\ hook'.pending[p] = 0 /\ hook'.tab[p] = hook.tab[p] + CreatorPart(hook, p)
          /\ hook.tab[p] \in Nat
      BY <1>1, <1>3, PartsFit DEF Books
    <2>5. PendingExpected(p)' = PendingExpected(p) - hook.pending[p]
      BY <1>5, <2>1, <2>3, <2>4 DEF PendingExpected, PoolSums, SweptSums
    <2>6. TabExpected(p)' = TabExpected(p) + CreatorPart(hook, p)
      BY <1>5, <2>1, <2>3, <2>4 DEF TabExpected, PoolSums, SweptSums
    <2>7. UnburnedExpected(p)' = UnburnedExpected(p)
      BY <2>1 DEF UnburnedExpected, PoolSums, SweptSums
    <2>8. PendingExpected(p)' = hook'.pending[p] /\ TabExpected(p)' = hook'.tab[p]
      BY <2>3, <2>4, <2>5, <2>6 DEF PoolAgrees
    <2> QED  BY <1>2, <2>2, <2>3, <2>7, <2>8 DEF PoolAgrees
  <1>8. \A q \in Pools \ {p} : /\ hook'.pending[q] = hook.pending[q]
                               /\ hook'.tab[q] = hook.tab[q]
                               /\ q \in SelfBurnPools => unburned'[q] = unburned[q]
    BY <1>1, <1>2, <1>3 DEF Books
  <1> QED  BY <1>2, <1>3, <1>4, <1>7, <1>8, SweepingCall

LEMMA ClaimBooked ==
    ASSUME IInv, LedgerInv, NEW p \in CreatorPools, Claim(p),
           Emit(FeesSwept(p) \cup CreatorFeesClaimed(p, Swept(hook, p).tab[p]))
    PROVE  LedgerInv'
  <1> DEFINE h == Swept(hook, p)
             amount == h.tab[p]
             more == CreatorFeesClaimed(p, amount)
  <1>0. p \in Pools /\ p \notin SelfBurnPools
    BY RevenueAssumption DEF Pools
  <1>1. /\ hook \in Books /\ Backed(hook, gifts.hook) /\ gifts.hook \in Nat
        /\ ledger \in [Keys -> Int]
    BY DEF IInv, HookPart, PolicyPart, LedgerInv
  <1>2. /\ hook' = PaidOut(h, p) /\ router' = ToRouter(PlatformPart(hook, p))
        /\ unburned' = unburned /\ migrations' = migrations
    BY DEF Claim, bounds
  <1>3. /\ h \in Books /\ Backed(h, gifts.hook)
        /\ h.pending = [hook.pending EXCEPT ![p] = 0]
        /\ h.tab = [hook.tab EXCEPT ![p] = hook.tab[p] + CreatorPart(hook, p)]
        /\ h.platformTab = hook.platformTab + Parked(p)
    BY <1>0, <1>1, SweptBacked, SweptPlatform
  <1>4. /\ hook'.pending = h.pending /\ hook'.tab = [h.tab EXCEPT ![p] = 0]
        /\ hook'.platformTab = h.platformTab
    <2> HIDE DEF h
    <2> QED  BY <1>0, <1>1, <1>2, <1>3, PaidOutBacked DEF PaidOut, Books
  <1>5. /\ CreatorPart(hook, p) \in Nat /\ PlatformPart(hook, p) \in Nat
        /\ CreatorPart(hook, p) + PlatformPart(hook, p) = hook.pending[p]
        /\ hook.tab[p] \in Nat /\ amount = hook.tab[p] + CreatorPart(hook, p)
    BY <1>0, <1>1, <1>3, PartsFit DEF Books
  <1> HIDE DEF h, amount
  <1>6. /\ Written(more)
        /\ \A r \in more : r.key = p /\ r.sum \in {"creatorClaimed", "nonBurnerClaims"}
    BY <1>5 DEF CreatorFeesClaimed, Row, Written
  <1>7. /\ \A r \in more : r.key = p /\ r.sum \notin SweptSums \cup GlobalSums
        /\ \A r \in more : r.sum \notin SweptSums
    BY <1>6 DEF SweptSums, GlobalSums
  <1>8. Emit(FeesSwept(p) \cup more)
    BY DEF h, amount
  <1>9. Row("creatorClaimed", p, amount) \in more
    BY DEF CreatorFeesClaimed
  <1> HIDE DEF more
  <1>10. /\ Written(FeesSwept(p) \cup more)
         /\ Of("sweptCreator", p)' = Of("sweptCreator", p) + CreatorPart(hook, p)
         /\ Of("sweptPlatform", p)' = Of("sweptPlatform", p) + PlatformPart(hook, p)
    BY <1>0, <1>1, <1>6, <1>7, <1>8, SweepBooked
  <1>11. Of("creatorClaimed", p)' = Of("creatorClaimed", p) + amount
    <2>1. <<"creatorClaimed", p>> \in Keys
      BY <1>0, KeysOf DEF PoolSums
    <2> QED  BY <1>1, <1>8, <1>9, <1>10, <2>1, Booked DEF Of
  <1>12. \A k \in Keys : k[1] \in {"accrued", "burnCount"} => ledger'[k] = ledger[k]
    <2>1. \A r \in FeesSwept(p) \cup more : r.sum \notin {"accrued", "burnCount"}
      BY <1>6 DEF FeesSwept, Row
    <2> QED  BY <1>1, <1>8, <1>10, <2>1, Emitted
  <1>13. PoolAgrees(p)'
    <2>1. Of("accrued", p)' = Of("accrued", p)
      BY <1>0, <1>12, KeysOf DEF Of, PoolSums
    <2>2. Of("burnCount", p)' = Of("burnCount", p)
      BY <1>12, KeysOf DEF Of
    <2>3. PoolAgrees(p) /\ \A s \in PoolSums : Of(s, p) \in Int
      BY <1>0, <1>1, SumInts DEF LedgerInv, PoolsAgree
    <2>4. hook'.pending[p] = 0 /\ hook'.tab[p] = 0
      BY <1>0, <1>1, <1>3, <1>4 DEF Books
    <2>5. PendingExpected(p)' = PendingExpected(p) - hook.pending[p]
      BY <1>5, <1>10, <2>1, <2>3 DEF PendingExpected, PoolSums
    <2>6. TabExpected(p)' = TabExpected(p) + CreatorPart(hook, p) - amount
      BY <1>5, <1>10, <1>11, <2>3 DEF TabExpected, PoolSums
    <2>7. PendingExpected(p)' = hook'.pending[p] /\ TabExpected(p)' = hook'.tab[p]
      BY <1>0, <1>1, <1>5, <2>3, <2>4, <2>5, <2>6 DEF PoolAgrees, Books
    <2> QED  BY <1>0, <2>2, <2>3, <2>7 DEF PoolAgrees
  <1>14. \A q \in Pools \ {p} : /\ hook'.pending[q] = hook.pending[q]
                                /\ hook'.tab[q] = hook.tab[q]
                                /\ q \in SelfBurnPools => unburned'[q] = unburned[q]
    BY <1>1, <1>2, <1>3, <1>4 DEF Books
  <1>15. hook'.platformTab = hook.platformTab + Parked(p)
    BY <1>3, <1>4
  <1> QED  BY <1>0, <1>2, <1>6, <1>7, <1>8, <1>13, <1>14, <1>15, SweepingCall

\* A burn claims, buys on its own pool and so accrues to it again.
LEMMA BurnBooked ==
    ASSUME IInv, LedgerInv, NEW p \in SelfBurnPools, Burn(p), Emit(BurnRows(p))
    PROVE  LedgerInv'
  <1> DEFINE h == HookForBurn(p)
             claimed == h.tab[p]
             fee == BurnFee(p)
             quote == BurnQuote(p)
             bounty == BurnBounty(p)
             claims == IF hook.pending[p] > 0 \/ hook.tab[p] > 0
                       THEN SelfBurnerClaimed(p, claimed) ELSE {}
             spent == FeeAccrued(p, fee)
                        \cup {Row("pipedogIn", p, quote), Row("pipedogBounty", p, bounty),
                              Row("burnCount", p, 1)}
             more == claims \cup spent
  <1>0. p \in Pools /\ p \notin CreatorPools
    BY RevenueAssumption DEF Pools
  <1>1. /\ hook \in Books /\ Backed(hook, gifts.hook) /\ gifts.hook \in Nat
        /\ unburned \in [SelfBurnPools -> Nat] /\ ledger \in [Keys -> Int]
    BY DEF IInv, HookPart, PolicyPart, BurnerPart, LedgerInv
  <1>2. /\ hook' = Accrued(PaidOut(h, p), p, fee)
        /\ unburned' = [unburned EXCEPT ![p] = Carried(p)]
        /\ router' = ToRouter(PlatformPart(hook, p)) /\ migrations' = migrations
    BY DEF Burn, bounds
  <1>3. /\ h \in Books /\ Backed(h, gifts.hook)
        /\ h.pending = [hook.pending EXCEPT ![p] = 0]
        /\ h.tab = [hook.tab EXCEPT ![p] = hook.tab[p] + CreatorPart(hook, p)]
    BY <1>0, <1>1, HookForBurnBacked
  <1>4. h.platformTab = hook.platformTab + Parked(p)
    <2>1. CASE hook.pending[p] > 0 \/ hook.tab[p] > 0
      BY <1>0, <1>1, <2>1, SweptPlatform DEF HookForBurn
    <2>2. CASE ~(hook.pending[p] > 0 \/ hook.tab[p] > 0)
      <3>1. hook.pending[p] = 0 /\ hook.platformTab \in Nat /\ h = hook
        BY <1>0, <1>1, <2>2 DEF Books, HookForBurn
      <3>2. Parked(p) = 0
        BY <1>0, <1>1, <3>1, PartsFit DEF Parked
      <3> QED  BY <3>1, <3>2
    <2> QED  BY <2>1, <2>2
  <1>5. /\ CreatorPart(hook, p) \in Nat /\ PlatformPart(hook, p) \in Nat
        /\ CreatorPart(hook, p) + PlatformPart(hook, p) = hook.pending[p]
        /\ hook.tab[p] \in Nat /\ claimed = hook.tab[p] + CreatorPart(hook, p)
    BY <1>0, <1>1, <1>3, PartsFit DEF Books
  <1>6. /\ fee \in Nat /\ quote \in Nat /\ bounty \in Nat /\ unburned[p] \in Nat
        /\ Carried(p) = unburned[p] + claimed - (quote + bounty)
    <2>1. unburned[p] \in Nat /\ claimed \in Nat /\ Fuel(p) = unburned[p] + claimed
      BY <1>1, <1>5 DEF Fuel
    <2>2. Fuel(p) \in Nat
      BY <2>1
    <2>3. BurnChunk(p) \in Nat /\ Carried(p) = Fuel(p) - BurnChunk(p)
      BY <2>2, RevenueAssumption DEF BurnChunk, Chunk, Carried
    <2>4. BurnBountyBps \in 0 .. BPS /\ BurnFeeBps \in 0 .. BPS
      BY RevenueAssumption, SharesAssumption
    <2>5. bounty \in Nat /\ quote \in Nat /\ quote = BurnChunk(p) - bounty
      BY <2>3, <2>4, FloorShare DEF BurnQuote, BurnBounty
    <2>6. fee \in Nat
      BY <2>4, <2>5, FloorShare DEF BurnFee
    <2> HIDE DEF claimed, quote, bounty, fee
    <2> QED  BY <2>1, <2>3, <2>5, <2>6
  <1>7. hook.pending[p] > 0 \/ hook.tab[p] > 0 \/ claimed = 0
    BY <1>0, <1>1, <1>5 DEF Books
  <1>8. Emit(FeesSwept(p) \cup more)
    <2>1. BurnRows(p) = FeesSwept(p) \cup more
      BY DEF BurnRows
    <2> QED  BY <2>1
  <1> HIDE DEF h, fee, quote, bounty
  <1>9. /\ hook'.pending = [hook.pending EXCEPT ![p] = fee]
        /\ hook'.tab = [hook.tab EXCEPT ![p] = 0]
        /\ hook'.platformTab = hook.platformTab + Parked(p)
    <2> DEFINE w == PaidOut(h, p)
    <2>1. /\ w \in Books /\ Backed(w, gifts.hook)
          /\ w.pending = h.pending /\ w.tab = [h.tab EXCEPT ![p] = 0]
          /\ w.platformTab = h.platformTab
      BY <1>0, <1>1, <1>3, PaidOutBacked DEF PaidOut, Books
    <2> HIDE DEF w
    <2>2. /\ hook'.pending = [w.pending EXCEPT ![p] = w.pending[p] + fee]
          /\ hook'.tab = w.tab /\ hook'.platformTab = w.platformTab
      BY <1>0, <1>1, <1>2, <1>6, <2>1, AccruedBacked DEF Accrued, Books, w
    <2>3. w.pending[p] = 0 /\ hook.pending \in [Pools -> Nat] /\ hook.tab \in [Pools -> Nat]
      BY <1>0, <1>1, <1>3, <2>1 DEF Books
    <2>4. w.pending[p] + fee = fee
      BY <1>6, <2>3
    <2> QED  BY <1>3, <1>4, <2>1, <2>2, <2>3, <2>4
  <1>10. /\ Written(claims)
         /\ \A r \in claims : r.key = p /\ r.sum \in {"creatorClaimed", "selfBurnerClaimed"}
    <2>1. claimed \in Int
      BY <1>5
    <2> HIDE DEF claimed
    <2> QED  BY <2>1 DEF SelfBurnerClaimed, Row, Written
  <1>11. /\ Written(spent)
         /\ \A r \in spent : /\ r.key = p
                             /\ r.sum \in {"accrued", "pipedogIn", "pipedogBounty", "burnCount"}
    <2>1. 1 \in Int
      OBVIOUS
    <2> QED  BY <1>6, <2>1 DEF FeeAccrued, Row, Written
  <1>12. /\ Row("accrued", p, fee) \in more /\ Row("pipedogIn", p, quote) \in more
         /\ Row("pipedogBounty", p, bounty) \in more
    BY DEF FeeAccrued
  <1>13. claimed # 0 => /\ Row("creatorClaimed", p, claimed) \in more
                        /\ Row("selfBurnerClaimed", p, claimed) \in more
    BY <1>7 DEF SelfBurnerClaimed
  <1>14. claimed = 0 =>
           \A r \in claims : r.amount = 0
    BY DEF SelfBurnerClaimed, Row
  <1> HIDE DEF claims, spent, claimed
  <1>15. Written(more)
    BY <1>10, <1>11 DEF Written
  <1>16. /\ \A r \in more : r.key = p /\ r.sum \notin SweptSums \cup GlobalSums
         /\ \A r \in more : r.sum \notin SweptSums
    BY <1>10, <1>11 DEF SweptSums, GlobalSums
  <1>17. /\ Written(FeesSwept(p) \cup more)
         /\ Of("sweptCreator", p)' = Of("sweptCreator", p) + CreatorPart(hook, p)
         /\ Of("sweptPlatform", p)' = Of("sweptPlatform", p) + PlatformPart(hook, p)
    BY <1>0, <1>1, <1>8, <1>15, <1>16, SweepBooked
  <1>18. \A s \in PoolSums : <<s, p>> \in Keys /\ Of(s, p) \in Int
    BY <1>0, <1>1, KeysOf, SumInts
  <1>19. /\ Of("accrued", p)' = Of("accrued", p) + fee
         /\ Of("pipedogIn", p)' = Of("pipedogIn", p) + quote
         /\ Of("pipedogBounty", p)' = Of("pipedogBounty", p) + bounty
    <2> HIDE DEF more
    <2> QED  BY <1>1, <1>8, <1>12, <1>17, <1>18, Booked DEF Of, PoolSums
  <1>20. ASSUME NEW s \in {"creatorClaimed", "selfBurnerClaimed"}
         PROVE  Of(s, p)' = Of(s, p) + claimed
    <2>1. s \in PoolSums /\ s \notin SweptSums
          /\ s \notin {"accrued", "pipedogIn", "pipedogBounty", "burnCount"}
      BY DEF PoolSums, SweptSums
    <2>2. CASE claimed # 0
      <3>1. Row(s, p, claimed) \in FeesSwept(p) \cup more
        BY <1>13, <2>2
      <3> HIDE DEF more
      <3> QED  BY <1>1, <1>8, <1>17, <1>18, <2>1, <3>1, Booked DEF Of
    <2>3. CASE claimed = 0
      <3>1. CASE \E r \in claims : r.sum = s
        <4>1. PICK r \in claims : r.sum = s
          BY <3>1
        <4>2. r.key = p /\ r.amount = 0 /\ r \in FeesSwept(p) \cup more
          BY <1>10, <1>14, <2>3, <4>1
        <4> HIDE DEF more
        <4>3. ledger'[<<r.sum, r.key>>] = ledger[<<r.sum, r.key>>] + r.amount
          BY <1>1, <1>8, <1>17, <1>18, <2>1, <4>1, <4>2, Emitted
        <4> QED  BY <2>3, <4>1, <4>2, <4>3 DEF Of
      <3>2. CASE ~ \E r \in claims : r.sum = s
        <4>1. \A r \in FeesSwept(p) \cup more : r.sum # s
          BY <1>11, <2>1, <3>2 DEF FeesSwept, Row, SweptSums
        <4> HIDE DEF more
        <4>2. ledger'[<<s, p>>] = ledger[<<s, p>>]
          BY <1>1, <1>8, <1>17, <1>18, <2>1, <4>1, Emitted
        <4> QED  BY <1>18, <2>1, <2>3, <4>2 DEF Of
      <3> QED  BY <3>1, <3>2
    <2> QED  BY <2>2, <2>3
  <1>21. Of("nonBurnerClaims", p)' = Of("nonBurnerClaims", p)
    <2>1. \A r \in FeesSwept(p) \cup more : r.sum # "nonBurnerClaims"
      BY <1>10, <1>11 DEF FeesSwept, Row
    <2> HIDE DEF more
    <2> QED  BY <1>1, <1>8, <1>17, <2>1, Emitted, KeysOf DEF Of
  <1> HIDE DEF more
  <1>22. PoolAgrees(p)'
    <2>1. PoolAgrees(p)
      BY <1>0 DEF LedgerInv, PoolsAgree
    <2>2. /\ Of("creatorClaimed", p)' = Of("creatorClaimed", p) + claimed
          /\ Of("selfBurnerClaimed", p)' = Of("selfBurnerClaimed", p) + claimed
      BY <1>20
    <2>3. hook'.pending[p] = fee /\ hook'.tab[p] = 0 /\ unburned'[p] = Carried(p)
          /\ hook.pending[p] \in Nat
      BY <1>0, <1>1, <1>2, <1>9 DEF Books
    <2>4. PendingExpected(p)' = PendingExpected(p) + fee - hook.pending[p]
      BY <1>5, <1>6, <1>17, <1>18, <1>19, <2>3 DEF PendingExpected, PoolSums
    <2>5. TabExpected(p)' = TabExpected(p) + CreatorPart(hook, p) - claimed
      BY <1>5, <1>17, <1>18, <2>2 DEF TabExpected, PoolSums
    <2>6. UnburnedExpected(p)' = UnburnedExpected(p) + claimed - (quote + bounty)
      BY <1>5, <1>6, <1>18, <1>19, <2>2 DEF UnburnedExpected, PoolSums
    <2>7. PendingExpected(p)' = hook'.pending[p]
      BY <1>6, <2>1, <2>3, <2>4 DEF PoolAgrees
    <2>8. TabExpected(p)' = hook'.tab[p]
      BY <1>5, <2>1, <2>3, <2>5 DEF PoolAgrees
    <2>9. UnburnedExpected(p)' = unburned'[p]
      BY <1>6, <2>1, <2>3, <2>6 DEF PoolAgrees
    <2> QED  BY <1>0, <1>21, <2>1, <2>7, <2>8, <2>9 DEF PoolAgrees
  <1>23. \A q \in Pools \ {p} : /\ hook'.pending[q] = hook.pending[q]
                                /\ hook'.tab[q] = hook.tab[q]
                                /\ q \in SelfBurnPools => unburned'[q] = unburned[q]
    BY <1>1, <1>2, <1>9 DEF Books
  <1> QED  BY <1>0, <1>2, <1>8, <1>9, <1>15, <1>16, <1>22, <1>23, SweepingCall

LEMMA CollectPlatformBooked ==
    ASSUME IInv, LedgerInv, CollectPlatform,
           Emit({Row("platformCollected", Global, hook.platformTab)})
    PROVE  LedgerInv'
  <1> DEFINE rows == {Row("platformCollected", Global, hook.platformTab)}
  <1>1. hook \in Books /\ router \in Routers /\ ledger \in [Keys -> Int]
    BY DEF IInv, HookPart, RouterPart, LedgerInv
  <1>2. /\ hook'.pending = hook.pending /\ hook'.tab = hook.tab /\ hook'.platformTab = 0
        /\ router' = ToRouter(hook.platformTab) /\ unburned' = unburned
        /\ migrations' = migrations /\ hook.platformTab \in Nat
    BY <1>1 DEF CollectPlatform, bounds, Books
  <1>3. Written(rows) /\ \A r \in rows : r.key = Global /\ r.sum = "platformCollected"
    BY <1>2 DEF Row, Written
  <1>4. Emit(rows) /\ Row("platformCollected", Global, hook.platformTab) \in rows
    OBVIOUS
  <1> HIDE DEF rows
  <1>5. ledger' \in [Keys -> Int]
    BY <1>1, <1>3, <1>4, Emitted
  <1>6. PoolsAgree'
    BY <1>1, <1>2, <1>3, <1>4, NoPool DEF LedgerInv
  <1>7. PlatformAgrees'
    <2>1. /\ "platformDeferred" \in GlobalSums /\ <<"platformCollected", Global>> \in Keys
          /\ Total("platformDeferred") \in Int /\ Total("platformCollected") \in Int
      BY <1>1, KeysOf, SumInts DEF GlobalSums
    <2>2. Total("platformCollected")' = Total("platformCollected") + hook.platformTab
      BY <1>1, <1>3, <1>4, <2>1, Booked DEF Total
    <2>3. Total("platformDeferred")' = Total("platformDeferred")
      BY <1>1, <1>3, <1>4, <2>1, GlobalKept
    <2>4. Total("platformDeferred") - Total("platformCollected") = hook.platformTab
      BY DEF LedgerInv, PlatformAgrees
    <2>5. Total("platformDeferred") - (Total("platformCollected") + hook.platformTab) = 0
      BY <1>2, <2>1, <2>4
    <2> QED  BY <1>2, <2>2, <2>3, <2>5 DEF PlatformAgrees
  <1>8. RouterAgrees'
    <2>1. SameBooks(router, router')
      BY <1>1, <1>2, ReceivedBooks
    <2>2. "platformCollected" \notin RouterSums
      BY DEF RouterSums, PlatformSums
    <2> QED  BY <1>1, <1>2, <1>3, <1>4, <2>1, <2>2, RouterKept DEF LedgerInv
  <1> QED  BY <1>5, <1>6, <1>7, <1>8 DEF LedgerInv

\* A call of the router leaves pools and platform lane alone.
LEMMA RouterCall ==
    ASSUME LedgerInv, NEW rows, Written(rows), Emit(rows),
           \A r \in rows : r.key = Global /\ r.sum \in RouterSums,
           UNCHANGED <<hook, unburned>>, RouterAgrees'
    PROVE  LedgerInv'
  <1>1. ledger \in [Keys -> Int] /\ PoolsAgree /\ PlatformAgrees
    BY DEF LedgerInv
  <1>2. ledger' \in [Keys -> Int]
    BY <1>1, Emitted
  <1>3. PoolsAgree'
    BY <1>1, NoPool
  <1>4. \A r \in rows : r.sum \notin PlatformSums
    BY DEF RouterSums
  <1>5. PlatformAgrees'
    BY <1>1, <1>4, PlatformKept
  <1> QED  BY <1>2, <1>3, <1>5 DEF LedgerInv

AllocationSums == {"allocatedSequester", "allocatedTreasury", "allocatedOperations"}

\* Every call of the router allocates first, and emits the three shares.
LEMMA AllocationBooked ==
    ASSUME ledger \in [Keys -> Int], NEW r \in Routers, RouterInv(r),
           NEW more, Written(more),
           \A x \in more : x.key = Global /\ x.sum \in RouterSums \ AllocationSums,
           Emit(RevenueAllocated(Unallocated(r)) \cup more)
    PROVE  LET n    == Unallocated(r)
               s    == Share(n, SequesterBps)
               t    == Share(n, TreasuryBps)
               rows == RevenueAllocated(n) \cup more
               w    == Allocated(r)
           IN  /\ Written(rows)
               /\ \A x \in rows : x.key = Global /\ x.sum \in RouterSums
               /\ n \in Nat /\ s \in Nat /\ t \in Nat
               /\ Total("allocatedSequester")' = Total("allocatedSequester") + s
               /\ Total("allocatedTreasury")' = Total("allocatedTreasury") + t
               /\ Total("allocatedOperations")' = Total("allocatedOperations") + (n - s - t)
               /\ w.sequesterTank = r.sequesterTank + s /\ w.treasuryTank = r.treasuryTank + t
               /\ w.operationsTab = r.operationsTab + (n - s - t)
               /\ w.allocated = r.allocated + n /\ w.balance = r.balance
               /\ w.sequestered = r.sequestered /\ w.routed = r.routed
               /\ w.collected = r.collected /\ w.bounties = r.bounties
               /\ w.migrated = r.migrated
  <1> DEFINE n == Unallocated(r)
             s == Share(n, SequesterBps)
             t == Share(n, TreasuryBps)
             alloc == RevenueAllocated(n)
             rows == alloc \cup more
  <1>1. n \in Nat /\ s \in Nat /\ t \in Nat
    BY InvType, SharesFit
  <1>2. /\ Allocated(r).sequesterTank = r.sequesterTank + s
        /\ Allocated(r).treasuryTank = r.treasuryTank + t
        /\ Allocated(r).operationsTab = r.operationsTab + (n - s - t)
        /\ Allocated(r).allocated = r.allocated + n /\ Allocated(r).balance = r.balance
        /\ Allocated(r).sequestered = r.sequestered /\ Allocated(r).routed = r.routed
        /\ Allocated(r).collected = r.collected /\ Allocated(r).bounties = r.bounties
        /\ Allocated(r).migrated = r.migrated
    BY DEF Allocated, Routers
  <1>3. alloc = {Row("allocatedSequester", Global, s), Row("allocatedTreasury", Global, t),
                 Row("allocatedOperations", Global, n - s - t)}
    BY DEF RevenueAllocated
  <1>4. Emit(rows)
    OBVIOUS
  <1> HIDE DEF n, s, t, alloc
  <1>5. n - s - t \in Int
    BY <1>1
  <1>6. Written(alloc) /\ \A x \in alloc : x.key = Global /\ x.sum \in AllocationSums
    BY <1>1, <1>3, <1>5 DEF Row, Written, AllocationSums
  <1>7. Written(rows)
    BY <1>6 DEF Written
  <1>8. \A x \in rows : x.key = Global /\ x.sum \in RouterSums
    BY <1>6 DEF AllocationSums, RouterSums, PlatformSums, GlobalSums
  <1>9. /\ Row("allocatedSequester", Global, s) \in rows
        /\ Row("allocatedTreasury", Global, t) \in rows
        /\ Row("allocatedOperations", Global, n - s - t) \in rows
    BY <1>3
  <1>10. /\ <<"allocatedSequester", Global>> \in Keys /\ <<"allocatedTreasury", Global>> \in Keys
         /\ <<"allocatedOperations", Global>> \in Keys
    BY KeysOf DEF GlobalSums
  <1> HIDE DEF rows
  <1>11. /\ Total("allocatedSequester")' = Total("allocatedSequester") + s
         /\ Total("allocatedTreasury")' = Total("allocatedTreasury") + t
         /\ Total("allocatedOperations")' = Total("allocatedOperations") + (n - s - t)
    BY <1>4, <1>7, <1>9, <1>10, Booked DEF Total
  <1> QED  BY <1>1, <1>2, <1>7, <1>8, <1>11 DEF n, s, t, alloc, rows

\* What an allocation leaves of the sums no other row is about.
LEMMA RouterTotals ==
    ASSUME ledger \in [Keys -> Int], NEW rows, Written(rows), Emit(rows),
           NEW S, \A x \in rows : x.sum \in AllocationSums \cup S
    PROVE  \A s \in RouterSums \ (AllocationSums \cup S) : Total(s)' = Total(s)
  <1> SUFFICES ASSUME NEW s \in RouterSums \ (AllocationSums \cup S)
               PROVE  Total(s)' = Total(s)
    OBVIOUS
  <1>1. s \in GlobalSums /\ \A x \in rows : x.sum # s
    BY DEF RouterSums
  <1> QED  BY <1>1, GlobalKept

\* The router after its allocation, w, and the sums: the shares are booked, the
\* other rows are of the sums in S, and all the rest is as it was.
AfterAllocation(w, rows, S) ==
  /\ Written(rows) /\ Emit(rows)
  /\ \A x \in rows : x.key = Global /\ x.sum \in RouterSums
  /\ \A s \in RouterSums : Total(s) \in Int
  /\ \A s \in RouterSums \ (AllocationSums \cup S) : Total(s)' = Total(s)
  /\ Total("allocatedSequester")' + Total("allocatedTreasury")'
       + Total("allocatedOperations")' = w.allocated
  /\ w.sequestered = Total("sequestered") /\ w.routed = Total("treasuryRouted")
  /\ w.collected = Total("operationsCollected")
  /\ w.bounties = Total("sequesterBounties") + Total("treasuryBounties")
  /\ w.migrated = router.migrated
  /\ migrations = 0 =>
       /\ Total("allocatedSequester")' - Total("sequestered")
            - Total("sequesterBounties") = w.sequesterTank
       /\ Total("allocatedTreasury")' - Total("treasuryRouted")
            - Total("treasuryBounties") = w.treasuryTank
       /\ Total("allocatedOperations")' - Total("operationsCollected") = w.operationsTab

LEMMA AllocatedCall ==
    ASSUME IInv, LedgerInv, NEW r \in Routers, RouterInv(r), SameBooks(router, r),
           NEW more, Written(more), NEW S, S \subseteq RouterSums \ AllocationSums,
           \A x \in more : x.key = Global /\ x.sum \in S,
           Emit(RevenueAllocated(Unallocated(r)) \cup more)
    PROVE  AfterAllocation(Allocated(r), RevenueAllocated(Unallocated(r)) \cup more, S)
  <1> DEFINE n == Unallocated(r)
             s == Share(n, SequesterBps)
             t == Share(n, TreasuryBps)
             rows == RevenueAllocated(n) \cup more
             w == Allocated(r)
  <1>1. ledger \in [Keys -> Int] /\ RouterAgrees
    BY DEF LedgerInv
  <1>2. \A x \in more : x.key = Global /\ x.sum \in RouterSums \ AllocationSums
    OBVIOUS
  <1>3. /\ Written(rows)
        /\ \A x \in rows : x.key = Global /\ x.sum \in RouterSums
        /\ n \in Nat /\ s \in Nat /\ t \in Nat
        /\ Total("allocatedSequester")' = Total("allocatedSequester") + s
        /\ Total("allocatedTreasury")' = Total("allocatedTreasury") + t
        /\ Total("allocatedOperations")' = Total("allocatedOperations") + (n - s - t)
        /\ w.sequesterTank = r.sequesterTank + s /\ w.treasuryTank = r.treasuryTank + t
        /\ w.operationsTab = r.operationsTab + (n - s - t)
        /\ w.allocated = r.allocated + n /\ w.balance = r.balance
        /\ w.sequestered = r.sequestered /\ w.routed = r.routed
        /\ w.collected = r.collected /\ w.bounties = r.bounties
        /\ w.migrated = r.migrated
    BY <1>1, <1>2, AllocationBooked, Zenon
  <1>4. \A x \in rows : x.sum \in AllocationSums \cup S
    BY DEF RevenueAllocated, Row, AllocationSums
  <1>5. Emit(rows)
    OBVIOUS
  <1>6. \A x \in RouterSums : Total(x) \in Int
    BY <1>1, SumInts DEF RouterSums
  <1> HIDE DEF n, s, t, rows, w
  <1>7. \A x \in RouterSums \ (AllocationSums \cup S) : Total(x)' = Total(x)
    BY <1>1, <1>3, <1>4, <1>5, RouterTotals
  <1>8. /\ "allocatedSequester" \in RouterSums /\ "allocatedTreasury" \in RouterSums
        /\ "allocatedOperations" \in RouterSums /\ "sequestered" \in RouterSums
        /\ "treasuryRouted" \in RouterSums /\ "operationsCollected" \in RouterSums
        /\ "sequesterBounties" \in RouterSums /\ "treasuryBounties" \in RouterSums
    BY DEF RouterSums, PlatformSums, GlobalSums
  <1>9. /\ Total("allocatedSequester") \in Int /\ Total("allocatedTreasury") \in Int
        /\ Total("allocatedOperations") \in Int /\ Total("sequestered") \in Int
        /\ Total("treasuryRouted") \in Int /\ Total("operationsCollected") \in Int
        /\ Total("sequesterBounties") \in Int /\ Total("treasuryBounties") \in Int
    BY <1>6, <1>8
  <1>10. /\ r.sequesterTank \in Nat /\ r.treasuryTank \in Nat /\ r.operationsTab \in Nat
         /\ r.allocated \in Nat
    BY DEF Routers
  <1>11. /\ Total("allocatedSequester") + Total("allocatedTreasury")
              + Total("allocatedOperations") = r.allocated
         /\ Total("sequestered") = r.sequestered /\ Total("treasuryRouted") = r.routed
         /\ Total("operationsCollected") = r.collected
         /\ Total("sequesterBounties") + Total("treasuryBounties") = r.bounties
         /\ r.migrated = router.migrated
         /\ migrations = 0 =>
              /\ Total("allocatedSequester") - Total("sequestered")
                   - Total("sequesterBounties") = r.sequesterTank
              /\ Total("allocatedTreasury") - Total("treasuryRouted")
                   - Total("treasuryBounties") = r.treasuryTank
              /\ Total("allocatedOperations") - Total("operationsCollected")
                   = r.operationsTab
    BY <1>1 DEF RouterAgrees, LanesAgree, SameBooks
  <1>12. Total("allocatedSequester")' + Total("allocatedTreasury")'
           + Total("allocatedOperations")' = w.allocated
    BY <1>3, <1>9, <1>10, <1>11
  <1>13. migrations = 0 =>
           /\ Total("allocatedSequester")' - Total("sequestered")
                - Total("sequesterBounties") = w.sequesterTank
           /\ Total("allocatedTreasury")' - Total("treasuryRouted")
                - Total("treasuryBounties") = w.treasuryTank
           /\ Total("allocatedOperations")' - Total("operationsCollected")
                = w.operationsTab
    BY <1>3, <1>9, <1>10, <1>11
  <1> QED  BY <1>3, <1>5, <1>6, <1>7, <1>11, <1>12, <1>13
           DEF n, rows, w, AfterAllocation

LEMMA RouterFacts ==
    ASSUME IInv, LedgerInv
    PROVE  /\ router \in Routers /\ RouterInv(router) /\ SameBooks(router, router)
           /\ Allocated(router) \in Routers /\ RouterInv(Allocated(router))
           /\ caps.sequester \in Nat /\ caps.treasury \in Nat
           /\ RouterAgrees /\ migrations \in Nat
  <1>1. router \in Routers /\ RouterInv(router)
    BY DEF IInv, RouterPart
  <1>2. Allocated(router) \in Routers /\ RouterInv(Allocated(router))
    BY <1>1, AllocatedInv
  <1>3. caps.sequester \in Nat /\ caps.treasury \in Nat /\ migrations \in Nat
    BY RevenueAssumption DEF IInv, PolicyPart
  <1> QED  BY <1>1, <1>2, <1>3 DEF LedgerInv, SameBooks

LEMMA AllocateBooked ==
    ASSUME IInv, LedgerInv, NEW r \in Routers, RouterInv(r), SameBooks(router, r),
           Emit(RevenueAllocated(Unallocated(r))), router' = Allocated(r),
           UNCHANGED <<hook, unburned, migrations>>
    PROVE  LedgerInv'
  <1> DEFINE more == {}
             S == {}
             rows == RevenueAllocated(Unallocated(r)) \cup more
             w == Allocated(r)
  <1>1. RouterAgrees
    BY DEF LedgerInv
  <1>2. /\ Emit(rows) /\ Written(more) /\ S \subseteq RouterSums \ AllocationSums
        /\ \A x \in more : x.key = Global /\ x.sum \in S
    BY DEF Written
  <1>3. /\ "sequestered" \notin S /\ "treasuryRouted" \notin S
        /\ "operationsCollected" \notin S /\ "sequesterBounties" \notin S
        /\ "treasuryBounties" \notin S /\ "migrations" \notin S
    OBVIOUS
  <1> HIDE DEF more, S
  <1>4. AfterAllocation(w, rows, S)
    BY <1>2, AllocatedCall
  <1> HIDE DEF rows, w
  <1>5. /\ Total("sequestered")' = Total("sequestered")
        /\ Total("treasuryRouted")' = Total("treasuryRouted")
        /\ Total("operationsCollected")' = Total("operationsCollected")
        /\ Total("sequesterBounties")' = Total("sequesterBounties")
        /\ Total("treasuryBounties")' = Total("treasuryBounties")
        /\ Total("migrations")' = Total("migrations")
    BY <1>3, <1>4
       DEF AfterAllocation, RouterSums, PlatformSums, GlobalSums, AllocationSums
  <1>6. RouterAgrees'
    BY <1>1, <1>4, <1>5 DEF AfterAllocation, RouterAgrees, LanesAgree, w
  <1> QED  BY <1>4, <1>6, RouterCall DEF AfterAllocation

LEMMA SequesterBooked ==
    ASSUME IInv, LedgerInv, SequesterPipedog, Emit(AllocatedNow \cup PipedogSequestered)
    PROVE  LedgerInv'
  <1> DEFINE w == Allocated(router)
             chunk == Chunk(w.sequesterTank, caps.sequester)
             bounty == Bounty(chunk)
             more == PipedogSequestered
             rows == RevenueAllocated(Unallocated(router)) \cup more
             S == {"sequestered", "sequesterBounties"}
  <1>1. /\ router \in Routers /\ RouterInv(router) /\ SameBooks(router, router)
        /\ w \in Routers /\ caps.sequester \in Nat /\ RouterAgrees /\ ledger \in [Keys -> Int]
    BY RouterFacts DEF LedgerInv
  <1>2. chunk \in Nat /\ bounty \in Nat
    BY <1>1, ChunkFits DEF Routers
  <1>3. more = {Row("sequestered", Global, chunk - bounty),
                Row("sequesterBounties", Global, bounty)}
    BY DEF PipedogSequestered
  <1>4. router' = Sequestered(w, caps.sequester) /\ UNCHANGED <<hook, unburned, migrations>>
    BY DEF SequesterPipedog, bounds
  <1>5. /\ router'.sequesterTank = w.sequesterTank - chunk
        /\ router'.sequestered = w.sequestered + (chunk - bounty)
        /\ router'.bounties = w.bounties + bounty
        /\ router'.treasuryTank = w.treasuryTank /\ router'.operationsTab = w.operationsTab
        /\ router'.routed = w.routed /\ router'.collected = w.collected
        /\ router'.allocated = w.allocated /\ router'.migrated = w.migrated
    BY <1>1, <1>4 DEF Sequestered, Routers
  <1>6. Emit(rows)
    BY DEF AllocatedNow
  <1>7. w.sequesterTank \in Nat /\ w.sequestered \in Nat /\ w.bounties \in Nat
    BY <1>1 DEF Routers
  <1> HIDE DEF chunk, bounty, more, w
  <1>8. chunk - bounty \in Int
    BY <1>2
  <1>9. Written(more) /\ \A x \in more : x.key = Global /\ x.sum \in S
    BY <1>2, <1>3, <1>8 DEF Row, Written
  <1>10. S \subseteq RouterSums \ AllocationSums
    BY DEF RouterSums, PlatformSums, GlobalSums, AllocationSums
  <1>11. /\ Row("sequestered", Global, chunk - bounty) \in rows
         /\ Row("sequesterBounties", Global, bounty) \in rows
         /\ <<"sequestered", Global>> \in Keys /\ <<"sequesterBounties", Global>> \in Keys
    BY <1>3, KeysOf DEF GlobalSums
  <1>12. /\ "treasuryRouted" \notin S /\ "treasuryBounties" \notin S
         /\ "operationsCollected" \notin S /\ "migrations" \notin S
    OBVIOUS
  <1> HIDE DEF S
  <1>13. AfterAllocation(w, rows, S)
    BY <1>1, <1>6, <1>9, <1>10, AllocatedCall DEF w
  <1> HIDE DEF rows
  <1>14. /\ Total("sequestered")' = Total("sequestered") + (chunk - bounty)
         /\ Total("sequesterBounties")' = Total("sequesterBounties") + bounty
    BY <1>1, <1>11, <1>13, Booked DEF AfterAllocation, Total
  <1>15. /\ Total("treasuryRouted")' = Total("treasuryRouted")
         /\ Total("operationsCollected")' = Total("operationsCollected")
         /\ Total("treasuryBounties")' = Total("treasuryBounties")
         /\ Total("migrations")' = Total("migrations")
    BY <1>12, <1>13
       DEF AfterAllocation, RouterSums, PlatformSums, GlobalSums, AllocationSums
  <1>16. /\ Total("sequestered") \in Int /\ Total("sequesterBounties") \in Int
         /\ Total("treasuryBounties") \in Int /\ Total("allocatedSequester") \in Int
    BY <1>1, SumInts DEF GlobalSums
  <1>17. RouterAgrees'
    <2>1. Total("sequesterBounties")' + Total("treasuryBounties")' = router'.bounties
      BY <1>2, <1>5, <1>13, <1>14, <1>15, <1>16 DEF AfterAllocation
    <2>2. ASSUME migrations = 0
          PROVE  Total("allocatedSequester")' - Total("sequestered")'
                   - Total("sequesterBounties")' = router'.sequesterTank
      <3>1. Total("allocatedSequester")' - Total("sequestered")
              - Total("sequesterBounties") = w.sequesterTank
        BY <1>13, <2>2 DEF AfterAllocation
      <3>2. Total("allocatedSequester")' \in Int
        <4>1. ledger' \in [Keys -> Int]
          BY <1>1, <1>13, Emitted DEF AfterAllocation
        <4> QED  BY <4>1, KeysOf DEF Total, GlobalSums
      <3> QED  BY <1>2, <1>5, <1>7, <1>14, <1>16, <3>1, <3>2
    <2>3. Total("sequestered")' = router'.sequestered
      BY <1>5, <1>13, <1>14 DEF AfterAllocation
    <2>4. migrations' = migrations /\ router'.migrated = router.migrated
      BY <1>4, <1>5, <1>13 DEF AfterAllocation
    <2> QED  BY <1>1, <1>5, <1>13, <1>15, <2>1, <2>2, <2>3, <2>4
             DEF AfterAllocation, RouterAgrees, LanesAgree
  <1> QED  BY <1>4, <1>13, <1>17, RouterCall DEF AfterAllocation

LEMMA RouteBooked ==
    ASSUME IInv, LedgerInv, RouteTreasuryPipedog, Emit(AllocatedNow \cup TreasuryPipedogRouted)
    PROVE  LedgerInv'
  <1> DEFINE w == Allocated(router)
             chunk == Chunk(w.treasuryTank, caps.treasury)
             bounty == Bounty(chunk)
             more == TreasuryPipedogRouted
             rows == RevenueAllocated(Unallocated(router)) \cup more
             S == {"treasuryRouted", "treasuryBounties"}
  <1>1. /\ router \in Routers /\ RouterInv(router) /\ SameBooks(router, router)
        /\ w \in Routers /\ caps.treasury \in Nat /\ RouterAgrees /\ ledger \in [Keys -> Int]
    BY RouterFacts DEF LedgerInv
  <1>2. chunk \in Nat /\ bounty \in Nat
    BY <1>1, ChunkFits DEF Routers
  <1>3. more = {Row("treasuryRouted", Global, chunk - bounty),
                Row("treasuryBounties", Global, bounty)}
    BY DEF TreasuryPipedogRouted
  <1>4. router' = Routed(w, caps.treasury) /\ UNCHANGED <<hook, unburned, migrations>>
    BY DEF RouteTreasuryPipedog, bounds
  <1>5. /\ router'.treasuryTank = w.treasuryTank - chunk
        /\ router'.routed = w.routed + (chunk - bounty)
        /\ router'.bounties = w.bounties + bounty
        /\ router'.sequesterTank = w.sequesterTank /\ router'.operationsTab = w.operationsTab
        /\ router'.sequestered = w.sequestered /\ router'.collected = w.collected
        /\ router'.allocated = w.allocated /\ router'.migrated = w.migrated
    BY <1>1, <1>4 DEF Routed, Routers
  <1>6. Emit(rows)
    BY DEF AllocatedNow
  <1>7. w.treasuryTank \in Nat /\ w.routed \in Nat /\ w.bounties \in Nat
    BY <1>1 DEF Routers
  <1> HIDE DEF chunk, bounty, more, w
  <1>8. chunk - bounty \in Int
    BY <1>2
  <1>9. Written(more) /\ \A x \in more : x.key = Global /\ x.sum \in S
    BY <1>2, <1>3, <1>8 DEF Row, Written
  <1>10. S \subseteq RouterSums \ AllocationSums
    BY DEF RouterSums, PlatformSums, GlobalSums, AllocationSums
  <1>11. /\ Row("treasuryRouted", Global, chunk - bounty) \in rows
         /\ Row("treasuryBounties", Global, bounty) \in rows
         /\ <<"treasuryRouted", Global>> \in Keys /\ <<"treasuryBounties", Global>> \in Keys
    BY <1>3, KeysOf DEF GlobalSums
  <1>12. /\ "sequestered" \notin S /\ "sequesterBounties" \notin S
         /\ "operationsCollected" \notin S /\ "migrations" \notin S
    OBVIOUS
  <1> HIDE DEF S
  <1>13. AfterAllocation(w, rows, S)
    BY <1>1, <1>6, <1>9, <1>10, AllocatedCall DEF w
  <1> HIDE DEF rows
  <1>14. /\ Total("treasuryRouted")' = Total("treasuryRouted") + (chunk - bounty)
         /\ Total("treasuryBounties")' = Total("treasuryBounties") + bounty
    BY <1>1, <1>11, <1>13, Booked DEF AfterAllocation, Total
  <1>15. /\ Total("sequestered")' = Total("sequestered")
         /\ Total("operationsCollected")' = Total("operationsCollected")
         /\ Total("sequesterBounties")' = Total("sequesterBounties")
         /\ Total("migrations")' = Total("migrations")
    BY <1>12, <1>13
       DEF AfterAllocation, RouterSums, PlatformSums, GlobalSums, AllocationSums
  <1>16. /\ Total("treasuryRouted") \in Int /\ Total("treasuryBounties") \in Int
         /\ Total("sequesterBounties") \in Int /\ Total("allocatedTreasury") \in Int
    BY <1>1, SumInts DEF GlobalSums
  <1>17. RouterAgrees'
    <2>1. Total("sequesterBounties")' + Total("treasuryBounties")' = router'.bounties
      BY <1>2, <1>5, <1>13, <1>14, <1>15, <1>16 DEF AfterAllocation
    <2>2. ASSUME migrations = 0
          PROVE  Total("allocatedTreasury")' - Total("treasuryRouted")'
                   - Total("treasuryBounties")' = router'.treasuryTank
      <3>1. Total("allocatedTreasury")' - Total("treasuryRouted")
              - Total("treasuryBounties") = w.treasuryTank
        BY <1>13, <2>2 DEF AfterAllocation
      <3>2. Total("allocatedTreasury")' \in Int
        <4>1. ledger' \in [Keys -> Int]
          BY <1>1, <1>13, Emitted DEF AfterAllocation
        <4> QED  BY <4>1, KeysOf DEF Total, GlobalSums
      <3> QED  BY <1>2, <1>5, <1>7, <1>14, <1>16, <3>1, <3>2
    <2>3. Total("treasuryRouted")' = router'.routed
      BY <1>5, <1>13, <1>14 DEF AfterAllocation
    <2>4. migrations' = migrations /\ router'.migrated = router.migrated
      BY <1>4, <1>5, <1>13 DEF AfterAllocation
    <2> QED  BY <1>1, <1>5, <1>13, <1>15, <2>1, <2>2, <2>3, <2>4
             DEF AfterAllocation, RouterAgrees, LanesAgree
  <1> QED  BY <1>4, <1>13, <1>17, RouterCall DEF AfterAllocation

LEMMA CollectBooked ==
    ASSUME IInv, LedgerInv, CollectOperations,
           Emit(AllocatedNow
                \cup {Row("operationsCollected", Global, Allocated(router).operationsTab)})
    PROVE  LedgerInv'
  <1> DEFINE w == Allocated(router)
             amount == w.operationsTab
             more == {Row("operationsCollected", Global, amount)}
             rows == RevenueAllocated(Unallocated(router)) \cup more
             S == {"operationsCollected"}
  <1>1. /\ router \in Routers /\ RouterInv(router) /\ SameBooks(router, router)
        /\ w \in Routers /\ RouterAgrees /\ ledger \in [Keys -> Int]
    BY RouterFacts DEF LedgerInv
  <1>2. amount \in Nat /\ w.collected \in Nat
    BY <1>1 DEF Routers
  <1>3. router' = Collected(w) /\ UNCHANGED <<hook, unburned, migrations>>
    BY DEF CollectOperations, policy, bounds
  <1>4. /\ router'.operationsTab = 0 /\ router'.collected = w.collected + amount
        /\ router'.sequesterTank = w.sequesterTank /\ router'.treasuryTank = w.treasuryTank
        /\ router'.sequestered = w.sequestered /\ router'.routed = w.routed
        /\ router'.bounties = w.bounties
        /\ router'.allocated = w.allocated /\ router'.migrated = w.migrated
    BY <1>1, <1>3 DEF Collected, Routers
  <1>5. Emit(rows)
    BY DEF AllocatedNow
  <1> HIDE DEF w, amount
  <1>6. Written(more) /\ \A x \in more : x.key = Global /\ x.sum \in S
    BY <1>2 DEF Row, Written
  <1>7. S \subseteq RouterSums \ AllocationSums
    BY DEF RouterSums, PlatformSums, GlobalSums, AllocationSums
  <1>8. Row("operationsCollected", Global, amount) \in rows
        /\ <<"operationsCollected", Global>> \in Keys
    BY KeysOf DEF GlobalSums
  <1>9. /\ "sequestered" \notin S /\ "treasuryRouted" \notin S
        /\ "sequesterBounties" \notin S /\ "treasuryBounties" \notin S
        /\ "migrations" \notin S
    OBVIOUS
  <1> HIDE DEF S, more
  <1>10. AfterAllocation(w, rows, S)
    BY <1>1, <1>5, <1>6, <1>7, AllocatedCall DEF w
  <1> HIDE DEF rows
  <1>11. Total("operationsCollected")' = Total("operationsCollected") + amount
    BY <1>1, <1>8, <1>10, Booked DEF AfterAllocation, Total
  <1>12. /\ Total("sequestered")' = Total("sequestered")
         /\ Total("treasuryRouted")' = Total("treasuryRouted")
         /\ Total("sequesterBounties")' = Total("sequesterBounties")
         /\ Total("treasuryBounties")' = Total("treasuryBounties")
         /\ Total("migrations")' = Total("migrations")
    BY <1>9, <1>10
       DEF AfterAllocation, RouterSums, PlatformSums, GlobalSums, AllocationSums
  <1>13. RouterAgrees'
    <2>1. Total("operationsCollected")' = router'.collected
      BY <1>4, <1>10, <1>11 DEF AfterAllocation
    <2>2. ASSUME migrations = 0
          PROVE  Total("allocatedOperations")' - Total("operationsCollected")' = 0
      <3>1. Total("allocatedOperations")' - Total("operationsCollected") = amount
        BY <1>10, <2>2 DEF AfterAllocation, amount
      <3>2. /\ Total("allocatedOperations")' \in Int /\ Total("operationsCollected") \in Int
        <4>1. ledger' \in [Keys -> Int]
          BY <1>1, <1>10, Emitted DEF AfterAllocation
        <4> QED  BY <1>1, <4>1, KeysOf DEF Total, GlobalSums
      <3> QED  BY <1>2, <1>11, <3>1, <3>2
    <2>3. migrations' = migrations /\ router'.migrated = router.migrated
      BY <1>3, <1>4, <1>10 DEF AfterAllocation
    <2> QED  BY <1>1, <1>4, <1>10, <1>12, <2>1, <2>2, <2>3
             DEF AfterAllocation, RouterAgrees, LanesAgree
  <1> QED  BY <1>3, <1>10, <1>13, RouterCall DEF AfterAllocation

\* After a migration the lanes are not compared any more.
LEMMA MigrateBooked ==
    ASSUME IInv, LedgerInv, Migrate,
           Emit(AllocatedNow \cup {Row("migrations", Global, 1)})
    PROVE  LedgerInv'
  <1> DEFINE w == Allocated(router)
             more == {Row("migrations", Global, 1)}
             rows == RevenueAllocated(Unallocated(router)) \cup more
             S == {"migrations"}
  <1>1. /\ router \in Routers /\ RouterInv(router) /\ SameBooks(router, router)
        /\ w \in Routers /\ RouterAgrees /\ ledger \in [Keys -> Int] /\ migrations \in Nat
    BY RouterFacts DEF LedgerInv
  <1>2. /\ router' = Migrated(w) /\ migrations' = migrations + 1
        /\ UNCHANGED <<hook, unburned>>
    BY DEF Migrate
  <1>3. /\ router'.allocated = w.allocated
        /\ router'.sequestered = w.sequestered /\ router'.routed = w.routed
        /\ router'.collected = w.collected /\ router'.bounties = w.bounties
    BY <1>1, <1>2 DEF Migrated, Routers
  <1>4. Emit(rows)
    BY DEF AllocatedNow
  <1>5. Written(more) /\ \A x \in more : x.key = Global /\ x.sum \in S
    <2>1. 1 \in Int
      OBVIOUS
    <2> QED  BY <2>1 DEF Row, Written
  <1>6. S \subseteq RouterSums \ AllocationSums
    BY DEF RouterSums, PlatformSums, GlobalSums, AllocationSums
  <1>7. Row("migrations", Global, 1) \in rows /\ <<"migrations", Global>> \in Keys
    BY KeysOf DEF GlobalSums
  <1>8. /\ "sequestered" \notin S /\ "treasuryRouted" \notin S
        /\ "sequesterBounties" \notin S /\ "treasuryBounties" \notin S
        /\ "operationsCollected" \notin S
    OBVIOUS
  <1> HIDE DEF S, more, w
  <1>9. AfterAllocation(w, rows, S)
    BY <1>1, <1>4, <1>5, <1>6, AllocatedCall DEF w
  <1> HIDE DEF rows
  <1>10. Total("migrations")' = Total("migrations") + 1
    BY <1>1, <1>7, <1>9, Booked DEF AfterAllocation, Total
  <1>11. /\ Total("sequestered")' = Total("sequestered")
         /\ Total("treasuryRouted")' = Total("treasuryRouted")
         /\ Total("sequesterBounties")' = Total("sequesterBounties")
         /\ Total("treasuryBounties")' = Total("treasuryBounties")
         /\ Total("operationsCollected")' = Total("operationsCollected")
    BY <1>8, <1>9
       DEF AfterAllocation, RouterSums, PlatformSums, GlobalSums, AllocationSums
  <1>12. RouterAgrees'
    <2>1. migrations' > 0 /\ migrations' # 0
      BY <1>1, <1>2
    <2> QED  BY <1>1, <1>2, <1>3, <1>9, <1>10, <1>11, <2>1 DEF AfterAllocation, RouterAgrees
  <1> QED  BY <1>2, <1>9, <1>12, RouterCall DEF AfterAllocation

\* A call without rows, and without effect on what is compared.
LEMMA NothingBooked ==
    ASSUME IInv, LedgerInv, UNCHANGED <<ledger, unburned, migrations>>,
           hook'.pending = hook.pending, hook'.tab = hook.tab,
           hook'.platformTab = hook.platformTab, SameBooks(router, router')
    PROVE  LedgerInv'
  <1>1. ledger' \in [Keys -> Int] /\ PlatformAgrees'
    BY DEF LedgerInv, PlatformAgrees, Total
  <1>2. PoolsAgree'
    BY DEF LedgerInv, PoolsAgree, PoolAgrees, PendingExpected, TabExpected,
           UnburnedExpected, Of
  <1>3. RouterAgrees'
    BY DEF LedgerInv, RouterAgrees, LanesAgree, Total, SameBooks
  <1> QED  BY <1>1, <1>2, <1>3 DEF LedgerInv

LEMMA LedgerInit == RInit => LedgerInv
  <1> SUFFICES ASSUME RInit PROVE LedgerInv
    OBVIOUS
  <1>1. ledger = [k \in Keys |-> 0] /\ ledger \in [Keys -> Int]
    BY DEF RInit
  <1>2. /\ \A s \in PoolSums, q \in Pools : Of(s, q) = 0
        /\ \A s \in GlobalSums : Total(s) = 0
        /\ \A q \in SelfBurnPools : Of("nonBurnerClaims", q) = 0
        /\ \A q \in CreatorPools : Of("burnCount", q) = 0
    BY <1>1, KeysOf DEF Of, Total
  <1>3. PoolsAgree
    <2> SUFFICES ASSUME NEW q \in Pools PROVE PoolAgrees(q)
      BY DEF PoolsAgree
    <2>1. hook.pending[q] = 0 /\ hook.tab[q] = 0 /\ (q \in SelfBurnPools => unburned[q] = 0)
      BY DEF RInit, Init, EmptyHook, Zero
    <2> QED  BY <1>2, <2>1 DEF PoolAgrees, PendingExpected, TabExpected, UnburnedExpected, PoolSums
  <1>4. PlatformAgrees
    BY <1>2 DEF PlatformAgrees, GlobalSums, RInit, Init, EmptyHook
  <1>5. RouterAgrees
    BY <1>2 DEF RouterAgrees, LanesAgree, GlobalSums, RInit, Init, EmptyRouter
  <1> QED  BY <1>1, <1>3, <1>4, <1>5 DEF LedgerInv

LEMMA LedgerNext == IInv /\ LedgerInv /\ [RNext]_<<vars, ledger>> => LedgerInv'
  <1> SUFFICES ASSUME IInv, LedgerInv, [RNext]_<<vars, ledger>> PROVE LedgerInv'
    OBVIOUS
  <1>0. /\ router \in Routers /\ RouterInv(router) /\ SameBooks(router, router)
        /\ hook \in Books
    BY RouterFacts DEF IInv, HookPart
  <1>1. ASSUME NEW p \in Pools, NEW fee \in SwapFees, Swap(p, fee), Emit(FeeAccrued(p, fee))
        PROVE  LedgerInv'
    BY <1>1, SwapBooked
  <1>2. ASSUME NEW p \in Pools, Sweep(p), Emit(FeesSwept(p))
        PROVE  LedgerInv'
    BY <1>2, SweepCallBooked
  <1>3. ASSUME NEW p \in CreatorPools, Claim(p),
               Emit(FeesSwept(p) \cup CreatorFeesClaimed(p, Swept(hook, p).tab[p]))
        PROVE  LedgerInv'
    BY <1>3, ClaimBooked
  <1>4. ASSUME NEW p \in SelfBurnPools, Burn(p), Emit(BurnRows(p))
        PROVE  LedgerInv'
    BY <1>4, BurnBooked
  <1>5. CASE CollectPlatform /\ Emit({Row("platformCollected", Global, hook.platformTab)})
    BY <1>5, CollectPlatformBooked
  <1>6. CASE Allocate /\ Emit(AllocatedNow)
    BY <1>0, <1>6, AllocateBooked DEF Allocate, AllocatedNow, bounds
  <1>7. CASE SequesterPipedog /\ Emit(AllocatedNow \cup PipedogSequestered)
    BY <1>7, SequesterBooked
  <1>8. CASE RouteTreasuryPipedog /\ Emit(AllocatedNow \cup TreasuryPipedogRouted)
    BY <1>8, RouteBooked
  <1>9. CASE /\ CollectOperations
             /\ Emit(AllocatedNow
                  \cup {Row("operationsCollected", Global, Allocated(router).operationsTab)})
    BY <1>9, CollectBooked
  <1>10. CASE Migrate /\ Emit(AllocatedNow \cup {Row("migrations", Global, 1)})
    BY <1>10, MigrateBooked
  <1>11. CASE Deposit /\ Emit(RevenueAllocated(Unallocated(Received(router, 1))))
    <2>1. /\ Received(router, 1) \in Routers /\ RouterInv(Received(router, 1))
          /\ SameBooks(router, Received(router, 1))
      BY <1>0, ReceivedInv, ReceivedBooks
    <2> QED  BY <1>11, <2>1, AllocateBooked DEF Deposit
  <1>12. CASE SetPolicy /\ UNCHANGED ledger
    BY <1>0, <1>12, NothingBooked DEF SetPolicy, bounds
  <1>13. CASE SetLaunchEnabled /\ UNCHANGED ledger
    BY <1>0, <1>13, NothingBooked DEF SetLaunchEnabled, bounds
  <1>14. CASE Gift /\ UNCHANGED ledger
    <2>1. UNCHANGED <<unburned, migrations>>
      BY <1>14 DEF Gift
    <2>2. /\ hook'.pending = hook.pending /\ hook'.tab = hook.tab
          /\ hook'.platformTab = hook.platformTab
      BY <1>0, <1>14 DEF Gift, Books
    <2>3. SameBooks(router, router')
      BY <1>0, <1>14, ReceivedBooks DEF Gift
    <2> QED  BY <1>14, <2>1, <2>2, <2>3, NothingBooked
  <1>15. CASE NewBlock /\ UNCHANGED ledger
    BY <1>0, <1>15, NothingBooked DEF NewBlock, bounds
  <1>16. CASE UNCHANGED <<vars, ledger>>
    BY <1>0, <1>16, NothingBooked DEF vars
  <1> QED
    BY <1>1, <1>2, <1>3, <1>4, <1>5, <1>6, <1>7, <1>8, <1>9, <1>10, <1>11, <1>12, <1>13,
       <1>14, <1>15, <1>16 DEF RNext

\* The reconciled calls are those of LaunchpadRevenue.
LEMMA ReconciledCalls ==
    /\ RInit => Init
    /\ [RNext]_<<vars, ledger>> => [Next]_vars
  <1>1. RInit => Init
    BY DEF RInit
  <1>2. RNext => Next
    BY DEF RNext, Next, Keepers
  <1>3. UNCHANGED <<vars, ledger>> => UNCHANGED vars
    OBVIOUS
  <1> QED  BY <1>1, <1>2, <1>3

LEMMA LedgerInductive == RSpec => [](IInv /\ LedgerInv)
  <1>1. RInit => IInv /\ LedgerInv
    BY InitInv, LedgerInit, ReconciledCalls
  <1>2. IInv /\ LedgerInv /\ [RNext]_<<vars, ledger>> => (IInv /\ LedgerInv)'
    BY NextInv, LedgerNext, ReconciledCalls
  <1> QED  BY <1>1, <1>2, PTL DEF RSpec

\* What the balances of hook and self-burner are compared with.
LEMMA ExpectedBalances ==
    ASSUME IInv, LedgerInv
    PROVE  /\ SumFunction([p \in Pools |-> TabExpected(p)]) + hook.platformTab + gifts.hook
                = hook.balance
           /\ SumFunction([p \in SelfBurnPools |-> UnburnedExpected(p)]) + gifts.burner
                = burnerBalance
           /\ SumFunction([p \in Pools |-> TabExpected(p)]) \in Nat
           /\ SumFunction([p \in SelfBurnPools |-> UnburnedExpected(p)]) \in Nat
  <1>1. /\ hook \in Books /\ Backed(hook, gifts.hook) /\ unburned \in [SelfBurnPools -> Nat]
        /\ burnerBalance = Together(unburned) + gifts.burner
    BY DEF IInv, HookPart, BurnerPart, BurnerBacked
  <1>2. hook.tab \in [Pools -> Nat]
    BY <1>1 DEF Books
  <1>3. [p \in Pools |-> TabExpected(p)] = hook.tab
    BY <1>2 DEF LedgerInv, PoolsAgree, PoolAgrees
  <1>4. [p \in SelfBurnPools |-> UnburnedExpected(p)] = unburned
    BY <1>1 DEF LedgerInv, PoolsAgree, PoolAgrees, Pools
  <1>5. /\ SumFunction(hook.tab) = Together(hook.tab) /\ Together(hook.tab) \in Nat
        /\ SumFunction(unburned) = Together(unburned) /\ Together(unburned) \in Nat
    BY <1>1, <1>2, FinitePools, SumIsTogether, TogetherNat
  <1>6. hook.balance = Together(hook.tab) + hook.platformTab + gifts.hook
    BY <1>1 DEF Backed
  <1> QED  BY <1>1, <1>3, <1>4, <1>5, <1>6

\* For every set of pools, every revenue and every order of calls the
\* reconciliation of the indexed rows with the contracts reports what came from
\* outside, what nobody has allocated and a migration, and nothing else.
THEOREM ReportsAreExact == RSpec => []ReportsOnlyTheOutside
  <1>1. IInv /\ LedgerInv => ReportsOnlyTheOutside
    <2> SUFFICES ASSUME IInv, LedgerInv PROVE ReportsOnlyTheOutside
      OBVIOUS
    <2>1. /\ hook \in Books /\ router \in Routers /\ RouterInv(router)
          /\ gifts.hook \in Nat /\ gifts.burner \in Nat /\ migrations \in Nat
          /\ burnerBalance \in Int /\ RouterAgrees
      BY DEF IInv, HookPart, RouterPart, PolicyPart, BurnerPart, LedgerInv
    <2>2. \A p \in Pools : PoolMismatches(p) = {}
      BY DEF LedgerInv, PoolsAgree, PoolAgrees, PoolMismatches, Compared, Found, Pools
    <2>3. HookMismatches = Found("hook-pipedog-balance", Global, gifts.hook > 0)
      <3> DEFINE sum == SumFunction([p \in Pools |-> TabExpected(p)])
      <3>1. sum + hook.platformTab + gifts.hook = hook.balance /\ sum \in Nat
        BY ExpectedBalances
      <3>2. hook.platformTab \in Nat /\ hook.balance \in Int
        BY <2>1 DEF Books
      <3>3. Total("platformDeferred") - Total("platformCollected") = hook.platformTab
        BY DEF LedgerInv, PlatformAgrees
      <3>4. HookMismatches = Compared("platform-tab", Global, hook.platformTab, hook.platformTab)
              \cup Compared("hook-pipedog-balance", Global, sum + hook.platformTab, hook.balance)
        BY <3>3 DEF HookMismatches
      <3> HIDE DEF sum
      <3>5. sum + hook.platformTab = hook.balance <=> ~(gifts.hook > 0)
        BY <2>1, <3>1, <3>2
      <3> QED  BY <3>4, <3>5 DEF Compared, Found
    <2>4. BurnerMismatches = Found("burner-pipedog-balance", Global, gifts.burner > 0)
      <3> DEFINE sum == SumFunction([p \in SelfBurnPools |-> UnburnedExpected(p)])
      <3>1. sum + gifts.burner = burnerBalance /\ sum \in Nat
        BY ExpectedBalances
      <3>2. BurnerMismatches = Compared("burner-pipedog-balance", Global, sum, burnerBalance)
        BY DEF BurnerMismatches
      <3> HIDE DEF sum
      <3>3. sum = burnerBalance <=> ~(gifts.burner > 0)
        BY <2>1, <3>1
      <3> QED  BY <3>2, <3>3 DEF Compared, Found
    <2>5. LaneMismatches = Found("unsupported-router-migration", Global, migrations > 0)
      <3>1. CASE migrations > 0
        BY <2>1, <3>1 DEF LaneMismatches, RouterAgrees, Found
      <3>2. CASE ~(migrations > 0)
        <4>1. migrations = 0 /\ ~(router.migrated > 0) /\ ~(Total("migrations") > 0)
          BY <2>1, <3>2 DEF RouterAgrees
        <4>2. LanesAgree
          BY <2>1, <4>1 DEF RouterAgrees
        <4> QED  BY <3>2, <4>1, <4>2 DEF LaneMismatches, LanesAgree, Compared, Found
      <3> QED  BY <3>1, <3>2
    <2>6. RevenueMismatches = Found("unallocated-pipedog", Global, Unallocated(router) > 0)
            \cup Found("unsupported-router-migration", Global, migrations > 0)
      <3>1. Unallocated(router) \in Nat
        BY <2>1, InvType
      <3>2. 0 = Unallocated(router) <=> ~(Unallocated(router) > 0)
        BY <3>1
      <3>3. router.sequesterTank + router.treasuryTank + router.operationsTab
              + Unallocated(router) = router.balance
        BY <2>1 DEF Routers, Unallocated, Lanes
      <3> QED  BY <2>1, <2>5, <3>2, <3>3 DEF RevenueMismatches, RouterAgrees, Compared, Found
    <2>7. UNION {PoolMismatches(p) : p \in Pools} = {}
      BY <2>2
    <2> QED  BY <2>3, <2>4, <2>6, <2>7 DEF Mismatches, ReportsOnlyTheOutside
  <1> QED  BY <1>1, LedgerInductive, PTL
=============================================================================
