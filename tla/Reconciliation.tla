--------------------------- MODULE Reconciliation ---------------------------
(* The read-only reconciliation of the indexed accounting with the contracts: *)
(* each call of LaunchpadRevenue emits its events, the decoder turns them into *)
(* rows, the reconciliation sums the rows and compares the sums with what the *)
(* contracts answer.  That the rows of a pinned block are those of the chain   *)
(* is the matter of module CanonicalIndexer.                                   *)
EXTENDS LaunchpadRevenue, FiniteSetsExt

CONSTANT Global  \* the key of a sum that is not kept per pool

ASSUME GlobalAssumption == Global \notin Pools

VARIABLE ledger  \* the sums over fee_events, burn_events and revenue_events

PoolSums ==
  {"accrued", "sweptCreator", "sweptPlatform", "creatorClaimed",
   "selfBurnerClaimed", "pipedogIn", "pipedogBounty"}
GlobalSums ==
  {"platformDeferred", "platformCollected",
   "allocatedSequester", "allocatedTreasury", "allocatedOperations",
   "sequestered", "sequesterBounties", "treasuryRouted", "treasuryBounties",
   "operationsCollected", "migrations"}

Row(sum, key, amount) == [sum |-> sum, key |-> key, amount |-> amount]

\* The rows of one transaction are added to the sums.
Emit(rows) ==
  ledger' = [k \in DOMAIN ledger |->
    ledger[k] + MapThenSumSet(LAMBDA r : r.amount,
                              {r \in rows : <<r.sum, r.key>> = k})]

\* Claims count only where a pool should have none, and so do burns.
Keys ==
  (PoolSums \X Pools) \cup ({"nonBurnerClaims"} \X SelfBurnPools)
    \cup ({"burnCount"} \X CreatorPools) \cup (GlobalSums \X {Global})

RInit == Init /\ ledger = [k \in Keys |-> 0]

-----------------------------------------------------------------------------
(* The events and the rows they decode to.                                    *)

FeeAccrued(p, fee) == {Row("accrued", p, fee)}

\* Mutant of FeesSwept: a failed platform payout leaves no row.
FeesSweptUndeferred(p) ==
  {Row("sweptCreator", p, CreatorPart(hook, p)),
   Row("sweptPlatform", p, PlatformPart(hook, p))}

\* A sweep of nothing emits nothing; a platform payout that failed is deferred.
FeesSwept(p) ==
  IF hook.pending[p] = 0 THEN {}
  ELSE {Row("sweptCreator", p, CreatorPart(hook, p)),
        Row("sweptPlatform", p, PlatformPart(hook, p))}
       \cup IF Deliverable THEN {}
            ELSE {Row("platformDeferred", Global, PlatformPart(hook, p))}

CreatorFeesClaimed(p, amount) ==
  {Row("creatorClaimed", p, amount), Row("nonBurnerClaims", p, 1)}
SelfBurnerClaimed(p, amount) ==
  {Row("creatorClaimed", p, amount), Row("selfBurnerClaimed", p, amount)}

\* burn claims only when the hook owes the pool something.
BurnRows(p) ==
  FeesSwept(p)
    \cup (IF hook.pending[p] > 0 \/ hook.tab[p] > 0
          THEN SelfBurnerClaimed(p, HookForBurn(p).tab[p]) ELSE {})
    \cup FeeAccrued(p, BurnFee(p))
    \cup {Row("pipedogIn", p, BurnQuote(p)), Row("pipedogBounty", p, BurnBounty(p)),
          Row("burnCount", p, 1)}

RevenueAllocated(fresh) ==
  LET toSequester == Share(fresh, SequesterBps)
      toTreasury == Share(fresh, TreasuryBps)
  IN {Row("allocatedSequester", Global, toSequester),
      Row("allocatedTreasury", Global, toTreasury),
      Row("allocatedOperations", Global, fresh - toSequester - toTreasury)}

PipedogSequestered ==
  LET chunk == Chunk(Allocated(router).sequesterTank, caps.sequester)
  IN {Row("sequestered", Global, chunk - Bounty(chunk)),
      Row("sequesterBounties", Global, Bounty(chunk))}

TreasuryPipedogRouted ==
  LET chunk == Chunk(Allocated(router).treasuryTank, caps.treasury)
  IN {Row("treasuryRouted", Global, chunk - Bounty(chunk)),
      Row("treasuryBounties", Global, Bounty(chunk))}

AllocatedNow == RevenueAllocated(Unallocated(router))

RNext ==
  \/ \E p \in Pools, fee \in SwapFees : Swap(p, fee) /\ Emit(FeeAccrued(p, fee))
  \/ \E p \in Pools : Sweep(p) /\ Emit(FeesSwept(p))
  \/ \E p \in CreatorPools :
       /\ Claim(p)
       /\ Emit(FeesSwept(p) \cup CreatorFeesClaimed(p, Swept(hook, p).tab[p]))
  \/ \E p \in SelfBurnPools : Burn(p) /\ Emit(BurnRows(p))
  \/ CollectPlatform /\ Emit({Row("platformCollected", Global, hook.platformTab)})
  \/ Allocate /\ Emit(AllocatedNow)
  \/ SequesterPipedog /\ Emit(AllocatedNow \cup PipedogSequestered)
  \/ RouteTreasuryPipedog /\ Emit(AllocatedNow \cup TreasuryPipedogRouted)
  \/ /\ CollectOperations
     /\ Emit(AllocatedNow
             \cup {Row("operationsCollected", Global, Allocated(router).operationsTab)})
  \/ Migrate /\ Emit(AllocatedNow \cup {Row("migrations", Global, 1)})
  \/ Deposit /\ Emit(RevenueAllocated(Unallocated(Received(router, 1))))
  \/ (SetPolicy \/ SetLaunchEnabled \/ Gift \/ NewBlock) /\ UNCHANGED ledger

RSpec == RInit /\ [][RNext]_<<vars, ledger>>
RFairSpec == RSpec /\ Fairness

-----------------------------------------------------------------------------
(* The comparisons.  A difference below zero matches no answer of a contract. *)

Of(sum, p) == ledger[<<sum, p>>]
Total(sum) == ledger[<<sum, Global>>]

PendingExpected(p) == Of("accrued", p) - Of("sweptCreator", p) - Of("sweptPlatform", p)
TabExpected(p) == Of("sweptCreator", p) - Of("creatorClaimed", p)
UnburnedExpected(p) == Of("selfBurnerClaimed", p) - Of("pipedogIn", p) - Of("pipedogBounty", p)

Compared(field, key, indexed, onchain) ==
  IF indexed = onchain THEN {} ELSE {<<field, key>>}
Found(field, key, wrong) == IF wrong THEN {<<field, key>>} ELSE {}

PoolMismatches(p) ==
  Compared("pending", p, PendingExpected(p), hook.pending[p])
    \cup Compared("creator-tab", p, TabExpected(p), hook.tab[p])
    \cup (IF p \in SelfBurnPools
          THEN Compared("unburned-pipedog", p, UnburnedExpected(p), unburned[p])
                 \cup Found("claims-to-non-burner", p, Of("nonBurnerClaims", p) > 0)
          ELSE Found("burns-on-creator-pool", p, Of("burnCount", p) > 0))

LaneMismatches ==
  IF Total("migrations") > 0 \/ router.migrated > 0
  THEN {<<"unsupported-router-migration", Global>>}
  ELSE Compared("sequester-tank", Global,
         Total("allocatedSequester") - Total("sequestered") - Total("sequesterBounties"),
         router.sequesterTank)
       \cup Compared("treasury-tank", Global,
         Total("allocatedTreasury") - Total("treasuryRouted") - Total("treasuryBounties"),
         router.treasuryTank)
       \cup Compared("operations-tab", Global,
         Total("allocatedOperations") - Total("operationsCollected"),
         router.operationsTab)

RevenueMismatches ==
  Compared("total-revenue-allocated", Global,
    Total("allocatedSequester") + Total("allocatedTreasury") + Total("allocatedOperations"),
    router.allocated)
  \cup Compared("total-pipedog-sequestered", Global, Total("sequestered"), router.sequestered)
  \cup Compared("total-pipedog-treasury-routed", Global, Total("treasuryRouted"), router.routed)
  \cup Compared("total-pipedog-operations-collected", Global,
         Total("operationsCollected"), router.collected)
  \cup Compared("total-keeper-bounties", Global,
         Total("sequesterBounties") + Total("treasuryBounties"), router.bounties)
  \cup LaneMismatches
  \cup Compared("unallocated-pipedog", Global, 0, Unallocated(router))
  \cup Compared("router-pipedog-balance", Global,
         router.sequesterTank + router.treasuryTank + router.operationsTab
           + Unallocated(router),
         router.balance)

HookMismatches ==
  Compared("platform-tab", Global,
    Total("platformDeferred") - Total("platformCollected"), hook.platformTab)
  \cup Compared("hook-pipedog-balance", Global,
    SumFunction([p \in Pools |-> TabExpected(p)]) + hook.platformTab, hook.balance)

BurnerMismatches ==
  Compared("burner-pipedog-balance", Global,
    SumFunction([p \in SelfBurnPools |-> UnburnedExpected(p)]), burnerBalance)

Mismatches ==
  (UNION {PoolMismatches(p) : p \in Pools})
    \cup HookMismatches \cup RevenueMismatches \cup BurnerMismatches

\* At every block the reconciliation reports exactly what its documentation says
\* it refuses: money that came from outside, revenue nobody has allocated yet and
\* a router migration.  No order of sweeps, failed payouts, claims, burns and
\* routes makes the events disagree with the contracts, or hides a gift.
ReportsOnlyTheOutside ==
  Mismatches =
    Found("hook-pipedog-balance", Global, gifts.hook > 0)
      \cup Found("burner-pipedog-balance", Global, gifts.burner > 0)
      \cup Found("unallocated-pipedog", Global, Unallocated(router) > 0)
      \cup Found("unsupported-router-migration", Global, migrations > 0)
=============================================================================
