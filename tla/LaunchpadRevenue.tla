-------------------------- MODULE LaunchpadRevenue --------------------------
(* Where the trading fees of launched pools go: PipedogHook takes them as      *)
(* PoolManager claims, a sweep redeems them into a creator tab and a platform  *)
(* payout, LaypipeSelfBurner claims the creator lane of its pools and spends   *)
(* it in bounded burns on the very pools that pay fees again, and              *)
(* PipedogRevenueRouter splits what the platform receives.                     *)
EXTENDS RevenueLanes, Totals

CONSTANTS
  CreatorPools,    \* pools whose fee recipient is a creator
  SelfBurnPools,   \* pools whose fee recipient is the self-burner
  CreatorBps,      \* creatorFeeBps of the pools
  BurnFeeBps,      \* the trading fee on a burn's own buy, in BPS
  MaxBurnPerCall,  \* maxBurnPerCall
  BurnBountyBps,   \* the self-burner's bountyBps
  RouterCaps,      \* the per-call caps the owner chooses from
  SwapFees,        \* fees of the trades the model makes
  MaxSwaps,        \* bound: trades of users
  MaxGifts,        \* bound: PIPEDOG sent to a contract outside the protocol
  MaxMigrations    \* bound: migrations

Pools == CreatorPools \cup SelfBurnPools

ASSUME RevenueAssumption ==
  /\ IsFiniteSet(Pools)
  /\ CreatorPools \cap SelfBurnPools = {}
  /\ CreatorBps \in 0 .. BPS /\ BurnFeeBps \in 0 .. BPS - 1
  /\ BurnBountyBps \in 0 .. BPS - 1
  /\ MaxBurnPerCall \in Nat \ {0}
  /\ RouterCaps \subseteq Nat \ {0} /\ SwapFees \subseteq Nat \ {0}

VARIABLES
  hook,          \* PipedogHook: see Hooks
  treasury,      \* hook: "router", a plain "wallet", or the "hook" itself
  unburned,      \* self-burner: claimed PIPEDOG waiting to be burned, per pool
  burnerBalance, \* PIPEDOG balance of the self-burner
  router,        \* PipedogRevenueRouter
  caps,          \* router: maxSequesterPerCall and maxTreasuryRoutePerCall
  paused,        \* router: Pausable
  launchEnabled, \* factory: the launch gate the owner's setters wait for
  done,          \* the once-per-block calls that ran already in this block
  earned,        \* history: fees accrued per pool
  paid,          \* history: PIPEDOG paid out of a pool's tab
  sweeps,        \* history: sweeps that moved something, per pool
  gifts,         \* history: PIPEDOG sent to each contract from outside
  swaps,         \* bound: trades of users
  migrations     \* bound: migrations

policy == <<treasury, caps, paused, launchEnabled>>
bounds == <<gifts, swaps, migrations>>
vars == <<hook, treasury, unburned, burnerBalance, router, caps, paused,
          launchEnabled, done, earned, paid, sweeps, gifts, swaps, migrations>>

-----------------------------------------------------------------------------
(* PipedogHook.  pending is held as PoolManager claims, tab and platformTab   *)
(* as PIPEDOG.                                                                *)

Hooks ==
  [pending : [Pools -> Nat], tab : [Pools -> Nat], platformTab : Nat,
   claims : Nat, balance : Nat]

Zero(S) == [x \in S |-> 0]

EmptyHook ==
  [pending |-> Zero(Pools), tab |-> Zero(Pools), platformTab |-> 0,
   claims |-> 0, balance |-> 0]

\* The fee of one swap: a claim is minted and booked to the pool.
Accrued(h, p, fee) ==
  [h EXCEPT !.claims = @ + fee, !.pending[p] = @ + fee]

CreatorCutUp(amount) == amount - Share(amount, BPS - CreatorBps)
CreatorCut(amount) == Share(amount, CreatorBps)
CreatorPart(h, p) == CreatorCut(h.pending[p])
PlatformPart(h, p) == h.pending[p] - CreatorPart(h, p)

\* pushPlatformExact succeeds only if the hook's balance really falls.
Deliverable == treasury # "hook"

SweptUnparked(h, p) ==
  [h EXCEPT
    !.pending[p] = 0,
    !.claims = @ - h.pending[p],
    !.tab[p] = @ + CreatorPart(h, p),
    !.balance = @ + h.pending[p] - (IF Deliverable THEN PlatformPart(h, p) ELSE 0)]

\* _sweep: redeem the claims, credit the creator, pay or park the platform part.
Swept(h, p) ==
  [h EXCEPT
    !.pending[p] = 0,
    !.claims = @ - h.pending[p],
    !.tab[p] = @ + CreatorPart(h, p),
    !.balance = @ + h.pending[p] - (IF Deliverable THEN PlatformPart(h, p) ELSE 0),
    !.platformTab = @ + (IF Deliverable THEN 0 ELSE PlatformPart(h, p))]

PaidOut(h, p) == [h EXCEPT !.tab[p] = 0, !.balance = @ - h.tab[p]]

\* What the router receives when the platform is paid an amount.
ToRouter(amount) == IF treasury = "router" THEN Received(router, amount) ELSE router

CountSweep(p) == sweeps' = [sweeps EXCEPT ![p] = @ + IF hook.pending[p] > 0 THEN 1 ELSE 0]

Init ==
  /\ hook = EmptyHook /\ treasury = "router"
  /\ unburned = Zero(SelfBurnPools) /\ burnerBalance = 0
  /\ router = EmptyRouter
  /\ caps \in [sequester : RouterCaps, treasury : RouterCaps]
  /\ paused = FALSE /\ launchEnabled = FALSE
  /\ done = {}
  /\ earned = Zero(Pools) /\ paid = Zero(Pools) /\ sweeps = Zero(Pools)
  /\ gifts = [hook |-> 0, burner |-> 0, router |-> 0] /\ swaps = 0 /\ migrations = 0

\* beforeSwap or afterSwap takes the fee of a user's trade.
Swap(p, fee) ==
  /\ swaps < MaxSwaps
  /\ hook' = Accrued(hook, p, fee)
  /\ earned' = [earned EXCEPT ![p] = @ + fee]
  /\ swaps' = swaps + 1
  /\ UNCHANGED <<policy, unburned, burnerBalance, router, done, paid, sweeps,
                 gifts, migrations>>

Sweep(p) ==
  /\ hook.pending[p] > 0
  /\ hook' = Swept(hook, p)
  /\ router' = ToRouter(PlatformPart(hook, p))
  /\ CountSweep(p)
  /\ UNCHANGED <<policy, unburned, burnerBalance, done, earned, paid, bounds>>

\* claim sweeps first, then pays the whole tab to the pool's creator.
Claim(p) ==
  /\ p \in CreatorPools
  /\ hook.pending[p] + hook.tab[p] > 0
  /\ LET h == Swept(hook, p)
     IN /\ hook' = PaidOut(h, p)
        /\ paid' = [paid EXCEPT ![p] = @ + h.tab[p]]
  /\ router' = ToRouter(PlatformPart(hook, p))
  /\ CountSweep(p)
  /\ UNCHANGED <<policy, unburned, burnerBalance, done, earned, bounds>>

\* collectPlatform reverts while the treasury still cannot be paid.
CollectPlatform ==
  /\ hook.platformTab > 0 /\ Deliverable
  /\ hook' = [hook EXCEPT !.platformTab = 0, !.balance = @ - hook.platformTab]
  /\ router' = ToRouter(hook.platformTab)
  /\ UNCHANGED <<policy, unburned, burnerBalance, done, earned, paid, sweeps, bounds>>

-----------------------------------------------------------------------------
(* LaypipeSelfBurner.                                                         *)

\* What one call to burn works with, after its claim on the hook.
HookForBurn(p) ==
  IF hook.pending[p] > 0 \/ hook.tab[p] > 0 THEN Swept(hook, p) ELSE hook
Fuel(p) == unburned[p] + HookForBurn(p).tab[p]
BurnChunk(p) == Chunk(Fuel(p), MaxBurnPerCall)
BurnBounty(p) == Share(BurnChunk(p), BurnBountyBps)
BurnQuote(p) == BurnChunk(p) - BurnBounty(p)
BurnFee(p) == Share(BurnQuote(p), BurnFeeBps)

CarriedAll(p) == Fuel(p)
Carried(p) == Fuel(p) - BurnChunk(p)

\* burn: claim, take one chunk, buy on the pool (which pays a fee again), burn
\* what was bought, pay the bounty.
Burn(p) ==
  /\ p \notin done
  /\ Fuel(p) > 0
  /\ done' = done \cup {p}
  /\ LET claimed == HookForBurn(p).tab[p]
     IN /\ hook' = Accrued(PaidOut(HookForBurn(p), p), p, BurnFee(p))
        /\ paid' = [paid EXCEPT ![p] = @ + claimed]
        /\ burnerBalance' = burnerBalance + claimed - BurnChunk(p)
  /\ unburned' = [unburned EXCEPT ![p] = Carried(p)]
  /\ earned' = [earned EXCEPT ![p] = @ + BurnFee(p)]
  /\ router' = ToRouter(PlatformPart(hook, p))
  /\ CountSweep(p)
  /\ UNCHANGED <<policy, bounds>>

-----------------------------------------------------------------------------
(* PipedogRevenueRouter.                                                      *)

Allocate ==
  /\ Unallocated(router) > 0
  /\ router' = Allocated(router)
  /\ UNCHANGED <<hook, policy, unburned, burnerBalance, done, earned, paid,
                 sweeps, bounds>>

SequesterPipedog ==
  /\ ~paused /\ "sequester" \notin done
  /\ Allocated(router).sequesterTank > 0
  /\ done' = done \cup {"sequester"}
  /\ router' = Sequestered(Allocated(router), caps.sequester)
  /\ UNCHANGED <<hook, policy, unburned, burnerBalance, earned, paid, sweeps, bounds>>

RouteTreasuryPipedog ==
  /\ ~paused /\ "treasury" \notin done
  /\ Allocated(router).treasuryTank > 0
  /\ done' = done \cup {"treasury"}
  /\ router' = Routed(Allocated(router), caps.treasury)
  /\ UNCHANGED <<hook, policy, unburned, burnerBalance, earned, paid, sweeps, bounds>>

\* With an empty lane the call still allocates.
CollectOperations ==
  /\ router' = Collected(Allocated(router))
  /\ router' # router
  /\ UNCHANGED <<hook, policy, unburned, burnerBalance, done, earned, paid,
                 sweeps, bounds>>

Migrate ==
  /\ ~launchEnabled /\ paused
  /\ migrations < MaxMigrations
  /\ router' = Migrated(Allocated(router))
  /\ migrations' = migrations + 1
  /\ UNCHANGED <<hook, policy, unburned, burnerBalance, done, earned, paid,
                 sweeps, gifts, swaps>>

\* The owner's setters on hook and router, all behind the closed launch gate.
SetPolicy ==
  /\ ~launchEnabled
  /\ \/ /\ treasury' \in {"router", "wallet", "hook"}
        /\ UNCHANGED <<caps, paused>>
     \/ /\ caps' \in [sequester : RouterCaps, treasury : RouterCaps]
        /\ UNCHANGED <<treasury, paused>>
     \/ /\ paused' = ~paused
        /\ UNCHANGED <<treasury, caps>>
  /\ UNCHANGED <<hook, launchEnabled, unburned, burnerBalance, router, done,
                 earned, paid, sweeps, bounds>>

\* The factory's gate.  Opening needs the factory's treasury to be the hook's,
\* which the owner can always arrange first: module LaypipeFactory models that part.
SetLaunchEnabled ==
  /\ launchEnabled' = ~launchEnabled
  /\ UNCHANGED <<hook, treasury, caps, paused, unburned, burnerBalance, router,
                 done, earned, paid, sweeps, bounds>>

\* Anyone may send PIPEDOG to any contract.
Gift ==
  /\ gifts.hook + gifts.burner + gifts.router < MaxGifts
  /\ \/ /\ gifts' = [gifts EXCEPT !.hook = @ + 1]
        /\ hook' = [hook EXCEPT !.balance = @ + 1]
        /\ UNCHANGED <<burnerBalance, router>>
     \/ /\ gifts' = [gifts EXCEPT !.burner = @ + 1]
        /\ burnerBalance' = burnerBalance + 1
        /\ UNCHANGED <<hook, router>>
     \/ /\ gifts' = [gifts EXCEPT !.router = @ + 1]
        /\ router' = Received(router, 1)
        /\ UNCHANGED <<hook, burnerBalance>>
  /\ UNCHANGED <<policy, unburned, done, earned, paid, sweeps, swaps, migrations>>

\* deposit: a gift to the router that allocates in the same call.
Deposit ==
  /\ gifts.hook + gifts.burner + gifts.router < MaxGifts
  /\ gifts' = [gifts EXCEPT !.router = @ + 1]
  /\ router' = Allocated(Received(router, 1))
  /\ UNCHANGED <<hook, policy, unburned, burnerBalance, done, earned, paid,
                 sweeps, swaps, migrations>>

\* The next block of the chain: ChainBlockNumber.current moves on.
NewBlock ==
  /\ done # {}
  /\ done' = {}
  /\ UNCHANGED <<hook, policy, unburned, burnerBalance, router, earned, paid,
                 sweeps, bounds>>

Keepers ==
  \/ \E p \in Pools : Sweep(p)
  \/ \E p \in CreatorPools : Claim(p)
  \/ \E p \in SelfBurnPools : Burn(p)
  \/ CollectPlatform
  \/ Allocate \/ SequesterPipedog \/ RouteTreasuryPipedog \/ CollectOperations

Next ==
  \/ \E p \in Pools, fee \in SwapFees : Swap(p, fee)
  \/ Keepers
  \/ Migrate \/ SetPolicy \/ SetLaunchEnabled
  \/ Gift \/ Deposit
  \/ NewBlock

\* Every call below is permissionless and pays its caller or is worth making to
\* whoever waits for the money; blocks keep coming.
Fairness ==
  /\ \A p \in Pools : WF_vars(Sweep(p))
  /\ \A p \in CreatorPools : WF_vars(Claim(p))
  /\ \A p \in SelfBurnPools : WF_vars(Burn(p))
  /\ WF_vars(CollectPlatform)
  /\ WF_vars(SequesterPipedog) /\ WF_vars(RouteTreasuryPipedog)
  /\ WF_vars(CollectOperations)
  /\ WF_vars(NewBlock)

Spec == Init /\ [][Next]_vars
FairSpec == Spec /\ Fairness

-----------------------------------------------------------------------------
(* Properties.                                                                *)

TypeOK ==
  /\ hook \in Hooks /\ treasury \in {"router", "wallet", "hook"}
  /\ unburned \in [SelfBurnPools -> Nat] /\ burnerBalance \in Nat
  /\ router \in Routers
  /\ caps \in [sequester : RouterCaps, treasury : RouterCaps]
  /\ paused \in BOOLEAN /\ launchEnabled \in BOOLEAN
  /\ done \subseteq SelfBurnPools \cup {"sequester", "treasury"}
  /\ {earned, paid, sweeps} \subseteq [Pools -> Nat]
  /\ gifts \in [hook : Nat, burner : Nat, router : Nat] /\ swaps \in Nat /\ migrations \in Nat

\* The hook can pay all it owes: its claims are exactly the unswept fees, its
\* PIPEDOG exactly the creators' tabs and the parked platform money, whatever
\* transfer failed in a sweep, plus what strangers sent it.
HookBacked ==
  /\ hook.claims = Together(hook.pending)
  /\ hook.balance = Together(hook.tab) + hook.platformTab + gifts.hook

\* One pool's burns never spend another pool's fuel: the self-burner holds
\* exactly the unburned fuel of all of its pools, plus gifts.
BurnerBacked == burnerBalance = Together(unburned) + gifts.burner

\* The router's lanes are covered by its balance and nothing it ever allocated
\* is lost or counted twice, migrations included.
RouterBooks == RouterInv(router)

\* A creator's tab and payouts are the agreed share of the fees swept so far, to
\* the rounding of each sweep and never above it: failing platform transfers,
\* treasury changes and the self-burner's own claims do not touch it.
CreatorKeepsShare ==
  \A p \in Pools :
    LET swept == earned[p] - hook.pending[p]
        credited == hook.tab[p] + paid[p]
    IN /\ BPS * credited <= CreatorBps * swept
       /\ BPS * (credited + sweeps[p]) >= CreatorBps * swept

\* If the router stays unpaused and the treasury payable, all fees come to rest:
\* nothing stays pending, unburned, parked or in a lane.
Drained ==
  /\ hook.pending = Zero(Pools) /\ hook.tab = Zero(Pools)
  /\ hook.platformTab = 0
  /\ unburned = Zero(SelfBurnPools)
  /\ router.balance = 0

FeesReachTheirEnds == <>[](~paused /\ Deliverable) => <>[]Drained
=============================================================================
