# LayPipe in TLA+

Specifications of LayPipe, checked with TLC and partly proved with TLAPS: a single
hybrid coin whose whole units earn PIPEDOG rewards; a launchpad whose pools pay
PIPEDOG fees to creators, burners and the platform; a server that copies the chain
into Postgres for readers, reconciles it with the contracts and promotes artwork to
IPFS; and a browser client that asks wallets for signatures and shows what the
server answers. Every definition is translated from the source that `PROJECT.json`
(`map`) names for it; comments in the modules name the function where the name
differs.

Contents: [system](#the-system) · [modules](#the-modules) ·
[runs](#the-runs) · [bounds](#bounds-and-why-they-are-enough) ·
[fairness](#fairness) · [proofs](#the-proofs) ·
[divergences](#where-the-documents-and-the-code-disagree) ·
[not modelled](#what-is-not-modelled) · [plan](#plan).

## The system

Three programs that meet only on the chain:

1. **The single coin.** `LayPipeHybridToken` (a DN404: every 100,000 LAYPIPE held
   shows as one PipeDog NFT), its reward vault `PipeDogRewards`, a Uniswap v4 hook
   `PipeDogFeeHook` that takes a PIPEDOG fee of every trade, a one-shot launcher and
   a swap router.
2. **The launchpad.** `LaypipeFactory` launches tokens into pools of `PipedogHook`;
   fees flow from the hook to creators, to `LaypipeSelfBurner` (which buys the
   token back and burns it) and to `PipedogRevenueRouter` (which splits the
   platform's share in three).
3. **The web application.** A canonical indexer fed by cron and webhook wake-ups,
   tables derived from its rows by SQL triggers, a reconciliation of those rows with
   the contracts, read APIs over Postgres, a service that promotes launch artwork to
   IPFS, and browser code that keeps a wallet from sending the same mutation twice.

### Inventory

| component | state | operations | what is hard | what makes it correct |
|---|---|---|---|---|
| `PipeDogRewards` | per account units, checkpoint, accrued; accumulator, unit total, undistributed, notified and claimed totals | sync, notifyRewardClaim, claim, setRewardNotifier | every operation settles lazily; two nested roundings; rewards with nobody eligible | solvent, unit total exact, no retroactive pay, only dust lost |
| `LayPipeHybridToken` (+ DN404) | balances, NFTs, skip flags, exclusions | transfer, NFT transfer, exclusions, owner release, setSkipNFT | four syncs per transfer, several transfers per trade | units = NFTs = whole balances, none for excluded custody |
| launcher, `PipeDogFeeHook`, router | one-time bindings | wire, launch, buy, sell | order of wiring; fee against delivery in one transaction | supply in custody, a buy does not earn from its own fee |
| `PipedogHook` | per pool pending and tab, platform tab, treasury | swap callbacks, sweep, claim, collectPlatform, updateCreator | one balance for all pools, failing platform payouts, rounding | backed, creator keeps the share |
| `LaypipeSelfBurner` | unburned per pool, last burn block | register, burn | its own buys pay new fees; bounded chunks; once a block | backed, drains |
| `PipedogRevenueRouter` | three lanes, caps, pause | deposit, allocate, sequester, route, collect, migrate, setters | unallocated is a difference of balances | lanes within balance, every unit leaves once |
| `LaypipeFactory` | hook, burner, treasury, implementation, fee, configurations, gate | setters, launch | bindings duplicated over contracts; approval to launch window | bindings agree, price as approved |
| canonical indexer | lease (Redis), cursor, blocks, events (Postgres) | lease, pin head, repair reorg, fetch, ingest, observe, release | awaited reads over a moving chain, overlapping invocations, crashes | linked chain, canonical logs, catches up |
| SQL projections | balance states, market totals, leaders, keeper totals | insert and delete triggers, leader refresh | rollback must undo what inserts derived; a CHECK is evaluated before an upsert finds its row | projection = function of stored events |
| reconciliation, webhook, RPC pool | none of their own | wake, audit | wake-ups lost or repeated; sums compared across every order of calls | a wake-up is only a hint; an unequal pair means an outside transfer |
| IPFS promotion | Redis state, stage binding, lease; registry row; pins | stage, pin, cleanup | crash between upload and save, lease expiry, retry | one completed promotion per stage, no lost progress |
| authorization | nonces, rate windows (Redis) | challenge, verify, consume | lost answers, retries | one promotion per nonce, retries of it pass |
| wallet mutation safety | five recovery stores, Web Locks (browser) | save intent, prompt, save hash, reconcile, clear, reset | tabs, closed tabs, late wallets, lists read and written back | never two outstanding mutations of a wallet, each on record |
| trade, launch, claim, handoff and keeper clients | what was read last | preflight, approve, send, confirm | the chain moves between check and prompt | what was checked holds when the transaction is mined |
| market board, portfolio, read APIs | loaded pages, cursors (browser); shared cache | poll, load more, revalidate, switch account | cached, late and superseded answers over a moving list | no hole, no foreign row, settles |
| `LaypipeToken` | balance and supply checkpoints | transfer, burn, initializePool | several moves in a block | past balance = end-of-block balance |
| `LaypipeSwapRouter` | none | buy, sell | exact-balance checks around callbacks | retains nothing |
| `LaypipeDividendDistributor` | rounds, pots, reserves | startRound, enroll, finalize, payout | carried pots, skipped payments | pots within balance |
| other pages, scripts, vendored sources | none | deployment, presentation | | |

### How the parts interact

A transfer of LAYPIPE calls the vault's `sync` for sender and recipient before and
after it moves balances. A trade takes PIPEDOG as PoolManager claims: the single
coin's hook mints them to the vault and notifies it at once; the launchpad's hook
keeps them as `pending` until someone sweeps. A sweep redeems the claims, books the
creator's part and pays the platform's, and parks it when the payment fails.
`claim` sweeps first; `burn` claims first and swaps on the same pool, which accrues
again. The factory's launch gate is read by the hook and the router: their setters
wait for it to close. The indexer sees all of this only as blocks and logs; Postgres
makes each of its writes atomic, and nothing else orders two invocations. Readers
see the indexed chain page by page, some pages through a shared cache. Tabs of one
browser meet in `localStorage` and in Web Locks, and with the chain only through the
wallet, which may answer late, never, or to a tab that is gone.

## The modules

Transactions of the chain are atomic, so one external call (with every call it
makes) is one action. The server is not: there every awaited read or write is an
action of its own.

| module | models | state ↔ code | actions ↔ code |
|---|---|---|---|
| `RewardAccounting` | the storage of `PipeDogRewards.sol` as one record, and its functions as operators; no variables | `Vaults` has the contract's fields under their names | `SyncVault` (= `Settle`, then `Distribute`), `NotifyVault`, `ClaimVault` |
| `PipeDogRewards` | the vault alone, under a token that syncs anybody to anything | `vault`, `notifierSet`, and the PoolManager's `claimBalance` | one action per external function; `CreditClaims` is the PoolManager |
| `HybridLedger` | the storage of `LayPipeHybridToken.sol` joined to the vault's; DN404 by its NFT counts | `balances`, `nfts`, `skipNFT`, `excluded`, `vault` | `Transferred`, `NFTTransferred`, `Excluded`, `OwnerReleased`, and the guards `TransferAllowed`, `DeltaAllowed` |
| `LayPipeSingleton` | token, vault, fee hook, launcher and router composed: the ledger operators chained in the order of the code | `ledger`, `claimBalance`, `wiring` (the one-time setters), `allowance` | wiring, `Launch`, release, `Transfer`, `TransferNFT`, `Buy`, `Sell`, `Claim` |
| `RevenueLanes` | the books of `PipedogRevenueRouter.sol`; no variables | `Routers`: balance, lanes and exits | `Allocated`, `Sequestered`, `Routed`, `Collected`, `Migrated` |
| `LaunchpadRevenue` | `PipedogHook`, `LaypipeSelfBurner` and the revenue router composed, with the owner's policy | `hook` (pending, tab, platformTab, claims, balance), `unburned`, `router`, policy | `Swap`, `Sweep`, `Claim`, `CollectPlatform`, `Burn`, the router's calls, `SetPolicy`, `Gift` |
| `LaypipeFactory` | factory, hook treasuries and burner bindings; users who approve and launch | the factory's infrastructure, fee, configurations and gate; `pools`, `registered`, `allowance` | every setter, `Approve` (the wallet), `Launch`, `UpdateCreator` |
| `Reconciliation` | `LaunchpadRevenue` with the events its calls emit, the rows they decode to, and the sums and comparisons of `reconciliation.ts` | `ledger`, one sum per row of the report | the actions of `LaunchpadRevenue`, each with its events |
| `IndexedChain` | what readers are promised: a linked run of complete pages that grows at its end or loses a suffix | `index` | `Extend`, `Truncate` |
| `MarketTables` | the tables the SQL triggers derive, as one function from keys to numbers, and the ranking of leaders; no variables | `Balance`, `Trades`, `AccruedTotal`, … are keys | `Inserted`, `Removed`, the CHECKs `InsertAccepted` and `RemovalAccepted`, `Leaders` |
| `CanonicalIndexer` | `runCanonicalIndexer` and the SQL functions it calls, on a chain that forks | `branch`, `head`; `blocks`, `events`, `tables`, `leaders`, `cursor` (Postgres), `lease` (Redis), `worker` (locals of each invocation, `pc` its place in the code) | one per awaited step, plus `Abort`, `Crash`, `LeaseExpires`, `Grow`, `Reorg` |
| `ArtworkPublication` | what the pin route promises about one staged upload | `published`, `rows`, `answered` | `Decide`, `Record`, `Answer` |
| `ArtworkPromotion` | `handlePinRequest`, the consumption of its nonce, the Redis records and scripts of `promotion.ts`, the registry insert and the stale-stage sweep | `files` (Pinata), `nonce`, `binding`, `state`, `lease` (Redis), `registry` (Postgres), per request `pc` and the handler's variables, `late` (calls in flight whose request gave up) | one per awaited step, plus `GiveUp`, `LateArrival`, `LeaseExpires`, `Catch`, `Sweep` |
| `RecoveryStores` | the five `pending-*.ts` stores: what each accepts to read, save, add a hash to, resolve, clear and reset; no variables | a store is a set of records | `MaySave…`, `Saved`, `MayHash…`, `WithHash`, `MayResolve`, `MayClear`, `Reset` |
| `WalletMutations` | what all wallet surfaces share: the locks of `mutation-lock.ts`, the guard over five stores, the order intent, prompt, hash, receipt, and the wallet and the chain | `store`, `walletLock`, `storeLock`, `handoffLock`, `page` (the operation of each tab), `tx`, `allowance`, `creator`, `owed`; `erased` (history) | `WithSubmissionLock`, `Submitting`, `ReadStore`, `SaveIntent`, `SaveHash`, `RemoveRecord`, `CutShort`, … |
| `LaunchFlow`, `TradeFlow`, `CreatorFlows` | the launch form, the trade panel, and the claim, handoff and keeper surfaces with their clients: how each starts, what it checks under the lock, what confirms and what recovers it | (of `WalletMutations`) | `SubmitLaunch`, `SendLaunch`, `ConfirmLaunch`, `MineLaunch`, and so for each |
| `WalletTabs` | the composition: several tabs and wallets over all surfaces | | `PageStep`, `Start`, `Recovery`, `Mines` |
| `MarketFeed` | `MarketDataProvider` and `WalletPortfolio` over the keyset pages of `read-model.ts` and a shared cache | `stored`, `holders`, `cached`, `up`; `board`, `ask`, `portfolio`, `loads` | `Index`, `Transfer`, `Refresh`, `LoadMore`, their answers, `Ask`, `SwitchAccount`, `Hide`, `CacheExpires`, … |

`RewardAccounting` is used twice, alone and inside `HybridLedger`; what is proved
of its operators therefore holds in both. `CanonicalIndexer` implements
`IndexedChain` by the refinement mapping `Index`: the abstract page sequence is the
stored blocks by height, each with its logs. `MarketFeed` reads a chain that moves by
the same two steps (`Chain!Extend`, `Chain!Truncate`), so the two modules meet in what
`IndexedChain` promises. `Reconciliation` extends `LaunchpadRevenue`: its audit runs
beside every call of the contracts, and its precondition, that the rows of a pinned
block are canonical, is `GateMeansCanonical` of the indexer.

`ArtworkPromotion` implements `ArtworkPublication`: the publication is the completed
Redis state, the rows are those of the registry.

Abstractions worth knowing:

* **Prices.** What a swap puts out, and how much of its input it spends, is any
  amount (`Buy`, `Sell`); fees are any amount up to a bound. In `LaunchpadRevenue` the
  fee on the self-burner's own buy is the fee rate of what it spends: partial fills
  are rejected by the hook, and a swap that returns nothing (a buy of one wei may)
  is taken not to happen, for it reverts and leaves the chunk for the next call.
* **DN404** is vendored: the model keeps how many PipeDogs an account owns, not
  which.
* **The treasury** is `"router"`, `"wallet"` or `"hook"`: `setTreasury` of the hook
  only rejects zero, and a hook that pays itself is how `pushPlatformExact` fails.
* **Approvals.** `approved` is what the wallet read before granting its allowance; a
  launch uses the configuration and first buy approved.
* **The chain** of the indexer is a trunk and branches, each sharing the blocks
  below its fork height with the branch before. An abandoned branch never becomes
  canonical again: only the tip of a window is read twice (`ingestion.ts:871`), so a
  chain that left a branch and came back between two reads could hide logs. A reorg
  deeper than the lookback makes every run throw, as `PRODUCTION.md:493` says.
* **Projections.** A derived row is a key with a number; rows at zero are deleted. The
  logs of a block are fixed by the instance: a launch, a buy, a sale at another price,
  the fees they accrue, a sweep and a routing. The 24 hour window of the leaders is
  `Day` blocks.
* **Reconciliation.** The report compares sums of events with views read by block
  number; that the number still names the hash checked before is taken for granted
  within one report.
* **Artwork.** A pin is named by the request that uploaded it, for Pinata gives every
  upload a new file id. The signed digest stands for the body it covers; signature and
  rate limits only refuse and are left out. A call that throws may still arrive later, with the payload it
  was sent with. Redis keeps its records for 90 days, longer than any behaviour of the
  model; without Redis (development) nothing is shared and nothing is claimed.
* **Wallets.** `CutShort` stands for whatever ends an operation early: a closed tab, a
  lost answer, a confirmation that times out, a surface that drops its operation
  because another tab wrote a store or the wallet changed. The user clears or resets
  a record after having looked at the wallet's history, as the dialogs ask; that
  nobody does so blindly is an assumption on the user. A transaction is mined within
  the thirty days of a record; transactions that are dropped or replaced are not
  modelled. An allowance is 0, the 1 that every use needs, or a stale 2. Whether a
  keeper job is still open is up to others, so a keeper's check may always fail.
* **Readers.** The visitor stays on the page of the initial state. Aborting a request
  when the tab is hidden is atomic; the single frame in which a switched wallet may
  still paint the old rows is folded into the switch. A 503 and a lost network are both
  `~up`. The shared cache is one older snapshot for all addresses. A wallet's balance of
  a token and its creator rights count alike: both make it a position, and `Transfer` gives a
  token any new set of holders. The fixture mode of
  the interface is not modelled.

## The runs

Each run is `tlc -config <cfg> <module>`; the state counts are those of the
complete search.

| run | cfg | states | shows |
|---|---|---|---|
| `vault` | `MCPipeDogRewards.cfg` | 31 thousand | In every order of syncs, credits, notifications and claims: the vault owes no more than it holds (`Solvent`), the unit total is exact and nothing waits while somebody could earn it (`BooksBalance`), only a claim lowers and only the accumulator raises what is claimable (`EarningsKept`), and a step strands less than one wei per account settled and one atom per unit (`OnlyDustIsLost`). |
| `singleton` | `MCLayPipeSingleton.cfg` | 36 thousand | Units = PipeDogs = whole balances for accounts not excluded and none for the others (`UnitsMatchBalances`), the vault's claims are exactly fees less claims (`VaultBacked`), supply in custody (`CustodyHolds`), no pay for units a trade brings (`NewUnitsEarnNothing`). |
| `revenue` | `MCReconciliation.cfg` | 194 thousand | Hook and self-burner hold exactly what their books promise all pools together (`HookBacked`, `BurnerBacked`), the router's lanes fit its balance and each unit leaves once (`RouterBooks`), creators get their share to one unit per sweep (`CreatorKeepsShare`), with failing platform payments, policy changes, gifts and a migration. The reconciliation reports a difference exactly when money came from outside, revenue is unallocated or a migration happened (`ReportsOnlyTheOutside`). Every fee comes to rest, the fees of the burns included, once the router stays unpaused and the treasury payable (`FeesReachTheirEnds`). |
| `factory` | `MCLaypipeFactory.cfg` | 692 thousand | Bindings agree whenever the gate is open (`OpenMeansReady`), a launched self-burn pool is served for good (`SelfBurnPoolsServed`), a launch costs what was approved (`PriceAsApproved`). |
| `indexer-lease` | `MCCanonicalIndexerLease.cfg` | 20 thousand | With an exclusive lease, aborts, crashes and reorgs: a block that passes the reconciliation's gate has the canonical events below it (`GateMeansCanonical`), a rollback deletes only forks (`RollbackSparesCanonical`), a recorded "caught-up" is true (`CaughtUpTruthful`), every step is one of `IndexedChain` (`ImplementsIndexedChain`), and the read model ends at the safe head (`CatchesUp`). |
| `indexer-overlap` | `MCCanonicalIndexer.cfg` | 496 thousand | Two invocations whose lease does not exclude each other, two reorgs: the stored blocks are one linked run that agrees with the cursor (`StoredChain`), the derived tables are exactly the totals of the stored events (`ProjectionsExact`), and the leaders are the ranking at a block that is stored (`LeadersHold`). |
| `indexer-watch` | `MCCanonicalIndexerWatch.cfg` | violation | see below |
| `indexer-sweep` | `MCCanonicalIndexerSweep.cfg` | violation | see below |
| `artwork_promotion` | `MCArtworkPromotion.cfg` | 377 thousand | Overlapping requests for one stage, given up, late, stalled and swept: at most one publication is decided, recorded and answered (`PublishesOnce`), saved pins stay (`ProgressOnlyGrows`), pins that are named are in storage (`NamedPinsAreKept`), one request uploads at a time unless a process stalls (`OneUploader`), and saved progress can be finished without the stage and with a nonce that an earlier attempt consumed (`SavedProgressIsFinished`). |
| `wallet` | `MCWalletTabs.cfg` | 1.08 million | Two tabs, two wallets, all five surfaces, until a reset takes another wallet's record: a request before the user or on its way to a block is on record (`UnresolvedIsRecorded`), a wallet has one at most (`OneOutstanding`), and what a client proved before asking still holds when the transaction is mined (`CheckedFactsHold`). |
| `wallet-recovery` | `MCWalletTabsRecovery.cfg` | 57 thousand | A wallet that launches is not locked out for good unless the launch store is over its bound (`RecoveryEnds`). |
| `market-feed` | `MCMarketFeed.cfg` | 465 thousand | The board has no hole (`BoardHasNoHole`) and settles on the newest launches (`BoardSettles`); the portfolio, whose positions come and go meanwhile, shows none twice and skips none that was held all the time (`NoPositionSkipped`). |

The two questions about the indexer differ in `LeaseOutlivesRun`. What Postgres checks
by itself (`StoredChain`, `ProjectionsExact`, `LeadersHold`) holds without any lease. The
rest takes the lease: without it a slow invocation may roll back blocks that another has
just ingested (the next run ingests them again), may vouch for a cursor it no longer
describes (readers also compare the lag), and may lose the logs of a token for good
(`indexer-watch`). The lease lasts 60 seconds (`lease.ts:6`) and the platform ends an invocation 60 seconds
after its start (`sync/route.ts:12`, `webhook/route.ts:16`); an invocation takes the lease
after it started, so `LeaseOutlivesRun` is what the deployment gives as long as both clocks
are kept.

`SavedProgressIsFinished` speaks of a request sent after the save. One that read a
promotion as pending just before another request completed it, and asks for the stage
just after that request removed it, is refused with `STAGE_NOT_FOUND`
(`pin/route.ts:264`); repeating it succeeds. Uploads whose answer is lost leave files
that no state names; `PRODUCTION.md:417-420` says how an operator finds them.

`BoardHasNoHole` speaks of a chain that only grew, by no more than a page between two
answers; `BoardSettles` of boards with older pages loaded. A board of a single page is
never revalidated (`shouldRevalidateLoadedMarketPages`): a launch lost to a reorg, or a
gap after a burst, stays on it until the page is loaded again.

What a wallet holds is computed anew for every page (`WALLET_POSITIONS_SQL`): a purchase, a
sale or a handoff indexed between two loads inserts or removes a row, also inside the pages
already loaded. `NoPositionSkipped` is therefore no claim that the portfolio is up to date. A
position bought above the cursor is missing, and one that was sold is still shown, until the
visitor reloads. What the keyset does promise is that nothing comes twice, that every row was a
position at some time since the first page (`ever`), and that what was one all the time
(`steady`) is shown or still to come. Even that ends at the next reorg, for keyset pages of two
chains need not fit.

The three properties of the `wallet` run speak of the time before `erased`: before a reset of
the handoff store has taken a record of another wallet. `resetPendingCreatorUpdateStore`
(`pending-creator-updates.ts:378`) removes the whole key when one record cannot be read, a record
past its thirty days for instance. The other wallet's handoff may still be on its way, with a
known hash; `PRODUCTION.md:216-217` says that such a record cannot be cleared by hand. That
wallet finds nothing pending and may ask again. The run reaches such resets: both wallets hand
off, and with `~erased` as an invariant TLC shows one. Without the condition
`UnresolvedIsRecorded` is violated in the same run. `OneOutstanding` and `CheckedFactsHold` fall
with it at the third sending, the one that is asked for again: TLC found both violated without the
condition where both wallets only hand off and `MaxSends` is 3.

`RecoveryEnds` has its exception for a reason: `savePendingLaunch` does not look at the
bound that reading enforces, and one record too many blocks every mutation of every
wallet (`pending-launches.ts:298`).

Every property has a mutant in `PROJECT.json`: a plausible slip in one mapped
definition (a missing sync, a checkpoint taken late, a cursor rolled back by one too
few, a dropped guard) under which TLC finds the property violated.

### Bounds, and why they are enough

| constant | bound | why |
|---|---|---|
| vault: holders, units, PIPEDOG | 2, 0–3 (a sync to 4 is refused), 4 | two holders are enough for one to gain at the other's expense; a precision of 4 makes both divisions inexact |
| singleton: traders, supply, unit, cap | 2 and the owner, 5, 2, 1 | two whole units and a remainder: a unit can pass, be split and be completed; a cap of 1 refuses transfers |
| singleton: fees | 2 | one fee with nobody eligible and one after |
| revenue: pools, trades, gifts, migrations | one of each kind, 1, 1, 1 | both kinds share the hook's balance. Of a fee of 8 the burner gets 4, which it spends in calls of at most 3 whose buys pay fees again, odd ones too; so one trade makes many sweeps |
| revenue: shares, cap | BPS = 2, every share, fee and bounty 1 of 2, caps of 2 | every division is inexact for odd amounts, bounties are not zero, and lanes need several calls |
| factory | 2 hooks, 2 burners, 2 treasuries, 2 implementations, 1 user, 2 launches | a rotation and the return from it; launches on both sides of a rotation. Users do not share state, so one suffices |
| indexer | height 4, finality 1, batch 2, two forks | a window across a fork, a fork inside the lookback, a second fork that drops a stored block |
| indexer: logs | two tokens, `Day` = 1 | one launch on two branches at different heights and one that only the trunk has; a leader inside the window and one measured against a trade before it |
| indexer-overlap | 2 workers, 1 batch each, no faults | the questions are about interleavings; a dead worker is one that takes no more steps |
| indexer-lease | 2 workers, 2 batches, 2 faults | one fault and another during the recovery from it. A fee is swept in the block it accrues in, for a later sweep stops the indexer (see below) |
| indexer-watch | 2 workers, 1 batch each, transfers without fees | a fee of an unknown pool would stop the batch that misses a launch; the transfer of a token does not |
| artwork_promotion | 3 requests, 2 digests, 1 stall | two requests of one promotion and one of another for the same stage; either of the two may give up and the other resume. Each request uploads each part at most once, so nothing else needs a bound |
| wallet | 2 tabs, 2 wallets, 2 sendings, 1 cut, `MaxRecords` = 2 | two operations of one wallet or of two, on any two surfaces; w1 uses all surfaces, w2 shares the launch and the handoff store. One wallet starts with an exact and a missing allowance, the other with stale ones. No store is over its bound here: that is the question of the next run, with `MaxRecords` = 1 |
| wallet-recovery | both wallets launch | the store that can overflow, reached by two sendings. With all surfaces and one wallet the property was also checked once (127 thousand states) |
| market-feed | pages of 1, 3 blocks, 3 tokens, 2 changes of holders, 1 reorg, 3 portfolio requests | a board of three pages, a token that returns in another block, a position that comes and goes between two pages, and two requests that overtake each other. Pages of 2 over 4 blocks were also checked once (646 thousand states) |

Bounds that are not in the code (`MaxMinted`, `MaxFees`, `MaxSwaps`, `MaxGifts`,
`MaxMigrations`, `MaxLaunches`, `MaxHeight`, `MaxFaults`, `MaxStalls`, `MaxSends`,
`FlowsOf`, `Expiring`, `MaxBlocks`, `MaxTokens`, `MaxTransfers`, `MaxRollbacks`, `MaxLoads`) are
constants named in the modules. Symmetry is declared only for sets whose members nothing tells apart
(holders, workers, treasuries, implementations), and only in runs without liveness.

### Fairness

* `revenue`: weak fairness of the calls anyone may make and is paid for (or
  waits for the money of): sweep, claim, burn, collectPlatform, sequester, route,
  collectOperations, and of the next block, which re-enables the once-per-block
  calls. Trades, gifts, the owner and a plain `allocate` have none.
* `indexer-lease`: weak fairness of each started invocation's next step, of some
  invocation starting (cron), of the expiry of an abandoned lease (its TTL) and of
  the chain's growth. No call must fail and no reorg must happen; both are bounded
  by the instance, so the property speaks of what follows the last of them.
* `artwork_promotion`: weak fairness of the requests' steps: an await returns or
  throws, for every call has a timeout. A request takes finitely many steps, so
  fairness of all of them together is fairness of each. Nothing is assumed of late
  calls, of the sweep or of the expiry of a lease.
* `wallet-recovery`: weak fairness of a tab that has begun (awaits return or throw), of
  each sending (the user answers a prompt, a sent transaction is mined), and strong
  fairness of some tab recovering a wallet's record: a user who wants to go on comes
  back until a lock is free. Nothing is assumed of new operations.
* `market-feed`: weak fairness of the poll (a timer), of an answer or a failure of the
  request in flight, of the revalidation delay and of the cache's expiry. A failing
  server, a hidden tab and the growth of the chain are free.

## The proofs

Checked with `tlapm`; they hold for every value of the constants that satisfies the
named assumptions of the modules, and use no other assumption. One hypothesis stands in
two theorems themselves, `HandoffsApart` of the wallets (below).

**`RewardAccounting_proofs`, `PipeDogRewards_proofs`.** `TypeCorrect`, `Solvency`,
`BooksCorrect`, `NoRetroactiveEarnings`, `RoundingIsBounded` for any finite set of
accounts and any precision. `Solvent` is not inductive: a sync changes what one account may claim by
a floor division, so the invariant must count what accounts have *earned*, before it
is rounded. `VaultInv` counts it in *atoms*, the `ACC_PRECISION`-ths of a wei: an
account owes one atom per unit and accumulator tick since its checkpoint, and
`ACC_PRECISION` per accrued wei; `Dust`, what was distributed less all atoms owed,
never goes below zero. Sums over accounts are written as cardinalities of unions of
disjoint sets (`Slots`, `Owed`): such a sum needs no recursion, and that one
account's part is replaced by another (`SplitUnion`, `OwedReplaced`) follows from
the library's theorems on finite sets without induction. The steps are then:
settling keeps `Balanced` (`SettleBalanced`), a distribution spends at most what was
undistributed (`DistributeInv`), a claim removes exactly its atoms (`ClaimInv`). Each of
these lemmas also bounds the dust its operation adds, and `RoundingIsBounded` adds them up
over a transaction.

**`LaunchpadRevenue_proofs`.** `TypeCorrect`, `HookIsBacked`, `BurnerIsBacked`,
`CreatorsKeepShare`, `RouterSolvent` for any set of pools, any shares that fit in `BPS`, any
caps and any revenue. The invariant has a part per balance: `HookPart` (claims and currency
are pending fees, tabs and the parked platform money), `BurnerPart`, `RouterPart`,
`SharePart` (a creator's shortfall is less than one unit per sweep) and `PolicyPart`. What all
pools hold together is, as in the vault, a cardinality (`Totals`): the facts about it are those of
`RewardAccounting_proofs` and need no induction. The router has one lemma per exit (`AllocatedInv`,
`SequesteredInv`, `RoutedInv`, `CollectedInv`, `MigratedInv`) over `FloorShare` and
`SharesFit` (two rounded shares together do not exceed the whole).
`ReportsAreExact` is about module `Reconciliation`, over the same calls: `LedgerInv` says that
the sums over the rows of a pool are its pending fees, its tab and its fuel (`PoolAgrees`), those
of the platform what is parked in the hook (`PlatformAgrees`), and those of the router its
totals and, until a migration, its lanes (`RouterAgrees`). A call emits at most one row per sum
(`Written`), so what `Emit` folds is one amount or nothing (`Emitted`); each call has its lemma,
and those that sweep, or allocate first, share one (`SweepBooked`, `AllocatedCall`). The balances
are compared with sums over pools, which are the cardinalities of the first part
(`SumIsTogether`), so that backing gives the reports.

**`LayPipeSingleton_proofs`.** `TypeCorrect`, `UnitsFollowBalances`, `VaultIsBacked`,
`CustodyIsKept`, `NoPayForNewUnits` for any accounts, supply, unit size and precision. A trade is a chain of
transfers and syncs, and each of them is a lemma on ledgers: between transfers `LedgerInv`
holds (units follow balances, the vault's invariant of `RewardAccounting_proofs`, the total of
all balances), and `Kept` says what a call inside a transaction leaves as it was. `Order` and
`BeforeLaunch` say what the one-time wiring makes impossible. That owner, pool manager,
launcher, router and hook are different addresses is an assumption of the module
(`SystemAssumption`). `NoPayForNewUnits` follows a payment through a whole trade. A sync is
`Quiet` when no fees wait or nobody could earn them, so at most one step of a trade
distributes, and `Pays` says for whose units. In a sale that leaves nobody eligible it is the
refund that spreads what waits; `FewerUnits` bounds the units it pays by those held before,
because the system's own addresses stay excluded throughout (`SystemHeld`).

**`LaypipeFactory_proofs`.** `TypeCorrect`, `InfrastructureAgrees`,
`EverySelfBurnPoolServed`, `ManifestHeldByOpenGate`, `LaunchesAtApprovedPrice` for any
contracts, users and number of launches. The properties need each other: a launch
serves its pool because the burner follows the hook, and the price is as approved
because a grant is exactly the fee and first buy of the manifest read
(`GrantsExact`), while the gate that a held approval needs is still open
(`HeldByOpenGate`).

**`CanonicalIndexer_proofs`.** For any number of invocations, any batch size, lookback and
chain of forks. `IInv` needs no lease: the stored blocks are one parent-linked run up to the
cursor, and each invocation's window is a run of blocks, one per height, whose logs are those
of these blocks. It gives `BlocksStayLinked` and `LeadersStayTrue`. `AloneInv` adds, when the
lease outlives the run, that nobody but its holder is awake, so what the holder read of the
database still stands; it gives `CaughtUpIsTrue`. `RollbacksUndoForks` needs what a probe
knows of the chain: a block is `Lost` when the current branch has another block at its
height, lost blocks stay lost (`LostForGood`), and a block that was read and is not
canonical is lost (`NotCanonicalIsLost`). `RepairInv` says that every stored block above the
candidate of a repair is lost, whatever the chain does while it probes. Least numbers
(`LeastNatural`) come from the library's well-foundedness of the naturals.
`GateShowsTheChain` needs more of both sides. Of the database, that every stored block has
all its logs (`Full`). Of a window, what it has read so far (`Reads`): the launches and fees
of its blocks, then the moves of the tokens watched, and at the commit a branch that was
current when the tip was checked. Blocks along which every parent is present and which hold
one block of a branch hold the branch below it (`ParentOn`, `Ancestors`), so a batch that is
linked to the store is the chain it was read from. It rests on `LaunchAssumption`: on every
branch a token launches no later than it first moves, so a token that is not watched has no
move below. `IndexIsServed` is the refinement of `IndexedChain`: the stored blocks, by height,
are the pages served (`ByHeight`, `Served`); a commit appends pages and a rollback cuts them
(`GrownPages`, `ShrunkPages`), and every other step leaves them.
`ProjectionsStayExact` and `TypeCorrect` are about the derived rows, whose changes are sums of
signed integers over sets of logs. Such a sum is the difference of two cardinalities (`Net`),
the units gained and the units lost, so it splits over disjoint sets (`NetUnion`) by the facts
on finite sets; only that the fold of the model computes it (`TallyIsNet`) takes an argument of
its own, by the smallest set on which the two would differ. The logs of a batch lie in blocks
that are not stored yet, so their totals add to those of the stored logs (`IngestTables`), and a
rollback subtracts those of exactly the logs it deletes (`RollbackTables`). They rest on
`LogAssumption`: a block has finitely many logs, and amounts are natural numbers.

**`ArtworkPromotion_proofs`.** `TypeCorrect`, `PinsStayKept`, `UploadsExclude`,
`NothingIsUndone` and `PromotionPublishes`, the refinement of `ArtworkPublication`, for any
requests and digests, any number of stalls and any order of late calls. The invariant says
what a request and a late call carry: a state they may still write names only files that are
kept, and the holder of the lease never carries less than what is saved. A step of the
service is one of a few effects (`Effects`), and each effect has its lemma.

**`WalletTabs_proofs`.** `TypeCorrect`, `AlwaysRecorded`, `NeverTwoOpen`,
`FactsHoldUntilMined`, `OpenRequestsAreFollowed` (a request that is open is answered or
mined, never dropped) and `NeverErased`, for any number of tabs, wallets, records and requests, with tabs that
close at every await. None of the three run properties is inductive, and they need each other.
`IInv` says of every tab where it stands in the code. A tab that may still ask, clear or reset
holds the wallet's lock and found nothing of the wallet open when it took it (`PageQuiet`,
`PageLocks`), so the next request is the only one; a list that was read and is not yet written
back still names every open request of its flow (`PageFresh`), since whoever adds one holds the
same store lock, so a write never loses a record; a record that is about to be removed stands
for a request that is over (`PageSends`); and what a check saw is still so when its request is
sent, as every change of an allowance or of a creator is itself such a request. The store steps
(`Saves`, `Hashes`, `Removes`, `Resets`) have a lemma each. A reset is the difficulty:
`resetPendingCreatorUpdateStore` removes the records of *every* wallet while it holds the lock
of one. `Inductive` therefore says `~erased => IInv`: of all steps only such a reset can set
`erased` (`ErasedBy`), which is never undone (`ErasedStays`), and every other step keeps `IInv`.
`NeverErased` says when the exception never applies, under `HandoffsApart`: only one wallet of
this browser hands creator rights off, or no handoff record outlives the thirty days that make it
unreadable. Under the second half `HandoffInv` shows that the handoff store stays readable, so
that no reset is ever offered. `TypeCorrect` has the same hypothesis.

The same module proves the market feed, the other part of the browser: `FeedTypeCorrect`,
`BoardStaysWhole`, `PortfolioSkipsNothing` for any page sizes, launches, wallets and changes of
holdings.
A page is an enumeration: the k-th row is the block with k blocks at or above it
(`Descending`), so that what it holds, how long it is and what a prefix of it is follow from
cardinalities (`DescendingRank`, `NewestFirstLimited`, `NewestFirstConcat`) without induction.

* *Board.* `BoardHasNoHole` is not inductive: it says nothing of the cache, of the pages of a
  revalidation under way, or of how far the next answer may lie above what is shown. `BoardInv`
  adds that cache and last poll are at most a page behind (`BoardWell`), that the board holds
  the block the last poll read first unless a revalidation is about to replace it
  (`BoardPolled`), and that the pages of a revalidation hold it too (`AskWell`). `Well` says of
  rows and a cursor that the rows are `Solid`, a set of blocks without a hole reaching down to
  the cursor. A page is an interval of blocks (`TokenPageFacts`); it joins a solid set when it
  reaches down to it and the set reaches up to the page (`SolidJoin`), which is so for a first
  page (`FirstPageMerged`) and for an older one (`OlderPageMerged`). That tokens are merged by
  address and rows told apart by block are the same thing while the chain only grew
  (`GrowthInv`: the model names a token by the block it was first launched in).
* *Portfolio.* `LoadsWell` says that request numbers are issued once and that the current
  request asks for the connected wallet, from the top or from the cursor shown; `PositionsInv`
  that the rows are `Listed`: newest first, each held at some time since the first page, and down
  to the cursor all of those held all the time. A page lists what is held below its cursor
  (`PositionPageListed`). Appended to the rows it makes a longer list (`ListedExtended`), since
  what is steady is held now and what is held now counts among `ever` (`Watching`). A purchase
  or a sale shrinks `steady` and extends `ever`, and leaves the rows a list (`ListedGrows`,
  `WatchedPortfolio`); only the current request's answer changes them.

They assume that the three markers (no cursor, no older page, not answered) are no cursors
(`MarkerAssumption`). TLC checked the parts of both invariants before the proofs, with pages
of 2 over 6 blocks for the board, and pages of 1 and of 2 over 4 blocks, with 2 changes of
holders, a reorganisation and 3 requests, for the portfolio.

**Only model-checked.** Liveness (`CatchesUp`, `FeesReachTheirEnds`, `RecoveryEnds`,
`BoardSettles`, `SavedProgressIsFinished`), since fairness and ENABLED are beyond the prover.
Every safety property a passing run checks is a theorem.

## Where the documents and the code disagree

Two runs show a disagreement:

1. **A sweep after its accruals** (`indexer-sweep`). `laypipe_apply_inserted_keeper_pool_fees`
   (`0004_keeper_rewards.sql:91`) proposes a row with the sums of the batch alone and adds
   them to the stored row only in `ON CONFLICT DO UPDATE`. PostgreSQL checks the proposed
   row against `CHECK (swept_total <= accrued_total)` first. A batch with a sweep of fees
   that an earlier batch accrued is refused with its whole transaction, at every retry,
   and the indexer stops. `db/README.md:284-286` says the triggers "apply INSERT and DELETE
   deltas ... so reorg replay stays exact"; the tests accrue and sweep in one batch.
2. **The watch set without a lease** (`indexer-watch`). `lease.ts:21-22` says that "the
   Postgres cursor CAS is still the final correctness boundary". It is that for blocks. The
   tokens whose swaps and transfers a batch asks for are read from the database in the middle
   of it (`ingestion.ts:744`). When another invocation rolls a launch back before that read and
   stores it again before the write, the cursor, the parent hash and every stored row agree
   with the batch, and it is committed without the transfers of that token.

Others were met while modelling and need no run to see:

* **Rewards notified while nobody is eligible.** `SINGLE_COIN_SPEC.md:76-78` says that
  settling "prevents new units from claiming earlier fees". `PipeDogRewards.sync` spreads
  `undistributedRewards` over the units it has just installed: after a notification with no
  eligible unit, the first units to appear are paid for it. Once somebody is eligible the
  sentence is right (`EarningsKept`, `NewUnitsEarnNothing`).
* **Release of the supply owner.** The comment at `LayPipeHybridToken.sol:123-126` says the
  deployment wallet becomes an ordinary holder after its inventory has moved. Any transfer
  of a whole unit to it after the launch makes `releaseInitialSupplyOwner` revert, and
  before its release it cannot move the tokens away.
* **Stable manifest.** The comment at `LaypipeFactory.sol:705-707` says the closed-gate rule
  "keeps the approved manifest stable during a user's allowance window". The owner may
  close the gate, change the manifest and reopen it within that window;
  `PRODUCTION.md:64-70` grants as much. What does hold is `StableWhileOpen` and
  `PriceAsApproved`, both proved.
* **Resetting the handoff store.** `resetPendingCreatorUpdateStore`
  (`pending-creator-updates.ts:378`) removes the records of every wallet when one has become
  unreadable, the hash of another wallet's unmined transaction included, beside the rule of
  `PRODUCTION.md:216-217` that a known hash cannot be cleared by hand; the claim and keeper
  stores reset one wallet only. The wallet properties name it as their exception (`erased`,
  above).
* **Dust swaps.** `events.ts:262` rejects a swap with a side of zero, which a pool emits
  for a trade small enough; the window that holds one is never decoded.
* **Reports of the reconciliation.** PIPEDOG sent to the hook or the burner from outside is
  reported as a mismatch, like an unallocated rest and a migration;
  `db/README.md:270-308` announces the last two.

## What is not modelled

* Data formats: token metadata, addresses and salts, log decoding, JSON.
* Integer widths, except the unit count (`uint64`), whose check is a guard: Solidity
  0.8 reverts on overflow, and the amounts of 18 decimals are far from 2^256.
* The decaying launch fee: the factory accepts only configurations without decay.
* UUPS upgrades, ownership transfers, recovery of foreign tokens: they are outside
  every balance modelled, and an upgrade may replace the code under all properties.
* A creator may hand the fee stream of an ordinary pool to a burner that does not
  know the pool; the code allows it and the fees then stay in the hook.
  `SelfBurnPoolsServed` speaks of pools launched with selfBurn only.
* Deadlines, slippage limits and signatures of trades: they only refuse.
* The stage route and content checks of artwork, the issue of challenges and the
  windows of the rate limits: they only refuse, or issue an upload URL.
* Candle and baseline queries, the detail page, the keeper read model, health and
  metrics: they read one snapshot and keep no state.
* Launch metadata fetched by the indexer, and its window that shrinks after a range
  error of an RPC: the first is a cached copy, the second another `Abort`.
* `LaypipeToken`, `LaypipeSwapRouter` and the distributor: the token's histories have no
  reader in a deployed configuration, the router keeps nothing between calls, and the
  distributor is quarantined (`LaypipeFactory.sol:503-520`).
* Presentation, deployment scripts and curve simulations: they change no modelled
  state.

## Plan

Done, in this order: vault, singleton, indexer, revenue, factory, artwork, with the
proofs above; then wallet safety and its clients, the projections and leaders inside
the indexer, the reconciliation over the revenue contracts, the nonce of the artwork
route, the readers, and the proofs of the feed. What is left, by worth:

1. `BlockCheckpoints`: `LaypipeToken`'s histories and the binary search as a recursive
   function against the balance the block ended with.
2. `LaypipeSwapRouter` with the first-buy window of `PipedogHook`; then the distributor.
