--------------------------- MODULE LayPipeSingleton ---------------------------
(***************************************************************************)
(* The single-coin deployment: token, reward vault, fee hook, launcher and *)
(* router.  The configurator wires the five contracts once, the launcher   *)
(* pulls the whole supply into the pool, the router trades, holders move   *)
(* LAYPIPE and PipeDogs and claim.  A transaction is one step; the calls   *)
(* it makes are composed in the order the code makes them.                 *)
(***************************************************************************)
EXTENDS HybridLedger, Totals

CONSTANTS
    Launcher, Hook, PoolManager, Router,   \* the system contracts
    Recipients,    \* bound: the accounts transfers and buys may name
    MaxLaunchDust, \* bound: LAYPIPE the seed position cannot represent
    MaxFees        \* bound: PIPEDOG fees ever accrued

SystemAddresses == {Launcher, Hook, PoolManager, Router}

\* The accounts that act on their own: everyone but the contracts.
Holders == Accounts \ SystemAddresses

ASSUME SystemAssumption ==
    /\ SystemAddresses \subseteq Accounts \ {InitialSupplyOwner}
    /\ Launcher \notin {PoolManager, Router} /\ PoolManager # Router
    /\ Recipients \subseteq Accounts
\* launchDustLimit is the LAYPIPE worth of one liquidity unit, far below NFT_UNIT.
ASSUME DustAssumption == MaxLaunchDust \in Nat /\ MaxLaunchDust < NFT_UNIT /\ MaxFees \in Nat

VARIABLES
    ledger,         \* balances, PipeDogs, exclusions and the vault's storage
    claimBalance,   \* the vault's PIPEDOG claims in the PoolManager
    wiring,         \* the one-time settings made so far
    allowance,      \* what the supply owner approved to the launcher
    fees            \* fees ever accrued

vars == <<ledger, claimBalance, wiring, allowance, fees>>

Steps == {"notifier", "launcher", "router", "exclusions", "launched", "released"}

TypeOK ==
    /\ ledger \in Ledgers
    /\ claimBalance \in Nat
    /\ wiring \subseteq Steps
    /\ allowance \in {0, INITIAL_SUPPLY}
    /\ fees \in Nat

Init ==
    /\ ledger = InitialLedger
    /\ claimBalance = 0
    /\ wiring = {}
    /\ allowance = 0
    /\ fees = 0

-----------------------------------------------------------------------------
Wire(step, needs) ==
    /\ step \notin wiring
    /\ needs \subseteq wiring
    /\ wiring' = wiring \cup {step}

\* PipeDogRewards.setRewardNotifier, PipeDogFeeHook.setLauncher
SetRewardNotifier == Wire("notifier", {}) /\ UNCHANGED <<ledger, claimBalance, allowance, fees>>
SetLauncher == Wire("launcher", {}) /\ UNCHANGED <<ledger, claimBalance, allowance, fees>>

\* PipeDogFeeHook.setCanonicalRouter; the router is built over the hook's launcher.
SetCanonicalRouter ==
    /\ Wire("router", {"launcher"})
    /\ UNCHANGED <<ledger, claimBalance, allowance, fees>>

\* The addresses read back from the four contracts agree with each other.
SystemBindingsValid == {"notifier", "launcher", "router"} \subseteq wiring

ConfigureSystemExclusions ==
    /\ Wire("exclusions", {})
    /\ SystemBindingsValid
    /\ \A a \in SystemAddresses : a \notin ledger.excluded /\ Unfunded(ledger, a)
    /\ ledger' = Excluded(ledger, SystemAddresses)
    /\ UNCHANGED <<claimBalance, allowance, fees>>

Approve(amount) ==
    /\ allowance' = amount
    /\ UNCHANGED <<ledger, claimBalance, wiring, fees>>

\* Mutant of InventoryUnlocked: the owner may spend before its release.
InventoryOpen(from) == from \in Accounts

\* The initial inventory moves only to the system launcher, called by it.
InventoryUnlocked(from) == from = InitialSupplyOwner => "released" \in wiring

SystemConfigurationValid ==
    /\ "exclusions" \in wiring
    /\ SystemAddresses \cup {InitialSupplyOwner} \subseteq ledger.excluded

\* The hook takes the pool once, from its launcher, while the vault notifies it.
PoolRegistrable == "launcher" \in wiring /\ "notifier" \in wiring

\* unlockCallback settles the seed position from what the launcher pulled.
Seeded(l, dust) == Transferred(l, Launcher, PoolManager, INITIAL_SUPPLY - dust)

\* LayPipeSingletonLauncher.launch: the supply is pulled, the pool seeded from
\* it and the remainder returned to the still-excluded owner.
Launch(dust) ==
    LET pulled == Transferred(ledger, InitialSupplyOwner, Launcher, INITIAL_SUPPLY)
        seeded == Seeded(pulled, dust)
    IN  /\ Wire("launched", {"launcher", "router"})
        /\ SystemConfigurationValid
        /\ allowance = INITIAL_SUPPLY
        /\ PoolRegistrable
        /\ TransferAllowed(ledger, InitialSupplyOwner, Launcher, INITIAL_SUPPLY)
        /\ TransferAllowed(pulled, Launcher, PoolManager, INITIAL_SUPPLY - dust)
        /\ ledger' = IF dust = 0 THEN seeded
                     ELSE Transferred(seeded, Launcher, InitialSupplyOwner, dust)
        /\ allowance' = 0
        /\ UNCHANGED <<claimBalance, fees>>

ReleaseInitialSupplyOwner ==
    /\ Wire("released", {"exclusions"})
    /\ ledger.balances[InitialSupplyOwner] < NFT_UNIT
    /\ ledger' = OwnerReleased(ledger)
    /\ UNCHANGED <<claimBalance, allowance, fees>>

-----------------------------------------------------------------------------
Transfer(from, to, amount) ==
    /\ InventoryUnlocked(from)
    /\ TransferAllowed(ledger, from, to, amount)
    /\ ledger' = Transferred(ledger, from, to, amount)
    /\ UNCHANGED <<claimBalance, wiring, allowance, fees>>

TransferNFT(from, to) ==
    /\ to \notin ledger.excluded
    /\ ledger.nfts[from] > 0
    /\ ledger' = NFTTransferred(ledger, from, to)
    /\ UNCHANGED <<claimBalance, wiring, allowance, fees>>

\* setSkipNFT: excluded accounts may only skip, all others may only not skip.
SetSkipNFT(a) ==
    /\ ledger' = [ledger EXCEPT !.skipNFT[a] = a \in ledger.excluded]
    /\ UNCHANGED <<claimBalance, wiring, allowance, fees>>

\* The hook's _accrue: mint the claim to the vault, then notify it.
Accrued(l, fee) == IF fee = 0 THEN l ELSE [l EXCEPT !.vault = NotifyVault(@, fee)]

\* Mutant of AccrueFee: the hook notifies a claim it did not mint.
AccrueWithoutMint(fee) ==
    /\ fees + fee <= MaxFees
    /\ fees' = fees + fee
    /\ UNCHANGED claimBalance

AccrueFee(fee) ==
    /\ fees + fee <= MaxFees
    /\ fees' = fees + fee
    /\ claimBalance' = claimBalance + fee

\* Mutant of Buy: the fee is notified after the output is delivered.
BuyFeeLast(recipient, out, fee) ==
    LET taken == Transferred(ledger, PoolManager, Router, out)
    IN  /\ "launched" \in wiring
        /\ recipient # Router
        /\ TransferAllowed(ledger, PoolManager, Router, out)
        /\ TransferAllowed(taken, Router, recipient, out)
        /\ AccrueFee(fee)
        /\ ledger' = Accrued(Transferred(taken, Router, recipient, out), fee)
        /\ UNCHANGED <<wiring, allowance>>

\* The router takes what a swap puts out and settles what it takes in.
SwapTaken(l, out) == Transferred(l, PoolManager, Router, out)
SwapSettled(l, in) == Transferred(l, Router, PoolManager, in)

\* router.buy: the fee is taken before the swap, the output goes by the router.
Buy(recipient, out, fee) ==
    LET paid  == Accrued(ledger, fee)
        taken == SwapTaken(paid, out)
    IN  /\ "launched" \in wiring
        /\ recipient # Router
        /\ TransferAllowed(paid, PoolManager, Router, out)
        /\ TransferAllowed(taken, Router, recipient, out)
        /\ AccrueFee(fee)
        /\ ledger' = Transferred(taken, Router, recipient, out)
        /\ UNCHANGED <<wiring, allowance>>

\* router.sell: the input is pulled first, the fee is taken after the swap, and
\* what the swap did not spend goes back to the seller.
Sell(seller, amount, spent, fee) ==
    LET pulled  == Transferred(ledger, seller, Router, amount)
        paid    == Accrued(pulled, fee)
        settled == SwapSettled(paid, spent)
    IN  /\ "launched" \in wiring
        /\ InventoryUnlocked(seller)
        /\ 0 < spent /\ spent <= amount
        /\ TransferAllowed(ledger, seller, Router, amount)
        /\ TransferAllowed(paid, Router, PoolManager, spent)
        /\ TransferAllowed(settled, Router, seller, amount - spent)
        /\ AccrueFee(fee)
        /\ ledger' = IF spent = amount THEN settled
                     ELSE Transferred(settled, Router, seller, amount - spent)
        /\ UNCHANGED <<wiring, allowance>>

Claim(a) ==
    LET amount == Claimable(ledger.vault, a)
    IN  /\ amount # 0
        /\ amount <= claimBalance
        /\ ledger' = [ledger EXCEPT !.vault = ClaimVault(@, a)]
        /\ claimBalance' = claimBalance - amount
        /\ UNCHANGED <<wiring, allowance, fees>>

Next ==
    \/ SetRewardNotifier \/ SetLauncher \/ SetCanonicalRouter
    \/ ConfigureSystemExclusions \/ ReleaseInitialSupplyOwner
    \/ \E amount \in {0, INITIAL_SUPPLY} : Approve(amount)
    \/ \E dust \in 0 .. MaxLaunchDust : Launch(dust)
    \/ \E from \in Holders, to \in Recipients, amount \in 1 .. INITIAL_SUPPLY :
            Transfer(from, to, amount)
    \/ \E from \in Holders, to \in Recipients : TransferNFT(from, to)
    \/ \E a \in Holders : SetSkipNFT(a) \/ Claim(a)
    \/ \E fee \in 0 .. MaxFees :
            \/ \E to \in Recipients, out \in 1 .. INITIAL_SUPPLY : Buy(to, out, fee)
            \/ \E seller \in Holders, amount, spent \in 1 .. INITIAL_SUPPLY :
                    Sell(seller, amount, spent, fee)

Spec == Init /\ [][Next]_vars

-----------------------------------------------------------------------------
\* SINGLE_COIN_SPEC's conversion, across transfers, trades, exclusions and the
\* release: the vault weighs, and the mirror shows, one unit per NFT_UNIT held by
\* an account that is not excluded, and none for one that is; an account skips
\* NFTs exactly when it is excluded from rewards.
UnitsMatchBalances ==
    \A a \in Accounts :
        /\ ledger.vault.units[a] = EligibleUnits(ledger, a)
        /\ ledger.nfts[a] = EligibleUnits(ledger, a)
        /\ ledger.skipNFT[a] <=> a \in ledger.excluded

\* Whatever the order of transfers, trades and claims, the vault never owes more
\* than its claims, those are exactly the fees notified and not claimed, and
\* excluded custody has nothing to claim.
VaultBacked ==
    /\ VaultInv(ledger.vault)
    /\ Accounted(ledger.vault) = claimBalance
    /\ \A a \in ledger.excluded : Claimable(ledger.vault, a) = 0

\* The supply is neither minted nor burnt, by any composition of transfers; all of
\* it is the owner's before the launch, and launcher and router retain nothing.
CustodyHolds ==
    /\ Together(ledger.balances) = INITIAL_SUPPLY
    /\ "launched" \notin wiring => ledger.balances[InitialSupplyOwner] = INITIAL_SUPPLY
    /\ {Router, Launcher} \cap Recipients = {} =>
            ledger.balances[Router] = 0 /\ ledger.balances[Launcher] = 0

\* While someone is eligible, a transaction pays an account for the units it had
\* before: what a buy delivers earns nothing from that buy's own fee.
NewUnitsEarnNothing ==
    [][ledger.vault.totalEligibleUnits # 0 =>
        \A a \in Accounts :
            (Claimable(ledger'.vault, a) - Claimable(ledger.vault, a)) * ACC_PRECISION
                < ledger.vault.units[a]
                    * (ledger'.vault.rewardPerUnitStored - ledger.vault.rewardPerUnitStored)
                  + ACC_PRECISION]_vars
=============================================================================
