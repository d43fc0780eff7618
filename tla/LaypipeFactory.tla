--------------------------- MODULE LaypipeFactory ---------------------------
(* LaypipeFactory and what its launches bind together: the fee hook and the   *)
(* self-burner of the day, the treasury, the launch gate, and the exact       *)
(* PIPEDOG allowance a user grants before launching.                          *)
EXTENDS Integers, Sequences

CONSTANTS
  Users, FeeHooks, Burners, Treasuries, Implementations, \* deployed contracts and people
  BurnerHook,      \* LaypipeSelfBurner.hook, immutable
  Configs,         \* launch configurations of the factory
  SelfBurnConfigs, \* those with selfBurn
  Fees,            \* launch fees the owner chooses from
  FirstBuys,       \* first buys users choose from
  None,            \* address(0)
  MaxLaunches      \* bound: launches

Manifests ==
  [fee : Fees, hook : FeeHooks \cup {None}, treasury : Treasuries,
   implementation : Implementations \cup {None}, burner : Burners \cup {None}]

Intents == [config : Configs, firstBuy : FirstBuys, manifest : Manifests]

ASSUME FactoryAssumption ==
  /\ BurnerHook \in [Burners -> FeeHooks]
  /\ SelfBurnConfigs \subseteq Configs
  /\ Fees \subseteq Nat /\ FirstBuys \subseteq Nat /\ MaxLaunches \in Nat
  /\ None \notin Users \cup FeeHooks \cup Burners \cup Treasuries \cup Implementations \cup Intents
  /\ Users \cap Burners = {}

VARIABLES
  hook, selfBurner, treasury, tokenImplementation, \* factory: infrastructure
  launchFee, enabledConfigs,                       \* factory: price and configurations
  launchEnabled,                                   \* factory: the public gate
  hookTreasury,    \* PipedogHook.treasury of each deployed hook
  pools,           \* launched pools: hook, fee recipient and configuration
  registered,      \* LaypipeSelfBurner._keys: the pools each burner knows
  allowance,       \* PIPEDOG allowance of each user for the factory
  approved,        \* a user's wallet: the call approved and not yet launched
  held             \* history: users whose gate stayed open since the approval

gate == <<launchEnabled, launchFee, enabledConfigs>>
infrastructure == <<hook, selfBurner, treasury, tokenImplementation, hookTreasury>>
launched == <<pools, registered>>
grants == <<allowance, approved, held>>
vars == <<hook, selfBurner, treasury, tokenImplementation, launchFee,
          enabledConfigs, launchEnabled, hookTreasury, pools, registered,
          allowance, approved, held>>

\* What decides a launch of configuration c: its price, its code, its routing.
Manifest(c) ==
  [fee |-> launchFee, hook |-> hook, treasury |-> treasury,
   implementation |-> tokenImplementation,
   burner |-> IF c \in SelfBurnConfigs THEN selfBurner ELSE None]

Init ==
  /\ hook = None /\ selfBurner = None /\ treasury \in Treasuries
  /\ tokenImplementation = None
  /\ launchFee \in Fees /\ enabledConfigs = {} /\ launchEnabled = FALSE
  /\ hookTreasury \in [FeeHooks -> Treasuries]
  /\ pools = <<>>
  /\ registered = [b \in Burners |-> {}]
  /\ allowance = [u \in Users |-> 0]
  /\ approved = [u \in Users |-> None] /\ held = {}

\* _requireInfrastructure
InfrastructureReady ==
  /\ hook # None /\ tokenImplementation # None
  /\ hookTreasury[hook] = treasury

\* _requireLiveBindings
InfrastructureBindings(needsSelfBurner) == InfrastructureReady
LiveBindings(needsSelfBurner) ==
  /\ InfrastructureReady
  /\ needsSelfBurner => selfBurner # None /\ BurnerHook[selfBurner] = hook

-----------------------------------------------------------------------------
(* The owner.  Every setter but the gate itself waits for the closed gate.    *)

SetLaunchEnabled(enabled) ==
  /\ enabled => InfrastructureReady
  /\ launchEnabled' = enabled
  /\ held' = IF enabled THEN held ELSE {}
  /\ UNCHANGED <<launchFee, enabledConfigs, infrastructure, launched, allowance, approved>>

SetHookKeepingBurner(h) ==
  /\ ~launchEnabled /\ hookTreasury[h] = treasury
  /\ hook' = h
  /\ UNCHANGED <<selfBurner, treasury, tokenImplementation, hookTreasury, gate,
                 launched, grants>>

\* A new hook clears the self-burner, which is bound to the old one.
SetHook(h) ==
  /\ ~launchEnabled /\ hookTreasury[h] = treasury
  /\ hook' = h
  /\ selfBurner' = IF hook \notin {None, h} THEN None ELSE selfBurner
  /\ UNCHANGED <<treasury, tokenImplementation, hookTreasury, gate, launched, grants>>

SetTokenImplementationAnytime(i) ==
  /\ tokenImplementation' = i
  /\ UNCHANGED <<hook, selfBurner, treasury, hookTreasury, gate, launched, grants>>

SetTokenImplementation(i) ==
  /\ ~launchEnabled
  /\ tokenImplementation' = i
  /\ UNCHANGED <<hook, selfBurner, treasury, hookTreasury, gate, launched, grants>>

SetSelfBurner(b) ==
  /\ ~launchEnabled /\ BurnerHook[b] = hook
  /\ selfBurner' = b
  /\ UNCHANGED <<hook, treasury, tokenImplementation, hookTreasury, gate, launched, grants>>

SetTreasury(t) ==
  /\ ~launchEnabled
  /\ hook # None => hookTreasury[hook] = t
  /\ treasury' = t
  /\ UNCHANGED <<hook, selfBurner, tokenImplementation, hookTreasury, gate, launched, grants>>

SetLaunchFee(fee) ==
  /\ ~launchEnabled
  /\ launchFee' = fee
  /\ UNCHANGED <<launchEnabled, enabledConfigs, infrastructure, launched, grants>>

SetLaunchConfigEnabled(c) ==
  /\ ~launchEnabled
  /\ enabledConfigs' \in {enabledConfigs \cup {c}, enabledConfigs \ {c}}
  /\ UNCHANGED <<launchEnabled, launchFee, infrastructure, launched, grants>>

SetHookTreasuryAnytime(h, t) ==
  /\ hookTreasury' = [hookTreasury EXCEPT ![h] = t]
  /\ UNCHANGED <<hook, selfBurner, treasury, tokenImplementation, gate, launched, grants>>

\* PipedogHook.setTreasury, of the current hook or of any other: a deployed
\* hook asks its factory for the gate.
SetHookTreasury(h, t) ==
  /\ ~launchEnabled
  /\ hookTreasury' = [hookTreasury EXCEPT ![h] = t]
  /\ UNCHANGED <<hook, selfBurner, treasury, tokenImplementation, gate, launched, grants>>

-----------------------------------------------------------------------------
(* Users.                                                                     *)

\* The wallet reads the manifest and grants exactly the fee and the first buy.
Approve(u, c, firstBuy) ==
  /\ launchEnabled /\ c \in enabledConfigs
  /\ allowance' = [allowance EXCEPT ![u] = launchFee + firstBuy]
  /\ approved' = [approved EXCEPT ![u] =
       [config |-> c, firstBuy |-> firstBuy, manifest |-> Manifest(c)]]
  /\ held' = held \cup {u}
  /\ UNCHANGED <<gate, infrastructure, launched>>

PulledAtMost(u) == allowance[u] >= launchFee + approved[u].firstBuy

\* _pullQuoteExact: the allowance is the price, no more and no less.
PulledExactly(u) == allowance[u] = launchFee + approved[u].firstBuy

\* selfBurner.register, for the pools that feed the self-burner.
RegisteredWithHookOnly(c) == registered
RegisteredFor(c) ==
  IF c \in SelfBurnConfigs
  THEN [registered EXCEPT ![selfBurner] = @ \cup {Len(pools) + 1}]
  ELSE registered

\* launch: only the user is creator, and whatever fails reverts all of it.
Launch(u) ==
  /\ Len(pools) < MaxLaunches
  /\ launchEnabled /\ approved[u] # None
  /\ LET c == approved[u].config
     IN /\ c \in enabledConfigs
        /\ LiveBindings(c \in SelfBurnConfigs)
        /\ PulledExactly(u)
        /\ pools' = Append(pools,
             [hook |-> hook, config |-> c, launcher |-> u,
              recipient |-> IF c \in SelfBurnConfigs THEN selfBurner ELSE u])
        /\ registered' = RegisteredFor(c)
  /\ allowance' = [allowance EXCEPT ![u] = 0]
  /\ approved' = [approved EXCEPT ![u] = None]
  /\ held' = held \ {u}
  /\ UNCHANGED <<gate, infrastructure>>

\* hook.updateCreator: the fee stream goes to any address, a self-burner too.
UpdateCreator(p, newCreator) ==
  /\ pools[p].recipient \in Users
  /\ pools' = [pools EXCEPT ![p].recipient = newCreator]
  /\ UNCHANGED <<gate, infrastructure, registered, grants>>

Next ==
  \/ \E enabled \in BOOLEAN : SetLaunchEnabled(enabled)
  \/ \E h \in FeeHooks : SetHook(h)
  \/ \E i \in Implementations : SetTokenImplementation(i)
  \/ \E b \in Burners : SetSelfBurner(b)
  \/ \E t \in Treasuries : SetTreasury(t) \/ \E h \in FeeHooks : SetHookTreasury(h, t)
  \/ \E fee \in Fees : SetLaunchFee(fee)
  \/ \E c \in Configs : SetLaunchConfigEnabled(c)
  \/ \E u \in Users, c \in Configs, b \in FirstBuys : Approve(u, c, b)
  \/ \E u \in Users : Launch(u)
  \/ \E p \in DOMAIN pools, a \in Users \cup Burners : UpdateCreator(p, a)

Spec == Init /\ [][Next]_vars

-----------------------------------------------------------------------------
(* Properties.                                                                *)

LaunchedPools ==
  [hook : FeeHooks, config : Configs, launcher : Users, recipient : Users \cup Burners]

TypeOK ==
  /\ hook \in FeeHooks \cup {None} /\ selfBurner \in Burners \cup {None}
  /\ treasury \in Treasuries /\ tokenImplementation \in Implementations \cup {None}
  /\ launchFee \in Fees /\ enabledConfigs \subseteq Configs /\ launchEnabled \in BOOLEAN
  /\ hookTreasury \in [FeeHooks -> Treasuries]
  /\ pools \in Seq(LaunchedPools)
  /\ registered \in [Burners -> SUBSET (1 .. Len(pools))]
  /\ allowance \in [Users -> Nat] /\ approved \in [Users -> Intents \cup {None}]
  /\ held \subseteq Users

\* While the gate is open the infrastructure agrees with itself: the hook pays
\* the treasury the factory pays, although each is set in another contract.
OpenMeansReady == launchEnabled => InfrastructureReady

\* The self-burner of the factory always claims from the factory's hook: no hook
\* rotation leaves it behind.
BurnerFollowsHook == selfBurner # None => BurnerHook[selfBurner] = hook

\* Every pool launched with selfBurn feeds, for good, a burner that knows the
\* pool and claims from the very hook the pool pays, whatever the owner rotated
\* since and whatever creators do with their streams.
SelfBurnPoolsServed ==
  \A p \in DOMAIN pools :
    pools[p].config \in SelfBurnConfigs =>
      \E b \in Burners :
        pools[p].recipient = b /\ p \in registered[b] /\ BurnerHook[b] = pools[p].hook

\* What the closed-gate rule of the setters does give a user: a manifest cannot
\* move between an approval and a launch unless the gate was closed in between.
StableWhileOpen ==
  \A u \in held : approved[u] # None /\ Manifest(approved[u].config) = approved[u].manifest

\* However the owner changed the fee meanwhile, a launch costs what its user
\* approved (the exact allowance check of _pullQuoteExact).
PriceAsApproved ==
  [][\A u \in Users :
       Len(pools') > Len(pools) /\ pools'[Len(pools')].launcher = u =>
         launchFee = approved[u].manifest.fee]_vars
=============================================================================
