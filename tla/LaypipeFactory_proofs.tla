------------------------ MODULE LaypipeFactory_proofs ------------------------
(***************************************************************************)
(* The bindings of LaypipeFactory hold for every set of hooks, burners,    *)
(* treasuries, configurations and users, and any number of launches.  The  *)
(* three bindings and the user's guarantee are one inductive invariant     *)
(* once it is added that nobody is held while the gate is closed.          *)
(***************************************************************************)
EXTENDS LaypipeFactory, TLAPS

HeldByOpenGate == held # {} => launchEnabled

\* An allowance is the price its user approved until the launch spends it.
GrantsExact ==
  \A u \in Users :
    approved[u] # None => allowance[u] = approved[u].manifest.fee + approved[u].firstBuy

IInv ==
  /\ TypeOK
  /\ OpenMeansReady
  /\ BurnerFollowsHook
  /\ SelfBurnPoolsServed
  /\ StableWhileOpen
  /\ HeldByOpenGate
  /\ GrantsExact

LEMMA InitInv == Init => IInv
  <1> SUFFICES ASSUME Init PROVE IInv
    OBVIOUS
  <1> USE FactoryAssumption
  <1>1. TypeOK
    <2>1. pools \in Seq(LaunchedPools) /\ Len(pools) = 0
      BY DEF Init
    <2>2. registered \in [Burners -> SUBSET (1 .. Len(pools))]
      BY <2>1 DEF Init
    <2> QED  BY <2>1, <2>2 DEF Init, TypeOK
  <1>2. OpenMeansReady /\ BurnerFollowsHook /\ StableWhileOpen /\ HeldByOpenGate
    BY DEF Init, OpenMeansReady, BurnerFollowsHook, StableWhileOpen, HeldByOpenGate
  <1>3. SelfBurnPoolsServed /\ GrantsExact
    BY DEF Init, SelfBurnPoolsServed, GrantsExact
  <1> QED  BY <1>1, <1>2, <1>3 DEF IInv

\* What a manifest is made of: a step that keeps these keeps every manifest.
LEMMA SameManifest ==
    ASSUME launchFee' = launchFee, hook' = hook, treasury' = treasury,
           tokenImplementation' = tokenImplementation, selfBurner' = selfBurner,
           NEW c
    PROVE  Manifest(c)' = Manifest(c)
  BY DEF Manifest

LEMMA ManifestType ==
    ASSUME TypeOK, NEW c \in Configs
    PROVE  Manifest(c) \in Manifests
  BY DEF TypeOK, Manifest, Manifests

\* A step of the owner under the closed gate: nobody is held, no pool changes.
LEMMA OwnerStep ==
    ASSUME IInv, ~launchEnabled, TypeOK', BurnerFollowsHook',
           launchEnabled' = launchEnabled, UNCHANGED launched, UNCHANGED grants
    PROVE  IInv'
  <1>1. held' = {} /\ ~launchEnabled'
    BY DEF IInv, HeldByOpenGate, grants
  <1>2. OpenMeansReady' /\ StableWhileOpen' /\ HeldByOpenGate'
    BY <1>1 DEF OpenMeansReady, StableWhileOpen, HeldByOpenGate
  <1>3. SelfBurnPoolsServed' /\ GrantsExact'
    BY DEF IInv, SelfBurnPoolsServed, GrantsExact, launched, grants
  <1> QED  BY <1>2, <1>3 DEF IInv

LEMMA NextInv == IInv /\ [Next]_vars => IInv'
  <1> SUFFICES ASSUME IInv, [Next]_vars PROVE IInv'
    OBVIOUS
  <1> USE FactoryAssumption
  <1>1. ASSUME NEW enabled \in BOOLEAN, SetLaunchEnabled(enabled) PROVE IInv'
    <2> USE <1>1 DEF SetLaunchEnabled, infrastructure, launched
    <2>1. TypeOK'
      BY DEF IInv, TypeOK
    <2>2. OpenMeansReady'
      BY DEF OpenMeansReady, InfrastructureReady
    <2>3. BurnerFollowsHook' /\ SelfBurnPoolsServed'
      BY DEF IInv, BurnerFollowsHook, SelfBurnPoolsServed
    <2>4. StableWhileOpen'
      <3>1. \A c : Manifest(c)' = Manifest(c)
        BY SameManifest
      <3> QED  BY <3>1 DEF IInv, StableWhileOpen
    <2>5. HeldByOpenGate' /\ GrantsExact'
      BY DEF IInv, HeldByOpenGate, GrantsExact
    <2> QED  BY <2>1, <2>2, <2>3, <2>4, <2>5 DEF IInv
  <1>2. ASSUME NEW h \in FeeHooks, SetHook(h) PROVE IInv'
    <2>1. TypeOK' /\ BurnerFollowsHook'
      BY <1>2 DEF SetHook, IInv, TypeOK, BurnerFollowsHook, gate, launched, grants
    <2> QED  BY <1>2, <2>1, OwnerStep DEF SetHook, gate
  <1>3. ASSUME NEW i \in Implementations, SetTokenImplementation(i) PROVE IInv'
    <2>1. TypeOK' /\ BurnerFollowsHook'
      BY <1>3 DEF SetTokenImplementation, IInv, TypeOK, BurnerFollowsHook, gate, launched, grants
    <2> QED  BY <1>3, <2>1, OwnerStep DEF SetTokenImplementation, gate
  <1>4. ASSUME NEW b \in Burners, SetSelfBurner(b) PROVE IInv'
    <2>1. TypeOK' /\ BurnerFollowsHook'
      BY <1>4 DEF SetSelfBurner, IInv, TypeOK, BurnerFollowsHook, gate, launched, grants
    <2> QED  BY <1>4, <2>1, OwnerStep DEF SetSelfBurner, gate
  <1>5. ASSUME NEW t \in Treasuries, SetTreasury(t) PROVE IInv'
    <2>1. TypeOK' /\ BurnerFollowsHook'
      BY <1>5 DEF SetTreasury, IInv, TypeOK, BurnerFollowsHook, gate, launched, grants
    <2> QED  BY <1>5, <2>1, OwnerStep DEF SetTreasury, gate
  <1>6. ASSUME NEW t \in Treasuries, NEW h \in FeeHooks, SetHookTreasury(h, t) PROVE IInv'
    <2>1. TypeOK' /\ BurnerFollowsHook'
      BY <1>6 DEF SetHookTreasury, IInv, TypeOK, BurnerFollowsHook, gate, launched, grants
    <2> QED  BY <1>6, <2>1, OwnerStep DEF SetHookTreasury, gate
  <1>7. ASSUME NEW fee \in Fees, SetLaunchFee(fee) PROVE IInv'
    <2>1. TypeOK' /\ BurnerFollowsHook'
      BY <1>7 DEF SetLaunchFee, IInv, TypeOK, BurnerFollowsHook, infrastructure, launched, grants
    <2> QED  BY <1>7, <2>1, OwnerStep DEF SetLaunchFee
  <1>8. ASSUME NEW c \in Configs, SetLaunchConfigEnabled(c) PROVE IInv'
    <2>1. TypeOK' /\ BurnerFollowsHook'
      BY <1>8 DEF SetLaunchConfigEnabled, IInv, TypeOK, BurnerFollowsHook, infrastructure, launched, grants
    <2> QED  BY <1>8, <2>1, OwnerStep DEF SetLaunchConfigEnabled
  <1>9. ASSUME NEW u \in Users, NEW c \in Configs, NEW b \in FirstBuys, Approve(u, c, b)
        PROVE IInv'
    <2> DEFINE intent == [config |-> c, firstBuy |-> b, manifest |-> Manifest(c)]
    <2> USE DEF Approve, gate, infrastructure, launched
    <2>1. intent \in Intents
      BY ManifestType DEF IInv, Intents
    <2>2. intent # None
      BY <2>1
    <2>3. TypeOK'
      <3>1. launchFee + b \in Nat
        BY DEF IInv, TypeOK
      <3>2. approved' \in [Users -> Intents \cup {None}] /\ allowance' \in [Users -> Nat]
        BY <1>9, <2>1, <3>1 DEF IInv, TypeOK
      <3> QED  BY <1>9, <3>2 DEF IInv, TypeOK
    <2>4. OpenMeansReady' /\ BurnerFollowsHook' /\ SelfBurnPoolsServed' /\ HeldByOpenGate'
      BY <1>9 DEF IInv, OpenMeansReady, InfrastructureReady, BurnerFollowsHook,
                  SelfBurnPoolsServed, HeldByOpenGate
    <2>5. StableWhileOpen'
      <3>1. \A k : Manifest(k)' = Manifest(k)
        BY <1>9, SameManifest
      <3>2. \A v \in held' : v = u \/ v \in held
        BY <1>9
      <3>3. approved'[u] = intent /\ \A v \in Users \ {u} : approved'[v] = approved[v]
        BY <1>9 DEF IInv, TypeOK
      <3>4. \A v \in held' : v \in Users
        BY <1>9 DEF IInv, TypeOK
      <3>5. intent.config = c /\ intent.manifest = Manifest(c)
        OBVIOUS
      <3> HIDE DEF intent, Approve
      <3> QED  BY <2>2, <3>1, <3>2, <3>3, <3>4, <3>5 DEF IInv, StableWhileOpen
    <2>6. GrantsExact'
      <3>1. allowance'[u] = launchFee + b /\ approved'[u] = intent
            /\ \A v \in Users \ {u} : allowance'[v] = allowance[v] /\ approved'[v] = approved[v]
        BY <1>9 DEF IInv, TypeOK
      <3>2. intent.manifest.fee = launchFee /\ intent.firstBuy = b
        BY DEF Manifest
      <3> HIDE DEF intent, Approve
      <3> QED  BY <3>1, <3>2 DEF IInv, GrantsExact
    <2> QED  BY <2>3, <2>4, <2>5, <2>6 DEF IInv
  <1>10. ASSUME NEW u \in Users, Launch(u) PROVE IInv'
    <2> DEFINE c == approved[u].config
    <2> DEFINE new == [hook |-> hook, config |-> c, launcher |-> u,
                       recipient |-> IF c \in SelfBurnConfigs THEN selfBurner ELSE u]
    <2> DEFINE n == Len(pools) + 1
    <2>1. /\ approved[u] \in Intents /\ c \in Configs
          /\ LiveBindings(c \in SelfBurnConfigs)
          /\ pools' = Append(pools, new) /\ registered' = RegisteredFor(c)
          /\ allowance' = [allowance EXCEPT ![u] = 0]
          /\ approved' = [approved EXCEPT ![u] = None]
          /\ held' = held \ {u}
      BY <1>10 DEF Launch, IInv, TypeOK, Intents
    <2>2. UNCHANGED <<gate, infrastructure>>
      BY <1>10 DEF Launch
    <2>3. new \in LaunchedPools
      BY <2>1 DEF LaunchedPools, LiveBindings, InfrastructureReady, IInv, TypeOK
    <2> HIDE DEF c, new
    <2>4. /\ pools' \in Seq(LaunchedPools) /\ Len(pools') = n /\ Len(pools) \in Nat
          /\ pools'[n] = new /\ \A p \in 1 .. Len(pools) : pools'[p] = pools[p]
          /\ DOMAIN pools = 1 .. Len(pools) /\ DOMAIN pools' = 1 .. n
      BY <2>1, <2>3 DEF IInv, TypeOK
    <2>5. /\ registered' \in [Burners -> SUBSET (1 .. n)]
          /\ \A b \in Burners : registered[b] \subseteq registered'[b]
      <3>1. registered \in [Burners -> SUBSET (1 .. n)] /\ n \in 1 .. n
        BY <2>4 DEF IInv, TypeOK
      <3>2. CASE c \in SelfBurnConfigs
        <4>1. registered' = [registered EXCEPT ![selfBurner] = registered[selfBurner] \cup {n}]
          BY <2>1, <3>2 DEF RegisteredFor
        <4> HIDE DEF n
        <4> QED  BY <3>1, <4>1
      <3>3. CASE c \notin SelfBurnConfigs
        BY <2>1, <3>1, <3>3 DEF RegisteredFor
      <3> QED  BY <3>2, <3>3
    <2>6. TypeOK'
      <3>1. allowance' \in [Users -> Nat] /\ approved' \in [Users -> Intents \cup {None}]
            /\ held' \subseteq Users
        BY <2>1 DEF IInv, TypeOK
      <3> QED  BY <2>2, <2>4, <2>5, <3>1 DEF IInv, TypeOK, gate, infrastructure
    <2>7. OpenMeansReady' /\ BurnerFollowsHook'
      BY <2>2 DEF IInv, OpenMeansReady, InfrastructureReady, BurnerFollowsHook, gate, infrastructure
    <2>8. SelfBurnPoolsServed'
      <3> SUFFICES ASSUME NEW p \in DOMAIN pools', pools'[p].config \in SelfBurnConfigs
                   PROVE  \E b \in Burners :
                            /\ pools'[p].recipient = b /\ p \in registered'[b]
                            /\ BurnerHook[b] = pools'[p].hook
        BY DEF SelfBurnPoolsServed
      <3>1. CASE p = n
        <4>1. c \in SelfBurnConfigs
          BY <2>4, <3>1 DEF new
        <4>2. selfBurner \in Burners /\ BurnerHook[selfBurner] = hook
          BY <2>1, <4>1 DEF LiveBindings, IInv, TypeOK
        <4>3. n \in registered'[selfBurner]
          BY <2>1, <4>1, <4>2 DEF RegisteredFor, IInv, TypeOK
        <4>4. pools'[p].recipient = selfBurner /\ pools'[p].hook = hook
          BY <2>4, <3>1, <4>1 DEF new
        <4> QED  BY <3>1, <4>2, <4>3, <4>4
      <3>2. CASE p # n
        <4>1. p \in DOMAIN pools /\ pools'[p] = pools[p]
          BY <2>4, <3>2
        <4> QED  BY <2>5, <4>1 DEF IInv, SelfBurnPoolsServed
      <3> QED  BY <3>1, <3>2
    <2>9. StableWhileOpen'
      <3>1. \A k : Manifest(k)' = Manifest(k)
        BY <2>2, SameManifest DEF gate, infrastructure
      <3>2. \A v \in held' : v \in held /\ approved'[v] = approved[v]
        BY <2>1 DEF IInv, TypeOK
      <3> QED  BY <3>1, <3>2 DEF IInv, StableWhileOpen
    <2>10. HeldByOpenGate' /\ GrantsExact'
      <3>1. \A v \in Users : approved'[v] # None => approved'[v] = approved[v] /\ allowance'[v] = allowance[v]
        BY <2>1 DEF IInv, TypeOK
      <3> QED  BY <2>1, <2>2, <3>1 DEF IInv, HeldByOpenGate, GrantsExact, gate
    <2> QED  BY <2>6, <2>7, <2>8, <2>9, <2>10 DEF IInv
  <1>11. ASSUME NEW p \in DOMAIN pools, NEW a \in Users \cup Burners, UpdateCreator(p, a)
         PROVE IInv'
    <2> USE <1>11 DEF UpdateCreator, gate, infrastructure, grants
    <2>1. /\ pools \in Seq(LaunchedPools) /\ p \in 1 .. Len(pools)
          /\ pools[p] \in LaunchedPools /\ DOMAIN pools = 1 .. Len(pools)
      BY DEF IInv, TypeOK
    <2>2. /\ pools' \in Seq(LaunchedPools) /\ Len(pools') = Len(pools)
          /\ DOMAIN pools' = DOMAIN pools
          /\ \A q \in DOMAIN pools : /\ pools'[q].config = pools[q].config
                                     /\ pools'[q].hook = pools[q].hook
                                     /\ q # p => pools'[q] = pools[q]
      <3>1. [pools[p] EXCEPT !.recipient = a] \in LaunchedPools
        BY <2>1 DEF LaunchedPools
      <3>2. pools' = [pools EXCEPT ![p] = [pools[p] EXCEPT !.recipient = a]]
        OBVIOUS
      <3> QED  BY <2>1, <3>1, <3>2 DEF LaunchedPools
    <2>3. TypeOK'
      BY <2>2 DEF IInv, TypeOK
    <2>4. OpenMeansReady' /\ BurnerFollowsHook' /\ HeldByOpenGate' /\ GrantsExact'
      BY DEF IInv, OpenMeansReady, InfrastructureReady, BurnerFollowsHook, HeldByOpenGate, GrantsExact
    <2>5. SelfBurnPoolsServed'
      \* The stream of a self-burn pool belongs to a burner, never to a user.
      <3>1. pools[p].config \notin SelfBurnConfigs
        BY <2>1 DEF IInv, SelfBurnPoolsServed
      <3> QED  BY <2>2, <3>1 DEF IInv, SelfBurnPoolsServed
    <2>6. StableWhileOpen'
      <3>1. \A k : Manifest(k)' = Manifest(k)
        BY SameManifest
      <3> QED  BY <3>1 DEF IInv, StableWhileOpen
    <2> QED  BY <2>3, <2>4, <2>5, <2>6 DEF IInv
  <1>12. CASE UNCHANGED vars
    BY <1>12 DEF vars, IInv, TypeOK, OpenMeansReady, InfrastructureReady, BurnerFollowsHook,
                 SelfBurnPoolsServed, StableWhileOpen, Manifest, HeldByOpenGate, GrantsExact
  <1> QED
    BY <1>1, <1>2, <1>3, <1>4, <1>5, <1>6, <1>7, <1>8, <1>9, <1>10, <1>11, <1>12 DEF Next

LEMMA Inductive == Spec => []IInv
  BY InitInv, NextInv, PTL DEF Spec

\* Factory, hooks, burners and pools keep the types of their contracts.
THEOREM TypeCorrect == Spec => []TypeOK
  BY Inductive, PTL DEF IInv

\* The gate is never open over an infrastructure that disagrees with itself.
THEOREM InfrastructureAgrees == Spec => [](OpenMeansReady /\ BurnerFollowsHook)
  BY Inductive, PTL DEF IInv

\* Any number of launches and rotations leave every self-burn pool with a burner
\* that knows it and claims from its hook.
THEOREM EverySelfBurnPoolServed == Spec => []SelfBurnPoolsServed
  BY Inductive, PTL DEF IInv

\* Between an approval and a launch the manifest moves only across a closed gate.
THEOREM ManifestHeldByOpenGate == Spec => []StableWhileOpen
  BY Inductive, PTL DEF IInv

LEMMA StepPrice ==
    ASSUME IInv, Next, NEW u \in Users,
           Len(pools') > Len(pools), pools'[Len(pools')].launcher = u
    PROVE  launchFee = approved[u].manifest.fee
  <1>1. PICK v \in Users : Launch(v)
    <2>1. Len(pools') > Len(pools)
      OBVIOUS
    <2>2. pools' # pools
      BY <2>1 DEF IInv, TypeOK
    <2>3. ASSUME NEW p \in DOMAIN pools, NEW a \in Users \cup Burners, UpdateCreator(p, a)
          PROVE  FALSE
      BY <2>1, <2>3 DEF UpdateCreator, IInv, TypeOK
    <2> QED
      BY <2>2, <2>3 DEF Next, SetLaunchEnabled, SetHook, SetTokenImplementation, SetSelfBurner,
           SetTreasury, SetHookTreasury, SetLaunchFee, SetLaunchConfigEnabled, Approve, launched
  <1>2. v = u
    <2>1. Len(pools') = Len(pools) + 1 /\ pools'[Len(pools')].launcher = v
      BY <1>1 DEF Launch, IInv, TypeOK
    <2> QED  BY <2>1
  <1>3. approved[u] \in Intents /\ allowance[u] = launchFee + approved[u].firstBuy
    BY <1>1, <1>2 DEF Launch, PulledExactly, IInv, TypeOK
  <1>4. allowance[u] = approved[u].manifest.fee + approved[u].firstBuy
    BY <1>1, <1>2 DEF Launch, IInv, GrantsExact
  <1>5. launchFee \in Nat /\ approved[u].manifest.fee \in Nat /\ approved[u].firstBuy \in Nat
    BY <1>3, FactoryAssumption DEF IInv, TypeOK, Intents, Manifests
  <1> QED  BY <1>3, <1>4, <1>5

\* A launch costs what its user approved.
THEOREM LaunchesAtApprovedPrice == Spec => PriceAsApproved
  <1>1. IInv /\ [Next]_vars =>
          [\A u \in Users :
             Len(pools') > Len(pools) /\ pools'[Len(pools')].launcher = u =>
               launchFee = approved[u].manifest.fee]_vars
    BY StepPrice
  <1> QED  BY <1>1, Inductive, PTL DEF Spec, PriceAsApproved
=============================================================================
