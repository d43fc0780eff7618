---------------------------- MODULE RevenueLanes ----------------------------
(* The books of PipedogRevenueRouter: PIPEDOG that arrives is unallocated     *)
(* until the next allocation splits it into three lanes, each lane is drained *)
(* in bounded chunks, and a migration takes everything.                       *)
EXTENDS Integers

CONSTANTS
  BPS,            \* BPS_DENOMINATOR
  SequesterBps,   \* SEQUESTER_SHARE_BPS
  TreasuryBps,    \* TREASURY_SHARE_BPS
  RouterBountyBps \* bountyBps

ASSUME SharesAssumption ==
  /\ BPS \in Nat \ {0}
  /\ SequesterBps \in Nat /\ TreasuryBps \in Nat
  /\ SequesterBps + TreasuryBps <= BPS
  /\ RouterBountyBps \in 0 .. BPS

Routers ==
  [balance : Nat,
   sequesterTank : Nat, treasuryTank : Nat, operationsTab : Nat,
   allocated : Nat, sequestered : Nat, routed : Nat, collected : Nat,
   bounties : Nat, migrated : Nat]

EmptyRouter ==
  [balance |-> 0,
   sequesterTank |-> 0, treasuryTank |-> 0, operationsTab |-> 0,
   allocated |-> 0, sequestered |-> 0, routed |-> 0, collected |-> 0,
   bounties |-> 0, migrated |-> 0]

Lanes(r) == r.sequesterTank + r.treasuryTank + r.operationsTab
Unallocated(r) == r.balance - Lanes(r)

Share(amount, bps) == (amount * bps) \div BPS

\* A transfer to the router, by anyone and for any reason.
Received(r, amount) == [r EXCEPT !.balance = @ + amount]

\* Three rounded shares: their dust stays unallocated.
SplitEach(r) ==
  LET fresh == Unallocated(r)
      toSequester == Share(fresh, SequesterBps)
      toTreasury == Share(fresh, TreasuryBps)
      toOperations == Share(fresh, BPS - SequesterBps - TreasuryBps)
  IN [r EXCEPT
       !.sequesterTank = @ + toSequester,
       !.treasuryTank = @ + toTreasury,
       !.operationsTab = @ + toOperations,
       !.allocated = @ + toSequester + toTreasury + toOperations]

\* _allocate: the operations lane takes the rounding of the other two.
Allocated(r) ==
  LET fresh == Unallocated(r)
      toSequester == Share(fresh, SequesterBps)
      toTreasury == Share(fresh, TreasuryBps)
  IN [r EXCEPT
       !.sequesterTank = @ + toSequester,
       !.treasuryTank = @ + toTreasury,
       !.operationsTab = @ + (fresh - toSequester - toTreasury),
       !.allocated = @ + fresh]

Chunk(fuel, cap) == IF fuel > cap THEN cap ELSE fuel
Bounty(chunk) == Share(chunk, RouterBountyBps)

\* sequesterPipedog after its allocation: one chunk leaves, less the bounty to
\* the sink, the bounty to the caller.
Sequestered(r, cap) ==
  LET chunk == Chunk(r.sequesterTank, cap)
  IN [r EXCEPT
       !.balance = @ - chunk, !.sequesterTank = @ - chunk,
       !.sequestered = @ + (chunk - Bounty(chunk)),
       !.bounties = @ + Bounty(chunk)]

Routed(r, cap) ==
  LET chunk == Chunk(r.treasuryTank, cap)
  IN [r EXCEPT
       !.balance = @ - chunk, !.treasuryTank = @ - chunk,
       !.routed = @ + (chunk - Bounty(chunk)),
       !.bounties = @ + Bounty(chunk)]

Collected(r) ==
  [r EXCEPT
    !.balance = @ - r.operationsTab, !.operationsTab = 0,
    !.collected = @ + r.operationsTab]

\* migrate after its allocation: the lanes are closed and the balance leaves.
MigratedKeepingLanes(r) ==
  [r EXCEPT !.balance = 0, !.migrated = @ + r.balance]

Migrated(r) ==
  [r EXCEPT
    !.balance = 0,
    !.sequesterTank = 0, !.treasuryTank = 0, !.operationsTab = 0,
    !.migrated = @ + r.balance]

\* The lanes never promise more than the router holds, and every unit that was
\* ever allocated is in a lane or has left by exactly one of the exits.
RouterInv(r) ==
  /\ Lanes(r) <= r.balance
  /\ r.allocated = Lanes(r) + r.sequestered + r.routed + r.collected
                     + r.bounties + r.migrated
=============================================================================
