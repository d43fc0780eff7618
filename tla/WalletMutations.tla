--------------------------- MODULE WalletMutations ---------------------------
(***************************************************************************)
(* What the wallet surfaces of the browser client share: the Web Locks of  *)
(* lib/wallet/mutation-lock.ts, the guard of pending-wallet-mutations.ts,  *)
(* the recovery stores, the wallet that prompts the user, and the chain.   *)
(* Each surface (LaunchFlow, TradeFlow, ClaimFlow, HandoffFlow,            *)
(* KeeperFlow) says how it starts, what it checks, what confirms it and    *)
(* how its record is recovered; the steps in between are here.             *)
(*                                                                         *)
(* A tab runs one operation at a time; its pc is the awaited step it is    *)
(* about to take.  localStorage is shared by the tabs, so a change of a    *)
(* store is a read and a later write of the whole list.                    *)
(***************************************************************************)
EXTENDS RecoveryStores, Sequences

CONSTANTS Wallets, Tabs,
          FlowsOf,      \* bound: the surfaces each wallet uses
          Expiring,     \* bound: the flows whose records may grow old
          MaxSends,     \* bound: transactions the surfaces prepare
          MaxFaults,    \* bound: operations cut short
          Creator,      \* chain at the start: the creator of the pool
          Allowances,   \* chain at the start: of each wallet
          None

Flows == {"launch", "trade", "claim", "handoff", "keeper"}

ASSUME WalletsAssumption ==
    /\ FlowsOf \in [Wallets -> SUBSET Flows]
    /\ Expiring \subseteq {"claim", "handoff", "keeper"}
    /\ MaxSends \in Nat /\ MaxFaults \in Nat
    /\ Creator \in Wallets
    /\ Allowances \in [Wallets -> [factory : 0 .. 2, router : 0 .. 2]]
    /\ None \notin Wallets \cup Tabs

VARIABLES
    store,        \* the five localStorage entries
    walletLock,   \* the tab that holds each wallet's mutation lock, or None
    storeLock,    \* the tab in the recovery store section, or None
    handoffLock,  \* the tab that holds the creator handoff store lock, or None
    page,         \* the operation each tab runs
    tx,           \* every sending the surfaces prepared, in order
    allowance,    \* chain: what the factory and the swap router may pull
    creator,      \* chain: the creator of the one pool
    owed,         \* chain: whether the pool owes its creator anything
    faults,
    erased        \* history: has a reset taken another wallet's handoff record?

locks  == <<walletLock, handoffLock>>
chain  == <<allowance, creator, owed>>
\* A sending is "closed" when its record is gone; what became of it no longer
\* matters to any tab.
vars   == <<store, locks, storeLock, page, tx, chain, faults, erased>>

Idle == [pc |-> "idle", flow |-> None, act |-> None, wallet |-> None,
         plan |-> <<>>, intent |-> None, copy |-> None]

\* Every launch and every trade here needs the allowance 1; 2 is a stale one.
Required == 1

Init == /\ store = [f \in Flows |-> {}]
        /\ walletLock = [w \in Wallets |-> None]
        /\ storeLock = None
        /\ handoffLock = None
        /\ page = [t \in Tabs |-> Idle]
        /\ tx = <<>>
        /\ allowance = Allowances
        /\ creator = Creator
        /\ owed = TRUE
        /\ faults = 0
        /\ erased = FALSE

-----------------------------------------------------------------------------
\* Mutant of AssertNoPending: a guard that forgets the creator handoffs.
ForgetfulGuard(w) ==
    \A f \in Flows \ {"handoff"} : Readable(f, store[f]) /\ Of(store[f], w) = {}

\* assertNoPendingWalletMutation: all five stores can be read and none holds a
\* record of this wallet.
AssertNoPending(w) ==
    \A f \in Flows : Readable(f, store[f]) /\ Of(store[f], w) = {}

Running(t, flow, act, w) ==
    page' = [page EXCEPT ![t] = [@ EXCEPT !.pc = "checking", !.flow = flow,
                                          !.act = act, !.wallet = w]]

At(t, place, flow) == page[t].pc = place /\ page[t].flow = flow
Goto(t, place)     == page' = [page EXCEPT ![t].pc = place, ![t].copy = None]
Finish(t)          == page' = [page EXCEPT ![t] = Idle]

\* withWalletMutationLock never waits: no lock, no operation.
TakeWalletLock(t, w) == /\ walletLock[w] = None
                        /\ walletLock' = [walletLock EXCEPT ![w] = t]

\* withCreatorHandoffStoreLock does not wait either.
TakeHandoffLock(t) == handoffLock = None /\ handoffLock' = t

\* withCreatorHandoffMutationLocks: the store's lock first, then the wallet's.
TakeHandoffLocks(t, w) == TakeHandoffLock(t) /\ TakeWalletLock(t, w)

Release(t) ==
    /\ walletLock' = [w \in Wallets |-> IF walletLock[w] = t THEN None ELSE walletLock[w]]
    /\ handoffLock' = IF handoffLock = t THEN None ELSE handoffLock

\* The surfaces but the handoff: take the wallet's lock, then look for pending
\* records in the same turn.
WithSubmissionLock(t, w, flow, act) ==
    /\ flow \in FlowsOf[w]
    /\ TakeWalletLock(t, w)
    /\ AssertNoPending(w)
    /\ Running(t, flow, act, w)
    /\ UNCHANGED <<store, handoffLock, storeLock, tx, chain, faults, erased>>

\* The checks passed: the sending is prepared and its intent is to be saved.
Submitting(t, amount) ==
    LET p == page[t]
    IN  /\ Len(tx) < MaxSends
        /\ tx' = Append(tx, [flow |-> p.flow, act |-> p.act, wallet |-> p.wallet,
                             amount |-> amount, state |-> "intended"])
        /\ page' = [page EXCEPT ![t].pc = "saving",
                                ![t].intent = Intent(p.wallet, Len(tx) + 1, p.act)]
        /\ UNCHANGED <<store, locks, storeLock, chain, faults, erased>>

\* A check fails before anything is saved.
CheckFails(t) == /\ page[t].pc = "checking"
                 /\ Release(t)
                 /\ Finish(t)
                 /\ UNCHANGED <<store, storeLock, tx, chain, faults, erased>>

-----------------------------------------------------------------------------
(* A change of a store: under the queued recovery store lock, or for the    *)
(* handoffs under the handoff lock, the list is read and written back.      *)

Storing == {"saving", "hashing", "resolving", "refusing", "clearing", "resetting"}

\* Mutant of EnterStore: reads and writes the list without the store lock.
EnterUnlocked(t) == UNCHANGED storeLock

\* withWalletRecoveryStoreLock: queued.
EnterStore(t) == IF page[t].flow = "handoff" THEN UNCHANGED storeLock
                 ELSE storeLock = None /\ storeLock' = t

\* Resolving and refusing come after the wallet lock was released; only the
\* handoff takes its two locks again.
ReadStore(t) ==
    /\ page[t].pc \in Storing
    /\ page[t].copy = None
    /\ EnterStore(t)
    /\ IF page[t].flow = "handoff" /\ page[t].pc \in {"resolving", "refusing"}
       THEN TakeHandoffLocks(t, page[t].wallet)
       ELSE UNCHANGED locks
    /\ page' = [page EXCEPT ![t].copy = store[page[t].flow]]
    /\ UNCHANGED <<store, tx, chain, faults, erased>>

\* A handoff that finds one of its locks taken gives up; the record stays.
LocksBusy(t) ==
    /\ page[t].flow = "handoff"
    /\ page[t].pc \in {"resolving", "refusing"}
    /\ page[t].copy = None
    /\ handoffLock # None \/ walletLock[page[t].wallet] # None
    /\ Finish(t)
    /\ UNCHANGED <<store, locks, storeLock, tx, chain, faults, erased>>

Writing(t, place) == page[t].pc = place /\ page[t].copy # None
LeaveStore(t)     == storeLock' = IF storeLock = t THEN None ELSE storeLock
Write(t, list)    == store' = [store EXCEPT ![page[t].flow] = list]
SetTx(n, s)       == tx' = [tx EXCEPT ![n].state = s]

\* onSubmissionInvoked: the intent is saved, then the wallet is asked.
SaveIntent(t) ==
    LET p == page[t]
    IN  /\ Writing(t, "saving")
        /\ LeaveStore(t)
        /\ IF MaySave(p.flow, p.copy, p.intent)
           THEN /\ Write(t, Saved(p.flow, p.copy, p.intent))
                /\ SetTx(p.intent.send, "prompt")
                /\ Goto(t, "prompting")
                /\ UNCHANGED locks
           ELSE /\ SetTx(p.intent.send, "closed")
                /\ Release(t) /\ Finish(t)
                /\ UNCHANGED store
        /\ UNCHANGED <<chain, faults, erased>>

\* onSubmitted: the hash is saved and the locks are let go.  A hash that cannot
\* be saved leaves the intent without one.
SaveHash(t) ==
    LET p == page[t]
    IN  /\ Writing(t, "hashing")
        /\ LeaveStore(t)
        /\ Release(t)
        /\ IF MayHash(p.flow, p.copy, p.intent)
           THEN /\ Write(t, WithHash(p.flow, p.copy, p.intent))
                /\ page' = [page EXCEPT ![t].pc = "confirming", ![t].copy = None,
                                        ![t].intent = Hashed(p.intent)]
           ELSE Finish(t) /\ UNCHANGED store
        /\ UNCHANGED <<tx, chain, faults, erased>>

\* The record of a receipt that is canonical and two blocks deep goes; so does
\* that of a request the user refused, or has looked up in the wallet's history.
RemoveRecord(t) ==
    LET p == page[t]
    IN  /\ \E place \in {"resolving", "refusing", "clearing"} : Writing(t, place)
        /\ LeaveStore(t)
        /\ Release(t)
        /\ IF IF p.pc = "resolving" THEN MayResolve(p.flow, p.copy, p.intent)
                                    ELSE MayClear(p.flow, p.copy, p.intent)
           THEN Write(t, p.copy \ {p.intent}) /\ SetTx(p.intent.send, "closed")
           ELSE UNCHANGED <<store, tx>>
        /\ Finish(t)
        /\ UNCHANGED <<chain, faults, erased>>

ResetStore(t) ==
    LET p == page[t]
        kept == Reset(p.flow, p.copy, p.wallet)
    IN  /\ Writing(t, "resetting")
        /\ LeaveStore(t)
        /\ Release(t)
        /\ Write(t, kept)
        /\ Finish(t)
        /\ erased' = (erased \/ \E r \in p.copy \ kept : r.wallet # p.wallet)
        /\ UNCHANGED <<tx, chain, faults>>

-----------------------------------------------------------------------------
(* The wallet and what the tab hears of it.                                 *)

UserAnswers(n) == /\ tx[n].state = "prompt"
                  /\ \E s \in {"sent", "refused"} : SetTx(n, s)
                  /\ UNCHANGED <<store, locks, storeLock, page, chain, faults, erased>>

ReceiveHash(t) ==
    /\ page[t].pc = "prompting"
    /\ tx[page[t].intent.send].state \in {"sent", "ok", "failed"}
    /\ Goto(t, "hashing")
    /\ UNCHANGED <<store, locks, storeLock, tx, chain, faults, erased>>

\* Error 4001.  The callback throws, the locks are released, and the record is
\* removed after that.
ReceiveRefusal(t) ==
    /\ page[t].pc = "prompting"
    /\ tx[page[t].intent.send].state = "refused"
    /\ Release(t)
    /\ Goto(t, "refusing")
    /\ UNCHANGED <<store, storeLock, tx, chain, faults, erased>>

\* The tab is closed or reloaded, the wallet's answer is lost, the confirmation
\* times out, or the surface drops the operation because another tab changed a
\* store or the wallet changed.  The browser frees the tab's locks.
CutShort(t) ==
    /\ page[t].pc \in Storing \cup {"prompting", "confirming"}
    /\ faults < MaxFaults
    /\ faults' = faults + 1
    /\ Release(t) /\ LeaveStore(t) /\ Finish(t)
    /\ tx' = IF page[t].pc = "saving"
             THEN [tx EXCEPT ![page[t].intent.send].state = "closed"] ELSE tx
    /\ UNCHANGED <<store, chain, erased>>

\* Thirty days later.  No transaction stays unresolved that long.
RecordExpires ==
    \E f \in Expiring : \E r \in store[f] :
        /\ ~r.old
        /\ tx[r.send].state \notin {"prompt", "sent"}
        /\ \A t \in Tabs : page[t].intent # None => page[t].intent.send # r.send
        /\ store' = [store EXCEPT ![f] = (@ \ {r}) \cup {[r EXCEPT !.old = TRUE]}]
        /\ UNCHANGED <<locks, storeLock, page, tx, chain, faults, erased>>

-----------------------------------------------------------------------------
(* Recovery, as each surface offers it for the record of its own wallet.    *)

\* Going to another surface drops a prepared launch.
AtRest(t) == page[t].pc \in {"idle", "prepared"}

\* The user has looked at the wallet's history before clearing or resetting.
Reviewed(w) == \A n \in DOMAIN tx :
                  tx[n].wallet = w => tx[n].state \notin {"prompt", "sent"}

\* Confirm the saved hash again.
Reconciling(t, w, flow, records) ==
    /\ AtRest(t)
    /\ \E r \in records :
          /\ r.hash
          /\ page' = [page EXCEPT ![t] = [Idle EXCEPT !.pc = "confirming", !.flow = flow,
                          !.act = tx[r.send].act, !.wallet = w, !.intent = r]]
    /\ UNCHANGED <<store, locks, storeLock, tx, chain, faults, erased>>

\* Clear a record without a hash: the locks first, the store after.
Clearing(t, w, flow, records) ==
    /\ AtRest(t)
    /\ Reviewed(w)
    /\ \E r \in records :
          /\ ~r.hash
          /\ page' = [page EXCEPT ![t] = [Idle EXCEPT !.pc = "clearing", !.flow = flow,
                          !.wallet = w, !.intent = r]]
    /\ UNCHANGED <<store, storeLock, tx, chain, faults, erased>>

Resetting(t, w, flow) ==
    /\ AtRest(t)
    /\ flow \in FlowsOf[w]
    /\ Reviewed(w)
    /\ ~Readable(flow, store[flow])
    /\ page' = [page EXCEPT ![t] = [Idle EXCEPT !.pc = "resetting", !.flow = flow,
                                                !.wallet = w]]
    /\ UNCHANGED <<store, storeLock, tx, chain, faults, erased>>

\* A canonical receipt two blocks deep, for the saved sender, target and
\* calldata; "failed" is a canonical revert.
Confirming(t, flow, acts, outcomes) ==
    /\ At(t, "confirming", flow)
    /\ page[t].act \in acts
    /\ tx[page[t].intent.send].state \in outcomes
    /\ Goto(t, "resolving")
    /\ UNCHANGED <<store, locks, storeLock, tx, chain, faults, erased>>

-----------------------------------------------------------------------------
(* The chain.                                                               *)

Reverts(n) == /\ tx[n].state = "sent"
              /\ SetTx(n, "failed")
              /\ UNCHANGED <<store, locks, storeLock, page, chain, faults, erased>>

Mined(n, flow, act) == /\ tx[n].state = "sent"
                       /\ tx[n].flow = flow /\ tx[n].act = act
                       /\ SetTx(n, "ok")
                       /\ UNCHANGED <<store, locks, storeLock, page, faults, erased>>

\* Trades of others earn the pool's creator fees.
FeesAccrue == /\ ~owed /\ owed' = TRUE
              /\ UNCHANGED <<store, locks, storeLock, page, tx, allowance, creator, faults, erased>>
=============================================================================
