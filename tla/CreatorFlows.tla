----------------------------- MODULE CreatorFlows -----------------------------
(***************************************************************************)
(* What a creator or a keeper does from the portfolio: claim the creator   *)
(* fees (WalletPortfolio.tsx, creator-claim-client.ts), hand the creator   *)
(* rights off (useCreatorHandoff.ts, creator-handoff-client.ts) and run a  *)
(* keeper job (KeeperRewardsPanel.tsx, keeper-client.ts).                  *)
(***************************************************************************)
EXTENDS TradeFlow

Claim(t, w) == page[t] = Idle /\ WithSubmissionLock(t, w, "claim", "claim")

\* readClaimState: the wallet is the creator and something is claimable.
Claimable(w) == creator = w /\ owed

SendClaim(t) ==
    /\ At(t, "checking", "claim")
    /\ Claimable(page[t].wallet)
    /\ Submitting(t, 0)

\* A claim that paid nothing is never confirmed.
ConfirmClaim(t) == Confirming(t, "claim", {"claim"}, {"ok", "failed"})

ReconcilePendingClaim(t, w) ==
    Reconciling(t, w, "claim", PendingClaim(store["claim"], w))

ClearReconciledClaimLock(t, w) ==
    /\ TakeWalletLock(t, w) /\ UNCHANGED handoffLock
    /\ Clearing(t, w, "claim", PendingClaim(store["claim"], w))

ResetClaimSafetyLock(t, w) ==
    /\ TakeWalletLock(t, w) /\ UNCHANGED handoffLock
    /\ Resetting(t, w, "claim")

\* PipedogHook.claim sweeps and pays the creator.
MineClaim(n) ==
    /\ tx[n].state = "sent" /\ tx[n].act = "claim"
    /\ creator = tx[n].wallet
    /\ SetTx(n, IF owed THEN "ok" ELSE "empty")
    /\ owed' = FALSE
    /\ UNCHANGED <<store, locks, storeLock, page, allowance, creator, faults, erased>>

-----------------------------------------------------------------------------
\* The handoff holds the store's lock and the wallet's from its start.
SubmitHandoff(t, w) ==
    /\ page[t] = Idle
    /\ "handoff" \in FlowsOf[w]
    /\ TakeHandoffLocks(t, w)
    /\ AssertNoPending(w)
    /\ Running(t, "handoff", "handoff", w)
    /\ UNCHANGED <<store, storeLock, tx, chain, faults, erased>>

\* readCreatorState.
MayHandOff(w) == creator = w

\* Checked before the simulation and after it.
UpdateCreator(t) ==
    /\ At(t, "checking", "handoff")
    /\ MayHandOff(page[t].wallet)
    /\ Submitting(t, 0)

\* Exactly the saved CreatorUpdated event is in the receipt.
ConfirmCreatorHandoff(t) == Confirming(t, "handoff", {"handoff"}, {"ok", "failed"})

ReconcileHandoff(t, w) ==
    Reconciling(t, w, "handoff", PendingUpdate(store["handoff"], w))

ClearCheckedLock(t, w) ==
    /\ TakeHandoffLocks(t, w)
    /\ Clearing(t, w, "handoff", PendingUpdate(store["handoff"], w))

ResetSafetyLock(t, w) == TakeHandoffLocks(t, w) /\ Resetting(t, w, "handoff")

\* PipedogHook.updateCreator.
MineHandoff(n) ==
    /\ Mined(n, "handoff", "handoff")
    /\ creator = tx[n].wallet
    /\ creator' \in Wallets \ {creator}
    /\ UNCHANGED <<allowance, owed>>

-----------------------------------------------------------------------------
SubmitKeeper(t, w) == page[t] = Idle /\ WithSubmissionLock(t, w, "keeper", "keeper")

\* preflightAction, twice: whether a job is open is up to other callers.
SubmitAction(t) ==
    /\ At(t, "checking", "keeper")
    /\ Submitting(t, 0)

\* A job somebody else settled first is a confirmed no-op.
ConfirmAction(t) == Confirming(t, "keeper", {"keeper"}, {"ok", "failed"})

ReconcileKeeper(t, w) ==
    Reconciling(t, w, "keeper", PendingAction(store["keeper"], w))

ClearHashlessIntent(t, w) ==
    /\ TakeWalletLock(t, w) /\ UNCHANGED handoffLock
    /\ Clearing(t, w, "keeper", PendingAction(store["keeper"], w))

ResetRecoveryLock(t, w) ==
    /\ TakeWalletLock(t, w) /\ UNCHANGED handoffLock
    /\ Resetting(t, w, "keeper")

MineKeeper(n) == /\ Mined(n, "keeper", "keeper")
                 /\ UNCHANGED chain

CreatorStart(t, w) == Claim(t, w) \/ SubmitHandoff(t, w) \/ SubmitKeeper(t, w)
CreatorStep(t) == \/ SendClaim(t) \/ UpdateCreator(t) \/ SubmitAction(t)
                  \/ ConfirmClaim(t) \/ ConfirmCreatorHandoff(t) \/ ConfirmAction(t)
CreatorRecovery(t, w) ==
    \/ ReconcilePendingClaim(t, w) \/ ClearReconciledClaimLock(t, w)
    \/ ResetClaimSafetyLock(t, w)
    \/ ReconcileHandoff(t, w) \/ ClearCheckedLock(t, w) \/ ResetSafetyLock(t, w)
    \/ ReconcileKeeper(t, w) \/ ClearHashlessIntent(t, w) \/ ResetRecoveryLock(t, w)
CreatorMined(n) == MineClaim(n) \/ MineHandoff(n) \/ MineKeeper(n)
=============================================================================
