------------------------------ MODULE TradeFlow ------------------------------
(***************************************************************************)
(* The trade panel (app/token/[slug]/TradePanel.tsx) and its client        *)
(* (lib/web3/trade-client.ts): an exact allowance for the swap router,     *)
(* then the swap that uses it up.                                          *)
(***************************************************************************)
EXTENDS LaunchFlow

\* readPreflight of the trade client, at one verified block.
RouterPreflight(w) == allowance[w].router

\* approvalPlanForAsset.
TradePlan(w) == ExactApprovalPlan(RouterPreflight(w), Required)

ApproveNextStep(t, w) == page[t] = Idle /\ WithSubmissionLock(t, w, "trade", "approve")

\* Unlike the launch form, sendNextApproval reads the plan again under the lock.
SendNextApproval(t) ==
    LET plan == TradePlan(page[t].wallet)
    IN  /\ At(t, "checking", "trade") /\ page[t].act = "approve"
        /\ plan # <<>>
        /\ Submitting(t, Head(plan))

ClearStaleAllowance(t, w) == page[t] = Idle /\ WithSubmissionLock(t, w, "trade", "clear")

ClearAllowance(t) ==
    /\ At(t, "checking", "trade") /\ page[t].act = "clear"
    /\ RouterPreflight(page[t].wallet) # 0
    /\ Submitting(t, 0)

SubmitTrade(t, w) == page[t] = Idle /\ WithSubmissionLock(t, w, "trade", "trade")

\* Mutant of SendTrade: it trusts the allowance of the quote.
SendQuotedTrade(t) ==
    /\ At(t, "checking", "trade") /\ page[t].act = "trade"
    /\ Submitting(t, Required)

\* The quote is still current and the allowance is exactly its input.
SendTrade(t) ==
    /\ At(t, "checking", "trade") /\ page[t].act = "trade"
    /\ RouterPreflight(page[t].wallet) = Required
    /\ Submitting(t, Required)

\* waitForReceipt of the trade client.
TradeReceipt(t, acts) == Confirming(t, "trade", acts, {"ok", "failed"})

\* The allowance read back at the receipt's block is the approved amount.
ConfirmTradeApproval(t) == TradeReceipt(t, {"approve", "clear"})

\* The receipt holds exactly one matching swap event.
ConfirmTrade(t) == TradeReceipt(t, {"trade"})

\* A restored hash is reconciled as soon as the panel loads.
ReconcilePendingTrade(t, w) ==
    Reconciling(t, w, "trade", PendingTrade(store["trade"], w))

ClearReconciledTradeLock(t, w) ==
    /\ TakeWalletLock(t, w) /\ UNCHANGED handoffLock
    /\ Clearing(t, w, "trade", PendingTrade(store["trade"], w))

MineTradeApproval(n) ==
    /\ \E act \in {"approve", "clear"} : Mined(n, "trade", act)
    /\ allowance' = [allowance EXCEPT ![tx[n].wallet].router = tx[n].amount]
    /\ UNCHANGED <<creator, owed>>

\* LaypipeSwapRouter.buy or sell: _pullExact wants the exact allowance too.
MineTrade(n) ==
    /\ Mined(n, "trade", "trade")
    /\ allowance[tx[n].wallet].router = tx[n].amount
    /\ allowance' = [allowance EXCEPT ![tx[n].wallet].router = 0]
    /\ UNCHANGED <<creator, owed>>

TradeStart(t, w) == ApproveNextStep(t, w) \/ ClearStaleAllowance(t, w) \/ SubmitTrade(t, w)
TradeStep(t) == \/ SendNextApproval(t) \/ ClearAllowance(t) \/ SendTrade(t)
                \/ ConfirmTradeApproval(t) \/ ConfirmTrade(t)
TradeRecovery(t, w) == ReconcilePendingTrade(t, w) \/ ClearReconciledTradeLock(t, w)
TradeMined(n) == MineTradeApproval(n) \/ MineTrade(n)
=============================================================================
