------------------------------ MODULE LaunchFlow ------------------------------
(***************************************************************************)
(* The launch form (app/launch/LaunchForm.tsx) and its client              *)
(* (lib/web3/launch-client.ts): approvals that make the factory's          *)
(* allowance exactly the launch fee plus the first buy, then the launch.   *)
(***************************************************************************)
EXTENDS WalletMutations

\* buildExactApprovalPlan: nothing to do, approve from zero, or reset first.
ExactApprovalPlan(current, required) ==
    IF current = required THEN <<>>
    ELSE CASE current = 0  -> <<required>>
           [] required = 0 -> <<0>>
           [] OTHER        -> <<0, required>>

\* readPreflight, at one block of the verified deployment.
FactoryPreflight(w) == allowance[w].factory

\* assertLaunchPreflight; an open launch mode, the canonical quote token and
\* enough PIPEDOG are taken for granted.
LaunchPlan(w) == ExactApprovalPlan(FactoryPreflight(w), Required)

\* prepareLaunch, and the fresh plan that is read after a confirmed approval.
\* What it pins and mines does not depend on the stores.  The plan a tab keeps
\* may be stale by the time it is used.
PrepareLaunch(t, w) ==
    /\ page[t] = Idle
    /\ "launch" \in FlowsOf[w]
    /\ page' = [page EXCEPT ![t] = [Idle EXCEPT !.pc = "prepared", !.flow = "launch",
                                    !.wallet = w, !.plan = LaunchPlan(w)]]
    /\ UNCHANGED <<store, locks, storeLock, tx, chain, faults, erased>>

\* An edit, another wallet or another tab's write to a store drops it.
DropPrepared(t) == /\ page[t].pc = "prepared"
                   /\ Finish(t)
                   /\ UNCHANGED <<store, locks, storeLock, tx, chain, faults, erased>>

SubmitNextApproval(t, w) ==
    /\ At(t, "prepared", "launch") /\ page[t].wallet = w
    /\ page[t].plan # <<>>
    /\ WithSubmissionLock(t, w, "launch", "approve")

\* The step approved is the prepared one, whatever the allowance is by now.
SendApproval(t) ==
    /\ At(t, "checking", "launch") /\ page[t].act = "approve"
    /\ Submitting(t, Head(page[t].plan))

\* revokeFactoryAllowance reads the allowance before it takes the lock.
RevokeFactoryAllowance(t, w) ==
    /\ page[t] = Idle
    /\ FactoryPreflight(w) # 0
    /\ WithSubmissionLock(t, w, "launch", "revoke")

SendRevocation(t) ==
    /\ At(t, "checking", "launch") /\ page[t].act = "revoke"
    /\ Submitting(t, 0)

SubmitLaunch(t, w) ==
    /\ At(t, "prepared", "launch") /\ page[t].wallet = w
    /\ WithSubmissionLock(t, w, "launch", "launch")

\* Under the lock the allowance is read again and must be exact; with a first
\* buy sendLaunch repeats this after the simulation.
SendLaunch(t) ==
    /\ At(t, "checking", "launch") /\ page[t].act = "launch"
    /\ LaunchPlan(page[t].wallet) = <<>>
    /\ Submitting(t, Required)

LaunchNeedsApproval(t) ==
    LET w == page[t].wallet
    IN  /\ At(t, "checking", "launch") /\ page[t].act = "launch"
        /\ LaunchPlan(w) # <<>>
        /\ Release(t)
        /\ page' = [page EXCEPT ![t] = [Idle EXCEPT !.pc = "prepared", !.flow = "launch",
                                        !.wallet = w, !.plan = LaunchPlan(w)]]
        /\ UNCHANGED <<store, storeLock, tx, chain, faults, erased>>

\* confirmCanonicalTransaction of the launch client.
LaunchReceipt(t, acts) == Confirming(t, "launch", acts, {"ok", "failed"})

\* Mutant of ConfirmApproval: a canonical revert does not unlock the wallet.
ConfirmOnlySuccess(t) == Confirming(t, "launch", {"approve", "revoke"}, {"ok"})

\* The allowance read back at the receipt's block is the approved amount.
ConfirmApproval(t) == LaunchReceipt(t, {"approve", "revoke"})

\* launchedTokenFromReceipt and the pool id of the new token agree.
ConfirmLaunch(t) == LaunchReceipt(t, {"launch"})

ReconcilePendingLaunch(t, w) ==
    Reconciling(t, w, "launch", PendingLaunch(store["launch"], w))

ClearReconciledLaunchLock(t, w) ==
    /\ TakeWalletLock(t, w) /\ UNCHANGED handoffLock
    /\ Clearing(t, w, "launch", PendingLaunch(store["launch"], w))

\* approve overwrites the allowance.
MineApproval(n) ==
    /\ \E act \in {"approve", "revoke"} : Mined(n, "launch", act)
    /\ allowance' = [allowance EXCEPT ![tx[n].wallet].factory = tx[n].amount]
    /\ UNCHANGED <<creator, owed>>

\* _pullQuoteExact: the allowance is the amount, which uses it up.
MineLaunch(n) ==
    /\ Mined(n, "launch", "launch")
    /\ allowance[tx[n].wallet].factory = tx[n].amount
    /\ allowance' = [allowance EXCEPT ![tx[n].wallet].factory = 0]
    /\ UNCHANGED <<creator, owed>>

LaunchStart(t, w) ==
    \/ SubmitNextApproval(t, w) \/ RevokeFactoryAllowance(t, w) \/ SubmitLaunch(t, w)
LaunchStep(t) ==
    \/ DropPrepared(t) \/ SendApproval(t) \/ SendRevocation(t) \/ SendLaunch(t)
    \/ LaunchNeedsApproval(t) \/ ConfirmApproval(t) \/ ConfirmLaunch(t)
LaunchRecovery(t, w) == ReconcilePendingLaunch(t, w) \/ ClearReconciledLaunchLock(t, w)
LaunchMined(n) == MineApproval(n) \/ MineLaunch(n)
=============================================================================
