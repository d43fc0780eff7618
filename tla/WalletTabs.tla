------------------------------ MODULE WalletTabs ------------------------------
(***************************************************************************)
(* Several tabs of one browser, with several wallets, using the launch     *)
(* form, the trade panel, the portfolio and the keeper panel together.     *)
(***************************************************************************)
EXTENDS CreatorFlows

\* What a tab does once it has begun.
PageStep(t) ==
    \/ CheckFails(t) \/ LocksBusy(t)
    \/ SaveIntent(t) \/ SaveHash(t) \/ RemoveRecord(t) \/ ResetStore(t)
    \/ ReceiveHash(t) \/ ReceiveRefusal(t)
    \/ LaunchStep(t) \/ TradeStep(t) \/ CreatorStep(t)

Start(t, w)    == LaunchStart(t, w) \/ TradeStart(t, w) \/ CreatorStart(t, w)
Recovery(t, w) == LaunchRecovery(t, w) \/ TradeRecovery(t, w) \/ CreatorRecovery(t, w)
Mines(n)       == Reverts(n) \/ LaunchMined(n) \/ TradeMined(n) \/ CreatorMined(n)

Next == \/ \E t \in Tabs : PageStep(t) \/ ReadStore(t) \/ CutShort(t)
        \/ \E t \in Tabs, w \in Wallets :
              PrepareLaunch(t, w) \/ Start(t, w) \/ Recovery(t, w)
        \/ \E n \in DOMAIN tx : UserAnswers(n) \/ Mines(n)
        \/ RecordExpires \/ FeesAccrue

\* A tab that has begun goes on; the user
\* answers a prompt and comes back to what is unresolved; a transaction that
\* was sent is mined.
Fairness ==
    /\ \A t \in Tabs : WF_vars(PageStep(t) \/ ReadStore(t))
    /\ \A w \in Wallets : SF_vars(\E t \in Tabs : Recovery(t, w))
    /\ \A n \in 1 .. MaxSends :
          WF_vars(n \in DOMAIN tx /\ (UserAnswers(n) \/ Mines(n)))

Spec == Init /\ [][Next]_vars /\ Fairness

-----------------------------------------------------------------------------
Acts    == {"approve", "revoke", "launch", "clear", "trade", "claim", "handoff", "keeper"}
Records == [wallet : Wallets, send : 1 .. MaxSends, act : Acts, hash : BOOLEAN, old : BOOLEAN]
States  == {"intended", "closed", "prompt", "refused", "sent", "ok", "empty", "failed"}
Places  == {"idle", "prepared", "checking", "prompting", "confirming"} \cup Storing

\* Types of all variables.
TypeOK ==
    /\ store \in [Flows -> SUBSET Records]
    /\ walletLock \in [Wallets -> Tabs \cup {None}]
    /\ {storeLock, handoffLock} \subseteq Tabs \cup {None}
    /\ \A t \in Tabs :
          /\ page[t].pc \in Places
          /\ page[t].flow \in Flows \cup {None}
          /\ page[t].act \in Acts \cup {None}
          /\ page[t].wallet \in Wallets \cup {None}
          /\ page[t].plan \in {<<>>, <<0>>, <<Required>>, <<0, Required>>}
          /\ page[t].intent \in Records \cup {None}
          /\ page[t].copy = None \/ page[t].copy \subseteq Records
    /\ Len(tx) <= MaxSends
    /\ \A n \in DOMAIN tx : /\ tx[n].wallet \in Wallets /\ tx[n].flow \in Flows
                            /\ tx[n].act \in Acts /\ tx[n].state \in States
    /\ allowance \in [Wallets -> [factory : 0 .. 2, router : 0 .. 2]]
    /\ creator \in Wallets
    /\ owed \in BOOLEAN
    /\ faults \in 0 .. MaxFaults
    /\ erased \in BOOLEAN

Unresolved(n) == tx[n].state \in {"prompt", "sent"}
RecordOf(n)   == {r \in store[tx[n].flow] : r.send = n}

\* The three properties below hold until somebody resets a handoff store that
\* cannot be read: that takes the records of every wallet, and a wallet whose
\* handoff is on its way loses the one thing that keeps it from asking again
\* (resetPendingCreatorUpdateStore).

\* Whatever tabs are closed, answers lost or stores written at the same time, a
\* request that is in front of the user or on its way to a block has its record
\* in its store: a reload finds it and does not send it again
\* (onSubmissionInvoked, withWalletRecoveryStoreLock), as long as no reset of the
\* handoff store has taken another wallet's record.
UnresolvedIsRecorded ==
    ~erased => \A n \in DOMAIN tx : Unresolved(n) => RecordOf(n) # {}

\* A wallet never has two requests open or transactions unmined, from any two
\* tabs or surfaces (withWalletMutationLock around the prompt, and
\* assertNoPendingWalletMutation over all five stores), as long as no reset of
\* the handoff store has taken another wallet's record.
OneOutstanding ==
    ~erased => \A n, m \in DOMAIN tx :
        Unresolved(n) /\ Unresolved(m) /\ tx[n].wallet = tx[m].wallet => n = m

\* What a client proved under the lock before it asked the wallet still holds
\* when the transaction is mined, however long the user takes: the exact
\* allowance of a launch or a trade, the creator rights of a claim or a handoff,
\* the fees of a claim (readPreflight, sendTrade, readClaimState,
\* readCreatorState).  So no approval outlives the one use it was given for, as
\* long as no reset of the handoff store has taken another wallet's record.
CheckedFactsHold ==
    ~erased => \A n \in DOMAIN tx :
        LET w == tx[n].wallet IN
        Unresolved(n) =>
            /\ tx[n].act = "launch" => allowance[w].factory = tx[n].amount
            /\ tx[n].act = "trade" => allowance[w].router = tx[n].amount
            /\ tx[n].act \in {"claim", "handoff"} => creator = w
            /\ tx[n].act = "claim" => owed

Blocked(w) == \E f \in Flows : Of(store[f], w) # {}

\* A wallet is not locked out for good: with a user who answers, looks the
\* wallet's history up and comes back, every record goes, unless the launch
\* store holds more records than it can be read with (savePendingLaunch does
\* not look at the bound).  It is checked where the wallets approve, revoke and
\* launch: the records of the other surfaces, and those that grow old, are not
\* in that run.
RecoveryEnds ==
    \A w \in Wallets : Blocked(w) ~> (~Blocked(w) \/ ~LaunchesReadable(store["launch"]))
=============================================================================
