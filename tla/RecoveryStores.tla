---------------------------- MODULE RecoveryStores ----------------------------
(***************************************************************************)
(* The five recovery stores of the browser client (in src/lib/wallet):     *)
(* bounded lists in localStorage with at most one unresolved action per    *)
(* wallet.  A record is what parseIntent accepts: whose it is, the sending *)
(* it stands for (target, calldata and invokedAt together name one), what  *)
(* it does, the transaction hash once the wallet has returned it, and      *)
(* whether it is past the thirty day recovery window.  Each operator takes *)
(* the list that was read and gives the list that is written back; a "may" *)
(* operator is the condition under which the function does not throw.  One *)
(* token is to be launched and one pool to be claimed from: records of     *)
(* several would only differ more.                                         *)
(***************************************************************************)
EXTENDS FiniteSets, Naturals

CONSTANT MaxRecords   \* MAX_PENDING_*: 20 to 32 in the code

ASSUME MaxRecordsAssumption == MaxRecords \in Nat \ {0}

Intent(w, n, act) == [wallet |-> w, send |-> n, act |-> act, hash |-> FALSE, old |-> FALSE]
Hashed(r)      == [r EXCEPT !.hash = TRUE]
Of(s, w)       == {r \in s : r.wallet = w}
Bounded(s)     == Cardinality(s) <= MaxRecords
OnePerWallet(s) == \A r, q \in s : r.wallet = q.wallet => r = q

\* sameIntent of the launch store: the action is an approval or the launch.
SameAction(s, r) == {q \in Of(s, r.wallet) : q.act = "launch" <=> r.act = "launch"}

-----------------------------------------------------------------------------
(* Reading: parseIntent and readAll.  Launches and trades have no age limit *)
(* and look for duplicates of the asking wallet only.                       *)

LaunchesReadable(s) == Bounded(s)
TradesReadable(s)   == Bounded(s)
ClaimsReadable(s)   == Bounded(s) /\ OnePerWallet(s) /\ \A r \in s : ~r.old
UpdatesReadable(s)  == Bounded(s) /\ OnePerWallet(s) /\ \A r \in s : ~r.old
ActionsReadable(s)  == Bounded(s) /\ OnePerWallet(s) /\ \A r \in s : ~r.old

Readable(flow, s) == CASE flow = "launch"  -> LaunchesReadable(s)
                       [] flow = "trade"   -> TradesReadable(s)
                       [] flow = "claim"   -> ClaimsReadable(s)
                       [] flow = "handoff" -> UpdatesReadable(s)
                       [] flow = "keeper"  -> ActionsReadable(s)

\* The record a surface restores for its wallet, as a set of at most one.
PendingLaunch(s, w) == IF LaunchesReadable(s) /\ OnePerWallet(Of(s, w)) THEN Of(s, w) ELSE {}
PendingTrade(s, w)  == IF TradesReadable(s) /\ OnePerWallet(Of(s, w)) THEN Of(s, w) ELSE {}
PendingClaim(s, w)  == IF ClaimsReadable(s) THEN Of(s, w) ELSE {}
PendingUpdate(s, w) == IF UpdatesReadable(s) THEN Of(s, w) ELSE {}
PendingAction(s, w) == IF ActionsReadable(s) THEN Of(s, w) ELSE {}

-----------------------------------------------------------------------------
(* Saving the intent of a sending before the wallet is asked.  Only the     *)
(* launch store is written without looking at its bound, and replaces a     *)
(* record of the same action.                                               *)

MaySaveLaunch(s, r) == LaunchesReadable(s) /\ Of(s, r.wallet) = SameAction(s, r)
MaySaveTrade(s, r)  == /\ TradesReadable(s)
                       /\ Cardinality(s) < MaxRecords
                       /\ Of(s, r.wallet) = {}
MaySaveClaim(s, r)  == ClaimsReadable(s) /\ Of(s, r.wallet) = {} /\ Bounded(s \cup {r})
MaySaveUpdate(s, r) == UpdatesReadable(s) /\ Of(s, r.wallet) = {} /\ Bounded(s \cup {r})
MaySaveAction(s, r) == ActionsReadable(s) /\ Of(s, r.wallet) = {} /\ Bounded(s \cup {r})

MaySave(flow, s, r) == CASE flow = "launch"  -> MaySaveLaunch(s, r)
                         [] flow = "trade"   -> MaySaveTrade(s, r)
                         [] flow = "claim"   -> MaySaveClaim(s, r)
                         [] flow = "handoff" -> MaySaveUpdate(s, r)
                         [] flow = "keeper"  -> MaySaveAction(s, r)

Saved(flow, s, r) == (IF flow = "launch" THEN s \ SameAction(s, r) ELSE s) \cup {r}

-----------------------------------------------------------------------------
(* Adding the hash to the record of this sending.  The launch store goes by *)
(* the action, the claim store by the wallet; only the claim store makes up *)
(* for a missing record.                                                    *)

MayHashLaunch(s, r) == LaunchesReadable(s) /\ SameAction(s, r) # {}
MayHashTrade(s, r)  == TradesReadable(s) /\ Of(s, r.wallet) = {r}
MayHashClaim(s, r)  == ClaimsReadable(s) /\ (Of(s, r.wallet) = {} => Bounded(s \cup {r}))
MayHashUpdate(s, r) == UpdatesReadable(s) /\ r \in s
MayHashAction(s, r) == ActionsReadable(s) /\ r \in s

MayHash(flow, s, r) == CASE flow = "launch"  -> MayHashLaunch(s, r)
                         [] flow = "trade"   -> MayHashTrade(s, r)
                         [] flow = "claim"   -> MayHashClaim(s, r)
                         [] flow = "handoff" -> MayHashUpdate(s, r)
                         [] flow = "keeper"  -> MayHashAction(s, r)

\* The records that get the hash.
Matching(flow, s, r) ==
  CASE flow = "launch" -> SameAction(s, r)
    [] flow = "claim"  -> IF Of(s, r.wallet) = {} THEN {r} ELSE Of(s, r.wallet)
    [] OTHER           -> {r}

WithHash(flow, s, r) ==
  (s \ Matching(flow, s, r)) \cup {Hashed(q) : q \in Matching(flow, s, r)}

-----------------------------------------------------------------------------
(* Removing a record: it must be the exact one, with its hash after a       *)
(* canonical receipt, without one when it is cleared by hand or was refused *)
(* by the user.                                                             *)

MayResolve(flow, s, r) == Readable(flow, s) /\ r.hash /\ r \in s
MayClear(flow, s, r)   == Readable(flow, s) /\ ~r.hash /\ r \in s

\* resetPendingClaimForWallet and its keeper twin do not parse the records;
\* the handoff store has no owner to ask for and goes as a whole.
ClaimsReset(s, w)  == s \ Of(s, w)
ActionsReset(s, w) == s \ Of(s, w)
UpdatesReset(s, w) == {}

Reset(flow, s, w) == CASE flow = "claim"   -> ClaimsReset(s, w)
                       [] flow = "keeper"  -> ActionsReset(s, w)
                       [] flow = "handoff" -> UpdatesReset(s, w)
=============================================================================
