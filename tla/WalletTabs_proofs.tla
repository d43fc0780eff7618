--------------------------- MODULE WalletTabs_proofs ---------------------------
(***************************************************************************)
(* The two parts of the browser: the wallet tabs, and after them the       *)
(* market feed (board and portfolio), which share no state.                *)
(*                                                                         *)
(* Two tabs never ask one wallet twice.  A tab that asks, clears or resets *)
(* holds the wallet's lock and found no request of that wallet open when   *)
(* it took it (PageQuiet); a list that was read and is not yet written     *)
(* back still names every open request (PageFresh), because whoever adds   *)
(* one holds the same store lock.  All of it (IInv) holds until a reset    *)
(* takes another wallet's handoff record, and HandoffsApart says which     *)
(* browsers never see one.                                                 *)
(*                                                                         *)
(* The board shows a set of blocks without a hole, because every page is   *)
(* an interval of blocks that meets it (BoardInv); what the portfolio      *)
(* shows is a list that only its current request extends, below its last   *)
(* row, so that no position held all the time falls between two pages      *)
(* (PositionsInv).                                                         *)
(***************************************************************************)
EXTENDS WalletTabs, MarketFeed, FiniteSetTheorems, SequenceTheorems, TLAPS

\* A reset of the handoff store removes the records of every wallet, and is
\* offered once a record has outlived the thirty days.  It takes nothing from
\* another wallet while only one wallet of this browser hands creator rights
\* off, or while no handoff record grows that old.
HandoffsApart ==
    \/ \A w, v \in Wallets : "handoff" \in FlowsOf[w] /\ "handoff" \in FlowsOf[v] => w = v
    \/ "handoff" \notin Expiring

Plans    == {<<>>, <<0>>, <<Required>>, <<0, Required>>}
Pages    == [pc : Places, flow : Flows \cup {None}, act : Acts \cup {None},
             wallet : Wallets \cup {None}, plan : Plans,
             intent : Records \cup {None}, copy : (SUBSET Records) \cup {None}]
Sendings == [flow : Flows, act : Acts, wallet : Wallets, amount : 0 .. 2, state : States]

Types ==
    /\ store \in [Flows -> SUBSET Records]
    /\ walletLock \in [Wallets -> Tabs \cup {None}]
    /\ storeLock \in Tabs \cup {None}
    /\ handoffLock \in Tabs \cup {None}
    /\ page \in [Tabs -> Pages]
    /\ tx \in Seq(Sendings) /\ Len(tx) <= MaxSends
    /\ allowance \in [Wallets -> [factory : 0 .. 2, router : 0 .. 2]]
    /\ creator \in Wallets
    /\ owed \in BOOLEAN
    /\ faults \in 0 .. MaxFaults

-----------------------------------------------------------------------------
ActsOf(flow) == CASE flow = "launch"  -> {"approve", "revoke", "launch"}
                  [] flow = "trade"   -> {"approve", "clear", "trade"}
                  [] flow = "claim"   -> {"claim"}
                  [] flow = "handoff" -> {"handoff"}
                  [] flow = "keeper"  -> {"keeper"}

\* The steps of a tab that has a record in hand, those it takes under the
\* wallet's lock, and those that begin with no request of the wallet open.
Sending == {"saving", "prompting", "hashing", "confirming", "resolving", "refusing", "clearing"}
Locked  == {"checking", "saving", "prompting", "hashing", "clearing", "resetting"}
Quiet   == {"checking", "saving", "clearing", "resetting"}
Over    == {"resolving", "refusing", "clearing"}

HoldsWallet(p) == p.pc \in Locked \/ (p.flow = "handoff" /\ p.copy # None)

\* The record r of flow f stands for a sending.
Known(r, f) == /\ r.send \in DOMAIN tx
               /\ tx[r.send].wallet = r.wallet
               /\ tx[r.send].flow = f
Asked(r, f) == Known(r, f) /\ tx[r.send].state # "intended"

\* What was checked before the sending n was prepared holds now.
Facts(n) ==
    LET w == tx[n].wallet
    IN  /\ tx[n].act = "launch" => allowance[w].factory = tx[n].amount
        /\ tx[n].act = "trade" => allowance[w].router = tx[n].amount
        /\ tx[n].act \in {"claim", "handoff"} => creator = w
        /\ tx[n].act = "claim" => owed

PageShape(p) ==
    /\ p.copy # None => p.pc \in Storing
    /\ p.pc # "idle" => p.flow \in Flows /\ p.wallet \in Wallets
    /\ p.pc = "checking" =>
         /\ p.flow \in FlowsOf[p.wallet] /\ p.act \in ActsOf(p.flow)
         /\ p.flow = "launch" /\ p.act = "approve" => p.plan # <<>>
    /\ p.pc = "resetting" => p.flow \in FlowsOf[p.wallet] \cap {"claim", "handoff", "keeper"}
    /\ p.pc \in Sending => p.intent \in Records /\ p.intent.wallet = p.wallet

PageSends(p) ==
    /\ p.pc = "saving" => /\ Known(p.intent, p.flow)
                          /\ tx[p.intent.send].state = "intended"
                          /\ Facts(p.intent.send)
    /\ p.pc \in Sending \ {"saving"} => Asked(p.intent, p.flow)
    /\ p.pc \in Over => ~Unresolved(p.intent.send)

PageQuiet(p) ==
    p.pc \in Quiet => \A n \in DOMAIN tx : tx[n].wallet = p.wallet => ~Unresolved(n)

PageLocks(t, p) ==
    /\ HoldsWallet(p) => walletLock[p.wallet] = t
    /\ HoldsWallet(p) /\ p.flow = "handoff" => handoffLock = t
    /\ p.copy # None /\ p.flow # "handoff" => storeLock = t

PageFresh(p) ==
    p.copy # None =>
        /\ \A r \in p.copy : Asked(r, p.flow)
        /\ \A n \in DOMAIN tx : Unresolved(n) /\ tx[n].flow = p.flow =>
              \E r \in p.copy : r.send = n

PageOK(t, p) == PageShape(p) /\ PageSends(p) /\ PageQuiet(p) /\ PageLocks(t, p) /\ PageFresh(p)

StoresOK == \A f \in Flows : \A r \in store[f] : Asked(r, f)
SendsOK  == \A n \in DOMAIN tx : tx[n].flow \in FlowsOf[tx[n].wallet]

\* The handoff store as long as no record of it grows old: it can be read, and
\* nobody resets it.
Fit(s)         == IsFiniteSet(s) /\ UpdatesReadable(s)
HandoffPage(p) ==
    p.flow = "handoff" => /\ p.pc # "resetting"
                          /\ p.copy # None => IsFiniteSet(p.copy)
                          /\ p.pc = "saving" => ~p.intent.old
HandoffInv ==
    "handoff" \notin Expiring => /\ Fit(store["handoff"])
                                 /\ \A t \in Tabs : HandoffPage(page[t])

\* The safety properties, as they hold while no reset has taken a record.
AllRecorded == \A n \in DOMAIN tx : Unresolved(n) => RecordOf(n) # {}
OneOpen ==
    \A n, m \in DOMAIN tx :
        Unresolved(n) /\ Unresolved(m) /\ tx[n].wallet = tx[m].wallet => n = m
AllFactsHold == \A n \in DOMAIN tx : Unresolved(n) => Facts(n)

IInv == /\ Types /\ StoresOK /\ SendsOK
        /\ \A t \in Tabs : PageOK(t, page[t])
        /\ AllRecorded /\ OneOpen /\ AllFactsHold


-----------------------------------------------------------------------------
(* What a step leaves to the other tabs.                                     *)

OthersStay(t) == \A u \in Tabs \ {t} : page'[u] = page[u]

LocksStay(t) ==
    \A u \in Tabs \ {t} :
        /\ \A w \in Wallets : walletLock[w] = u => walletLock'[w] = u
        /\ handoffLock = u => handoffLock' = u
        /\ storeLock = u => storeLock' = u

SameSend(n) == /\ n \in DOMAIN tx'
               /\ tx'[n].flow = tx[n].flow /\ tx'[n].wallet = tx[n].wallet
               /\ tx'[n].act = tx[n].act /\ tx'[n].amount = tx[n].amount

\* The sending n is none of the business of a tab on page p.
Foreign(n, p) == /\ p.pc \in Quiet => p.wallet # tx[n].wallet
                 /\ p.copy # None => p.flow # tx[n].flow

SendsMove(p) ==
    /\ \A n \in DOMAIN tx :
         /\ SameSend(n)
         /\ tx'[n].state = "intended" => tx[n].state = "intended"
         /\ tx[n].state = "intended" =>
              tx'[n].state = "intended" \/ ~(p.pc = "saving" /\ p.intent.send = n)
    /\ \A n \in DOMAIN tx' :
         Unresolved(n)' => /\ n \in DOMAIN tx
                           /\ Unresolved(n) \/ (tx[n].state = "intended" /\ Foreign(n, p))

Calm ==
    /\ \A n \in DOMAIN tx : SameSend(n) /\ (tx'[n].state = "intended" <=> tx[n].state = "intended")
    /\ \A n \in DOMAIN tx' : Unresolved(n)' => n \in DOMAIN tx /\ Unresolved(n)

LEMMA CalmMoves == \A p : Calm => SendsMove(p)
  BY DEF Calm, SendsMove

LEMMA QuietTx == tx' = tx => Calm
  BY DEF Calm, SameSend, Unresolved

LEMMA OtherPage ==
    ASSUME Types, NEW u \in Tabs, PageOK(u, page[u]), page'[u] = page[u],
           SendsMove(page[u]),
           \A w \in Wallets : walletLock[w] = u => walletLock'[w] = u,
           handoffLock = u => handoffLock' = u,
           storeLock = u => storeLock' = u,
           page[u].pc = "saving" => Facts(page[u].intent.send)'
    PROVE  PageOK(u, page[u])'
  <1> DEFINE p == page[u]
  <1>0. p \in Pages /\ PageOK(u, p)
    BY DEF Types
  <1>1. PageShape(p)
    BY <1>0 DEF PageOK
  <1>2. PageSends(p)'
    <2>1. PageSends(p)
      BY <1>0 DEF PageOK
    <2>2. ASSUME NEW r, NEW f, Known(r, f)
          PROVE  Known(r, f)'
      BY <2>2 DEF Known, SendsMove, SameSend
    <2>3. ASSUME p.pc = "saving"
          PROVE  tx'[p.intent.send].state = "intended"
      <3>1. p.intent.send \in DOMAIN tx /\ tx[p.intent.send].state = "intended"
        BY <2>1, <2>3 DEF PageSends, Known
      <3> QED  BY <2>3, <3>1 DEF SendsMove
    <2>4. ASSUME NEW r, NEW f, Asked(r, f)
          PROVE  Asked(r, f)' /\ (~Unresolved(r.send) => ~Unresolved(r.send)')
      <3>1. Known(r, f) /\ Known(r, f)' /\ tx[r.send].state # "intended"
        BY <2>2, <2>4 DEF Asked
      <3>2. r.send \in DOMAIN tx /\ r.send \in DOMAIN tx'
        BY <3>1 DEF Known
      <3> QED  BY <3>1, <3>2 DEF Asked, SendsMove
    <2>5. p.pc \in Sending \ {"saving"} => Asked(p.intent, p.flow)'
      BY <2>1, <2>4 DEF PageSends
    <2>6. p.pc \in Over => ~Unresolved(p.intent.send)'
      <3>1. p.pc \in Over => p.pc \in Sending \ {"saving"}
        BY DEF Over, Sending
      <3> QED  BY <2>1, <2>4, <3>1 DEF PageSends
    <2>7. p.pc = "saving" => Known(p.intent, p.flow)'
      BY <2>1, <2>2 DEF PageSends
    <2>8. p' = p
      OBVIOUS
    <2> QED  BY <2>3, <2>5, <2>6, <2>7, <2>8 DEF PageSends
  <1>3. PageQuiet(p)'
    <2> SUFFICES ASSUME p.pc \in Quiet, NEW n \in DOMAIN tx', tx'[n].wallet = p.wallet, Unresolved(n)'
                 PROVE  FALSE
      BY DEF PageQuiet
    <2>1. n \in DOMAIN tx /\ (Unresolved(n) \/ Foreign(n, p))
      BY DEF SendsMove
    <2>2. tx[n].wallet = p.wallet
      BY <2>1 DEF SendsMove, SameSend
    <2> QED  BY <1>0, <2>1, <2>2 DEF PageOK, PageQuiet, Foreign
  <1>4. PageLocks(u, p)'
    <2>1. HoldsWallet(p) => p.wallet \in Wallets
      BY <1>1 DEF PageShape, HoldsWallet, Locked, Storing
    <2> QED  BY <1>0, <2>1 DEF PageOK, PageLocks, HoldsWallet
  <1>5. PageFresh(p)'
    <2> SUFFICES ASSUME p.copy # None
                 PROVE  /\ \A r \in p.copy : Asked(r, p.flow)'
                        /\ \A n \in DOMAIN tx' : Unresolved(n)' /\ tx'[n].flow = p.flow =>
                              \E r \in p.copy : r.send = n
      BY DEF PageFresh
    <2>1. PageFresh(p)
      BY <1>0 DEF PageOK
    <2>2. ASSUME NEW r \in p.copy
          PROVE  Asked(r, p.flow)'
      <3>1. Asked(r, p.flow)
        BY <2>1 DEF PageFresh
      <3> QED  BY <3>1 DEF Asked, Known, SendsMove, SameSend
    <2>3. ASSUME NEW n \in DOMAIN tx', Unresolved(n)', tx'[n].flow = p.flow
          PROVE  \E r \in p.copy : r.send = n
      <3>1. n \in DOMAIN tx /\ (Unresolved(n) \/ Foreign(n, p))
        BY <2>3 DEF SendsMove
      <3>2. tx[n].flow = p.flow
        BY <2>3, <3>1 DEF SendsMove, SameSend
      <3> QED  BY <2>1, <3>1, <3>2 DEF PageFresh, Foreign
    <2> QED  BY <2>2, <2>3
  <1>6. PageShape(p)'
    BY <1>1 DEF PageShape
  <1> QED  BY <1>2, <1>3, <1>4, <1>5, <1>6 DEF PageOK

LEMMA Idles ==
    ASSUME NEW t
    PROVE  Idle \in Pages /\ PageOK(t, Idle)' /\ PageOK(t, Idle)
  <1>1. Idle.pc = "idle" /\ Idle.copy = None /\ Idle.flow = None
    BY DEF Idle
  <1>2. Idle \in Pages
    BY DEF Idle, Pages, Places, Plans
  <1>3. PageOK(t, Idle)
    BY <1>1 DEF PageOK, PageShape, PageSends, PageQuiet, PageLocks, PageFresh, HoldsWallet,
                Locked, Sending, Quiet, Over, Storing
  <1>4. PageOK(t, Idle)'
    BY <1>1 DEF PageOK, PageShape, PageSends, PageQuiet, PageLocks, PageFresh, HoldsWallet,
                Locked, Sending, Quiet, Over, Storing
  <1> QED  BY <1>2, <1>3, <1>4

Untouched(u) ==
    /\ page'[u] = page[u]
    /\ \A w \in Wallets : walletLock[w] = u => walletLock'[w] = u
    /\ handoffLock = u => handoffLock' = u
    /\ storeLock = u => storeLock' = u
    /\ page[u].pc = "saving" => Facts(page[u].intent.send)'

\* A step that opens no request.
LEMMA CalmStep ==
    ASSUME IInv, Types', Calm, SendsOK', StoresOK', AllRecorded', AllFactsHold',
           \A u \in Tabs : PageOK(u, page[u])' \/ Untouched(u)
    PROVE  IInv'
  <1>1. \A u \in Tabs : PageOK(u, page[u])'
    <2>1. SUFFICES ASSUME NEW u \in Tabs, Untouched(u) PROVE PageOK(u, page[u])'
      OBVIOUS
    <2>2. PageOK(u, page[u]) /\ SendsMove(page[u])
      BY CalmMoves DEF IInv
    <2> QED  BY <2>1, <2>2, OtherPage DEF IInv, Untouched
  <1>2. OneOpen'
    BY DEF IInv, OneOpen, Calm, SameSend
  <1> QED  BY <1>1, <1>2 DEF IInv

\* A step of tab t that opens no request and leaves the chain.
LEMMA CalmWrite ==
    ASSUME IInv, Types', NEW t \in Tabs, Calm, OthersStay(t), LocksStay(t),
           UNCHANGED chain, SendsOK', StoresOK', AllRecorded', PageOK(t, page[t])'
    PROVE  IInv'
  <1>1. ASSUME NEW n \in DOMAIN tx, SameSend(n), Facts(n)
        PROVE  Facts(n)'
    BY <1>1 DEF Facts, SameSend, chain
  <1>2. ASSUME NEW u \in Tabs \ {t}
        PROVE  Untouched(u)
    <2>1. PageOK(u, page[u]) /\ page'[u] = page[u]
      BY DEF IInv, OthersStay
    <2>2. page[u].pc = "saving" => Facts(page[u].intent.send)'
      BY <1>1, <2>1 DEF PageOK, PageSends, Known, Calm
    <2> QED  BY <2>1, <2>2 DEF Untouched, LocksStay
  <1>3. AllFactsHold'
    <2>1. \A n \in DOMAIN tx' : Unresolved(n)' => /\ n \in DOMAIN tx /\ Unresolved(n)
                                                  /\ SameSend(n)
      BY DEF Calm
    <2> QED  BY <1>1, <2>1 DEF IInv, AllFactsHold, Facts
  <1>4. \A u \in Tabs : PageOK(u, page[u])' \/ Untouched(u)
    BY <1>2
  <1> QED  BY <1>3, <1>4, CalmStep

LEMMA StoresSame ==
    ASSUME IInv, Calm, store' = store
    PROVE  StoresOK' /\ AllRecorded'
  <1>1. \A n \in DOMAIN tx' : Unresolved(n)' => /\ n \in DOMAIN tx /\ Unresolved(n)
                                                /\ SameSend(n)
    BY DEF Calm
  <1>2. StoresOK'
    BY DEF IInv, StoresOK, Asked, Known, Calm, SameSend
  <1>3. AllRecorded'
    BY <1>1 DEF IInv, AllRecorded, RecordOf, SameSend
  <1> QED  BY <1>2, <1>3

\* One that writes no store either.
LEMMA CalmTurn ==
    ASSUME IInv, Types', NEW t \in Tabs, Calm, OthersStay(t), LocksStay(t),
           store' = store, UNCHANGED chain, SendsOK', PageOK(t, page[t])'
    PROVE  IInv'
  BY StoresSame, CalmWrite

-----------------------------------------------------------------------------
(* Pages and locks.                                                          *)

\* Page p at another place, with nothing read.
LEMMA GotoPage ==
    ASSUME Types, NEW t \in Tabs, NEW place \in Places, Goto(t, place)
    PROVE  /\ page' \in [Tabs -> Pages] /\ OthersStay(t)
           /\ page'[t] = [page[t] EXCEPT !.pc = place, !.copy = None]
           /\ page[t] \in Pages /\ page'[t] \in Pages
  BY DEF Types, Goto, OthersStay, Pages

LEMMA FinishPage ==
    ASSUME Types, NEW t \in Tabs, Finish(t)
    PROVE  page' \in [Tabs -> Pages] /\ OthersStay(t) /\ page'[t] = Idle /\ PageOK(t, page[t])'
  <1>1. page' \in [Tabs -> Pages] /\ OthersStay(t) /\ page'[t] = Idle
    BY Idles DEF Types, Finish, OthersStay
  <1>2. PageOK(t, Idle)'
    BY Idles
  <1>3. Idle' = Idle
    BY DEF Idle
  <1>4. page[t]' = Idle'
    BY <1>1, <1>3
  <1> QED  BY <1>1, <1>2, <1>4

WalletLockStays(t) ==
    \A u \in Tabs \ {t} : /\ \A w \in Wallets : walletLock[w] = u => walletLock'[w] = u
                          /\ handoffLock = u => handoffLock' = u
StoreLockStays(t) == \A u \in Tabs \ {t} : storeLock = u => storeLock' = u

LockTypes == /\ walletLock \in [Wallets -> Tabs \cup {None}]
             /\ handoffLock \in Tabs \cup {None}

LEMMA BothStay == \A t : WalletLockStays(t) /\ StoreLockStays(t) => LocksStay(t)
  BY DEF WalletLockStays, StoreLockStays, LocksStay

LEMMA NoTab == None \notin Tabs /\ None \notin Wallets
  BY WalletsAssumption

LEMMA ReleaseLocks ==
    ASSUME Types, NEW t \in Tabs, Release(t)
    PROVE  LockTypes' /\ WalletLockStays(t)
  BY DEF Types, Release, LockTypes, WalletLockStays

LEMMA SameLocks ==
    ASSUME Types, NEW t \in Tabs, UNCHANGED locks
    PROVE  LockTypes' /\ WalletLockStays(t)
  BY DEF Types, locks, LockTypes, WalletLockStays

LEMMA TakeWallet ==
    ASSUME Types, NEW t \in Tabs, NEW w \in Wallets, TakeWalletLock(t, w), UNCHANGED handoffLock
    PROVE  LockTypes' /\ WalletLockStays(t) /\ walletLock'[w] = t
  BY NoTab DEF Types, TakeWalletLock, LockTypes, WalletLockStays

LEMMA TakeBoth ==
    ASSUME Types, NEW t \in Tabs, NEW w \in Wallets, TakeHandoffLocks(t, w)
    PROVE  LockTypes' /\ WalletLockStays(t) /\ walletLock'[w] = t /\ handoffLock' = t
  BY NoTab DEF Types, TakeHandoffLocks, TakeHandoffLock, TakeWalletLock, LockTypes, WalletLockStays

LEMMA LeaveStays ==
    ASSUME Types, NEW t \in Tabs, LeaveStore(t)
    PROVE  storeLock' \in Tabs \cup {None} /\ StoreLockStays(t)
  BY DEF Types, LeaveStore, StoreLockStays

LEMMA EnterStays ==
    ASSUME Types, NEW t \in Tabs, EnterStore(t)
    PROVE  /\ storeLock' \in Tabs \cup {None} /\ StoreLockStays(t)
           /\ page[t].flow # "handoff" => storeLock' = t
  BY NoTab DEF Types, EnterStore, StoreLockStays

LEMMA SameStoreLock ==
    ASSUME Types, NEW t \in Tabs, UNCHANGED storeLock
    PROVE  storeLock' \in Tabs \cup {None} /\ StoreLockStays(t)
  BY DEF Types, StoreLockStays

\* A step of tab t that changes its page and the locks only.
LEMMA PageTurn ==
    ASSUME IInv, NEW t \in Tabs, page' \in [Tabs -> Pages], OthersStay(t),
           LockTypes', WalletLockStays(t),
           storeLock' \in Tabs \cup {None}, StoreLockStays(t),
           UNCHANGED <<store, tx, chain>>, faults' \in 0 .. MaxFaults,
           PageOK(t, page[t])'
    PROVE  IInv'
  <1>1. Types'
    BY DEF IInv, Types, LockTypes, chain
  <1>2. Calm /\ LocksStay(t)
    BY QuietTx, BothStay
  <1>3. SendsOK'
    BY DEF IInv, SendsOK
  <1>4. store' = store /\ UNCHANGED chain
    OBVIOUS
  <1> QED  BY <1>1, <1>2, <1>3, <1>4, CalmTurn

LEMMA Finished ==
    ASSUME IInv, NEW t \in Tabs, Finish(t), LockTypes', WalletLockStays(t),
           storeLock' \in Tabs \cup {None}, StoreLockStays(t),
           UNCHANGED <<store, tx, chain, faults>>
    PROVE  IInv'
  <1>1. page' \in [Tabs -> Pages] /\ OthersStay(t) /\ PageOK(t, page[t])'
    BY FinishPage DEF IInv
  <1>2. faults' \in 0 .. MaxFaults
    BY DEF IInv, Types
  <1>3. UNCHANGED <<store, tx, chain>>
    OBVIOUS
  <1> QED  BY <1>1, <1>2, <1>3, PageTurn

\* Nothing is recorded, so nothing is open.
LEMMA NoneOpen ==
    ASSUME IInv, NEW w \in Wallets, \A f \in Flows : Of(store[f], w) = {}
    PROVE  \A n \in DOMAIN tx : tx[n].wallet = w => ~Unresolved(n)
  <1> SUFFICES ASSUME NEW n \in DOMAIN tx, tx[n].wallet = w, Unresolved(n)
               PROVE  FALSE
    OBVIOUS
  <1>1. tx[n] \in Sendings
    BY DEF IInv, Types
  <1>2. tx[n].flow \in Flows
    BY <1>1 DEF Sendings
  <1>3. PICK r \in store[tx[n].flow] : r.send = n
    BY DEF IInv, AllRecorded, RecordOf
  <1>4. r.wallet = w
    BY <1>2, <1>3 DEF IInv, StoresOK, Asked, Known
  <1> QED  BY <1>2, <1>3, <1>4 DEF Of

LEMMA FlowTypes ==
    ASSUME NEW w \in Wallets, NEW flow \in FlowsOf[w]
    PROVE  flow \in Flows /\ \A act \in ActsOf(flow) : act \in Acts
  <1>1. flow \in Flows
    BY WalletsAssumption
  <1> QED  BY <1>1 DEF Flows, ActsOf, Acts

\* A surface starts: it holds the wallet's lock and no store has a record.
LEMMA Starts ==
    ASSUME IInv, NEW t \in Tabs, NEW w \in Wallets, NEW flow \in FlowsOf[w],
           NEW act \in ActsOf(flow), page[t].pc \in {"idle", "prepared"},
           flow = "launch" /\ act = "approve" => page[t].plan # <<>>,
           AssertNoPending(w), Running(t, flow, act, w),
           LockTypes', WalletLockStays(t), walletLock'[w] = t,
           flow = "handoff" => handoffLock' = t,
           UNCHANGED <<store, storeLock, tx, chain, faults>>
    PROVE  IInv'
  <1>1. Types /\ page[t] \in Pages /\ PageShape(page[t])
    BY DEF IInv, Types, PageOK
  <1>2. page[t].copy = None
    BY <1>1 DEF PageShape, Storing
  <1>3. flow \in Flows /\ act \in Acts
    BY FlowTypes
  <1>4. page' \in [Tabs -> Pages] /\ OthersStay(t)
    BY <1>1, <1>3 DEF Running, Types, Pages, Places, OthersStay
  <1>5. /\ page'[t].pc = "checking" /\ page'[t].flow = flow /\ page'[t].act = act
        /\ page'[t].wallet = w /\ page'[t].copy = None /\ page'[t].plan = page[t].plan
    BY <1>1, <1>2 DEF Running, Types, Pages
  <1>6. \A n \in DOMAIN tx : tx[n].wallet = w => ~Unresolved(n)
    <2>1. \A f \in Flows : Of(store[f], w) = {}
      BY DEF AssertNoPending
    <2> QED  BY <2>1, NoneOpen
  <1>7. PageOK(t, page[t])'
    <2>1. PageShape(page[t])'
      BY <1>3, <1>5 DEF PageShape, Storing, Sending
    <2>2. PageSends(page[t])'
      BY <1>5 DEF PageSends, Sending, Over
    <2>3. PageQuiet(page[t])'
      BY <1>5, <1>6 DEF PageQuiet, Unresolved
    <2>4. PageLocks(t, page[t])'
      BY <1>5 DEF PageLocks, HoldsWallet
    <2>5. PageFresh(page[t])'
      BY <1>5 DEF PageFresh
    <2> QED  BY <2>1, <2>2, <2>3, <2>4, <2>5 DEF PageOK
  <1>8. storeLock' \in Tabs \cup {None} /\ StoreLockStays(t)
    BY <1>1, SameStoreLock
  <1>9. faults' \in 0 .. MaxFaults /\ UNCHANGED <<store, tx, chain>>
    BY <1>1 DEF Types
  <1> QED  BY <1>4, <1>7, <1>8, <1>9, PageTurn

\* A sending is prepared: nothing of the wallet is open, and what was checked
\* holds.
LEMMA Submits ==
    ASSUME IInv, NEW t \in Tabs, NEW amount \in 0 .. 2, page[t].pc = "checking",
           Submitting(t, amount),
           page[t].act = "launch" => allowance[page[t].wallet].factory = amount,
           page[t].act = "trade" => allowance[page[t].wallet].router = amount,
           page[t].act \in {"claim", "handoff"} => creator = page[t].wallet,
           page[t].act = "claim" => owed
    PROVE  IInv'
  <1> DEFINE p == page[t]
             n == Len(tx) + 1
             new == [flow |-> p.flow, act |-> p.act, wallet |-> p.wallet,
                     amount |-> amount, state |-> "intended"]
  <1>1. Types /\ p \in Pages /\ PageOK(t, p)
    BY DEF IInv, Types
  <1>2. /\ PageShape(p) /\ PageLocks(t, p) /\ p.copy = None
        /\ p.wallet \in Wallets /\ p.flow \in FlowsOf[p.wallet] /\ p.act \in ActsOf(p.flow)
    BY <1>1 DEF PageOK, PageShape, Storing
  <1>3. new \in Sendings
    BY <1>2, FlowTypes DEF Sendings, States
  <1>4. Len(tx) < MaxSends /\ tx' = Append(tx, new)
    BY DEF Submitting
  <1>5. /\ tx \in Seq(Sendings) /\ Len(tx) \in Nat /\ MaxSends \in Nat /\ n \in Nat
        /\ tx' \in Seq(Sendings) /\ Len(tx') = n /\ n <= MaxSends
        /\ DOMAIN tx' = DOMAIN tx \cup {n} /\ n \notin DOMAIN tx
        /\ tx'[n] = new /\ \A m \in DOMAIN tx : tx'[m] = tx[m]
    BY <1>1, <1>3, <1>4, WalletsAssumption DEF Types
  <1>6. Calm
    BY <1>5 DEF Calm, SameSend, Unresolved
  <1>7. Intent(p.wallet, n, p.act) \in Records
    BY <1>2, <1>5, FlowTypes DEF Intent, Records
  <1>8. page' \in [Tabs -> Pages] /\ OthersStay(t)
    BY <1>1, <1>7 DEF Submitting, Types, Pages, Places, Storing, OthersStay
  <1>9. /\ page'[t].pc = "saving" /\ page'[t].intent = Intent(p.wallet, n, p.act)
        /\ page'[t].flow = p.flow /\ page'[t].wallet = p.wallet /\ page'[t].copy = None
    BY <1>1, <1>2 DEF Submitting, Types, Pages
  <1>10. /\ UNCHANGED <<store, locks, storeLock, chain, faults>>
         /\ UNCHANGED <<allowance, creator, owed, walletLock, handoffLock>>
    BY DEF Submitting, chain, locks
  <1>11. Types'
    BY <1>1, <1>5, <1>8, <1>10 DEF Types
  <1>12. LocksStay(t)
    BY <1>10 DEF LocksStay
  <1>13. SendsOK'
    BY <1>2, <1>5 DEF IInv, SendsOK
  <1>14. PageOK(t, page[t])'
    <2> DEFINE q == page'[t]
    <2>1. PageShape(q)
      <3>1. p.flow \in Flows
        BY <1>2, FlowTypes
      <3>2. Intent(p.wallet, n, p.act).wallet = p.wallet
        BY DEF Intent
      <3> QED  BY <1>2, <1>7, <1>9, <3>1, <3>2 DEF PageShape
    <2>2. PageSends(page[t])'
      <3>1. Intent(p.wallet, n, p.act).send = n /\ Intent(p.wallet, n, p.act).wallet = p.wallet
        BY DEF Intent
      <3>3. /\ tx'[n].state = "intended" /\ tx'[n].wallet = p.wallet
            /\ tx'[n].act = p.act /\ tx'[n].amount = amount
        BY <1>5
      <3>4. /\ tx'[n].act = "launch" => allowance'[p.wallet].factory = amount
            /\ tx'[n].act = "trade" => allowance'[p.wallet].router = amount
            /\ tx'[n].act \in {"claim", "handoff"} => creator' = p.wallet
            /\ tx'[n].act = "claim" => owed'
        BY <1>10, <3>3
      <3>5. Facts(page[t].intent.send)'
        BY <1>9, <3>1, <3>3, <3>4 DEF Facts
      <3>6. page'[t].intent.send = n /\ Known(page[t].intent, page[t].flow)'
        <4>1. n \in DOMAIN tx' /\ tx'[n].wallet = p.wallet /\ tx'[n].flow = p.flow
          BY <1>5
        <4> QED  BY <1>9, <3>1, <4>1 DEF Known
      <3> QED  BY <1>9, <3>3, <3>5, <3>6 DEF PageSends, Sending, Over
    <2>3. PageQuiet(page[t])'
      <3>1. \A m \in DOMAIN tx : tx[m].wallet = p.wallet => ~Unresolved(m)
        BY <1>1 DEF PageOK, PageQuiet, Quiet
      <3> QED  BY <1>5, <1>9, <3>1 DEF PageQuiet, Unresolved
    <2>4. PageLocks(t, page[t])'
      BY <1>2, <1>9, <1>10 DEF PageLocks, HoldsWallet, Locked
    <2>5. PageFresh(page[t])'
      BY <1>9 DEF PageFresh
    <2>6. PageShape(page[t])'
      BY <2>1 DEF PageShape
    <2> QED  BY <2>2, <2>3, <2>4, <2>5, <2>6 DEF PageOK
  <1> QED  BY <1>6, <1>8, <1>10, <1>11, <1>12, <1>13, <1>14, CalmTurn

-----------------------------------------------------------------------------
(* The stores.                                                               *)

LEMMA Reads ==
    ASSUME IInv, NEW t \in Tabs, ReadStore(t)
    PROVE  IInv'
  <1> DEFINE p == page[t]
             both == p.flow = "handoff" /\ p.pc \in {"resolving", "refusing"}
  <1>1. Types /\ p \in Pages /\ PageOK(t, p) /\ PageShape(p)
    BY DEF IInv, Types, PageOK
  <1>2. /\ p.pc \in Storing /\ p.copy = None /\ EnterStore(t)
        /\ IF both THEN TakeHandoffLocks(t, p.wallet) ELSE UNCHANGED locks
        /\ page' = [page EXCEPT ![t].copy = store[p.flow]]
        /\ UNCHANGED <<store, tx, chain, faults>>
    BY DEF ReadStore
  <1>3. p.flow \in Flows /\ p.wallet \in Wallets
    BY <1>1, <1>2 DEF PageShape, Storing
  <1>4. store[p.flow] \in SUBSET Records
    BY <1>1, <1>3 DEF Types
  <1>5. page' \in [Tabs -> Pages] /\ OthersStay(t) /\ page'[t] = [p EXCEPT !.copy = store[p.flow]]
    BY <1>1, <1>2, <1>4 DEF Types, Pages, OthersStay
  <1>6. /\ page'[t].pc = p.pc /\ page'[t].flow = p.flow /\ page'[t].wallet = p.wallet
        /\ page'[t].intent = p.intent /\ page'[t].act = p.act /\ page'[t].plan = p.plan
        /\ page'[t].copy = store[p.flow]
    BY <1>1, <1>5 DEF Pages
  <1>7. /\ LockTypes' /\ WalletLockStays(t)
        /\ both => walletLock'[p.wallet] = t /\ handoffLock' = t
    BY <1>1, <1>2, <1>3, TakeBoth, SameLocks
  <1>8. /\ storeLock' \in Tabs \cup {None} /\ StoreLockStays(t)
        /\ p.flow # "handoff" => storeLock' = t
    BY <1>1, <1>2, EnterStays
  <1>9. PageOK(t, page[t])'
    <2>1. PageShape(page[t])'
      BY <1>1, <1>2, <1>6 DEF PageShape
    <2>2. PageSends(page[t])'
      <3>1. PageSends(p)
        BY <1>1 DEF PageOK
      <3>2. tx' = tx /\ UNCHANGED <<allowance, creator, owed>>
        BY <1>2 DEF chain
      <3> QED  BY <1>6, <3>1, <3>2 DEF PageSends, Facts, Asked, Known, Unresolved
    <2>3. PageQuiet(page[t])'
      BY <1>1, <1>2, <1>6 DEF PageOK, PageQuiet, Unresolved
    <2>4. PageLocks(t, page[t])'
      <3>1. PageLocks(t, p)
        BY <1>1 DEF PageOK
      <3>2. CASE both
        BY <1>6, <1>7, <1>8, <3>2 DEF PageLocks
      <3>3. CASE ~both
        <4>1. UNCHANGED <<walletLock, handoffLock>>
          BY <1>2, <3>3 DEF locks
        <4>2. HoldsWallet(page[t])' => HoldsWallet(p)
          BY <1>2, <1>6, <3>3 DEF HoldsWallet, Storing, Locked
        <4> QED  BY <1>6, <1>8, <3>1, <4>1, <4>2 DEF PageLocks
      <3> QED  BY <3>2, <3>3
    <2>5. PageFresh(page[t])'
      <3>1. /\ \A r \in store[p.flow] : Asked(r, p.flow)
            /\ \A n \in DOMAIN tx : Unresolved(n) /\ tx[n].flow = p.flow =>
                  \E r \in store[p.flow] : r.send = n
        BY <1>3 DEF IInv, StoresOK, AllRecorded, RecordOf
      <3> QED  BY <1>2, <1>6, <3>1 DEF PageFresh, Asked, Known, Unresolved
    <2> QED  BY <2>1, <2>2, <2>3, <2>4, <2>5 DEF PageOK
  <1>10. faults' \in 0 .. MaxFaults
    BY <1>1, <1>2 DEF Types
  <1> QED  BY <1>2, <1>5, <1>7, <1>8, <1>9, <1>10, PageTurn

LEMMA SetState ==
    ASSUME Types, NEW n \in DOMAIN tx, NEW s \in States, SetTx(n, s)
    PROVE  /\ tx' \in Seq(Sendings) /\ Len(tx') <= MaxSends /\ DOMAIN tx' = DOMAIN tx
           /\ tx'[n].state = s
           /\ \A m \in DOMAIN tx : SameSend(m) /\ (m # n => tx'[m] = tx[m])
  <1>1. tx \in Seq(Sendings) /\ tx[n] \in Sendings
    BY DEF Types
  <1>2. [tx[n] EXCEPT !.state = s] \in Sendings
    BY <1>1 DEF Sendings
  <1>3. tx' = [tx EXCEPT ![n] = [tx[n] EXCEPT !.state = s]]
    BY DEF SetTx
  <1>4. tx' \in Seq(Sendings) /\ DOMAIN tx' = DOMAIN tx /\ Len(tx') = Len(tx)
    BY <1>1, <1>2, <1>3
  <1>5. tx'[n] = [tx[n] EXCEPT !.state = s] /\ \A m \in DOMAIN tx : m # n => tx'[m] = tx[m]
    BY <1>3
  <1>6. SameSend(n) /\ tx'[n].state = s
    BY <1>1, <1>4, <1>5 DEF SameSend, Sendings
  <1> QED  BY <1>4, <1>5, <1>6 DEF Types, SameSend

\* Of two tabs only one can be about to ask a wallet.
LEMMA SavingAlone ==
    ASSUME IInv, NEW t \in Tabs, NEW u \in Tabs \ {t}, page[t].pc = "saving"
    PROVE  LET n == page[t].intent.send IN
           /\ ~(page[u].pc = "saving" /\ page[u].intent.send = n)
           /\ page[t].copy # None => Foreign(n, page[u])
  <1> DEFINE p == page[t]
             q == page[u]
             n == p.intent.send
  <1>1. PageShape(p) /\ PageSends(p) /\ PageLocks(t, p) /\ PageShape(q) /\ PageSends(q)
        /\ PageLocks(u, q)
    BY DEF IInv, PageOK
  <1>2. Known(p.intent, p.flow) /\ p.intent.wallet = p.wallet
    BY <1>1 DEF PageSends, PageShape, Sending
  <1>3. walletLock[p.wallet] = t
    BY <1>1 DEF PageLocks, HoldsWallet, Locked
  <1>4. ASSUME q.pc \in Quiet
        PROVE  q.wallet # p.wallet
    <2>1. walletLock[q.wallet] = u
      BY <1>1, <1>4 DEF PageLocks, HoldsWallet, Locked, Quiet
    <2> QED  BY <1>3, <2>1
  <1>5. ASSUME q.copy # None, p.copy # None
        PROVE  q.flow # p.flow
    <2>1. CASE p.flow = "handoff" /\ q.flow = "handoff"
      <3>1. handoffLock = t /\ handoffLock = u
        BY <1>1, <1>5, <2>1 DEF PageLocks, HoldsWallet
      <3> QED  BY <3>1
    <2>2. CASE p.flow # "handoff" /\ q.flow # "handoff"
      <3>1. storeLock = t /\ storeLock = u
        BY <1>1, <1>5, <2>2 DEF PageLocks
      <3> QED  BY <3>1
    <2> QED  BY <2>1, <2>2
  <1>6. ~(q.pc = "saving" /\ q.intent.send = n)
    <2> SUFFICES ASSUME q.pc = "saving", q.intent.send = n
                 PROVE  FALSE
      OBVIOUS
    <2>1. Known(q.intent, q.flow) /\ q.intent.wallet = q.wallet
      BY <1>1 DEF PageSends, PageShape, Sending
    <2> QED  BY <1>2, <1>4, <2>1 DEF Known, Quiet
  <1> QED  BY <1>2, <1>4, <1>5, <1>6 DEF Known, Foreign

\* What a saving tab does to its sending is no business of another tab.
LEMMA OthersKeep ==
    ASSUME IInv, NEW t \in Tabs, page[t].pc = "saving", NEW s \in {"prompt", "closed"},
           SetTx(page[t].intent.send, s), s = "prompt" => page[t].copy # None,
           OthersStay(t), LocksStay(t), UNCHANGED chain
    PROVE  \A u \in Tabs \ {t} : PageOK(u, page[u])'
  <1> DEFINE n == page[t].intent.send
  <1> SUFFICES ASSUME NEW u \in Tabs \ {t}
               PROVE  PageOK(u, page[u])'
    OBVIOUS
  <1>1. n \in DOMAIN tx /\ tx[n].state = "intended"
    BY DEF IInv, PageOK, PageSends, Known
  <1>2. /\ DOMAIN tx' = DOMAIN tx /\ tx'[n].state = s
        /\ \A m \in DOMAIN tx : SameSend(m) /\ (m # n => tx'[m] = tx[m])
    BY <1>1, SetState DEF IInv, States
  <1>3. SendsMove(page[u])
    <2>1. \A m \in DOMAIN tx : tx'[m].state = "intended" => tx[m].state = "intended"
      BY <1>1, <1>2
    <2>2. \A m \in DOMAIN tx : tx[m].state = "intended" =>
             tx'[m].state = "intended" \/ ~(page[u].pc = "saving" /\ page[u].intent.send = m)
      BY <1>2, SavingAlone
    <2>3. \A m \in DOMAIN tx' :
             Unresolved(m)' => /\ m \in DOMAIN tx
                               /\ Unresolved(m) \/ (tx[m].state = "intended" /\ Foreign(m, page[u]))
      <3>1. \A m : m = n /\ Unresolved(m)' => Foreign(m, page[u])
        BY <1>2, SavingAlone DEF Unresolved
      <3> QED  BY <1>1, <1>2, <3>1 DEF Unresolved
    <2> QED  BY <1>2, <2>1, <2>2, <2>3 DEF SendsMove
  <1>4. page[u].pc = "saving" => Facts(page[u].intent.send)'
    <2> SUFFICES ASSUME page[u].pc = "saving"
                 PROVE  Facts(page[u].intent.send)'
      OBVIOUS
    <2>1. page[u].intent.send \in DOMAIN tx /\ Facts(page[u].intent.send)
      BY DEF IInv, PageOK, PageSends, Known
    <2>2. page'[u] = page[u] /\ SameSend(page[u].intent.send)
      BY <1>2, <2>1 DEF OthersStay
    <2> QED  BY <2>1, <2>2 DEF Facts, SameSend, chain
  <1> QED  BY <1>3, <1>4, OtherPage DEF IInv, OthersStay, LocksStay

\* The intent could not be saved, or the tab is gone before it was.
LEMMA Closes ==
    ASSUME IInv, NEW t \in Tabs, page[t].pc = "saving",
           SetTx(page[t].intent.send, "closed"), Finish(t), Release(t), LeaveStore(t),
           UNCHANGED <<store, chain>>, faults' \in 0 .. MaxFaults
    PROVE  IInv'
  <1> DEFINE n == page[t].intent.send
  <1>1. Types
    BY DEF IInv
  <1>2. n \in DOMAIN tx /\ tx[n].state = "intended"
    BY DEF IInv, PageOK, PageSends, Known
  <1>3. /\ tx' \in Seq(Sendings) /\ Len(tx') <= MaxSends
        /\ DOMAIN tx' = DOMAIN tx /\ tx'[n].state = "closed"
        /\ \A m \in DOMAIN tx : SameSend(m) /\ (m # n => tx'[m] = tx[m])
    BY <1>1, <1>2, SetState DEF States
  <1>4. page' \in [Tabs -> Pages] /\ OthersStay(t) /\ PageOK(t, page[t])'
    BY <1>1, FinishPage
  <1>5. LockTypes' /\ WalletLockStays(t) /\ storeLock' \in Tabs \cup {None} /\ LocksStay(t)
    BY <1>1, ReleaseLocks, LeaveStays, BothStay
  <1>6. \A u \in Tabs : PageOK(u, page[u])'
    <2>1. \A u \in Tabs \ {t} : PageOK(u, page[u])'
      BY <1>4, <1>5, OthersKeep
    <2> QED  BY <1>4, <2>1
  <1>7. Types'
    BY <1>1, <1>3, <1>4, <1>5 DEF Types, LockTypes, chain
  <1>8. \A m \in DOMAIN tx' : Unresolved(m)' => Unresolved(m) /\ tx'[m] = tx[m]
    BY <1>3 DEF Unresolved
  <1>9. StoresOK'
    <2>1. \A r \in Records, f \in Flows : Asked(r, f) => Asked(r, f)'
      BY <1>2, <1>3 DEF Asked, Known, SameSend
    <2> QED  BY <1>1, <2>1 DEF IInv, StoresOK, Types
  <1>10. SendsOK'
    BY <1>3 DEF IInv, SendsOK, SameSend
  <1>11. AllRecorded' /\ OneOpen'
    BY <1>3, <1>8 DEF IInv, AllRecorded, OneOpen, RecordOf
  <1>12. AllFactsHold'
    BY <1>3, <1>8 DEF IInv, AllFactsHold, Facts, chain
  <1> QED  BY <1>6, <1>7, <1>9, <1>10, <1>11, <1>12 DEF IInv

\* The intent is saved and the wallet is asked.
LEMMA Asks ==
    ASSUME IInv, NEW t \in Tabs, Writing(t, "saving"), LeaveStore(t),
           Write(t, Saved(page[t].flow, page[t].copy, page[t].intent)),
           SetTx(page[t].intent.send, "prompt"), Goto(t, "prompting"),
           UNCHANGED <<locks, chain, faults>>
    PROVE  IInv'
  <1> DEFINE p == page[t]
             n == p.intent.send
             list == Saved(p.flow, p.copy, p.intent)
  <1>1. Types /\ p \in Pages /\ p.pc = "saving" /\ p.copy # None
        /\ PageShape(p) /\ PageSends(p) /\ PageQuiet(p) /\ PageLocks(t, p) /\ PageFresh(p)
    BY DEF IInv, Types, PageOK, Writing
  <1>2. /\ p.flow \in Flows /\ p.wallet \in Wallets
        /\ p.intent \in Records /\ p.intent.wallet = p.wallet
    BY <1>1 DEF PageShape, Sending
  <1>3. /\ n \in DOMAIN tx /\ tx[n].state = "intended" /\ Facts(n)
        /\ tx[n].wallet = p.wallet /\ tx[n].flow = p.flow
    BY <1>1, <1>2 DEF PageSends, Known
  <1>4. /\ tx' \in Seq(Sendings) /\ Len(tx') <= MaxSends
        /\ DOMAIN tx' = DOMAIN tx /\ tx'[n].state = "prompt"
        /\ \A m \in DOMAIN tx : SameSend(m) /\ (m # n => tx'[m] = tx[m])
    BY <1>1, <1>3, SetState DEF States
  <1>5. /\ page' \in [Tabs -> Pages] /\ OthersStay(t)
        /\ page'[t] = [p EXCEPT !.pc = "prompting", !.copy = None]
    BY <1>1, GotoPage DEF Places
  <1>6. /\ page'[t].pc = "prompting" /\ page'[t].copy = None /\ page'[t].flow = p.flow
        /\ page'[t].wallet = p.wallet /\ page'[t].intent = p.intent
    BY <1>1, <1>5 DEF Pages
  <1>7. LockTypes' /\ WalletLockStays(t) /\ storeLock' \in Tabs \cup {None} /\ LocksStay(t)
    BY <1>1, SameLocks, LeaveStays, BothStay
  <1>8. store'[p.flow] = list /\ \A f \in Flows \ {p.flow} : store'[f] = store[f]
    BY <1>1, <1>2 DEF Write, Types
  <1>20. /\ p.intent \in list /\ list \subseteq p.copy \cup {p.intent}
         /\ \A r \in p.copy : r.wallet # p.wallet => r \in list
    BY <1>2 DEF Saved, SameAction, Of
  <1>9. Types'
    <2>1. list \in SUBSET Records
      BY <1>1, <1>2, <1>20 DEF Pages
    <2>2. store' \in [Flows -> SUBSET Records]
      BY <1>1, <1>2, <2>1 DEF Write, Types
    <2> QED  BY <1>1, <1>4, <1>5, <1>7, <2>2 DEF Types, LockTypes, chain
  <1>10. \A r, f : Asked(r, f) => Asked(r, f)'
    BY <1>4 DEF Asked, Known, SameSend
  <1>11. \A r, f : r = p.intent /\ f = p.flow => Asked(r, f)'
    <2>1. tx'[n].wallet = p.wallet /\ tx'[n].flow = p.flow
      BY <1>3, <1>4 DEF SameSend
    <2> QED  BY <1>2, <1>3, <1>4, <2>1 DEF Asked, Known
  <1>12. StoresOK'
    <2> SUFFICES ASSUME NEW f \in Flows, NEW r \in store'[f]
                 PROVE  Asked(r, f)'
      BY DEF StoresOK
    <2>1. CASE f = p.flow
      BY <1>1, <1>8, <1>10, <1>11, <1>20, <2>1 DEF PageFresh
    <2>2. CASE f # p.flow
      BY <1>8, <1>10, <2>2 DEF IInv, StoresOK
    <2> QED  BY <2>1, <2>2
  <1>13. SendsOK'
    BY <1>4 DEF IInv, SendsOK, SameSend
  <1>14. \A m \in DOMAIN tx' \ {n} : Unresolved(m)' => Unresolved(m) /\ tx'[m] = tx[m]
    BY <1>4 DEF Unresolved
  <1>15. AllRecorded'
    <2> SUFFICES ASSUME NEW m \in DOMAIN tx', Unresolved(m)'
                 PROVE  \E r \in store'[tx'[m].flow] : r.send = m
      BY DEF AllRecorded, RecordOf
    <2>1. CASE m = n
      BY <1>3, <1>4, <1>8, <1>20, <2>1 DEF SameSend
    <2>2. CASE m # n /\ tx[m].flow = p.flow
      <3>1. m \in DOMAIN tx /\ Unresolved(m) /\ tx'[m] = tx[m]
        BY <1>4, <1>14, <2>2
      <3>2. PICK r \in p.copy : r.send = m
        BY <1>1, <2>2, <3>1 DEF PageFresh
      <3>3. r.wallet = tx[m].wallet
        BY <1>1, <3>2 DEF PageFresh, Asked, Known
      <3>4. tx[m].wallet # p.wallet
        BY <1>1, <3>1 DEF PageQuiet, Quiet
      <3> QED  BY <1>8, <1>20, <2>2, <3>1, <3>2, <3>3, <3>4
    <2>3. CASE m # n /\ tx[m].flow # p.flow
      <3>1. m \in DOMAIN tx
        BY <1>4
      <3>2. tx[m] \in Sendings
        BY <1>1, <3>1 DEF Types
      <3>3. tx[m].flow \in Flows
        BY <3>2 DEF Sendings
      <3> QED  BY <1>4, <1>8, <1>14, <2>3, <3>3 DEF IInv, AllRecorded, RecordOf
    <2> QED  BY <2>1, <2>2, <2>3
  <1>16. OneOpen'
    <2>1. \A m \in DOMAIN tx : tx[m].wallet = p.wallet => ~Unresolved(m)
      BY <1>1 DEF PageQuiet, Quiet
    <2>2. tx'[n].wallet = p.wallet
      BY <1>3, <1>4 DEF SameSend
    <2> SUFFICES ASSUME NEW m \in DOMAIN tx', NEW k \in DOMAIN tx', Unresolved(m)', Unresolved(k)',
                        tx'[m].wallet = tx'[k].wallet
                 PROVE  m = k
      BY DEF OneOpen
    <2>3. CASE m # n /\ k # n
      BY <1>4, <1>14, <2>3 DEF IInv, OneOpen
    <2>4. CASE m = n \/ k = n
      BY <1>4, <1>14, <2>1, <2>2, <2>4
    <2> QED  BY <2>3, <2>4
  <1>17. AllFactsHold'
    <2> SUFFICES ASSUME NEW m \in DOMAIN tx', Unresolved(m)'
                 PROVE  Facts(m)'
      BY DEF AllFactsHold
    <2>1. Facts(m)
      <3>1. CASE m = n
        BY <1>3, <3>1
      <3>2. CASE m # n
        BY <1>4, <1>14, <3>2 DEF IInv, AllFactsHold, Facts
      <3> QED  BY <3>1, <3>2
    <2> QED  BY <1>4, <2>1 DEF Facts, SameSend, chain
  <1>18. PageOK(t, page[t])'
    <2>1. PageShape(page[t])'
      BY <1>2, <1>6 DEF PageShape
    <2>2. PageSends(page[t])'
      <3>1. Asked(page[t].intent, page[t].flow)'
        BY <1>6, <1>11
      <3> QED  BY <1>6, <3>1 DEF PageSends, Over
    <2>3. PageQuiet(page[t])'
      BY <1>6 DEF PageQuiet, Quiet
    <2>4. PageLocks(t, page[t])'
      <3>1. HoldsWallet(p) /\ UNCHANGED <<walletLock, handoffLock>>
        BY <1>1 DEF HoldsWallet, Locked, locks
      <3> QED  BY <1>1, <1>6, <3>1 DEF PageLocks
    <2>5. PageFresh(page[t])'
      BY <1>6 DEF PageFresh
    <2> QED  BY <2>1, <2>2, <2>3, <2>4, <2>5 DEF PageOK
  <1>19. \A u \in Tabs : PageOK(u, page[u])'
    <2>1. \A u \in Tabs \ {t} : PageOK(u, page[u])'
      BY <1>1, <1>5, <1>7, OthersKeep
    <2> QED  BY <1>18, <2>1
  <1> QED  BY <1>9, <1>12, <1>13, <1>15, <1>16, <1>17, <1>19 DEF IInv

LEMMA Saves ==
    ASSUME IInv, NEW t \in Tabs, SaveIntent(t)
    PROVE  IInv'
  <1>1. CASE MaySave(page[t].flow, page[t].copy, page[t].intent)
    <2>1. UNCHANGED <<locks, chain, faults>>
      BY <1>1 DEF SaveIntent
    <2> QED  BY <1>1, <2>1, Asks DEF SaveIntent
  <1>2. CASE ~MaySave(page[t].flow, page[t].copy, page[t].intent)
    <2>1. page[t].pc = "saving" /\ faults' \in 0 .. MaxFaults /\ UNCHANGED <<store, chain>>
      BY <1>2 DEF SaveIntent, Writing, IInv, Types
    <2> QED  BY <1>2, <2>1, Closes DEF SaveIntent
  <1> QED  BY <1>1, <1>2

\* Tab t writes a list back that names what is open in its flow.
LEMMA Rewrites ==
    ASSUME IInv, NEW t \in Tabs, NEW list \in SUBSET Records, page[t].flow \in Flows,
           Write(t, list), \A r \in list : Asked(r, page[t].flow),
           \A n \in DOMAIN tx : Unresolved(n)' /\ tx[n].flow = page[t].flow =>
               \E r \in list : r.send = n,
           Calm, tx' \in Seq(Sendings), Len(tx') <= MaxSends, DOMAIN tx' = DOMAIN tx,
           page' \in [Tabs -> Pages], OthersStay(t), PageOK(t, page[t])',
           LockTypes', WalletLockStays(t), storeLock' \in Tabs \cup {None}, StoreLockStays(t),
           UNCHANGED <<chain, faults>>
    PROVE  IInv'
  <1> DEFINE flow == page[t].flow
  <1>1. Types
    BY DEF IInv
  <1>2. store'[flow] = list /\ \A f \in Flows \ {flow} : store'[f] = store[f]
    BY <1>1 DEF Write, Types
  <1>3. Types'
    <2>1. store' \in [Flows -> SUBSET Records]
      BY <1>1 DEF Write, Types
    <2> QED  BY <1>1, <2>1 DEF Types, LockTypes, chain
  <1>4. SendsOK'
    BY DEF IInv, SendsOK, Calm, SameSend
  <1>5. \A r, f : Asked(r, f) => Asked(r, f)'
    BY DEF Calm, SameSend, Asked, Known
  <1>6. StoresOK'
    <2> SUFFICES ASSUME NEW f \in Flows, NEW r \in store'[f]
                 PROVE  Asked(r, f)'
      BY DEF StoresOK
    <2>1. Asked(r, f)
      BY <1>2 DEF IInv, StoresOK
    <2> QED  BY <1>5, <2>1
  <1>7. AllRecorded'
    <2> SUFFICES ASSUME NEW n \in DOMAIN tx', Unresolved(n)'
                 PROVE  \E r \in store'[tx'[n].flow] : r.send = n
      BY DEF AllRecorded, RecordOf
    <2>1. n \in DOMAIN tx /\ Unresolved(n) /\ tx'[n].flow = tx[n].flow
      BY DEF Calm, SameSend
    <2>2. tx[n] \in Sendings
      BY <1>1, <2>1 DEF Types
    <2>3. tx[n].flow \in Flows
      BY <2>2 DEF Sendings
    <2>4. CASE tx[n].flow = flow
      BY <1>2, <2>1, <2>4
    <2>5. CASE tx[n].flow # flow
      BY <1>2, <2>1, <2>3, <2>5 DEF IInv, AllRecorded, RecordOf
    <2> QED  BY <2>4, <2>5
  <1>8. LocksStay(t) /\ UNCHANGED chain
    BY BothStay
  <1> QED  BY <1>3, <1>4, <1>6, <1>7, <1>8, CalmWrite

\* A tab that has read its list.
LEMMA Writes ==
    ASSUME IInv, NEW t \in Tabs, page[t].pc \in Storing, page[t].copy # None
    PROVE  /\ Types /\ page[t] \in Pages /\ PageOK(t, page[t]) /\ PageShape(page[t])
           /\ page[t].flow \in Flows /\ page[t].wallet \in Wallets
           /\ page[t].copy \in SUBSET Records
           /\ \A r \in page[t].copy : Asked(r, page[t].flow)
           /\ \A n \in DOMAIN tx : Unresolved(n) /\ tx[n].flow = page[t].flow =>
                 \E r \in page[t].copy : r.send = n
  <1>1. Types /\ page[t] \in Pages /\ PageOK(t, page[t])
    BY DEF IInv, Types
  <1>2. PageShape(page[t]) /\ PageFresh(page[t])
    BY <1>1 DEF PageOK
  <1>3. page[t].copy \in SUBSET Records
    BY <1>1 DEF Pages
  <1> QED  BY <1>1, <1>2, <1>3 DEF PageShape, PageFresh, Storing

LEMMA SameTx == Types /\ tx' = tx => /\ tx' \in Seq(Sendings) /\ Len(tx') <= MaxSends
                                     /\ DOMAIN tx' = DOMAIN tx /\ Calm
  BY QuietTx DEF Types

LEMMA Hashes ==
    ASSUME IInv, NEW t \in Tabs, SaveHash(t)
    PROVE  IInv'
  <1> DEFINE p == page[t]
             list == WithHash(p.flow, p.copy, p.intent)
             matching == Matching(p.flow, p.copy, p.intent)
  <1>1. /\ p.pc = "hashing" /\ p.copy # None /\ LeaveStore(t) /\ Release(t)
        /\ UNCHANGED <<tx, chain, faults>>
    BY DEF SaveHash, Writing
  <1>2. /\ Types /\ p \in Pages /\ PageOK(t, p) /\ PageShape(p) /\ p.flow \in Flows
        /\ p.wallet \in Wallets /\ p.copy \in SUBSET Records
        /\ \A r \in p.copy : Asked(r, p.flow)
        /\ \A n \in DOMAIN tx : Unresolved(n) /\ tx[n].flow = p.flow => \E r \in p.copy : r.send = n
    BY <1>1, Writes DEF Storing
  <1>3. /\ LockTypes' /\ WalletLockStays(t)
        /\ storeLock' \in Tabs \cup {None} /\ StoreLockStays(t)
    BY <1>1, <1>2, ReleaseLocks, LeaveStays
  <1>4. CASE ~MayHash(p.flow, p.copy, p.intent)
    <2>1. Finish(t) /\ UNCHANGED <<store, tx, chain, faults>>
      BY <1>1, <1>4 DEF SaveHash
    <2> QED  BY <1>3, <2>1, Finished
  <1>5. CASE MayHash(p.flow, p.copy, p.intent)
    <2>1. /\ Write(t, list)
          /\ page' = [page EXCEPT ![t].pc = "confirming", ![t].copy = None,
                                  ![t].intent = Hashed(p.intent)]
      BY <1>5 DEF SaveHash
    <2>2. p.intent \in Records /\ p.intent.wallet = p.wallet /\ Asked(p.intent, p.flow)
      BY <1>1, <1>2 DEF PageOK, PageShape, PageSends, Sending
    <2>3. /\ Hashed(p.intent) \in Records /\ Hashed(p.intent).send = p.intent.send
          /\ Hashed(p.intent).wallet = p.intent.wallet
      BY <2>2 DEF Hashed, Records
    <2>4. Asked(Hashed(p.intent), p.flow)
      BY <2>2, <2>3 DEF Asked, Known
    <2>11. matching \subseteq p.copy \cup {p.intent}
      BY <1>2 DEF Matching, SameAction, Of, Flows
    <2>12. ASSUME NEW q \in matching
           PROVE  Hashed(q) \in Records /\ Hashed(q).send = q.send /\ Asked(Hashed(q), p.flow)
      <3>1. q \in Records /\ Asked(q, p.flow)
        BY <1>2, <2>2, <2>11
      <3>2. Hashed(q) \in Records /\ Hashed(q).send = q.send /\ Hashed(q).wallet = q.wallet
        BY <3>1 DEF Hashed, Records
      <3> QED  BY <3>1, <3>2 DEF Asked, Known
    <2>5. list \in SUBSET Records /\ \A r \in list : Asked(r, p.flow)
      BY <1>2, <2>12 DEF WithHash
    <2>6. ASSUME NEW n \in DOMAIN tx, Unresolved(n)', tx[n].flow = p.flow
          PROVE  \E r \in list : r.send = n
      <3>1. Unresolved(n)
        BY <1>1, <2>6 DEF Unresolved
      <3>2. PICK r \in p.copy : r.send = n
        BY <1>2, <2>6, <3>1
      <3>3. CASE r \in matching
        <4>1. Hashed(r) \in list /\ Hashed(r).send = n
          BY <2>12, <3>2, <3>3 DEF WithHash
        <4> QED  BY <4>1
      <3>4. CASE r \notin matching
        BY <3>2, <3>4 DEF WithHash
      <3> QED  BY <3>3, <3>4
    <2>7. page' \in [Tabs -> Pages] /\ OthersStay(t)
      BY <1>2, <2>1, <2>3 DEF Types, Pages, Places, OthersStay
    <2>8. /\ page'[t].pc = "confirming" /\ page'[t].copy = None /\ page'[t].flow = p.flow
          /\ page'[t].wallet = p.wallet /\ page'[t].intent = Hashed(p.intent)
      BY <1>2, <2>1 DEF Types, Pages
    <2>9. PageOK(t, page[t])'
      <3>1. PageShape(page[t])'
        BY <1>2, <2>2, <2>3, <2>8 DEF PageShape
      <3>2. PageSends(page[t])'
        BY <1>1, <2>4, <2>8 DEF PageSends, Over, Asked, Known
      <3>3. PageQuiet(page[t])'
        BY <2>8 DEF PageQuiet, Quiet
      <3>4. PageLocks(t, page[t])'
        BY <2>8 DEF PageLocks, HoldsWallet, Locked
      <3>5. PageFresh(page[t])'
        BY <2>8 DEF PageFresh
      <3> QED  BY <3>1, <3>2, <3>3, <3>4, <3>5 DEF PageOK
    <2>10. /\ tx' \in Seq(Sendings) /\ Len(tx') <= MaxSends
           /\ DOMAIN tx' = DOMAIN tx /\ Calm /\ UNCHANGED <<chain, faults>>
      BY <1>1, <1>2, SameTx
    <2> QED  BY <1>2, <1>3, <2>1, <2>5, <2>6, <2>7, <2>9, <2>10, Rewrites
  <1> QED  BY <1>4, <1>5

LEMMA Removes ==
    ASSUME IInv, NEW t \in Tabs, RemoveRecord(t)
    PROVE  IInv'
  <1> DEFINE p == page[t]
             n == p.intent.send
             list == p.copy \ {p.intent}
             may == IF p.pc = "resolving" THEN MayResolve(p.flow, p.copy, p.intent)
                                          ELSE MayClear(p.flow, p.copy, p.intent)
  <1>1. /\ p.pc \in Over /\ p.copy # None /\ LeaveStore(t) /\ Release(t) /\ Finish(t)
        /\ UNCHANGED <<chain, faults>>
    BY DEF RemoveRecord, Writing, Over
  <1>2. /\ Types /\ p \in Pages /\ PageOK(t, p) /\ PageShape(p) /\ p.flow \in Flows
        /\ p.wallet \in Wallets /\ p.copy \in SUBSET Records
        /\ \A r \in p.copy : Asked(r, p.flow)
        /\ \A m \in DOMAIN tx : Unresolved(m) /\ tx[m].flow = p.flow => \E r \in p.copy : r.send = m
    BY <1>1, Writes DEF Storing, Over
  <1>3. /\ LockTypes' /\ WalletLockStays(t)
        /\ storeLock' \in Tabs \cup {None} /\ StoreLockStays(t)
    BY <1>1, <1>2, ReleaseLocks, LeaveStays
  <1>4. CASE ~may
    <2>1. UNCHANGED <<store, tx>>
      BY <1>4 DEF RemoveRecord
    <2>2. UNCHANGED <<store, tx, chain, faults>>
      BY <1>1, <2>1
    <2> QED  BY <1>1, <1>3, <2>2, Finished
  <1>5. CASE may
    <2>1. Write(t, list) /\ SetTx(n, "closed")
      BY <1>5 DEF RemoveRecord
    <2>2. n \in DOMAIN tx /\ tx[n].state # "intended" /\ ~Unresolved(n)
      BY <1>1, <1>2 DEF PageOK, PageSends, Sending, Over, Asked, Known
    <2>3. /\ tx' \in Seq(Sendings) /\ Len(tx') <= MaxSends
          /\ DOMAIN tx' = DOMAIN tx /\ tx'[n].state = "closed"
          /\ \A m \in DOMAIN tx : SameSend(m) /\ (m # n => tx'[m] = tx[m])
      BY <1>2, <2>1, <2>2, SetState DEF States
    <2>4. Calm
      BY <2>2, <2>3 DEF Calm, Unresolved
    <2>5. list \in SUBSET Records /\ \A r \in list : Asked(r, p.flow)
      BY <1>2
    <2>6. ASSUME NEW m \in DOMAIN tx, Unresolved(m)', tx[m].flow = p.flow
          PROVE  \E r \in list : r.send = m
      <3>1. m # n /\ Unresolved(m)
        BY <2>3, <2>6 DEF Unresolved
      <3> QED  BY <1>2, <2>6, <3>1
    <2>7. page' \in [Tabs -> Pages] /\ OthersStay(t) /\ PageOK(t, page[t])'
      BY <1>1, <1>2, FinishPage
    <2> QED  BY <1>1, <1>2, <1>3, <2>1, <2>3, <2>4, <2>5, <2>6, <2>7, Rewrites
  <1> QED  BY <1>4, <1>5

LEMMA Resets ==
    ASSUME IInv, ~erased', NEW t \in Tabs, ResetStore(t)
    PROVE  IInv'
  <1> DEFINE p == page[t]
             list == Reset(p.flow, p.copy, p.wallet)
  <1>1. /\ p.pc = "resetting" /\ p.copy # None /\ LeaveStore(t) /\ Release(t) /\ Finish(t)
        /\ Write(t, list) /\ UNCHANGED <<tx, chain, faults>>
    BY DEF ResetStore, Writing
  <1>2. /\ Types /\ p \in Pages /\ PageOK(t, p) /\ PageShape(p) /\ p.flow \in Flows
        /\ p.wallet \in Wallets /\ p.copy \in SUBSET Records
        /\ \A r \in p.copy : Asked(r, p.flow)
        /\ \A n \in DOMAIN tx : Unresolved(n) /\ tx[n].flow = p.flow => \E r \in p.copy : r.send = n
    BY <1>1, Writes DEF Storing
  <1>3. p.flow \in FlowsOf[p.wallet] /\ p.flow \in {"claim", "handoff", "keeper"}
    BY <1>1, <1>2 DEF PageShape
  <1>4. \A n \in DOMAIN tx : tx[n].wallet = p.wallet => ~Unresolved(n)
    BY <1>1, <1>2 DEF PageOK, PageQuiet, Quiet
  <1>5. list \in SUBSET p.copy
    BY <1>3 DEF Reset, ClaimsReset, ActionsReset, UpdatesReset
  <1>6. list \in SUBSET Records /\ \A r \in list : Asked(r, p.flow)
    BY <1>2, <1>5
  <1>7. ASSUME NEW n \in DOMAIN tx, Unresolved(n)', tx[n].flow = p.flow
        PROVE  \E r \in list : r.send = n
    <2>1. Unresolved(n)
      BY <1>1, <1>7 DEF Unresolved
    <2>2. PICK r \in p.copy : r.send = n
      BY <1>2, <1>7, <2>1
    <2>3. r.wallet # p.wallet
      BY <1>2, <1>4, <2>1, <2>2 DEF Asked, Known
    <2>4. ~\E q \in p.copy \ list : q.wallet # p.wallet
      BY DEF ResetStore
    <2>5. r \in list
      BY <2>2, <2>3, <2>4
    <2> QED  BY <2>2, <2>5
  <1>8. page' \in [Tabs -> Pages] /\ OthersStay(t) /\ PageOK(t, page[t])'
    BY <1>1, <1>2, FinishPage
  <1>9. /\ LockTypes' /\ WalletLockStays(t)
        /\ storeLock' \in Tabs \cup {None} /\ StoreLockStays(t)
    BY <1>1, <1>2, ReleaseLocks, LeaveStays
  <1>10. /\ tx' \in Seq(Sendings) /\ Len(tx') <= MaxSends
         /\ DOMAIN tx' = DOMAIN tx /\ Calm /\ UNCHANGED <<chain, faults>>
    BY <1>1, <1>2, SameTx
  <1> QED  BY <1>1, <1>2, <1>6, <1>7, <1>8, <1>9, <1>10, Rewrites

-----------------------------------------------------------------------------
(* Steps of one tab that touch no store.                                     *)

\* A tab gives up.
LEMMA GivesUp ==
    ASSUME IInv, NEW t \in Tabs, LocksBusy(t) \/ DropPrepared(t) \/ CheckFails(t)
    PROVE  IInv'
  <1>1. Types
    BY DEF IInv
  <1>2. Finish(t) /\ UNCHANGED storeLock /\ UNCHANGED <<store, tx, chain, faults>>
    BY DEF LocksBusy, DropPrepared, CheckFails
  <1>3. Release(t) \/ UNCHANGED locks
    BY DEF LocksBusy, DropPrepared, CheckFails
  <1>4. LockTypes' /\ WalletLockStays(t)
    BY <1>1, <1>3, ReleaseLocks, SameLocks
  <1> QED  BY <1>1, <1>2, <1>4, SameStoreLock, Finished

LEMMA CutsShort ==
    ASSUME IInv, NEW t \in Tabs, CutShort(t)
    PROVE  IInv'
  <1>1. Types
    BY DEF IInv
  <1>2. /\ Release(t) /\ LeaveStore(t) /\ Finish(t) /\ UNCHANGED <<store, chain>>
        /\ faults < MaxFaults /\ faults' = faults + 1
    BY DEF CutShort
  <1>3. faults' \in 0 .. MaxFaults
    BY <1>1, <1>2, WalletsAssumption DEF Types
  <1>4. CASE page[t].pc = "saving"
    <2>1. SetTx(page[t].intent.send, "closed")
      BY <1>4 DEF CutShort, SetTx
    <2> QED  BY <1>2, <1>3, <1>4, <2>1, Closes
  <1>5. CASE page[t].pc # "saving"
    <2>1. UNCHANGED <<store, tx, chain>>
      BY <1>2, <1>5 DEF CutShort
    <2>2. page' \in [Tabs -> Pages] /\ OthersStay(t) /\ PageOK(t, page[t])'
      BY <1>1, <1>2, FinishPage
    <2>3. /\ LockTypes' /\ WalletLockStays(t)
          /\ storeLock' \in Tabs \cup {None} /\ StoreLockStays(t)
      BY <1>1, <1>2, ReleaseLocks, LeaveStays
    <2> QED  BY <1>3, <2>1, <2>2, <2>3, PageTurn
  <1> QED  BY <1>4, <1>5

\* The tab goes on with the record it has in hand.
LEMMA GoesOn ==
    ASSUME IInv, NEW t \in Tabs, page[t].pc \in {"prompting", "confirming"},
           NEW place \in {"hashing", "refusing", "resolving"}, Goto(t, place),
           place = "hashing" => page[t].pc = "prompting" /\ UNCHANGED locks,
           Release(t) \/ UNCHANGED locks,
           place \in Over => ~Unresolved(page[t].intent.send),
           UNCHANGED <<store, storeLock, tx, chain, faults>>
    PROVE  IInv'
  <1> DEFINE p == page[t]
  <1>1. Types /\ p \in Pages /\ PageOK(t, p) /\ PageShape(p)
    BY DEF IInv, Types, PageOK
  <1>2. place \in Places
    BY DEF Places, Storing
  <1>3. page' \in [Tabs -> Pages] /\ OthersStay(t) /\ page'[t] = [p EXCEPT !.pc = place, !.copy = None]
    BY <1>1, <1>2, GotoPage
  <1>4. /\ page'[t].pc = place /\ page'[t].copy = None /\ page'[t].flow = p.flow
        /\ page'[t].wallet = p.wallet /\ page'[t].intent = p.intent
    BY <1>1, <1>3 DEF Pages
  <1>5. /\ LockTypes' /\ WalletLockStays(t)
        /\ storeLock' \in Tabs \cup {None} /\ StoreLockStays(t)
    BY <1>1, ReleaseLocks, SameLocks, SameStoreLock
  <1>6. PageOK(t, page[t])'
    <2>1. PageShape(page[t])'
      BY <1>1, <1>4 DEF PageShape, Sending
    <2>2. PageSends(page[t])'
      <3>1. Asked(p.intent, p.flow)
        BY <1>1 DEF PageOK, PageSends, Sending
      <3> QED  BY <1>4, <3>1 DEF PageSends, Asked, Known, Unresolved
    <2>3. PageQuiet(page[t])'
      BY <1>4 DEF PageQuiet, Quiet
    <2>4. PageLocks(t, page[t])'
      <3>1. CASE place = "hashing"
        <4>1. HoldsWallet(p) /\ UNCHANGED <<walletLock, handoffLock>>
          BY <3>1 DEF HoldsWallet, Locked, locks
        <4> QED  BY <1>1, <1>4, <4>1 DEF PageOK, PageLocks
      <3>2. CASE place # "hashing"
        BY <1>4, <3>2 DEF PageLocks, HoldsWallet, Locked
      <3> QED  BY <3>1, <3>2
    <2>5. PageFresh(page[t])'
      BY <1>4 DEF PageFresh
    <2> QED  BY <2>1, <2>2, <2>3, <2>4, <2>5 DEF PageOK
  <1>7. faults' \in 0 .. MaxFaults /\ UNCHANGED <<store, tx, chain>>
    BY <1>1 DEF Types
  <1> QED  BY <1>3, <1>5, <1>6, <1>7, PageTurn

LEMMA Hears ==
    ASSUME IInv, NEW t \in Tabs, ReceiveHash(t) \/ ReceiveRefusal(t)
    PROVE  IInv'
  <1>1. CASE ReceiveHash(t)
    <2>1. /\ page[t].pc = "prompting" /\ Goto(t, "hashing") /\ UNCHANGED locks
          /\ UNCHANGED <<store, storeLock, tx, chain, faults>>
      BY <1>1 DEF ReceiveHash
    <2> QED  BY <2>1, GoesOn DEF Over
  <1>2. CASE ReceiveRefusal(t)
    <2>1. /\ page[t].pc = "prompting" /\ Goto(t, "refusing") /\ Release(t)
          /\ ~Unresolved(page[t].intent.send)
          /\ UNCHANGED <<store, storeLock, tx, chain, faults>>
      BY <1>2 DEF ReceiveRefusal, Unresolved
    <2> QED  BY <2>1, GoesOn DEF Over
  <1> QED  BY <1>1, <1>2

LEMMA Confirms ==
    ASSUME IInv, NEW t \in Tabs, NEW flow, NEW acts, Confirming(t, flow, acts, {"ok", "failed"})
    PROVE  IInv'
  <1>1. /\ page[t].pc = "confirming" /\ Goto(t, "resolving") /\ UNCHANGED locks
        /\ ~Unresolved(page[t].intent.send)
        /\ UNCHANGED <<store, storeLock, tx, chain, faults>>
    BY DEF Confirming, At, Unresolved
  <1> QED  BY <1>1, GoesOn DEF Over

\* What a surface restores is in its store.
LEMMA Restored ==
    ASSUME NEW s, NEW w
    PROVE  /\ PendingLaunch(s, w) \subseteq Of(s, w) /\ PendingTrade(s, w) \subseteq Of(s, w)
           /\ PendingClaim(s, w) \subseteq Of(s, w) /\ PendingUpdate(s, w) \subseteq Of(s, w)
           /\ PendingAction(s, w) \subseteq Of(s, w)
  BY DEF PendingLaunch, PendingTrade, PendingClaim, PendingUpdate, PendingAction

LEMMA Reconciles ==
    ASSUME IInv, NEW t \in Tabs, NEW w \in Wallets, NEW flow \in Flows,
           NEW records \in SUBSET Of(store[flow], w), Reconciling(t, w, flow, records)
    PROVE  IInv'
  <1>1. Types
    BY DEF IInv
  <1>2. PICK r \in records :
          page' = [page EXCEPT ![t] = [Idle EXCEPT !.pc = "confirming", !.flow = flow,
                       !.act = tx[r.send].act, !.wallet = w, !.intent = r]]
    BY DEF Reconciling
  <1> DEFINE q == [Idle EXCEPT !.pc = "confirming", !.flow = flow,
                       !.act = tx[r.send].act, !.wallet = w, !.intent = r]
  <1>3. r \in store[flow] /\ r.wallet = w /\ Asked(r, flow) /\ r \in Records
    BY <1>1 DEF Of, IInv, StoresOK, Types
  <1>4. tx[r.send].act \in Acts
    <2>1. tx[r.send] \in Sendings
      BY <1>1, <1>3 DEF Types, Asked, Known
    <2> QED  BY <2>1 DEF Sendings
  <1>5. /\ q \in Pages /\ q.pc = "confirming" /\ q.flow = flow /\ q.wallet = w
        /\ q.intent = r /\ q.copy = None
    BY <1>3, <1>4 DEF Idle, Pages, Places, Plans
  <1>6. page' \in [Tabs -> Pages] /\ OthersStay(t) /\ page'[t] = q
    BY <1>1, <1>2, <1>5 DEF Types, OthersStay
  <1>7. PageOK(t, page[t])'
    <2>1. PageShape(page[t])'
      BY <1>3, <1>5, <1>6 DEF PageShape
    <2>2. PageSends(page[t])'
      <3>1. tx' = tx
        BY DEF Reconciling
      <3> QED  BY <1>3, <1>5, <1>6, <3>1 DEF PageSends, Over, Asked, Known
    <2>3. PageQuiet(page[t])'
      BY <1>5, <1>6 DEF PageQuiet, Quiet
    <2>4. PageLocks(t, page[t])'
      BY <1>5, <1>6 DEF PageLocks, HoldsWallet, Locked
    <2>5. PageFresh(page[t])'
      BY <1>5, <1>6 DEF PageFresh
    <2> QED  BY <2>1, <2>2, <2>3, <2>4, <2>5 DEF PageOK
  <1>8. /\ LockTypes' /\ WalletLockStays(t)
        /\ storeLock' \in Tabs \cup {None} /\ StoreLockStays(t)
    BY <1>1, SameLocks, SameStoreLock DEF Reconciling
  <1>9. faults' \in 0 .. MaxFaults /\ UNCHANGED <<store, tx, chain>>
    BY <1>1 DEF Types, Reconciling
  <1> QED  BY <1>6, <1>7, <1>8, <1>9, PageTurn

\* The locks a surface holds before it changes records by hand.
ByHand(t, w, flow) == /\ LockTypes' /\ WalletLockStays(t) /\ walletLock'[w] = t
                      /\ flow = "handoff" => handoffLock' = t

LEMMA Clears ==
    ASSUME IInv, NEW t \in Tabs, NEW w \in Wallets, NEW flow \in Flows,
           NEW records \in SUBSET Of(store[flow], w), Clearing(t, w, flow, records),
           ByHand(t, w, flow)
    PROVE  IInv'
  <1>1. Types
    BY DEF IInv
  <1>2. PICK r \in records :
          page' = [page EXCEPT ![t] = [Idle EXCEPT !.pc = "clearing", !.flow = flow,
                       !.wallet = w, !.intent = r]]
    BY DEF Clearing
  <1> DEFINE q == [Idle EXCEPT !.pc = "clearing", !.flow = flow, !.wallet = w, !.intent = r]
  <1>3. r \in store[flow] /\ r.wallet = w /\ Asked(r, flow) /\ r \in Records
    BY <1>1 DEF Of, IInv, StoresOK, Types
  <1>4. \A n \in DOMAIN tx : tx[n].wallet = w => ~Unresolved(n)
    BY DEF Clearing, Reviewed, Unresolved
  <1>5. /\ q \in Pages /\ q.pc = "clearing" /\ q.flow = flow /\ q.wallet = w
        /\ q.intent = r /\ q.copy = None
    BY <1>3 DEF Idle, Pages, Places, Plans, Storing
  <1>6. page' \in [Tabs -> Pages] /\ OthersStay(t) /\ page'[t] = q
    BY <1>1, <1>2, <1>5 DEF Types, OthersStay
  <1>7. tx' = tx
    BY DEF Clearing
  <1>8. PageOK(t, page[t])'
    <2>1. PageShape(page[t])'
      BY <1>3, <1>5, <1>6 DEF PageShape
    <2>2. PageSends(page[t])'
      <3>1. ~Unresolved(r.send)
        BY <1>3, <1>4 DEF Asked, Known
      <3> QED  BY <1>3, <1>5, <1>6, <1>7, <3>1 DEF PageSends, Asked, Known, Unresolved
    <2>3. PageQuiet(page[t])'
      BY <1>4, <1>5, <1>6, <1>7 DEF PageQuiet, Unresolved
    <2>4. PageLocks(t, page[t])'
      BY <1>5, <1>6 DEF PageLocks, ByHand
    <2>5. PageFresh(page[t])'
      BY <1>5, <1>6 DEF PageFresh
    <2> QED  BY <2>1, <2>2, <2>3, <2>4, <2>5 DEF PageOK
  <1>9. /\ LockTypes' /\ WalletLockStays(t)
        /\ storeLock' \in Tabs \cup {None} /\ StoreLockStays(t)
    BY <1>1, SameStoreLock DEF Clearing, ByHand
  <1>10. faults' \in 0 .. MaxFaults /\ UNCHANGED <<store, tx, chain>>
    BY <1>1 DEF Types, Clearing
  <1> QED  BY <1>6, <1>8, <1>9, <1>10, PageTurn

LEMMA Unlocks ==
    ASSUME IInv, NEW t \in Tabs, NEW w \in Wallets, NEW flow \in {"claim", "handoff", "keeper"},
           Resetting(t, w, flow), ByHand(t, w, flow)
    PROVE  IInv'
  <1> DEFINE q == [Idle EXCEPT !.pc = "resetting", !.flow = flow, !.wallet = w]
  <1>1. Types
    BY DEF IInv
  <1>2. flow \in Flows /\ flow \in FlowsOf[w]
    BY DEF Resetting, Flows
  <1>3. \A n \in DOMAIN tx : tx[n].wallet = w => ~Unresolved(n)
    BY DEF Resetting, Reviewed, Unresolved
  <1>4. q \in Pages /\ q.pc = "resetting" /\ q.flow = flow /\ q.wallet = w /\ q.copy = None
    BY <1>2 DEF Idle, Pages, Places, Plans, Storing
  <1>5. page' \in [Tabs -> Pages] /\ OthersStay(t) /\ page'[t] = q
    BY <1>1, <1>4 DEF Types, OthersStay, Resetting
  <1>6. tx' = tx
    BY DEF Resetting
  <1>7. PageOK(t, page[t])'
    <2>1. PageShape(page[t])'
      BY <1>2, <1>4, <1>5 DEF PageShape, Sending
    <2>2. PageSends(page[t])'
      BY <1>4, <1>5 DEF PageSends, Sending, Over
    <2>3. PageQuiet(page[t])'
      BY <1>3, <1>4, <1>5, <1>6 DEF PageQuiet, Unresolved
    <2>4. PageLocks(t, page[t])'
      BY <1>4, <1>5 DEF PageLocks, ByHand
    <2>5. PageFresh(page[t])'
      BY <1>4, <1>5 DEF PageFresh
    <2> QED  BY <2>1, <2>2, <2>3, <2>4, <2>5 DEF PageOK
  <1>8. /\ LockTypes' /\ WalletLockStays(t)
        /\ storeLock' \in Tabs \cup {None} /\ StoreLockStays(t)
    BY <1>1, SameStoreLock DEF Resetting, ByHand
  <1>9. faults' \in 0 .. MaxFaults /\ UNCHANGED <<store, tx, chain>>
    BY <1>1 DEF Types, Resetting
  <1> QED  BY <1>5, <1>7, <1>8, <1>9, PageTurn

\* A launch is prepared, or its plan is renewed.
LEMMA Plan ==
    ASSUME Types, NEW w \in Wallets
    PROVE  LaunchPlan(w) \in Plans
  <1>1. allowance[w].factory \in 0 .. 2
    BY DEF Types
  <1> QED  BY <1>1 DEF LaunchPlan, FactoryPreflight, ExactApprovalPlan, Required, Plans

LEMMA Prepares ==
    ASSUME IInv, NEW t \in Tabs, NEW w \in Wallets, Release(t) \/ UNCHANGED locks,
           page' = [page EXCEPT ![t] = [Idle EXCEPT !.pc = "prepared", !.flow = "launch",
                                        !.wallet = w, !.plan = LaunchPlan(w)]],
           UNCHANGED <<store, storeLock, tx, chain, faults>>
    PROVE  IInv'
  <1> DEFINE q == [Idle EXCEPT !.pc = "prepared", !.flow = "launch", !.wallet = w,
                               !.plan = LaunchPlan(w)]
  <1>1. Types
    BY DEF IInv
  <1>2. q \in Pages /\ q.pc = "prepared" /\ q.flow = "launch" /\ q.wallet = w /\ q.copy = None
    BY <1>1, Plan DEF Idle, Pages, Places, Flows
  <1>3. page' \in [Tabs -> Pages] /\ OthersStay(t) /\ page'[t] = q
    BY <1>1, <1>2 DEF Types, OthersStay
  <1>4. PageOK(t, page[t])'
    <2>1. PageShape(page[t])'
      BY <1>2, <1>3 DEF PageShape, Sending, Flows
    <2>2. PageSends(page[t])' /\ PageQuiet(page[t])' /\ PageFresh(page[t])'
      BY <1>2, <1>3 DEF PageSends, PageQuiet, PageFresh, Sending, Over, Quiet
    <2>3. PageLocks(t, page[t])'
      BY <1>2, <1>3 DEF PageLocks, HoldsWallet, Locked
    <2> QED  BY <2>1, <2>2, <2>3 DEF PageOK
  <1>5. /\ LockTypes' /\ WalletLockStays(t)
        /\ storeLock' \in Tabs \cup {None} /\ StoreLockStays(t)
    BY <1>1, ReleaseLocks, SameLocks, SameStoreLock
  <1>6. faults' \in 0 .. MaxFaults /\ UNCHANGED <<store, tx, chain>>
    BY <1>1 DEF Types
  <1> QED  BY <1>3, <1>4, <1>5, <1>6, PageTurn

-----------------------------------------------------------------------------
(* The user and the chain.                                                   *)

\* A request is answered or mined: what others checked still holds.
LEMMA Answered ==
    ASSUME IInv, NEW n \in DOMAIN tx, Unresolved(n),
           NEW s \in {"sent", "refused", "ok", "empty", "failed"}, SetTx(n, s),
           UNCHANGED <<store, locks, storeLock, page, faults>>,
           allowance' \in [Wallets -> [factory : 0 .. 2, router : 0 .. 2]],
           creator' \in Wallets, owed' \in BOOLEAN,
           s = "sent" => UNCHANGED chain,
           \A m \in DOMAIN tx : SameSend(m) /\ tx[m].wallet # tx[n].wallet /\ Facts(m) => Facts(m)'
    PROVE  IInv'
  <1>1. Types
    BY DEF IInv
  <1>2. /\ tx' \in Seq(Sendings) /\ Len(tx') <= MaxSends
        /\ DOMAIN tx' = DOMAIN tx /\ tx'[n].state = s
        /\ \A m \in DOMAIN tx : SameSend(m) /\ (m # n => tx'[m] = tx[m])
    BY <1>1, SetState DEF States
  <1>3. UNCHANGED <<walletLock, handoffLock, storeLock, page>>
    BY DEF locks
  <1>4. Types'
    BY <1>1, <1>2, <1>3 DEF Types
  <1>5. Calm
    BY <1>2 DEF Calm, Unresolved
  <1>6. StoresOK' /\ AllRecorded'
    BY <1>5, StoresSame
  <1>7. SendsOK'
    BY <1>2 DEF IInv, SendsOK, SameSend
  <1>8. AllFactsHold'
    <2> SUFFICES ASSUME NEW m \in DOMAIN tx', Unresolved(m)'
                 PROVE  Facts(m)'
      BY DEF AllFactsHold
    <2>1. m \in DOMAIN tx /\ Unresolved(m) /\ SameSend(m)
      BY <1>5 DEF Calm
    <2>2. Facts(m)
      BY <2>1 DEF IInv, AllFactsHold, Facts
    <2>3. CASE m = n
      <3>1. UNCHANGED chain
        BY <1>2, <2>3 DEF Unresolved
      <3> QED  BY <2>1, <2>2, <3>1 DEF Facts, SameSend, chain
    <2>4. CASE m # n
      <3>1. tx[m].wallet # tx[n].wallet
        BY <2>1, <2>4 DEF IInv, OneOpen
      <3> QED  BY <2>1, <2>2, <3>1
    <2> QED  BY <2>3, <2>4
  <1>9. ASSUME NEW u \in Tabs
        PROVE  Untouched(u)
    <2>1. ASSUME page[u].pc = "saving"
          PROVE  Facts(page[u].intent.send)'
      <3> DEFINE k == page[u].intent.send
      <3>1. PageShape(page[u]) /\ PageSends(page[u]) /\ PageQuiet(page[u])
        BY DEF IInv, PageOK
      <3>2. k \in DOMAIN tx /\ tx[k].wallet = page[u].wallet /\ Facts(k)
        BY <2>1, <3>1 DEF PageSends, PageShape, Sending, Known
      <3>3. tx[n].wallet # page[u].wallet
        BY <2>1, <3>1 DEF PageQuiet, Quiet
      <3>4. \A m : m = k => Facts(m)'
        BY <1>2, <3>2, <3>3
      <3> QED  BY <1>3, <3>4
    <2> QED  BY <1>3, <2>1 DEF Untouched
  <1> QED  BY <1>4, <1>5, <1>6, <1>7, <1>8, <1>9, CalmStep

LEMMA UserAnswered ==
    ASSUME IInv, NEW n \in DOMAIN tx, UserAnswers(n)
    PROVE  IInv'
  <1>1. Unresolved(n) /\ UNCHANGED <<store, locks, storeLock, page, faults>> /\ UNCHANGED chain
    BY DEF UserAnswers, Unresolved
  <1>2. PICK s \in {"sent", "refused"} : SetTx(n, s)
    BY DEF UserAnswers
  <1>3. /\ allowance' \in [Wallets -> [factory : 0 .. 2, router : 0 .. 2]]
        /\ creator' \in Wallets /\ owed' \in BOOLEAN
    BY <1>1 DEF IInv, Types, chain
  <1>4. \A m \in DOMAIN tx : SameSend(m) /\ Facts(m) => Facts(m)'
    BY <1>1 DEF SameSend, Facts, chain
  <1> QED  BY <1>1, <1>2, <1>3, <1>4, Answered

\* A mined transaction changes the allowances of its own wallet, and the rights
\* and the fees of the creator who sent it.
LEMMA OthersFacts ==
    ASSUME NEW n \in DOMAIN tx, Types,
           \A w \in Wallets \ {tx[n].wallet} : allowance'[w] = allowance[w],
           UNCHANGED <<creator, owed>> \/ creator = tx[n].wallet
    PROVE  \A m \in DOMAIN tx :
               SameSend(m) /\ tx[m].wallet # tx[n].wallet /\ Facts(m) => Facts(m)'
  <1> SUFFICES ASSUME NEW m \in DOMAIN tx, SameSend(m), tx[m].wallet # tx[n].wallet, Facts(m)
               PROVE  Facts(m)'
    OBVIOUS
  <1>1. tx[m] \in Sendings
    BY DEF Types
  <1>2. tx[m].wallet \in Wallets
    BY <1>1 DEF Sendings
  <1> QED  BY <1>2 DEF Facts, SameSend

LEMMA Mining ==
    ASSUME IInv, NEW n \in DOMAIN tx, Mines(n)
    PROVE  IInv'
  <1> DEFINE w == tx[n].wallet
             Rest == UNCHANGED <<store, locks, storeLock, page, faults>>
             Kept == \A v \in Wallets \ {w} : allowance'[v] = allowance[v]
             Ranges == /\ allowance' \in [Wallets -> [factory : 0 .. 2, router : 0 .. 2]]
                       /\ creator' \in Wallets /\ owed' \in BOOLEAN
  <1>1. Types
    BY DEF IInv
  <1>2. tx[n] \in Sendings
    BY <1>1 DEF Types
  <1>3. w \in Wallets /\ tx[n].amount \in 0 .. 2
    BY <1>2 DEF Sendings
  <1>4. ASSUME NEW s \in {"ok", "empty", "failed"}, tx[n].state = "sent", SetTx(n, s), Rest,
               Kept, Ranges, UNCHANGED <<creator, owed>> \/ creator = w
        PROVE  IInv'
    <2>1. Unresolved(n) /\ (s = "sent" => UNCHANGED chain)
      BY <1>4 DEF Unresolved
    <2>2. \A m \in DOMAIN tx : SameSend(m) /\ tx[m].wallet # tx[n].wallet /\ Facts(m) => Facts(m)'
      BY <1>1, <1>4, OthersFacts
    <2> QED  BY <1>4, <2>1, <2>2, Answered
  <1>5. CASE Reverts(n)
    <2>1. /\ tx[n].state = "sent" /\ SetTx(n, "failed") /\ Rest
          /\ UNCHANGED <<allowance, creator, owed>>
      BY <1>5 DEF Reverts, chain
    <2> QED  BY <1>1, <1>4, <2>1 DEF Types
  <1>6. CASE MineApproval(n) \/ MineLaunch(n)
    <2>1. /\ tx[n].state = "sent" /\ SetTx(n, "ok") /\ Rest /\ UNCHANGED <<creator, owed>>
      BY <1>6 DEF MineApproval, MineLaunch, Mined
    <2>2. PICK a \in 0 .. 2 : allowance' = [allowance EXCEPT ![w].factory = a]
      BY <1>3, <1>6 DEF MineApproval, MineLaunch
    <2>3. Kept /\ Ranges
      BY <1>1, <1>3, <2>1, <2>2 DEF Types
    <2> QED  BY <1>4, <2>1, <2>3
  <1>7. CASE MineTradeApproval(n) \/ MineTrade(n)
    <2>1. /\ tx[n].state = "sent" /\ SetTx(n, "ok") /\ Rest /\ UNCHANGED <<creator, owed>>
      BY <1>7 DEF MineTradeApproval, MineTrade, Mined
    <2>2. PICK a \in 0 .. 2 : allowance' = [allowance EXCEPT ![w].router = a]
      BY <1>3, <1>7 DEF MineTradeApproval, MineTrade
    <2>3. Kept /\ Ranges
      BY <1>1, <1>3, <2>1, <2>2 DEF Types
    <2> QED  BY <1>4, <2>1, <2>3
  <1>8. CASE MineClaim(n)
    <2>1. /\ tx[n].state = "sent" /\ SetTx(n, IF owed THEN "ok" ELSE "empty") /\ Rest
          /\ creator = w /\ owed' = FALSE /\ UNCHANGED <<allowance, creator>>
      BY <1>8 DEF MineClaim
    <2>2. Kept /\ Ranges
      BY <1>1, <2>1 DEF Types
    <2> QED  BY <1>4, <2>1, <2>2
  <1>9. CASE MineHandoff(n)
    <2>1. /\ tx[n].state = "sent" /\ SetTx(n, "ok") /\ Rest
          /\ creator = w /\ creator' \in Wallets /\ UNCHANGED <<allowance, owed>>
      BY <1>9 DEF MineHandoff, Mined
    <2>2. Kept /\ Ranges
      BY <1>1, <2>1 DEF Types
    <2> QED  BY <1>4, <2>1, <2>2
  <1>10. CASE MineKeeper(n)
    <2>1. /\ tx[n].state = "sent" /\ SetTx(n, "ok") /\ Rest
          /\ UNCHANGED <<allowance, creator, owed>>
      BY <1>10 DEF MineKeeper, Mined, chain
    <2>2. Kept /\ Ranges
      BY <1>1, <2>1 DEF Types
    <2> QED  BY <1>4, <2>1, <2>2
  <1> QED  BY <1>5, <1>6, <1>7, <1>8, <1>9, <1>10 DEF Mines, LaunchMined, TradeMined, CreatorMined

\* Nobody's page, lock or sending changes.
LEMMA Aside ==
    ASSUME IInv, Types', StoresOK', AllRecorded',
           UNCHANGED <<locks, storeLock, page, tx>>,
           \A m \in DOMAIN tx : Facts(m) => Facts(m)'
    PROVE  IInv'
  <1>1. Calm /\ UNCHANGED <<walletLock, handoffLock, storeLock, page, tx>>
    BY QuietTx DEF locks
  <1>2. SendsOK'
    BY <1>1 DEF IInv, SendsOK
  <1>3. AllFactsHold'
    BY <1>1 DEF IInv, AllFactsHold, Facts, Unresolved
  <1>4. ASSUME NEW u \in Tabs
        PROVE  Untouched(u)
    <2>1. page[u].pc = "saving" => Facts(page[u].intent.send)'
      <3> SUFFICES ASSUME page[u].pc = "saving"
                   PROVE  Facts(page[u].intent.send)'
        OBVIOUS
      <3>1. page[u].intent.send \in DOMAIN tx /\ Facts(page[u].intent.send)
        BY DEF IInv, PageOK, PageSends, Known
      <3>2. \A m : m = page[u].intent.send => Facts(m)'
        BY <3>1
      <3> QED  BY <1>1, <3>2
    <2> QED  BY <1>1, <2>1 DEF Untouched
  <1> QED  BY <1>1, <1>2, <1>3, <1>4, CalmStep

LEMMA Accrues ==
    ASSUME IInv, FeesAccrue
    PROVE  IInv'
  <1>1. owed' = TRUE /\ UNCHANGED <<store, locks, storeLock, page, tx, allowance, creator, faults>>
    BY DEF FeesAccrue
  <1>2. Types'
    BY <1>1 DEF IInv, Types, locks
  <1>3. StoresOK' /\ AllRecorded'
    BY <1>1, QuietTx, StoresSame
  <1>4. \A m \in DOMAIN tx : Facts(m) => Facts(m)'
    BY <1>1 DEF Facts
  <1> QED  BY <1>1, <1>2, <1>3, <1>4, Aside

LEMMA Expires ==
    ASSUME IInv, RecordExpires
    PROVE  IInv'
  <1>1. PICK f \in Expiring : \E r \in store[f] :
            /\ store' = [store EXCEPT ![f] = (@ \ {r}) \cup {[r EXCEPT !.old = TRUE]}]
            /\ UNCHANGED <<locks, storeLock, page, tx, chain, faults>>
    BY DEF RecordExpires
  <1>2. PICK r \in store[f] :
            /\ store' = [store EXCEPT ![f] = (@ \ {r}) \cup {[r EXCEPT !.old = TRUE]}]
            /\ UNCHANGED <<locks, storeLock, page, tx, chain, faults>>
    BY <1>1
  <1> DEFINE q == [r EXCEPT !.old = TRUE]
  <1>3. Types /\ f \in Flows
    BY WalletsAssumption DEF IInv, Flows
  <1>4. r \in Records
    BY <1>3 DEF Types
  <1>5. q \in Records /\ q.send = r.send /\ q.wallet = r.wallet
    BY <1>4 DEF Records
  <1>6. /\ store'[f] = (store[f] \ {r}) \cup {q}
        /\ \A g \in Flows \ {f} : store'[g] = store[g]
    BY <1>2, <1>3 DEF Types
  <1>7. Types'
    <2>1. store' \in [Flows -> SUBSET Records]
      BY <1>2, <1>3, <1>5 DEF Types
    <2> QED  BY <1>2, <1>3, <2>1 DEF Types, locks, chain
  <1>8. tx' = tx
    BY <1>2
  <1>9. StoresOK'
    <2> SUFFICES ASSUME NEW g \in Flows, NEW x \in store'[g]
                 PROVE  Asked(x, g)
      BY <1>8 DEF StoresOK, Asked, Known
    <2>1. Asked(r, f)
      BY <1>3 DEF IInv, StoresOK
    <2>2. Asked(q, f)
      BY <1>5, <2>1 DEF Asked, Known
    <2> QED  BY <1>6, <2>2 DEF IInv, StoresOK
  <1>10. AllRecorded'
    <2> SUFFICES ASSUME NEW n \in DOMAIN tx, Unresolved(n)
                 PROVE  \E x \in store'[tx[n].flow] : x.send = n
      BY <1>8 DEF AllRecorded, RecordOf, Unresolved
    <2>1. PICK x \in store[tx[n].flow] : x.send = n
      BY DEF IInv, AllRecorded, RecordOf
    <2>2. tx[n] \in Sendings
      BY <1>3 DEF Types
    <2>3. tx[n].flow \in Flows
      BY <2>2 DEF Sendings
    <2> QED  BY <1>5, <1>6, <2>1, <2>3
  <1>11. \A m \in DOMAIN tx : Facts(m) => Facts(m)'
    BY <1>2 DEF Facts, chain
  <1> QED  BY <1>2, <1>7, <1>9, <1>10, <1>11, Aside

-----------------------------------------------------------------------------
(* The actions.                                                              *)

LEMMA WithLock ==
    ASSUME IInv, NEW t \in Tabs, NEW w \in Wallets, NEW flow \in Flows \ {"handoff"},
           NEW act \in ActsOf(flow), page[t].pc \in {"idle", "prepared"},
           flow = "launch" /\ act = "approve" => page[t].plan # <<>>,
           WithSubmissionLock(t, w, flow, act)
    PROVE  IInv'
  <1>1. /\ flow \in FlowsOf[w] /\ TakeWalletLock(t, w) /\ AssertNoPending(w)
        /\ Running(t, flow, act, w) /\ UNCHANGED handoffLock
        /\ UNCHANGED <<store, storeLock, tx, chain, faults>>
    BY DEF WithSubmissionLock
  <1>2. LockTypes' /\ WalletLockStays(t) /\ walletLock'[w] = t
    BY <1>1, TakeWallet DEF IInv
  <1> QED  BY <1>1, <1>2, Starts

LEMMA Starting ==
    ASSUME IInv, NEW t \in Tabs, NEW w \in Wallets, Start(t, w)
    PROVE  IInv'
  <1>1. page[t] = Idle => page[t].pc = "idle"
    BY DEF Idle
  <1>2. CASE SubmitNextApproval(t, w)
    BY <1>2, WithLock DEF SubmitNextApproval, At, Flows, ActsOf
  <1>3. CASE RevokeFactoryAllowance(t, w)
    BY <1>1, <1>3, WithLock DEF RevokeFactoryAllowance, Flows, ActsOf
  <1>4. CASE SubmitLaunch(t, w)
    BY <1>4, WithLock DEF SubmitLaunch, At, Flows, ActsOf
  <1>5. CASE ApproveNextStep(t, w)
    BY <1>1, <1>5, WithLock DEF ApproveNextStep, Flows, ActsOf
  <1>6. CASE ClearStaleAllowance(t, w)
    BY <1>1, <1>6, WithLock DEF ClearStaleAllowance, Flows, ActsOf
  <1>7. CASE SubmitTrade(t, w)
    BY <1>1, <1>7, WithLock DEF SubmitTrade, Flows, ActsOf
  <1>8. CASE Claim(t, w)
    BY <1>1, <1>8, WithLock DEF Claim, Flows, ActsOf
  <1>9. CASE SubmitKeeper(t, w)
    BY <1>1, <1>9, WithLock DEF SubmitKeeper, Flows, ActsOf
  <1>10. CASE SubmitHandoff(t, w)
    <2>1. /\ "handoff" \in FlowsOf[w] /\ "handoff" \in ActsOf("handoff")
          /\ TakeHandoffLocks(t, w) /\ AssertNoPending(w)
          /\ Running(t, "handoff", "handoff", w) /\ page[t].pc \in {"idle", "prepared"}
          /\ UNCHANGED <<store, storeLock, tx, chain, faults>>
      BY <1>1, <1>10 DEF SubmitHandoff, ActsOf
    <2>2. LockTypes' /\ WalletLockStays(t) /\ walletLock'[w] = t /\ handoffLock' = t
      BY <2>1, TakeBoth DEF IInv
    <2> QED  BY <2>1, <2>2, Starts
  <1> QED  BY <1>2, <1>3, <1>4, <1>5, <1>6, <1>7, <1>8, <1>9, <1>10
           DEF Start, LaunchStart, TradeStart, CreatorStart

LEMMA Sends ==
    ASSUME IInv, NEW t \in Tabs,
           \/ SendApproval(t) \/ SendRevocation(t) \/ SendLaunch(t)
           \/ SendNextApproval(t) \/ ClearAllowance(t) \/ SendTrade(t)
           \/ SendClaim(t) \/ UpdateCreator(t) \/ SubmitAction(t)
    PROVE  IInv'
  <1> DEFINE p == page[t]
  <1>1. Types /\ p \in Pages /\ PageShape(p)
    BY DEF IInv, Types, PageOK
  <1>2. p.pc = "checking"
    BY DEF SendApproval, SendRevocation, SendLaunch, SendNextApproval, ClearAllowance,
           SendTrade, SendClaim, UpdateCreator, SubmitAction, At
  <1>3. p.wallet \in Wallets /\ p.act \in ActsOf(p.flow)
    BY <1>1, <1>2 DEF PageShape
  <1>4. \A plan \in Plans : plan # <<>> => Head(plan) \in 0 .. 2
    BY DEF Plans, Required
  <1>5. CASE SendApproval(t)
    <2>1. /\ p.flow = "launch" /\ p.act = "approve" /\ Submitting(t, Head(p.plan))
      BY <1>5 DEF SendApproval, At
    <2>2. p.plan \in Plans /\ p.plan # <<>>
      BY <1>1, <1>2, <2>1 DEF Pages, PageShape
    <2> QED  BY <1>2, <1>4, <2>1, <2>2, Submits
  <1>6. CASE SendRevocation(t) \/ ClearAllowance(t)
    BY <1>2, <1>6, Submits DEF SendRevocation, ClearAllowance, At
  <1>7. CASE SendLaunch(t)
    <2>1. /\ p.act = "launch" /\ Submitting(t, Required) /\ LaunchPlan(p.wallet) = <<>>
      BY <1>7 DEF SendLaunch, At
    <2>2. allowance[p.wallet].factory = Required
      BY <2>1 DEF LaunchPlan, FactoryPreflight, ExactApprovalPlan, Required
    <2>3. Required \in 0 .. 2
      BY DEF Required
    <2> QED  BY <1>2, <2>1, <2>2, <2>3, Submits
  <1>8. CASE SendNextApproval(t)
    <2>1. /\ p.act = "approve" /\ TradePlan(p.wallet) # <<>>
          /\ Submitting(t, Head(TradePlan(p.wallet)))
      BY <1>8 DEF SendNextApproval, At
    <2>2. TradePlan(p.wallet) \in Plans
      <3>1. allowance[p.wallet].router \in 0 .. 2
        BY <1>1, <1>3 DEF Types
      <3> QED  BY <3>1 DEF TradePlan, RouterPreflight, ExactApprovalPlan, Required, Plans
    <2> QED  BY <1>2, <1>4, <2>1, <2>2, Submits
  <1>9. CASE SendTrade(t)
    <2>1. /\ p.act = "trade" /\ Submitting(t, Required) /\ allowance[p.wallet].router = Required
      BY <1>9 DEF SendTrade, At, RouterPreflight
    <2>2. Required \in 0 .. 2
      BY DEF Required
    <2> QED  BY <1>2, <2>1, <2>2, Submits
  <1>10. CASE SendClaim(t)
    <2>1. p.act = "claim" /\ Submitting(t, 0) /\ creator = p.wallet /\ owed
      BY <1>3, <1>10 DEF SendClaim, At, Claimable, ActsOf
    <2> QED  BY <1>2, <2>1, Submits
  <1>11. CASE UpdateCreator(t)
    <2>1. p.act = "handoff" /\ Submitting(t, 0) /\ creator = p.wallet
      BY <1>3, <1>11 DEF UpdateCreator, At, MayHandOff, ActsOf
    <2> QED  BY <1>2, <2>1, Submits
  <1>12. CASE SubmitAction(t)
    <2>1. p.act = "keeper" /\ Submitting(t, 0)
      BY <1>3, <1>12 DEF SubmitAction, At, ActsOf
    <2> QED  BY <1>2, <2>1, Submits
  <1> QED  BY <1>5, <1>6, <1>7, <1>8, <1>9, <1>10, <1>11, <1>12

LEMMA Recovers ==
    ASSUME IInv, NEW t \in Tabs, NEW w \in Wallets, Recovery(t, w)
    PROVE  IInv'
  <1>1. Types
    BY DEF IInv
  <1>2. TakeWalletLock(t, w) /\ UNCHANGED handoffLock =>
            \A flow \in Flows \ {"handoff"} : ByHand(t, w, flow)
    BY <1>1, TakeWallet DEF ByHand
  <1>3. TakeHandoffLocks(t, w) => ByHand(t, w, "handoff")
    BY <1>1, TakeBoth DEF ByHand
  <1>4. \A flow \in {"launch", "trade", "claim", "handoff", "keeper"} : flow \in Flows
    BY DEF Flows
  <1>5. CASE \/ ReconcilePendingLaunch(t, w) \/ ReconcilePendingTrade(t, w)
             \/ ReconcilePendingClaim(t, w) \/ ReconcileHandoff(t, w) \/ ReconcileKeeper(t, w)
    BY <1>4, <1>5, Restored, Reconciles
       DEF ReconcilePendingLaunch, ReconcilePendingTrade, ReconcilePendingClaim,
           ReconcileHandoff, ReconcileKeeper
  <1>6. CASE \/ ClearReconciledLaunchLock(t, w) \/ ClearReconciledTradeLock(t, w)
             \/ ClearReconciledClaimLock(t, w) \/ ClearHashlessIntent(t, w)
    BY <1>2, <1>4, <1>6, Restored, Clears
       DEF ClearReconciledLaunchLock, ClearReconciledTradeLock, ClearReconciledClaimLock,
           ClearHashlessIntent
  <1>7. CASE ClearCheckedLock(t, w)
    BY <1>3, <1>4, <1>7, Restored, Clears DEF ClearCheckedLock
  <1>8. CASE ResetClaimSafetyLock(t, w) \/ ResetRecoveryLock(t, w)
    BY <1>2, <1>4, <1>8, Unlocks DEF ResetClaimSafetyLock, ResetRecoveryLock
  <1>9. CASE ResetSafetyLock(t, w)
    BY <1>3, <1>9, Unlocks DEF ResetSafetyLock
  <1> QED  BY <1>5, <1>6, <1>7, <1>8, <1>9
           DEF Recovery, LaunchRecovery, TradeRecovery, CreatorRecovery

LEMMA Preparing ==
    ASSUME IInv, NEW t \in Tabs, NEW w \in Wallets, PrepareLaunch(t, w)
    PROVE  IInv'
  <1>1. /\ UNCHANGED locks /\ UNCHANGED <<store, storeLock, tx, chain, faults>>
        /\ page' = [page EXCEPT ![t] = [Idle EXCEPT !.pc = "prepared", !.flow = "launch",
                                        !.wallet = w, !.plan = LaunchPlan(w)]]
    BY DEF PrepareLaunch
  <1> QED  BY <1>1, Prepares

LEMMA PageSteps ==
    ASSUME IInv, ~erased', NEW t \in Tabs, PageStep(t)
    PROVE  IInv'
  <1>1. CASE CheckFails(t) \/ LocksBusy(t) \/ DropPrepared(t)
    BY <1>1, GivesUp
  <1>2. CASE SaveIntent(t) \/ SaveHash(t) \/ RemoveRecord(t) \/ ResetStore(t)
    BY <1>2, Saves, Hashes, Removes, Resets
  <1>3. CASE ReceiveHash(t) \/ ReceiveRefusal(t)
    BY <1>3, Hears
  <1>4. CASE \/ ConfirmApproval(t) \/ ConfirmLaunch(t)
             \/ ConfirmTradeApproval(t) \/ ConfirmTrade(t)
             \/ ConfirmClaim(t) \/ ConfirmCreatorHandoff(t) \/ ConfirmAction(t)
    BY <1>4, Confirms
       DEF ConfirmApproval, ConfirmLaunch, LaunchReceipt, ConfirmTradeApproval, ConfirmTrade,
           TradeReceipt, ConfirmClaim, ConfirmCreatorHandoff, ConfirmAction
  <1>5. CASE LaunchNeedsApproval(t)
    <2>1. page[t].pc = "checking" /\ page[t].wallet \in Wallets
      BY <1>5 DEF LaunchNeedsApproval, At, IInv, PageOK, PageShape
    <2>2. /\ Release(t) /\ UNCHANGED <<store, storeLock, tx, chain, faults>>
          /\ page' = [page EXCEPT ![t] = [Idle EXCEPT !.pc = "prepared", !.flow = "launch",
                          !.wallet = page[t].wallet, !.plan = LaunchPlan(page[t].wallet)]]
      BY <1>5 DEF LaunchNeedsApproval
    <2> QED  BY <2>1, <2>2, Prepares
  <1> QED  BY <1>1, <1>2, <1>3, <1>4, <1>5, Sends DEF PageStep, LaunchStep, TradeStep, CreatorStep

-----------------------------------------------------------------------------
LEMMA InitInv == Init => IInv
  <1> SUFFICES ASSUME Init
               PROVE  IInv
    OBVIOUS
  <1>1. /\ store = [f \in Flows |-> {}] /\ tx = <<>>
        /\ page = [t \in Tabs |-> Idle]
        /\ allowance = Allowances /\ creator = Creator /\ owed = TRUE /\ faults = 0
    BY DEF Init
  <1>2. Types
    <2>1. page \in [Tabs -> Pages]
      BY <1>1, Idles
    <2>2. tx \in Seq(Sendings) /\ Len(tx) <= MaxSends
      BY <1>1, WalletsAssumption
    <2> QED  BY <1>1, <2>1, <2>2, WalletsAssumption DEF Init, Types
  <1>3. \A t \in Tabs : PageOK(t, page[t])
    BY <1>1, Idles
  <1>4. DOMAIN tx = {}
    BY <1>1
  <1>5. StoresOK
    BY <1>1 DEF StoresOK
  <1>6. SendsOK /\ AllRecorded /\ OneOpen /\ AllFactsHold
    BY <1>4 DEF SendsOK, AllRecorded, OneOpen, AllFactsHold
  <1> QED  BY <1>2, <1>3, <1>5, <1>6 DEF IInv

LEMMA Stutters ==
    ASSUME IInv, UNCHANGED vars
    PROVE  IInv'
  <1>1. UNCHANGED <<store, locks, storeLock, page, tx, chain, faults>>
    BY DEF vars
  <1>2. Types'
    BY <1>1 DEF IInv, Types, locks, chain
  <1>3. StoresOK' /\ AllRecorded'
    BY <1>1, QuietTx, StoresSame
  <1>4. \A m \in DOMAIN tx : Facts(m) => Facts(m)'
    BY <1>1 DEF Facts, chain
  <1> QED  BY <1>1, <1>2, <1>3, <1>4, Aside

LEMMA NextInv ==
    ASSUME IInv, ~erased', [Next]_vars
    PROVE  IInv'
  <1>1. ASSUME NEW t \in Tabs, PageStep(t) \/ ReadStore(t) \/ CutShort(t)
        PROVE  IInv'
    BY <1>1, PageSteps, Reads, CutsShort
  <1>2. ASSUME NEW t \in Tabs, NEW w \in Wallets,
               PrepareLaunch(t, w) \/ Start(t, w) \/ Recovery(t, w)
        PROVE  IInv'
    BY <1>2, Preparing, Starting, Recovers
  <1>3. ASSUME NEW n \in DOMAIN tx, UserAnswers(n) \/ Mines(n)
        PROVE  IInv'
    BY <1>3, UserAnswered, Mining
  <1>4. CASE RecordExpires \/ FeesAccrue
    BY <1>4, Expires, Accrues
  <1>5. CASE UNCHANGED vars
    BY <1>5, Stutters
  <1> QED  BY <1>1, <1>2, <1>3, <1>4, <1>5 DEF Next

-----------------------------------------------------------------------------
(* Handoff records that do not grow old keep their store readable.           *)

LEMMA FitUpdates ==
    ASSUME NEW s, NEW r
    PROVE  /\ IsFiniteSet(s) /\ MaySaveUpdate(s, r) /\ ~r.old => Fit(s \cup {r})
           /\ IsFiniteSet(s) /\ MayHashUpdate(s, r) /\ r \in Records => Fit(WithHash("handoff", s, r))
           /\ Fit(s) => Fit(s \ {r})
  <1>1. ASSUME IsFiniteSet(s), MaySaveUpdate(s, r), ~r.old
        PROVE  Fit(s \cup {r})
    <2>1. IsFiniteSet(s \cup {r})
      BY <1>1, FS_AddElement
    <2>2. OnePerWallet(s \cup {r})
      BY <1>1 DEF MaySaveUpdate, UpdatesReadable, OnePerWallet, Of
    <2> QED  BY <1>1, <2>1, <2>2 DEF MaySaveUpdate, UpdatesReadable, Fit
  <1>2. IsFiniteSet(s) => /\ IsFiniteSet(s \ {r})
                          /\ Cardinality(s \ {r}) = Cardinality(s) - (IF r \in s THEN 1 ELSE 0)
                          /\ Cardinality(s) \in Nat
    BY FS_RemoveElement, FS_CardinalityType
  <1>3. ASSUME Fit(s)
        PROVE  Fit(s \ {r})
    <2>1. Bounded(s \ {r})
      BY <1>2, <1>3, MaxRecordsAssumption DEF Fit, UpdatesReadable, Bounded
    <2> QED  BY <1>2, <1>3, <2>1 DEF Fit, UpdatesReadable, OnePerWallet
  <1>4. ASSUME IsFiniteSet(s), MayHashUpdate(s, r), r \in Records
        PROVE  Fit(WithHash("handoff", s, r))
    <2> DEFINE q == Hashed(r)
               rest == s \ {r}
    <2>1. UpdatesReadable(s) /\ r \in s /\ ~r.old
      BY <1>4 DEF MayHashUpdate, UpdatesReadable
    <2>2. q.wallet = r.wallet /\ q.old = r.old
      BY <1>4 DEF Hashed, Records
    <2>3. IsFiniteSet(rest) /\ Cardinality(rest) = Cardinality(s) - 1 /\ Cardinality(s) \in Nat
      BY <1>2, <1>4, <2>1
    <2>4. /\ IsFiniteSet(rest \cup {q})
          /\ Cardinality(rest \cup {q}) = Cardinality(rest) + (IF q \in rest THEN 0 ELSE 1)
      BY <2>3, FS_AddElement
    <2>5. Bounded(rest \cup {q})
      <3>1. Cardinality(rest \cup {q}) <= Cardinality(s)
        BY <2>3, <2>4
      <3>2. Cardinality(rest \cup {q}) \in Nat
        BY <2>4, FS_CardinalityType
      <3> QED  BY <2>1, <2>3, <3>1, <3>2, MaxRecordsAssumption DEF UpdatesReadable, Bounded
    <2>6. OnePerWallet(rest \cup {q})
      BY <2>1, <2>2 DEF UpdatesReadable, OnePerWallet
    <2>7. \A x \in rest \cup {q} : ~x.old
      BY <2>1, <2>2 DEF UpdatesReadable
    <2> QED  BY <2>4, <2>5, <2>6, <2>7 DEF Fit, UpdatesReadable, WithHash, Matching
  <1> QED  BY <1>1, <1>3, <1>4

LEMMA HandoffInit == Init => HandoffInv
  <1> SUFFICES ASSUME Init
               PROVE  Fit({}) /\ HandoffPage(Idle)
    BY DEF Init, HandoffInv, Flows
  <1>1. IsFiniteSet({}) /\ Cardinality({}) = 0
    BY FS_EmptySet
  <1>2. Fit({})
    BY <1>1, MaxRecordsAssumption DEF Fit, UpdatesReadable, Bounded, OnePerWallet
  <1> QED  BY <1>2 DEF HandoffPage, Idle

\* A step that writes no handoff record and moves one tab.
LEMMA HandoffTurn ==
    ASSUME HandoffInv, store'["handoff"] = store["handoff"], NEW t \in Tabs,
           \A u \in Tabs \ {t} : page'[u] = page[u],
           "handoff" \notin Expiring /\ Fit(store["handoff"]) /\ HandoffPage(page[t]) =>
               HandoffPage(page'[t])
    PROVE  HandoffInv'
  BY DEF HandoffInv

LEMMA HandoffWrites ==
    ASSUME IInv, HandoffInv, NEW t \in Tabs,
           SaveIntent(t) \/ SaveHash(t) \/ RemoveRecord(t) \/ ResetStore(t)
    PROVE  HandoffInv'
  <1> DEFINE p == page[t]
  <1>1. Types /\ p \in Pages /\ p.copy # None /\ PageShape(p) /\ p.pc \in Storing
    BY DEF IInv, Types, PageOK, SaveIntent, SaveHash, RemoveRecord, ResetStore, Writing, Storing
  <1>2. /\ \A u \in Tabs \ {t} : page'[u] = page[u]
        /\ page'[t].pc \in {"idle", "prompting", "confirming"}
        /\ page'[t].copy = None
    BY <1>1 DEF SaveIntent, SaveHash, RemoveRecord, ResetStore, Goto, Finish, Idle, Types, Pages
  <1>3. HandoffPage(page'[t])
    BY <1>2 DEF HandoffPage
  <1>4. p.flow \in Flows /\ \A list : Write(t, list) =>
            \A f \in Flows : store'[f] = IF f = p.flow THEN list ELSE store[f]
    BY <1>1 DEF PageShape, Storing, Write, Types
  <1>5. CASE p.flow # "handoff"
    <2>1. store'["handoff"] = store["handoff"]
      BY <1>4, <1>5 DEF SaveIntent, SaveHash, RemoveRecord, ResetStore, Flows
    <2> QED  BY <1>2, <1>3, <2>1, HandoffTurn
  <1>6. CASE p.flow = "handoff" /\ UNCHANGED store
    BY <1>2, <1>3, <1>6, HandoffTurn
  <1>7. CASE p.flow = "handoff" /\ ~UNCHANGED store
    <2> SUFFICES ASSUME "handoff" \notin Expiring
                 PROVE  Fit(store'["handoff"]) /\ \A u \in Tabs : HandoffPage(page'[u])
      BY DEF HandoffInv
    <2>1. /\ \A u \in Tabs : HandoffPage(page'[u])
          /\ IsFiniteSet(p.copy) /\ p.pc # "resetting"
          /\ p.pc = "saving" => ~p.intent.old
      BY <1>1, <1>2, <1>3, <1>7 DEF HandoffInv, HandoffPage
    <2>2. p.pc \in Sending => p.intent \in Records
      BY <1>1 DEF PageShape
    <2>3. CASE SaveIntent(t)
      <3>1. /\ p.pc = "saving" /\ MaySaveUpdate(p.copy, p.intent)
            /\ store'["handoff"] = p.copy \cup {p.intent}
        BY <1>4, <1>7, <2>3 DEF SaveIntent, MaySave, Saved, Writing
      <3>2. Fit(p.copy \cup {p.intent})
        BY <2>1, <3>1, FitUpdates
      <3> QED  BY <2>1, <3>1, <3>2
    <2>4. CASE SaveHash(t)
      <3>1. /\ p.pc = "hashing" /\ MayHashUpdate(p.copy, p.intent)
            /\ store'["handoff"] = WithHash("handoff", p.copy, p.intent)
        BY <1>4, <1>7, <2>4 DEF SaveHash, MayHash, Writing
      <3>2. Fit(WithHash("handoff", p.copy, p.intent))
        <4>1. p.intent \in Records
          BY <2>2, <3>1 DEF Sending
        <4> QED  BY <2>1, <3>1, <4>1, FitUpdates
      <3> QED  BY <2>1, <3>1, <3>2
    <2>5. CASE RemoveRecord(t)
      <3>1. UpdatesReadable(p.copy) /\ store'["handoff"] = p.copy \ {p.intent}
        BY <1>4, <1>7, <2>5 DEF RemoveRecord, MayResolve, MayClear, Readable
      <3>2. Fit(p.copy)
        BY <2>1, <3>1 DEF Fit
      <3>3. Fit(p.copy \ {p.intent})
        BY <3>2, FitUpdates
      <3> QED  BY <2>1, <3>1, <3>3
    <2>6. CASE ResetStore(t)
      BY <2>1, <2>6 DEF ResetStore, Writing
    <2> QED  BY <2>1, <2>3, <2>4, <2>5, <2>6
  <1> QED  BY <1>5, <1>6, <1>7

LEMMA HandoffSends ==
    ASSUME IInv, HandoffInv, NEW t \in Tabs, NEW amount, Submitting(t, amount)
    PROVE  HandoffInv'
  <1> DEFINE r == Intent(page[t].wallet, Len(tx) + 1, page[t].act)
  <1>1. Types /\ page[t] \in Pages
    BY DEF IInv, Types
  <1>2. /\ \A u \in Tabs \ {t} : page'[u] = page[u]
        /\ page'[t].flow = page[t].flow /\ page'[t].copy = page[t].copy
        /\ page'[t].pc = "saving" /\ page'[t].intent = r /\ store' = store
    BY <1>1 DEF Submitting, Types, Pages
  <1>3. ~r.old
    BY DEF Intent
  <1> QED  BY <1>2, <1>3, HandoffTurn DEF HandoffPage

LEMMA HandoffStarts ==
    ASSUME IInv, HandoffInv, NEW t \in Tabs, NEW w \in Wallets,
           \/ PrepareLaunch(t, w) \/ Start(t, w) \/ Recovery(t, w)
    PROVE  HandoffInv'
  <1>1. Types /\ page[t] \in Pages /\ PageShape(page[t])
    BY DEF IInv, Types, PageOK
  <1>2. CASE Start(t, w)
    <2>1. /\ \E flow, act : Running(t, flow, act, w)
          /\ page[t].pc \in {"idle", "prepared"} /\ store' = store
      BY <1>2 DEF Start, LaunchStart, TradeStart, CreatorStart, SubmitNextApproval,
                  RevokeFactoryAllowance, SubmitLaunch, ApproveNextStep, ClearStaleAllowance,
                  SubmitTrade, Claim, SubmitHandoff, SubmitKeeper, WithSubmissionLock, At, Idle
    <2>2. page[t].copy = None
      BY <1>1, <2>1 DEF PageShape, Storing
    <2>3. /\ \A u \in Tabs \ {t} : page'[u] = page[u]
          /\ page'[t].pc = "checking" /\ page'[t].copy = None
      BY <1>1, <2>1, <2>2 DEF Running, Types, Pages
    <2> QED  BY <2>1, <2>3, HandoffTurn DEF HandoffPage
  <1>3. CASE PrepareLaunch(t, w)
    <2>1. /\ \A u \in Tabs \ {t} : page'[u] = page[u]
          /\ page'[t].pc = "prepared" /\ page'[t].copy = None /\ store' = store
      BY <1>1, <1>3 DEF PrepareLaunch, Types, Idle
    <2> QED  BY <2>1, HandoffTurn DEF HandoffPage
  <1>4. CASE Recovery(t, w)
    <2>1. \/ \E flow, records : Reconciling(t, w, flow, records) \/ Clearing(t, w, flow, records)
          \/ \E flow : Resetting(t, w, flow)
      BY <1>4 DEF Recovery, LaunchRecovery, TradeRecovery, CreatorRecovery, ReconcilePendingLaunch,
                  ClearReconciledLaunchLock, ReconcilePendingTrade, ClearReconciledTradeLock,
                  ReconcilePendingClaim, ClearReconciledClaimLock, ResetClaimSafetyLock,
                  ReconcileHandoff, ClearCheckedLock, ResetSafetyLock, ReconcileKeeper,
                  ClearHashlessIntent, ResetRecoveryLock
    <2>2. CASE \E flow, records : Reconciling(t, w, flow, records) \/ Clearing(t, w, flow, records)
      <3>1. PICK q : /\ page' = [page EXCEPT ![t] = q]
                     /\ q.pc \in {"confirming", "clearing"} /\ q.copy = None
        <4>1. CASE \E flow, records : Reconciling(t, w, flow, records)
          <5>1. PICK flow, r :
                  page' = [page EXCEPT ![t] = [Idle EXCEPT !.pc = "confirming", !.flow = flow,
                               !.act = tx[r.send].act, !.wallet = w, !.intent = r]]
            BY <4>1 DEF Reconciling
          <5> DEFINE q == [Idle EXCEPT !.pc = "confirming", !.flow = flow,
                               !.act = tx[r.send].act, !.wallet = w, !.intent = r]
          <5>2. q.pc = "confirming" /\ q.copy = None
            BY DEF Idle
          <5> QED  BY <5>1, <5>2
        <4>2. CASE \E flow, records : Clearing(t, w, flow, records)
          <5>1. PICK flow, r :
                  page' = [page EXCEPT ![t] = [Idle EXCEPT !.pc = "clearing", !.flow = flow,
                               !.wallet = w, !.intent = r]]
            BY <4>2 DEF Clearing
          <5> DEFINE q == [Idle EXCEPT !.pc = "clearing", !.flow = flow, !.wallet = w, !.intent = r]
          <5>2. q.pc = "clearing" /\ q.copy = None
            BY DEF Idle
          <5> QED  BY <5>1, <5>2
        <4> QED  BY <2>2, <4>1, <4>2
      <3>2. /\ \A u \in Tabs \ {t} : page'[u] = page[u]
            /\ page'[t] = q /\ store' = store
        BY <1>1, <2>2, <3>1 DEF Reconciling, Clearing, Types
      <3> QED  BY <3>1, <3>2, HandoffTurn DEF HandoffPage
    <2>3. CASE \E flow : Resetting(t, w, flow)
      <3>1. PICK flow : Resetting(t, w, flow)
        BY <2>3
      <3>2. /\ \A u \in Tabs \ {t} : page'[u] = page[u]
            /\ page'[t].flow = flow /\ page'[t].pc = "resetting" /\ page'[t].copy = None
            /\ store' = store
        BY <1>1, <3>1 DEF Resetting, Types, Idle
      <3>3. flow = "handoff" => ~Fit(store["handoff"])
        BY <3>1 DEF Resetting, Readable, Fit
      <3> QED  BY <3>2, <3>3, HandoffTurn DEF HandoffPage
    <2> QED  BY <2>1, <2>2, <2>3
  <1> QED  BY <1>2, <1>3, <1>4

LEMMA HandoffPages ==
    ASSUME IInv, HandoffInv, NEW t \in Tabs, PageStep(t) \/ ReadStore(t) \/ CutShort(t)
    PROVE  HandoffInv'
  <1>1. Types /\ page[t] \in Pages
    BY DEF IInv, Types
  <1>2. CASE CheckFails(t) \/ LocksBusy(t) \/ DropPrepared(t) \/ CutShort(t)
    <2>1. /\ \A u \in Tabs \ {t} : page'[u] = page[u]
          /\ page'[t] = Idle /\ store' = store
      BY <1>1, <1>2 DEF CheckFails, LocksBusy, DropPrepared, CutShort, Finish, Types
    <2> QED  BY <2>1, HandoffTurn DEF HandoffPage, Idle
  <1>3. CASE \/ ReceiveHash(t) \/ ReceiveRefusal(t)
             \/ ConfirmApproval(t) \/ ConfirmLaunch(t)
             \/ ConfirmTradeApproval(t) \/ ConfirmTrade(t)
             \/ ConfirmClaim(t) \/ ConfirmCreatorHandoff(t) \/ ConfirmAction(t)
    <2>1. /\ \E place \in {"hashing", "refusing", "resolving"} : Goto(t, place)
          /\ store' = store
      BY <1>3 DEF ReceiveHash, ReceiveRefusal, ConfirmApproval, ConfirmLaunch, LaunchReceipt,
                  ConfirmTradeApproval, ConfirmTrade, TradeReceipt, ConfirmClaim,
                  ConfirmCreatorHandoff, ConfirmAction, Confirming
    <2>2. /\ \A u \in Tabs \ {t} : page'[u] = page[u]
          /\ page'[t].pc \in {"hashing", "refusing", "resolving"} /\ page'[t].copy = None
      BY <1>1, <2>1 DEF Goto, Types, Pages
    <2> QED  BY <2>1, <2>2, HandoffTurn DEF HandoffPage
  <1>4. CASE LaunchNeedsApproval(t)
    <2>1. /\ \A u \in Tabs \ {t} : page'[u] = page[u]
          /\ page'[t].flow = "launch" /\ store' = store
      BY <1>1, <1>4 DEF LaunchNeedsApproval, Types, Idle
    <2> QED  BY <2>1, HandoffTurn DEF HandoffPage
  <1>5. CASE \E amount : Submitting(t, amount)
    BY <1>5, HandoffSends
  <1>6. CASE ReadStore(t)
    <2>1. /\ \A u \in Tabs \ {t} : page'[u] = page[u]
          /\ page'[t].flow = page[t].flow /\ page'[t].pc = page[t].pc
          /\ page'[t].intent = page[t].intent /\ page'[t].copy = store[page[t].flow]
          /\ store' = store
      BY <1>1, <1>6 DEF ReadStore, Types, Pages
    <2> QED  BY <2>1, HandoffTurn DEF HandoffPage, Fit
  <1> QED  BY <1>2, <1>3, <1>4, <1>5, <1>6, HandoffWrites
           DEF PageStep, LaunchStep, TradeStep, CreatorStep, SendApproval, SendRevocation,
               SendLaunch, SendNextApproval, ClearAllowance, SendTrade, SendClaim,
               UpdateCreator, SubmitAction

LEMMA HandoffStep ==
    ASSUME IInv, HandoffInv, [Next]_vars
    PROVE  HandoffInv'
  <1>1. CASE store'["handoff"] = store["handoff"] /\ page' = page
    BY <1>1 DEF HandoffInv
  <1>2. ASSUME NEW n \in DOMAIN tx, UserAnswers(n) \/ Mines(n)
        PROVE  HandoffInv'
    <2>1. store' = store /\ page' = page
      BY <1>2 DEF UserAnswers, Mines, Reverts, LaunchMined, TradeMined, CreatorMined,
                  MineApproval, MineLaunch, MineTradeApproval, MineTrade, MineClaim,
                  MineHandoff, MineKeeper, Mined
    <2> QED  BY <1>1, <2>1
  <1>3. CASE RecordExpires
    <2> SUFFICES ASSUME "handoff" \notin Expiring
                 PROVE  HandoffInv'
      BY DEF HandoffInv
    <2>1. page' = page /\ \E f \in Expiring : \E list : store' = [store EXCEPT ![f] = list]
      BY <1>3 DEF RecordExpires
    <2>2. store'["handoff"] = store["handoff"]
      BY <2>1 DEF IInv, Types, Flows
    <2> QED  BY <1>1, <2>1, <2>2
  <1>4. CASE FeesAccrue \/ UNCHANGED vars
    BY <1>1, <1>4 DEF FeesAccrue, vars
  <1> QED  BY <1>2, <1>3, <1>4, HandoffPages, HandoffStarts DEF Next

-----------------------------------------------------------------------------
(* The record of a reset.                                                    *)

\* Only a reset of a store can take a record of another wallet.
LEMMA ErasedBy ==
    ASSUME [Next]_vars
    PROVE  erased' = erased \/ \E t \in Tabs : ResetStore(t)
  <1>1. CASE UNCHANGED vars
    BY <1>1 DEF vars
  <1>2. ASSUME NEW t \in Tabs, PageStep(t)
        PROVE  erased' = erased \/ ResetStore(t)
    <2>1. CASE \/ CheckFails(t) \/ LocksBusy(t) \/ SaveIntent(t) \/ SaveHash(t) \/ RemoveRecord(t)
               \/ ReceiveHash(t) \/ ReceiveRefusal(t) \/ DropPrepared(t) \/ LaunchNeedsApproval(t)
      BY <2>1 DEF CheckFails, LocksBusy, SaveIntent, SaveHash, RemoveRecord, ReceiveHash,
                  ReceiveRefusal, DropPrepared, LaunchNeedsApproval
    <2>2. CASE \/ ConfirmApproval(t) \/ ConfirmLaunch(t)
               \/ ConfirmTradeApproval(t) \/ ConfirmTrade(t)
               \/ ConfirmClaim(t) \/ ConfirmCreatorHandoff(t) \/ ConfirmAction(t)
      BY <2>2
         DEF ConfirmApproval, ConfirmLaunch, LaunchReceipt, ConfirmTradeApproval, ConfirmTrade,
             TradeReceipt, ConfirmClaim, ConfirmCreatorHandoff, ConfirmAction, Confirming
    <2>3. CASE \/ SendApproval(t) \/ SendRevocation(t) \/ SendLaunch(t)
               \/ SendNextApproval(t) \/ ClearAllowance(t) \/ SendTrade(t)
               \/ SendClaim(t) \/ UpdateCreator(t) \/ SubmitAction(t)
      BY <2>3 DEF SendApproval, SendRevocation, SendLaunch, SendNextApproval, ClearAllowance,
                  SendTrade, SendClaim, UpdateCreator, SubmitAction, Submitting
    <2> QED  BY <1>2, <2>1, <2>2, <2>3 DEF PageStep, LaunchStep, TradeStep, CreatorStep
  <1>3. ASSUME NEW t \in Tabs, NEW w \in Wallets,
               PrepareLaunch(t, w) \/ Start(t, w) \/ Recovery(t, w)
        PROVE  erased' = erased
    <2>1. CASE PrepareLaunch(t, w)
      BY <2>1 DEF PrepareLaunch
    <2>2. CASE Start(t, w)
      BY <2>2
         DEF Start, LaunchStart, TradeStart, CreatorStart, SubmitNextApproval,
             RevokeFactoryAllowance, SubmitLaunch, ApproveNextStep, ClearStaleAllowance,
             SubmitTrade, Claim, SubmitHandoff, SubmitKeeper, WithSubmissionLock
    <2>3. CASE Recovery(t, w)
      BY <2>3
         DEF Recovery, LaunchRecovery, TradeRecovery, CreatorRecovery, ReconcilePendingLaunch,
             ClearReconciledLaunchLock, ReconcilePendingTrade, ClearReconciledTradeLock,
             ReconcilePendingClaim, ClearReconciledClaimLock, ResetClaimSafetyLock,
             ReconcileHandoff, ClearCheckedLock, ResetSafetyLock, ReconcileKeeper,
             ClearHashlessIntent, ResetRecoveryLock, Reconciling, Clearing, Resetting
    <2> QED  BY <1>3, <2>1, <2>2, <2>3
  <1>4. ASSUME NEW n \in DOMAIN tx, UserAnswers(n) \/ Mines(n)
        PROVE  erased' = erased
    BY <1>4 DEF UserAnswers, Mines, Reverts, LaunchMined, TradeMined, CreatorMined,
                MineApproval, MineLaunch, MineTradeApproval, MineTrade, MineClaim,
                MineHandoff, MineKeeper, Mined
  <1>5. ASSUME NEW t \in Tabs, ReadStore(t) \/ CutShort(t)
        PROVE  erased' = erased
    BY <1>5 DEF ReadStore, CutShort
  <1>6. CASE RecordExpires \/ FeesAccrue
    BY <1>6 DEF RecordExpires, FeesAccrue
  <1> QED  BY <1>1, <1>2, <1>3, <1>4, <1>5, <1>6 DEF Next

\* A record once taken stays so.
LEMMA ErasedStays ==
    ASSUME erased \in BOOLEAN, [Next]_vars
    PROVE  erased' \in BOOLEAN /\ (erased => erased')
  <1>1. ASSUME NEW t \in Tabs, ResetStore(t)
        PROVE  erased' \in BOOLEAN /\ (erased => erased')
    BY <1>1 DEF ResetStore
  <1> QED  BY <1>1, ErasedBy

\* Where handoffs are apart no reset takes another wallet's record: the records
\* of another wallet are of a handoff, and nobody resets the handoff store.
LEMMA NothingErased ==
    ASSUME HandoffsApart, IInv, HandoffInv, ~erased, [Next]_vars
    PROVE  ~erased'
  <1>1. ASSUME NEW t \in Tabs, ResetStore(t)
        PROVE  ~erased'
    <2> DEFINE p == page[t]
               list == Reset(p.flow, p.copy, p.wallet)
    <2>1. p.pc = "resetting" /\ p.copy # None
      BY <1>1 DEF ResetStore, Writing
    <2>2. /\ Types /\ PageShape(p) /\ \A r \in p.copy : Asked(r, p.flow)
          /\ p.copy \in SUBSET Records
      BY <2>1, Writes DEF Storing
    <2>3. p.wallet \in Wallets /\ p.flow \in FlowsOf[p.wallet] /\ p.flow \in {"claim", "handoff", "keeper"}
      BY <2>1, <2>2 DEF PageShape
    <2>4. ASSUME NEW r \in p.copy \ list, r.wallet # p.wallet
          PROVE  FALSE
      <3>1. p.flow = "handoff"
        BY <2>3, <2>4 DEF Reset, ClaimsReset, ActionsReset, Of
      <3>2. r.wallet \in Wallets /\ "handoff" \in FlowsOf[r.wallet]
        BY <2>2, <2>4, <3>1 DEF Records, Asked, Known, IInv, SendsOK
      <3>3. "handoff" \in Expiring
        BY <2>1, <3>1 DEF HandoffInv, HandoffPage
      <3> QED  BY <2>3, <2>4, <3>1, <3>2, <3>3 DEF HandoffsApart
    <2> QED  BY <1>1, <2>4 DEF ResetStore
  <1> QED  BY <1>1, ErasedBy

\* What the tabs, the locks, the stores and the requests of every wallet keep
\* true of one another, for every number of tabs, wallets and requests, until a
\* reset takes another wallet's record.
THEOREM Inductive == Spec => [](erased \in BOOLEAN /\ (~erased => IInv))
  <1> DEFINE Inv == erased \in BOOLEAN /\ (~erased => IInv)
  <1>1. Inv /\ [Next]_vars => Inv'
    BY NextInv, ErasedStays
  <1>2. Init => Inv
    BY InitInv DEF Init
  <1>3. Spec => []Inv
    BY <1>1, <1>2, PTL DEF Spec
  <1> QED  BY <1>3

\* While only one wallet of the browser hands creator rights off, or no handoff
\* record outlives the thirty days, no reset takes another wallet's record, and
\* all that is proved below holds without a condition
\* (resetPendingCreatorUpdateStore).
THEOREM NeverErased == HandoffsApart => (Spec => [](IInv /\ ~erased))
  <1>1. SUFFICES ASSUME HandoffsApart
                 PROVE  Spec => [](IInv /\ ~erased)
    OBVIOUS
  <1> DEFINE Inv == IInv /\ HandoffInv /\ ~erased
  <1>2. Inv /\ [Next]_vars => Inv'
    BY <1>1, NextInv, HandoffStep, NothingErased
  <1>3. Init => Inv
    BY InitInv, HandoffInit DEF Init
  <1>4. Inv => IInv /\ ~erased
    OBVIOUS
  <1> QED  BY <1>2, <1>3, <1>4, PTL DEF Spec

\* Every variable has its type, in a browser whose handoffs are apart.
THEOREM TypeCorrect == HandoffsApart => (Spec => []TypeOK)
  <1>1. IInv /\ erased \in BOOLEAN => TypeOK
    <2> SUFFICES ASSUME Types, erased \in BOOLEAN
                 PROVE  TypeOK
      BY DEF IInv
    <2>1. \A t \in Tabs : page[t] \in Pages
      BY DEF Types
    <2>2. ASSUME NEW t \in Tabs
          PROVE  /\ page[t].pc \in Places
                 /\ page[t].flow \in Flows \cup {None}
                 /\ page[t].act \in Acts \cup {None}
                 /\ page[t].wallet \in Wallets \cup {None}
                 /\ page[t].plan \in {<<>>, <<0>>, <<Required>>, <<0, Required>>}
                 /\ page[t].intent \in Records \cup {None}
                 /\ page[t].copy = None \/ page[t].copy \subseteq Records
      BY <2>1 DEF Pages, Plans
    <2>3. \A n \in DOMAIN tx : tx[n] \in Sendings
      BY DEF Types
    <2>4. ASSUME NEW n \in DOMAIN tx
          PROVE  /\ tx[n].wallet \in Wallets /\ tx[n].flow \in Flows
                 /\ tx[n].act \in Acts /\ tx[n].state \in States
      BY <2>3 DEF Sendings
    <2> QED  BY <2>2, <2>4 DEF Types, TypeOK
  <1> QED  BY <1>1, Inductive, NeverErased, PTL

\* Whatever tabs are closed and whatever they write at the same time, a request
\* that is before the user or on its way to a block has its record in its store.
THEOREM AlwaysRecorded == Spec => []UnresolvedIsRecorded
  <1>1. (~erased => IInv) => UnresolvedIsRecorded
    BY DEF IInv, AllRecorded, UnresolvedIsRecorded
  <1> QED  BY <1>1, Inductive, PTL

\* No wallet has two requests open, from any two tabs or surfaces.
THEOREM NeverTwoOpen == Spec => []OneOutstanding
  <1>1. (~erased => IInv) => OneOutstanding
    BY DEF IInv, OneOpen, OneOutstanding
  <1> QED  BY <1>1, Inductive, PTL

\* What a client proved before it asked the wallet holds until it is mined: no
\* approval outlives the one use it was given for.
THEOREM FactsHoldUntilMined == Spec => []CheckedFactsHold
  <1>1. (~erased => IInv) => CheckedFactsHold
    BY DEF IInv, AllFactsHold, CheckedFactsHold, Facts
  <1> QED  BY <1>1, Inductive, PTL

\* A request that is open is answered or mined; no tab drops it, so no record
\* goes before what became of its request is known (removePendingLaunch and its
\* kin, which want the canonical receipt, the refusal or a review of the
\* wallet's history).
NothingOpenIsDropped ==
    ~erased => \A n \in DOMAIN tx : Unresolved(n) => tx'[n].state # "closed"

THEOREM OpenRequestsAreFollowed == Spec => [][NothingOpenIsDropped]_vars
  <1>2. ASSUME ~erased => IInv, [Next]_vars
        PROVE  [NothingOpenIsDropped]_vars
    <2> SUFFICES ASSUME IInv, Next, NEW n \in DOMAIN tx, Unresolved(n), tx'[n].state = "closed"
                 PROVE  FALSE
      BY <1>2 DEF NothingOpenIsDropped
    <2>1. tx \in Seq(Sendings) /\ tx[n].state \in {"prompt", "sent"}
      BY DEF IInv, Types, Unresolved
    <2>2. ASSUME tx' = tx
          PROVE  FALSE
      BY <2>1, <2>2
    <2>3. ASSUME NEW m, NEW s, SetTx(m, s), m = n => s # "closed"
          PROVE  FALSE
      BY <2>1, <2>3 DEF SetTx
    <2>4. ASSUME NEW x, tx' = Append(tx, x)
          PROVE  FALSE
      BY <2>1, <2>4
    <2>5. \A t \in Tabs : Types /\ PageSends(page[t])
      BY DEF IInv, PageOK
    <2>6. ASSUME NEW t \in Tabs, SaveIntent(t)
          PROVE  FALSE
      <3>1. page[t].pc = "saving"
        BY <2>6 DEF SaveIntent, Writing
      <3>2. page[t].intent.send # n
        BY <2>1, <2>5, <3>1 DEF PageSends
      <3> QED  BY <2>3, <2>6, <3>2 DEF SaveIntent
    <2>7. ASSUME NEW t \in Tabs, RemoveRecord(t)
          PROVE  FALSE
      <3>1. page[t].pc \in Over
        BY <2>7 DEF RemoveRecord, Writing, Over
      <3>2. page[t].intent.send # n
        BY <2>5, <3>1 DEF PageSends
      <3> QED  BY <2>2, <2>3, <2>7, <3>2 DEF RemoveRecord
    <2>8. ASSUME NEW t \in Tabs, CutShort(t)
          PROVE  FALSE
      <3>1. page[t].pc = "saving" => page[t].intent.send # n
        BY <2>1, <2>5 DEF PageSends
      <3> QED  BY <2>2, <2>3, <2>8, <3>1 DEF CutShort, SetTx
    <2>9. ASSUME NEW t \in Tabs,
                 \/ SendApproval(t) \/ SendRevocation(t) \/ SendLaunch(t)
                 \/ SendNextApproval(t) \/ ClearAllowance(t) \/ SendTrade(t)
                 \/ SendClaim(t) \/ UpdateCreator(t) \/ SubmitAction(t)
          PROVE  FALSE
      <3>1. \E amount : Submitting(t, amount)
        BY <2>9 DEF SendApproval, SendRevocation, SendLaunch, SendNextApproval, ClearAllowance,
                    SendTrade, SendClaim, UpdateCreator, SubmitAction
      <3> QED  BY <2>4, <3>1 DEF Submitting
    <2>10. ASSUME NEW t \in Tabs, PageStep(t)
           PROVE  FALSE
      <3>1. CASE \/ CheckFails(t) \/ LocksBusy(t) \/ SaveHash(t) \/ ResetStore(t)
                 \/ ReceiveHash(t) \/ ReceiveRefusal(t) \/ DropPrepared(t) \/ LaunchNeedsApproval(t)
        BY <2>2, <3>1 DEF CheckFails, LocksBusy, SaveHash, ResetStore, ReceiveHash,
                          ReceiveRefusal, DropPrepared, LaunchNeedsApproval
      <3>2. CASE \/ ConfirmApproval(t) \/ ConfirmLaunch(t)
                 \/ ConfirmTradeApproval(t) \/ ConfirmTrade(t)
                 \/ ConfirmClaim(t) \/ ConfirmCreatorHandoff(t) \/ ConfirmAction(t)
        BY <2>2, <3>2
           DEF ConfirmApproval, ConfirmLaunch, LaunchReceipt, ConfirmTradeApproval, ConfirmTrade,
               TradeReceipt, ConfirmClaim, ConfirmCreatorHandoff, ConfirmAction, Confirming
      <3> QED  BY <2>6, <2>7, <2>9, <2>10, <3>1, <3>2
               DEF PageStep, LaunchStep, TradeStep, CreatorStep
    <2>11. ASSUME NEW t \in Tabs, NEW w \in Wallets,
                  PrepareLaunch(t, w) \/ Start(t, w) \/ Recovery(t, w)
           PROVE  FALSE
      <3>1. CASE PrepareLaunch(t, w)
        BY <2>2, <3>1 DEF PrepareLaunch
      <3>2. CASE Start(t, w)
        BY <2>2, <3>2
           DEF Start, LaunchStart, TradeStart, CreatorStart, SubmitNextApproval,
               RevokeFactoryAllowance, SubmitLaunch, ApproveNextStep, ClearStaleAllowance,
               SubmitTrade, Claim, SubmitHandoff, SubmitKeeper, WithSubmissionLock
      <3>3. CASE Recovery(t, w)
        BY <2>2, <3>3
           DEF Recovery, LaunchRecovery, TradeRecovery, CreatorRecovery, ReconcilePendingLaunch,
               ClearReconciledLaunchLock, ReconcilePendingTrade, ClearReconciledTradeLock,
               ReconcilePendingClaim, ClearReconciledClaimLock, ResetClaimSafetyLock,
               ReconcileHandoff, ClearCheckedLock, ResetSafetyLock, ReconcileKeeper,
               ClearHashlessIntent, ResetRecoveryLock, Reconciling, Clearing, Resetting
      <3> QED  BY <2>11, <3>1, <3>2, <3>3
    <2>12. ASSUME NEW m \in DOMAIN tx, UserAnswers(m) \/ Mines(m)
           PROVE  FALSE
      <3>1. \E s \in States \ {"closed"} : SetTx(m, s)
        BY <2>12 DEF UserAnswers, Mines, Reverts, LaunchMined, TradeMined, CreatorMined,
                     MineApproval, MineLaunch, MineTradeApproval, MineTrade, MineClaim,
                     MineHandoff, MineKeeper, Mined, States
      <3> QED  BY <2>3, <3>1
    <2>13. ASSUME NEW t \in Tabs, ReadStore(t)
           PROVE  FALSE
      BY <2>2, <2>13 DEF ReadStore
    <2>14. CASE RecordExpires \/ FeesAccrue
      BY <2>2, <2>14 DEF RecordExpires, FeesAccrue
    <2> QED  BY <2>8, <2>10, <2>11, <2>12, <2>13, <2>14 DEF Next
  <1>3. (~erased => IInv) /\ [Next]_vars => [NothingOpenIsDropped]_vars
    BY <1>2
  <1> QED  BY <1>3, Inductive, PTL DEF Spec

-----------------------------------------------------------------------------
(* The market feed.  What a set of numbers lists from the largest down: the    *)
(* rank of a member is the number of members at least as large.                *)

Upper(S, n) == {m \in S : m >= n}
Rank(S, n) == Cardinality(Upper(S, n))

LEMMA UpperFinite ==
  ASSUME NEW S \in SUBSET Nat, IsFiniteSet(S), NEW n
  PROVE  /\ Upper(S, n) \subseteq S /\ IsFiniteSet(Upper(S, n))
         /\ Rank(S, n) \in Nat /\ Rank(S, n) <= Cardinality(S)
  <1>1. Upper(S, n) \in SUBSET S
    BY DEF Upper
  <1>2. IsFiniteSet(Upper(S, n)) /\ Cardinality(Upper(S, n)) <= Cardinality(S)
    BY <1>1, FS_Subset
  <1>3. Cardinality(Upper(S, n)) \in Nat
    BY <1>2, FS_CardinalityType
  <1> QED  BY <1>1, <1>2, <1>3 DEF Rank

LEMMA RankStrict ==
  ASSUME NEW S \in SUBSET Nat, IsFiniteSet(S), NEW n \in S, NEW m \in S, n < m
  PROVE  Rank(S, m) < Rank(S, n)
  <1>1. Upper(S, m) \in SUBSET Upper(S, n) /\ n \in Upper(S, n) /\ n \notin Upper(S, m)
    <2>1. n \in Nat /\ m \in Nat /\ ~(n >= m)
      OBVIOUS
    <2>2. \A x \in S : x >= m => x >= n
      BY <2>1
    <2>3. Upper(S, m) \in SUBSET Upper(S, n)
      BY <2>2 DEF Upper
    <2>4. n \in Upper(S, n)
      BY <2>1 DEF Upper
    <2>5. n \notin Upper(S, m)
      BY <2>1 DEF Upper
    <2> QED  BY <2>3, <2>4, <2>5
  <1>2. IsFiniteSet(Upper(S, n)) /\ Rank(S, n) \in Nat /\ Rank(S, m) \in Nat
    BY UpperFinite
  <1>3. /\ Cardinality(Upper(S, m)) <= Cardinality(Upper(S, n))
        /\ Cardinality(Upper(S, n)) = Cardinality(Upper(S, m)) => Upper(S, n) = Upper(S, m)
    BY <1>1, <1>2, FS_Subset
  <1> QED  BY <1>1, <1>2, <1>3 DEF Rank

LEMMA RankBounds ==
  ASSUME NEW S \in SUBSET Nat, IsFiniteSet(S), NEW n \in S
  PROVE  Rank(S, n) \in 1 .. Cardinality(S)
  <1>1. n \in Upper(S, n)
    BY DEF Upper
  <1>2. IsFiniteSet(Upper(S, n)) /\ Rank(S, n) \in Nat /\ Rank(S, n) <= Cardinality(S)
    BY UpperFinite
  <1>3. Rank(S, n) # 0
    BY <1>1, <1>2, FS_EmptySet DEF Rank
  <1>4. Cardinality(S) \in Nat
    BY FS_CardinalityType
  <1> QED  BY <1>2, <1>3, <1>4

LEMMA RankInjective ==
  ASSUME NEW S \in SUBSET Nat, IsFiniteSet(S), NEW n \in S, NEW m \in S,
         Rank(S, n) = Rank(S, m)
  PROVE  n = m
  <1>1. ~(n < m) /\ ~(m < n)
    <2>1. Rank(S, n) \in Nat /\ Rank(S, m) \in Nat
      BY UpperFinite
    <2>2. n < m => Rank(S, m) < Rank(S, n)
      BY RankStrict
    <2>3. m < n => Rank(S, n) < Rank(S, m)
      BY RankStrict
    <2> QED  BY <2>1, <2>2, <2>3
  <1>2. n \in Nat /\ m \in Nat
    OBVIOUS
  <1> QED  BY <1>1, <1>2

LEMMA RankOnto ==
  ASSUME NEW S \in SUBSET Nat, IsFiniteSet(S), NEW k \in 1 .. Cardinality(S)
  PROVE  \E n \in S : Rank(S, n) = k
  <1> DEFINE T == 1 .. Cardinality(S)
             f == [n \in S |-> Rank(S, n)]
  <1>1. Cardinality(S) \in Nat
    BY FS_CardinalityType
  <1>2. IsFiniteSet(T) /\ Cardinality(T) = Cardinality(S)
    BY <1>1, FS_Interval
  <1>3. f \in [S -> T]
    BY RankBounds
  <1>4. \A n, m \in S : f[n] = f[m] => n = m
    BY RankInjective
  <1>5. f \in Injection(S, T)
    BY <1>3, <1>4 DEF Injection, IsInjective
  <1>6. f \in Surjection(S, T)
    BY <1>2, <1>5, FS_Injection
  <1> QED  BY <1>6 DEF Surjection

LEMMA DescendingAt ==
  ASSUME NEW S \in SUBSET Nat, IsFiniteSet(S), NEW k \in 1 .. Cardinality(S)
  PROVE  Descending[S][k] \in S /\ Rank(S, Descending[S][k]) = k
  <1>1. Descending[S][k] = CHOOSE n \in S : Cardinality({m \in S : m >= n}) = k
    BY DEF Descending
  <1>2. \E n \in S : Cardinality({m \in S : m >= n}) = k
    BY RankOnto DEF Rank, Upper
  <1> QED  BY <1>1, <1>2 DEF Rank, Upper

LEMMA DescendingRank ==
  ASSUME NEW S \in SUBSET Nat, IsFiniteSet(S), NEW n \in S
  PROVE  Descending[S][Rank(S, n)] = n
  <1>1. Rank(S, n) \in 1 .. Cardinality(S)
    BY RankBounds
  <1>2. PICK x \in S : x = Descending[S][Rank(S, n)] /\ Rank(S, x) = Rank(S, n)
    BY <1>1, DescendingAt
  <1>3. x = n
    BY <1>2, RankInjective
  <1> QED  BY <1>2, <1>3

\* The members from the k-th down to the largest.
LEMMA UpperDescending ==
  ASSUME NEW S \in SUBSET Nat, IsFiniteSet(S), NEW n \in S, NEW k \in 1 .. Rank(S, n)
  PROVE  /\ Descending[S][k] >= n /\ Descending[S][k] \in S
         /\ Descending[Upper(S, n)][k] = Descending[S][k]
  <1> DEFINE V == Upper(S, n)
  <1>1. Rank(S, n) \in 1 .. Cardinality(S) /\ Cardinality(S) \in Nat
    BY RankBounds, FS_CardinalityType
  <1>2. PICK x \in S : x = Descending[S][k] /\ Rank(S, x) = k
    <2>1. k \in 1 .. Cardinality(S)
      BY <1>1
    <2> QED  BY <2>1, DescendingAt
  <1>3. x \in Nat /\ n \in Nat
    OBVIOUS
  <1>4. x >= n
    <2>1. x < n => Rank(S, n) < Rank(S, x)
      BY RankStrict
    <2> QED  BY <2>1, <1>1, <1>2, <1>3
  <1>5. x \in V
    BY <1>4 DEF Upper
  <1>6. V \in SUBSET Nat /\ IsFiniteSet(V)
    BY UpperFinite
  <1>7. Upper(V, x) = Upper(S, x)
    <2>1. \A m \in S : m >= x => m >= n
      BY <1>3, <1>4
    <2> QED  BY <2>1 DEF Upper
  <1>8. Rank(V, x) = k
    BY <1>2, <1>7 DEF Rank
  <1>9. Descending[V][k] = x
    <2> HIDE DEF V
    <2> QED  BY <1>5, <1>6, <1>8, DescendingRank
  <1> QED  BY <1>2, <1>4, <1>9

-----------------------------------------------------------------------------
(* Pages of launches.                                                         *)

Ats(rows) == {rows[i].at : i \in 1 .. Len(rows)}

LEMMA BlocksFacts ==
  ASSUME NEW c \in Seq(Tokens), NEW B \in SUBSET Blocks(c)
  PROVE  /\ B \in SUBSET Nat /\ IsFiniteSet(B) /\ Cardinality(B) \in Nat
         /\ Cardinality(B) <= Len(c)
         /\ \A b \in B : Launch(c, b) \in Launches /\ Launch(c, b).at = b
                         /\ Launch(c, b).token = c[b]
  <1>1. Len(c) \in Nat
    OBVIOUS
  <1>2. IsFiniteSet(Blocks(c)) /\ Cardinality(Blocks(c)) = Len(c)
    <2>1. /\ IsFiniteSet(1 .. Len(c))
          /\ Cardinality(1 .. Len(c)) = IF 1 > Len(c) THEN 0 ELSE Len(c) - 1 + 1
      BY <1>1, FS_Interval
    <2> QED  BY <1>1, <2>1 DEF Blocks
  <1>3. IsFiniteSet(B) /\ Cardinality(B) <= Len(c)
    BY <1>2, FS_Subset
  <1>4. Cardinality(B) \in Nat
    BY <1>3, FS_CardinalityType
  <1>5. Blocks(c) \subseteq Nat
    BY <1>1 DEF Blocks
  <1>6. ASSUME NEW b \in B
        PROVE  Launch(c, b) \in Launches /\ Launch(c, b).at = b /\ Launch(c, b).token = c[b]
    <2>1. b \in 1 .. Len(c) /\ b \in Nat
      BY <1>5 DEF Blocks
    <2>2. c[b] \in Tokens
      BY <2>1
    <2> QED  BY <2>1, <2>2 DEF Launch, Launches
  <1> QED  BY <1>3, <1>4, <1>5, <1>6

LEMMA NewestFirstFacts ==
  ASSUME NEW c \in Seq(Tokens), NEW B \in SUBSET Blocks(c)
  PROVE  /\ NewestFirst(c)[B] \in Seq(Launches)
         /\ Len(NewestFirst(c)[B]) = Cardinality(B)
         /\ \A k \in 1 .. Cardinality(B) :
              /\ Descending[B][k] \in B
              /\ NewestFirst(c)[B][k] = Launch(c, Descending[B][k])
  <1>1. B \in SUBSET Nat /\ IsFiniteSet(B) /\ Cardinality(B) \in Nat
    BY BlocksFacts
  <1>2. NewestFirst(c)[B] = [k \in 1 .. Cardinality(B) |-> Launch(c, Descending[B][k])]
    BY <1>1 DEF NewestFirst
  <1>3. \A k \in 1 .. Cardinality(B) : Descending[B][k] \in B
    BY <1>1, DescendingAt
  <1>4. \A k \in 1 .. Cardinality(B) : Launch(c, Descending[B][k]) \in Launches
    BY <1>3, BlocksFacts
  <1>5. NewestFirst(c)[B] \in [1 .. Cardinality(B) -> Launches]
    BY <1>2, <1>4
  <1>6. NewestFirst(c)[B] \in Seq(Launches) /\ Len(NewestFirst(c)[B]) = Cardinality(B)
    BY <1>1, <1>5, SeqDef, LenProperties
  <1> QED  BY <1>2, <1>3, <1>6

LEMMA NewestFirstAts ==
  ASSUME NEW c \in Seq(Tokens), NEW B \in SUBSET Blocks(c)
  PROVE  Ats(NewestFirst(c)[B]) = B
  <1> DEFINE rows == NewestFirst(c)[B]
  <1>1. B \in SUBSET Nat /\ IsFiniteSet(B)
    BY BlocksFacts
  <1>2. /\ Len(rows) = Cardinality(B)
        /\ \A k \in 1 .. Cardinality(B) : Descending[B][k] \in B
                                          /\ rows[k] = Launch(c, Descending[B][k])
    BY NewestFirstFacts
  <1>3. \A b \in B : Launch(c, b).at = b
    BY BlocksFacts
  <1>4. \A k \in 1 .. Len(rows) : rows[k].at \in B
    BY <1>2, <1>3
  <1>5. ASSUME NEW b \in B
        PROVE  \E k \in 1 .. Len(rows) : rows[k].at = b
    <2>1. Rank(B, b) \in 1 .. Cardinality(B) /\ Descending[B][Rank(B, b)] = b
      BY <1>1, RankBounds, DescendingRank
    <2> QED  BY <1>2, <1>3, <2>1
  <1> HIDE DEF rows
  <1>6. Ats(rows) \subseteq B
    BY <1>4 DEF Ats
  <1>7. B \subseteq Ats(rows)
    BY <1>5 DEF Ats
  <1> QED  BY <1>6, <1>7 DEF rows

\* The first rows of a list are the list of the newest blocks.
LEMMA NewestFirstLimited ==
  ASSUME NEW c \in Seq(Tokens), NEW B \in SUBSET Blocks(c),
         NEW limit \in 1 .. Cardinality(B)
  PROVE  \E n \in B :
           /\ Rank(B, n) = limit
           /\ SubSeq(NewestFirst(c)[B], 1, limit) = NewestFirst(c)[Upper(B, n)]
           /\ NewestFirst(c)[B][limit] = Launch(c, n)
  <1>1. B \in SUBSET Nat /\ IsFiniteSet(B) /\ Cardinality(B) \in Nat
    BY BlocksFacts
  <1>2. PICK n \in B : n = Descending[B][limit] /\ Rank(B, n) = limit
    BY <1>1, DescendingAt
  <1> DEFINE V == Upper(B, n)
             rows == NewestFirst(c)[B]
             first == NewestFirst(c)[V]
  <1>3. V \in SUBSET Blocks(c) /\ Cardinality(V) = limit
    BY <1>1, <1>2, UpperFinite DEF Rank
  <1>4. /\ rows \in Seq(Launches) /\ Len(rows) = Cardinality(B)
        /\ \A k \in 1 .. Cardinality(B) : rows[k] = Launch(c, Descending[B][k])
    BY NewestFirstFacts
  <1>5. /\ first \in Seq(Launches) /\ Len(first) = limit
        /\ \A k \in 1 .. limit : first[k] = Launch(c, Descending[V][k])
    <2> HIDE DEF V
    <2> QED  BY <1>3, NewestFirstFacts
  <1>6. \A k \in 1 .. limit : Descending[V][k] = Descending[B][k]
    BY <1>1, <1>2, UpperDescending
  <1> HIDE DEF V, rows, first
  <1>7. \A k \in 1 .. limit : first[k] = rows[k]
    BY <1>1, <1>4, <1>5, <1>6
  <1>8. /\ SubSeq(rows, 1, limit) \in Seq(Launches)
        /\ Len(SubSeq(rows, 1, limit)) = limit
        /\ \A k \in 1 .. limit : SubSeq(rows, 1, limit)[k] = rows[k]
    BY <1>1, <1>4
  <1>9. SubSeq(rows, 1, limit) = first
    BY <1>5, <1>7, <1>8, SeqEqual
  <1>10. rows[limit] = Launch(c, n)
    BY <1>1, <1>2, <1>4
  <1> QED  BY <1>2, <1>9, <1>10 DEF V, rows, first

\* What a page is: the newest of the blocks that the cursor leaves, and a cursor
\* to the last of them when there are more.
LEMMA PageFacts ==
  ASSUME NEW c \in Seq(Tokens), NEW B \in SUBSET Blocks(c), NEW cursor,
         NEW limit \in Nat \ {0}
  PROVE  LET older == {b \in B : Before(Launch(c, b), cursor)}
             answer == PageOf(c, B, cursor, limit)
         IN  \/ /\ answer = [rows |-> NewestFirst(c)[older], next |-> End]
                /\ Cardinality(older) <= limit
             \/ \E n \in older :
                  /\ Rank(older, n) = limit /\ Cardinality(older) > limit
                  /\ answer = [rows |-> NewestFirst(c)[Upper(older, n)], next |-> Launch(c, n)]
  <1> DEFINE older == {b \in B : Before(Launch(c, b), cursor)}
             answer == PageOf(c, B, cursor, limit)
             rows == NewestFirst(c)[older]
  <1>1. older \in SUBSET Blocks(c)
    OBVIOUS
  <1>2. Len(rows) = Cardinality(older) /\ Cardinality(older) \in Nat
    <2> HIDE DEF older
    <2> QED  BY <1>1, NewestFirstFacts, BlocksFacts
  <1>3. answer = [rows |-> IF Len(rows) > limit THEN SubSeq(rows, 1, limit) ELSE rows,
                next |-> IF Len(rows) > limit THEN rows[limit] ELSE End]
    BY DEF PageOf
  <1> SUFFICES \/ answer = [rows |-> NewestFirst(c)[older], next |-> End]
                  /\ Cardinality(older) <= limit
               \/ \E n \in older :
                    /\ Rank(older, n) = limit /\ Cardinality(older) > limit
                    /\ answer = [rows |-> NewestFirst(c)[Upper(older, n)], next |-> Launch(c, n)]
    OBVIOUS
  <1> HIDE DEF older, answer
  <1>4. CASE Len(rows) > limit
    <2>1. limit \in 1 .. Cardinality(older)
      BY <1>2, <1>4
    <2>2. PICK n \in older : /\ Rank(older, n) = limit
                             /\ SubSeq(rows, 1, limit) = NewestFirst(c)[Upper(older, n)]
                             /\ rows[limit] = Launch(c, n)
      BY <1>1, <2>1, NewestFirstLimited
    <2>3. answer = [rows |-> NewestFirst(c)[Upper(older, n)], next |-> Launch(c, n)]
      BY <1>3, <1>4, <2>2
    <2> QED  BY <1>2, <1>4, <2>2, <2>3
  <1>5. CASE ~(Len(rows) > limit)
    <2>1. answer = [rows |-> rows, next |-> End]
      BY <1>3, <1>5
    <2> QED  BY <1>2, <1>5, <2>1
  <1> QED  BY <1>4, <1>5

\* In any page the rows and the cursor are launches.
LEMMA PageType ==
  ASSUME NEW c \in Seq(Tokens), NEW B \in SUBSET Blocks(c), NEW cursor,
         NEW limit \in Nat \ {0}
  PROVE  /\ PageOf(c, B, cursor, limit).rows \in Seq(Launches)
         /\ PageOf(c, B, cursor, limit).next \in Launches \cup {End}
  <1> DEFINE older == {b \in B : Before(Launch(c, b), cursor)}
             answer == PageOf(c, B, cursor, limit)
  <1>1. \/ answer = [rows |-> NewestFirst(c)[older], next |-> End]
        \/ \E n \in older :
             answer = [rows |-> NewestFirst(c)[Upper(older, n)], next |-> Launch(c, n)]
    <2>1. \/ /\ answer = [rows |-> NewestFirst(c)[older], next |-> End]
             /\ Cardinality(older) <= limit
          \/ \E n \in older :
               /\ Rank(older, n) = limit /\ Cardinality(older) > limit
               /\ answer = [rows |-> NewestFirst(c)[Upper(older, n)], next |-> Launch(c, n)]
      BY PageFacts, Zenon
    <2> HIDE DEF older, answer
    <2> QED  BY <2>1
  <1>2. older \in SUBSET Blocks(c)
    OBVIOUS
  <1> HIDE DEF older, answer
  <1>3. \A n : Upper(older, n) \in SUBSET Blocks(c)
    BY <1>2 DEF Upper
  <1>4. NewestFirst(c)[older] \in Seq(Launches)
    BY <1>2, NewestFirstFacts
  <1>5. \A n : NewestFirst(c)[Upper(older, n)] \in Seq(Launches)
    BY <1>3, NewestFirstFacts
  <1>6. \A n \in older : Launch(c, n) \in Launches
    BY <1>2, BlocksFacts
  <1> QED  BY <1>1, <1>4, <1>5, <1>6 DEF answer

-----------------------------------------------------------------------------
(* Merged pages.                                                              *)

\* What others holds of rows: those of no token in tokens.
HoldsOthers(tokens, rows, others) ==
  /\ others \in Seq(Launches)
  /\ \A k \in 1 .. Len(others) :
       \E i \in 1 .. Len(rows) : rows[i].token \notin tokens /\ others[k] = rows[i]
  /\ \A i \in 1 .. Len(rows) : rows[i].token \notin tokens =>
       \E k \in 1 .. Len(others) : others[k] = rows[i]

LEMMA OthersKept ==
  ASSUME NEW rows \in Seq(Launches), NEW tokens \in SUBSET Tokens
  PROVE  HoldsOthers(tokens, rows, Others[tokens][rows])
  <1> DEFINE kept == {i \in 1 .. Len(rows) : rows[i].token \notin tokens}
             n == Cardinality(kept)
             others == [k \in 1 .. n |-> rows[Descending[kept][n + 1 - k]]]
  <1>1. Len(rows) \in Nat
    OBVIOUS
  <1>2. kept \in SUBSET Nat /\ IsFiniteSet(kept) /\ n \in Nat
    <2>1. IsFiniteSet(1 .. Len(rows)) /\ kept \in SUBSET (1 .. Len(rows))
      BY <1>1, FS_Interval
    <2>2. IsFiniteSet(kept)
      BY <2>1, FS_Subset
    <2> QED  BY <1>1, <2>2, FS_CardinalityType
  <1>3. Others[tokens][rows] = others
    BY DEF Others
  <1>4. \A i \in kept : i \in 1 .. Len(rows) /\ rows[i].token \notin tokens /\ rows[i] \in Launches
    OBVIOUS
  <1>5. \A i \in 1 .. Len(rows) : rows[i].token \notin tokens => i \in kept
    OBVIOUS
  <1> HIDE DEF kept
  <1>6. \A k \in 1 .. n : n + 1 - k \in 1 .. n
    BY <1>2
  <1>7. \A k \in 1 .. n : Descending[kept][n + 1 - k] \in kept
    BY <1>2, <1>6, DescendingAt
  <1>8. others \in Seq(Launches) /\ Len(others) = n
    <2>1. \A k \in 1 .. n : rows[Descending[kept][n + 1 - k]] \in Launches
      BY <1>4, <1>7
    <2>2. others \in [1 .. n -> Launches]
      BY <2>1
    <2> QED  BY <1>2, <2>2, SeqDef, LenProperties
  <1>9. ASSUME NEW k \in 1 .. n
        PROVE  \E i \in 1 .. Len(rows) : rows[i].token \notin tokens /\ others[k] = rows[i]
    BY <1>4, <1>7
  <1>10. ASSUME NEW i \in kept
         PROVE  \E k \in 1 .. n : others[k] = rows[i]
    <2>1. Rank(kept, i) \in 1 .. n /\ Descending[kept][Rank(kept, i)] = i
      BY <1>2, RankBounds, DescendingRank
    <2> DEFINE k == n + 1 - Rank(kept, i)
    <2>2. k \in 1 .. n /\ n + 1 - k = Rank(kept, i)
      BY <1>2, <2>1
    <2> HIDE DEF k
    <2> QED  BY <2>1, <2>2
  <1> HIDE DEF others
  <1>11. HoldsOthers(tokens, rows, others)
    BY <1>5, <1>8, <1>9, <1>10 DEF HoldsOthers
  <1> QED  BY <1>3, <1>11

\* A merge shows the rows of the first page, and the retained rows of other tokens.
LEMMA MergeFacts ==
  ASSUME NEW first \in Seq(Launches), NEW retained \in Seq(Launches)
  PROVE  LET merged == mergeMarketPages(first, retained)
         IN  /\ merged \in Seq(Launches)
             /\ \A k \in 1 .. Len(merged) :
                  \/ \E i \in 1 .. Len(first) : merged[k] = first[i]
                  \/ \E i \in 1 .. Len(retained) : merged[k] = retained[i]
             /\ \A i \in 1 .. Len(first) : \E k \in 1 .. Len(merged) : merged[k] = first[i]
             /\ \A i \in 1 .. Len(retained) :
                  \/ retained[i].token \in TokensOf(first)
                  \/ \E k \in 1 .. Len(merged) : merged[k] = retained[i]
  <1> DEFINE merged == mergeMarketPages(first, retained)
             others == Others[TokensOf(first)][retained]
  <1>1. TokensOf(first) \in SUBSET Tokens
    <2>1. \A i \in 1 .. Len(first) : first[i] \in Launches
      OBVIOUS
    <2>2. \A l \in Launches : l.token \in Tokens
      BY DEF Launches
    <2> QED  BY <2>1, <2>2 DEF TokensOf
  <1>2. /\ others \in Seq(Launches)
        /\ \A k \in 1 .. Len(others) : \E i \in 1 .. Len(retained) : others[k] = retained[i]
        /\ \A i \in 1 .. Len(retained) : retained[i].token \notin TokensOf(first) =>
             \E k \in 1 .. Len(others) : others[k] = retained[i]
    <2> DEFINE tokens == TokensOf(first)
    <2> HIDE DEF tokens
    <2>1. tokens \in SUBSET Tokens
      BY <1>1 DEF tokens
    <2>2. HoldsOthers(tokens, retained, Others[tokens][retained])
      BY <2>1, OthersKept
    <2> QED  BY <2>2 DEF tokens, HoldsOthers
  <1>3. merged = first \o others
    BY DEF mergeMarketPages
  <1> SUFFICES
        /\ merged \in Seq(Launches)
        /\ \A k \in 1 .. Len(merged) :
             \/ \E i \in 1 .. Len(first) : merged[k] = first[i]
             \/ \E i \in 1 .. Len(retained) : merged[k] = retained[i]
        /\ \A i \in 1 .. Len(first) : \E k \in 1 .. Len(merged) : merged[k] = first[i]
        /\ \A i \in 1 .. Len(retained) :
             \/ retained[i].token \in TokensOf(first)
             \/ \E k \in 1 .. Len(merged) : merged[k] = retained[i]
    OBVIOUS
  <1> HIDE DEF merged, others
  <1>4. /\ merged \in Seq(Launches) /\ Len(merged) = Len(first) + Len(others)
        /\ \A k \in 1 .. Len(first) + Len(others) :
             merged[k] = IF k <= Len(first) THEN first[k] ELSE others[k - Len(first)]
    BY <1>2, <1>3, ConcatProperties
  <1>5. Len(first) \in Nat /\ Len(others) \in Nat
    BY <1>2
  <1>6. ASSUME NEW k \in 1 .. Len(merged)
        PROVE  \/ \E i \in 1 .. Len(first) : merged[k] = first[i]
               \/ \E i \in 1 .. Len(retained) : merged[k] = retained[i]
    <2>1. CASE k <= Len(first)
      BY <1>4, <1>5, <2>1
    <2>2. CASE ~(k <= Len(first))
      <3>1. k - Len(first) \in 1 .. Len(others) /\ merged[k] = others[k - Len(first)]
        BY <1>4, <1>5, <2>2
      <3> QED  BY <1>2, <3>1
    <2> QED  BY <2>1, <2>2
  <1>7. ASSUME NEW i \in 1 .. Len(first)
        PROVE  \E k \in 1 .. Len(merged) : merged[k] = first[i]
    <2>1. i \in 1 .. Len(merged) /\ merged[i] = first[i]
      BY <1>4, <1>5
    <2> QED  BY <2>1
  <1>8. ASSUME NEW j \in 1 .. Len(others)
        PROVE  \E k \in 1 .. Len(merged) : merged[k] = others[j]
    <2> DEFINE k == Len(first) + j
    <2>1. k \in 1 .. Len(merged) /\ ~(k <= Len(first)) /\ k - Len(first) = j
      BY <1>4, <1>5
    <2> HIDE DEF k
    <2>2. merged[k] = others[j]
      BY <1>4, <2>1
    <2> QED  BY <2>1, <2>2
  <1>9. ASSUME NEW i \in 1 .. Len(retained), retained[i].token \notin TokensOf(first)
        PROVE  \E k \in 1 .. Len(merged) : merged[k] = retained[i]
    <2>1. PICK j \in 1 .. Len(others) : others[j] = retained[i]
      BY <1>2, <1>9
    <2> QED  BY <1>8, <2>1
  <1> QED  BY <1>4, <1>6, <1>7, <1>9

-----------------------------------------------------------------------------
(* The board, while the chain has only grown: the token of a block is then the *)
(* number of the block.                                                       *)

Plain(c) == \A i \in 1 .. Len(c) : c[i] = i
PlainRow(l) == l.token = l.at
PlainRows(rows) == \A i \in 1 .. Len(rows) : PlainRow(rows[i])

\* The newest block that a page may show.
Top(c, cursor) == IF cursor = Newest THEN Len(c) ELSE cursor.at - 1

\* A page shows the blocks from its last row up to the newest that the cursor leaves.
LEMMA TokenPageFacts ==
  ASSUME NEW c \in Seq(Tokens), Plain(c), NEW cursor \in Launches \cup {Newest},
         cursor # Newest => PlainRow(cursor) /\ cursor.at \in 2 .. Len(c) + 1
  PROVE  LET answer == TokenPage(c, cursor)
             top == Top(c, cursor)
         IN  /\ answer.rows \in Seq(Launches) /\ PlainRows(answer.rows)
             /\ top \in Nat /\ top <= Len(c)
             /\ \/ answer.next = End /\ top <= PageLimit /\ Ats(answer.rows) = 1 .. top
                \/ /\ answer.next \in Launches /\ PlainRow(answer.next)
                   /\ answer.next.at = top - PageLimit + 1 /\ answer.next.at >= 2
                   /\ Ats(answer.rows) = answer.next.at .. top
  <1> DEFINE answer == TokenPage(c, cursor)
             top == Top(c, cursor)
             older == {b \in Blocks(c) : Before(Launch(c, b), cursor)}
  <1>1. PageLimit \in Nat \ {0} /\ Len(c) \in Nat
    BY FeedAssumption
  <1>2. top \in Nat /\ top <= Len(c) /\ (cursor # Newest => cursor.at = top + 1)
    <2>1. cursor # Newest => cursor.at \in Nat
      BY DEF Launches
    <2> QED  BY <1>1, <2>1 DEF Top
  <1>3. \A b \in Blocks(c) : Launch(c, b).at = b /\ Launch(c, b).token = b
                             /\ Launch(c, b) \in Launches
    <2>1. \A b \in Blocks(c) : c[b] = b
      BY DEF Plain, Blocks
    <2>2. \A b \in Blocks(c) : Launch(c, b).at = b /\ Launch(c, b).token = c[b]
                               /\ Launch(c, b) \in Launches
      BY BlocksFacts
    <2> QED  BY <2>1, <2>2
  <1>4. older = 1 .. top
    <2>1. ASSUME NEW b \in Blocks(c)
          PROVE  Before(Launch(c, b), cursor) <=> b <= top
      <3>1. b \in Nat /\ b <= Len(c)
        BY <1>1 DEF Blocks
      <3>2. CASE cursor = Newest
        BY <1>2, <3>1, <3>2 DEF Before, Top
      <3>3. CASE cursor # Newest
        <4>1. cursor.at = top + 1 /\ cursor.token = top + 1
          BY <1>2, <3>3 DEF PlainRow
        <4>2. Before(Launch(c, b), cursor) <=> b < top + 1 \/ (b = top + 1 /\ b < top + 1)
          BY <1>3, <3>3, <4>1 DEF Before
        <4> QED  BY <1>2, <3>1, <4>2
      <3> QED  BY <3>2, <3>3
    <2> HIDE DEF top
    <2>2. \A b \in 1 .. top : b \in Blocks(c)
      BY <1>1, <1>2 DEF Blocks
    <2>3. \A b \in Blocks(c) : b <= top => b \in 1 .. top
      BY <1>1, <1>2 DEF Blocks
    <2>4. \A b \in 1 .. top : b <= top
      BY <1>2
    <2> QED  BY <2>1, <2>2, <2>3, <2>4
  <1>5. /\ older \in SUBSET Blocks(c) /\ older \in SUBSET Nat /\ IsFiniteSet(older)
        /\ Cardinality(older) = top
    <2>1. /\ IsFiniteSet(1 .. top)
          /\ Cardinality(1 .. top) = IF 1 > top THEN 0 ELSE top - 1 + 1
      <3> HIDE DEF top
      <3> QED  BY <1>2, FS_Interval
    <2>2. older \in SUBSET Blocks(c)
      OBVIOUS
    <2> HIDE DEF older, top
    <2> QED  BY <1>2, <1>4, <2>1, <2>2
  <1>6. ASSUME NEW n \in older
        PROVE  Upper(older, n) = n .. top /\ Rank(older, n) = top - n + 1 /\ n \in Nat
    <2> HIDE DEF older, top
    <2>1. n \in 1 .. top /\ n \in Nat
      BY <1>2, <1>4
    <2>2. Upper(older, n) = n .. top
      <3>1. \A m \in older : m >= n => m \in n .. top
        BY <1>2, <1>4, <2>1
      <3>2. \A m \in n .. top : m \in older /\ m >= n
        BY <1>2, <1>4, <2>1
      <3> QED  BY <3>1, <3>2 DEF Upper
    <2>3. Cardinality(n .. top) = IF n > top THEN 0 ELSE top - n + 1
      BY <1>2, <2>1, FS_Interval
    <2> QED  BY <1>2, <2>1, <2>2, <2>3 DEF Rank
  <1>7. ASSUME NEW V \in SUBSET Blocks(c)
        PROVE  /\ NewestFirst(c)[V] \in Seq(Launches) /\ PlainRows(NewestFirst(c)[V])
               /\ Ats(NewestFirst(c)[V]) = V
    <2>1. /\ NewestFirst(c)[V] \in Seq(Launches)
          /\ Len(NewestFirst(c)[V]) = Cardinality(V)
          /\ \A k \in 1 .. Cardinality(V) : /\ Descending[V][k] \in V
                                            /\ NewestFirst(c)[V][k] = Launch(c, Descending[V][k])
      BY NewestFirstFacts
    <2>2. \A k \in 1 .. Cardinality(V) : PlainRow(NewestFirst(c)[V][k])
      BY <1>3, <2>1 DEF PlainRow
    <2> QED  BY <2>1, <2>2, NewestFirstAts DEF PlainRows
  <1>8. \/ /\ answer = [rows |-> NewestFirst(c)[older], next |-> End]
           /\ Cardinality(older) <= PageLimit
        \/ \E n \in older :
             /\ Rank(older, n) = PageLimit /\ Cardinality(older) > PageLimit
             /\ answer = [rows |-> NewestFirst(c)[Upper(older, n)], next |-> Launch(c, n)]
    <2>1. answer = PageOf(c, Blocks(c), cursor, PageLimit)
      BY DEF TokenPage
    <2>2. Blocks(c) \in SUBSET Blocks(c)
      OBVIOUS
    <2> DEFINE whole == Blocks(c)
    <2> HIDE DEF answer, whole
    <2>3. LET rest == {b \in whole : Before(Launch(c, b), cursor)}
              pg == PageOf(c, whole, cursor, PageLimit)
          IN  \/ /\ pg = [rows |-> NewestFirst(c)[rest], next |-> End]
                 /\ Cardinality(rest) <= PageLimit
              \/ \E n \in rest :
                   /\ Rank(rest, n) = PageLimit /\ Cardinality(rest) > PageLimit
                   /\ pg = [rows |-> NewestFirst(c)[Upper(rest, n)], next |-> Launch(c, n)]
      <3>1. whole \in SUBSET Blocks(c)
        BY DEF whole
      <3> QED  BY <1>1, <3>1, PageFacts
    <2> QED  BY <2>1, <2>3 DEF whole
  <1> SUFFICES /\ answer.rows \in Seq(Launches) /\ PlainRows(answer.rows)
               /\ \/ answer.next = End /\ top <= PageLimit /\ Ats(answer.rows) = 1 .. top
                  \/ /\ answer.next \in Launches /\ PlainRow(answer.next)
                     /\ answer.next.at = top - PageLimit + 1 /\ answer.next.at >= 2
                     /\ Ats(answer.rows) = answer.next.at .. top
    BY <1>2
  <1> HIDE DEF answer, top, older
  <1>9. CASE /\ answer = [rows |-> NewestFirst(c)[older], next |-> End]
             /\ Cardinality(older) <= PageLimit
    BY <1>4, <1>5, <1>7, <1>9
  <1>10. ASSUME NEW n \in older,
                Rank(older, n) = PageLimit, Cardinality(older) > PageLimit,
                answer = [rows |-> NewestFirst(c)[Upper(older, n)], next |-> Launch(c, n)]
         PROVE  /\ answer.rows \in Seq(Launches) /\ PlainRows(answer.rows)
                /\ answer.next \in Launches /\ PlainRow(answer.next)
                /\ answer.next.at = top - PageLimit + 1 /\ answer.next.at >= 2
                /\ Ats(answer.rows) = answer.next.at .. top
    <2>1. Upper(older, n) \in SUBSET Blocks(c)
      BY <1>5 DEF Upper
    <2>2. answer.next.at = n /\ answer.next.token = n /\ answer.next \in Launches
      BY <1>3, <1>5, <1>10
    <2>3. n = top - PageLimit + 1 /\ n >= 2
      BY <1>1, <1>2, <1>5, <1>6, <1>10
    <2>4. answer.rows \in Seq(Launches) /\ PlainRows(answer.rows) /\ Ats(answer.rows) = n .. top
      BY <1>6, <1>7, <1>10, <2>1
    <2> QED  BY <2>2, <2>3, <2>4 DEF PlainRow
  <1> QED  BY <1>8, <1>9, <1>10

\* A merge of such rows shows the blocks of both.
LEMMA MergePlain ==
  ASSUME NEW first \in Seq(Launches), NEW retained \in Seq(Launches),
         PlainRows(first), PlainRows(retained)
  PROVE  /\ mergeMarketPages(first, retained) \in Seq(Launches)
         /\ PlainRows(mergeMarketPages(first, retained))
         /\ Ats(mergeMarketPages(first, retained)) = Ats(first) \cup Ats(retained)
  <1> DEFINE merged == mergeMarketPages(first, retained)
  <1>1. /\ merged \in Seq(Launches)
        /\ \A k \in 1 .. Len(merged) :
             \/ \E i \in 1 .. Len(first) : merged[k] = first[i]
             \/ \E i \in 1 .. Len(retained) : merged[k] = retained[i]
        /\ \A i \in 1 .. Len(first) : \E k \in 1 .. Len(merged) : merged[k] = first[i]
        /\ \A i \in 1 .. Len(retained) :
             \/ retained[i].token \in TokensOf(first)
             \/ \E k \in 1 .. Len(merged) : merged[k] = retained[i]
    BY MergeFacts, Zenon
  <1> HIDE DEF merged
  <1>2. PlainRows(merged)
    BY <1>1 DEF PlainRows
  <1>3. Ats(merged) \subseteq Ats(first) \cup Ats(retained)
    <2>1. ASSUME NEW k \in 1 .. Len(merged)
          PROVE  merged[k].at \in Ats(first) \cup Ats(retained)
      <3>1. \A i \in 1 .. Len(first) : first[i].at \in Ats(first)
        BY DEF Ats
      <3>2. \A i \in 1 .. Len(retained) : retained[i].at \in Ats(retained)
        BY DEF Ats
      <3> QED  BY <1>1, <3>1, <3>2
    <2> QED  BY <2>1 DEF Ats
  <1>4. Ats(first) \subseteq Ats(merged)
    BY <1>1 DEF Ats
  <1>5. ASSUME NEW i \in 1 .. Len(retained)
        PROVE  retained[i].at \in Ats(merged)
    <2>1. CASE retained[i].token \in TokensOf(first)
      <3>1. PICK j \in 1 .. Len(first) : first[j].token = retained[i].token
        BY <2>1 DEF TokensOf
      <3>2. first[j].at = retained[i].at
        BY <3>1 DEF PlainRows, PlainRow
      <3>3. first[j].at \in Ats(first)
        BY DEF Ats
      <3> QED  BY <1>4, <3>2, <3>3
    <2>2. CASE \E k \in 1 .. Len(merged) : merged[k] = retained[i]
      BY <2>2 DEF Ats
    <2> QED  BY <1>1, <2>1, <2>2
  <1>6. Ats(retained) \subseteq Ats(merged)
    BY <1>5 DEF Ats
  <1> QED  BY <1>1, <1>2, <1>3, <1>4, <1>6 DEF merged

-----------------------------------------------------------------------------
(* Types.                                                                     *)

Boards == [tokens : Seq(Launches), deepest : Launches \cup {End, Unset},
           pages : Nat \ {0}, older : BOOLEAN]

BoardAsks ==
  {NoAsk} \cup [kind : {"first"}] \cup [kind : {"more"}, cursor : Launches]
    \cup [kind : {"chain"}, rows : Seq(Launches), cursor : Launches,
          count : Nat \ {0}, target : Nat]

Requests == [id : Nat, wallet : Accounts, cursor : Launches \cup {Newest}]

Portfolios == [account : Accounts, shown : [rows : Seq(Launches), loaded : BOOLEAN],
               next : Launches \cup {End}, ref : Nat]

ChainType ==
  /\ stored \in Seq(Tokens) /\ holders \in [Tokens -> SUBSET Accounts] /\ transfers \in Nat
  /\ cached \in Seq(Tokens) /\ up \in BOOLEAN /\ rollbacks \in Nat
BoardType ==
  hidden \in BOOLEAN /\ due \in BOOLEAN /\ board \in Boards /\ ask \in BoardAsks /\ polled \in Nat
PortfolioType == /\ portfolio \in Portfolios /\ loads \in SUBSET Requests
                 /\ origin \in Nat /\ steady \in SUBSET Nat /\ ever \in SUBSET Nat

\* The type invariant of the market feed.
FeedTypeOK ==
  /\ ChainType /\ BoardType /\ PortfolioType
  /\ view \in {"board", "portfolio"} /\ outrun \in BOOLEAN

LEMMA MarkerFacts ==
  /\ Newest \notin Launches /\ End \notin Launches /\ Unset \notin Launches
  /\ Newest # End /\ Newest # Unset /\ End # Unset
  BY MarkerAssumption DEF Launches

LEMMA AskKinds ==
  ASSUME ask \in BoardAsks
  PROVE  /\ ask.kind = "chain" =>
              /\ ask.rows \in Seq(Launches) /\ ask.cursor \in Launches
              /\ ask.count \in Nat \ {0} /\ ask.target \in Nat
         /\ ask.kind = "more" => ask.cursor \in Launches
         /\ NoAsk.kind = "none"
  BY DEF BoardAsks, NoAsk

LEMMA FeedInitType == FeedInit => FeedTypeOK
  <1> SUFFICES ASSUME FeedInit PROVE FeedTypeOK
    OBVIOUS
  <1>1. <<>> \in Seq(Tokens) /\ <<>> \in Seq(Launches)
    OBVIOUS
  <1>2. ChainType
    BY <1>1 DEF FeedInit, ChainType
  <1>3. BoardType
    <2>1. board \in Boards
      BY <1>1 DEF FeedInit, Boards
    <2>2. ask \in BoardAsks
      BY DEF FeedInit, BoardAsks
    <2> QED  BY <2>1, <2>2 DEF FeedInit, BoardType
  <1>4. PortfolioType
    <2>1. PICK w \in Accounts :
            /\ portfolio = [account |-> w, shown |-> Nothing, next |-> End, ref |-> 1]
            /\ loads = IF view = "portfolio" THEN {[id |-> 1, wallet |-> w, cursor |-> Newest]}
                                             ELSE {}
      BY DEF FeedInit
    <2>2. [id |-> 1, wallet |-> w, cursor |-> Newest] \in Requests
      BY DEF Requests
    <2>3. portfolio \in Portfolios
      BY <1>1, <2>1 DEF Portfolios, Nothing
    <2> QED  BY <2>1, <2>2, <2>3 DEF FeedInit, PortfolioType
  <1> QED  BY <1>2, <1>3, <1>4 DEF FeedInit, FeedTypeOK

LEMMA RevalidateType ==
  ASSUME BoardType, NEW rows \in Seq(Launches), NEW cursor \in Launches \cup {End},
         NEW count \in Nat \ {0}, NEW target \in Nat, Revalidate(rows, cursor, count, target)
  PROVE  board' \in Boards /\ due' \in BOOLEAN /\ ask' \in BoardAsks
  <1>1. CASE count < target /\ cursor # End
    BY <1>1 DEF Revalidate, BoardType, BoardAsks
  <1>2. CASE ~(count < target /\ cursor # End)
    <2>1. board' = Revalidated(rows, cursor, count) /\ due' = FALSE /\ ask' = NoAsk
      BY <1>2 DEF Revalidate
    <2>2. Revalidated(rows, cursor, count) \in Boards
      BY DEF Revalidated, Boards
    <2>3. NoAsk \in BoardAsks
      BY DEF BoardAsks
    <2> QED  BY <2>1, <2>2, <2>3
  <1> QED  BY <1>1, <1>2

LEMMA TokenPageType ==
  ASSUME NEW source \in Seq(Tokens), NEW cursor
  PROVE  /\ TokenPage(source, cursor).rows \in Seq(Launches)
         /\ TokenPage(source, cursor).next \in Launches \cup {End}
  BY PageType, FeedAssumption DEF TokenPage

LEMMA MergeType ==
  ASSUME NEW first \in Seq(Launches), NEW retained \in Seq(Launches)
  PROVE  mergeMarketPages(first, retained) \in Seq(Launches)
  BY MergeFacts

LEMMA RefreshAnsweredType ==
  ASSUME BoardType, NEW source \in Seq(Tokens), RefreshAnswered(source)
  PROVE  BoardType'
  <1> DEFINE answer == TokenPage(source, Newest)
  <1>1. answer.rows \in Seq(Launches) /\ answer.next \in Launches \cup {End}
    BY TokenPageType
  <1>2. polled' \in Nat /\ hidden' \in BOOLEAN
    BY DEF RefreshAnswered, BoardType
  <1>3. CASE board.pages > 1 /\ due
    <2>1. Revalidate(answer.rows, answer.next, 1, board.pages)
      BY <1>3 DEF RefreshAnswered
    <2>2. board.pages \in Nat
      BY DEF BoardType, Boards
    <2> HIDE DEF answer
    <2>3. board' \in Boards /\ due' \in BOOLEAN /\ ask' \in BoardAsks
      <3>1. 1 \in Nat \ {0}
        OBVIOUS
      <3> QED  BY <1>1, <2>1, <2>2, <3>1, RevalidateType
    <2> QED  BY <1>2, <2>3 DEF BoardType
  <1>4. CASE ~(board.pages > 1 /\ due)
    <2>1. board' = FirstPageRefreshed(answer) /\ ask' = NoAsk /\ due' = due
      BY <1>4 DEF RefreshAnswered
    <2> HIDE DEF answer
    <2>2. mergeMarketPages(answer.rows, board.tokens) \in Seq(Launches)
      BY <1>1, MergeType DEF BoardType, Boards
    <2>3. FirstPageRefreshed(answer) \in Boards
      BY <1>1, <2>2 DEF FirstPageRefreshed, BoardType, Boards
    <2> QED  BY <1>2, <2>1, <2>3 DEF BoardType, BoardAsks
  <1> QED  BY <1>3, <1>4

LEMMA OlderPageAnsweredType ==
  ASSUME BoardType, NEW source \in Seq(Tokens), OlderPageAnswered(source)
  PROVE  BoardType'
  <1> DEFINE answer == TokenPage(source, ask.cursor)
             rows == mergeMarketPages(ask.rows, answer.rows)
  <1>1. answer.rows \in Seq(Launches) /\ answer.next \in Launches \cup {End}
    BY TokenPageType
  <1>2. /\ ask.rows \in Seq(Launches) /\ ask.count + 1 \in Nat \ {0} /\ ask.target \in Nat
    <2>1. ask.rows \in Seq(Launches) /\ ask.count \in Nat \ {0} /\ ask.target \in Nat
      BY AskKinds DEF OlderPageAnswered, BoardType
    <2> QED  BY <2>1
  <1>3. Revalidate(rows, answer.next, ask.count + 1, ask.target)
    BY DEF OlderPageAnswered
  <1> HIDE DEF answer
  <1>4. rows \in Seq(Launches)
    BY <1>1, <1>2, MergeType
  <1> HIDE DEF rows
  <1> DEFINE count == ask.count + 1
  <1> HIDE DEF count
  <1>5. board' \in Boards /\ due' \in BOOLEAN /\ ask' \in BoardAsks
    BY <1>1, <1>2, <1>3, <1>4, RevalidateType DEF count
  <1> QED  BY <1>5 DEF OlderPageAnswered, BoardType

LEMMA MoreAnsweredType ==
  ASSUME BoardType, NEW source \in Seq(Tokens), MoreAnswered(source)
  PROVE  BoardType'
  <1> DEFINE answer == TokenPage(source, ask.cursor)
  <1>1. answer.rows \in Seq(Launches) /\ answer.next \in Launches \cup {End}
    BY TokenPageType
  <1>2. board' = [tokens |-> mergeMarketPages(board.tokens, answer.rows),
                  deepest |-> answer.next, pages |-> board.pages + 1, older |-> TRUE]
    BY DEF MoreAnswered
  <1> HIDE DEF answer
  <1>3. mergeMarketPages(board.tokens, answer.rows) \in Seq(Launches)
    BY <1>1, MergeType DEF BoardType, Boards
  <1>4. board.pages + 1 \in Nat \ {0}
    BY DEF BoardType, Boards
  <1>5. board' \in Boards
    BY <1>1, <1>2, <1>3, <1>4 DEF Boards
  <1> QED  BY <1>5 DEF MoreAnswered, BoardType, BoardAsks

LEMMA HeldBlocks ==
  ASSUME NEW source \in Seq(Tokens), NEW w
  PROVE  Held(source, w) \in SUBSET Blocks(source) /\ Blocks(source) \in SUBSET Nat
  <1>1. Len(source) \in Nat
    OBVIOUS
  <1> QED  BY <1>1 DEF Held, Blocks

LEMMA PositionPageType ==
  ASSUME NEW source \in Seq(Tokens), NEW w, NEW cursor
  PROVE  /\ PositionPage(source, w, cursor).rows \in Seq(Launches)
         /\ PositionPage(source, w, cursor).next \in Launches \cup {End}
  BY HeldBlocks, PageType, FeedAssumption DEF PositionPage

LEMMA PositionsAnsweredType ==
  ASSUME ChainType, PortfolioType, NEW request \in loads, PositionsAnswered(request)
  PROVE  PortfolioType'
  <1> DEFINE answer == PositionPage(stored, request.wallet, request.cursor)
             append == request.cursor # Newest /\ portfolio.shown.loaded
  <1>1. answer.rows \in Seq(Launches) /\ answer.next \in Launches \cup {End}
    BY PositionPageType DEF ChainType
  <1>2. loads' \in SUBSET Requests
    BY DEF PositionsAnswered, PortfolioType
  <1>3. CASE ~Current(request)
    <2>1. UNCHANGED <<portfolio, origin, steady, ever>>
      BY <1>3 DEF PositionsAnswered
    <2> QED  BY <1>2, <2>1 DEF PortfolioType
  <1>4. CASE Current(request)
    <2>1. /\ portfolio' =
               [portfolio EXCEPT
                  !.shown = [rows |-> IF append THEN @.rows \o answer.rows ELSE answer.rows,
                             loaded |-> TRUE],
                  !.next = answer.next]
          /\ IF append THEN UNCHANGED <<origin, steady, ever>>
             ELSE /\ origin' = rollbacks /\ steady' = Held(stored, request.wallet)
                  /\ ever' = Held(stored, request.wallet)
      BY <1>4 DEF PositionsAnswered
    <2> HIDE DEF answer, append
    <2>2. portfolio.shown.rows \o answer.rows \in Seq(Launches)
      BY <1>1 DEF PortfolioType, Portfolios
    <2>3. portfolio' \in Portfolios
      BY <1>1, <2>1, <2>2 DEF PortfolioType, Portfolios
    <2>4. Held(stored, request.wallet) \in SUBSET Nat
      BY HeldBlocks DEF ChainType
    <2> QED  BY <1>2, <2>1, <2>3, <2>4 DEF PortfolioType, ChainType
  <1> QED  BY <1>3, <1>4

\* An answer is read from the chain or from its cached copy.
LEMMA AnsweredFrom ==
  ASSUME PageAnswered
  PROVE  \E source \in {stored, cached} :
           RefreshAnswered(source) \/ OlderPageAnswered(source) \/ MoreAnswered(source)
  BY DEF PageAnswered

LEMMA FeedStepType == FeedTypeOK /\ [FeedNext]_feedVars => FeedTypeOK'
  <1> SUFFICES ASSUME FeedTypeOK, [FeedNext]_feedVars PROVE FeedTypeOK'
    OBVIOUS
  <1>u1. (UNCHANGED chainVars => ChainType')
    BY DEF FeedTypeOK, ChainType, chainVars
  <1>u2. (UNCHANGED boardVars => BoardType')
    BY DEF FeedTypeOK, BoardType, boardVars
  <1>u3. (UNCHANGED portfolioVars => PortfolioType')
    BY DEF FeedTypeOK, PortfolioType, portfolioVars
  <1>w. ASSUME Watched, stored' \in Seq(Tokens)
        PROVE  steady' \in SUBSET Nat /\ ever' \in SUBSET Nat
    <2>1. Held(stored, portfolio.account)' \in SUBSET Nat
      <3>1. Len(stored') \in Nat
        BY <1>w
      <3> QED  BY <3>1 DEF Held, Blocks
    <2> QED  BY <1>w, <2>1 DEF Watched, FeedTypeOK, PortfolioType
  <1>1. CASE Index
    <2>1. ChainType'
      <3>1. PICK t \in Tokens : stored' = Append(stored, t)
        BY <1>1 DEF Index
      <3> QED  BY <1>1, <3>1 DEF Index, FeedTypeOK, ChainType
    <2>2. outrun' \in BOOLEAN
      BY <1>1 DEF Index, FeedTypeOK
    <2>3. PortfolioType'
      BY <1>1, <1>w, <2>1 DEF Index, FeedTypeOK, ChainType, PortfolioType
    <2> QED  BY <1>1, <1>u2, <2>1, <2>2, <2>3 DEF Index, FeedTypeOK
  <1>17. CASE Transfer
    <2>1. ChainType'
      <3>1. PICK t \in ToSet(stored), owners \in SUBSET Accounts :
              holders' = [holders EXCEPT ![t] = owners]
        BY <1>17 DEF Transfer
      <3>2. UNCHANGED <<stored, cached, up, rollbacks>> /\ transfers' = transfers + 1
        BY <1>17 DEF Transfer
      <3>3. /\ holders \in [Tokens -> SUBSET Accounts] /\ transfers \in Nat
            /\ stored \in Seq(Tokens) /\ cached \in Seq(Tokens)
            /\ up \in BOOLEAN /\ rollbacks \in Nat
        BY DEF FeedTypeOK, ChainType
      <3>4. holders' \in [Tokens -> SUBSET Accounts]
        BY <3>1, <3>3
      <3>5. transfers' \in Nat
        BY <3>2, <3>3
      <3> QED  BY <3>2, <3>3, <3>4, <3>5 DEF ChainType
    <2>2. PortfolioType'
      BY <1>17, <1>w, <2>1 DEF Transfer, FeedTypeOK, ChainType, PortfolioType
    <2> QED  BY <1>17, <1>u2, <2>1, <2>2 DEF Transfer, FeedTypeOK
  <1>2. CASE Rollback
    <2>1. ChainType'
      <3>1. PICK n \in 1 .. Len(stored) - 1 : stored' = SubSeq(stored, 1, n)
        BY <1>2 DEF Rollback
      <3>2. stored' \in Seq(Tokens)
        BY <3>1 DEF FeedTypeOK, ChainType
      <3>3. PICK owners \in [ToSet(stored') -> SUBSET Accounts] :
              holders' = [t \in Tokens |-> IF t \in DOMAIN owners THEN owners[t] ELSE {}]
        BY <1>2 DEF Rollback
      <3>4. holders' \in [Tokens -> SUBSET Accounts]
        <4> DEFINE from == ToSet(stored')
        <4> HIDE DEF from
        <4>1. owners \in [from -> SUBSET Accounts]
          BY <3>3 DEF from
        <4> QED  BY <3>3, <4>1
      <3> QED  BY <1>2, <3>2, <3>4 DEF Rollback, FeedTypeOK, ChainType
    <2> QED  BY <1>2, <1>u2, <1>u3, <2>1 DEF Rollback, FeedTypeOK
  <1>3. CASE CacheExpires
    <2>1. ChainType'
      BY <1>3 DEF CacheExpires, FeedTypeOK, ChainType
    <2> QED  BY <1>3, <1>u2, <1>u3, <2>1 DEF CacheExpires, FeedTypeOK
  <1>4. CASE Availability
    <2>1. ChainType'
      BY <1>4 DEF Availability, FeedTypeOK, ChainType
    <2> QED  BY <1>4, <1>u2, <1>u3, <2>1 DEF Availability, FeedTypeOK
  <1>5. CASE Refresh
    <2>1. BoardType'
      BY <1>5 DEF Refresh, FeedTypeOK, BoardType, BoardAsks
    <2> QED  BY <1>5, <1>u1, <1>u3, <2>1 DEF Refresh, FeedTypeOK
  <1>6. CASE PageAnswered
    <2>1. PICK source \in {stored, cached} :
            RefreshAnswered(source) \/ OlderPageAnswered(source) \/ MoreAnswered(source)
      BY <1>6, AnsweredFrom
    <2>2. source \in Seq(Tokens) /\ BoardType
      BY DEF FeedTypeOK, ChainType
    <2>3. BoardType'
      BY <2>1, <2>2, RefreshAnsweredType, OlderPageAnsweredType, MoreAnsweredType
    <2>4. UNCHANGED <<chainVars, view, portfolioVars, outrun>>
      BY <2>1 DEF RefreshAnswered, OlderPageAnswered, MoreAnswered
    <2> QED  BY <1>u1, <1>u3, <2>3, <2>4 DEF FeedTypeOK
  <1>7. CASE RequestFails
    <2>1. BoardType'
      BY <1>7 DEF RequestFails, FeedTypeOK, BoardType, BoardAsks
    <2> QED  BY <1>7, <1>u1, <1>u3, <2>1 DEF RequestFails, FeedTypeOK
  <1>8. CASE Hide
    <2>1. ask' \in BoardAsks
      BY <1>8 DEF Hide, FeedTypeOK, BoardType, BoardAsks
    <2>2. BoardType'
      BY <1>8, <2>1 DEF Hide, FeedTypeOK, BoardType
    <2> QED  BY <1>8, <1>u1, <1>u3, <2>2 DEF Hide, FeedTypeOK
  <1>9. CASE Show
    <2>1. BoardType'
      BY <1>9 DEF Show, FeedTypeOK, BoardType
    <2> QED  BY <1>9, <1>u1, <1>u3, <2>1 DEF Show, FeedTypeOK
  <1>10. CASE LoadMore
    <2>1. board.deepest \in Launches
      BY <1>10 DEF LoadMore, FeedTypeOK, BoardType, Boards
    <2>2. ask' \in BoardAsks
      BY <1>10, <2>1 DEF LoadMore, BoardAsks
    <2>3. BoardType'
      BY <1>10, <2>2 DEF LoadMore, FeedTypeOK, BoardType
    <2> QED  BY <1>10, <1>u1, <1>u3, <2>3 DEF LoadMore, FeedTypeOK
  <1>11. CASE TimePasses
    <2>1. BoardType'
      BY <1>11 DEF TimePasses, FeedTypeOK, BoardType
    <2> QED  BY <1>11, <1>u1, <1>u3, <2>1 DEF TimePasses, FeedTypeOK
  <1>12. CASE SwitchAccount
    <2>1. PICK w \in Accounts :
            /\ portfolio' = [account |-> w, shown |-> Nothing, next |-> End,
                             ref |-> Load(w, Newest).ref]
            /\ loads' = loads \cup {Load(w, Newest).request}
      BY <1>12 DEF SwitchAccount
    <2>2. portfolio.ref + 1 \in Nat
      BY DEF FeedTypeOK, PortfolioType, Portfolios
    <2>3. Load(w, Newest).request \in Requests /\ Load(w, Newest).ref \in Nat
      BY <2>2 DEF Load, Requests
    <2>4. portfolio' \in Portfolios
      BY <2>1, <2>3 DEF Portfolios, Nothing
    <2>5. PortfolioType'
      BY <1>12, <2>1, <2>3, <2>4 DEF SwitchAccount, FeedTypeOK, PortfolioType
    <2> QED  BY <1>12, <1>u1, <1>u2, <2>5 DEF SwitchAccount, FeedTypeOK
  <1>13. CASE Ask
    <2>1. PICK cursor \in ({Newest} \cup {portfolio.next}) \ {End} :
            /\ portfolio' = [portfolio EXCEPT !.ref = Load(portfolio.account, cursor).ref]
            /\ loads' = loads \cup {Load(portfolio.account, cursor).request}
      BY <1>13 DEF Ask
    <2>2. portfolio.ref + 1 \in Nat /\ portfolio.account \in Accounts
          /\ cursor \in Launches \cup {Newest}
      BY <2>1 DEF FeedTypeOK, PortfolioType, Portfolios
    <2>3. /\ Load(portfolio.account, cursor).request \in Requests
          /\ Load(portfolio.account, cursor).ref \in Nat
      BY <2>2 DEF Load, Requests
    <2>4. portfolio' \in Portfolios
      BY <2>1, <2>3 DEF FeedTypeOK, PortfolioType, Portfolios
    <2>5. PortfolioType'
      BY <1>13, <2>1, <2>3, <2>4 DEF Ask, FeedTypeOK, PortfolioType
    <2> QED  BY <1>13, <1>u1, <1>u2, <2>5 DEF Ask, FeedTypeOK
  <1>14. ASSUME NEW request \in loads, PositionsAnswered(request)
         PROVE  FeedTypeOK'
    <2>1. PortfolioType'
      BY <1>14, PositionsAnsweredType DEF FeedTypeOK
    <2> QED  BY <1>14, <1>u1, <1>u2, <2>1 DEF PositionsAnswered, FeedTypeOK
  <1>15. ASSUME NEW request \in loads, PositionsFail(request)
         PROVE  FeedTypeOK'
    <2>1. PortfolioType'
      BY <1>15 DEF PositionsFail, FeedTypeOK, PortfolioType
    <2> QED  BY <1>15, <1>u1, <1>u2, <2>1 DEF PositionsFail, FeedTypeOK
  <1>16. CASE UNCHANGED feedVars
    <2>1. UNCHANGED <<chainVars, boardVars, portfolioVars, view, outrun>>
      BY <1>16 DEF feedVars, chainVars, boardVars, portfolioVars
    <2> QED  BY <1>u1, <1>u2, <1>u3, <2>1 DEF FeedTypeOK
  <1> QED  BY <1>1, <1>2, <1>3, <1>4, <1>5, <1>6, <1>7, <1>8, <1>9, <1>10, <1>11, <1>12,
              <1>13, <1>14, <1>15, <1>16, <1>17 DEF FeedNext

\* The variables of the feed are of the types the code gives them: the rows of every
\* page, list and cursor are launches of a chain, in every interleaving.
THEOREM FeedTypeCorrect == FeedSpec => []FeedTypeOK
  BY FeedInitType, FeedStepType, PTL DEF FeedSpec

-----------------------------------------------------------------------------
(* What the board shows: a set of blocks without a hole, that reaches down to  *)
(* the block where loading more goes on.                                      *)

Solid(A, d) == A # {} => \E o \in A : o <= d /\ \A x \in A : o <= x /\ o .. x \subseteq A

Bottom(c) == IF c = End THEN 1 ELSE c.at

Cursor(n, rows, c) ==
  c \in Launches /\ PlainRow(c) /\ c.at >= 2 /\ c.at + PageLimit <= n + 1 /\ c.at \in Ats(rows)

\* Rows and a cursor below them, on a chain of n blocks.
Well(n, rows, c) ==
  /\ rows \in Seq(Launches) /\ PlainRows(rows) /\ Ats(rows) \subseteq Nat \ {0}
  /\ c = End \/ Cursor(n, rows, c)
  /\ Solid(Ats(rows), Bottom(c))

\* A page joins a set when it reaches down to a member or to the first block, and
\* when the set reaches down to the page.
LEMMA SolidJoin ==
  ASSUME NEW A \in SUBSET (Nat \ {0}), NEW d \in Nat, NEW lo \in Nat \ {0}, NEW top \in Nat,
         Solid(A, d), d <= top + 1, lo <= top + 1,
         A = {} \/ lo = 1 \/ \E p \in A : lo <= p + 1
  PROVE  /\ Solid(lo .. top \cup A, lo)
         /\ A # {} => Solid(lo .. top \cup A, d)
  <1> DEFINE U == lo .. top \cup A
  <1>1. CASE A = {}
    <2>1. U = lo .. top
      BY <1>1
    <2>2. Solid(lo .. top, lo)
      <3> SUFFICES ASSUME lo .. top # {}
                   PROVE  \E o \in lo .. top : o <= lo /\ \A x \in lo .. top : o <= x /\ o .. x \subseteq lo .. top
        BY DEF Solid
      <3>1. lo \in lo .. top /\ lo <= lo
        OBVIOUS
      <3>2. \A x \in lo .. top : lo <= x /\ lo .. x \subseteq lo .. top
        OBVIOUS
      <3> QED  BY <3>1, <3>2
    <2> QED  BY <1>1, <2>1, <2>2
  <1>2. CASE A # {}
    <2>1. PICK o \in A : o <= d /\ \A x \in A : o <= x /\ o .. x \subseteq A
      BY <1>2 DEF Solid
    <2>2. \A x \in U : x \in Nat \ {0}
      OBVIOUS
    <2>3. ASSUME NEW e \in U, e <= d, e <= lo,
                 \A x \in U : e <= x /\ \A y \in e .. x : y \in U
          PROVE  Solid(U, lo) /\ Solid(U, d)
      <3>1. \A x \in U : e <= x /\ e .. x \subseteq U
        BY <2>3
      <3> HIDE DEF U
      <3> QED  BY <2>3, <3>1 DEF Solid
    <2>4. CASE lo <= o /\ lo <= top
      <3>1. lo \in U /\ lo <= d /\ lo <= lo
        BY <2>1, <2>2, <2>4
      <3>2. ASSUME NEW x \in U
            PROVE  lo <= x /\ \A y \in lo .. x : y \in U
        <4>1. lo <= x
          BY <2>1, <2>2, <2>4
        <4>2. ASSUME NEW y \in lo .. x
              PROVE  y \in U
          <5>1. CASE y <= top
            BY <5>1
          <5>2. CASE y > top
            <6>1. y >= o /\ y \in Nat /\ y <= x /\ x > top
              BY <2>1, <2>2, <5>2
            <6>2. x \in A
              BY <6>1
            <6>3. y \in o .. x
              BY <6>1, <2>2
            <6> QED  BY <2>1, <6>2, <6>3
          <5>3. y \in Int /\ top \in Int
            OBVIOUS
          <5> QED  BY <5>1, <5>2, <5>3
        <4> QED  BY <4>1, <4>2
      <3> QED  BY <2>3, <3>1, <3>2
    <2>5. CASE lo > top
      <3>1. lo = top + 1 /\ U = A
        BY <2>5
      <3>2. o \in U /\ o <= d /\ o <= lo
        BY <2>1, <2>2, <3>1
      <3> HIDE DEF U
      <3>3. \A x \in U : o <= x /\ \A y \in o .. x : y \in U
        BY <2>1, <3>1
      <3>4. Solid(U, lo) /\ Solid(U, d)
        BY <2>3, <3>2, <3>3
      <3> QED  BY <3>4 DEF U
    <2>6. CASE o < lo /\ lo <= top
      <3>1. PICK p \in A : lo <= p + 1
        BY <1>2, <2>1, <2>2, <2>6
      <3>2. o \in U /\ o <= d /\ o <= lo
        BY <2>1, <2>6
      <3>3. ASSUME NEW x \in U
            PROVE  o <= x /\ \A y \in o .. x : y \in U
        <4>1. CASE x \in A
          BY <2>1, <4>1
        <4>2. CASE x \in lo .. top
          <5>1. o <= x
            BY <2>6, <4>2
          <5>2. ASSUME NEW y \in o .. x
                PROVE  y \in U
            <6>1. CASE y >= lo
              BY <4>2, <6>1
            <6>2. CASE ~(y >= lo)
              <7>1. y \in o .. p
                BY <2>2, <3>1, <6>2
              <7> QED  BY <2>1, <7>1
            <6> QED  BY <6>1, <6>2
          <5> QED  BY <5>1, <5>2
        <4> QED  BY <4>1, <4>2
      <3> HIDE DEF U
      <3>4. Solid(U, lo) /\ Solid(U, d)
        BY <2>3, <3>2, <3>3
      <3> QED  BY <3>4 DEF U
    <2>7. o \in Nat /\ lo \in Nat /\ top \in Nat
      OBVIOUS
    <2> QED  BY <2>4, <2>5, <2>6, <2>7
  <1> QED  BY <1>1, <1>2

\* Rows stay well when the chain grows.
LEMMA WellGrows ==
  ASSUME NEW n \in Nat, NEW m \in Nat, n <= m, NEW rows, NEW c, Well(n, rows, c)
  PROVE  Well(m, rows, c)
  <1>1. CASE c = End
    BY <1>1 DEF Well
  <1>2. CASE Cursor(n, rows, c)
    <2>1. c.at \in Nat /\ PageLimit \in Nat
      BY <1>2, FeedAssumption DEF Cursor, Launches
    <2>2. Cursor(m, rows, c)
      BY <1>2, <2>1 DEF Cursor
    <2> QED  BY <2>2 DEF Well
  <1> QED  BY <1>1, <1>2 DEF Well

\* A first page alone, of a chain of at most n blocks.
LEMMA FirstPageWell ==
  ASSUME NEW c \in Seq(Tokens), Plain(c), NEW n \in Nat, Len(c) <= n
  PROVE  LET answer == TokenPage(c, Newest)
         IN  /\ Well(n, answer.rows, answer.next)
             /\ Ats(answer.rows) = Bottom(answer.next) .. Len(c)
             /\ Bottom(answer.next) \in Nat \ {0} /\ Bottom(answer.next) <= Len(c) + 1
             /\ answer.next = End \/ Bottom(answer.next) = Len(c) - PageLimit + 1
             /\ Len(c) = 0 \/ Len(c) \in Ats(answer.rows)
  <1> DEFINE answer == TokenPage(c, Newest)
             lo == Bottom(answer.next)
  <1>1. PageLimit \in Nat \ {0} /\ Len(c) \in Nat
    BY FeedAssumption
  <1>2. Top(c, Newest) = Len(c)
    BY DEF Top
  <1>3. /\ answer.rows \in Seq(Launches) /\ PlainRows(answer.rows)
        /\ \/ answer.next = End /\ Len(c) <= PageLimit /\ Ats(answer.rows) = 1 .. Len(c)
           \/ /\ answer.next \in Launches /\ PlainRow(answer.next)
              /\ answer.next.at = Len(c) - PageLimit + 1 /\ answer.next.at >= 2
              /\ Ats(answer.rows) = answer.next.at .. Len(c)
    BY <1>2, TokenPageFacts
  <1> HIDE DEF answer
  <1>4. answer.next \in Launches => answer.next # End
    BY MarkerFacts
  <1>5. /\ Ats(answer.rows) = lo .. Len(c) /\ lo \in Nat \ {0} /\ lo <= Len(c) + 1
        /\ answer.next = End \/ lo = Len(c) - PageLimit + 1
    BY <1>1, <1>3, <1>4 DEF Bottom
  <1>6. Solid(lo .. Len(c), lo)
    <2>1. Solid({}, lo)
      BY DEF Solid
    <2> HIDE DEF lo
    <2>2. Solid(lo .. Len(c) \cup {}, lo)
      BY <1>1, <1>5, <2>1, SolidJoin
    <2>3. lo .. Len(c) \cup {} = lo .. Len(c)
      OBVIOUS
    <2> QED  BY <2>2, <2>3
  <1>7. answer.next = End \/ Cursor(n, answer.rows, answer.next)
    <2> SUFFICES ASSUME answer.next # End PROVE Cursor(n, answer.rows, answer.next)
      OBVIOUS
    <2>1. answer.next.at \in Ats(answer.rows) /\ answer.next.at + PageLimit <= n + 1
      BY <1>1, <1>3
    <2> QED  BY <1>3, <2>1 DEF Cursor
  <1>8. Ats(answer.rows) \subseteq Nat \ {0}
    <2> HIDE DEF lo
    <2> QED  BY <1>1, <1>5
  <1>9. Well(n, answer.rows, answer.next)
    BY <1>3, <1>5, <1>6, <1>7, <1>8 DEF Well
  <1>10. Len(c) = 0 \/ Len(c) \in Ats(answer.rows)
    BY <1>1, <1>3
  <1> QED  BY <1>5, <1>9, <1>10 DEF answer

\* A first page over what is shown.
LEMMA FirstPageMerged ==
  ASSUME NEW c \in Seq(Tokens), Plain(c), NEW n \in Nat, Len(c) <= n, n <= Len(c) + PageLimit,
         NEW rows, NEW deepest, Well(n, rows, deepest), NEW p \in Nat,
         rows = <<>> \/ (n <= p + PageLimit /\ p \in Ats(rows) \cup {0})
  PROVE  LET answer == TokenPage(c, Newest)
             merged == mergeMarketPages(answer.rows, rows)
         IN  /\ Well(n, merged, answer.next)
             /\ rows # <<>> => Well(n, merged, deepest)
             /\ Len(c) = 0 \/ Len(c) \in Ats(merged)
             /\ Ats(rows) \subseteq Ats(merged)
  <1> DEFINE answer == TokenPage(c, Newest)
             merged == mergeMarketPages(answer.rows, rows)
             lo == Bottom(answer.next)
             A == Ats(rows)
             d == Bottom(deepest)
  <1>1. PageLimit \in Nat \ {0} /\ Len(c) \in Nat
    BY FeedAssumption
  <1>2. /\ Well(n, answer.rows, answer.next) /\ Ats(answer.rows) = lo .. Len(c)
        /\ lo \in Nat \ {0} /\ lo <= Len(c) + 1
        /\ answer.next = End \/ lo = Len(c) - PageLimit + 1
        /\ Len(c) = 0 \/ Len(c) \in Ats(answer.rows)
    BY FirstPageWell
  <1>3. /\ merged \in Seq(Launches) /\ PlainRows(merged) /\ Ats(merged) = Ats(answer.rows) \cup A
    <2> HIDE DEF answer
    <2> QED  BY <1>2, MergePlain DEF Well
  <1>4. A \in SUBSET (Nat \ {0}) /\ Solid(A, d) /\ (rows = <<>> => A = {})
    BY DEF Well, Ats
  <1>5. d \in Nat /\ d <= Len(c) + 1
    <2>1. CASE deepest = End
      BY <1>1, <2>1 DEF Bottom
    <2>2. CASE deepest # End
      <3>1. d = deepest.at /\ deepest.at \in Nat /\ deepest.at + PageLimit <= n + 1
        BY <2>2 DEF Well, Cursor, Bottom, Launches
      <3> HIDE DEF d
      <3> QED  BY <1>1, <3>1
    <2> QED  BY <2>1, <2>2
  <1>6. A = {} \/ lo = 1 \/ \E q \in A : lo <= q + 1
    <2>1. CASE answer.next = End
      BY <2>1 DEF Bottom
    <2>2. CASE answer.next # End /\ rows # <<>>
      <3>1. lo <= p + 1
        BY <1>1, <1>2, <2>2
      <3>2. p = 0 => lo = 1
        BY <1>2, <3>1
      <3> HIDE DEF lo, A
      <3> QED  BY <2>2, <3>1, <3>2 DEF A
    <2>3. CASE rows = <<>>
      BY <1>4, <2>3
    <2> QED  BY <2>1, <2>2, <2>3
  <1> HIDE DEF answer, merged, lo, A, d
  <1>7. Solid(lo .. Len(c) \cup A, lo) /\ (A # {} => Solid(lo .. Len(c) \cup A, d))
    BY <1>1, <1>2, <1>4, <1>5, <1>6, SolidJoin
  <1>8. Ats(merged) = lo .. Len(c) \cup A /\ Ats(merged) \subseteq Nat \ {0}
    <2>1. Ats(answer.rows) = lo .. Len(c) /\ lo \in Nat \ {0}
      BY <1>2
    <2>2. Ats(merged) = lo .. Len(c) \cup A
      BY <1>3, <2>1
    <2>3. lo .. Len(c) \subseteq Nat \ {0}
      BY <1>1, <2>1
    <2> QED  BY <1>4, <2>2, <2>3
  <1>9. answer.next = End \/ Cursor(n, merged, answer.next)
    BY <1>2, <1>3 DEF Well, Cursor
  <1>10. Well(n, merged, answer.next)
    BY <1>3, <1>7, <1>8, <1>9 DEF Well, lo
  <1>11. ASSUME rows # <<>>
         PROVE  Well(n, merged, deepest)
    <2>1. A # {}
      <3>1. Len(rows) \in Nat \ {0}
        BY <1>11, EmptySeq DEF Well
      <3>2. rows[1].at \in Ats(rows)
        BY <3>1 DEF Ats
      <3> QED  BY <3>2 DEF A
    <2>2. deepest = End \/ Cursor(n, merged, deepest)
      BY <1>3 DEF Well, Cursor, A
    <2> QED  BY <1>3, <1>7, <1>8, <2>1, <2>2 DEF Well, d
  <1> QED  BY <1>2, <1>3, <1>10, <1>11 DEF answer, merged, A

\* An older page below what is shown.
LEMMA OlderPageMerged ==
  ASSUME NEW c \in Seq(Tokens), Plain(c), NEW n \in Nat, Len(c) <= n, n <= Len(c) + PageLimit,
         NEW rows, NEW cursor, Well(n, rows, cursor), cursor # End
  PROVE  LET answer == TokenPage(c, cursor)
             merged == mergeMarketPages(rows, answer.rows)
         IN  Well(n, merged, answer.next) /\ Ats(rows) \subseteq Ats(merged)
  <1> DEFINE answer == TokenPage(c, cursor)
             merged == mergeMarketPages(rows, answer.rows)
             lo == Bottom(answer.next)
             A == Ats(rows)
             top == cursor.at - 1
  <1>1. PageLimit \in Nat \ {0} /\ Len(c) \in Nat
    BY FeedAssumption
  <1>2. /\ cursor \in Launches /\ PlainRow(cursor) /\ cursor.at >= 2
        /\ cursor.at + PageLimit <= n + 1 /\ cursor.at \in A /\ cursor.at \in Nat
        /\ cursor # Newest
    BY MarkerFacts DEF Well, Cursor, Launches
  <1>3. cursor.at \in 2 .. Len(c) + 1 /\ top \in Nat /\ Top(c, cursor) = top
    BY <1>1, <1>2 DEF Top
  <1>4. /\ answer.rows \in Seq(Launches) /\ PlainRows(answer.rows)
        /\ \/ answer.next = End /\ top <= PageLimit /\ Ats(answer.rows) = 1 .. top
           \/ /\ answer.next \in Launches /\ PlainRow(answer.next)
              /\ answer.next.at = top - PageLimit + 1 /\ answer.next.at >= 2
              /\ Ats(answer.rows) = answer.next.at .. top
    BY <1>2, <1>3, TokenPageFacts
  <1>5. A \in SUBSET (Nat \ {0}) /\ Solid(A, cursor.at) /\ rows \in Seq(Launches)
        /\ PlainRows(rows)
    BY DEF Well, Bottom
  <1> HIDE DEF answer, A
  <1>6. answer.next \in Launches => answer.next # End
    BY MarkerFacts
  <1>7. Ats(answer.rows) = lo .. top /\ lo \in Nat \ {0} /\ lo <= cursor.at
    <2>1. CASE answer.next = End
      <3>1. lo = 1 /\ Ats(answer.rows) = 1 .. top
        BY <1>4, <1>6, <2>1 DEF Bottom
      <3> QED  BY <1>2, <3>1
    <2>2. CASE answer.next # End
      <3>1. /\ lo = answer.next.at /\ answer.next.at = top - PageLimit + 1
            /\ answer.next.at >= 2 /\ Ats(answer.rows) = answer.next.at .. top
        BY <1>4, <2>2 DEF Bottom
      <3>2. lo = top - PageLimit + 1 /\ lo >= 2 /\ Ats(answer.rows) = lo .. top
        BY <3>1
      <3> HIDE DEF lo
      <3> QED  BY <1>1, <1>2, <1>3, <3>2
    <2> QED  BY <2>1, <2>2
  <1>8. merged \in Seq(Launches) /\ PlainRows(merged) /\ Ats(merged) = A \cup Ats(answer.rows)
    BY <1>4, <1>5, MergePlain DEF A
  <1>9. Solid(lo .. top \cup A, lo)
    <2>1. cursor.at <= top + 1 /\ lo <= top + 1 /\ lo <= cursor.at + 1
      BY <1>2, <1>7
    <2> HIDE DEF lo, top
    <2> QED  BY <1>2, <1>3, <1>5, <1>7, <2>1, SolidJoin
  <1> HIDE DEF merged
  <1>10. Ats(merged) = lo .. top \cup A /\ Ats(merged) \subseteq Nat \ {0}
    <2> HIDE DEF lo, top
    <2> QED  BY <1>3, <1>5, <1>7, <1>8
  <1>11. answer.next = End \/ Cursor(n, merged, answer.next)
    <2> SUFFICES ASSUME answer.next # End PROVE Cursor(n, merged, answer.next)
      OBVIOUS
    <2>1. /\ answer.next \in Launches /\ PlainRow(answer.next) /\ answer.next.at >= 2
          /\ answer.next.at = top - PageLimit + 1 /\ Ats(answer.rows) = answer.next.at .. top
      BY <1>4
    <2>2. top + PageLimit <= n /\ top \in Nat
      BY <1>1, <1>2, <1>3
    <2> HIDE DEF top
    <2>3. answer.next.at \in Ats(answer.rows) /\ answer.next.at + PageLimit <= n + 1
      BY <1>1, <2>1, <2>2
    <2> QED  BY <1>8, <2>1, <2>3 DEF Cursor
  <1>12. Well(n, merged, answer.next)
    BY <1>8, <1>9, <1>10, <1>11 DEF Well
  <1> QED  BY <1>8, <1>12 DEF answer, merged, A

-----------------------------------------------------------------------------
(* The board has no hole.                                                     *)

\* The inductive invariant of the board.  The chain and its cached copy only grew ...
GrowthInv ==
  rollbacks = 0 => Plain(stored) /\ Plain(cached) /\ Len(cached) <= Len(stored)

\* ... the cache and the last poll are at most a page behind, and the board is solid
\* down to its cursor ...
BoardWell ==
  /\ Len(stored) <= Len(cached) + PageLimit
  /\ IF board.deepest = Unset
     THEN board.tokens = <<>> /\ board.pages = 1 /\ ~board.older
     ELSE /\ Len(stored) <= polled + PageLimit
          /\ Well(Len(stored), board.tokens, board.deepest)

\* ... the board holds what the last poll read first, unless a revalidation replaces it ...
BoardPolled ==
  /\ board.older => board.tokens # <<>>
  /\ (board.pages > 1 /\ due) \/ polled \in Ats(board.tokens) \cup {0}

\* ... and so do the pages of a revalidation under way.
AskWell ==
  /\ ask.kind = "chain" => /\ board.pages > 1 /\ due /\ ask.cursor # End
                           /\ Well(Len(stored), ask.rows, ask.cursor)
                           /\ polled \in Ats(ask.rows)
  /\ ask.kind = "more" => ask.cursor = board.deepest

BoardInv == rollbacks = 0 /\ ~outrun => BoardWell /\ BoardPolled /\ AskWell

FeedBoardInv == FeedTypeOK /\ GrowthInv /\ BoardInv

LEMMA RowsAts ==
  ASSUME NEW rows \in Seq(Launches)
  PROVE  rows # <<>> <=> Ats(rows) # {}
  <1>1. Len(rows) \in Nat
    OBVIOUS
  <1>2. CASE rows # <<>>
    <2>1. Len(rows) # 0
      BY <1>2, EmptySeq
    <2>2. 1 \in 1 .. Len(rows)
      BY <1>1, <2>1
    <2>3. rows[1].at \in Ats(rows)
      BY <2>2 DEF Ats
    <2> QED  BY <1>2, <2>3
  <1>3. CASE rows = <<>>
    BY <1>3 DEF Ats
  <1> QED  BY <1>2, <1>3

LEMMA FeedInitBoard == FeedInit => GrowthInv /\ BoardInv
  <1> SUFFICES ASSUME FeedInit PROVE GrowthInv /\ BoardInv
    OBVIOUS
  <1>1. stored = <<>> /\ cached = <<>> /\ polled = 0 /\ ask = NoAsk
        /\ board = [tokens |-> <<>>, deepest |-> Unset, pages |-> 1, older |-> FALSE]
    BY DEF FeedInit
  <1>2. Len(stored) = 0 /\ Len(cached) = 0
    BY <1>1
  <1>3. GrowthInv
    BY <1>2 DEF GrowthInv, Plain
  <1>4. BoardWell /\ BoardPolled
    BY <1>1, <1>2, FeedAssumption DEF BoardWell, BoardPolled
  <1>5. AskWell
    BY <1>1 DEF AskWell, NoAsk
  <1> QED  BY <1>3, <1>4, <1>5 DEF BoardInv

LEMMA IndexBoard ==
  ASSUME FeedTypeOK, GrowthInv, BoardInv, Index
  PROVE  GrowthInv' /\ BoardInv'
  <1>1. PICK t \in Tokens : /\ rollbacks = 0 => t = Len(stored) + 1
                            /\ stored' = Append(stored, t)
    BY DEF Index
  <1>2. stored \in Seq(Tokens) /\ cached \in Seq(Tokens) /\ polled \in Nat
        /\ PageLimit \in Nat \ {0}
    BY FeedAssumption DEF FeedTypeOK, ChainType, BoardType
  <1>3. Len(stored') = Len(stored) + 1 /\ Len(stored) \in Nat /\ Len(cached) \in Nat
    BY <1>1, <1>2
  <1>4. UNCHANGED <<cached, rollbacks, due, board, ask, polled>>
    BY DEF Index, boardVars
  <1>5. GrowthInv'
    <2> SUFFICES ASSUME rollbacks = 0
                 PROVE  Plain(stored') /\ Plain(cached) /\ Len(cached) <= Len(stored')
      BY <1>4 DEF GrowthInv, Plain
    <2>1. Plain(stored) /\ Plain(cached) /\ Len(cached) <= Len(stored)
      BY DEF GrowthInv
    <2>2. ASSUME NEW i \in 1 .. Len(stored')
          PROVE  stored'[i] = i
      <3>1. CASE i = Len(stored) + 1
        BY <1>1, <1>2, <1>3, <3>1
      <3>2. CASE i # Len(stored) + 1
        <4>1. i \in 1 .. Len(stored)
          BY <1>3, <3>2
        <4>2. stored'[i] = stored[i]
          BY <1>1, <1>2, <1>3, <4>1
        <4> QED  BY <2>1, <4>1, <4>2 DEF Plain
      <3> QED  BY <3>1, <3>2
    <2> QED  BY <1>3, <2>1, <2>2 DEF Plain
  <1>6. BoardInv'
    <2> SUFFICES ASSUME rollbacks = 0, ~outrun'
                 PROVE  (BoardWell /\ BoardPolled /\ AskWell)'
      BY <1>4 DEF BoardInv
    <2>1. ~outrun /\ ~Behind(Len(cached)) /\ (board.deepest # Unset => ~Behind(polled))
      BY DEF Index
    <2>2. BoardWell /\ BoardPolled /\ AskWell
      BY <2>1 DEF BoardInv
    <2>3. /\ Len(stored') <= Len(cached) + PageLimit
          /\ board.deepest # Unset => Len(stored') <= polled + PageLimit
      BY <1>2, <1>3, <2>1 DEF Behind
    <2>4. ASSUME NEW rows, NEW c, Well(Len(stored), rows, c)
          PROVE  Well(Len(stored'), rows, c)
      <3> DEFINE n == Len(stored)
                 m == Len(stored')
      <3>1. n \in Nat /\ m \in Nat /\ n <= m /\ Well(n, rows, c)
        BY <1>3, <2>4
      <3> HIDE DEF n, m
      <3>2. Well(m, rows, c)
        BY <3>1, WellGrows
      <3> QED  BY <3>2 DEF m
    <2>5. BoardWell'
      BY <1>4, <2>2, <2>3, <2>4 DEF BoardWell
    <2>6. BoardPolled'
      BY <1>4, <2>2 DEF BoardPolled
    <2>7. AskWell'
      BY <1>4, <2>2, <2>4 DEF AskWell
    <2> QED  BY <2>5, <2>6, <2>7
  <1> QED  BY <1>5, <1>6

\* What an answer is read from, in a chain that only grew.
LEMMA ChainAnswered ==
  ASSUME FeedTypeOK, GrowthInv, BoardInv, rollbacks = 0, ~outrun, NEW source \in {stored, cached}
  PROVE  /\ source \in Seq(Tokens) /\ Plain(source)
         /\ Len(stored) \in Nat /\ Len(source) \in Nat
         /\ Len(source) <= Len(stored) /\ Len(stored) <= Len(source) + PageLimit
         /\ BoardWell /\ BoardPolled /\ AskWell
  <1>1. stored \in Seq(Tokens) /\ cached \in Seq(Tokens) /\ PageLimit \in Nat
    BY FeedAssumption DEF FeedTypeOK, ChainType
  <1>2. BoardWell /\ BoardPolled /\ AskWell
    BY DEF BoardInv
  <1>3. Plain(stored) /\ Plain(cached) /\ Len(cached) <= Len(stored)
    BY DEF GrowthInv
  <1>4. Len(stored) \in Nat /\ Len(cached) \in Nat /\ Len(stored) <= Len(cached) + PageLimit
    BY <1>1, <1>2 DEF BoardWell
  <1>5. Len(stored) <= Len(stored) + PageLimit /\ Len(stored) <= Len(stored)
    BY <1>1, <1>4
  <1> QED  BY <1>1, <1>2, <1>3, <1>4, <1>5

\* A revalidation that goes on keeps its pages; one that ends shows them.
LEMMA RevalidateBoard ==
  ASSUME FeedTypeOK, BoardWell, BoardPolled, board.pages > 1, due,
         NEW rows, NEW cursor, NEW count, NEW target, Revalidate(rows, cursor, count, target),
         Len(stored) <= polled' + PageLimit, UNCHANGED <<stored, cached>>,
         Well(Len(stored), rows, cursor), polled' \in Ats(rows) \/ (polled' = 0 /\ cursor = End),
         count > 1 => polled' \in Ats(rows)
  PROVE  (BoardWell /\ BoardPolled /\ AskWell)'
  <1>1. board.deepest # Unset
    <2>1. 1 > 1 => FALSE
      OBVIOUS
    <2> QED  BY <2>1 DEF BoardWell
  <1>2. CASE count < target /\ cursor # End
    <2>1. /\ ask' = [kind |-> "chain", rows |-> rows, cursor |-> cursor,
                     count |-> count, target |-> target]
          /\ board' = board /\ due' = due
      BY <1>2 DEF Revalidate
    <2>2. BoardWell'
      BY <1>1, <2>1 DEF BoardWell
    <2>3. board.older => board.tokens # <<>>
      BY DEF BoardPolled
    <2>4. AskWell'
      BY <1>2, <2>1 DEF AskWell
    <2> QED  BY <2>1, <2>2, <2>3, <2>4 DEF BoardPolled
  <1>3. CASE ~(count < target /\ cursor # End)
    <2>1. board' = Revalidated(rows, cursor, count) /\ due' = FALSE /\ ask' = NoAsk
      BY <1>3 DEF Revalidate
    <2>2. /\ board'.tokens = rows /\ board'.deepest = cursor /\ board'.older = (count > 1)
      BY <2>1 DEF Revalidated
    <2>3. cursor # Unset
      BY MarkerFacts DEF Well, Cursor
    <2>4. BoardWell'
      BY <2>2, <2>3 DEF BoardWell
    <2>5. count > 1 => rows # <<>>
      BY RowsAts DEF Well
    <2>6. BoardPolled'
      BY <2>2, <2>5 DEF BoardPolled
    <2>7. AskWell'
      BY <2>1 DEF AskWell, NoAsk
    <2> QED  BY <2>4, <2>6, <2>7
  <1> QED  BY <1>2, <1>3

LEMMA RefreshAnsweredBoard ==
  ASSUME FeedTypeOK, GrowthInv, BoardInv, rollbacks = 0, ~outrun,
         NEW source \in {stored, cached}, RefreshAnswered(source)
  PROVE  (BoardWell /\ BoardPolled /\ AskWell)'
  <1> DEFINE answer == TokenPage(source, Newest)
             n == Len(stored)
  <1>1. /\ source \in Seq(Tokens) /\ Plain(source) /\ n \in Nat /\ Len(source) \in Nat
        /\ Len(source) <= n /\ n <= Len(source) + PageLimit
        /\ BoardWell /\ BoardPolled /\ AskWell
    BY ChainAnswered
  <1>2. polled' = Len(source) /\ UNCHANGED <<stored, cached>>
    BY DEF RefreshAnswered, chainVars
  <1>3. CASE board.pages > 1 /\ due
    <2>1. Revalidate(answer.rows, answer.next, 1, board.pages)
      BY <1>3 DEF RefreshAnswered
    <2>2. /\ Well(n, answer.rows, answer.next)
          /\ Ats(answer.rows) = Bottom(answer.next) .. Len(source)
          /\ Len(source) = 0 \/ Len(source) \in Ats(answer.rows)
      <3> HIDE DEF n
      <3> QED  BY <1>1, FirstPageWell
    <2> HIDE DEF answer
    <2>3. Len(source) = 0 => answer.next = End
      <3> SUFFICES ASSUME Len(source) = 0, answer.next # End PROVE FALSE
        OBVIOUS
      <3>1. answer.next.at >= 2 /\ answer.next.at \in Ats(answer.rows) /\ answer.next.at \in Nat
        BY <2>2 DEF Well, Cursor, Launches
      <3>2. answer.next.at <= Len(source)
        BY <1>1, <2>2, <3>1 DEF Bottom
      <3> QED  BY <3>1, <3>2
    <2>4. polled' \in Ats(answer.rows) \/ (polled' = 0 /\ answer.next = End)
      BY <1>2, <2>2, <2>3
    <2>5. ~(1 > 1)
      OBVIOUS
    <2>6. Len(stored) <= polled' + PageLimit /\ Well(Len(stored), answer.rows, answer.next)
      BY <1>1, <1>2, <2>2
    <2> QED  BY <1>1, <1>2, <1>3, <2>1, <2>4, <2>5, <2>6, RevalidateBoard
  <1>4. CASE ~(board.pages > 1 /\ due)
    <2> DEFINE rows == board.tokens
               merged == mergeMarketPages(answer.rows, rows)
               deepest == IF board.deepest = Unset THEN End ELSE board.deepest
    <2>1. board' = FirstPageRefreshed(answer) /\ ask' = NoAsk /\ due' = due
      BY <1>4 DEF RefreshAnswered
    <2>2. board'.tokens = merged /\ board'.pages = board.pages /\ board'.older = board.older
          /\ board'.deepest = IF board.older THEN board.deepest ELSE answer.next
      <3> HIDE DEF answer
      <3> QED  BY <2>1 DEF FirstPageRefreshed, FeedTypeOK, BoardType, Boards
    <2>3. rows \in Seq(Launches) /\ polled \in Nat
      BY DEF FeedTypeOK, BoardType, Boards
    <2>4. Well(n, rows, deepest)
      <3>1. CASE board.deepest = Unset
        <4>1. rows = <<>> /\ deepest = End
          BY <1>1, <3>1 DEF BoardWell
        <4>2. PlainRows(rows) /\ Ats(rows) = {}
          BY <4>1 DEF PlainRows, Ats
        <4> HIDE DEF rows, deepest
        <4> QED  BY <2>3, <4>1, <4>2 DEF Well, Solid
      <3>2. CASE board.deepest # Unset
        BY <1>1, <3>2 DEF BoardWell
      <3> QED  BY <3>1, <3>2
    <2>5. rows = <<>> \/ (n <= polled + PageLimit /\ polled \in Ats(rows) \cup {0})
      BY <1>1, <1>4 DEF BoardWell, BoardPolled
    <2>6. /\ Well(n, merged, answer.next)
          /\ rows # <<>> => Well(n, merged, deepest)
          /\ Len(source) = 0 \/ Len(source) \in Ats(merged)
          /\ Ats(rows) \subseteq Ats(merged)
      <3> HIDE DEF n, rows, deepest
      <3> QED  BY <1>1, <2>3, <2>4, <2>5, FirstPageMerged
    <2>7. board.older => rows # <<>> /\ deepest = board.deepest /\ board.deepest # Unset
      BY <1>1 DEF BoardWell, BoardPolled
    <2> HIDE DEF answer, merged, rows, deepest
    <2>8. board.older => merged # <<>>
      BY <2>3, <2>6, <2>7, RowsAts DEF Well
    <2>9. answer.next # Unset
      BY <2>6, MarkerFacts DEF Well, Cursor
    <2>10. Well(n, board'.tokens, board'.deepest) /\ board'.deepest # Unset
      BY <2>2, <2>6, <2>7, <2>9
    <2>11. n <= polled' + PageLimit /\ n <= Len(cached) + PageLimit
      BY <1>1, <1>2 DEF BoardWell
    <2>12. BoardWell'
      BY <1>2, <2>10, <2>11 DEF BoardWell
    <2>13. BoardPolled'
      BY <1>2, <2>2, <2>6, <2>8 DEF BoardPolled
    <2>14. AskWell'
      BY <2>1 DEF AskWell, NoAsk
    <2> QED  BY <2>12, <2>13, <2>14
  <1> QED  BY <1>3, <1>4

LEMMA OlderPageAnsweredBoard ==
  ASSUME FeedTypeOK, GrowthInv, BoardInv, rollbacks = 0, ~outrun,
         NEW source \in {stored, cached}, OlderPageAnswered(source)
  PROVE  (BoardWell /\ BoardPolled /\ AskWell)'
  <1> DEFINE answer == TokenPage(source, ask.cursor)
             merged == mergeMarketPages(ask.rows, answer.rows)
             n == Len(stored)
  <1>1. /\ source \in Seq(Tokens) /\ Plain(source) /\ n \in Nat /\ Len(source) \in Nat
        /\ Len(source) <= n /\ n <= Len(source) + PageLimit
        /\ BoardWell /\ BoardPolled /\ AskWell
    BY ChainAnswered
  <1>2. polled' = polled /\ UNCHANGED <<stored, cached>> /\ ask.kind = "chain"
        /\ Revalidate(merged, answer.next, ask.count + 1, ask.target)
    BY DEF OlderPageAnswered, chainVars
  <1>3. /\ board.pages > 1 /\ due /\ ask.cursor # End
        /\ Well(n, ask.rows, ask.cursor) /\ polled \in Ats(ask.rows)
    BY <1>1, <1>2 DEF AskWell
  <1>4. Well(n, merged, answer.next) /\ Ats(ask.rows) \subseteq Ats(merged)
    <2> DEFINE rows == ask.rows
               cursor == ask.cursor
    <2>1. Well(n, rows, cursor) /\ cursor # End
      BY <1>3
    <2> HIDE DEF n, rows, cursor
    <2>2. LET p == TokenPage(source, cursor)
              m == mergeMarketPages(rows, p.rows)
          IN  Well(n, m, p.next) /\ Ats(rows) \subseteq Ats(m)
      BY <1>1, <2>1, OlderPageMerged
    <2> QED  BY <2>2 DEF rows, cursor
  <1>5. polled' \in Ats(merged)
    BY <1>2, <1>3, <1>4
  <1>6. board.deepest # Unset
    <2>1. ~(1 > 1)
      OBVIOUS
    <2> QED  BY <1>1, <1>3, <2>1 DEF BoardWell
  <1>7. Len(stored) <= polled' + PageLimit
    BY <1>1, <1>2, <1>6 DEF BoardWell
  <1> HIDE DEF answer, merged
  <1> QED  BY <1>1, <1>2, <1>3, <1>4, <1>5, <1>7, RevalidateBoard

LEMMA MoreAnsweredBoard ==
  ASSUME FeedTypeOK, GrowthInv, BoardInv, rollbacks = 0, ~outrun,
         NEW source \in {stored, cached}, MoreAnswered(source)
  PROVE  (BoardWell /\ BoardPolled /\ AskWell)'
  <1> DEFINE answer == TokenPage(source, ask.cursor)
             merged == mergeMarketPages(board.tokens, answer.rows)
             n == Len(stored)
  <1>1. /\ source \in Seq(Tokens) /\ Plain(source) /\ n \in Nat /\ Len(source) \in Nat
        /\ Len(source) <= n /\ n <= Len(source) + PageLimit
        /\ BoardWell /\ BoardPolled /\ AskWell
    BY ChainAnswered
  <1>2. /\ UNCHANGED <<stored, cached, polled, due>> /\ ask.kind = "more" /\ ask' = NoAsk
        /\ board' = [tokens |-> merged, deepest |-> answer.next, pages |-> board.pages + 1,
                     older |-> TRUE]
    BY DEF MoreAnswered, chainVars
  <1>3. ask.cursor = board.deepest /\ ask.cursor \in Launches /\ ask.cursor # End
        /\ board.deepest # Unset
    BY <1>1, <1>2, AskKinds, MarkerFacts DEF AskWell, FeedTypeOK, BoardType
  <1>4. Well(n, board.tokens, ask.cursor)
    BY <1>1, <1>3 DEF BoardWell
  <1>5. Well(n, merged, answer.next) /\ Ats(board.tokens) \subseteq Ats(merged)
    <2> DEFINE rows == board.tokens
               cursor == ask.cursor
    <2>1. Well(n, rows, cursor) /\ cursor # End
      BY <1>3, <1>4
    <2> HIDE DEF n, rows, cursor
    <2>2. LET p == TokenPage(source, cursor)
              m == mergeMarketPages(rows, p.rows)
          IN  Well(n, m, p.next) /\ Ats(rows) \subseteq Ats(m)
      BY <1>1, <2>1, OlderPageMerged
    <2> QED  BY <2>2 DEF rows, cursor
  <1> HIDE DEF answer, merged
  <1>6. answer.next # Unset
    BY <1>5, MarkerFacts DEF Well, Cursor
  <1>7. merged # <<>>
    <2>1. ask.cursor.at \in Ats(merged)
      BY <1>3, <1>4, <1>5 DEF Well, Cursor
    <2> QED  BY <1>5, <2>1, RowsAts DEF Well
  <1>8. /\ board'.tokens = merged /\ board'.deepest = answer.next /\ board'.older = TRUE
        /\ board'.pages = board.pages + 1
    BY <1>2
  <1>9. BoardWell'
    BY <1>1, <1>2, <1>3, <1>5, <1>6, <1>8 DEF BoardWell
  <1>10. board.pages > 1 => board.pages + 1 > 1
    BY DEF FeedTypeOK, BoardType, Boards
  <1>11. BoardPolled'
    BY <1>1, <1>2, <1>5, <1>7, <1>8, <1>10 DEF BoardPolled
  <1>12. AskWell'
    BY <1>2 DEF AskWell, NoAsk
  <1> QED  BY <1>9, <1>11, <1>12

LEMMA FeedStepBoard ==
  FeedBoardInv /\ [FeedNext]_feedVars => GrowthInv' /\ BoardInv'
  <1> SUFFICES ASSUME FeedTypeOK, GrowthInv, BoardInv, [FeedNext]_feedVars
               PROVE  GrowthInv' /\ BoardInv'
    BY DEF FeedBoardInv
  <1>1. rollbacks \in Nat
    BY DEF FeedTypeOK, ChainType
  \* A step that leaves the chain and the history alone preserves what it leaves of the board.
  <1>g. ASSUME UNCHANGED chainVars
        PROVE  GrowthInv'
    BY <1>g DEF chainVars, GrowthInv, Plain
  <1>b. ASSUME UNCHANGED <<chainVars, outrun>>,
               rollbacks = 0 /\ ~outrun /\ BoardWell /\ BoardPolled /\ AskWell
                 => (BoardWell /\ BoardPolled /\ AskWell)'
        PROVE  BoardInv'
    BY <1>b DEF chainVars, BoardInv
  <1>2. CASE Index
    BY <1>2, IndexBoard
  <1>18. CASE Transfer
    <2>1. UNCHANGED <<stored, cached, rollbacks, outrun, board, due, ask, polled>>
      BY <1>18 DEF Transfer, boardVars
    <2> QED  BY <2>1 DEF GrowthInv, Plain, BoardInv, BoardWell, BoardPolled, AskWell
  <1>3. CASE Rollback
    <2>1. rollbacks' # 0
      BY <1>1, <1>3 DEF Rollback
    <2> QED  BY <2>1 DEF GrowthInv, BoardInv
  <1>4. CASE CacheExpires
    <2>1. UNCHANGED <<stored, rollbacks, board, due, ask, polled, outrun>> /\ cached' = stored
      BY <1>4 DEF CacheExpires, boardVars
    <2>2. Len(stored) \in Nat /\ PageLimit \in Nat
      BY FeedAssumption DEF FeedTypeOK, ChainType
    <2>3. GrowthInv'
      BY <2>1, <2>2 DEF GrowthInv, Plain
    <2>4. BoardInv'
      BY <2>1, <2>2 DEF BoardInv, BoardWell, BoardPolled, AskWell
    <2> QED  BY <2>3, <2>4
  <1>5. CASE Availability
    BY <1>5 DEF Availability, boardVars, GrowthInv, Plain, BoardInv, BoardWell, BoardPolled,
                AskWell
  <1>6. CASE Refresh
    <2>1. UNCHANGED <<chainVars, outrun, board, due, polled>> /\ ask'.kind = "first"
      BY <1>6 DEF Refresh
    <2> QED  BY <1>g, <1>b, <2>1 DEF chainVars, BoardWell, BoardPolled, AskWell
  <1>7. CASE PageAnswered
    <2>1. PICK source \in {stored, cached} :
            RefreshAnswered(source) \/ OlderPageAnswered(source) \/ MoreAnswered(source)
      BY <1>7, AnsweredFrom
    <2>2. UNCHANGED <<chainVars, outrun>>
      BY <2>1 DEF RefreshAnswered, OlderPageAnswered, MoreAnswered
    <2>3. rollbacks = 0 /\ ~outrun => (BoardWell /\ BoardPolled /\ AskWell)'
      BY <2>1, RefreshAnsweredBoard, OlderPageAnsweredBoard, MoreAnsweredBoard
    <2> QED  BY <1>g, <1>b, <2>2, <2>3
  <1>8. CASE RequestFails
    <2>1. UNCHANGED <<chainVars, outrun, board, due, polled>> /\ ask' = NoAsk
      BY <1>8 DEF RequestFails
    <2> QED  BY <1>g, <1>b, <2>1 DEF chainVars, BoardWell, BoardPolled, AskWell, NoAsk
  <1>9. CASE Hide
    <2>1. UNCHANGED <<chainVars, outrun, board, due, polled>> /\ (ask' = ask \/ ask' = NoAsk)
      BY <1>9 DEF Hide
    <2> QED  BY <1>g, <1>b, <2>1 DEF chainVars, BoardWell, BoardPolled, AskWell, NoAsk
  <1>10. CASE Show
    <2>1. UNCHANGED <<chainVars, outrun, board, due, ask, polled>>
      BY <1>10 DEF Show
    <2> QED  BY <1>g, <1>b, <2>1 DEF chainVars, BoardWell, BoardPolled, AskWell
  <1>11. CASE LoadMore
    <2>1. /\ UNCHANGED <<chainVars, outrun, board, due, polled>>
          /\ ask' = [kind |-> "more", cursor |-> board.deepest]
      BY <1>11 DEF LoadMore
    <2> QED  BY <1>g, <1>b, <2>1 DEF chainVars, BoardWell, BoardPolled, AskWell
  <1>12. CASE TimePasses
    <2>1. UNCHANGED <<chainVars, outrun, board, ask, polled>> /\ ~due /\ due' = TRUE
      BY <1>12 DEF TimePasses
    <2> QED  BY <1>g, <1>b, <2>1 DEF chainVars, BoardWell, BoardPolled, AskWell
  <1>13. ASSUME UNCHANGED <<chainVars, outrun, boardVars>>
         PROVE  GrowthInv' /\ BoardInv'
    BY <1>g, <1>b, <1>13 DEF chainVars, boardVars, BoardWell, BoardPolled, AskWell
  <1>14. CASE SwitchAccount
    BY <1>13, <1>14 DEF SwitchAccount
  <1>15. CASE Ask
    BY <1>13, <1>15 DEF Ask
  <1>16. ASSUME NEW request \in loads, PositionsAnswered(request) \/ PositionsFail(request)
         PROVE  GrowthInv' /\ BoardInv'
    BY <1>13, <1>16 DEF PositionsAnswered, PositionsFail
  <1>17. CASE UNCHANGED feedVars
    BY <1>13, <1>17 DEF feedVars
  <1> QED  BY <1>2, <1>3, <1>4, <1>5, <1>6, <1>7, <1>8, <1>9, <1>10, <1>11, <1>12, <1>14,
              <1>15, <1>16, <1>17, <1>18 DEF FeedNext

LEMMA BoardInvNoHole == FeedBoardInv => BoardHasNoHole
  <1> SUFFICES ASSUME FeedBoardInv, rollbacks = 0, ~outrun, board.tokens # <<>>
               PROVE  \E oldest \in ShownAt :
                        /\ \A at \in ShownAt : oldest <= at /\ oldest .. at \subseteq ShownAt
                        /\ IF board.deepest = End THEN oldest = 1
                           ELSE oldest <= board.deepest.at
    BY DEF BoardHasNoHole
  <1>1. Well(Len(stored), board.tokens, board.deepest) /\ board.tokens \in Seq(Launches)
    BY DEF FeedBoardInv, BoardInv, BoardWell, Well
  <1>2. ShownAt = Ats(board.tokens) /\ Ats(board.tokens) # {}
    BY <1>1, RowsAts DEF ShownAt, Ats
  <1>3. PICK o \in ShownAt : /\ o <= Bottom(board.deepest)
                             /\ \A x \in ShownAt : o <= x /\ o .. x \subseteq ShownAt
    BY <1>1, <1>2 DEF Well, Solid
  <1>4. o \in Nat \ {0}
    BY <1>1, <1>2 DEF Well
  <1>5. IF board.deepest = End THEN o = 1 ELSE o <= board.deepest.at
    BY <1>3, <1>4 DEF Bottom
  <1> QED  BY <1>3, <1>5

\* On a chain that only grew, by at most a page between two polls or within the life of
\* a cached answer, the board shows every launch between its newest and its oldest, and
\* loading more goes on right below: mergeMarketPages, the revalidation of every loaded
\* page and the load of older pages keep it so in every order of answers.
THEOREM BoardStaysWhole == FeedSpec => []BoardHasNoHole
  <1>1. FeedInit => FeedBoardInv
    BY FeedInitType, FeedInitBoard DEF FeedBoardInv
  <1>2. FeedBoardInv /\ [FeedNext]_feedVars => FeedBoardInv'
    BY FeedStepType, FeedStepBoard DEF FeedBoardInv
  <1> QED  BY <1>1, <1>2, BoardInvNoHole, PTL DEF FeedSpec

-----------------------------------------------------------------------------
(* The portfolio skips no position.                                           *)

Sorted(rows) == \A i, j \in 1 .. Len(rows) : i < j => rows[j].at < rows[i].at

LEMMA NewestFirstSorted ==
  ASSUME NEW c \in Seq(Tokens), NEW B \in SUBSET Blocks(c)
  PROVE  Sorted(NewestFirst(c)[B])
  <1> DEFINE rows == NewestFirst(c)[B]
  <1>1. B \in SUBSET Nat /\ IsFiniteSet(B) /\ Cardinality(B) \in Nat
    BY BlocksFacts
  <1>2. /\ Len(rows) = Cardinality(B)
        /\ \A k \in 1 .. Cardinality(B) : Descending[B][k] \in B
                                          /\ rows[k] = Launch(c, Descending[B][k])
    BY NewestFirstFacts
  <1>3. \A b \in B : Launch(c, b).at = b
    BY BlocksFacts
  <1> HIDE DEF rows
  <1> SUFFICES ASSUME NEW i \in 1 .. Len(rows), NEW j \in 1 .. Len(rows), i < j
               PROVE  rows[j].at < rows[i].at
    BY DEF Sorted, rows
  <1>4. PICK x \in B : x = Descending[B][i] /\ Rank(B, x) = i
    BY <1>1, <1>2, DescendingAt
  <1>5. PICK y \in B : y = Descending[B][j] /\ Rank(B, y) = j
    BY <1>1, <1>2, DescendingAt
  <1>6. rows[i].at = x /\ rows[j].at = y /\ x \in Nat /\ y \in Nat
    BY <1>1, <1>2, <1>3, <1>4, <1>5
  <1>7. x < y => Rank(B, y) < Rank(B, x)
    BY <1>1, RankStrict
  <1>8. i \in Nat /\ j \in Nat /\ x # y
    BY <1>1, <1>2, <1>4, <1>5
  <1> QED  BY <1>4, <1>5, <1>6, <1>7, <1>8

\* The blocks of S are shown, or still to come below the cursor.
Reached(S, rows, next) == \A b \in S : b \in Ats(rows) \/ (next # End /\ b < next.at)

\* A list of launches from the newest down, all of blocks in E, that leaves out no block of
\* S and goes on below its last row.
Listed(c, E, S, rows, next) ==
  /\ rows \in Seq(Launches) /\ Sorted(rows)
  /\ \A i \in 1 .. Len(rows) : rows[i].at \in E /\ rows[i] = Launch(c, rows[i].at)
  /\ Reached(S, rows, next)
  /\ next # End => Len(rows) > 0 /\ next = rows[Len(rows)]

\* The wallet's positions below a cursor.
Below(c, w, cursor) == {b \in Held(c, w) : cursor = Newest \/ b < cursor.at}

\* A page lists them from the newest down.
LEMMA PositionPageListed ==
  ASSUME NEW c \in Seq(Tokens), NEW w, NEW cursor,
         cursor # Newest => \E b \in Blocks(c) : cursor = Launch(c, b)
  PROVE  LET answer == PositionPage(c, w, cursor)
             older == Below(c, w, cursor)
         IN  Listed(c, older, older, answer.rows, answer.next)
  <1> DEFINE answer == PositionPage(c, w, cursor)
             B == Held(c, w)
             older == Below(c, w, cursor)
  <1>1. B \in SUBSET Blocks(c) /\ Blocks(c) \in SUBSET Nat
    BY HeldBlocks
  <1>2. \A b \in Blocks(c) : Launch(c, b).at = b /\ Launch(c, b).token = c[b]
                             /\ Launch(c, b) \in Launches /\ c[b] \in Nat
    <2>1. \A b \in Blocks(c) : c[b] \in Tokens
      BY DEF Blocks
    <2>2. \A b \in Blocks(c) : /\ Launch(c, b) \in Launches /\ Launch(c, b).at = b
                               /\ Launch(c, b).token = c[b]
      BY BlocksFacts
    <2> QED  BY <2>1, <2>2 DEF Tokens
  <1>3. older = {b \in B : Before(Launch(c, b), cursor)}
    <2>1. ASSUME NEW b \in B
          PROVE  Before(Launch(c, b), cursor) <=> (cursor = Newest \/ b < cursor.at)
      <3>1. b \in Blocks(c) /\ b \in Nat
        BY <1>1
      <3>2. CASE cursor = Newest
        BY <3>2 DEF Before
      <3>3. CASE cursor # Newest
        <4>1. PICK x \in Blocks(c) : cursor = Launch(c, x)
          BY <3>3
        <4>2. cursor.at = x /\ cursor.token = c[x] /\ x \in Nat /\ c[x] \in Nat
          BY <1>1, <1>2, <4>1
        <4>3. Before(Launch(c, b), cursor) <=> b < x \/ (b = x /\ c[b] < c[x])
          BY <1>2, <3>1, <3>3, <4>2 DEF Before
        <4>4. ~(c[x] < c[x])
          BY <4>2
        <4> QED  BY <3>3, <4>2, <4>3, <4>4
      <3> QED  BY <3>2, <3>3
    <2> QED  BY <2>1 DEF Below
  <1>4. \/ answer = [rows |-> NewestFirst(c)[older], next |-> End]
        \/ \E n \in older :
             answer = [rows |-> NewestFirst(c)[Upper(older, n)], next |-> Launch(c, n)]
    <2> DEFINE limit == PositionLimit
    <2>1. limit \in Nat \ {0}
      BY FeedAssumption
    <2> HIDE DEF B, limit, older
    <2>2. LET o == {b \in B : Before(Launch(c, b), cursor)}
              p == PageOf(c, B, cursor, limit)
          IN  \/ /\ p = [rows |-> NewestFirst(c)[o], next |-> End]
                 /\ Cardinality(o) <= limit
              \/ \E n \in o :
                   /\ Rank(o, n) = limit /\ Cardinality(o) > limit
                   /\ p = [rows |-> NewestFirst(c)[Upper(o, n)], next |-> Launch(c, n)]
      BY <1>1, <2>1, PageFacts
    <2>3. answer = PageOf(c, B, cursor, limit)
      BY DEF PositionPage, B, limit
    <2> HIDE DEF answer
    <2> QED  BY <1>3, <2>2, <2>3
  <1>5. older \in SUBSET Blocks(c) /\ older \in SUBSET Nat /\ IsFiniteSet(older)
    <2>1. older \in SUBSET Blocks(c)
      BY <1>1 DEF Below
    <2> HIDE DEF older
    <2> QED  BY <2>1, BlocksFacts
  <1> HIDE DEF answer, older, B
  <1>6. ASSUME NEW V \in SUBSET older
        PROVE  /\ NewestFirst(c)[V] \in Seq(Launches) /\ Sorted(NewestFirst(c)[V])
               /\ Ats(NewestFirst(c)[V]) = V /\ Len(NewestFirst(c)[V]) = Cardinality(V)
               /\ \A i \in 1 .. Len(NewestFirst(c)[V]) :
                    LET row == NewestFirst(c)[V][i]
                    IN  row.at \in older /\ row = Launch(c, row.at)
    <2>1. V \in SUBSET Blocks(c)
      BY <1>5
    <2>2. /\ NewestFirst(c)[V] \in Seq(Launches) /\ Len(NewestFirst(c)[V]) = Cardinality(V)
          /\ \A k \in 1 .. Cardinality(V) :
               /\ Descending[V][k] \in V
               /\ NewestFirst(c)[V][k] = Launch(c, Descending[V][k])
      BY <2>1, NewestFirstFacts
    <2>3. \A i \in 1 .. Len(NewestFirst(c)[V]) :
            LET row == NewestFirst(c)[V][i]
            IN  row.at \in older /\ row = Launch(c, row.at)
      BY <1>2, <2>1, <2>2
    <2> QED  BY <2>1, <2>2, <2>3, NewestFirstSorted, NewestFirstAts
  <1>7. CASE answer = [rows |-> NewestFirst(c)[older], next |-> End]
    <2>1. answer.rows = NewestFirst(c)[older] /\ answer.next = End
      BY <1>7
    <2>2. Reached(older, answer.rows, answer.next)
      BY <1>6, <2>1 DEF Reached
    <2> QED  BY <1>6, <2>1, <2>2 DEF Listed, answer, older
  <1>8. ASSUME NEW n \in older,
               answer = [rows |-> NewestFirst(c)[Upper(older, n)], next |-> Launch(c, n)]
        PROVE  Listed(c, older, older, answer.rows, answer.next)
    <2> DEFINE V == Upper(older, n)
    <2>1. V \in SUBSET older /\ V \in SUBSET Nat /\ IsFiniteSet(V) /\ n \in V /\ n \in Nat
      <3>1. n \in Nat /\ older \in SUBSET Nat /\ IsFiniteSet(older)
        BY <1>5
      <3>2. V \in SUBSET older /\ n \in V
        BY <3>1 DEF Upper
      <3>3. IsFiniteSet(V)
        BY <3>1, <3>2, FS_Subset
      <3> QED  BY <3>1, <3>2, <3>3
    <2>2. answer.rows = NewestFirst(c)[V] /\ answer.next = Launch(c, n)
      BY <1>8
    <2>3. answer.next # End /\ answer.next.at = n
      BY <1>2, <1>5, <2>2, MarkerFacts
    <2>4. Reached(older, answer.rows, answer.next)
      <3>1. \A b \in older : b \in V \/ b < n
        BY <1>5, <2>1 DEF Upper
      <3>2. Ats(answer.rows) = V
        BY <1>6, <2>1, <2>2
      <3> QED  BY <2>3, <3>1, <3>2 DEF Reached
    <2>5. Upper(V, n) = V
      BY <2>1 DEF Upper
    <2> HIDE DEF V
    <2>6. Cardinality(V) \in 1 .. Cardinality(V) /\ Descending[V][Cardinality(V)] = n
      BY <2>1, <2>5, RankBounds, DescendingRank DEF Rank
    <2>7. Len(answer.rows) = Cardinality(V) /\ answer.rows[Cardinality(V)] = Launch(c, n)
      <3>1. V \in SUBSET Blocks(c)
        BY <1>5, <2>1
      <3> QED  BY <2>2, <2>6, <3>1, NewestFirstFacts
    <2>8. Cardinality(V) \in Nat
      BY <2>1, FS_CardinalityType
    <2>9. Len(answer.rows) > 0 /\ answer.next = answer.rows[Len(answer.rows)]
      BY <2>2, <2>6, <2>7, <2>8
    <2>10. \A i \in 1 .. Len(answer.rows) :
             answer.rows[i].at \in older /\ answer.rows[i] = Launch(c, answer.rows[i].at)
      BY <1>6, <2>1, <2>2
    <2> QED  BY <1>6, <2>1, <2>2, <2>4, <2>9, <2>10 DEF Listed
  <1> QED  BY <1>4, <1>7, <1>8 DEF answer, older

\* A list and the page below its last row are one list.
LEMMA ListedExtended ==
  ASSUME NEW c \in Seq(Tokens), NEW E \in SUBSET Nat, NEW S, NEW H, NEW rows, NEW next,
         NEW more, NEW then, Listed(c, E, S, rows, next), next # End,
         S \subseteq H, H \subseteq E,
         LET older == {b \in H : b < next.at} IN Listed(c, older, older, more, then)
  PROVE  Listed(c, E, S, rows \o more, then)
  <1> DEFINE all == rows \o more
             n == Len(rows)
             m == Len(more)
             older == {b \in H : b < next.at}
  <1>1. rows \in Seq(Launches) /\ more \in Seq(Launches) /\ n \in Nat /\ m \in Nat
    BY DEF Listed
  <1>2. /\ all \in Seq(Launches) /\ Len(all) = n + m
        /\ \A k \in 1 .. n + m : all[k] = IF k <= n THEN rows[k] ELSE more[k - n]
    BY <1>1, ConcatProperties
  <1> HIDE DEF all
  <1>3. n > 0 /\ next = rows[n] /\ next.at \in Nat
    <2>1. n > 0 /\ next = rows[n]
      BY DEF Listed
    <2>2. rows[n] \in Launches
      BY <1>1, <2>1
    <2> QED  BY <2>1, <2>2 DEF Launches
  <1>4. \A i \in 1 .. n : rows[i].at \in Nat /\ next.at <= rows[i].at
    <2> SUFFICES ASSUME NEW i \in 1 .. n
                 PROVE  rows[i].at \in Nat /\ next.at <= rows[i].at
      OBVIOUS
    <2>1. rows[i].at \in Nat
      <3>1. rows[i] \in Launches
        BY <1>1
      <3> QED  BY <3>1 DEF Launches
    <2>2. i < n => rows[n].at < rows[i].at
      BY <1>1, <1>3 DEF Listed, Sorted
    <2> QED  BY <1>1, <1>3, <2>1, <2>2
  <1>5. \A i \in 1 .. m : more[i].at \in older /\ more[i].at \in Nat /\ more[i].at < next.at
    BY DEF Listed
  <1>6. Sorted(all)
    <2> SUFFICES ASSUME NEW i \in 1 .. n + m, NEW j \in 1 .. n + m, i < j
                 PROVE  all[j].at < all[i].at
      BY <1>2 DEF Sorted
    <2>1. CASE j <= n
      <3>1. i \in 1 .. n /\ j \in 1 .. n
        BY <1>1, <2>1
      <3>2. rows[j].at < rows[i].at
        BY <3>1 DEF Listed, Sorted
      <3> QED  BY <1>2, <2>1, <3>1, <3>2
    <2>2. CASE ~(i <= n)
      <3>1. i - n \in 1 .. m /\ j - n \in 1 .. m /\ i - n < j - n /\ ~(j <= n)
        BY <1>1, <2>2
      <3>2. more[j - n].at < more[i - n].at
        BY <3>1 DEF Listed, Sorted
      <3> QED  BY <1>2, <2>2, <3>1, <3>2
    <2>3. CASE i <= n /\ ~(j <= n)
      <3>1. i \in 1 .. n /\ j - n \in 1 .. m
        BY <1>1, <2>3
      <3>2. more[j - n].at < next.at /\ next.at <= rows[i].at
        BY <1>4, <1>5, <3>1
      <3>3. all[i] = rows[i] /\ all[j] = more[j - n]
        BY <1>2, <2>3
      <3>4. more[j - n].at \in Nat /\ next.at \in Nat /\ rows[i].at \in Nat
        BY <1>3, <1>4, <1>5, <3>1
      <3> QED  BY <3>2, <3>3, <3>4
    <2> QED  BY <2>1, <2>2, <2>3
  <1>7. ASSUME NEW i \in 1 .. Len(all)
        PROVE  all[i].at \in E /\ all[i] = Launch(c, all[i].at)
    <2>1. CASE i <= n
      BY <1>1, <1>2, <2>1 DEF Listed
    <2>2. CASE ~(i <= n)
      <3>1. i - n \in 1 .. m /\ all[i] = more[i - n]
        BY <1>1, <1>2, <2>2
      <3>2. more[i - n].at \in older /\ more[i - n] = Launch(c, more[i - n].at)
        BY <3>1 DEF Listed
      <3> QED  BY <3>1, <3>2
    <2> QED  BY <2>1, <2>2
  <1>8. Reached(S, all, then)
    <2> SUFFICES ASSUME NEW b \in S
                 PROVE  b \in Ats(all) \/ (then # End /\ b < then.at)
      BY DEF Reached
    <2>1. CASE b \in Ats(rows)
      <3>1. PICK i \in 1 .. n : rows[i].at = b
        BY <2>1 DEF Ats
      <3>2. i \in 1 .. Len(all) /\ all[i] = rows[i]
        BY <1>1, <1>2
      <3> QED  BY <3>1, <3>2 DEF Ats
    <2>2. CASE b \notin Ats(rows)
      <3>1. b \in older
        BY <2>2 DEF Listed, Reached
      <3>2. CASE b \in Ats(more)
        <4>1. PICK i \in 1 .. m : more[i].at = b
          BY <3>2 DEF Ats
        <4>2. n + i \in 1 .. Len(all) /\ ~(n + i <= n) /\ (n + i) - n = i
          BY <1>1, <1>2
        <4>3. all[n + i] = more[i]
          BY <1>2, <4>2
        <4> QED  BY <4>1, <4>2, <4>3 DEF Ats
      <3>3. CASE b \notin Ats(more)
        BY <3>1, <3>3 DEF Listed, Reached
      <3> QED  BY <3>2, <3>3
    <2> QED  BY <2>1, <2>2
  <1>9. then # End => Len(all) > 0 /\ then = all[Len(all)]
    <2> SUFFICES ASSUME then # End
                 PROVE  Len(all) > 0 /\ then = all[Len(all)]
      OBVIOUS
    <2>1. m > 0 /\ then = more[m]
      BY DEF Listed
    <2>2. n + m \in 1 .. n + m /\ ~(n + m <= n) /\ (n + m) - n = m /\ n + m > 0
      BY <1>1, <2>1
    <2> QED  BY <1>2, <2>1, <2>2
  <1> QED  BY <1>2, <1>6, <1>7, <1>8, <1>9 DEF Listed, all

\* A list stays one when the chain grows, more was held and less has been all the time.
LEMMA ListedGrows ==
  ASSUME NEW c, NEW d, NEW E \in SUBSET Blocks(c), NEW F, NEW S, NEW R, NEW rows, NEW next,
         \A b \in Blocks(c) : d[b] = c[b],
         Listed(c, E, S, rows, next), E \subseteq F, R \subseteq S
  PROVE  Listed(d, F, R, rows, next)
  BY DEF Listed, Launch, Reached

\* The inductive invariant of the portfolio.  Request numbers are issued upwards and
\* once, and the current request asks for the connected wallet, from the newest position
\* or below the rows shown ...
LoadsWell ==
  /\ \A r \in loads : r.id <= portfolio.ref
  /\ \A r, q \in loads : r.id = q.id => r = q
  /\ \A r \in loads : r.id = portfolio.ref =>
       /\ r.wallet = portfolio.account
       /\ r.cursor = Newest \/ (r.cursor = portfolio.next /\ r.cursor # End)

\* ... there is no next page before the first, and without a reorganisation since the
\* first the rows are a list of positions the wallet has had, with all it has had since.
Watching ==
  /\ ever \subseteq Blocks(stored)
  /\ Held(stored, portfolio.account) \subseteq ever
  /\ steady \subseteq Held(stored, portfolio.account)

PositionsInv ==
  /\ origin <= rollbacks
  /\ ~portfolio.shown.loaded => portfolio.next = End
  /\ portfolio.shown.loaded /\ rollbacks = origin =>
       Watching /\ Listed(stored, ever, steady, portfolio.shown.rows, portfolio.next)

FeedPortfolioInv == FeedTypeOK /\ LoadsWell /\ PositionsInv

LEMMA FeedInitPortfolio == FeedInit => LoadsWell /\ PositionsInv
  <1> SUFFICES ASSUME FeedInit PROVE LoadsWell /\ PositionsInv
    OBVIOUS
  <1>1. PICK w \in Accounts :
          /\ portfolio = [account |-> w, shown |-> Nothing, next |-> End, ref |-> 1]
          /\ loads = IF view = "portfolio" THEN {[id |-> 1, wallet |-> w, cursor |-> Newest]}
                                           ELSE {}
    BY DEF FeedInit
  <1>2. \A r \in loads : r = [id |-> 1, wallet |-> w, cursor |-> Newest]
    BY <1>1
  <1>3. LoadsWell
    BY <1>1, <1>2 DEF LoadsWell
  <1>4. PositionsInv
    BY <1>1 DEF FeedInit, PositionsInv, Nothing
  <1> QED  BY <1>3, <1>4

LEMMA LoadKeepsWell ==
  ASSUME FeedTypeOK, LoadsWell, NEW w, NEW cursor,
         portfolio'.ref = Load(w, cursor).ref, loads' = loads \cup {Load(w, cursor).request},
         portfolio'.account = w,
         cursor = Newest \/ (cursor = portfolio'.next /\ cursor # End)
  PROVE  LoadsWell'
  <1> DEFINE new == Load(w, cursor).request
  <1>1. /\ new = [id |-> portfolio.ref + 1, wallet |-> w, cursor |-> cursor]
        /\ portfolio'.ref = portfolio.ref + 1
    BY DEF Load
  <1>2. portfolio.ref \in Nat /\ \A r \in loads : r.id \in Nat /\ r.id <= portfolio.ref
    BY DEF FeedTypeOK, PortfolioType, Portfolios, Requests, LoadsWell
  <1> HIDE DEF new
  <1>3. \A r \in loads' : r \in loads \/ r = new
    BY DEF new
  <1>4. \A r \in loads : r.id # portfolio'.ref /\ r.id <= portfolio'.ref /\ r.id # new.id
    BY <1>1, <1>2
  <1>5. new.id = portfolio'.ref /\ new.wallet = w /\ new.cursor = cursor /\ new.id <= portfolio'.ref
    BY <1>1, <1>2
  <1>6. \A r \in loads' : r.id <= portfolio'.ref
    BY <1>3, <1>4, <1>5
  <1>7. \A r, q \in loads' : r.id = q.id => r = q
    BY <1>3, <1>4, <1>5 DEF LoadsWell
  <1>8. \A r \in loads' : r.id = portfolio'.ref =>
          /\ r.wallet = portfolio'.account
          /\ r.cursor = Newest \/ (r.cursor = portfolio'.next /\ r.cursor # End)
    BY <1>3, <1>4, <1>5
  <1> QED  BY <1>6, <1>7, <1>8 DEF LoadsWell

LEMMA PositionsAnsweredPortfolio ==
  ASSUME FeedTypeOK, LoadsWell, PositionsInv, NEW request \in loads, PositionsAnswered(request)
  PROVE  LoadsWell' /\ PositionsInv'
  <1> DEFINE answer == PositionPage(stored, request.wallet, request.cursor)
             append == request.cursor # Newest /\ portfolio.shown.loaded
  <1>1. /\ loads' = loads \ {request}
        /\ stored' = stored /\ holders' = holders /\ rollbacks' = rollbacks
        /\ stored \in Seq(Tokens) /\ ever \in SUBSET Nat
    BY DEF PositionsAnswered, chainVars, FeedTypeOK, ChainType, PortfolioType
  <1>2. CASE ~Current(request)
    <2>1. UNCHANGED <<portfolio, origin, steady, ever>>
      BY <1>2 DEF PositionsAnswered
    <2>2. LoadsWell'
      BY <1>1, <2>1 DEF LoadsWell
    <2>3. PositionsInv'
      BY <1>1, <2>1 DEF PositionsInv, Watching, Held
    <2> QED  BY <2>2, <2>3
  <1>3. CASE Current(request)
    <2>1. /\ portfolio' =
               [portfolio EXCEPT
                  !.shown = [rows |-> IF append THEN @.rows \o answer.rows ELSE answer.rows,
                             loaded |-> TRUE],
                  !.next = answer.next]
          /\ IF append THEN UNCHANGED <<origin, steady, ever>>
             ELSE /\ origin' = rollbacks /\ steady' = Held(stored, request.wallet)
                  /\ ever' = Held(stored, request.wallet)
      BY <1>3 DEF PositionsAnswered
    <2>2. request.id = portfolio.ref
      BY <1>3 DEF Current
    <2>3. /\ request.wallet = portfolio.account
          /\ request.cursor = Newest \/ (request.cursor = portfolio.next /\ request.cursor # End)
      BY <2>2 DEF LoadsWell
    <2> HIDE DEF answer, append
    <2>4. /\ portfolio'.account = portfolio.account /\ portfolio'.ref = portfolio.ref
          /\ portfolio'.next = answer.next /\ portfolio'.shown.loaded
          /\ portfolio'.shown.rows = IF append THEN portfolio.shown.rows \o answer.rows
                                     ELSE answer.rows
      BY <2>1 DEF FeedTypeOK, PortfolioType, Portfolios
    <2>5. \A r \in loads' : r \in loads /\ r.id # portfolio'.ref
      BY <1>1, <2>2, <2>4 DEF LoadsWell
    <2>6. LoadsWell'
      BY <2>4, <2>5 DEF LoadsWell
    <2>7. origin' <= rollbacks'
      BY <1>1, <2>1 DEF PositionsInv, FeedTypeOK, ChainType
    <2> DEFINE w == portfolio.account
    <2>8. ASSUME append, rollbacks = origin
          PROVE  Watching' /\ Listed(stored, ever', steady', portfolio'.shown.rows, answer.next)
      <3> DEFINE rows == portfolio.shown.rows
                 next == portfolio.next
      <3>1. request.cursor = next /\ next # End /\ request.cursor # Newest
            /\ portfolio.shown.loaded /\ steady' = steady /\ ever' = ever
        BY <2>1, <2>3, <2>8 DEF append
      <3>2. Watching /\ Listed(stored, ever, steady, rows, next)
        BY <2>8, <3>1 DEF PositionsInv
      <3>3. Watching'
        BY <1>1, <2>4, <3>1, <3>2 DEF Watching, Held
      <3>4. \E b \in Blocks(stored) : next = Launch(stored, b)
        <4>1. Len(rows) \in 1 .. Len(rows) /\ next = rows[Len(rows)]
          <5>1. Len(rows) \in Nat /\ Len(rows) > 0 /\ next = rows[Len(rows)]
            BY <3>1, <3>2 DEF Listed
          <5> QED  BY <5>1
        <4>2. next.at \in ever /\ next = Launch(stored, next.at)
          BY <3>2, <4>1 DEF Listed
        <4> QED  BY <3>2, <4>2 DEF Watching
      <3> HIDE DEF w, rows, next
      <3>5. LET older == {b \in Held(stored, w) : b < next.at}
            IN  Listed(stored, older, older, answer.rows, answer.next)
        <4>1. LET p == PositionPage(stored, w, next)
                  older == Below(stored, w, next)
              IN  Listed(stored, older, older, p.rows, p.next)
          BY <1>1, <3>4, PositionPageListed
        <4>2. answer = PositionPage(stored, w, next)
          BY <2>3, <3>1 DEF answer, w
        <4>3. Below(stored, w, next) = {b \in Held(stored, w) : b < next.at}
          BY <3>1 DEF Below
        <4> QED  BY <4>1, <4>2, <4>3
      <3>6. steady \subseteq Held(stored, w) /\ Held(stored, w) \subseteq ever
        BY <3>2 DEF Watching, w
      <3> DEFINE H == Held(stored, w)
      <3> HIDE DEF H
      <3>7. Listed(stored, ever, steady, rows \o answer.rows, answer.next)
        <4>1. /\ steady \subseteq H /\ H \subseteq ever
              /\ LET older == {b \in H : b < next.at}
                 IN  Listed(stored, older, older, answer.rows, answer.next)
          BY <3>5, <3>6 DEF H
        <4> QED  BY <1>1, <3>1, <3>2, <4>1, ListedExtended
      <3> QED  BY <2>4, <2>8, <3>1, <3>3, <3>7 DEF rows
    <2>9. ASSUME ~append
          PROVE  Watching' /\ Listed(stored, ever', steady', portfolio'.shown.rows, answer.next)
      <3>1. request.cursor = Newest
        BY <2>3, <2>9 DEF append, PositionsInv
      <3>2. steady' = Held(stored, w) /\ ever' = Held(stored, w)
        BY <2>1, <2>3, <2>9
      <3>3. Watching'
        <4>1. Held(stored, w) \subseteq Blocks(stored)
          BY DEF Held
        <4> QED  BY <1>1, <2>4, <3>2, <4>1 DEF Watching, Held
      <3> HIDE DEF w
      <3>4. LET p == PositionPage(stored, w, Newest)
                older == Below(stored, w, Newest)
            IN  Listed(stored, older, older, p.rows, p.next)
        BY <1>1, PositionPageListed
      <3>5. answer = PositionPage(stored, w, Newest)
        BY <2>3, <3>1 DEF answer, w
      <3>6. Below(stored, w, Newest) = Held(stored, w)
        BY DEF Below
      <3> QED  BY <2>4, <2>9, <3>2, <3>3, <3>4, <3>5, <3>6
    <2>10. PositionsInv'
      <3>1. append => origin' = origin
        BY <2>1
      <3> QED  BY <1>1, <2>4, <2>7, <2>8, <2>9, <3>1 DEF PositionsInv
    <2> QED  BY <2>6, <2>10
  <1> QED  BY <1>2, <1>3

\* The holdings move, or the chain grows.
LEMMA WatchedPortfolio ==
  ASSUME FeedTypeOK, PositionsInv, Watched, stored' \in Seq(Tokens),
         UNCHANGED <<portfolio, origin, rollbacks>>,
         Blocks(stored) \subseteq Blocks(stored'), \A b \in Blocks(stored) : stored'[b] = stored[b]
  PROVE  PositionsInv'
  <1> DEFINE H == Held(stored, portfolio.account)'
             rows == portfolio.shown.rows
             next == portfolio.next
  <1> SUFFICES ASSUME portfolio.shown.loaded, rollbacks = origin
               PROVE  Watching' /\ Listed(stored', ever', steady', rows, next)
    BY DEF PositionsInv
  <1>1. Watching /\ Listed(stored, ever, steady, rows, next)
    BY DEF PositionsInv
  <1>2. steady' = steady \cap H /\ ever' = ever \cup H
    BY DEF Watched
  <1>3. H \subseteq Blocks(stored')
    BY DEF Held
  <1>4. Watching'
    BY <1>1, <1>2, <1>3 DEF Watching
  <1> HIDE DEF H, rows, next
  <1>5. ever \in SUBSET Blocks(stored) /\ ever \subseteq ever' /\ steady' \subseteq steady
    BY <1>1, <1>2 DEF Watching
  <1>6. Listed(stored', ever', steady', rows, next)
    BY <1>1, <1>5, ListedGrows
  <1> QED  BY <1>4, <1>6

LEMMA FeedStepPortfolio ==
  FeedPortfolioInv /\ [FeedNext]_feedVars => LoadsWell' /\ PositionsInv'
  <1> SUFFICES ASSUME FeedTypeOK, LoadsWell, PositionsInv, [FeedNext]_feedVars
               PROVE  LoadsWell' /\ PositionsInv'
    BY DEF FeedPortfolioInv
  <1>1. rollbacks \in Nat /\ origin \in Nat /\ stored \in Seq(Tokens)
    BY DEF FeedTypeOK, ChainType, PortfolioType
  <1>p. ASSUME UNCHANGED <<portfolio, loads>>
        PROVE  LoadsWell'
    BY <1>p DEF LoadsWell
  <1>s. ASSUME UNCHANGED <<portfolioVars, stored, holders, rollbacks>>
        PROVE  LoadsWell' /\ PositionsInv'
    <2>1. UNCHANGED <<portfolio, loads, origin, steady, ever>>
      BY <1>s DEF portfolioVars
    <2> QED  BY <1>p, <1>s, <2>1 DEF PositionsInv, Watching, Held
  <1>2. CASE Index
    <2>1. PICK t \in Tokens : stored' = Append(stored, t)
      BY <1>2 DEF Index
    <2>2. UNCHANGED <<portfolio, loads, origin, rollbacks>> /\ Watched
      BY <1>2 DEF Index
    <2>3. /\ stored' \in Seq(Tokens) /\ Blocks(stored) \subseteq Blocks(stored')
          /\ \A b \in Blocks(stored) : stored'[b] = stored[b]
      BY <1>1, <2>1 DEF Blocks
    <2> QED  BY <1>p, <2>2, <2>3, WatchedPortfolio
  <1>12. CASE Transfer
    <2>1. UNCHANGED <<portfolio, loads, origin, rollbacks, stored>> /\ Watched
      BY <1>12 DEF Transfer
    <2> QED  BY <1>1, <1>p, <2>1, WatchedPortfolio
  <1>3. CASE Rollback
    <2>1. rollbacks' = rollbacks + 1 /\ UNCHANGED <<portfolio, loads, origin>>
      BY <1>3 DEF Rollback, portfolioVars
    <2>2. origin' <= rollbacks' /\ rollbacks' # origin'
      BY <1>1, <2>1 DEF PositionsInv
    <2>3. PositionsInv'
      BY <2>1, <2>2 DEF PositionsInv
    <2> QED  BY <1>p, <2>1, <2>3
  <1>4. CASE CacheExpires \/ Availability
    BY <1>4, <1>s DEF CacheExpires, Availability
  <1>5. CASE Refresh \/ RequestFails \/ Hide \/ Show \/ LoadMore \/ TimePasses
    BY <1>5, <1>s DEF Refresh, RequestFails, Hide, Show, LoadMore, TimePasses, chainVars
  <1>6. CASE PageAnswered
    <2>1. PICK source \in {stored, cached} :
            RefreshAnswered(source) \/ OlderPageAnswered(source) \/ MoreAnswered(source)
      BY <1>6, AnsweredFrom
    <2> QED  BY <1>s, <2>1 DEF RefreshAnswered, OlderPageAnswered, MoreAnswered, chainVars
  <1>7. CASE SwitchAccount
    <2>1. PICK w \in Accounts :
            /\ portfolio' = [account |-> w, shown |-> Nothing, next |-> End,
                             ref |-> Load(w, Newest).ref]
            /\ loads' = loads \cup {Load(w, Newest).request}
      BY <1>7 DEF SwitchAccount
    <2>2. LoadsWell'
      BY <2>1, LoadKeepsWell
    <2>3. PositionsInv'
      BY <1>7, <2>1 DEF SwitchAccount, chainVars, PositionsInv, Nothing
    <2> QED  BY <2>2, <2>3
  <1>8. CASE Ask
    <2>1. PICK cursor \in ({Newest} \cup {portfolio.next}) \ {End} :
            /\ portfolio' = [portfolio EXCEPT !.ref = Load(portfolio.account, cursor).ref]
            /\ loads' = loads \cup {Load(portfolio.account, cursor).request}
      BY <1>8 DEF Ask
    <2>2. /\ portfolio'.account = portfolio.account /\ portfolio'.next = portfolio.next
          /\ portfolio'.shown = portfolio.shown
          /\ portfolio'.ref = Load(portfolio.account, cursor).ref
      BY <2>1 DEF FeedTypeOK, PortfolioType, Portfolios
    <2>3. LoadsWell'
      BY <2>1, <2>2, LoadKeepsWell
    <2>4. PositionsInv'
      BY <1>8, <2>2 DEF Ask, chainVars, PositionsInv, Watching, Held
    <2> QED  BY <2>3, <2>4
  <1>9. ASSUME NEW request \in loads, PositionsAnswered(request)
        PROVE  LoadsWell' /\ PositionsInv'
    BY <1>9, PositionsAnsweredPortfolio
  <1>10. ASSUME NEW request \in loads, PositionsFail(request)
         PROVE  LoadsWell' /\ PositionsInv'
    <2>1. loads' = loads \ {request} /\ UNCHANGED <<chainVars, portfolio, origin, steady, ever>>
      BY <1>10 DEF PositionsFail
    <2>2. LoadsWell'
      BY <2>1 DEF LoadsWell
    <2>3. PositionsInv'
      BY <2>1 DEF chainVars, PositionsInv, Watching, Held
    <2> QED  BY <2>2, <2>3
  <1>11. CASE UNCHANGED feedVars
    BY <1>11, <1>s DEF feedVars, chainVars
  <1> QED  BY <1>2, <1>3, <1>4, <1>5, <1>6, <1>7, <1>8, <1>9, <1>10, <1>11, <1>12 DEF FeedNext

LEMMA PortfolioInvSkipsNothing == FeedPortfolioInv => NoPositionSkipped
  <1> SUFFICES ASSUME FeedPortfolioInv, portfolio.shown.loaded, rollbacks = origin
               PROVE  NoPositionSkipped
    BY DEF NoPositionSkipped
  <1> DEFINE rows == portfolio.shown.rows
             next == portfolio.next
  <1>1. Listed(stored, ever, steady, rows, next)
    BY DEF FeedPortfolioInv, PositionsInv
  <1> QED  BY <1>1 DEF NoPositionSkipped, Listed, Sorted, Reached, Ats

\* Without a reorganisation since its first page, the portfolio shows no position twice
\* and none the connected wallet has not had since, and a position the wallet has had all
\* the time is shown or still to come, whatever is bought, sold or handed off between two
\* pages: the keyset cursor of readWalletPositions and the request number of
\* WalletPortfolio let no answer of a superseded request, of another wallet or of an
\* abandoned page in.
THEOREM PortfolioSkipsNothing == FeedSpec => []NoPositionSkipped
  <1>1. FeedInit => FeedPortfolioInv
    BY FeedInitType, FeedInitPortfolio DEF FeedPortfolioInv
  <1>2. FeedPortfolioInv /\ [FeedNext]_feedVars => FeedPortfolioInv'
    BY FeedStepType, FeedStepPortfolio DEF FeedPortfolioInv
  <1> QED  BY <1>1, <1>2, PortfolioInvSkipsNothing, PTL DEF FeedSpec
=============================================================================
