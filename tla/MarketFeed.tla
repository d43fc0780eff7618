----------------------------- MODULE MarketFeed -----------------------------
(* The readers of the read model: the public market board, which polls its    *)
(* first page, keeps older pages loaded and revalidates them as one chain,    *)
(* and the wallet portfolio, which appends pages of one wallet's positions     *)
(* while those positions come and go.                                          *)
(* Each answer is a keyset page of one snapshot of the chain that module      *)
(* IndexedChain promises; a board answer may come from the shared cache.      *)
EXTENDS Naturals, Sequences, FiniteSets, SequencesExt

CONSTANTS
  PageLimit,      \* MARKET_PAGE_LIMIT
  PositionLimit,  \* positions of one portfolio page
  Accounts,       \* wallets the visitor may connect
  Launched,       \* Launched[w]: the tokens w launched; the rest are others'
  Newest,         \* the request without a cursor
  End,            \* nextCursor null: no older page
  Unset,          \* the board has not been answered yet
  MaxBlocks,      \* bound: blocks, each with one launch
  MaxTokens,      \* bound: launched tokens
  MaxTransfers,   \* bound: changes of holders
  MaxRollbacks,   \* bound: reorganisations
  MaxLoads        \* bound: requests of the portfolio

Tokens == 1 .. MaxTokens

ASSUME FeedAssumption ==
  /\ PageLimit \in Nat \ {0} /\ PositionLimit \in Nat \ {0}
  /\ Launched \in [Accounts -> SUBSET Tokens]
  /\ MaxBlocks \in Nat /\ MaxTokens \in Nat /\ MaxTransfers \in Nat
  /\ MaxRollbacks \in Nat /\ MaxLoads \in Nat

\* The markers are no cursors.
ASSUME MarkerAssumption ==
  /\ Newest # End /\ Newest # Unset /\ End # Unset
  /\ {Newest, End, Unset} \cap [at : Nat, token : Tokens] = {}

VARIABLES
  stored,     \* the indexed chain: the token launched in each block
  holders,    \* as indexed: the wallets with a balance or the creator rights of each token
  transfers,  \* bound: changes of holders so far
  cached,     \* the chain as the shared cache last saw it
  up,         \* the server answers: network there, indexer caught up and observed lately
  view,       \* the page the visitor has open: "board" or "portfolio"
  hidden,     \* document.hidden
  due,        \* MARKET_LOADED_PAGES_REVALIDATE_MS have passed since the last revalidation
  board,      \* MarketDataProvider: tokens, deepestCursor, loadedPageCount, hasLoadedOlderPages
  ask,        \* the board's request in flight
  portfolio,  \* WalletPortfolio: account, positions, nextCursor, requestRef
  loads,      \* the portfolio's requests that may still be answered
  rollbacks,  \* history, bound: reorganisations so far
  outrun,     \* history: did more than a page of launches arrive between two answers?
  polled,     \* history: length of the chain the board's last first page came from
  origin,     \* history: rollbacks when the portfolio's first page was answered
  steady,     \* history: the blocks of the positions held ever since then
  ever        \* history: the blocks of the positions held at any time since then

chainVars == <<stored, holders, transfers, cached, up, rollbacks>>
boardVars == <<hidden, due, board, ask, polled>>
portfolioVars == <<portfolio, loads, origin, steady, ever>>
feedVars == <<chainVars, view, boardVars, portfolioVars, outrun>>

-----------------------------------------------------------------------------
(* The server.                                                                *)

Launches == [at : Nat, token : Tokens]

Launch(chain, i) == [at |-> i, token |-> chain[i]]

\* (block_number, log_index, token_address) < the cursor's.
Before(l, cursor) ==
  cursor = Newest \/ l.at < cursor.at \/ (l.at = cursor.at /\ l.token < cursor.token)

\* The numbers in S, the largest first.
Descending[S \in SUBSET Nat] ==
  [k \in 1 .. Cardinality(S) |-> CHOOSE n \in S : Cardinality({m \in S : m >= n}) = k]

\* ORDER BY block_number DESC ...
NewestFirst(chain) ==
  [blocks \in SUBSET Nat |->
     [k \in 1 .. Cardinality(blocks) |-> Launch(chain, Descending[blocks][k])]]

\* One row more than the limit is read: it tells whether an older page exists.
PageOf(chain, blocks, cursor, limit) ==
  LET older == NewestFirst(chain)[{b \in blocks : Before(Launch(chain, b), cursor)}]
      more == Len(older) > limit
  IN [rows |-> IF more THEN SubSeq(older, 1, limit) ELSE older,
      next |-> IF more THEN older[limit] ELSE End]

Blocks(chain) == 1 .. Len(chain)
TokenPage(chain, cursor) == PageOf(chain, Blocks(chain), cursor, PageLimit)

\* A position is a token the wallet launched, or now has some of or the rights to.
Held(chain, w) ==
  {b \in Blocks(chain) : chain[b] \in Launched[w] \/ w \in holders[chain[b]]}
PositionPage(chain, w, cursor) == PageOf(chain, Held(chain, w), cursor, PositionLimit)

-----------------------------------------------------------------------------
(* The read model moves as IndexedChain says.                                 *)

Chain == INSTANCE IndexedChain
  WITH Pages <- Tokens, First <- LAMBDA p : TRUE, Follows <- LAMBDA p, q : p # q,
       index <- stored

Behind(n) == Len(stored) + 1 > n + PageLimit

\* The positions on show, as the read model changes beneath them.
Watched ==
  /\ steady' = steady \cap Held(stored, portfolio.account)'
  /\ ever' = IF portfolio.shown.loaded THEN ever \cup Held(stored, portfolio.account)' ELSE {}

\* A block with a launch; a first buy goes to who launched.  After a reorganisation a
\* token may return in another block.
Index ==
  /\ Len(stored) < MaxBlocks
  /\ \E t \in Tokens \ ToSet(stored) :
       /\ rollbacks = 0 => t = Len(stored) + 1
       /\ stored' = Append(stored, t)
  /\ Chain!Extend
  /\ outrun' = (outrun \/ Behind(Len(cached)) \/ (board.deepest # Unset /\ Behind(polled)))
  /\ UNCHANGED <<holders, transfers, cached, up, rollbacks, view, boardVars, portfolio, loads,
                 origin>>
  /\ Watched

\* A block in which a token is bought, sold, sent or handed off; the board shows none
\* of it.
Transfer ==
  /\ view = "portfolio" /\ transfers < MaxTransfers
  /\ \E t \in ToSet(stored), owners \in SUBSET Accounts :
       holders' = [holders EXCEPT ![t] = owners]
  /\ transfers' = transfers + 1
  /\ UNCHANGED <<stored, cached, up, rollbacks, view, boardVars, portfolio, loads, origin, outrun>>
  /\ Watched

\* The balances and rights go back to earlier ones, whichever those were.
Rollback ==
  /\ rollbacks < MaxRollbacks
  /\ \E n \in 1 .. Len(stored) - 1 : stored' = SubSeq(stored, 1, n)
  /\ \E owners \in [ToSet(stored') -> SUBSET Accounts] :
       holders' = [t \in Tokens |-> IF t \in DOMAIN owners THEN owners[t] ELSE {}]
  /\ transfers = 0 => UNCHANGED holders
  /\ Chain!Truncate
  /\ rollbacks' = rollbacks + 1
  /\ UNCHANGED <<transfers, cached, up, view, boardVars, portfolioVars, outrun>>

\* s-maxage and stale-while-revalidate run out; the portfolio reads no cache.
CacheExpires ==
  /\ view = "board" /\ cached # stored
  /\ cached' = stored
  /\ UNCHANGED <<stored, holders, transfers, up, rollbacks, view, boardVars, portfolioVars, outrun>>

\* Answers stop while the indexer is behind or unobserved, or the network is away.
Availability ==
  /\ up' = ~up
  /\ UNCHANGED <<stored, holders, transfers, cached, rollbacks, view, boardVars, portfolioVars, outrun>>

-----------------------------------------------------------------------------
(* The board.  A refresh and a load of an older page never overlap.           *)

NoAsk == [kind |-> "none"]

TokensOf(rows) == {rows[i].token : i \in 1 .. Len(rows)}

\* Mutant of mergeMarketPages: the retained pages are forgotten.
FirstOnly(first, retained) == first

\* The rows of other tokens, in their order.
Others[tokens \in SUBSET Tokens] ==
  [rows \in Seq(Launches) |->
     LET kept == {i \in 1 .. Len(rows) : rows[i].token \notin tokens}
     IN [k \in 1 .. Cardinality(kept) |-> rows[Descending[kept][Cardinality(kept) + 1 - k]]]]

mergeMarketPages(first, retained) == first \o Others[TokensOf(first)][retained]

\* A refresh that read only the first page keeps what was loaded below it.
FirstPageRefreshed(page) ==
  [board EXCEPT !.tokens = mergeMarketPages(page.rows, @),
                !.deepest = IF board.older THEN @ ELSE page.next]

\* Mutant of Revalidated: the old pages are kept below the revalidated ones.
RevalidatedKeeping(rows, cursor, count) ==
  [tokens |-> mergeMarketPages(rows, board.tokens), deepest |-> cursor,
   pages |-> count, older |-> count > 1]

\* A revalidation replaces every page by the chain of pages it read.
Revalidated(rows, cursor, count) ==
  [tokens |-> rows, deepest |-> cursor, pages |-> count, older |-> count > 1]

\* More pages are asked for until as many as were loaded, or the oldest, are there.
Revalidate(rows, cursor, count, target) ==
  IF count < target /\ cursor # End
  THEN /\ ask' = [kind |-> "chain", rows |-> rows, cursor |-> cursor,
                  count |-> count, target |-> target]
       /\ UNCHANGED <<board, due>>
  ELSE /\ board' = Revalidated(rows, cursor, count)
       /\ due' = FALSE /\ ask' = NoAsk

\* Visible, and after the poll delay or at once when the tab is shown again.
Refresh ==
  /\ view = "board" /\ ~hidden /\ ask = NoAsk
  /\ ask' = [kind |-> "first"]
  /\ UNCHANGED <<chainVars, view, hidden, due, board, polled, portfolioVars, outrun>>

RefreshAnswered(chain) ==
  /\ ask.kind = "first"
  /\ polled' = Len(chain)
  /\ LET page == TokenPage(chain, Newest)
     IN IF board.pages > 1 /\ due
        THEN Revalidate(page.rows, page.next, 1, board.pages)
        ELSE /\ board' = FirstPageRefreshed(page)
             /\ ask' = NoAsk /\ due' = due
  /\ UNCHANGED <<chainVars, view, hidden, portfolioVars, outrun>>

OlderPageAnswered(chain) ==
  /\ ask.kind = "chain"
  /\ LET page == TokenPage(chain, ask.cursor)
     IN Revalidate(mergeMarketPages(ask.rows, page.rows), page.next, ask.count + 1,
                   ask.target)
  /\ UNCHANGED <<chainVars, view, hidden, polled, portfolioVars, outrun>>

\* A failed refresh changes nothing on the board, whatever pages it had read.
RequestFails ==
  /\ ask # NoAsk /\ ~up
  /\ ask' = NoAsk
  /\ UNCHANGED <<chainVars, view, hidden, due, board, polled, portfolioVars, outrun>>

\* Hiding the tab aborts a refresh, not the load of an older page.
Hide ==
  /\ view = "board" /\ ~hidden
  /\ hidden' = TRUE
  /\ ask' = IF ask.kind = "more" THEN ask ELSE NoAsk
  /\ UNCHANGED <<chainVars, view, due, board, polled, portfolioVars, outrun>>

Show ==
  /\ hidden
  /\ hidden' = FALSE
  /\ UNCHANGED <<chainVars, view, due, board, ask, polled, portfolioVars, outrun>>

LoadMore ==
  /\ view = "board" /\ ~hidden /\ ask = NoAsk
  /\ board.deepest \notin {Unset, End}
  /\ ask' = [kind |-> "more", cursor |-> board.deepest]
  /\ UNCHANGED <<chainVars, view, hidden, due, board, polled, portfolioVars, outrun>>

MoreAnswered(chain) ==
  /\ ask.kind = "more"
  /\ LET page == TokenPage(chain, ask.cursor)
     IN board' = [tokens |-> mergeMarketPages(board.tokens, page.rows),
                  deepest |-> page.next, pages |-> board.pages + 1, older |-> TRUE]
  /\ ask' = NoAsk
  /\ UNCHANGED <<chainVars, view, hidden, due, polled, portfolioVars, outrun>>

\* The cache may answer even while the server does not.
PageAnswered == \E chain \in IF up THEN {stored, cached} ELSE {cached} :
  RefreshAnswered(chain) \/ OlderPageAnswered(chain) \/ MoreAnswered(chain)

TimePasses ==
  /\ view = "board" /\ ~due
  /\ due' = TRUE
  /\ UNCHANGED <<chainVars, view, hidden, board, ask, polled, portfolioVars, outrun>>

-----------------------------------------------------------------------------
(* The portfolio.  Its requests are posted, so no cache answers them.         *)

Nothing == [rows |-> <<>>, loaded |-> FALSE]

\* Each request supersedes the one before, which is aborted but may have answered.
Load(w, cursor) ==
  LET id == portfolio.ref + 1
  IN [request |-> [id |-> id, wallet |-> w, cursor |-> cursor], ref |-> id]

SwitchAccount ==
  /\ view = "portfolio" /\ portfolio.ref < MaxLoads
  /\ \E w \in Accounts \ {portfolio.account} :
       LET load == Load(w, Newest)
       IN /\ portfolio' = [account |-> w, shown |-> Nothing, next |-> End, ref |-> load.ref]
          /\ loads' = loads \cup {load.request}
  /\ steady' = {} /\ ever' = {}
  /\ UNCHANGED <<chainVars, view, boardVars, origin, outrun>>

\* Reload at any moment, or the next page once the current request is over.
Loading == \E request \in loads : request.id = portfolio.ref

Ask ==
  /\ view = "portfolio" /\ portfolio.ref < MaxLoads
  /\ \E cursor \in ({Newest} \cup (IF Loading THEN {} ELSE {portfolio.next})) \ {End} :
       LET load == Load(portfolio.account, cursor)
       IN /\ portfolio' = [portfolio EXCEPT !.ref = load.ref]
          /\ loads' = loads \cup {load.request}
  /\ UNCHANGED <<chainVars, view, boardVars, origin, steady, ever, outrun>>

\* Mutant of Current: any answer is taken.
AnyAnswer(request) == TRUE

Current(request) == request.id = portfolio.ref

\* A superseded answer is dropped; a page with a cursor is appended.
PositionsAnswered(request) ==
  /\ request \in loads /\ up
  /\ loads' = loads \ {request}
  /\ LET page == PositionPage(stored, request.wallet, request.cursor)
         append == request.cursor # Newest /\ portfolio.shown.loaded
     IN IF ~Current(request)
        THEN UNCHANGED <<portfolio, origin, steady, ever>>
        ELSE /\ portfolio' =
                  [portfolio EXCEPT
                     !.shown = [rows |-> IF append THEN @.rows \o page.rows ELSE page.rows,
                                loaded |-> TRUE],
                     !.next = page.next]
             /\ IF append THEN UNCHANGED <<origin, steady, ever>>
                ELSE /\ origin' = rollbacks
                     /\ steady' = Held(stored, request.wallet)
                     /\ ever' = Held(stored, request.wallet)
  /\ UNCHANGED <<chainVars, view, boardVars, outrun>>

\* An error leaves the positions as they are.
PositionsFail(request) ==
  /\ request \in loads /\ ~up
  /\ loads' = loads \ {request}
  /\ UNCHANGED <<chainVars, view, boardVars, portfolio, origin, steady, ever, outrun>>

-----------------------------------------------------------------------------

FeedInit ==
  /\ stored = <<>> /\ holders = [t \in Tokens |-> {}] /\ transfers = 0
  /\ cached = <<>> /\ up = TRUE /\ rollbacks = 0
  /\ view \in {"board", "portfolio"}
  /\ hidden = FALSE /\ due = TRUE /\ ask = NoAsk /\ polled = 0
  /\ board = [tokens |-> <<>>, deepest |-> Unset, pages |-> 1, older |-> FALSE]
  /\ \E w \in Accounts :
       /\ portfolio = [account |-> w, shown |-> Nothing, next |-> End, ref |-> 1]
       /\ loads = IF view = "portfolio" THEN {[id |-> 1, wallet |-> w, cursor |-> Newest]}
                                        ELSE {}
  /\ origin = 0 /\ steady = {} /\ ever = {} /\ outrun = FALSE

FeedNext ==
  \/ Index \/ Transfer \/ Rollback \/ CacheExpires \/ Availability
  \/ Refresh \/ PageAnswered \/ RequestFails \/ Hide \/ Show \/ LoadMore \/ TimePasses
  \/ SwitchAccount \/ Ask
  \/ \E request \in loads : PositionsAnswered(request) \/ PositionsFail(request)

\* The tab keeps polling and the clock running, the cache runs out, and a server
\* that stays up answers.
FeedFairness ==
  /\ WF_feedVars(Refresh) /\ WF_feedVars(PageAnswered) /\ WF_feedVars(RequestFails)
  /\ WF_feedVars(TimePasses) /\ WF_feedVars(CacheExpires)

FeedSpec == FeedInit /\ [][FeedNext]_feedVars
FairFeedSpec == FeedSpec /\ FeedFairness

-----------------------------------------------------------------------------
(* Properties.                                                                *)

ShownAt == {board.tokens[i].at : i \in 1 .. Len(board.tokens)}

\* As long as the chain only grew, and by no more than a page between two polls
\* or within the life of a cached answer, the board has no hole: between its
\* newest and its oldest launch every launch is shown, and loading more goes on
\* exactly below them, whatever refreshes, revalidations, cached answers, hidden
\* tabs and loads of older pages came in between.
BoardHasNoHole ==
  rollbacks = 0 /\ ~outrun /\ board.tokens # <<>> =>
    \E oldest \in ShownAt :
      /\ \A at \in ShownAt : oldest <= at /\ oldest .. at \subseteq ShownAt
      /\ IF board.deepest = End THEN oldest = 1 ELSE oldest <= board.deepest.at

\* Without a reorganisation since its first page was read, and however positions
\* come and go meanwhile, the portfolio shows no position twice and none that the
\* connected wallet has not had since then, newest first; and it skips none: a
\* position the wallet has had all the time is shown, or is still to come with the
\* next page.  No answer of a superseded request, of another wallet or of an
\* abandoned page gets in.  A position bought above the next page, or sold while it
\* is on show, is put right by a reload only.
NoPositionSkipped ==
  portfolio.shown.loaded /\ rollbacks = origin =>
    LET rows == portfolio.shown.rows
        shown == {rows[i].at : i \in 1 .. Len(rows)}
    IN /\ \A i, j \in 1 .. Len(rows) : i < j => rows[j].at < rows[i].at
       /\ \A i \in 1 .. Len(rows) :
            rows[i].at \in ever /\ rows[i] = Launch(stored, rows[i].at)
       /\ \A b \in steady \ shown : portfolio.next # End /\ b < portfolio.next.at

\* If the tab stays visible and the server up, a board with older pages loaded
\* ends up showing exactly the newest launches of the chain, in order: what
\* reorganisations, bursts of launches and stale cached pages left on it is gone.
BoardSettles ==
  <>[](up /\ ~hidden) =>
    <>[](board.pages > 1 => IsPrefix(board.tokens, NewestFirst(stored)[Blocks(stored)]))
=============================================================================
