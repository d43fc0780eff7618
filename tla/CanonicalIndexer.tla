-------------------------- MODULE CanonicalIndexer --------------------------
(* The canonical indexer: cron and webhook wake-ups that copy a chain which    *)
(* may reorganise into Postgres.  A worker is one invocation of               *)
(* runCanonicalIndexer; every RPC read and every database call it awaits is a *)
(* step of its own, so workers, the chain and the lease interleave between    *)
(* any two of them.  The database functions and the ingest transaction are    *)
(* atomic, as they are in Postgres.                                           *)
EXTENDS MarketTables

CONSTANTS
  Workers,          \* concurrent invocations
  NoWorker,         \* an unheld lease
  Start,            \* the deployment block
  Finality,         \* INDEXER_FINALITY_BLOCKS
  BatchSize,        \* INDEXER_BATCH_SIZE
  MaxBatches,       \* INDEXER_MAX_BATCHES_PER_RUN
  Lookback,         \* INDEXER_REORG_LOOKBACK
  LeaseOutlivesRun, \* TRUE: the lease is not lost while its holder still runs
  LogsIn(_),        \* the protocol's logs in a block
  ForkHeight,       \* ForkHeight[b]: the first height where branch b departs
  MaxHeight,        \* bound: the highest block
  MaxFaults         \* bound: aborted or crashed invocations

ASSUME BoundsAssumption ==
  /\ {Start, Finality, BatchSize, MaxBatches, Lookback} \subseteq Nat \ {0}
  /\ MaxHeight \in Nat /\ MaxFaults \in Nat /\ MaxHeight >= Start

ASSUME ForkAssumption ==
  /\ IsFiniteSet(DOMAIN ForkHeight)
  /\ ForkHeight \in [1 .. Cardinality(DOMAIN ForkHeight) -> Start .. MaxHeight]

ASSUME WorkerAssumption == NoWorker \notin Workers

VARIABLES
  branch,   \* the branch the RPC serves
  head,     \* its head block number
  blocks,   \* chain_blocks
  events,   \* chain_events and the event tables that cascade with them
  tables,   \* the rows the triggers derive from them
  leaders,  \* market_leader_snapshots with its entries, or NoLeaders
  cursor,   \* the row of indexer_cursors, or NoCursor
  lease,    \* the owner of the Redis lease
  worker,   \* the local state of each invocation
  faults    \* invocations aborted or crashed so far

derived == <<tables, leaders>>
db == <<blocks, events, derived, cursor>>
chain == <<branch, head>>
vars == <<branch, head, blocks, events, tables, leaders, cursor, lease, worker, faults>>

-----------------------------------------------------------------------------
(* The chain: branch b > 0 shares the blocks below ForkHeight[b] with the     *)
(* branch before it.  A branch that was abandoned never becomes canonical     *)
(* again; that is the assumption under which the log windows are complete.    *)

Branches == 0 .. Cardinality(DOMAIN ForkHeight)
Heights == Start .. MaxHeight

BlockOn(b, h) ==
  [height |-> h,
   branch |-> Max({0} \cup {c \in 1 .. b : ForkHeight[c] <= h})]

Blocks == {BlockOn(b, h) : b \in Branches, h \in Heights}
NoBlock == [height |-> Start - 1, branch |-> 0]   \* a NULL last processed block

Parent(block) == BlockOn(block.branch, block.height - 1)

\* What eth_getBlockByNumber answers: at most one block per height.
Canonical(h) == {BlockOn(branch, k) : k \in {h} \cap (Start .. head)}

SafeHead == IF head >= Finality THEN head - Finality ELSE 0

\* A decoded log.  A swap has the token amount and, as value, the PIPEDOG amount.
Event(block, l) ==
  [block |-> block, kind |-> l.kind, token |-> l.token, index |-> l.index,
   from |-> l.from, to |-> l.to, amount |-> l.amount, value |-> l.value]
Logs == [b \in Blocks |-> {Event(b, l) : l \in LogsIn(b)}]
\* Swaps and transfers are looked for by pool and token, the rest by contract.
MoveLogs(block) == Of(Logs[block], {"swap", "transfer"})
ContractLogs(block) == Logs[block] \ MoveLogs(block)
Events == UNION {Logs[b] : b \in Blocks}

\* What eth_getLogs answers over a block range.
Window(lo, hi) == UNION {Canonical(h) : h \in lo .. hi}

Launched(S) == {e.token : e \in {x \in S : x.kind = "launch"}}

\* A block has finitely many logs, and amounts are uint256.
ASSUME LogAssumption ==
  \A b \in Blocks : IsFiniteSet(LogsIn(b)) /\ \A l \in LogsIn(b) : l.amount \in Nat

\* On every branch a token launches no later than it first moves.
ASSUME LaunchAssumption ==
  \A b \in Branches, h \in Heights :
    \A e \in MoveLogs(BlockOn(b, h)) :
      \E k \in Start .. h : e.token \in Launched(Logs[BlockOn(b, k)])

-----------------------------------------------------------------------------
(* The database.                                                              *)

NoCursor == [next |-> 0, last |-> NoBlock, seen |-> 0, status |-> "none"]
FreshCursor == [next |-> Start, last |-> NoBlock, seen |-> 0, status |-> "none"]

NoLeaders == [block |-> NoBlock, entries |-> <<>>]

Idle == [pc |-> "off", head |-> 0, next |-> 0, last |-> NoBlock, found |-> {},
         logs |-> {}, watched |-> {}, batches |-> 0, status |-> "none"]

Init ==
  /\ branch = 0
  /\ head \in {Start, Start + Finality} \cap (0 .. MaxHeight)
  /\ blocks = {} /\ events = {} /\ cursor = NoCursor
  /\ tables = <<>> /\ leaders = NoLeaders
  /\ lease = NoWorker
  /\ worker = [w \in Workers |-> Idle]
  /\ faults = 0

AtStep(w, pc) == worker[w].pc = pc
Becomes(w, r) == worker' = [worker EXCEPT ![w] = r]
Goto(w, pc) == Becomes(w, [worker[w] EXCEPT !.pc = pc])

\* A thrown error unwinds to the route's finally block, which releases the lease.
Throw(w) == Becomes(w, [Idle EXCEPT !.pc = "release"])

Last(w) == Min({worker[w].next + BatchSize - 1, worker[w].head})
Fetched(w) == {b.height : b \in worker[w].found}

-----------------------------------------------------------------------------
(* One invocation.                                                            *)

\* acquireIndexerLease: SET NX EX.
Acquire(w) ==
  /\ AtStep(w, "off") /\ lease = NoWorker
  /\ lease' = w
  /\ Goto(w, "pin")
  /\ UNCHANGED <<chain, db, faults>>

\* runCanonicalIndexer pins the safe head once for all of its batches.
PinSafeHead(w) ==
  /\ AtStep(w, "pin")
  /\ Becomes(w, [worker[w] EXCEPT !.pc = "cursor", !.head = SafeHead])
  /\ UNCHANGED <<chain, db, lease, faults>>

\* Where one sub-batch starts: idle past the safe head, otherwise fetch.
Plan(w, next) ==
  Becomes(w, [worker[w] EXCEPT
    !.pc = IF next > worker[w].head THEN "observe" ELSE "fetch",
    !.status = "caught-up",
    !.next = next, !.last = NoBlock, !.found = {}])

BeforeDeployment(w) ==
  /\ AtStep(w, "cursor") /\ worker[w].head < Start
  /\ Plan(w, Start)
  /\ UNCHANGED <<chain, db, lease, faults>>

InitializeCursor(w) ==
  /\ AtStep(w, "cursor") /\ worker[w].head >= Start
  /\ cursor = NoCursor
  /\ cursor' = FreshCursor
  /\ UNCHANGED <<chain, blocks, events, derived, lease, worker, faults>>

ReadCursor(w) ==
  /\ AtStep(w, "cursor") /\ worker[w].head >= Start
  /\ cursor # NoCursor
  /\ IF cursor.last = NoBlock THEN Plan(w, cursor.next)
     ELSE IF cursor.last.height > worker[w].head THEN Throw(w)
     ELSE Becomes(w, [worker[w] EXCEPT !.pc = "tip", !.next = cursor.next,
                                       !.last = cursor.last])
  /\ UNCHANGED <<chain, db, lease, faults>>

\* repairReorg: is the last processed block still canonical?
CheckTip(w) ==
  /\ AtStep(w, "tip")
  /\ IF worker[w].last \in Canonical(worker[w].last.height)
     THEN Plan(w, worker[w].next)
     ELSE Goto(w, "recent")
  /\ UNCHANGED <<chain, db, lease, faults>>

LoadRecentBlocks(w) ==
  /\ AtStep(w, "recent")
  /\ LET stored == {b \in blocks : b.height <= worker[w].last.height}
     IN Becomes(w, [worker[w] EXCEPT
          !.pc = "probe",
          !.found = {b \in stored :
            Cardinality({c \in stored : c.height >= b.height}) <= Lookback}])
  /\ UNCHANGED <<chain, db, lease, faults>>

Oldest(S) == CHOOSE b \in S : \A c \in S : c.height >= b.height
Newest(S) == CHOOSE b \in S : \A c \in S : c.height <= b.height

\* findCommonAncestor: one canonical read per candidate, newest first.
ProbeAncestor(w) ==
  /\ AtStep(w, "probe")
  /\ IF worker[w].found = {} THEN Throw(w)
     ELSE LET candidate == Newest(worker[w].found)
          IN IF candidate \in Canonical(candidate.height)
             THEN Becomes(w, [worker[w] EXCEPT !.pc = "rollback",
                                               !.last = candidate, !.found = {}])
             ELSE Becomes(w, [worker[w] EXCEPT !.found = @ \ {candidate}])
  /\ UNCHANGED <<chain, db, lease, faults>>

Kept(S, ancestor) == {e \in S : e.block.height <= ancestor.height}

\* The snapshot cascades with its block, the entries with the snapshot.
LeadersAlways(ancestor) == leaders
LeadersAfter(ancestor) ==
  IF leaders.block.height > ancestor.height THEN NoLeaders ELSE leaders

CursorKeepsSeen(ancestor) ==
  [cursor EXCEPT !.next = ancestor.height + 1, !.last = ancestor]
CursorOffByOne(ancestor) ==
  [FreshCursor EXCEPT !.next = ancestor.height, !.last = ancestor]
CursorAfter(ancestor) ==
  [FreshCursor EXCEPT !.next = ancestor.height + 1, !.last = ancestor]

\* The effect of laypipe_rollback_chain once the ancestor is found stored.
RollbackChain(ancestor) ==
  /\ blocks' = {b \in blocks : b.height <= ancestor.height}
  /\ events' = Kept(events, ancestor)
  /\ tables' = Removed(tables, events \ Kept(events, ancestor))
  /\ leaders' = LeadersAfter(ancestor)
  /\ cursor' = IF cursor.last.height > ancestor.height
               THEN CursorAfter(ancestor) ELSE cursor

RollbackAccepted(ancestor) ==
  /\ ancestor \in blocks
  /\ RemovalAccepted(tables, events \ Kept(events, ancestor), Kept(events, ancestor))

Rollback(w) ==
  /\ AtStep(w, "rollback")
  /\ IF RollbackAccepted(worker[w].last)
     THEN RollbackChain(worker[w].last) /\ Goto(w, "reread")
     ELSE Throw(w) /\ UNCHANGED db
  /\ UNCHANGED <<chain, lease, faults>>

RereadCursor(w) ==
  /\ AtStep(w, "reread")
  /\ IF cursor.last.height > worker[w].head THEN Throw(w)
     ELSE Plan(w, cursor.next)
  /\ UNCHANGED <<chain, db, lease, faults>>

\* mapConcurrent loads the blocks of the window in any order.
FetchBlock(w) ==
  /\ AtStep(w, "fetch")
  /\ \E h \in (worker[w].next .. Last(w)) \ Fetched(w) :
       IF Canonical(h) = {} THEN Throw(w)
       ELSE Becomes(w, [worker[w] EXCEPT !.found = @ \cup Canonical(h)])
  /\ UNCHANGED <<chain, db, lease, faults>>

\* parseRpcLog: every log must belong to a block of the fetched window.
Accept(w, logs, pc) ==
  IF \A e \in logs : e.block \in worker[w].found
  THEN Becomes(w, [worker[w] EXCEPT !.pc = pc, !.logs = @ \cup logs])
  ELSE Throw(w)

QueryContracts(w) ==
  /\ AtStep(w, "fetch")
  /\ Fetched(w) = worker[w].next .. Last(w)
  /\ Accept(w, UNION {ContractLogs(b) : b \in Window(worker[w].next, Last(w))},
            "watch")
  /\ UNCHANGED <<chain, db, lease, faults>>

\* Mutant of WatchSet: only the launches of this window.
WatchNew(w) == Launched(worker[w].logs)

\* The watch set: launches already stored and those of this window.
WatchSet(w) == Launched(events) \cup Launched(worker[w].logs)

LoadLaunches(w) ==
  /\ AtStep(w, "watch")
  /\ IF Launched(events) \cap Launched(worker[w].logs) # {} THEN Throw(w)
     ELSE Becomes(w, [worker[w] EXCEPT !.pc = "moves", !.watched = WatchSet(w)])
  /\ UNCHANGED <<chain, db, lease, faults>>

\* decodeHookOperationalEvent refuses a fee of a pool that is not watched.
PoolsKnown(w) ==
  \A e \in Of(worker[w].logs, {"accrued", "swept"}) : e.token \in worker[w].watched

QueryMoves(w) ==
  /\ AtStep(w, "moves")
  /\ IF PoolsKnown(w)
     THEN Accept(w, {e \in UNION {MoveLogs(b) : b \in Window(worker[w].next, Last(w))} :
                       e.token \in worker[w].watched}, "check")
     ELSE Throw(w)
  /\ UNCHANGED <<chain, db, lease, faults>>

\* The tip of the window is read again before the write.
TipUnread(w) == TRUE
TipUnchanged(w) == Canonical(Last(w)) # {} /\ Canonical(Last(w)) \subseteq worker[w].found

CheckWindow(w) ==
  /\ AtStep(w, "check")
  /\ IF TipUnchanged(w) THEN Goto(w, "commit") ELSE Throw(w)
  /\ UNCHANGED <<chain, db, lease, faults>>

\* The immutable-row trigger: an upsert may repeat a stored row, not change it.
RowsUnchanged(w) ==
  /\ \A b \in worker[w].found, c \in blocks : b.height = c.height => b = c
  /\ Launched(worker[w].logs) \cap Launched(events) = {}

\* laypipe_advance_cursor: the compare-and-swap on next_block, and the parent
\* hash of the first block against the cursor's hash.
NextMatches(w) == cursor.next = worker[w].next
ExtendsCursor(w) ==
  /\ cursor.next = worker[w].next
  /\ cursor.last # NoBlock =>
       \A b \in worker[w].found : b.height = worker[w].next => Parent(b) = cursor.last

\* normalizeCanonicalBatch: contiguous blocks, each the parent of the next.
ChainedBatch(S) == \A b, c \in S : c.height = b.height + 1 => Parent(c) = b

Continues(w) ==
  /\ ChainedBatch(worker[w].found)
  /\ RowsUnchanged(w)
  /\ ExtendsCursor(w)

Commits(w) == Continues(w) /\ InsertAccepted(tables, worker[w].logs)

\* After a batch the loop goes on, or ends for one of three reasons.
AfterBatch(w) ==
  LET next == Last(w) + 1
      batches == worker[w].batches + 1
      ends == [Idle EXCEPT !.pc = "observe", !.head = worker[w].head]
  IN IF next > worker[w].head THEN Becomes(w, [ends EXCEPT !.status = "caught-up"])
     ELSE \/ Becomes(w, [ends EXCEPT !.status = "deadline"])
          \/ /\ batches = MaxBatches
             /\ Becomes(w, [ends EXCEPT !.status = "bounded"])
          \/ /\ batches < MaxBatches
             /\ Becomes(w, [ends EXCEPT !.pc = "cursor", !.batches = batches])

Ingest(w) ==
  /\ AtStep(w, "commit")
  /\ IF Commits(w)
     THEN /\ blocks' = blocks \cup worker[w].found
          /\ events' = events \cup worker[w].logs
          /\ tables' = Inserted(tables, worker[w].logs)
          /\ cursor' = [cursor EXCEPT !.next = Last(w) + 1,
                          !.last = Newest(worker[w].found)]
          /\ AfterBatch(w)
     ELSE Throw(w) /\ UNCHANGED <<blocks, events, tables, cursor>>
  /\ UNCHANGED <<chain, leaders, lease, faults>>

ObservableOnce(w) ==
  /\ cursor # NoCursor
  /\ cursor.last = NoBlock \/ cursor.last.height <= worker[w].head
  /\ cursor.status # "none" => cursor.seen < worker[w].head

\* laypipe_runtime_record_observation; a rejected one is thrown.  Observation
\* times are taken to be ordered as the observations are.
Observable(w) ==
  /\ cursor # NoCursor
  /\ cursor.last = NoBlock \/ cursor.last.height <= worker[w].head
  /\ cursor.status # "none" => cursor.seen <= worker[w].head

\* The trigger on a caught-up observation refreshes the leaders, unless it did
\* within the last minute.
RefreshLeaders(w) ==
  IF worker[w].status # "caught-up" \/ cursor.last = NoBlock THEN UNCHANGED leaders
  ELSE \/ leaders' = [block |-> cursor.last, entries |-> Leaders(events, cursor.last)]
       \/ leaders # NoLeaders /\ UNCHANGED leaders

RecordObservation(w) ==
  /\ AtStep(w, "observe")
  /\ IF Observable(w)
     THEN /\ cursor' = [cursor EXCEPT !.seen = worker[w].head,
                                      !.status = worker[w].status]
          /\ RefreshLeaders(w)
     ELSE UNCHANGED <<cursor, leaders>>
  /\ Throw(w)
  /\ UNCHANGED <<chain, blocks, events, tables, lease, faults>>

\* Compare-and-delete: only the owner's own lease goes.
Release(w) ==
  /\ AtStep(w, "release")
  /\ lease' = IF lease = w THEN NoWorker ELSE lease
  /\ Becomes(w, Idle)
  /\ UNCHANGED <<chain, db, faults>>

-----------------------------------------------------------------------------
(* Failures and the environment.                                              *)

Running(w) == worker[w].pc \notin {"off", "release"}

\* An RPC, Redis or database call fails or times out, or the deadline passes
\* before the first batch: the error unwinds to the release of the lease.  The
\* write a failed call carried may have landed or not.
Abort(w) ==
  /\ Running(w) /\ faults < MaxFaults
  /\ faults' = faults + 1
  /\ Throw(w)
  /\ UNCHANGED <<chain, db, lease>>

\* The function instance dies, or its call to release the lease is lost.
Crash(w) ==
  /\ ~AtStep(w, "off") /\ faults < MaxFaults
  /\ faults' = faults + 1
  /\ Becomes(w, Idle)
  /\ UNCHANGED <<chain, db, lease>>

LeaseExpires ==
  /\ lease # NoWorker
  /\ LeaseOutlivesRun => AtStep(lease, "off")
  /\ lease' = NoWorker
  /\ UNCHANGED <<chain, db, worker, faults>>

Grow ==
  /\ head < MaxHeight
  /\ head' = head + 1
  /\ UNCHANGED <<branch, db, lease, worker, faults>>

\* The next branch takes over; it may still be one block shorter.
Reorg ==
  /\ branch + 1 \in DOMAIN ForkHeight
  /\ ForkHeight[branch + 1] <= head
  /\ branch' = branch + 1
  /\ head' \in {head - 1, head}
  /\ UNCHANGED <<db, lease, worker, faults>>

Step(w) ==
  \/ PinSafeHead(w)
  \/ BeforeDeployment(w) \/ InitializeCursor(w) \/ ReadCursor(w)
  \/ CheckTip(w) \/ LoadRecentBlocks(w) \/ ProbeAncestor(w)
  \/ Rollback(w) \/ RereadCursor(w)
  \/ FetchBlock(w) \/ QueryContracts(w) \/ LoadLaunches(w) \/ QueryMoves(w)
  \/ CheckWindow(w) \/ Ingest(w)
  \/ RecordObservation(w) \/ Release(w)

Next ==
  \/ \E w \in Workers : Acquire(w) \/ Step(w) \/ Abort(w) \/ Crash(w)
  \/ LeaseExpires
  \/ Grow
  \/ Reorg

\* Wake-ups keep coming, a started invocation goes on, an abandoned lease
\* expires and the chain grows.  Nothing makes a call fail or a reorg happen.
Fairness ==
  /\ \A w \in Workers : WF_vars(Step(w))
  /\ WF_vars(\E w \in Workers : Acquire(w))
  /\ WF_vars(LeaseExpires)
  /\ WF_vars(Grow)

Spec == Init /\ [][Next]_vars
FairSpec == Spec /\ Fairness

-----------------------------------------------------------------------------
(* Properties.                                                                *)

Pcs == {"off", "pin", "cursor", "tip", "recent", "probe", "rollback", "reread",
        "fetch", "watch", "moves", "check", "commit", "observe", "release"}
Statuses == {"none", "caught-up", "bounded", "deadline"}

\* Types, with the CHECK constraints of indexer_cursors.
TypeOK ==
  /\ branch \in Branches /\ head \in 0 .. MaxHeight
  /\ blocks \subseteq Blocks /\ events \subseteq Events
  /\ \A k \in DOMAIN tables : tables[k] \in Nat \ {0}
  /\ leaders.block \in Blocks \cup {NoBlock}
  /\ cursor = NoCursor \/
     /\ cursor \in [next : Start .. MaxHeight + 1, last : Blocks \cup {NoBlock},
                    seen : 0 .. MaxHeight, status : Statuses]
     /\ cursor.next = cursor.last.height + 1
  /\ lease \in Workers \cup {NoWorker}
  /\ \A w \in Workers :
       /\ worker[w].pc \in Pcs /\ worker[w].status \in Statuses
       /\ worker[w].found \subseteq Blocks /\ worker[w].logs \subseteq Events
  /\ faults \in 0 .. MaxFaults

\* The stored blocks are one parent-linked run from the deployment block to the
\* cursor, whose hash is the hash of the last of them: no overlap of workers, no
\* reorg between two reads and no stale rollback leaves a gap, a foreign branch
\* in the middle, or a cursor that disagrees with chain_blocks.
StoredChain ==
  /\ \A b, c \in blocks : b.height = c.height => b = c
  /\ {b.height : b \in blocks} = IF cursor = NoCursor THEN {}
                                 ELSE Start .. cursor.next - 1
  /\ \A b \in blocks : b.height > Start => Parent(b) \in blocks
  /\ blocks # {} => cursor.last \in blocks

\* The derived rows are the totals of the stored events, and only those that are
\* not zero exist: reorgs, refused batches and overlapping workers leave no
\* holder, trade count, pending fee or keeper reward that the chain does not have.
ProjectionsExact ==
  tables = NonZero(Deltas(events))

\* The leaders on show name a stored block and are the ranking at that block, so
\* none of them is a launch, and none rests on a trade, that a reorg removed.
LeadersHold ==
  leaders # NoLeaders =>
    /\ leaders.block \in blocks
    /\ leaders.entries = Leaders({e \in events : e.block.height <= leaders.block.height},
                                 leaders.block)

\* The gate of the reconciliation: what it demands of a pinned block before it
\* compares indexed totals with the contracts.
Reconcilable(h) ==
  /\ cursor # NoCursor /\ Start <= h /\ h <= SafeHead
  /\ cursor.last.height >= h /\ cursor.seen >= h
  /\ Canonical(h) \cap blocks # {}

\* A block that passes the gate has, with all blocks below it, exactly the events
\* of the canonical chain: batches read through reorgs drop no log of an old or a
\* new launch.  It takes the exclusive lease: without it an invocation may read
\* the watch set while another has rolled a launch back.
GateMeansCanonical ==
  \A h \in Heights : Reconcilable(h) =>
    {e \in events : e.block.height <= h} = UNION {Logs[b] : b \in Window(Start, h)}

\* A batch that continues the stored chain is accepted whenever the totals it
\* leads to are sound: no pool swept more than it accrued, nobody owes tokens.
BatchesAccepted ==
  \A w \in Workers :
    AtStep(w, "commit") /\ Continues(w) /\ Holds(Inserted(tables, worker[w].logs))
      => Commits(w)

\* While the lease is exclusive, a rollback never deletes a block that is on
\* the canonical chain: repairReorg undoes the fork and nothing more.
RollbackSparesCanonical ==
  [][\A b \in blocks \ blocks' : b \notin Canonical(b.height)]_vars

\* A recorded "caught-up" is never older than the cursor it vouches for: readers
\* trust last_run_status, so after a rollback it must not survive, and a run
\* that records it has processed its whole pinned safe head.
CaughtUpTruthful ==
  cursor.status = "caught-up" => cursor.last.height >= cursor.seen \/ cursor.seen < Start

\* Through reorgs, aborted and crashed invocations and abandoned leases, the
\* read model ends at the safe head of the canonical chain, with a caught-up
\* observation, and stays there.
CatchesUp ==
  <>[](/\ cursor.last \in Canonical(SafeHead)
       /\ cursor.seen = SafeHead /\ cursor.status = "caught-up")

\* The read model as a sequence of pages: the blocks by height, each with its
\* logs.  Every step of the indexer is a step of IndexedChain or a stutter.
Page(b, S) == [block |-> b, logs |-> S]
FullPage(b) == Page(b, Logs[b])
PageAt(h) ==
  LET b == CHOOSE x \in blocks : x.height = h
  IN Page(b, {e \in events : e.block = b})

IsFirst(p) == p.block.height = Start
IsNext(p, q) == Parent(q.block) = p.block /\ q.block.height = p.block.height + 1

Index == INSTANCE IndexedChain WITH
  Pages <- {FullPage(b) : b \in Blocks},
  First <- IsFirst,
  Follows <- IsNext,
  index <- [i \in 1 .. Cardinality(blocks) |-> PageAt(Start + i - 1)]

\* Readers see a linked chain of complete pages that only ever gains pages at
\* its end or loses a suffix that leaves an ancestor standing.
ImplementsIndexedChain == Index!Spec
=============================================================================
