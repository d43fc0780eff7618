------------------------ MODULE CanonicalIndexer_proofs ------------------------
(***************************************************************************)
(* What the indexer keeps for every number of invocations, every batch     *)
(* size and every chain.  The first invariant, IInv, needs no lease: it    *)
(* says what the database holds, and of each invocation that its window is *)
(* a run of blocks, one per height, and its logs those of these blocks.    *)
(* AloneInv adds what the lease gives, RepairInv what a probe has learnt,  *)
(* and GateInv what a window has read.  TablesOK says that the derived     *)
(* rows are the totals of the stored events.                               *)
(***************************************************************************)
EXTENDS CanonicalIndexer, FiniteSetTheorems, WellFoundedInduction, TLAPS

Reading == {"fetch", "watch", "moves", "check", "commit"}

Tokens == {e.token : e \in Events}

\* The local states of one invocation.
Runs == [pc : Pcs, head : 0 .. MaxHeight, next : 0 .. MaxHeight + 1,
         last : Blocks \cup {NoBlock}, found : SUBSET Blocks, logs : SUBSET Events,
         watched : SUBSET Tokens, batches : Nat, status : Statuses]

LastOf(r) == IF r.next + BatchSize - 1 <= r.head THEN r.next + BatchSize - 1 ELSE r.head

OnePerHeight(S) == \A b, c \in S : b.height = c.height => b = c
Spans(S, lo, hi) == \A h \in lo .. hi : \E b \in S : b.height = h

\* A window that is being read.
WindowOK(r) ==
  /\ Start <= r.next /\ r.next <= r.head
  /\ \A b \in r.found : r.next <= b.height /\ b.height <= LastOf(r)
  /\ OnePerHeight(r.found)
  /\ r.pc # "fetch" => Spans(r.found, r.next, LastOf(r))
  /\ \A e \in r.logs : e.block \in r.found

RunOK(r) ==
  /\ r.pc \in Reading => WindowOK(r)
  /\ r.pc \notin Reading => r.logs = {}
  /\ r.pc = "tip" => Start <= r.next

Cursors == [next : Start .. MaxHeight + 1, last : Blocks \cup {NoBlock},
            seen : 0 .. MaxHeight, status : Statuses]

CursorOK ==
  \/ cursor = NoCursor /\ blocks = {}
  \/ /\ cursor \in Cursors
     /\ cursor.next = cursor.last.height + 1
     /\ blocks = {} => cursor.last = NoBlock
     /\ blocks # {} => cursor.last \in blocks
     /\ \A b \in blocks : b.height < cursor.next
     /\ Spans(blocks, Start, cursor.next - 1)

ChainOK ==
  /\ branch \in Branches /\ head \in 0 .. MaxHeight
  /\ blocks \subseteq Blocks
  /\ OnePerHeight(blocks)
  /\ \A b \in blocks : b.height > Start => Parent(b) \in blocks

EventsOK ==
  /\ events \subseteq Events
  /\ \A e \in events : e.block \in blocks

LeadersOK ==
  /\ leaders.block \in Blocks \cup {NoBlock}
  /\ LeadersHold

WorkersOK ==
  /\ worker \in [Workers -> Runs]
  /\ \A w \in Workers : RunOK(worker[w])
  /\ \A w \in Workers : worker[w].pc = "reread" => cursor # NoCursor

IInv == ChainOK /\ CursorOK /\ EventsOK /\ LeadersOK /\ WorkersOK

-----------------------------------------------------------------------------
(* Blocks, logs and the last height of a window.                             *)

LEMMA Bounds ==
  /\ Start \in Nat \ {0} /\ BatchSize \in Nat \ {0} /\ Finality \in Nat \ {0}
  /\ MaxHeight \in Nat /\ MaxHeight >= Start
  BY BoundsAssumption

LEMMA HeightOfBlockOn ==
  ASSUME NEW b, NEW h
  PROVE  BlockOn(b, h).height = h
  BY DEF BlockOn

LEMMA BlockFacts ==
  ASSUME NEW b \in Blocks
  PROVE  b.height \in Start .. MaxHeight /\ Parent(b).height = b.height - 1
  BY HeightOfBlockOn DEF Blocks, Heights, Parent

LEMMA NoBlockFacts == NoBlock.height = Start - 1 /\ NoBlock \notin Blocks
  BY Bounds, BlockFacts DEF NoBlock

LEMMA CanonicalFacts ==
  ASSUME ChainOK, NEW h
  PROVE  /\ \A b \in Canonical(h) : b \in Blocks /\ b.height = h
         /\ \A b, c \in Canonical(h) : b = c
  BY Bounds, HeightOfBlockOn DEF Canonical, Blocks, Heights, ChainOK

LEMMA WindowFacts ==
  ASSUME ChainOK, NEW lo, NEW hi
  PROVE  Window(lo, hi) \subseteq Blocks
  BY CanonicalFacts DEF Window

LEMMA LogFacts ==
  ASSUME NEW b \in Blocks
  PROVE  /\ ContractLogs(b) \subseteq Events /\ MoveLogs(b) \subseteq Events
         /\ \A e \in Logs[b] : e.block = b
  BY DEF Logs, Events, ContractLogs, MoveLogs, Of, Event

LEMMA LastFacts ==
  ASSUME WorkersOK, NEW w \in Workers
  PROVE  Last(w) = LastOf(worker[w])
  <1>1. worker[w].next \in Int /\ worker[w].head \in Int /\ BatchSize \in Int
    BY Bounds DEF WorkersOK, Runs
  <1>2. ASSUME NEW a \in Int, NEW b \in Int
        PROVE  Min({a, b}) = IF a <= b THEN a ELSE b
    BY DEF Min
  <1> QED  BY <1>1, <1>2 DEF Last, LastOf

LEMMA ForkCount == Cardinality(DOMAIN ForkHeight) \in Nat
  BY ForkAssumption, FS_CardinalityType

LEMMA CursorFacts ==
  ASSUME CursorOK, cursor # NoCursor
  PROVE  cursor \in Cursors
  BY DEF CursorOK

-----------------------------------------------------------------------------
(* Steps that change one invocation and not the database.                    *)

LEMMA InitInv == Init => IInv
  <1> SUFFICES ASSUME Init PROVE IInv
    OBVIOUS
  <1> USE Bounds DEF Init
  <1>1. ChainOK /\ EventsOK
    <2>1. head \in 0 .. MaxHeight
      OBVIOUS
    <2>2. Cardinality(DOMAIN ForkHeight) \in Nat
      BY ForkCount
    <2> QED  BY <2>1, <2>2 DEF ChainOK, EventsOK, Branches, OnePerHeight
  <1>2. CursorOK /\ LeadersOK
    BY DEF CursorOK, LeadersOK, NoLeaders, LeadersHold
  <1>3. WorkersOK
    BY DEF WorkersOK, Runs, RunOK, Idle, Pcs, Statuses, Reading
  <1> QED  BY <1>1, <1>2, <1>3 DEF IInv

LEMMA DatabaseStays ==
  ASSUME IInv, UNCHANGED <<chain, db>>
  PROVE  ChainOK' /\ CursorOK' /\ EventsOK' /\ LeadersOK'
  BY DEF IInv, chain, db, derived, ChainOK, CursorOK, EventsOK, LeadersOK, LeadersHold,
         OnePerHeight, Spans

LEMMA WorkersAfter ==
  ASSUME WorkersOK, NEW w \in Workers, NEW r \in Runs, RunOK(r), Becomes(w, r),
         cursor # NoCursor => cursor' # NoCursor,
         r.pc = "reread" => cursor' # NoCursor
  PROVE  WorkersOK'
  <1>1. \A v \in Workers : worker'[v] = IF v = w THEN r ELSE worker[v]
    BY DEF WorkersOK, Becomes
  <1>2. worker' \in [Workers -> Runs]
    BY DEF WorkersOK, Becomes
  <1>3. \A v \in Workers : RunOK(worker'[v])
    BY <1>1 DEF WorkersOK
  <1>4. \A v \in Workers : worker'[v].pc = "reread" => cursor' # NoCursor
    BY <1>1 DEF WorkersOK
  <1> QED  BY <1>2, <1>3, <1>4 DEF WorkersOK

LEMMA WorkerStep ==
  ASSUME IInv, NEW w \in Workers, NEW r \in Runs, RunOK(r), Becomes(w, r),
         UNCHANGED <<chain, db>>, r.pc = "reread" => cursor # NoCursor
  PROVE  IInv'
  <1>1. cursor' = cursor
    BY DEF db
  <1> QED  BY <1>1, DatabaseStays, WorkersAfter DEF IInv

LEMMA IdleRuns ==
  ASSUME NEW pc \in Pcs \ (Reading \cup {"tip"}), NEW h \in 0 .. MaxHeight, NEW s \in Statuses,
         NEW n \in Nat
  PROVE  LET r == [Idle EXCEPT !.pc = pc, !.head = h, !.status = s, !.batches = n]
         IN r \in Runs /\ RunOK(r) /\ r.pc = pc
  <1>1. Idle \in Runs /\ Idle.logs = {}
    BY Bounds DEF Idle, Runs, Pcs, Statuses
  <1> DEFINE r == [Idle EXCEPT !.pc = pc, !.head = h, !.status = s, !.batches = n]
  <1>2. r \in Runs
    BY <1>1 DEF Runs
  <1>3. r.logs = {} /\ r.pc = pc
    BY <1>1 DEF Runs
  <1> QED  BY <1>2, <1>3 DEF RunOK

LEMMA ThrowIs ==
  ASSUME NEW w, Throw(w)
  PROVE  /\ [Idle EXCEPT !.pc = "release"] \in Runs
         /\ RunOK([Idle EXCEPT !.pc = "release"])
         /\ Becomes(w, [Idle EXCEPT !.pc = "release"])
         /\ [Idle EXCEPT !.pc = "release"].pc = "release"
  BY Bounds DEF Throw, Idle, Runs, RunOK, Reading, Pcs, Statuses

LEMMA ThrowStep ==
  ASSUME IInv, NEW w \in Workers, Throw(w), UNCHANGED <<chain, db>>
  PROVE  IInv'
  BY ThrowIs, WorkerStep

LEMMA PlanIs ==
  ASSUME IInv, NEW w \in Workers, worker[w].pc \notin Reading,
         NEW n \in Start .. MaxHeight + 1, Plan(w, n)
  PROVE  \E r \in Runs : /\ RunOK(r) /\ Becomes(w, r) /\ r.pc \in {"fetch", "observe"}
  <1> DEFINE r == [worker[w] EXCEPT
                     !.pc = IF n > worker[w].head THEN "observe" ELSE "fetch",
                     !.status = "caught-up",
                     !.next = n, !.last = NoBlock, !.found = {}]
  <1>1. worker[w] \in Runs /\ worker[w].logs = {}
    BY DEF IInv, WorkersOK, RunOK
  <1>2. r \in Runs
    <2> DEFINE pc == IF n > worker[w].head THEN "observe" ELSE "fetch"
    <2>1. pc \in Pcs /\ "caught-up" \in Statuses /\ n \in 0 .. MaxHeight + 1
      BY Bounds DEF Pcs, Statuses
    <2> HIDE DEF pc
    <2>2. [worker[w] EXCEPT !.pc = pc, !.status = "caught-up", !.next = n,
                            !.last = NoBlock, !.found = {}] \in Runs
      BY <1>1, <2>1 DEF Runs
    <2> QED  BY <2>2 DEF pc
  <1>3. RunOK(r)
    BY <1>1, Bounds DEF Runs, RunOK, Reading, WindowOK, OnePerHeight
  <1>4. r.pc \in {"fetch", "observe"}
    BY <1>1 DEF Runs
  <1>5. Becomes(w, r)
    BY DEF Plan
  <1> QED  BY <1>2, <1>3, <1>4, <1>5

LEMMA PlanStep ==
  ASSUME IInv, NEW w \in Workers, worker[w].pc \notin Reading,
         NEW n \in Start .. MaxHeight + 1, Plan(w, n), UNCHANGED <<chain, db>>
  PROVE  IInv'
  <1>1. PICK r \in Runs : RunOK(r) /\ Becomes(w, r) /\ r.pc \in {"fetch", "observe"}
    BY PlanIs
  <1> QED  BY <1>1, WorkerStep

-----------------------------------------------------------------------------
(* One lemma per step of an invocation.                                      *)

LEMMA GotoRuns ==
  ASSUME NEW r \in Runs, NEW pc \in Pcs
  PROVE  LET s == [r EXCEPT !.pc = pc]
         IN /\ s \in Runs /\ s.pc = pc /\ s.next = r.next /\ s.head = r.head
            /\ s.found = r.found /\ s.logs = r.logs
  BY DEF Runs

\* A step on the way to a window, or out of one, without logs.
LEMMA QuietStep ==
  ASSUME IInv, NEW w \in Workers, NEW pc \in Pcs \ (Reading \cup {"tip", "reread"}),
         worker[w].pc \notin Reading, Goto(w, pc), UNCHANGED <<chain, db>>
  PROVE  IInv'
  <1>1. worker[w] \in Runs /\ worker[w].logs = {}
    BY DEF IInv, WorkersOK, RunOK
  <1> DEFINE r == [worker[w] EXCEPT !.pc = pc]
  <1>2. r \in Runs /\ r.pc = pc /\ r.logs = {}
    BY <1>1, GotoRuns
  <1>3. Becomes(w, r)
    BY DEF Goto
  <1> HIDE DEF r
  <1> QED  BY <1>2, <1>3, WorkerStep DEF RunOK

LEMMA AcquireInv ==
  ASSUME IInv, NEW w \in Workers, Acquire(w)
  PROVE  IInv'
  BY QuietStep DEF Acquire, AtStep, Reading, Pcs

LEMMA PinSafeHeadInv ==
  ASSUME IInv, NEW w \in Workers, PinSafeHead(w)
  PROVE  IInv'
  <1>1. SafeHead \in 0 .. MaxHeight
    BY Bounds DEF IInv, ChainOK, SafeHead
  <1>2. worker[w] \in Runs /\ worker[w].logs = {}
    BY DEF IInv, WorkersOK, RunOK, PinSafeHead, AtStep, Reading
  <1> DEFINE r == [worker[w] EXCEPT !.pc = "cursor", !.head = SafeHead]
  <1>3. r \in Runs /\ r.pc = "cursor" /\ r.logs = {}
    BY <1>1, <1>2 DEF Runs, Pcs
  <1>4. Becomes(w, r) /\ UNCHANGED <<chain, db>>
    BY DEF PinSafeHead
  <1> HIDE DEF r
  <1> QED  BY <1>3, <1>4, WorkerStep DEF RunOK, Reading

LEMMA BeforeDeploymentInv ==
  ASSUME IInv, NEW w \in Workers, BeforeDeployment(w)
  PROVE  IInv'
  BY Bounds, PlanStep DEF BeforeDeployment, AtStep, Reading

LEMMA InitializeCursorInv ==
  ASSUME IInv, NEW w \in Workers, InitializeCursor(w)
  PROVE  IInv'
  <1> USE DEF InitializeCursor
  <1>1. ChainOK' /\ EventsOK' /\ LeadersOK'
    BY DEF IInv, chain, derived, ChainOK, EventsOK, LeadersOK, LeadersHold, OnePerHeight
  <1>2. blocks = {}
    BY NoBlockFacts, Bounds DEF IInv, CursorOK, Cursors, NoCursor
  <1>3. FreshCursor \in Cursors /\ FreshCursor.next = Start /\ FreshCursor.last = NoBlock
    BY Bounds DEF FreshCursor, Cursors, Statuses
  <1>4. CursorOK'
    BY <1>2, <1>3, Bounds, NoBlockFacts DEF CursorOK, Spans
  <1>5. cursor' # NoCursor
    BY <1>3, Bounds DEF NoCursor
  <1>6. WorkersOK'
    BY <1>5 DEF IInv, WorkersOK
  <1> QED  BY <1>1, <1>4, <1>6 DEF IInv

LEMMA ReadCursorInv ==
  ASSUME IInv, NEW w \in Workers, ReadCursor(w)
  PROVE  IInv'
  <1>1. cursor \in Cursors /\ UNCHANGED <<chain, db>> /\ worker[w].pc = "cursor"
    BY CursorFacts DEF IInv, ReadCursor, AtStep
  <1>2. CASE cursor.last = NoBlock
    BY <1>1, <1>2, PlanStep DEF ReadCursor, Cursors, Reading
  <1>3. CASE cursor.last # NoBlock /\ cursor.last.height > worker[w].head
    BY <1>1, <1>3, ThrowStep DEF ReadCursor
  <1>4. CASE cursor.last # NoBlock /\ ~(cursor.last.height > worker[w].head)
    <2> DEFINE r == [worker[w] EXCEPT !.pc = "tip", !.next = cursor.next,
                                      !.last = cursor.last]
    <2>1. worker[w] \in Runs /\ worker[w].logs = {}
      BY <1>1 DEF IInv, WorkersOK, RunOK, Reading
    <2>2. cursor.next \in 0 .. MaxHeight + 1 /\ cursor.last \in Blocks \cup {NoBlock}
      BY <1>1, Bounds DEF Cursors
    <2>3. r \in Runs /\ r.pc = "tip" /\ r.logs = {} /\ r.next = cursor.next
      BY <2>1, <2>2 DEF Runs, Pcs
    <2>4. Becomes(w, r)
      BY <1>4 DEF ReadCursor
    <2>5. Start <= r.next
      BY <1>1, <2>3, Bounds DEF Cursors
    <2> HIDE DEF r
    <2> QED  BY <1>1, <2>3, <2>4, <2>5, WorkerStep DEF RunOK, Reading
  <1> QED  BY <1>2, <1>3, <1>4

LEMMA CheckTipInv ==
  ASSUME IInv, NEW w \in Workers, CheckTip(w)
  PROVE  IInv'
  <1>1. worker[w].pc = "tip" /\ UNCHANGED <<chain, db>>
    BY DEF CheckTip, AtStep
  <1>2. worker[w].next \in Start .. MaxHeight + 1
    BY <1>1, Bounds DEF IInv, WorkersOK, RunOK, Runs
  <1>3. CASE Plan(w, worker[w].next)
    BY <1>1, <1>2, <1>3, PlanStep DEF Reading
  <1>4. CASE Goto(w, "recent")
    BY <1>1, <1>4, QuietStep DEF Reading, Pcs
  <1> QED  BY <1>3, <1>4 DEF CheckTip

LEMMA LoadRecentBlocksInv ==
  ASSUME IInv, NEW w \in Workers, LoadRecentBlocks(w)
  PROVE  IInv'
  <1>1. worker[w] \in Runs /\ worker[w].logs = {} /\ UNCHANGED <<chain, db>>
    BY DEF IInv, WorkersOK, RunOK, LoadRecentBlocks, AtStep, Reading
  <1>2. PICK S \in SUBSET blocks :
          Becomes(w, [worker[w] EXCEPT !.pc = "probe", !.found = S])
    BY DEF LoadRecentBlocks
  <1> DEFINE r == [worker[w] EXCEPT !.pc = "probe", !.found = S]
  <1>3. S \in SUBSET Blocks
    BY <1>2 DEF IInv, ChainOK
  <1>4. r \in Runs /\ r.pc = "probe" /\ r.logs = {}
    BY <1>1, <1>3 DEF Runs, Pcs
  <1>5. Becomes(w, r)
    BY <1>2
  <1> HIDE DEF r
  <1> QED  BY <1>1, <1>4, <1>5, WorkerStep DEF RunOK, Reading

LEMMA ProbeAncestorInv ==
  ASSUME IInv, NEW w \in Workers, ProbeAncestor(w)
  PROVE  IInv'
  <1>1. /\ worker[w] \in Runs /\ worker[w].logs = {} /\ UNCHANGED <<chain, db>>
        /\ worker[w].pc = "probe"
    BY DEF IInv, WorkersOK, RunOK, ProbeAncestor, AtStep, Reading
  <1>2. CASE worker[w].found = {}
    BY <1>1, <1>2, ThrowStep DEF ProbeAncestor
  <1>3. ASSUME worker[w].found # {}
        PROVE  IInv'
    <2> DEFINE c == Newest(worker[w].found)
    <2>1. CASE c \in Canonical(c.height)
      <3> DEFINE r == [worker[w] EXCEPT !.pc = "rollback", !.last = c, !.found = {}]
      <3>1. c \in Blocks
        BY <2>1, CanonicalFacts DEF IInv
      <3>2. Becomes(w, r)
        BY <1>3, <2>1 DEF ProbeAncestor
      <3> HIDE DEF c
      <3>3. r \in Runs /\ r.pc = "rollback" /\ r.logs = {}
        BY <1>1, <3>1 DEF Runs, Pcs
      <3> HIDE DEF r
      <3> QED  BY <1>1, <3>2, <3>3, WorkerStep DEF RunOK, Reading
    <2>2. CASE c \notin Canonical(c.height)
      <3> DEFINE r == [worker[w] EXCEPT !.found = @ \ {c}]
      <3>1. Becomes(w, r)
        BY <1>3, <2>2 DEF ProbeAncestor
      <3> HIDE DEF c
      <3>2. r \in Runs /\ r.pc = "probe" /\ r.logs = {}
        BY <1>1 DEF Runs
      <3> HIDE DEF r
      <3> QED  BY <1>1, <3>1, <3>2, WorkerStep DEF RunOK, Reading
    <2> QED  BY <2>1, <2>2
  <1> QED  BY <1>2, <1>3

LEMMA RereadCursorInv ==
  ASSUME IInv, NEW w \in Workers, RereadCursor(w)
  PROVE  IInv'
  <1>1. worker[w].pc = "reread" /\ UNCHANGED <<chain, db>> /\ cursor \in Cursors
    BY CursorFacts DEF RereadCursor, AtStep, IInv, WorkersOK
  <1>2. CASE Throw(w)
    BY <1>1, <1>2, ThrowStep
  <1>3. CASE Plan(w, cursor.next)
    BY <1>1, <1>3, PlanStep DEF Cursors, Reading
  <1> QED  BY <1>2, <1>3 DEF RereadCursor

LEMMA RollbackChainInv ==
  ASSUME IInv, NEW a \in blocks, RollbackChain(a), UNCHANGED chain
  PROVE  /\ ChainOK' /\ CursorOK' /\ EventsOK' /\ LeadersOK'
         /\ cursor # NoCursor /\ cursor' # NoCursor
  <1> USE DEF RollbackChain
  <1>1. a \in Blocks /\ a.height \in Start .. MaxHeight /\ blocks # {}
    BY BlockFacts DEF IInv, ChainOK
  <1>2. /\ cursor \in Cursors /\ cursor.last \in blocks /\ cursor.next = cursor.last.height + 1
        /\ \A b \in blocks : b.height < cursor.next
        /\ Spans(blocks, Start, cursor.next - 1)
    BY <1>1 DEF IInv, CursorOK
  <1>3. cursor.last \in Blocks /\ cursor.last.height \in Start .. MaxHeight
    BY <1>2, BlockFacts DEF IInv, ChainOK
  <1>4. ChainOK'
    <2>1. \A b \in blocks' : b.height > Start => Parent(b) \in blocks'
      <3> SUFFICES ASSUME NEW b \in blocks', b.height > Start
                   PROVE  Parent(b) \in blocks'
        OBVIOUS
      <3>1. b \in blocks /\ b.height <= a.height /\ b \in Blocks
        BY DEF IInv, ChainOK
      <3>2. Parent(b) \in blocks /\ Parent(b).height = b.height - 1
            /\ b.height \in Start .. MaxHeight
        BY <3>1, BlockFacts DEF IInv, ChainOK
      <3>3. Parent(b).height <= a.height
        BY <1>1, <3>1, <3>2, Bounds
      <3> QED  BY <3>2, <3>3
    <2> QED  BY <2>1 DEF IInv, chain, ChainOK, OnePerHeight
  <1>5. EventsOK'
    BY DEF IInv, EventsOK, Kept
  <1>6. ASSUME cursor.last.height > a.height
        PROVE  CursorOK'
    <2>1. cursor' = CursorAfter(a)
      BY <1>6
    <2>2. cursor' \in Cursors /\ cursor'.next = a.height + 1 /\ cursor'.last = a
      <3>1. FreshCursor \in Cursors
        BY Bounds DEF FreshCursor, Cursors, Statuses
      <3>2. a.height + 1 \in Start .. MaxHeight + 1
        BY <1>1, Bounds
      <3>3. CursorAfter(a) \in Cursors /\ CursorAfter(a).next = a.height + 1
            /\ CursorAfter(a).last = a
        BY <1>1, <3>1, <3>2 DEF CursorAfter, Cursors
      <3> QED  BY <2>1, <3>3
    <2>3. a \in blocks' /\ \A b \in blocks' : b.height < cursor'.next
      <3>1. a \in blocks'
        BY <1>1
      <3>2. \A b \in blocks' : b.height \in Int /\ b.height <= a.height
        BY BlockFacts DEF IInv, ChainOK
      <3> QED  BY <1>1, <2>2, <3>1, <3>2
    <2>4. Spans(blocks', Start, cursor'.next - 1)
      <3> SUFFICES ASSUME NEW h \in Start .. a.height
                   PROVE  \E b \in blocks' : b.height = h
        BY <1>1, <2>2, Bounds DEF Spans
      <3>1. h \in Start .. cursor.next - 1 /\ h <= a.height
        BY <1>1, <1>2, <1>3, <1>6, Bounds
      <3>2. PICK b \in blocks : b.height = h
        BY <1>2, <3>1 DEF Spans
      <3> QED  BY <3>1, <3>2
    <2>5. cursor' # NoCursor
      BY <2>2, Bounds, <1>1 DEF NoCursor
    <2>6. cursor'.next = cursor'.last.height + 1 /\ blocks' # {} /\ cursor'.last \in blocks'
      BY <2>2, <2>3
    <2> QED  BY <2>2, <2>3, <2>4, <2>5, <2>6 DEF CursorOK
  <1>7. ASSUME ~(cursor.last.height > a.height)
        PROVE  CursorOK'
    <2>1. blocks' = blocks /\ cursor' = cursor
      <3>1. \A b \in blocks : b.height \in Int /\ b.height < cursor.next
        BY <1>2, BlockFacts DEF IInv, ChainOK
      <3>2. \A b \in blocks : b.height <= a.height
        BY <1>1, <1>2, <1>3, <1>7, <3>1
      <3> QED  BY <1>7, <3>2
    <2> QED  BY <2>1 DEF IInv, CursorOK, Spans
  <1>8. CursorOK'
    BY <1>6, <1>7
  <1>9. LeadersOK'
    <2>1. CASE leaders.block.height > a.height
      BY <2>1 DEF LeadersAfter, LeadersOK, LeadersHold, NoLeaders
    <2>2. CASE ~(leaders.block.height > a.height)
      <3>1. leaders' = leaders
        BY <2>2 DEF LeadersAfter
      <3>2. CASE leaders = NoLeaders
        BY <3>1, <3>2 DEF LeadersOK, LeadersHold, NoLeaders
      <3>3. ASSUME leaders # NoLeaders
            PROVE  LeadersOK'
        <4>1. leaders.block \in blocks /\ leaders.block \in Blocks
              /\ leaders.block.height \in Start .. MaxHeight
          BY <3>3, BlockFacts DEF IInv, LeadersOK, LeadersHold, ChainOK
        <4>2. leaders.block.height <= a.height
          BY <1>1, <2>2, <4>1
        <4>3. \A e \in events : e.block.height \in Int
          BY BlockFacts DEF IInv, EventsOK, ChainOK
        <4>4. {e \in events' : e.block.height <= leaders.block.height}
              = {e \in events : e.block.height <= leaders.block.height}
          BY <1>1, <4>1, <4>2, <4>3 DEF Kept
        <4>5. leaders.block \in blocks'
          BY <4>1, <4>2
        <4> QED  BY <3>1, <3>3, <4>1, <4>4, <4>5 DEF IInv, LeadersOK, LeadersHold
      <3> QED  BY <3>2, <3>3
    <2> QED  BY <2>1, <2>2
  <1>10. cursor # NoCursor /\ cursor' # NoCursor
    <2>1. cursor'.next \in Start .. MaxHeight + 1 /\ cursor.next \in Start .. MaxHeight + 1
      BY <1>1, <1>2, Bounds DEF Cursors, CursorAfter, FreshCursor
    <2> QED  BY <2>1, Bounds DEF NoCursor
  <1> QED  BY <1>4, <1>5, <1>8, <1>9, <1>10

LEMMA RollbackInv ==
  ASSUME IInv, NEW w \in Workers, Rollback(w)
  PROVE  IInv'
  <1>1. CASE RollbackAccepted(worker[w].last)
    <2>1. worker[w].last \in blocks /\ RollbackChain(worker[w].last) /\ UNCHANGED chain
      BY <1>1 DEF Rollback, RollbackAccepted
    <2>2. /\ ChainOK' /\ CursorOK' /\ EventsOK' /\ LeadersOK'
          /\ cursor # NoCursor /\ cursor' # NoCursor
      BY <2>1, RollbackChainInv
    <2> DEFINE r == [worker[w] EXCEPT !.pc = "reread"]
    <2>3. worker[w] \in Runs /\ worker[w].logs = {}
      BY DEF IInv, WorkersOK, RunOK, Rollback, AtStep, Reading
    <2>4. r \in Runs /\ r.pc = "reread" /\ r.logs = {} /\ Becomes(w, r)
      BY <1>1, <2>3, GotoRuns DEF Rollback, Goto, Pcs
    <2> HIDE DEF r
    <2>5. RunOK(r)
      BY <2>4 DEF RunOK, Reading
    <2>6. WorkersOK'
      BY <2>2, <2>4, <2>5, WorkersAfter DEF IInv
    <2> QED  BY <2>2, <2>6 DEF IInv
  <1>2. CASE ~RollbackAccepted(worker[w].last)
    BY <1>2, ThrowStep DEF Rollback
  <1> QED  BY <1>1, <1>2

-----------------------------------------------------------------------------
(* Reading a window.                                                         *)

LEMMA FetchBlockInv ==
  ASSUME IInv, NEW w \in Workers, FetchBlock(w)
  PROVE  IInv'
  <1>1. /\ worker[w] \in Runs /\ WindowOK(worker[w]) /\ worker[w].pc = "fetch"
        /\ UNCHANGED <<chain, db>>
    BY DEF IInv, WorkersOK, RunOK, FetchBlock, AtStep, Reading
  <1>2. PICK h \in (worker[w].next .. Last(w)) \ Fetched(w) :
          IF Canonical(h) = {} THEN Throw(w)
          ELSE Becomes(w, [worker[w] EXCEPT !.found = @ \cup Canonical(h)])
    BY DEF FetchBlock
  <1>3. CASE Canonical(h) = {}
    BY <1>1, <1>2, <1>3, ThrowStep
  <1>4. CASE Canonical(h) # {}
    <2> DEFINE C == Canonical(h)
               r == [worker[w] EXCEPT !.found = @ \cup C]
    <2>1. C \subseteq Blocks /\ (\A b \in C : b.height = h) /\ \A b, c \in C : b = c
      BY CanonicalFacts DEF IInv
    <2>2. Becomes(w, r)
      BY <1>2, <1>4
    <2> HIDE DEF C
    <2>3. /\ r \in Runs /\ r.pc = "fetch" /\ r.found = worker[w].found \cup C
          /\ r.next = worker[w].next /\ r.head = worker[w].head /\ r.logs = worker[w].logs
      BY <1>1, <2>1 DEF Runs
    <2> HIDE DEF r
    <2>4. h \in worker[w].next .. LastOf(worker[w]) /\ h \notin Fetched(w)
      BY LastFacts DEF IInv
    <2>5. LastOf(r) = LastOf(worker[w])
      BY <2>3 DEF LastOf
    <2>6. WindowOK(r)
      <3>1. Start <= r.next /\ r.next <= r.head
        BY <1>1, <2>3 DEF WindowOK
      <3>2. \A b \in r.found : r.next <= b.height /\ b.height <= LastOf(r)
        BY <1>1, <2>1, <2>3, <2>4, <2>5 DEF WindowOK
      <3>3. OnePerHeight(r.found)
        BY <1>1, <2>1, <2>3, <2>4 DEF WindowOK, OnePerHeight, Fetched
      <3>4. \A e \in r.logs : e.block \in r.found
        BY <1>1, <2>3 DEF WindowOK
      <3> QED  BY <2>3, <3>1, <3>2, <3>3, <3>4 DEF WindowOK
    <2> QED  BY <1>1, <2>2, <2>3, <2>6, WorkerStep DEF RunOK, Reading
  <1> QED  BY <1>3, <1>4

\* From a full window to the next step of its reading.
LEMMA AcceptStep ==
  ASSUME IInv, NEW w \in Workers, worker[w].pc \in Reading,
         Spans(worker[w].found, worker[w].next, LastOf(worker[w])),
         NEW logs \in SUBSET Events, NEW pc \in Reading,
         Accept(w, logs, pc), UNCHANGED <<chain, db>>
  PROVE  IInv'
  <1>1. worker[w] \in Runs /\ WindowOK(worker[w])
    BY DEF IInv, WorkersOK, RunOK
  <1>2. CASE Throw(w)
    BY <1>2, ThrowStep
  <1>3. ASSUME \A e \in logs : e.block \in worker[w].found,
               Becomes(w, [worker[w] EXCEPT !.pc = pc, !.logs = @ \cup logs])
        PROVE  IInv'
    <2> DEFINE r == [worker[w] EXCEPT !.pc = pc, !.logs = @ \cup logs]
    <2>1. pc \in Pcs
      BY DEF Reading, Pcs
    <2>2. /\ r \in Runs /\ r.pc = pc /\ r.found = worker[w].found
          /\ r.next = worker[w].next /\ r.head = worker[w].head
          /\ r.logs = worker[w].logs \cup logs
      BY <1>1, <2>1 DEF Runs
    <2>3. Becomes(w, r)
      BY <1>3
    <2> HIDE DEF r
    <2>4. LastOf(r) = LastOf(worker[w])
      BY <2>2 DEF LastOf
    <2>5. WindowOK(r)
      BY <1>1, <1>3, <2>2, <2>4 DEF WindowOK
    <2> QED  BY <2>2, <2>3, <2>5, WorkerStep DEF RunOK, Reading
  <1> QED  BY <1>2, <1>3 DEF Accept

LEMMA QueryContractsInv ==
  ASSUME IInv, NEW w \in Workers, QueryContracts(w)
  PROVE  IInv'
  <1> DEFINE W == Window(worker[w].next, Last(w))
             L == UNION {ContractLogs(b) : b \in W}
  <1>1. W \subseteq Blocks
    BY WindowFacts DEF IInv
  <1>2. worker[w].pc = "fetch" /\ Accept(w, L, "watch") /\ UNCHANGED <<chain, db>>
    BY DEF QueryContracts, AtStep
  <1> HIDE DEF W
  <1>3. L \in SUBSET Events
    BY <1>1, LogFacts
  <1> HIDE DEF L
  <1>4. Spans(worker[w].found, worker[w].next, LastOf(worker[w]))
    BY LastFacts DEF QueryContracts, Fetched, Spans, IInv
  <1> QED  BY <1>2, <1>3, <1>4, AcceptStep DEF Reading

\* What is known of a window after its blocks have been fetched.
LEMMA FullWindow ==
  ASSUME IInv, NEW w \in Workers, worker[w].pc \in Reading \ {"fetch"}
  PROVE  /\ worker[w] \in Runs /\ WindowOK(worker[w])
         /\ Spans(worker[w].found, worker[w].next, LastOf(worker[w]))
  BY DEF IInv, WorkersOK, RunOK, WindowOK

\* A step of the reading that leaves the window alone.
LEMMA WindowStep ==
  ASSUME IInv, NEW w \in Workers, worker[w].pc \in Reading \ {"fetch"},
         NEW pc \in Reading, NEW T \in SUBSET Tokens,
         Becomes(w, [worker[w] EXCEPT !.pc = pc, !.watched = T]), UNCHANGED <<chain, db>>
  PROVE  IInv'
  <1> DEFINE r == [worker[w] EXCEPT !.pc = pc, !.watched = T]
  <1>1. pc \in Pcs
    BY DEF Reading, Pcs
  <1>2. /\ r \in Runs /\ r.pc = pc /\ r.found = worker[w].found
        /\ r.next = worker[w].next /\ r.head = worker[w].head
        /\ r.logs = worker[w].logs
    BY <1>1, FullWindow DEF Runs
  <1> HIDE DEF r
  <1>3. WindowOK(r)
    BY <1>2, FullWindow DEF WindowOK, LastOf
  <1>4. RunOK(r)
    BY <1>2, <1>3 DEF RunOK, Reading
  <1>5. r.pc # "reread" /\ Becomes(w, r)
    BY <1>2 DEF Reading, r
  <1> QED  BY <1>2, <1>4, <1>5, WorkerStep

LEMMA LoadLaunchesInv ==
  ASSUME IInv, NEW w \in Workers, LoadLaunches(w)
  PROVE  IInv'
  <1>1. worker[w].pc = "watch" /\ UNCHANGED <<chain, db>>
    BY DEF LoadLaunches, AtStep
  <1>2. CASE Throw(w)
    BY <1>1, <1>2, ThrowStep
  <1>3. CASE Becomes(w, [worker[w] EXCEPT !.pc = "moves", !.watched = WatchSet(w)])
    <2>1. WatchSet(w) \in SUBSET Tokens
      BY DEF WatchSet, Launched, Tokens, IInv, EventsOK, WorkersOK, Runs
    <2> QED  BY <1>1, <1>3, <2>1, WindowStep DEF Reading
  <1> QED  BY <1>2, <1>3 DEF LoadLaunches

LEMMA QueryMovesInv ==
  ASSUME IInv, NEW w \in Workers, QueryMoves(w)
  PROVE  IInv'
  <1> DEFINE W == Window(worker[w].next, Last(w))
             L == {e \in UNION {MoveLogs(b) : b \in W} : e.token \in worker[w].watched}
  <1>1. worker[w].pc = "moves" /\ UNCHANGED <<chain, db>>
    BY DEF QueryMoves, AtStep
  <1>2. CASE Throw(w)
    BY <1>1, <1>2, ThrowStep
  <1>3. CASE Accept(w, L, "check")
    <2>1. W \subseteq Blocks
      BY WindowFacts DEF IInv
    <2> HIDE DEF W
    <2>2. L \in SUBSET Events
      BY <2>1, LogFacts
    <2> HIDE DEF L
    <2>3. worker[w].pc \in Reading \ {"fetch"}
      BY <1>1 DEF Reading
    <2> QED  BY <1>1, <1>3, <2>2, <2>3, FullWindow, AcceptStep DEF Reading
  <1> QED  BY <1>2, <1>3 DEF QueryMoves

LEMMA CheckWindowInv ==
  ASSUME IInv, NEW w \in Workers, CheckWindow(w)
  PROVE  IInv'
  <1>1. worker[w].pc = "check" /\ UNCHANGED <<chain, db>>
    BY DEF CheckWindow, AtStep
  <1>2. CASE Throw(w)
    BY <1>1, <1>2, ThrowStep
  <1>3. CASE Goto(w, "commit")
    <2>1. worker[w].pc \in Reading \ {"fetch"}
      BY <1>1 DEF Reading
    <2>2. worker[w] \in Runs /\ worker[w].watched \in SUBSET Tokens
      BY <2>1, FullWindow DEF Runs
    <2>3. [worker[w] EXCEPT !.pc = "commit", !.watched = worker[w].watched]
          = [worker[w] EXCEPT !.pc = "commit"]
      BY <2>2 DEF Runs
    <2> QED  BY <1>1, <1>3, <2>1, <2>2, <2>3, WindowStep DEF Goto, Reading
  <1> QED  BY <1>2, <1>3 DEF CheckWindow

-----------------------------------------------------------------------------
(* The write.                                                                *)

LEMMA NewestOfWindow ==
  ASSUME NEW r \in Runs, WindowOK(r), r.pc # "fetch"
  PROVE  Newest(r.found) \in r.found /\ Newest(r.found).height = LastOf(r)
  <1>1. LastOf(r) \in r.next .. LastOf(r) /\ LastOf(r) \in Nat
    BY Bounds DEF WindowOK, LastOf, Runs
  <1>2. PICK t \in r.found : t.height = LastOf(r)
    BY <1>1 DEF WindowOK, Spans
  <1>3. \A b \in r.found : b.height \in Nat /\ b.height <= LastOf(r)
    BY BlockFacts, Bounds DEF WindowOK, Runs
  <1>4. \A b \in r.found : t.height >= b.height
    BY <1>1, <1>2, <1>3
  <1>5. /\ Newest(r.found) \in r.found
        /\ \A b \in r.found : b.height <= Newest(r.found).height
    BY <1>2, <1>4 DEF Newest
  <1> QED  BY <1>1, <1>2, <1>3, <1>5

\* The batch of a window that continues the stored chain, with its logs.
Appends(r) ==
  /\ ChainedBatch(r.found)
  /\ cursor.next = r.next
  /\ cursor.last # NoBlock => \A b \in r.found : b.height = r.next => Parent(b) = cursor.last
  /\ blocks' = blocks \cup r.found
  /\ events' = events \cup r.logs
  /\ cursor' = [cursor EXCEPT !.next = LastOf(r) + 1, !.last = Newest(r.found)]
  /\ leaders' = leaders
  /\ UNCHANGED chain

LEMMA AppendsInv ==
  ASSUME IInv, NEW r \in Runs, WindowOK(r), r.pc # "fetch", Appends(r)
  PROVE  /\ ChainOK' /\ CursorOK' /\ EventsOK' /\ LeadersOK'
         /\ cursor # NoCursor /\ cursor' # NoCursor
  <1> DEFINE F == r.found
             L == LastOf(r)
             n == r.next
  <1>1. /\ F \subseteq Blocks /\ OnePerHeight(F) /\ Spans(F, n, L)
        /\ \A b \in F : b.height \in Nat /\ n <= b.height /\ b.height <= L
    BY BlockFacts, Bounds DEF WindowOK, Runs
  <1>2. n \in Nat /\ L \in Nat /\ Start <= n /\ n <= L /\ L <= MaxHeight
    BY Bounds DEF WindowOK, LastOf, Runs
  <1>3. Newest(F) \in F /\ Newest(F).height = L
    BY NewestOfWindow
  <1>4. /\ cursor # NoCursor /\ cursor \in Cursors /\ cursor.next = n
        /\ cursor.next = cursor.last.height + 1
        /\ blocks = {} => cursor.last = NoBlock
        /\ blocks # {} => cursor.last \in blocks
        /\ \A b \in blocks : b.height < n
        /\ Spans(blocks, Start, n - 1)
    <2>1. cursor.next = n /\ cursor # NoCursor
      BY <1>2, Bounds DEF Appends, NoCursor
    <2> QED  BY <2>1 DEF IInv, CursorOK
  <1>5. /\ blocks \subseteq Blocks /\ OnePerHeight(blocks)
        /\ (\A b \in blocks : b.height > Start => Parent(b) \in blocks)
        /\ \A b \in blocks : b.height \in Nat
    BY BlockFacts, Bounds DEF IInv, ChainOK
  <1>6. /\ ChainedBatch(F) /\ blocks' = blocks \cup F
        /\ cursor.last # NoBlock => \A b \in F : b.height = n => Parent(b) = cursor.last
        /\ cursor' = [cursor EXCEPT !.next = L + 1, !.last = Newest(F)]
        /\ leaders' = leaders /\ events' = events \cup r.logs
    BY DEF Appends
  <1>7. \A e \in r.logs : e \in Events /\ e.block \in F
    BY DEF WindowOK, Runs
  <1>a. UNCHANGED chain
    BY DEF Appends
  <1> HIDE DEF F, L, n
  <1>8. ChainOK'
    <2>1. OnePerHeight(blocks')
      BY <1>1, <1>2, <1>4, <1>5, <1>6 DEF OnePerHeight
    <2>2. ASSUME NEW b \in F, b.height > Start
          PROVE  Parent(b) \in blocks \cup F
      <3>1. CASE b.height = n
        <4>1. blocks # {}
          <5>1. Start \in Start .. n - 1
            BY <1>2, <2>2, <3>1, Bounds
          <5> QED  BY <1>4, <5>1 DEF Spans
        <4>2. cursor.last \in blocks /\ cursor.last # NoBlock
          BY <1>4, <1>5, <4>1, NoBlockFacts
        <4> QED  BY <1>6, <2>2, <3>1, <4>2
      <3>2. CASE b.height # n
        <4>1. b.height - 1 \in n .. L
          BY <1>1, <1>2, <2>2, <3>2
        <4>2. PICK c \in F : c.height = b.height - 1
          BY <1>1, <4>1 DEF Spans
        <4>3. b.height = c.height + 1
          BY <1>1, <2>2, <4>2
        <4>4. Parent(b) = c
          BY <1>6, <2>2, <4>3 DEF ChainedBatch
        <4> QED  BY <4>4
      <3> QED  BY <3>1, <3>2
    <2>3. \A b \in blocks' : b.height > Start => Parent(b) \in blocks'
      BY <1>5, <1>6, <2>2
    <2> QED  BY <1>1, <1>5, <1>6, <1>a, <2>1, <2>3 DEF IInv, ChainOK, chain
  <1>9. /\ cursor' \in Cursors /\ cursor'.next = L + 1 /\ cursor'.last = Newest(F)
    <2>1. L + 1 \in Start .. MaxHeight + 1 /\ Newest(F) \in Blocks
      BY <1>1, <1>2, <1>3, Bounds
    <2> QED  BY <1>4, <1>6, <2>1 DEF Cursors
  <1>10. cursor' # NoCursor
    BY <1>2, <1>9, Bounds DEF NoCursor
  <1>11. CursorOK'
    <2>1. \A b \in blocks' : b.height < cursor'.next
      BY <1>1, <1>2, <1>4, <1>5, <1>6, <1>9
    <2>2. ASSUME NEW h \in Start .. L
          PROVE  \E b \in blocks' : b.height = h
      <3>1. CASE h < n
        <4>1. h \in Start .. n - 1
          BY <1>2, <3>1, Bounds
        <4> QED  BY <1>4, <1>6, <4>1 DEF Spans
      <3>2. CASE ~(h < n)
        <4>1. h \in n .. L
          BY <1>2, <3>2, Bounds
        <4> QED  BY <1>1, <1>6, <4>1 DEF Spans
      <3> QED  BY <3>1, <3>2
    <2>3. Spans(blocks', Start, cursor'.next - 1)
      BY <1>2, <1>9, <2>2 DEF Spans
    <2>4. cursor'.last \in blocks' /\ cursor'.next = cursor'.last.height + 1
      BY <1>3, <1>6, <1>9
    <2> QED  BY <1>9, <2>1, <2>3, <2>4 DEF CursorOK
  <1>12. EventsOK'
    BY <1>6, <1>7 DEF IInv, EventsOK
  <1>13. LeadersOK'
    <2>1. CASE leaders = NoLeaders
      BY <1>6, <2>1 DEF LeadersOK, LeadersHold, NoLeaders
    <2>2. ASSUME leaders # NoLeaders
          PROVE  LeadersOK'
      <3>1. leaders.block \in blocks
        BY <2>2 DEF IInv, LeadersOK, LeadersHold
      <3>2. leaders.block.height \in Nat /\ leaders.block.height < n
        BY <1>4, <1>5, <3>1
      <3>3. \A e \in r.logs : ~(e.block.height <= leaders.block.height)
        BY <1>1, <1>2, <1>7, <3>2
      <3>4. {e \in events' : e.block.height <= leaders.block.height}
            = {e \in events : e.block.height <= leaders.block.height}
        BY <1>6, <3>3
      <3> QED  BY <1>6, <2>2, <3>1, <3>4 DEF IInv, LeadersOK, LeadersHold
    <2> QED  BY <2>1, <2>2
  <1> QED  BY <1>4, <1>8, <1>10, <1>11, <1>12, <1>13

LEMMA AfterBatchInv ==
  ASSUME IInv, NEW w \in Workers, AfterBatch(w), cursor # NoCursor, cursor' # NoCursor
  PROVE  WorkersOK'
  <1>1. worker[w] \in Runs
    BY DEF IInv, WorkersOK
  <1>2. worker[w].head \in 0 .. MaxHeight /\ worker[w].batches \in Nat
    BY <1>1 DEF Runs
  <1> DEFINE n == worker[w].batches + 1
             ends == [Idle EXCEPT !.pc = "observe", !.head = worker[w].head]
             After(r) == r \in Runs /\ RunOK(r) /\ r.pc # "reread"
  <1>3. Idle \in Runs /\ Idle.logs = {}
    BY Bounds DEF Idle, Runs, Pcs, Statuses
  <1>4. ends \in Runs /\ ends.logs = {} /\ ends.pc = "observe"
    BY <1>2, <1>3 DEF Runs, Pcs
  <1> HIDE DEF ends
  <1>5. ASSUME NEW s \in Statuses
        PROVE  After([ends EXCEPT !.status = s])
    BY <1>4 DEF Runs, RunOK, Reading
  <1>6. After([ends EXCEPT !.pc = "cursor", !.batches = n])
    <2> DEFINE r == [ends EXCEPT !.pc = "cursor", !.batches = n]
    <2>1. "cursor" \in Pcs /\ n \in Nat
      BY <1>2 DEF Pcs
    <2> HIDE DEF n
    <2>2. r \in Runs /\ r.pc = "cursor" /\ r.logs = {}
      BY <1>4, <2>1 DEF Runs
    <2> HIDE DEF r
    <2>3. After(r)
      BY <2>2 DEF RunOK, Reading
    <2> QED  BY <2>3 DEF r
  <1>7. /\ After([ends EXCEPT !.status = "caught-up"])
        /\ After([ends EXCEPT !.status = "deadline"])
        /\ After([ends EXCEPT !.status = "bounded"])
    BY <1>5 DEF Statuses
  <1>8. \E r : After(r) /\ Becomes(w, r)
    BY <1>6, <1>7 DEF AfterBatch, ends
  <1> QED  BY <1>8, WorkersAfter DEF IInv

LEMMA IngestInv ==
  ASSUME IInv, NEW w \in Workers, Ingest(w)
  PROVE  IInv'
  <1>1. worker[w].pc = "commit" /\ worker[w] \in Runs /\ WindowOK(worker[w])
    BY FullWindow DEF Ingest, AtStep, Reading
  <1>2. CASE Commits(w)
    <2>1. Last(w) = LastOf(worker[w])
      BY LastFacts DEF IInv
    <2>2. Appends(worker[w]) /\ AfterBatch(w)
      BY <1>2, <2>1 DEF Ingest, Appends, Commits, Continues, ExtendsCursor
    <2>3. /\ ChainOK' /\ CursorOK' /\ EventsOK' /\ LeadersOK'
          /\ cursor # NoCursor /\ cursor' # NoCursor
      BY <1>1, <2>2, AppendsInv
    <2> QED  BY <2>2, <2>3, AfterBatchInv DEF IInv
  <1>3. CASE ~Commits(w)
    BY <1>3, ThrowStep DEF Ingest, db, derived
  <1> QED  BY <1>2, <1>3

\* An observation may change the leaders, and the cursor only in what it saw.
LEMMA RecordObservationInv ==
  ASSUME IInv, NEW w \in Workers, RecordObservation(w)
  PROVE  IInv'
  <1>1. /\ worker[w] \in Runs /\ UNCHANGED <<chain, blocks, events>> /\ Throw(w)
    BY DEF IInv, WorkersOK, RecordObservation
  <1>2. ChainOK' /\ EventsOK'
    BY <1>1 DEF IInv, chain, ChainOK, EventsOK, OnePerHeight
  <1>3. CASE Observable(w)
    <2>1. cursor # NoCursor /\ cursor \in Cursors
      BY <1>3, CursorFacts DEF Observable, IInv
    <2> DEFINE h == worker[w].head
               s == worker[w].status
    <2>2. cursor' = [cursor EXCEPT !.seen = h, !.status = s]
      BY <1>3 DEF RecordObservation
    <2>3. h \in 0 .. MaxHeight /\ s \in Statuses
      BY <1>1 DEF Runs
    <2> HIDE DEF h, s
    <2>4. cursor' \in Cursors /\ cursor'.next = cursor.next /\ cursor'.last = cursor.last
      BY <2>1, <2>2, <2>3 DEF Cursors
    <2>5. CursorOK' /\ cursor' # NoCursor
      <3>1. cursor' # NoCursor
        BY <2>4, Bounds DEF NoCursor, Cursors
      <3> QED  BY <1>1, <2>1, <2>4, <3>1 DEF IInv, CursorOK, Spans
    <2>6. LeadersOK'
      <3>1. CASE UNCHANGED leaders
        BY <1>1, <3>1 DEF IInv, LeadersOK, LeadersHold
      <3>2. CASE leaders' = [block |-> cursor.last, entries |-> Leaders(events, cursor.last)]
                 /\ cursor.last # NoBlock
        <4>1. /\ cursor.last \in blocks /\ cursor.last \in Blocks
              /\ \A b \in blocks : b.height <= cursor.last.height
          <5>1. cursor.last \in blocks /\ cursor.next = cursor.last.height + 1
                /\ \A b \in blocks : b.height < cursor.next /\ b \in Blocks
            BY <2>1, <3>2 DEF IInv, CursorOK, ChainOK
          <5>2. \A b \in blocks : b.height \in Nat
            BY <5>1, BlockFacts, Bounds
          <5> QED  BY <5>1, <5>2
        <4>2. {e \in events : e.block.height <= cursor.last.height} = events
          BY <4>1 DEF IInv, EventsOK
        <4> QED  BY <1>1, <3>2, <4>1, <4>2 DEF LeadersOK, LeadersHold
      <3> QED  BY <1>3, <3>1, <3>2 DEF RecordObservation, RefreshLeaders
    <2>7. WorkersOK'
      BY <1>1, <2>1, <2>5, ThrowIs, WorkersAfter DEF IInv
    <2> QED  BY <1>2, <2>5, <2>6, <2>7 DEF IInv
  <1>4. CASE ~Observable(w)
    <2>1. UNCHANGED <<chain, db>>
      BY <1>4 DEF RecordObservation, db, derived
    <2> QED  BY <1>1, <2>1, ThrowStep
  <1> QED  BY <1>3, <1>4

-----------------------------------------------------------------------------
(* The end of an invocation, and the environment.                            *)

LEMMA IdleStep ==
  ASSUME IInv, NEW w \in Workers, Becomes(w, Idle), UNCHANGED <<chain, db>>
  PROVE  IInv'
  <1>1. Idle \in Runs /\ RunOK(Idle) /\ Idle.pc # "reread"
    BY Bounds DEF Idle, Runs, RunOK, Pcs, Statuses, Reading
  <1> QED  BY <1>1, WorkerStep

LEMMA EnvironmentInv ==
  ASSUME IInv, LeaseExpires \/ Grow \/ Reorg
  PROVE  IInv'
  <1>1. UNCHANGED <<db, worker>>
    BY DEF LeaseExpires, Grow, Reorg
  <1>2. CursorOK' /\ EventsOK' /\ LeadersOK' /\ WorkersOK'
    BY <1>1 DEF IInv, db, derived, CursorOK, EventsOK, LeadersOK, LeadersHold, WorkersOK
  <1>3. branch' \in Branches /\ head' \in 0 .. MaxHeight
    <2>1. CASE LeaseExpires
      BY <2>1 DEF IInv, ChainOK, LeaseExpires, chain
    <2>2. CASE Grow
      BY <2>2, Bounds DEF IInv, ChainOK, Grow
    <2>3. CASE Reorg
      <3>1. branch \in Nat /\ branch + 1 \in 1 .. Cardinality(DOMAIN ForkHeight)
        BY <2>3, ForkAssumption, ForkCount DEF IInv, ChainOK, Reorg, Branches
      <3>2. head \in 1 .. MaxHeight
        BY <2>3, <3>1, ForkAssumption, Bounds DEF IInv, ChainOK, Reorg
      <3>3. head - 1 \in 0 .. MaxHeight /\ head \in 0 .. MaxHeight
        BY <3>2, Bounds
      <3>4. branch' = branch + 1 /\ (head' = head - 1 \/ head' = head)
        BY <2>3 DEF Reorg
      <3>5. branch' \in Branches
        BY <3>1, <3>4, ForkCount DEF Branches
      <3> QED  BY <3>3, <3>4, <3>5
    <2> QED  BY <2>1, <2>2, <2>3
  <1> QED  BY <1>1, <1>2, <1>3 DEF IInv, ChainOK, db, OnePerHeight

LEMMA NextInv ==
  ASSUME IInv, [Next]_vars
  PROVE  IInv'
  <1>1. CASE UNCHANGED vars
    <2>1. UNCHANGED <<chain, db, worker>>
      BY <1>1 DEF vars, chain, db, derived
    <2> QED  BY <2>1, DatabaseStays DEF IInv, WorkersOK, db
  <1>2. ASSUME NEW w \in Workers, Acquire(w) \/ Step(w) \/ Abort(w) \/ Crash(w)
        PROVE  IInv'
    <2>1. CASE Step(w)
      <3>1. CASE Release(w)
        BY <3>1, IdleStep DEF Release
      <3> QED
        BY <2>1, <3>1, PinSafeHeadInv, BeforeDeploymentInv, InitializeCursorInv, ReadCursorInv,
           CheckTipInv, LoadRecentBlocksInv, ProbeAncestorInv, RollbackInv, RereadCursorInv,
           FetchBlockInv, QueryContractsInv, LoadLaunchesInv, QueryMovesInv, CheckWindowInv,
           IngestInv, RecordObservationInv DEF Step
    <2>2. CASE Abort(w)
      BY <2>2, ThrowStep DEF Abort
    <2>3. CASE Crash(w)
      BY <2>3, IdleStep DEF Crash
    <2> QED  BY <1>2, <2>1, <2>2, <2>3, AcquireInv
  <1>3. CASE LeaseExpires \/ Grow \/ Reorg
    BY <1>3, EnvironmentInv
  <1> QED  BY <1>1, <1>2, <1>3 DEF Next

LEMMA Inductive == Spec => []IInv
  <1>1. IInv /\ [Next]_vars => IInv'
    BY NextInv
  <1> QED  BY <1>1, InitInv, PTL DEF Spec

-----------------------------------------------------------------------------
\* For any number of invocations and with no lease at all, chain_blocks is one
\* parent-linked run from the deployment block to the cursor: what the
\* compare-and-swap of laypipe_advance_cursor and the checks of a batch give.
THEOREM BlocksStayLinked == Spec => []StoredChain
  <1>1. ASSUME IInv
        PROVE  StoredChain
    <2>1. CASE cursor = NoCursor /\ blocks = {}
      BY <2>1 DEF StoredChain
    <2>2. ASSUME cursor # NoCursor \/ blocks # {}
          PROVE  StoredChain
      <3>1. /\ cursor \in Cursors
            /\ blocks # {} => cursor.last \in blocks
            /\ \A b \in blocks : b.height < cursor.next
            /\ Spans(blocks, Start, cursor.next - 1)
        BY <1>1, <2>2 DEF IInv, CursorOK
      <3>2. \A b \in blocks : b.height \in Start .. MaxHeight
        BY <1>1, BlockFacts DEF IInv, ChainOK
      <3>3. cursor # NoCursor /\ cursor.next \in Nat
        BY <3>1, Bounds DEF Cursors, NoCursor
      <3>4. \A b \in blocks : b.height \in Start .. cursor.next - 1
        BY <3>1, <3>2, <3>3, Bounds
      <3>5. {b.height : b \in blocks} = Start .. cursor.next - 1
        BY <3>1, <3>4 DEF Spans
      <3> QED  BY <1>1, <3>1, <3>3, <3>5 DEF StoredChain, IInv, ChainOK, OnePerHeight
    <2> QED  BY <2>1, <2>2
  <1> QED  BY <1>1, Inductive, PTL

\* The leaders on show rest on stored blocks and are ranked from stored events,
\* whatever is rolled back under them by whichever invocation.
THEOREM LeadersStayTrue == Spec => []LeadersHold
  <1>1. IInv => LeadersHold
    BY DEF IInv, LeadersOK
  <1> QED  BY <1>1, Inductive, PTL
-----------------------------------------------------------------------------
(* With a lease that outlives its holder, one invocation runs at a time.     *)

Exclusive == \A w \in Workers : worker[w].pc # "off" => lease = w

\* What an invocation believes of the cursor is so.
BeliefHolds(r, c) ==
  /\ r.pc = "tip" => c # NoCursor /\ r.next = c.next
  /\ r.pc = "observe" /\ r.status = "caught-up" =>
       r.head < Start \/ (c # NoCursor /\ r.head < c.next)

AloneInv ==
  /\ Exclusive
  /\ \A w \in Workers : BeliefHolds(worker[w], cursor)
  /\ CaughtUpTruthful

LEMMA AloneInit == Init => AloneInv
  BY DEF Init, Idle, AloneInv, Exclusive, BeliefHolds, CaughtUpTruthful, NoCursor

LEMMA OthersStay ==
  ASSUME WorkersOK, NEW w \in Workers, NEW r, Becomes(w, r)
  PROVE  worker'[w] = r /\ \A v \in Workers : v # w => worker'[v] = worker[v]
  BY DEF WorkersOK, Becomes

\* A step of the invocation that holds the lease: only it can be wrong.
LEMMA AloneStep ==
  ASSUME WorkersOK, AloneInv, NEW w \in Workers, worker[w].pc # "off",
         NEW r, Becomes(w, r), UNCHANGED lease, BeliefHolds(r, cursor'), CaughtUpTruthful'
  PROVE  AloneInv'
  <1>1. lease = w /\ \A v \in Workers : v # w => worker[v].pc = "off"
    BY DEF AloneInv, Exclusive
  <1>2. worker'[w] = r /\ \A v \in Workers : v # w => worker'[v].pc = "off"
    BY <1>1, OthersStay
  <1>3. Exclusive'
    BY <1>1, <1>2 DEF Exclusive
  <1>4. \A v \in Workers : BeliefHolds(worker'[v], cursor')
    BY <1>2 DEF BeliefHolds
  <1> QED  BY <1>3, <1>4 DEF AloneInv

\* Most steps neither touch the cursor nor lead to a place with a belief.
LEMMA PlainStep ==
  ASSUME WorkersOK, AloneInv, NEW w \in Workers, worker[w].pc # "off",
         NEW r, Becomes(w, r), UNCHANGED <<lease, cursor>>, r.pc \notin {"tip", "observe"}
  PROVE  AloneInv'
  <1>1. CaughtUpTruthful'
    BY DEF AloneInv, CaughtUpTruthful
  <1>2. BeliefHolds(r, cursor')
    BY DEF BeliefHolds
  <1> QED  BY <1>1, <1>2, AloneStep

LEMMA PlanAlone ==
  ASSUME WorkersOK, AloneInv, NEW w \in Workers, worker[w].pc # "off", NEW n, Plan(w, n),
         UNCHANGED <<lease, cursor>>,
         worker[w].head < Start \/ (cursor # NoCursor /\ n = cursor.next)
  PROVE  AloneInv'
  <1> DEFINE r == [worker[w] EXCEPT
                     !.pc = IF n > worker[w].head THEN "observe" ELSE "fetch",
                     !.status = "caught-up",
                     !.next = n, !.last = NoBlock, !.found = {}]
  <1>1. worker[w] \in Runs
    BY DEF WorkersOK
  <1>2. r.head = worker[w].head /\ r.pc \in {"observe", "fetch"}
        /\ (r.pc = "observe" => n > worker[w].head)
    BY <1>1 DEF Runs
  <1>3. Becomes(w, r)
    BY DEF Plan
  <1> HIDE DEF r
  <1>4. BeliefHolds(r, cursor')
    BY <1>2 DEF BeliefHolds
  <1>5. CaughtUpTruthful'
    BY DEF AloneInv, CaughtUpTruthful
  <1> QED  BY <1>3, <1>4, <1>5, AloneStep

LEMMA ReadingAlone ==
  ASSUME WorkersOK, AloneInv, NEW w \in Workers,
         \/ PinSafeHead(w) \/ LoadRecentBlocks(w) \/ ProbeAncestor(w)
         \/ FetchBlock(w) \/ QueryContracts(w) \/ LoadLaunches(w) \/ QueryMoves(w)
         \/ CheckWindow(w) \/ Abort(w)
  PROVE  AloneInv'
  <1>1. worker[w] \in Runs /\ worker[w].pc # "off" /\ UNCHANGED <<lease, cursor>>
    BY DEF WorkersOK, PinSafeHead, LoadRecentBlocks, ProbeAncestor, FetchBlock, QueryContracts,
           LoadLaunches, QueryMoves, CheckWindow, Abort, AtStep, Running, db
  <1>2. CASE Throw(w)
    BY <1>1, <1>2, ThrowIs, PlainStep
  <1>3. CASE PinSafeHead(w)
    BY <1>1, <1>3, PlainStep DEF PinSafeHead, Runs
  <1>4. CASE LoadRecentBlocks(w)
    BY <1>1, <1>4, PlainStep DEF LoadRecentBlocks, Runs
  <1>5. CASE ProbeAncestor(w)
    <2>1. CASE \E c : Becomes(w, [worker[w] EXCEPT !.pc = "rollback", !.last = c, !.found = {}])
      BY <1>1, <2>1, PlainStep DEF Runs
    <2>2. CASE \E c : Becomes(w, [worker[w] EXCEPT !.found = @ \ {c}])
      <3>1. PICK c : Becomes(w, [worker[w] EXCEPT !.found = @ \ {c}])
        BY <2>2
      <3>2. [worker[w] EXCEPT !.found = @ \ {c}].pc = "probe"
        BY <1>1, <1>5 DEF ProbeAncestor, AtStep, Runs
      <3> QED  BY <1>1, <3>1, <3>2, PlainStep
    <2> QED  BY <1>2, <1>5, <2>1, <2>2 DEF ProbeAncestor
  <1>6. CASE FetchBlock(w)
    <2>1. CASE \E S : Becomes(w, [worker[w] EXCEPT !.found = @ \cup S])
      <3>1. PICK S : Becomes(w, [worker[w] EXCEPT !.found = @ \cup S])
        BY <2>1
      <3>2. [worker[w] EXCEPT !.found = @ \cup S].pc = "fetch"
        BY <1>1, <1>6 DEF FetchBlock, AtStep, Runs
      <3> QED  BY <1>1, <3>1, <3>2, PlainStep
    <2> QED  BY <1>2, <1>6, <2>1 DEF FetchBlock
  <1>7. ASSUME NEW L, NEW pc \in {"watch", "check"}, Accept(w, L, pc)
        PROVE  AloneInv'
    BY <1>1, <1>2, <1>7, PlainStep DEF Accept, Runs
  <1>8. CASE QueryContracts(w)
    BY <1>7, <1>8 DEF QueryContracts
  <1>9. CASE QueryMoves(w)
    BY <1>2, <1>7, <1>9 DEF QueryMoves
  <1>10. CASE LoadLaunches(w)
    BY <1>1, <1>2, <1>10, PlainStep DEF LoadLaunches, Runs
  <1>11. CASE CheckWindow(w)
    BY <1>1, <1>2, <1>11, PlainStep DEF CheckWindow, Goto, Runs
  <1>12. CASE Abort(w)
    BY <1>2, <1>12 DEF Abort
  <1> QED  BY <1>3, <1>4, <1>5, <1>6, <1>8, <1>9, <1>10, <1>11, <1>12

LEMMA CursorReadAlone ==
  ASSUME IInv, AloneInv, NEW w \in Workers,
         BeforeDeployment(w) \/ ReadCursor(w) \/ CheckTip(w) \/ RereadCursor(w)
  PROVE  AloneInv'
  <1>1. /\ WorkersOK /\ worker[w] \in Runs /\ worker[w].pc # "off"
        /\ UNCHANGED <<lease, cursor>>
    BY DEF IInv, WorkersOK, BeforeDeployment, ReadCursor, CheckTip, RereadCursor, AtStep, db
  <1>2. CASE Throw(w)
    BY <1>1, <1>2, ThrowIs, PlainStep
  <1>3. CASE BeforeDeployment(w)
    BY <1>1, <1>3, PlanAlone DEF BeforeDeployment
  <1>4. CASE ReadCursor(w)
    <2>1. CASE Plan(w, cursor.next)
      BY <1>1, <1>4, <2>1, PlanAlone DEF ReadCursor
    <2>2. ASSUME Becomes(w, [worker[w] EXCEPT !.pc = "tip", !.next = cursor.next,
                                              !.last = cursor.last])
          PROVE  AloneInv'
      <3> DEFINE r == [worker[w] EXCEPT !.pc = "tip", !.next = cursor.next,
                                        !.last = cursor.last]
      <3>1. r.pc = "tip" /\ r.next = cursor.next
        BY <1>1 DEF Runs
      <3>2. Becomes(w, r)
        BY <2>2
      <3> HIDE DEF r
      <3>3. BeliefHolds(r, cursor')
        BY <1>1, <1>4, <3>1 DEF BeliefHolds, ReadCursor
      <3>4. CaughtUpTruthful'
        BY <1>1 DEF AloneInv, CaughtUpTruthful
      <3> QED  BY <1>1, <3>2, <3>3, <3>4, AloneStep
    <2> QED  BY <1>2, <1>4, <2>1, <2>2 DEF ReadCursor
  <1>5. CASE CheckTip(w)
    <2>1. cursor # NoCursor /\ worker[w].next = cursor.next
      BY <1>5 DEF CheckTip, AtStep, AloneInv, BeliefHolds
    <2>2. CASE Plan(w, worker[w].next)
      BY <1>1, <2>1, <2>2, PlanAlone
    <2>3. CASE Goto(w, "recent")
      BY <1>1, <2>3, PlainStep DEF Goto, Runs
    <2> QED  BY <1>5, <2>2, <2>3 DEF CheckTip
  <1>6. CASE RereadCursor(w)
    <2>1. cursor # NoCursor
      BY <1>1, <1>6 DEF RereadCursor, AtStep, WorkersOK
    <2> QED  BY <1>1, <1>2, <1>6, <2>1, PlanAlone DEF RereadCursor
  <1> QED  BY <1>3, <1>4, <1>5, <1>6

LEMMA InitializeCursorAlone ==
  ASSUME IInv, AloneInv, NEW w \in Workers, InitializeCursor(w)
  PROVE  AloneInv'
  <1>1. /\ worker' = worker /\ lease' = lease /\ cursor = NoCursor /\ cursor' = FreshCursor
        /\ worker[w].pc = "cursor"
    BY DEF InitializeCursor, AtStep
  <1>2. Exclusive'
    BY <1>1 DEF AloneInv, Exclusive
  <1>3. CaughtUpTruthful'
    BY <1>1 DEF CaughtUpTruthful, FreshCursor
  <1>4. \A v \in Workers : BeliefHolds(worker'[v], cursor')
    BY <1>1 DEF AloneInv, BeliefHolds
  <1> QED  BY <1>2, <1>3, <1>4 DEF AloneInv

LEMMA RollbackAlone ==
  ASSUME IInv, AloneInv, NEW w \in Workers, Rollback(w)
  PROVE  AloneInv'
  <1>1. WorkersOK /\ worker[w] \in Runs /\ worker[w].pc # "off" /\ lease' = lease
    BY DEF IInv, WorkersOK, Rollback, AtStep
  <1>2. CASE RollbackAccepted(worker[w].last)
    <2>1. RollbackChain(worker[w].last) /\ Goto(w, "reread")
      BY <1>2 DEF Rollback
    <2>2. CaughtUpTruthful'
      BY <2>1 DEF RollbackChain, CaughtUpTruthful, CursorAfter, FreshCursor, AloneInv
    <2>3. [worker[w] EXCEPT !.pc = "reread"].pc = "reread"
      BY <1>1 DEF Runs
    <2>4. BeliefHolds([worker[w] EXCEPT !.pc = "reread"], cursor')
      BY <2>3 DEF BeliefHolds
    <2> QED  BY <1>1, <2>1, <2>2, <2>4, AloneStep DEF Goto
  <1>3. CASE ~RollbackAccepted(worker[w].last)
    BY <1>1, <1>3, ThrowIs, PlainStep DEF Rollback, db
  <1> QED  BY <1>2, <1>3

LEMMA IngestAlone ==
  ASSUME IInv, AloneInv, NEW w \in Workers, Ingest(w)
  PROVE  AloneInv'
  <1>1. /\ WorkersOK /\ worker[w] \in Runs /\ WindowOK(worker[w]) /\ worker[w].pc = "commit"
        /\ lease' = lease
    BY FullWindow DEF IInv, Ingest, AtStep, Reading
  <1>2. CASE Commits(w)
    <2> DEFINE L == LastOf(worker[w])
               n == worker[w].next
               b == Newest(worker[w].found)
    <2>1. Last(w) = L /\ b \in Blocks /\ b.height = L
      BY <1>1, LastFacts, NewestOfWindow DEF IInv, Runs
    <2>2. n \in Nat /\ L \in Nat /\ Start <= n /\ n <= L
      BY <1>1, Bounds DEF WindowOK, LastOf, Runs
    <2>3. cursor.next = n /\ cursor # NoCursor
      BY <1>2, <2>2, Bounds DEF Commits, Continues, ExtendsCursor, NoCursor
    <2>4. cursor \in Cursors /\ cursor.next = cursor.last.height + 1
      BY <2>3 DEF IInv, CursorOK
    <2>5. cursor' = [cursor EXCEPT !.next = L + 1, !.last = b] /\ AfterBatch(w)
      BY <1>2, <2>1 DEF Ingest
    <2> HIDE DEF L, n, b
    <2>6. /\ cursor'.next = L + 1 /\ cursor'.last = b
          /\ cursor'.seen = cursor.seen /\ cursor'.status = cursor.status
      BY <2>4, <2>5 DEF Cursors
    <2>7. cursor.last.height \in Int /\ cursor.seen \in Nat
      BY <2>4, BlockFacts, NoBlockFacts, Bounds DEF Cursors
    <2>8. CaughtUpTruthful'
      BY <2>1, <2>2, <2>3, <2>4, <2>6, <2>7 DEF CaughtUpTruthful, AloneInv
    <2>9. cursor' # NoCursor
      BY <2>2, <2>6 DEF NoCursor
    <2> DEFINE ends == [Idle EXCEPT !.pc = "observe", !.head = worker[w].head]
    <2>10. Idle \in Runs
      BY Bounds DEF Idle, Runs, Pcs, Statuses
    <2>11. worker[w].head \in 0 .. MaxHeight
      BY <1>1 DEF Runs
    <2>12. ends \in Runs /\ ends.head = worker[w].head /\ ends.pc = "observe"
      BY <2>10, <2>11 DEF Runs, Pcs
    <2> HIDE DEF ends
    <2>13. ASSUME L + 1 > worker[w].head
           PROVE  BeliefHolds([ends EXCEPT !.status = "caught-up"], cursor')
      <3>1. [ends EXCEPT !.status = "caught-up"].head = worker[w].head
            /\ [ends EXCEPT !.status = "caught-up"].pc = "observe"
        BY <2>12 DEF Runs
      <3> QED  BY <2>2, <2>6, <2>9, <2>11, <2>13, <3>1 DEF BeliefHolds
    <2>14. /\ BeliefHolds([ends EXCEPT !.status = "deadline"], cursor')
           /\ BeliefHolds([ends EXCEPT !.status = "bounded"], cursor')
      BY <2>12 DEF BeliefHolds, Runs
    <2>15. ASSUME NEW k
           PROVE  BeliefHolds([ends EXCEPT !.pc = "cursor", !.batches = k], cursor')
      BY <2>12 DEF BeliefHolds, Runs
    <2>16. \E r : Becomes(w, r) /\ BeliefHolds(r, cursor')
      BY <2>1, <2>5, <2>13, <2>14, <2>15 DEF AfterBatch, ends
    <2> QED  BY <1>1, <2>8, <2>16, AloneStep
  <1>3. CASE ~Commits(w)
    BY <1>1, <1>3, ThrowIs, PlainStep DEF Ingest
  <1> QED  BY <1>2, <1>3

LEMMA RecordObservationAlone ==
  ASSUME IInv, AloneInv, NEW w \in Workers, RecordObservation(w)
  PROVE  AloneInv'
  <1>1. /\ WorkersOK /\ worker[w] \in Runs /\ worker[w].pc = "observe" /\ lease' = lease
        /\ Throw(w)
    BY DEF IInv, WorkersOK, RecordObservation, AtStep
  <1>2. CASE Observable(w)
    <2> DEFINE h == worker[w].head
               s == worker[w].status
    <2>1. cursor # NoCursor /\ cursor' = [cursor EXCEPT !.seen = h, !.status = s]
      BY <1>2 DEF Observable, RecordObservation
    <2>2. cursor \in Cursors /\ cursor.next = cursor.last.height + 1
      BY <2>1 DEF IInv, CursorOK
    <2>3. h \in Nat /\ (s = "caught-up" => h < Start \/ h < cursor.next)
      BY <1>1 DEF AloneInv, BeliefHolds, Runs
    <2> HIDE DEF h, s
    <2>4. cursor'.seen = h /\ cursor'.status = s /\ cursor'.last = cursor.last
      BY <2>1, <2>2 DEF Cursors
    <2>5. cursor.last.height \in Int
      BY <2>2, BlockFacts, NoBlockFacts, Bounds DEF Cursors
    <2>6. CaughtUpTruthful'
      BY <2>2, <2>3, <2>4, <2>5 DEF CaughtUpTruthful
    <2> QED  BY <1>1, <2>6, ThrowIs, AloneStep DEF BeliefHolds
  <1>3. CASE ~Observable(w)
    BY <1>1, <1>3, ThrowIs, PlainStep DEF RecordObservation
  <1> QED  BY <1>2, <1>3

LEMMA EndAlone ==
  ASSUME IInv, AloneInv, NEW w \in Workers, Acquire(w) \/ Release(w) \/ Crash(w)
  PROVE  AloneInv'
  <1>1. WorkersOK /\ worker[w] \in Runs /\ cursor' = cursor
    BY DEF IInv, WorkersOK, Acquire, Release, Crash, db
  <1>2. CaughtUpTruthful'
    BY <1>1 DEF AloneInv, CaughtUpTruthful
  <1>3. CASE Acquire(w)
    <2> DEFINE r == [worker[w] EXCEPT !.pc = "pin"]
    <2>1. \A v \in Workers : worker[v].pc = "off"
      BY <1>3, WorkerAssumption DEF Acquire, AloneInv, Exclusive
    <2>2. r.pc = "pin" /\ Becomes(w, r) /\ lease' = w
      BY <1>1, <1>3 DEF Acquire, Goto, Runs
    <2> HIDE DEF r
    <2>3. worker'[w] = r /\ \A v \in Workers : v # w => worker'[v].pc = "off"
      BY <1>1, <2>1, <2>2, OthersStay
    <2>4. Exclusive' /\ \A v \in Workers : BeliefHolds(worker'[v], cursor')
      BY <2>2, <2>3 DEF Exclusive, BeliefHolds
    <2> QED  BY <1>2, <2>4 DEF AloneInv
  <1>4. ASSUME Becomes(w, Idle), worker[w].pc # "off"
        PROVE  \A v \in Workers : worker'[v].pc = "off"
    <2>1. \A v \in Workers : v # w => worker[v].pc = "off"
      BY <1>4 DEF AloneInv, Exclusive
    <2>2. worker'[w] = Idle /\ \A v \in Workers : v # w => worker'[v] = worker[v]
      BY <1>1, <1>4, OthersStay
    <2> QED  BY <2>1, <2>2 DEF Idle
  <1>5. CASE Release(w) \/ Crash(w)
    <2>1. \A v \in Workers : worker'[v].pc = "off"
      BY <1>4, <1>5 DEF Release, Crash, AtStep
    <2> QED  BY <1>2, <2>1 DEF AloneInv, Exclusive, BeliefHolds
  <1> QED  BY <1>3, <1>5

LEMMA EnvironmentAlone ==
  ASSUME LeaseOutlivesRun, IInv, AloneInv, LeaseExpires \/ Grow \/ Reorg
  PROVE  AloneInv'
  <1>1. UNCHANGED <<cursor, worker>>
    BY DEF LeaseExpires, Grow, Reorg, db
  <1>2. CASE lease' = lease
    BY <1>1, <1>2 DEF AloneInv, Exclusive, CaughtUpTruthful
  <1>3. CASE LeaseExpires
    <2>1. \A w \in Workers : worker[w].pc = "off"
      BY <1>3 DEF LeaseExpires, AtStep, AloneInv, Exclusive
    <2> QED  BY <1>1, <2>1 DEF AloneInv, Exclusive, CaughtUpTruthful
  <1> QED  BY <1>2, <1>3 DEF Grow, Reorg

LEMMA AloneNext ==
  ASSUME LeaseOutlivesRun, IInv, AloneInv, [Next]_vars
  PROVE  AloneInv'
  <1>1. CASE UNCHANGED vars
    BY <1>1 DEF vars, AloneInv, Exclusive, CaughtUpTruthful
  <1>2. ASSUME NEW w \in Workers, Acquire(w) \/ Step(w) \/ Abort(w) \/ Crash(w)
        PROVE  AloneInv'
    BY <1>2, ReadingAlone, CursorReadAlone, InitializeCursorAlone, RollbackAlone, IngestAlone,
       RecordObservationAlone, EndAlone DEF Step, IInv
  <1>3. CASE LeaseExpires \/ Grow \/ Reorg
    BY <1>3, EnvironmentAlone
  <1> QED  BY <1>1, <1>2, <1>3 DEF Next

LEMMA AloneInductive == LeaseOutlivesRun => (Spec => [](IInv /\ AloneInv))
  <1> SUFFICES ASSUME LeaseOutlivesRun
               PROVE  Spec => [](IInv /\ AloneInv)
    OBVIOUS
  <1>1. Init => IInv /\ AloneInv
    BY InitInv, AloneInit
  <1>2. IInv /\ AloneInv /\ [Next]_vars => (IInv /\ AloneInv)'
    BY NextInv, AloneNext
  <1> QED  BY <1>1, <1>2, PTL DEF Spec

\* Under an exclusive lease, for any number of wake-ups, batch sizes, aborts and
\* crashes: a status of "caught-up" that readers see is true of the cursor.
THEOREM CaughtUpIsTrue == LeaseOutlivesRun => (Spec => []CaughtUpTruthful)
  <1>1. AloneInv => CaughtUpTruthful
    BY DEF AloneInv
  <1> QED  BY <1>1, AloneInductive, PTL
-----------------------------------------------------------------------------
(* Sets of blocks: a newest one, finiteness, and branches.                   *)

Less == {p \in Nat \X Nat : p[1] < p[2]}

LEMMA LeastNatural ==
  ASSUME NEW T \in SUBSET Nat, T # {}
  PROVE  \E x \in T : \A y \in T : x <= y
  <1>1. IsWellFoundedOn(Less, Nat)
    BY NatLessThanWellFounded DEF OpToRel, Less
  <1>2. PICK x \in T : \A y \in T : <<y, x>> \notin Less
    BY <1>1, WFMin
  <1>3. ASSUME NEW y \in T
        PROVE  x <= y
    <2>1. x \in Nat /\ y \in Nat /\ <<y, x>> \notin Less
      BY <1>2
    <2> QED  BY <2>1 DEF Less
  <1> QED  BY <1>3

LEMMA NewestFacts ==
  ASSUME NEW S \in SUBSET Blocks, S # {}
  PROVE  Newest(S) \in S /\ \A c \in S : c.height <= Newest(S).height
  <1> DEFINE T == {MaxHeight - b.height : b \in S}
  <1>1. \A b \in S : b.height \in Nat /\ b.height <= MaxHeight
    BY BlockFacts, Bounds
  <1>2. T \in SUBSET Nat /\ T # {}
    BY <1>1, Bounds
  <1>3. PICK x \in T : \A y \in T : x <= y
    BY <1>2, LeastNatural
  <1>4. PICK b \in S : x = MaxHeight - b.height
    BY <1>3
  <1>5. \A c \in S : MaxHeight - b.height <= MaxHeight - c.height
    BY <1>3, <1>4
  <1>6. \A c \in S : c.height <= b.height
    BY <1>1, <1>5, Bounds
  <1> QED  BY <1>4, <1>6 DEF Newest

LEMMA StoredFinite ==
  ASSUME ChainOK
  PROVE  IsFiniteSet(blocks)
  <1> DEFINE f == [b \in blocks |-> b.height]
  <1>1. f \in [blocks -> Start .. MaxHeight]
    BY BlockFacts DEF ChainOK
  <1>2. f \in Injection(blocks, Start .. MaxHeight)
    BY <1>1 DEF Injection, IsInjective, ChainOK, OnePerHeight
  <1>3. IsFiniteSet(Start .. MaxHeight)
    BY Bounds, FS_Interval
  <1> QED  BY <1>2, <1>3, FS_Injection

\* The branch of a block is none that is still to come.
BranchesPast(br) == \A h \in Heights : BlockOn(br, h).branch \in 0 .. br

\* Lost(b, br): the chain has left b for good.  A block that was read is on the
\* chain or lost; it is never one that the chain has yet to reach.
Lost(b, br) == b # BlockOn(br, b.height)
Known(b, br, hd) == b.branch \in 0 .. br /\ (Lost(b, br) \/ b.height <= hd)

LEMMA TrunkBranch == BranchesPast(0)
  <1> SUFFICES ASSUME NEW h \in Heights
               PROVE  BlockOn(0, h).branch = 0
    BY DEF BranchesPast
  <1>1. {0} \cup {c \in 1 .. 0 : ForkHeight[c] <= h} = {0}
    OBVIOUS
  <1>2. Max({0}) = 0
    BY DEF Max
  <1> QED  BY <1>1, <1>2 DEF BlockOn

LEMMA ForkFacts ==
  ASSUME NEW c \in DOMAIN ForkHeight
  PROVE  ForkHeight[c] \in Start .. MaxHeight /\ ForkHeight[c] \in Nat
  <1>1. ForkHeight[c] \in Start .. MaxHeight
    BY ForkAssumption
  <1> QED  BY <1>1, Bounds

LEMMA NextBranch ==
  ASSUME NEW br \in Nat, br + 1 \in DOMAIN ForkHeight, NEW h \in Heights
  PROVE  /\ ForkHeight[br + 1] <= h => BlockOn(br + 1, h).branch = br + 1
         /\ ~(ForkHeight[br + 1] <= h) => BlockOn(br + 1, h) = BlockOn(br, h)
  <1> DEFINE forks(b) == {0} \cup {c \in 1 .. b : ForkHeight[c] <= h}
  <1>1. h \in Nat /\ ForkHeight[br + 1] \in Nat
    BY ForkFacts, Bounds DEF Heights
  <1>2. CASE ForkHeight[br + 1] <= h
    <2>1. br + 1 \in forks(br + 1) /\ \A c \in forks(br + 1) : c \in Nat /\ c <= br + 1
      BY <1>2
    <2> HIDE DEF forks
    <2>2. Max(forks(br + 1)) = br + 1
      BY <2>1 DEF Max
    <2> QED  BY <1>2, <2>2 DEF BlockOn, forks
  <1>3. CASE ~(ForkHeight[br + 1] <= h)
    <2>1. forks(br + 1) = forks(br)
      BY <1>3
    <2> QED  BY <1>3, <2>1 DEF BlockOn
  <1> QED  BY <1>2, <1>3

LEMMA NextBranchPast ==
  ASSUME NEW br \in Nat, br + 1 \in DOMAIN ForkHeight, BranchesPast(br)
  PROVE  BranchesPast(br + 1)
  <1> SUFFICES ASSUME NEW h \in Heights
               PROVE  BlockOn(br + 1, h).branch \in 0 .. br + 1
    BY DEF BranchesPast
  <1>1. BlockOn(br, h).branch \in 0 .. br
    BY DEF BranchesPast
  <1>2. BlockOn(br + 1, h).branch \in {br + 1, BlockOn(br, h).branch}
    BY NextBranch
  <1> QED  BY <1>1, <1>2

\* No branch returns to a block that is lost, and a reorganisation loses the
\* blocks it cuts off.
LEMMA LostForGood ==
  ASSUME NEW br \in Nat, br + 1 \in DOMAIN ForkHeight,
         NEW b \in Blocks, b.branch \in 0 .. br, Lost(b, br)
  PROVE  Lost(b, br + 1)
  <1>1. b.height \in Heights
    BY BlockFacts DEF Heights
  <1>2. CASE ForkHeight[br + 1] <= b.height
    <2>1. BlockOn(br + 1, b.height).branch = br + 1
      BY <1>1, <1>2, NextBranch
    <2> QED  BY <2>1 DEF Lost
  <1>3. CASE ~(ForkHeight[br + 1] <= b.height)
    BY <1>1, <1>3, NextBranch DEF Lost
  <1> QED  BY <1>2, <1>3

LEMMA KnownForGood ==
  ASSUME NEW br \in Nat, br + 1 \in DOMAIN ForkHeight, NEW hd \in Nat, NEW nd \in {hd - 1, hd},
         ForkHeight[br + 1] <= hd, NEW b \in Blocks, Known(b, br, hd)
  PROVE  Known(b, br + 1, nd)
  <1>1. b.height \in Heights /\ b.height \in Nat /\ b.branch \in 0 .. br + 1
    BY BlockFacts, Bounds DEF Heights, Known
  <1>2. CASE Lost(b, br)
    BY <1>1, <1>2, LostForGood DEF Known
  <1>3. CASE b.height <= nd
    BY <1>1, <1>3 DEF Known
  <1>4. CASE ~Lost(b, br) /\ ~(b.height <= nd)
    <2>1. b.height <= hd
      BY <1>4 DEF Known
    <2>2. ForkHeight[br + 1] <= b.height
      <3>1. ForkHeight[br + 1] \in Nat
        BY ForkFacts
      <3> QED  BY <1>1, <1>4, <2>1, <3>1
    <2>3. BlockOn(br + 1, b.height).branch = br + 1
      BY <1>1, <2>2, NextBranch
    <2>4. b.branch # br + 1
      BY DEF Known
    <2> QED  BY <1>1, <2>3, <2>4 DEF Known, Lost
  <1> QED  BY <1>2, <1>3, <1>4

LEMMA CanonicalKnown ==
  ASSUME ChainOK, BranchesPast(branch), NEW h, NEW b \in Canonical(h)
  PROVE  Known(b, branch, head)
  <1>1. h \in Start .. head /\ b = BlockOn(branch, h) /\ h \in Heights
    BY Bounds DEF Canonical, ChainOK, Heights
  <1> QED  BY <1>1, HeightOfBlockOn DEF Known, BranchesPast

\* A known block that is not on the chain is lost.
LEMMA NotCanonicalIsLost ==
  ASSUME ChainOK, NEW b \in Blocks, Known(b, branch, head), b \notin Canonical(b.height)
  PROVE  Lost(b, branch)
  <1>1. b.height \in Start .. MaxHeight
    BY BlockFacts
  <1> QED  BY <1>1, Bounds DEF Known, Lost, Canonical, ChainOK

LEMMA LostIsNotCanonical ==
  ASSUME NEW b, Lost(b, branch)
  PROVE  b \notin Canonical(b.height)
  BY DEF Lost, Canonical

-----------------------------------------------------------------------------
(* Every block that is stored or held by an invocation is known, lease or not. *)

KnownInv ==
  /\ BranchesPast(branch)
  /\ \A b \in blocks : Known(b, branch, head)
  /\ \A w \in Workers : \A b \in worker[w].found : Known(b, branch, head)

\* The blocks an invocation may hold after a step.
Reachable(w) == worker[w].found \cup blocks \cup UNION {Canonical(h) : h \in Int}

FindsReachable(w) ==
  /\ worker'[w].found \subseteq Reachable(w)
  /\ \A v \in Workers : v # w => worker'[v] = worker[v]

LEMMA FoundAfter ==
  ASSUME IInv, NEW w \in Workers, Acquire(w) \/ Step(w) \/ Abort(w) \/ Crash(w)
  PROVE  FindsReachable(w)
  <1>1. WorkersOK /\ worker[w] \in Runs
    BY DEF IInv, WorkersOK
  <1>2. ASSUME NEW r, Becomes(w, r), r.found \subseteq Reachable(w)
        PROVE  FindsReachable(w)
    BY <1>1, <1>2, OthersStay DEF FindsReachable
  <1>3. CASE Throw(w)
    BY <1>2, <1>3 DEF Throw, Idle
  <1>4. ASSUME NEW pc, Goto(w, pc)
        PROVE  FindsReachable(w)
    BY <1>1, <1>2, <1>4 DEF Goto, Reachable, Runs
  <1>5. ASSUME NEW n, Plan(w, n)
        PROVE  FindsReachable(w)
    BY <1>1, <1>2, <1>5 DEF Plan, Runs
  <1>6. ASSUME NEW L, NEW pc, Accept(w, L, pc)
        PROVE  FindsReachable(w)
    BY <1>1, <1>2, <1>3, <1>6 DEF Accept, Reachable, Runs
  <1>7. CASE Acquire(w) \/ Abort(w) \/ CheckWindow(w)
    BY <1>3, <1>4, <1>7 DEF Acquire, Abort, CheckWindow
  <1>8. CASE Crash(w) \/ Release(w)
    BY <1>2, <1>8 DEF Crash, Release, Idle
  <1>9. CASE PinSafeHead(w)
    BY <1>1, <1>2, <1>9 DEF PinSafeHead, Reachable, Runs
  <1>10. CASE BeforeDeployment(w) \/ CheckTip(w) \/ RereadCursor(w)
    BY <1>3, <1>4, <1>5, <1>10 DEF BeforeDeployment, CheckTip, RereadCursor
  <1>11. CASE InitializeCursor(w)
    BY <1>11 DEF InitializeCursor, Reachable, Runs, FindsReachable
  <1>12. CASE ReadCursor(w)
    <2>1. ASSUME Becomes(w, [worker[w] EXCEPT !.pc = "tip", !.next = cursor.next,
                                              !.last = cursor.last])
          PROVE  FindsReachable(w)
      BY <1>1, <1>2, <2>1 DEF Reachable, Runs
    <2> QED  BY <1>3, <1>5, <1>12, <2>1 DEF ReadCursor
  <1>13. CASE LoadRecentBlocks(w)
    <2>1. PICK S \in SUBSET blocks :
            Becomes(w, [worker[w] EXCEPT !.pc = "probe", !.found = S])
      BY <1>13 DEF LoadRecentBlocks
    <2> QED  BY <1>1, <1>2, <2>1 DEF Reachable, Runs
  <1>14. CASE ProbeAncestor(w)
    <2>1. ASSUME NEW c, Becomes(w, [worker[w] EXCEPT !.pc = "rollback", !.last = c, !.found = {}])
          PROVE  FindsReachable(w)
      BY <1>1, <1>2, <2>1 DEF Runs
    <2>2. ASSUME NEW c, Becomes(w, [worker[w] EXCEPT !.found = @ \ {c}])
          PROVE  FindsReachable(w)
      BY <1>1, <1>2, <2>2 DEF Reachable, Runs
    <2> QED  BY <1>3, <1>14, <2>1, <2>2 DEF ProbeAncestor
  <1>15. CASE Rollback(w)
    BY <1>3, <1>4, <1>15 DEF Rollback
  <1>16. CASE FetchBlock(w)
    <2>1. ASSUME NEW h \in Int, Becomes(w, [worker[w] EXCEPT !.found = @ \cup Canonical(h)])
          PROVE  FindsReachable(w)
      BY <1>1, <1>2, <2>1 DEF Reachable, Runs
    <2>2. worker[w].next \in Int /\ Last(w) \in Int
      BY <1>1, LastFacts, Bounds DEF Runs, LastOf
    <2>3. \A h \in worker[w].next .. Last(w) : h \in Int
      BY <2>2
    <2> QED  BY <1>3, <1>16, <2>1, <2>3 DEF FetchBlock
  <1>17. CASE QueryContracts(w) \/ QueryMoves(w)
    BY <1>3, <1>6, <1>17 DEF QueryContracts, QueryMoves
  <1>18. CASE LoadLaunches(w)
    <2>1. ASSUME Becomes(w, [worker[w] EXCEPT !.pc = "moves", !.watched = WatchSet(w)])
          PROVE  FindsReachable(w)
      BY <1>1, <1>2, <2>1 DEF Reachable, Runs
    <2> QED  BY <1>3, <1>18, <2>1 DEF LoadLaunches
  <1>19. CASE Ingest(w)
    <2>1. ASSUME AfterBatch(w)
          PROVE  FindsReachable(w)
      <3> DEFINE ends == [Idle EXCEPT !.pc = "observe", !.head = worker[w].head]
      <3>1. Idle \in Runs /\ Idle.found = {}
        BY Bounds DEF Idle, Runs, Pcs, Statuses
      <3>2. worker[w].head \in 0 .. MaxHeight
        BY <1>1 DEF Runs
      <3>3. ends \in Runs /\ ends.found = {}
        BY <3>1, <3>2 DEF Runs, Pcs
      <3> HIDE DEF ends
      <3>4. /\ [ends EXCEPT !.status = "caught-up"].found = {}
            /\ [ends EXCEPT !.status = "deadline"].found = {}
            /\ [ends EXCEPT !.status = "bounded"].found = {}
            /\ \A k : [ends EXCEPT !.pc = "cursor", !.batches = k].found = {}
        BY <3>3 DEF Runs
      <3>5. \E r : Becomes(w, r) /\ r.found = {}
        BY <2>1, <3>4 DEF AfterBatch, ends
      <3> QED  BY <1>2, <3>5
    <2> QED  BY <1>3, <1>19, <2>1 DEF Ingest
  <1>20. CASE RecordObservation(w)
    BY <1>3, <1>20 DEF RecordObservation
  <1> QED
    BY <1>7, <1>8, <1>9, <1>10, <1>11, <1>12, <1>13, <1>14, <1>15, <1>16, <1>17, <1>18,
       <1>19, <1>20 DEF Step

LEMMA BlocksAfter ==
  ASSUME NEW w \in Workers, Acquire(w) \/ Step(w) \/ Abort(w) \/ Crash(w)
  PROVE  /\ UNCHANGED chain
         /\ blocks' \subseteq blocks \cup worker[w].found
         /\ Rollback(w) \/ blocks \subseteq blocks'
  BY DEF Acquire, Abort, Crash, Step, db, PinSafeHead, BeforeDeployment, InitializeCursor,
         ReadCursor, CheckTip, LoadRecentBlocks, ProbeAncestor, Rollback, RollbackChain,
         RereadCursor, FetchBlock, QueryContracts, LoadLaunches, QueryMoves, CheckWindow,
         Ingest, RecordObservation, Release

LEMMA KnownNext ==
  ASSUME IInv, KnownInv, [Next]_vars
  PROVE  KnownInv'
  <1>1. CASE UNCHANGED vars
    BY <1>1 DEF vars, KnownInv
  <1>2. ASSUME NEW w \in Workers, Acquire(w) \/ Step(w) \/ Abort(w) \/ Crash(w)
        PROVE  KnownInv'
    <2>1. branch' = branch /\ head' = head /\ blocks' \subseteq blocks \cup worker[w].found
      BY <1>2, BlocksAfter DEF chain
    <2>2. ASSUME NEW b \in Reachable(w)
          PROVE  Known(b, branch, head)
      BY CanonicalKnown DEF Reachable, KnownInv, IInv
    <2>3. /\ worker'[w].found \subseteq Reachable(w)
          /\ \A v \in Workers : v # w => worker'[v] = worker[v]
      BY <1>2, FoundAfter DEF FindsReachable
    <2> QED  BY <2>1, <2>2, <2>3 DEF KnownInv
  <1>3. CASE LeaseExpires
    BY <1>3 DEF LeaseExpires, KnownInv, chain, db
  <1>4. CASE Grow
    <2>1. head \in Nat /\ head' = head + 1 /\ UNCHANGED <<branch, blocks, worker>>
      BY <1>4 DEF Grow, db, IInv, ChainOK
    <2>2. ASSUME NEW b \in Blocks, Known(b, branch, head)
          PROVE  Known(b, branch, head')
      BY <2>1, <2>2, BlockFacts, Bounds DEF Known
    <2>3. blocks \subseteq Blocks /\ \A w \in Workers : worker[w].found \subseteq Blocks
      BY DEF IInv, ChainOK, WorkersOK, Runs
    <2> QED  BY <2>1, <2>2, <2>3 DEF KnownInv
  <1>5. CASE Reorg
    <2>1. /\ branch \in Nat /\ head \in Nat /\ branch + 1 \in DOMAIN ForkHeight
          /\ ForkHeight[branch + 1] <= head /\ branch' = branch + 1
          /\ head' \in {head - 1, head} /\ UNCHANGED <<blocks, worker>>
      BY <1>5, ForkCount DEF Reorg, db, IInv, ChainOK, Branches
    <2>2. BranchesPast(branch')
      BY <2>1, NextBranchPast DEF KnownInv
    <2>3. ASSUME NEW b \in Blocks, Known(b, branch, head)
          PROVE  Known(b, branch', head')
      BY <2>1, <2>3, KnownForGood
    <2>4. blocks \subseteq Blocks /\ \A w \in Workers : worker[w].found \subseteq Blocks
      BY DEF IInv, ChainOK, WorkersOK, Runs
    <2> QED  BY <2>1, <2>2, <2>3, <2>4 DEF KnownInv
  <1> QED  BY <1>1, <1>2, <1>3, <1>4, <1>5 DEF Next

LEMMA KnownInit == Init => KnownInv
  BY TrunkBranch DEF Init, Idle, KnownInv

-----------------------------------------------------------------------------
(* A repair that runs alone undoes lost blocks only: what it has passed over *)
(* on its way down from the tip of the stored chain is lost.                 *)

Repairing == {"tip", "recent", "probe", "rollback"}

\* An invocation in local state r, with blocks B, branch br and cursor c.
Spares(r, B, br, c) ==
  /\ r.pc \in {"tip", "recent"} => c # NoCursor /\ r.last = c.last
  /\ r.pc = "probe" =>
       \A b \in B : \/ b \in r.found \/ Lost(b, br)
                    \/ \A d \in r.found : b.height < d.height
  /\ r.pc = "rollback" => \A b \in B : b.height > r.last.height => Lost(b, br)

SpareInv == \A w \in Workers : Spares(worker[w], blocks, branch, cursor)

RepairInv == IInv /\ AloneInv /\ KnownInv /\ SpareInv

LEMMA OthersOff ==
  ASSUME AloneInv, NEW w \in Workers, Acquire(w) \/ Step(w) \/ Abort(w) \/ Crash(w)
  PROVE  \A v \in Workers : v # w => worker[v].pc = "off"
  <1>1. CASE Acquire(w)
    BY <1>1, WorkerAssumption DEF Acquire, AloneInv, Exclusive
  <1>2. CASE worker[w].pc # "off"
    BY <1>2 DEF AloneInv, Exclusive
  <1> QED
    BY <1>1, <1>2
    DEF Step, Abort, Crash, Running, AtStep, PinSafeHead, BeforeDeployment, InitializeCursor,
        ReadCursor, CheckTip, LoadRecentBlocks, ProbeAncestor, Rollback, RereadCursor,
        FetchBlock, QueryContracts, LoadLaunches, QueryMoves, CheckWindow, Ingest,
        RecordObservation, Release

LEMMA SpareStep ==
  ASSUME IInv, AloneInv, NEW w \in Workers, Acquire(w) \/ Step(w) \/ Abort(w) \/ Crash(w),
         Spares(worker'[w], blocks', branch', cursor')
  PROVE  SpareInv'
  <1>1. \A v \in Workers : v # w => worker[v].pc = "off" /\ worker'[v] = worker[v]
    BY OthersOff, FoundAfter DEF FindsReachable
  <1> QED  BY <1>1 DEF SpareInv, Spares

RepairStep(w) == ReadCursor(w) \/ CheckTip(w) \/ LoadRecentBlocks(w) \/ ProbeAncestor(w)
QueryStep(w) == QueryContracts(w) \/ LoadLaunches(w) \/ QueryMoves(w) \/ CheckWindow(w)

Querying == {"watch", "moves", "check", "commit"}
Home == {"off", "pin", "cursor", "reread", "fetch", "observe", "release"}

TurnsHome(w) == worker'[w].pc \in Home
TurnsAside(w) == worker'[w].pc \notin Repairing

\* The steps that lead on neither with a repair nor with a window that is read.
LEMMA PlainTurns ==
  ASSUME IInv, NEW w \in Workers, Acquire(w) \/ Step(w) \/ Abort(w) \/ Crash(w),
         ~RepairStep(w), ~QueryStep(w)
  PROVE  TurnsHome(w)
  <1>1. WorkersOK /\ worker[w] \in Runs
    BY DEF IInv, WorkersOK
  <1>2. ASSUME NEW r, Becomes(w, r), r.pc \in Home
        PROVE  TurnsHome(w)
    BY <1>1, <1>2, OthersStay DEF TurnsHome
  <1>3. CASE Throw(w)
    BY <1>2, <1>3, ThrowIs DEF Home
  <1>4. ASSUME NEW pc, Goto(w, pc), pc \in Home
        PROVE  TurnsHome(w)
    BY <1>1, <1>2, <1>4 DEF Goto, Runs
  <1>5. ASSUME NEW n, Plan(w, n)
        PROVE  TurnsHome(w)
    <2>1. PICK pc \in {"observe", "fetch"} :
            Becomes(w, [worker[w] EXCEPT !.pc = pc, !.status = "caught-up", !.next = n,
                                         !.last = NoBlock, !.found = {}])
      BY <1>5 DEF Plan
    <2> QED  BY <1>1, <1>2, <2>1 DEF Runs, Home
  <1>7. CASE Acquire(w) \/ Abort(w)
    BY <1>3, <1>4, <1>7 DEF Acquire, Abort, Home
  <1>8. CASE Crash(w) \/ Release(w)
    BY <1>2, <1>8 DEF Crash, Release, Idle, Home
  <1>9. CASE PinSafeHead(w)
    BY <1>1, <1>2, <1>9 DEF PinSafeHead, Runs, Home
  <1>10. CASE BeforeDeployment(w) \/ RereadCursor(w)
    BY <1>3, <1>5, <1>10 DEF BeforeDeployment, RereadCursor
  <1>11. CASE InitializeCursor(w)
    BY <1>11 DEF InitializeCursor, AtStep, TurnsHome, Home
  <1>12. CASE Rollback(w)
    BY <1>3, <1>4, <1>12 DEF Rollback, Home
  <1>13. CASE FetchBlock(w)
    <2>1. ASSUME NEW S, Becomes(w, [worker[w] EXCEPT !.found = @ \cup S])
          PROVE  TurnsHome(w)
      <3>1. [worker[w] EXCEPT !.found = @ \cup S].pc = "fetch"
        BY <1>1, <1>13 DEF FetchBlock, AtStep, Runs
      <3> QED  BY <1>2, <2>1, <3>1 DEF Home
    <2> QED  BY <1>3, <1>13, <2>1 DEF FetchBlock
  <1>16. CASE Ingest(w)
    <2>1. ASSUME AfterBatch(w)
          PROVE  TurnsHome(w)
      <3> DEFINE ends == [Idle EXCEPT !.pc = "observe", !.head = worker[w].head]
      <3>1. Idle \in Runs /\ worker[w].head \in 0 .. MaxHeight
        BY <1>1, Bounds DEF Idle, Runs, Pcs, Statuses
      <3>2. ends \in Runs /\ ends.pc = "observe"
        BY <3>1 DEF Runs, Pcs
      <3> HIDE DEF ends
      <3>3. /\ [ends EXCEPT !.status = "caught-up"].pc = "observe"
            /\ [ends EXCEPT !.status = "deadline"].pc = "observe"
            /\ [ends EXCEPT !.status = "bounded"].pc = "observe"
            /\ \A k : [ends EXCEPT !.pc = "cursor", !.batches = k].pc = "cursor"
        BY <3>2 DEF Runs
      <3>4. \E r : Becomes(w, r) /\ r.pc \in {"observe", "cursor"}
        BY <2>1, <3>3 DEF AfterBatch, ends
      <3> QED  BY <1>2, <3>4 DEF Home
    <2> QED  BY <1>3, <1>16, <2>1 DEF Ingest
  <1>17. CASE RecordObservation(w)
    BY <1>3, <1>17 DEF RecordObservation
  <1> QED
    BY <1>7, <1>8, <1>9, <1>10, <1>11, <1>12, <1>13, <1>16, <1>17
    DEF Step, RepairStep, QueryStep

LEMMA QueryTurns ==
  ASSUME IInv, NEW w \in Workers, QueryStep(w)
  PROVE  worker'[w].pc \in Querying \cup {"release"}
  <1>1. WorkersOK /\ worker[w] \in Runs
    BY DEF IInv, WorkersOK
  <1> DEFINE Done == worker'[w].pc \in Querying \cup {"release"}
  <1>2. ASSUME NEW r, Becomes(w, r), r.pc \in Querying \cup {"release"}
        PROVE  Done
    BY <1>1, <1>2, OthersStay
  <1> HIDE DEF Done
  <1>3. ASSUME Throw(w) PROVE Done
    BY <1>2, <1>3, ThrowIs
  <1>4. ASSUME NEW L, NEW pc \in Querying, Accept(w, L, pc) PROVE Done
    BY <1>1, <1>2, <1>3, <1>4 DEF Accept, Runs
  <1>5. ASSUME QueryContracts(w) \/ QueryMoves(w) PROVE Done
    BY <1>3, <1>4, <1>5 DEF QueryContracts, QueryMoves, Querying
  <1>6. ASSUME LoadLaunches(w) PROVE Done
    BY <1>1, <1>2, <1>3, <1>6 DEF LoadLaunches, Runs, Querying
  <1>7. ASSUME CheckWindow(w) PROVE Done
    BY <1>1, <1>2, <1>3, <1>7 DEF CheckWindow, Goto, Runs, Querying
  <1>8. Done
    BY <1>5, <1>6, <1>7 DEF QueryStep
  <1> QED  BY <1>8 DEF Done

LEMMA TurnIsSpare ==
  ASSUME IInv, AloneInv, NEW w \in Workers, Acquire(w) \/ Step(w) \/ Abort(w) \/ Crash(w),
         TurnsAside(w)
  PROVE  SpareInv'
  BY SpareStep DEF TurnsAside, Spares, Repairing

LEMMA ReadSpare ==
  ASSUME RepairInv, NEW w \in Workers, ReadCursor(w) \/ CheckTip(w)
  PROVE  SpareInv'
  <1>1. IInv /\ AloneInv /\ WorkersOK /\ worker[w] \in Runs /\ Step(w) /\ cursor' = cursor
    BY DEF RepairInv, IInv, WorkersOK, Step, ReadCursor, CheckTip, db
  <1>2. ASSUME NEW r, Becomes(w, r), r.pc \in {"tip", "recent"}, cursor # NoCursor,
               r.last = cursor.last
        PROVE  SpareInv'
    <2>1. worker'[w] = r
      BY <1>1, <1>2, OthersStay
    <2> QED  BY <1>1, <1>2, <2>1, SpareStep DEF Spares
  <1>3. CASE Throw(w)
    <2>1. TurnsAside(w)
      BY <1>1, <1>3, ThrowIs, OthersStay DEF TurnsAside, Repairing
    <2> QED  BY <1>1, <2>1, TurnIsSpare
  <1>4. ASSUME NEW n, Plan(w, n)
        PROVE  SpareInv'
    <2>1. PICK pc \in {"observe", "fetch"} :
            Becomes(w, [worker[w] EXCEPT !.pc = pc, !.status = "caught-up", !.next = n,
                                         !.last = NoBlock, !.found = {}])
      BY <1>4 DEF Plan
    <2>2. ASSUME NEW r, Becomes(w, r), r.pc \in {"observe", "fetch"}
          PROVE  TurnsAside(w)
      BY <1>1, <2>2, OthersStay DEF TurnsAside, Repairing
    <2>3. TurnsAside(w)
      BY <1>1, <2>1, <2>2 DEF Runs
    <2> QED  BY <1>1, <2>3, TurnIsSpare
  <1>5. CASE ReadCursor(w)
    <2>1. CASE Becomes(w, [worker[w] EXCEPT !.pc = "tip", !.next = cursor.next,
                                            !.last = cursor.last])
      <3>1. cursor # NoCursor
        BY <1>5 DEF ReadCursor
      <3> QED  BY <1>1, <1>2, <2>1, <3>1 DEF Runs
    <2> QED  BY <1>3, <1>4, <1>5, <2>1 DEF ReadCursor
  <1>6. CASE CheckTip(w)
    <2>1. cursor # NoCursor /\ worker[w].last = cursor.last
      BY <1>6 DEF CheckTip, AtStep, RepairInv, SpareInv, Spares
    <2>2. CASE Goto(w, "recent")
      BY <1>1, <1>2, <2>1, <2>2 DEF Goto, Runs
    <2> QED  BY <1>4, <1>6, <2>2 DEF CheckTip
  <1> QED  BY <1>5, <1>6

\* The lookback takes the newest stored blocks: whatever it leaves out is older
\* than everything it takes.
LEMMA RecentSpare ==
  ASSUME RepairInv, NEW w \in Workers, LoadRecentBlocks(w)
  PROVE  SpareInv'
  <1>1. /\ IInv /\ AloneInv /\ ChainOK /\ CursorOK /\ WorkersOK /\ worker[w] \in Runs
        /\ Step(w) /\ blocks' = blocks
    BY DEF RepairInv, IInv, WorkersOK, Step, LoadRecentBlocks, db
  <1>2. cursor # NoCursor /\ worker[w].last = cursor.last
    BY DEF LoadRecentBlocks, AtStep, RepairInv, SpareInv, Spares
  <1>3. \A b \in blocks : b.height \in Nat /\ b.height <= worker[w].last.height
    <2>1. /\ cursor \in Cursors /\ cursor.next = cursor.last.height + 1
          /\ \A b \in blocks : b.height < cursor.next
      BY <1>1, <1>2 DEF CursorOK
    <2>2. cursor.last.height \in Int
      BY <2>1, BlockFacts, NoBlockFacts, Bounds DEF Cursors
    <2>3. \A b \in blocks : b.height \in Nat
      BY <1>1, BlockFacts, Bounds DEF ChainOK
    <2> QED  BY <1>2, <2>1, <2>2, <2>3
  <1> DEFINE Up(b) == {c \in blocks : c.height >= b.height}
             F == {b \in blocks : Cardinality(Up(b)) <= Lookback}
  <1>4. {b \in blocks : b.height <= worker[w].last.height} = blocks
    BY <1>3
  <1>5. Becomes(w, [worker[w] EXCEPT !.pc = "probe", !.found = F])
    BY <1>4 DEF LoadRecentBlocks
  <1>6. worker'[w].pc = "probe" /\ worker'[w].found = F
    <2> HIDE DEF F
    <2> QED  BY <1>1, <1>5, OthersStay DEF Runs
  <1>7. ASSUME NEW b \in blocks, NEW d \in F, b \notin F
        PROVE  b.height < d.height
    <2> SUFFICES ASSUME ~(b.height < d.height)
                 PROVE  FALSE
      OBVIOUS
    <2>1. d \in blocks /\ b.height \in Nat /\ d.height \in Nat
      BY <1>3
    <2>2. d.height <= b.height
      BY <2>1
    <2>3. Up(b) \subseteq Up(d)
      BY <1>3, <2>1, <2>2
    <2>4. Up(d) \subseteq blocks /\ IsFiniteSet(blocks)
      BY <1>1, StoredFinite
    <2>5. IsFiniteSet(Up(d)) /\ IsFiniteSet(Up(b))
      BY <2>3, <2>4, FS_Subset
    <2>6. Cardinality(Up(b)) <= Cardinality(Up(d))
      BY <2>3, <2>5, FS_Subset
    <2>7. Cardinality(Up(b)) \in Nat /\ Cardinality(Up(d)) \in Nat /\ Lookback \in Nat
      BY <2>5, FS_CardinalityType, BoundsAssumption
    <2>8. Cardinality(Up(d)) <= Lookback /\ ~(Cardinality(Up(b)) <= Lookback)
      BY <1>7
    <2> HIDE DEF Up
    <2> QED  BY <2>6, <2>7, <2>8
  <1> HIDE DEF F
  <1>8. Spares(worker'[w], blocks', branch', cursor')
    BY <1>1, <1>6, <1>7 DEF Spares
  <1> QED  BY <1>1, <1>8, SpareStep

LEMMA ProbeSpare ==
  ASSUME RepairInv, NEW w \in Workers, ProbeAncestor(w)
  PROVE  SpareInv'
  <1>1. /\ IInv /\ AloneInv /\ ChainOK /\ WorkersOK /\ worker[w] \in Runs /\ Step(w)
        /\ blocks' = blocks /\ branch' = branch
    BY DEF RepairInv, IInv, WorkersOK, Step, ProbeAncestor, db, chain
  <1> DEFINE S == worker[w].found
             d == Newest(S)
  <1>2. \A b \in blocks : b \in S \/ Lost(b, branch) \/ \A c \in S : b.height < c.height
    BY DEF ProbeAncestor, AtStep, RepairInv, SpareInv, Spares
  <1>3. S \subseteq Blocks /\ \A b \in S : Known(b, branch, head)
    BY <1>1 DEF Runs, RepairInv, KnownInv
  <1>4. \A b \in Blocks : b.height \in Nat
    BY BlockFacts, Bounds
  <1>5. CASE S = {}
    <2>1. Throw(w)
      BY <1>5 DEF ProbeAncestor
    <2>2. TurnsAside(w)
      BY <1>1, <2>1, ThrowIs, OthersStay DEF TurnsAside, Repairing
    <2> QED  BY <1>1, <2>2, TurnIsSpare
  <1>6. CASE S # {} /\ d \in Canonical(d.height)
    <2>1. d \in S /\ \A c \in S : c.height <= d.height
      BY <1>3, <1>6, NewestFacts
    <2>2. Becomes(w, [worker[w] EXCEPT !.pc = "rollback", !.last = d, !.found = {}])
      BY <1>6 DEF ProbeAncestor
    <2> HIDE DEF d
    <2>3. worker'[w].pc = "rollback" /\ worker'[w].last = d
      <3>1. ASSUME NEW r, Becomes(w, r)
            PROVE  worker'[w] = r
        BY <1>1, <3>1, OthersStay
      <3>2. worker'[w] = [worker[w] EXCEPT !.pc = "rollback", !.last = d, !.found = {}]
        BY <2>2, <3>1
      <3> QED  BY <1>1, <3>2 DEF Runs
    <2>4. ASSUME NEW b \in blocks, b.height > d.height
          PROVE  Lost(b, branch)
      <3>1. b.height \in Nat /\ d.height \in Nat
        BY <1>1, <1>3, <1>4, <2>1 DEF ChainOK
      <3>2. b \notin S
        BY <2>1, <2>4, <3>1, <1>3, <1>4
      <3>3. ~(b.height < d.height)
        BY <2>4, <3>1
      <3> QED  BY <1>2, <2>1, <3>2, <3>3
    <2>5. Spares(worker'[w], blocks', branch', cursor')
      BY <1>1, <2>3, <2>4 DEF Spares
    <2> QED  BY <1>1, <2>5, SpareStep
  <1>7. CASE S # {} /\ d \notin Canonical(d.height)
    <2>1. d \in S
      BY <1>3, <1>7, NewestFacts
    <2>2. Lost(d, branch)
      BY <1>1, <1>3, <1>7, <2>1, NotCanonicalIsLost
    <2>3. Becomes(w, [worker[w] EXCEPT !.found = @ \ {d}])
      BY <1>7 DEF ProbeAncestor
    <2> HIDE DEF d
    <2>4. worker'[w].pc = "probe" /\ worker'[w].found = S \ {d}
      BY <1>1, <2>3, OthersStay DEF ProbeAncestor, AtStep, Runs
    <2> HIDE DEF S
    <2>5. Spares(worker'[w], blocks', branch', cursor')
      BY <1>1, <1>2, <2>2, <2>4 DEF Spares
    <2> QED  BY <1>1, <2>5, SpareStep
  <1> QED  BY <1>5, <1>6, <1>7

LEMMA EnvironmentSpare ==
  ASSUME RepairInv, LeaseExpires \/ Grow \/ Reorg
  PROVE  SpareInv'
  <1>1. UNCHANGED <<worker, blocks, cursor>>
    BY DEF LeaseExpires, Grow, Reorg, db
  <1>2. CASE branch' = branch
    BY <1>1, <1>2 DEF RepairInv, SpareInv
  <1>3. CASE Reorg
    <2>1. branch \in Nat /\ branch + 1 \in DOMAIN ForkHeight /\ branch' = branch + 1
      BY <1>3, ForkCount DEF Reorg, RepairInv, IInv, ChainOK, Branches
    <2>2. ASSUME NEW b \in blocks, Lost(b, branch)
          PROVE  Lost(b, branch')
      <3>1. b \in Blocks /\ b.branch \in 0 .. branch
        BY DEF RepairInv, IInv, ChainOK, KnownInv, Known
      <3> QED  BY <2>1, <2>2, <3>1, LostForGood
    <2> QED  BY <1>1, <2>2 DEF RepairInv, SpareInv, Spares
  <1> QED  BY <1>2, <1>3 DEF LeaseExpires, Grow, chain

LEMMA RepairNext ==
  ASSUME LeaseOutlivesRun, RepairInv, [Next]_vars
  PROVE  RepairInv'
  <1>1. IInv' /\ AloneInv' /\ KnownInv'
    BY NextInv, AloneNext, KnownNext DEF RepairInv
  <1>2. SpareInv'
    <2>1. CASE UNCHANGED vars
      BY <2>1 DEF vars, RepairInv, SpareInv
    <2>2. ASSUME NEW w \in Workers, Acquire(w) \/ Step(w) \/ Abort(w) \/ Crash(w)
          PROVE  SpareInv'
      <3>1. CASE RepairStep(w)
        BY <3>1, ReadSpare, RecentSpare, ProbeSpare DEF RepairStep
      <3>2. CASE ~RepairStep(w)
        <4>1. TurnsAside(w)
          BY <2>2, <3>2, PlainTurns, QueryTurns
          DEF RepairInv, TurnsAside, TurnsHome, Home, Querying, Repairing
        <4> QED  BY <2>2, <4>1, TurnIsSpare DEF RepairInv
      <3> QED  BY <3>1, <3>2
    <2> QED  BY <2>1, <2>2, EnvironmentSpare DEF Next
  <1> QED  BY <1>1, <1>2 DEF RepairInv

LEMMA RepairInit == Init => RepairInv
  BY InitInv, AloneInit, KnownInit DEF RepairInv, SpareInv, Spares, Init, Idle

\* Only a rollback removes blocks, and those it removes are lost.
LEMMA RemovedAreLost ==
  ASSUME RepairInv, [Next]_vars, NEW b \in blocks \ blocks'
  PROVE  b \notin Canonical(b.height)
  <1>1. PICK w \in Workers : Rollback(w)
    BY BlocksAfter DEF Next, vars, LeaseExpires, Grow, Reorg, db
  <1>2. blocks' = {c \in blocks : c.height <= worker[w].last.height}
    BY <1>1 DEF Rollback, RollbackChain, db
  <1>3. b.height \in Nat /\ worker[w].last.height \in Int
    BY BlockFacts, NoBlockFacts, Bounds DEF RepairInv, IInv, ChainOK, WorkersOK, Runs
  <1>4. Lost(b, branch)
    BY <1>1, <1>2, <1>3 DEF Rollback, AtStep, RepairInv, SpareInv, Spares
  <1> QED  BY <1>4, LostIsNotCanonical

\* While the lease is exclusive, repairReorg deletes no block that is on the
\* canonical chain at that moment, whatever the chain does while it probes.
THEOREM RollbacksUndoForks == LeaseOutlivesRun => (Spec => RollbackSparesCanonical)
  <1>1. RepairInv /\ [Next]_vars => [\A b \in blocks \ blocks' : b \notin Canonical(b.height)]_vars
    BY RemovedAreLost
  <1> SUFFICES ASSUME LeaseOutlivesRun
               PROVE  Spec => RollbackSparesCanonical
    OBVIOUS
  <1>2. RepairInv /\ [Next]_vars => RepairInv'
    BY RepairNext
  <1> QED  BY <1>1, <1>2, RepairInit, PTL DEF Spec, RollbackSparesCanonical

-----------------------------------------------------------------------------
(* What a window that is read has of the blocks that are still on the chain. *)

LEMMA LargestFork ==
  ASSUME NEW n \in Nat, NEW S \in SUBSET (0 .. n), S # {}
  PROVE  Max(S) \in S /\ \A y \in S : Max(S) >= y
  <1> DEFINE T == {n - x : x \in S}
  <1>1. \A x \in S : x \in Nat /\ x <= n /\ n - x \in Nat
    OBVIOUS
  <1>2. T \in SUBSET Nat /\ T # {}
    BY <1>1, Zenon
  <1>3. PICK d \in T : \A y \in T : d <= y
    BY <1>2, LeastNatural
  <1>4. PICK x \in S : d = n - x
    BY <1>3
  <1>5. \A y \in S : n - x <= n - y
    BY <1>3, <1>4
  <1>6. \A y \in S : x >= y
    BY <1>1, <1>5
  <1> QED  BY <1>4, <1>6 DEF Max

\* The blocks of a branch are each the parent of the next.
LEMMA ParentOn ==
  ASSUME NEW br \in Branches, NEW h \in Heights, h > Start
  PROVE  Parent(BlockOn(br, h)) = BlockOn(br, h - 1)
  <1> DEFINE forks(b, k) == {0} \cup {c \in 1 .. b : ForkHeight[c] <= k}
             m == Max(forks(br, h))
  <1>1. br \in Nat /\ h \in Nat /\ h - 1 \in Nat /\ h - 1 <= h
    BY ForkCount, Bounds DEF Branches, Heights
  <1>2. \A c \in 1 .. br : ForkHeight[c] \in Nat
    BY ForkAssumption, ForkCount, ForkFacts DEF Branches
  <1>3. forks(br, h) \in SUBSET (0 .. br) /\ 0 \in forks(br, h)
    BY <1>1
  <1>4. m \in forks(br, h) /\ \A c \in forks(br, h) : m >= c
    <2> HIDE DEF forks
    <2> QED  BY <1>1, <1>3, LargestFork
  <1> HIDE DEF m
  <1>5. m \in 0 .. br
    BY <1>3, <1>4
  <1>6. \A c \in 1 .. br : ForkHeight[c] <= h - 1 => c \in forks(br, h)
    BY <1>1, <1>2
  <1>7. forks(m, h - 1) = forks(br, h - 1)
    BY <1>1, <1>4, <1>5, <1>6
  <1>8. BlockOn(br, h).branch = m /\ BlockOn(br, h).height = h
    BY DEF BlockOn, m
  <1>9. BlockOn(m, h - 1) = BlockOn(br, h - 1)
    BY <1>7 DEF BlockOn
  <1> QED  BY <1>8, <1>9 DEF Parent

\* Below a block of the branch br, a set that holds the parent of each of its
\* blocks holds the whole branch.
LEMMA Ancestors ==
  ASSUME NEW S \in SUBSET Blocks, \A b \in S : b.height > Start => Parent(b) \in S,
         NEW br \in Branches, NEW top \in S, ~Lost(top, br)
  PROVE  \A h \in Start .. top.height : BlockOn(br, h) \in S
  <1>1. top.height \in Nat /\ Start \in Nat /\ top.height <= MaxHeight /\ MaxHeight \in Nat
    BY BlockFacts, Bounds
  <1>2. BlockOn(br, top.height) = top
    BY DEF Lost
  <1> DEFINE Missing == {h \in Start .. top.height : BlockOn(br, h) \notin S}
             T == {top.height - h : h \in Missing}
  <1>3. ASSUME Missing # {}
        PROVE  FALSE
    <2>1. T \in SUBSET Nat /\ T # {}
      BY <1>1, <1>3
    <2>2. PICK d \in T : \A y \in T : d <= y
      BY <2>1, LeastNatural
    <2>3. PICK h \in Missing : d = top.height - h
      BY <2>2
    <2>4. h \in Nat /\ Start <= h /\ h <= top.height /\ BlockOn(br, h) \notin S
      BY <1>1
    <2>5. h # top.height
      BY <1>2, <2>4
    <2>6. h + 1 \in Start .. top.height /\ h + 1 \in Heights /\ h + 1 > Start
      BY <1>1, <2>4, <2>5 DEF Heights
    <2>7. BlockOn(br, h + 1) \in S
      <3>1. ASSUME BlockOn(br, h + 1) \notin S
            PROVE  FALSE
        <4>1. top.height - (h + 1) \in T
          BY <2>6, <3>1
        <4>2. d <= top.height - (h + 1)
          BY <2>2, <4>1
        <4> QED  BY <1>1, <2>3, <2>4, <4>2
      <3> QED  BY <3>1
    <2>8. BlockOn(br, h + 1).height > Start
      BY <2>6, HeightOfBlockOn
    <2>9. (h + 1) - 1 = h
      BY <2>4
    <2>10. Parent(BlockOn(br, h + 1)) = BlockOn(br, h)
      BY <2>6, <2>9, ParentOn
    <2> QED  BY <2>4, <2>7, <2>8, <2>10
  <1> QED  BY <1>3

\* Of the blocks of a window that are on branch br the invocation has the logs
\* of the contracts, and the moves of the tokens it watches.
HasContracts(r, br) ==
  \A b \in r.found : ~Lost(b, br) => ContractLogs(b) \subseteq r.logs
HasMoves(r, br) ==
  \A b \in r.found : ~Lost(b, br) =>
    \A e \in MoveLogs(b) : e.token \in r.watched => e \in r.logs

\* What an invocation in local state r has read, with branch br and stored events
\* E.  When it has checked the tip, it has read a branch, the current one or one
\* that was current then.
ReadOn(r, c) ==
  /\ \E t \in r.found : t.height = LastOf(r) /\ ~Lost(t, c)
  /\ HasContracts(r, c) /\ HasMoves(r, c)

Reads(r, br, E) ==
  /\ r.pc \in {"watch", "moves", "check"} => HasContracts(r, br)
  /\ r.pc \in {"moves", "check", "commit"} =>
       Launched(E) \cup Launched(r.logs) \subseteq r.watched
  /\ r.pc = "check" => HasMoves(r, br)
  /\ r.pc = "commit" => \E c \in Branches : ReadOn(r, c)

ReadInv == \A w \in Workers : Reads(worker[w], branch, events)

\* Every stored block has all its logs.
Full == \A b \in blocks : Logs[b] \subseteq events

GateInv == IInv /\ AloneInv /\ KnownInv /\ Full /\ ReadInv

LEMMA ReadsStep ==
  ASSUME IInv, AloneInv, NEW w \in Workers, Acquire(w) \/ Step(w) \/ Abort(w) \/ Crash(w),
         Reads(worker'[w], branch', events')
  PROVE  ReadInv'
  <1>1. \A v \in Workers : v # w => worker[v].pc = "off" /\ worker'[v] = worker[v]
    BY OthersOff, FoundAfter DEF FindsReachable
  <1> QED  BY <1>1 DEF ReadInv, Reads, Querying

LEMMA RepairTurns ==
  ASSUME IInv, NEW w \in Workers, RepairStep(w)
  PROVE  worker'[w].pc \notin Querying
  <1>1. WorkersOK /\ worker[w] \in Runs
    BY DEF IInv, WorkersOK
  <1> DEFINE Done == worker'[w].pc \notin Querying
  <1>2. ASSUME NEW r, Becomes(w, r), r.pc \notin Querying
        PROVE  Done
    BY <1>1, <1>2, OthersStay
  <1> HIDE DEF Done
  <1>3. ASSUME Throw(w) PROVE Done
    BY <1>2, <1>3, ThrowIs DEF Querying
  <1>4. ASSUME NEW n, Plan(w, n) PROVE Done
    <2>1. PICK pc \in {"observe", "fetch"} :
            Becomes(w, [worker[w] EXCEPT !.pc = pc, !.status = "caught-up", !.next = n,
                                         !.last = NoBlock, !.found = {}])
      BY <1>4 DEF Plan
    <2> QED  BY <1>1, <1>2, <2>1 DEF Runs, Querying
  <1>5. ASSUME ReadCursor(w) PROVE Done
    <2>1. ASSUME Becomes(w, [worker[w] EXCEPT !.pc = "tip", !.next = cursor.next,
                                              !.last = cursor.last])
          PROVE  Done
      BY <1>1, <1>2, <2>1 DEF Runs, Querying
    <2> QED  BY <1>3, <1>4, <1>5, <2>1 DEF ReadCursor
  <1>6. ASSUME CheckTip(w) PROVE Done
    <2>1. ASSUME Goto(w, "recent") PROVE Done
      BY <1>1, <1>2, <2>1 DEF Goto, Runs, Querying
    <2> QED  BY <1>4, <1>6, <2>1 DEF CheckTip
  <1>7. ASSUME LoadRecentBlocks(w) PROVE Done
    <2>1. PICK F : Becomes(w, [worker[w] EXCEPT !.pc = "probe", !.found = F])
      BY <1>7 DEF LoadRecentBlocks
    <2> QED  BY <1>1, <1>2, <2>1 DEF Runs, Querying
  <1>8. ASSUME ProbeAncestor(w) PROVE Done
    <2>1. ASSUME NEW d, Becomes(w, [worker[w] EXCEPT !.pc = "rollback", !.last = d, !.found = {}])
          PROVE  Done
      BY <1>1, <1>2, <2>1 DEF Runs, Querying
    <2>2. ASSUME NEW d, Becomes(w, [worker[w] EXCEPT !.found = @ \ {d}])
          PROVE  Done
      <3>1. [worker[w] EXCEPT !.found = @ \ {d}].pc = "probe"
        BY <1>1, <1>8 DEF ProbeAncestor, AtStep, Runs
      <3> QED  BY <1>2, <2>2, <3>1 DEF Querying
    <2> QED  BY <1>3, <1>8, <2>1, <2>2 DEF ProbeAncestor
  <1>9. Done
    BY <1>5, <1>6, <1>7, <1>8 DEF RepairStep
  <1> QED  BY <1>9 DEF Done

\* What is read now: every block of the window that is still on the chain.
LEMMA WindowHasTheChain ==
  ASSUME IInv, KnownInv, NEW w \in Workers, WindowOK(worker[w]),
         NEW b \in worker[w].found, ~Lost(b, branch)
  PROVE  b \in Window(worker[w].next, Last(w))
  <1>1. /\ worker[w] \in Runs /\ Last(w) = LastOf(worker[w]) /\ b \in Blocks
        /\ worker[w].next <= b.height /\ b.height <= LastOf(worker[w])
    BY LastFacts DEF IInv, WorkersOK, Runs, WindowOK
  <1>2. b.height \in Nat /\ b.height >= Start
    BY <1>1, BlockFacts, Bounds
  <1>3. worker[w].next \in Nat /\ LastOf(worker[w]) \in Int
    BY <1>1, Bounds DEF Runs, LastOf
  <1>4. b.height <= head /\ b = BlockOn(branch, b.height)
    BY DEF KnownInv, Known, Lost
  <1>5. b \in Canonical(b.height)
    BY <1>2, <1>4 DEF Canonical, IInv, ChainOK
  <1>6. b.height \in worker[w].next .. Last(w)
    BY <1>1, <1>2, <1>3
  <1> QED  BY <1>5, <1>6 DEF Window

LEMMA QueryReads ==
  ASSUME GateInv, NEW w \in Workers, QueryStep(w)
  PROVE  ReadInv'
  <1>1. /\ IInv /\ AloneInv /\ KnownInv /\ WorkersOK /\ worker[w] \in Runs /\ Step(w)
        /\ branch' = branch /\ events' = events
        /\ worker[w].pc \in {"fetch", "watch", "moves", "check"} /\ WindowOK(worker[w])
        /\ Reads(worker[w], branch, events)
    BY DEF GateInv, ReadInv, IInv, WorkersOK, RunOK, Reading, Step, QueryStep, QueryContracts,
           LoadLaunches, QueryMoves, CheckWindow, AtStep, db, chain
  <1>2. ASSUME NEW r, Becomes(w, r), Reads(r, branch, events)
        PROVE  ReadInv'
    <2>1. worker'[w] = r
      BY <1>1, <1>2, OthersStay
    <2> QED  BY <1>1, <1>2, <2>1, ReadsStep
  <1>3. ASSUME Throw(w) PROVE ReadInv'
    BY <1>2, <1>3, ThrowIs DEF Reads, Querying
  <1>4. ASSUME QueryContracts(w) PROVE ReadInv'
    <2> DEFINE L == UNION {ContractLogs(b) : b \in Window(worker[w].next, Last(w))}
               r == [worker[w] EXCEPT !.pc = "watch", !.logs = @ \cup L]
    <2>1. \A b \in worker[w].found : ~Lost(b, branch) => ContractLogs(b) \subseteq L
      BY <1>1, WindowHasTheChain
    <2> HIDE DEF L
    <2>2. r.pc = "watch" /\ r.found = worker[w].found /\ L \subseteq r.logs
      BY <1>1 DEF Runs
    <2>3. Reads(r, branch, events)
      BY <2>1, <2>2 DEF Reads, HasContracts
    <2>4. Becomes(w, r) \/ Throw(w)
      BY <1>4 DEF QueryContracts, Accept, L
    <2> HIDE DEF r
    <2> QED  BY <1>2, <1>3, <2>3, <2>4
  <1>5. ASSUME LoadLaunches(w) PROVE ReadInv'
    <2> DEFINE r == [worker[w] EXCEPT !.pc = "moves", !.watched = WatchSet(w)]
    <2>1. /\ r.pc = "moves" /\ r.found = worker[w].found /\ r.logs = worker[w].logs
          /\ r.watched = WatchSet(w)
      BY <1>1 DEF Runs
    <2>2. worker[w].pc = "watch"
      BY <1>5 DEF LoadLaunches, AtStep
    <2>3. Becomes(w, r) \/ Throw(w)
      BY <1>5 DEF LoadLaunches
    <2> HIDE DEF r
    <2>4. Reads(r, branch, events)
      BY <1>1, <2>1, <2>2 DEF Reads, HasContracts, WatchSet
    <2> QED  BY <1>2, <1>3, <2>3, <2>4
  <1>6. ASSUME QueryMoves(w) PROVE ReadInv'
    <2> DEFINE L == {e \in UNION {MoveLogs(b) : b \in Window(worker[w].next, Last(w))} :
                       e.token \in worker[w].watched}
               r == [worker[w] EXCEPT !.pc = "check", !.logs = @ \cup L]
    <2>1. \A b \in worker[w].found : ~Lost(b, branch) =>
            \A e \in MoveLogs(b) : e.token \in worker[w].watched => e \in L
      BY <1>1, WindowHasTheChain
    <2>2. \A e \in L : e.kind # "launch"
      BY DEF MoveLogs, Of
    <2>3. worker[w].pc = "moves"
      BY <1>6 DEF QueryMoves, AtStep
    <2>4. Becomes(w, r) \/ Throw(w)
      BY <1>6 DEF QueryMoves, Accept
    <2> HIDE DEF L
    <2>5. /\ r.pc = "check" /\ r.found = worker[w].found /\ r.logs = worker[w].logs \cup L
          /\ r.watched = worker[w].watched
      BY <1>1 DEF Runs
    <2> HIDE DEF r
    <2>6. Launched(r.logs) = Launched(worker[w].logs)
      BY <2>2, <2>5 DEF Launched
    <2>7. HasContracts(r, branch) /\ HasMoves(r, branch)
      BY <1>1, <2>1, <2>3, <2>5 DEF Reads, HasContracts, HasMoves
    <2>8. Reads(r, branch, events)
      BY <1>1, <2>3, <2>5, <2>6, <2>7 DEF Reads
    <2> QED  BY <1>2, <1>3, <2>4, <2>8
  <1>7. ASSUME CheckWindow(w) PROVE ReadInv'
    <2> DEFINE r == [worker[w] EXCEPT !.pc = "commit"]
    <2>1. /\ r.pc = "commit" /\ r.found = worker[w].found /\ r.logs = worker[w].logs
          /\ r.watched = worker[w].watched /\ r.next = worker[w].next
          /\ r.head = worker[w].head
      BY <1>1 DEF Runs
    <2>2. worker[w].pc = "check"
      BY <1>7 DEF CheckWindow, AtStep
    <2> HIDE DEF r
    <2>3. ASSUME TipUnchanged(w), Becomes(w, r)
          PROVE  ReadInv'
      <3>1. PICK t \in Canonical(Last(w)) : t \in worker[w].found
        BY <2>3 DEF TipUnchanged
      <3>2. t.height = LastOf(worker[w]) /\ t = BlockOn(branch, t.height)
        BY <1>1, <3>1, LastFacts, HeightOfBlockOn DEF Canonical
      <3>3. LastOf(r) = LastOf(worker[w])
        BY <2>1 DEF LastOf
      <3>4. HasContracts(r, branch) /\ HasMoves(r, branch)
        BY <1>1, <2>1, <2>2 DEF Reads, HasContracts, HasMoves
      <3>5. ReadOn(r, branch)
        BY <2>1, <3>1, <3>2, <3>3, <3>4 DEF ReadOn, Lost
      <3>6. branch \in Branches
        BY <1>1 DEF IInv, ChainOK
      <3>7. Reads(r, branch, events)
        BY <1>1, <2>1, <2>2, <3>5, <3>6 DEF Reads
      <3> QED  BY <1>2, <2>3, <3>7
    <2>4. (TipUnchanged(w) /\ Becomes(w, r)) \/ Throw(w)
      BY <1>7 DEF CheckWindow, Goto, r
    <2> QED  BY <1>3, <2>3, <2>4
  <1> QED  BY <1>4, <1>5, <1>6, <1>7 DEF QueryStep

\* Every other step leaves the windows it does not own, and reads none.
LEMMA OtherReads ==
  ASSUME GateInv, NEW w \in Workers, Acquire(w) \/ Step(w) \/ Abort(w) \/ Crash(w),
         ~QueryStep(w)
  PROVE  ReadInv'
  <1>1. worker'[w].pc \notin Querying
    BY PlainTurns, RepairTurns DEF GateInv, TurnsHome, Home, Querying
  <1> QED  BY <1>1, ReadsStep DEF GateInv, Reads, Querying

LEMMA DatabaseAfter ==
  ASSUME NEW w \in Workers, Acquire(w) \/ Step(w) \/ Abort(w) \/ Crash(w),
         ~Rollback(w), ~Ingest(w)
  PROVE  UNCHANGED <<blocks, events>>
  BY DEF Acquire, Abort, Crash, Step, db, PinSafeHead, BeforeDeployment, InitializeCursor,
         ReadCursor, CheckTip, LoadRecentBlocks, ProbeAncestor, RereadCursor, FetchBlock,
         QueryContracts, LoadLaunches, QueryMoves, CheckWindow, RecordObservation, Release

\* A batch that is accepted is one branch with the blocks below it.  The launches
\* of its tokens are on that branch, stored or in the same window, so it has all
\* its moves.
LEMMA IngestFull ==
  ASSUME GateInv, IInv', NEW w \in Workers, Ingest(w)
  PROVE  Full'
  <1> DEFINE r == worker[w]
  <1>1. /\ r \in Runs /\ WindowOK(r) /\ r.pc = "commit" /\ Reads(r, branch, events) /\ Full
    BY DEF GateInv, ReadInv, IInv, WorkersOK, RunOK, Reading, Ingest, AtStep
  <1>2. CASE ~Commits(w)
    BY <1>1, <1>2 DEF Ingest, Full
  <1>3. CASE Commits(w)
    <2>1. blocks' = blocks \cup r.found /\ events' = events \cup r.logs
      BY <1>3 DEF Ingest
    <2>2. /\ blocks' \in SUBSET Blocks /\ OnePerHeight(blocks')
          /\ \A b \in blocks' : b.height > Start => Parent(b) \in blocks'
      BY DEF IInv, ChainOK
    <2>3. Launched(events) \cup Launched(r.logs) \subseteq r.watched
      BY <1>1 DEF Reads
    <2>4. PICK c \in Branches : ReadOn(r, c)
      BY <1>1 DEF Reads
    <2>5. PICK t \in r.found : t.height = LastOf(r) /\ ~Lost(t, c)
      BY <2>4 DEF ReadOn
    <2>6. \A k \in Start .. t.height : BlockOn(c, k) \in blocks'
      BY <2>1, <2>2, <2>5, Ancestors
    <2>7. ASSUME NEW b \in r.found
          PROVE  b.height \in Heights /\ b.height <= t.height /\ b = BlockOn(c, b.height)
      <3>1. b \in blocks' /\ b.height \in Start .. MaxHeight /\ b.height <= t.height
        BY <1>1, <2>1, <2>2, <2>5, BlockFacts DEF WindowOK
      <3>2. t.height \in Nat
        BY <1>1, <2>5, BlockFacts, Bounds DEF Runs
      <3>3. b.height \in Start .. t.height
        BY <3>1, <3>2, Bounds
      <3>4. BlockOn(c, b.height) \in blocks'
        BY <2>6, <3>3
      <3> QED  BY <2>2, <3>1, <3>4, HeightOfBlockOn DEF OnePerHeight, Heights
    <2>8. \A b \in r.found : ContractLogs(b) \subseteq r.logs
      BY <2>4, <2>7 DEF ReadOn, HasContracts, Lost
    <2>9. ASSUME NEW b \in r.found, NEW e \in MoveLogs(b)
          PROVE  e.token \in r.watched
      <3>1. PICK k \in Start .. b.height : e.token \in Launched(Logs[BlockOn(c, k)])
        BY <2>7, <2>9, LaunchAssumption
      <3> DEFINE d == BlockOn(c, k)
      <3>2. t.height \in Nat /\ b.height \in Nat
        BY <1>1, <2>5, <2>7, BlockFacts, Bounds DEF Runs, Heights
      <3>3. k \in Start .. t.height
        BY <2>7, <3>1, <3>2
      <3>4. d \in blocks'
        BY <2>6, <3>3
      <3>5. PICK l \in Logs[d] : l.kind = "launch" /\ l.token = e.token
        BY <3>1 DEF Launched
      <3> HIDE DEF d
      <3>6. CASE d \in blocks
        <4>1. l \in events
          BY <1>1, <3>5, <3>6 DEF Full
        <4> QED  BY <2>3, <3>5, <4>1 DEF Launched
      <3>7. CASE d \in r.found
        <4>1. l \in ContractLogs(d)
          BY <3>5 DEF ContractLogs, MoveLogs, Of
        <4>2. l \in r.logs
          BY <2>8, <3>7, <4>1
        <4> QED  BY <2>3, <3>5, <4>2 DEF Launched
      <3> QED  BY <2>1, <3>4, <3>6, <3>7
    <2>10. ASSUME NEW b \in r.found
           PROVE  Logs[b] \subseteq r.logs
      <3>1. MoveLogs(b) \subseteq r.logs
        BY <2>4, <2>7, <2>9 DEF ReadOn, HasMoves, Lost
      <3> QED  BY <2>8, <3>1 DEF ContractLogs
    <2> QED  BY <1>1, <2>1, <2>10 DEF Full
  <1> QED  BY <1>2, <1>3

LEMMA RollbackFull ==
  ASSUME GateInv, NEW w \in Workers, Rollback(w)
  PROVE  Full'
  <1>1. branch' = branch /\ Full /\ blocks \subseteq Blocks
    BY DEF Rollback, chain, GateInv, IInv, ChainOK
  <1>2. CASE UNCHANGED db
    BY <1>1, <1>2 DEF Full, db
  <1>3. CASE RollbackChain(worker[w].last)
    <2>1. ASSUME NEW b \in blocks', NEW e \in Logs[b]
          PROVE  e \in events'
      <3>1. b \in blocks /\ b \in Blocks /\ b.height <= worker[w].last.height
        BY <1>1, <1>3 DEF RollbackChain
      <3>2. e \in events /\ e.block = b
        BY <1>1, <2>1, <3>1, LogFacts DEF Full
      <3> QED  BY <1>3, <3>1, <3>2 DEF RollbackChain, Kept
    <2> QED  BY <1>1, <2>1 DEF Full
  <1> QED  BY <1>2, <1>3 DEF Rollback

LEMMA ReorgGate ==
  ASSUME GateInv, Reorg
  PROVE  Full' /\ ReadInv'
  <1>1. /\ branch \in Nat /\ branch + 1 \in DOMAIN ForkHeight /\ branch' = branch + 1
        /\ UNCHANGED <<worker, blocks, events>>
    BY ForkCount DEF Reorg, GateInv, IInv, ChainOK, Branches, db
  <1>2. ASSUME NEW b \in Blocks, Known(b, branch, head), Lost(b, branch)
        PROVE  Lost(b, branch')
    BY <1>1, <1>2, LostForGood DEF Known
  <1>3. Full'
    BY <1>1 DEF GateInv, Full
  <1>4. ASSUME NEW w \in Workers
        PROVE  Reads(worker[w], branch', events)
    <2>1. \A b \in worker[w].found : ~Lost(b, branch') => ~Lost(b, branch)
      BY <1>2 DEF GateInv, IInv, WorkersOK, Runs, KnownInv
    <2>2. Reads(worker[w], branch, events)
      BY DEF GateInv, ReadInv
    <2> QED  BY <2>1, <2>2 DEF Reads, HasContracts, HasMoves
  <1> QED  BY <1>1, <1>3, <1>4 DEF ReadInv

LEMMA GateNext ==
  ASSUME LeaseOutlivesRun, GateInv, [Next]_vars
  PROVE  GateInv'
  <1>1. IInv' /\ AloneInv' /\ KnownInv'
    BY NextInv, AloneNext, KnownNext DEF GateInv
  <1>2. CASE UNCHANGED <<branch, blocks, events, worker>>
    BY <1>1, <1>2 DEF GateInv, Full, ReadInv
  <1>3. CASE Reorg
    BY <1>1, <1>3, ReorgGate DEF GateInv
  <1>4. ASSUME NEW w \in Workers, Acquire(w) \/ Step(w) \/ Abort(w) \/ Crash(w)
        PROVE  GateInv'
    <2>1. ReadInv'
      <3>1. CASE QueryStep(w)
        BY <3>1, QueryReads
      <3>2. CASE ~QueryStep(w)
        BY <1>4, <3>2, OtherReads
      <3> QED  BY <3>1, <3>2
    <2>2. Full'
      <3>1. CASE Ingest(w)
        BY <1>1, <3>1, IngestFull
      <3>2. CASE Rollback(w)
        BY <3>2, RollbackFull
      <3>3. CASE ~Ingest(w) /\ ~Rollback(w)
        BY <1>4, <3>3, DatabaseAfter, BlocksAfter DEF chain, GateInv, Full
      <3> QED  BY <3>1, <3>2, <3>3
    <2> QED  BY <1>1, <2>1, <2>2 DEF GateInv
  <1> QED  BY <1>2, <1>3, <1>4 DEF Next, vars, LeaseExpires, Grow, chain, db

LEMMA GateInit == Init => GateInv
  BY InitInv, AloneInit, KnownInit DEF GateInv, Full, ReadInv, Reads, Querying, Init, Idle

LEMMA GateHolds ==
  ASSUME GateInv
  PROVE  GateMeansCanonical
  <1> SUFFICES ASSUME NEW h \in Heights, Reconcilable(h)
               PROVE  {e \in events : e.block.height <= h}
                      = UNION {Logs[b] : b \in Window(Start, h)}
    BY DEF GateMeansCanonical
  <1>1. /\ branch \in Branches /\ blocks \in SUBSET Blocks /\ OnePerHeight(blocks)
        /\ (\A b \in blocks : b.height > Start => Parent(b) \in blocks)
        /\ Full /\ \A e \in events : e \in Events /\ e.block \in blocks
    BY DEF GateInv, IInv, ChainOK, EventsOK
  <1>2. h \in Nat /\ h <= head /\ head \in Nat /\ Start \in Nat
    BY Bounds DEF Reconcilable, SafeHead, GateInv, IInv, ChainOK, Heights
  <1>3. PICK top \in blocks : top = BlockOn(branch, h)
    BY DEF Reconcilable, Canonical
  <1>4. top.height = h /\ ~Lost(top, branch)
    BY <1>3, HeightOfBlockOn DEF Lost
  <1>5. \A k \in Start .. h : BlockOn(branch, k) \in blocks
    BY <1>1, <1>4, Ancestors
  <1>6. ASSUME NEW e \in events, e.block.height <= h
        PROVE  e \in UNION {Logs[b] : b \in Window(Start, h)}
    <2> DEFINE k == e.block.height
    <2>1. e.block \in Blocks /\ k \in Start .. h
      BY <1>1, <1>2, <1>6, BlockFacts
    <2>2. e.block = BlockOn(branch, k)
      BY <1>1, <1>5, <2>1, HeightOfBlockOn DEF OnePerHeight
    <2>3. e.block \in Canonical(k)
      BY <1>2, <2>1, <2>2 DEF Canonical
    <2>4. e.block \in Window(Start, h)
      BY <2>1, <2>3 DEF Window
    <2>5. PICK b \in Blocks : e \in Logs[b]
      BY <1>1 DEF Events
    <2>6. e.block = b
      BY <2>5, LogFacts
    <2> QED  BY <2>4, <2>5, <2>6
  <1>7. ASSUME NEW b \in Window(Start, h), NEW e \in Logs[b]
        PROVE  e \in events /\ e.block.height <= h
    <2>1. PICK k \in Start .. h : b \in Canonical(k)
      BY <1>7 DEF Window
    <2>2. b = BlockOn(branch, k)
      BY <2>1 DEF Canonical
    <2>3. b.height = k /\ ~Lost(b, branch) /\ b \in blocks
      BY <1>5, <2>1, <2>2, HeightOfBlockOn DEF Lost
    <2>4. e \in events /\ e.block = b
      BY <1>1, <1>7, <2>3, LogFacts DEF Full
    <2> QED  BY <1>2, <2>1, <2>3, <2>4
  <1> QED  BY <1>6, <1>7

\* While the lease is exclusive, a block that passes the gate of the
\* reconciliation has, with all blocks below it, exactly the events of the
\* canonical chain, however often the chain reorganised while they were read.
THEOREM GateShowsTheChain == LeaseOutlivesRun => (Spec => []GateMeansCanonical)
  <1> SUFFICES ASSUME LeaseOutlivesRun
               PROVE  Spec => []GateMeansCanonical
    OBVIOUS
  <1>1. GateInv /\ [Next]_vars => GateInv'
    BY GateNext
  <1>2. GateInv => GateMeansCanonical
    BY GateHolds
  <1> QED  BY <1>1, <1>2, GateInit, PTL DEF Spec

-----------------------------------------------------------------------------
(* The pages readers see.                                                    *)

Shown == [i \in 1 .. Cardinality(blocks) |-> PageAt(Start + i - 1)]

FullPages == {FullPage(b) : b \in Blocks}

\* The pages are the stored blocks by height, each with all its logs.
ByHeight ==
  /\ Cardinality(blocks) \in Nat
  /\ \A b \in blocks : b.height - Start + 1 \in 1 .. Cardinality(blocks)
  /\ \A i \in 1 .. Cardinality(blocks) :
       \E b \in blocks : b.height = Start + i - 1 /\ Shown[i] = FullPage(b)

LEMMA CountHeights ==
  ASSUME IInv
  PROVE  \E n \in Nat : /\ Cardinality(blocks) = n
                        /\ {b.height : b \in blocks} = Start .. Start + n - 1
  <1>1. PICK m \in Nat : m >= Start /\ {b.height : b \in blocks} = Start .. m - 1
    <2>1. CASE blocks = {}
      <3>1. {b.height : b \in blocks} = Start .. Start - 1
        BY <2>1, Bounds
      <3> QED  BY <3>1, Bounds
    <2>2. CASE blocks # {}
      <3>1. /\ cursor \in Cursors /\ Spans(blocks, Start, cursor.next - 1)
            /\ \A b \in blocks : b.height < cursor.next
        BY <2>2 DEF IInv, CursorOK
      <3>2. cursor.next \in Nat /\ cursor.next >= Start
        BY <3>1, Bounds DEF Cursors
      <3>3. \A b \in blocks : b.height \in Start .. cursor.next - 1
        BY <3>1, <3>2, BlockFacts, Bounds DEF IInv, ChainOK
      <3>4. {b.height : b \in blocks} = Start .. cursor.next - 1
        BY <3>1, <3>3 DEF Spans
      <3> QED  BY <3>2, <3>4
    <2> QED  BY <2>1, <2>2
  <1> DEFINE n == m - Start
             f == [b \in blocks |-> b.height]
  <1>2. n \in Nat /\ Start \in Nat /\ Start + n - 1 = m - 1
    BY <1>1, Bounds
  <1>3. f \in Bijection(blocks, Start .. m - 1)
    <2>1. f \in [blocks -> Start .. m - 1]
      BY <1>1
    <2>2. \A b, c \in blocks : f[b] = f[c] => b = c
      BY DEF IInv, ChainOK, OnePerHeight
    <2>3. \A h \in Start .. m - 1 : \E b \in blocks : f[b] = h
      BY <1>1
    <2> HIDE DEF f
    <2> QED  BY <2>1, <2>2, <2>3 DEF Bijection, Injection, Surjection, IsInjective
  <1>4. IsFiniteSet(Start .. m - 1) /\ Cardinality(Start .. m - 1) = n
    <2>1. Start \in Int /\ m - 1 \in Int
      BY <1>1, Bounds
    <2>2. /\ IsFiniteSet(Start .. m - 1)
          /\ Cardinality(Start .. m - 1) = IF Start > m - 1 THEN 0 ELSE (m - 1) - Start + 1
      BY <2>1, FS_Interval
    <2>3. (IF Start > m - 1 THEN 0 ELSE (m - 1) - Start + 1) = n
      BY <1>1, <1>2
    <2> QED  BY <2>2, <2>3
  <1>5. IsFiniteSet(blocks)
    BY StoredFinite DEF IInv
  <1>6. Cardinality(blocks) = Cardinality(Start .. m - 1)
    <2>1. ExistsBijection(blocks, Start .. m - 1)
      BY <1>3 DEF ExistsBijection
    <2> QED  BY <1>5, <2>1, FS_Bijection
  <1> QED  BY <1>1, <1>2, <1>4, <1>6

LEMMA PagesByHeight == IInv /\ Full => ByHeight
  <1> SUFFICES ASSUME IInv, Full
               PROVE  ByHeight
    OBVIOUS
  <1>1. PICK n \in Nat : /\ Cardinality(blocks) = n
                         /\ {b.height : b \in blocks} = Start .. Start + n - 1
    BY CountHeights
  <1>2. /\ blocks \subseteq Blocks /\ OnePerHeight(blocks) /\ Start \in Nat
        /\ \A e \in events : e \in Events
    BY Bounds DEF IInv, ChainOK, EventsOK
  <1>3. ASSUME NEW b \in blocks
        PROVE  b.height - Start + 1 \in 1 .. n
    <2>1. b.height \in Start .. Start + n - 1
      BY <1>1, <1>3
    <2> QED  BY <1>2, <2>1
  <1>4. ASSUME NEW i \in 1 .. n
        PROVE  \E b \in blocks : b.height = Start + i - 1 /\ Shown[i] = FullPage(b)
    <2> DEFINE h == Start + i - 1
    <2>1. h \in Start .. Start + n - 1
      BY <1>2
    <2>2. PICK b \in blocks : b.height = h
      BY <1>1, <2>1
    <2>3. \A x \in blocks : x.height = h => x = b
      BY <1>2, <2>2 DEF OnePerHeight
    <2>4. (CHOOSE x \in blocks : x.height = h) = b
      BY <2>2, <2>3
    <2>5. {e \in events : e.block = b} = Logs[b]
      <3>1. ASSUME NEW e \in events, e.block = b
            PROVE  e \in Logs[b]
        <4>1. PICK c \in Blocks : e \in Logs[c]
          BY <1>2 DEF Events
        <4> QED  BY <3>1, <4>1, LogFacts
      <3>2. \A e \in Logs[b] : e \in events /\ e.block = b
        BY <1>2, LogFacts DEF Full
      <3> QED  BY <3>1, <3>2
    <2>6. PageAt(h) = FullPage(b)
      BY <2>4, <2>5 DEF PageAt, FullPage
    <2>7. Shown[i] = PageAt(h)
      BY <1>1 DEF Shown
    <2> QED  BY <2>2, <2>6, <2>7
  <1> QED  BY <1>1, <1>3, <1>4 DEF ByHeight

\* The stored blocks as a sequence of pages.
Served ==
  /\ Shown \in Seq(FullPages)
  /\ Len(Shown) = Cardinality(blocks)
  /\ Shown # <<>> => IsFirst(Shown[1])
  /\ \A i \in 1 .. Len(Shown) - 1 : IsNext(Shown[i], Shown[i + 1])

LEMMA PagesServed == IInv /\ ByHeight => Served
  <1> SUFFICES ASSUME IInv, ByHeight
               PROVE  Served
    OBVIOUS
  <1> DEFINE n == Cardinality(blocks)
  <1>1. /\ n \in Nat
        /\ \A i \in 1 .. n :
             \E b \in blocks : b.height = Start + i - 1 /\ Shown[i] = FullPage(b)
    BY DEF ByHeight
  <1>2. /\ blocks \subseteq Blocks /\ OnePerHeight(blocks) /\ Start \in Nat
        /\ \A b \in blocks : b.height > Start => Parent(b) \in blocks
    BY Bounds DEF IInv, ChainOK
  <1>3. DOMAIN Shown = 1 .. n
    BY DEF Shown
  <1>4. Shown \in [1 .. n -> FullPages]
    <2>1. \A i \in 1 .. n : Shown[i] \in FullPages
      BY <1>1, <1>2 DEF FullPages
    <2>2. Shown = [i \in 1 .. n |-> Shown[i]]
      BY DEF Shown
    <2> HIDE DEF n
    <2> QED  BY <2>1, <2>2
  <1> HIDE DEF n
  <1>5. Shown \in Seq(FullPages) /\ Len(Shown) = n
    BY <1>1, <1>4
  <1>6. ASSUME NEW i \in 1 .. n, NEW b \in blocks, Shown[i] = FullPage(b)
        PROVE  Shown[i].block = b
    BY <1>6 DEF FullPage, Page
  <1>7. ASSUME Shown # <<>>
        PROVE  IsFirst(Shown[1])
    <2>1. 1 \in 1 .. n
      BY <1>1, <1>5, <1>7
    <2>2. PICK b \in blocks : b.height = Start + 1 - 1 /\ Shown[1] = FullPage(b)
      BY <1>1, <2>1
    <2> QED  BY <1>2, <1>6, <2>1, <2>2 DEF IsFirst
  <1>8. ASSUME NEW i \in 1 .. n - 1
        PROVE  IsNext(Shown[i], Shown[i + 1])
    <2>1. i \in 1 .. n /\ i + 1 \in 1 .. n
      BY <1>1
    <2>2. PICK b \in blocks : b.height = Start + i - 1 /\ Shown[i] = FullPage(b)
      BY <1>1, <2>1
    <2>3. PICK c \in blocks : c.height = Start + (i + 1) - 1 /\ Shown[i + 1] = FullPage(c)
      BY <1>1, <2>1
    <2>4. c.height > Start /\ c.height = b.height + 1 /\ c.height - 1 = b.height
      BY <1>2, <2>1, <2>2, <2>3
    <2>5. Parent(c) \in blocks /\ Parent(c).height = b.height
      BY <1>2, <2>4, BlockFacts
    <2>6. Parent(c) = b
      BY <1>2, <2>5 DEF OnePerHeight
    <2> QED  BY <1>6, <2>1, <2>2, <2>3, <2>4, <2>6 DEF IsNext
  <1> QED  BY <1>5, <1>7, <1>8 DEF Served, n

\* Heights that are stored before and after a step show the same page.
LEMMA SamePages ==
  ASSUME ByHeight, ByHeight', OnePerHeight(blocks \cup blocks'),
         NEW i \in 1 .. Cardinality(blocks), i \in 1 .. Cardinality(blocks'),
         blocks \subseteq blocks' \/ blocks' \subseteq blocks
  PROVE  Shown'[i] = Shown[i]
  <1>1. PICK b \in blocks : b.height = Start + i - 1 /\ Shown[i] = FullPage(b)
    BY DEF ByHeight
  <1>2. PICK c \in blocks' : c.height = Start + i - 1 /\ Shown'[i] = FullPage(c)
    BY DEF ByHeight
  <1>3. b = c
    BY <1>1, <1>2 DEF OnePerHeight
  <1> QED  BY <1>1, <1>2, <1>3

PagesInv == IInv /\ Full /\ ByHeight /\ Served

FiniteChain == IsFiniteSet(blocks)

LEMMA ChainFinite == ChainOK => FiniteChain
  BY StoredFinite DEF FiniteChain

\* An ingest adds pages at the end.
LEMMA GrownPages ==
  ASSUME PagesInv, PagesInv', blocks \subseteq blocks', blocks' # blocks
  PROVE  Index!Extend
  <1> DEFINE n == Cardinality(blocks)
             k == Cardinality(blocks')
  <1>1. OnePerHeight(blocks \cup blocks') /\ IsFiniteSet(blocks') /\ ChainOK'
    <2>1. ChainOK' => FiniteChain'
      BY ChainFinite, PTL
    <2> QED  BY <2>1 DEF FiniteChain, PagesInv, IInv, ChainOK, OnePerHeight
  <1>2. n <= k /\ n # k
    BY <1>1, FS_Subset
  <1>3. n \in Nat /\ k \in Nat /\ Len(Shown) = n /\ Len(Shown') = k
        /\ Shown \in Seq(FullPages) /\ Shown' \in Seq(FullPages)
    BY DEF PagesInv, ByHeight, Served
  <1>4. \A i \in 1 .. n : Shown'[i] = Shown[i]
    BY <1>1, <1>2, <1>3, SamePages DEF PagesInv
  <1> HIDE DEF n, k
  <1>5. SubSeq(Shown', 1, Len(Shown)) = Shown
    BY <1>2, <1>3, <1>4
  <1>6. \A i \in 1 .. Len(Shown') : Shown'[i] \in FullPages
    BY <1>3
  <1>7. Len(Shown') > Len(Shown)
    BY <1>2, <1>3
  <1>8. /\ Shown' # <<>> => IsFirst(Shown'[1])
        /\ \A i \in 1 .. Len(Shown') - 1 : IsNext(Shown'[i], Shown'[i + 1])
    BY DEF PagesInv, Served
  <1> QED  BY <1>5, <1>6, <1>7, <1>8 DEF Index!Extend, Index!Linked, Shown, FullPages

\* A rollback takes pages from the end and leaves its ancestor.
LEMMA ShrunkPages ==
  ASSUME PagesInv, PagesInv', blocks' \subseteq blocks, blocks' # blocks, blocks' # {}
  PROVE  Index!Truncate
  <1> DEFINE n == Cardinality(blocks)
             k == Cardinality(blocks')
  <1>1. OnePerHeight(blocks \cup blocks') /\ IsFiniteSet(blocks) /\ ChainOK
    BY StoredFinite DEF PagesInv, IInv, ChainOK, OnePerHeight
  <1>2. k <= n /\ n # k
    BY <1>1, FS_Subset
  <1>3. n \in Nat /\ k \in Nat /\ Len(Shown) = n /\ Len(Shown') = k
        /\ Shown \in Seq(FullPages) /\ Shown' \in Seq(FullPages)
    BY DEF PagesInv, ByHeight, Served
  <1>4. \A i \in 1 .. k : Shown'[i] = Shown[i]
    BY <1>1, <1>2, <1>3, SamePages DEF PagesInv
  <1>5. k # 0
    <2>1. PICK b \in blocks' : TRUE
      OBVIOUS
    <2>2. b.height - Start + 1 \in 1 .. k
      BY <2>1 DEF PagesInv, ByHeight
    <2> QED  BY <1>3, <2>2
  <1> HIDE DEF n, k
  <1>6. Shown' = SubSeq(Shown, 1, k) /\ k \in 1 .. Len(Shown) - 1 /\ Shown' # <<>>
    BY <1>2, <1>3, <1>4, <1>5
  <1> QED  BY <1>6 DEF Index!Truncate, Shown

LEMMA BlocksChange ==
  ASSUME IInv, [Next]_vars
  PROVE  \/ UNCHANGED <<blocks, events>>
         \/ blocks \subseteq blocks' /\ blocks' # blocks
         \/ blocks' \subseteq blocks /\ blocks' # blocks /\ blocks' # {}
  <1>1. CASE UNCHANGED <<blocks, events>>
    BY <1>1
  <1>2. ASSUME NEW w \in Workers, Ingest(w), Commits(w)
        PROVE  blocks \subseteq blocks' /\ blocks' # blocks
    <2>1. worker[w].pc = "commit"
      BY <1>2 DEF Ingest, AtStep
    <2>2. worker[w] \in Runs /\ WindowOK(worker[w])
      BY <2>1, FullWindow DEF Reading
    <2>3. Newest(worker[w].found) \in worker[w].found
          /\ Newest(worker[w].found).height = LastOf(worker[w])
      BY <2>1, <2>2, NewestOfWindow
    <2> DEFINE b == Newest(worker[w].found)
    <2>4. b.height >= worker[w].next /\ worker[w].next \in Nat /\ worker[w].next >= Start
      BY <2>2, <2>3 DEF WindowOK, Runs
    <2>5. cursor.next = worker[w].next
      BY <1>2 DEF Commits, Continues, ExtendsCursor
    <2>6. cursor # NoCursor
      BY <2>4, <2>5, Bounds DEF NoCursor
    <2>7. \A c \in blocks : c.height < cursor.next
      BY <2>6 DEF IInv, CursorOK
    <2>8. b \in Blocks /\ b.height \in Nat
      BY <2>2, <2>3, BlockFacts, Bounds DEF Runs
    <2> HIDE DEF b
    <2>9. b \notin blocks
      BY <2>4, <2>5, <2>7, <2>8
    <2>10. blocks' = blocks \cup worker[w].found
      BY <1>2 DEF Ingest
    <2> QED  BY <2>3, <2>9, <2>10 DEF b
  <1>3. ASSUME NEW w \in Workers, RollbackAccepted(worker[w].last),
               RollbackChain(worker[w].last)
        PROVE  \/ UNCHANGED <<blocks, events>>
               \/ blocks' \subseteq blocks /\ blocks' # blocks /\ blocks' # {}
    <2> DEFINE a == worker[w].last
    <2>1. /\ a \in blocks /\ blocks' = {b \in blocks : b.height <= a.height}
          /\ events' = {e \in events : e.block.height <= a.height}
      BY <1>3 DEF RollbackAccepted, RollbackChain, Kept
    <2>2. a.height \in Nat
      BY <2>1, BlockFacts, Bounds DEF IInv, ChainOK
    <2>3. a \in blocks' /\ blocks' \subseteq blocks
      BY <2>1, <2>2
    <2>4. \A e \in events : e.block \in blocks
      BY DEF IInv, EventsOK
    <2>5. blocks' = blocks => events' = events
      BY <2>1, <2>4
    <2> QED  BY <2>3, <2>5
  <1>4. ASSUME NEW w \in Workers, Acquire(w) \/ Step(w) \/ Abort(w) \/ Crash(w)
        PROVE  \/ UNCHANGED <<blocks, events>>
               \/ Ingest(w) /\ Commits(w)
               \/ RollbackAccepted(worker[w].last) /\ RollbackChain(worker[w].last)
    BY <1>4, DatabaseAfter DEF Rollback, Ingest, db
  <1> QED  BY <1>2, <1>3, <1>4 DEF Next, vars, LeaseExpires, Grow, Reorg, db

LEMMA StepShows ==
  ASSUME PagesInv, PagesInv', [Next]_vars
  PROVE  [Index!Next]_Shown
  <1>1. CASE UNCHANGED <<blocks, events>>
    BY <1>1 DEF Shown, PageAt
  <1> QED  BY <1>1, BlocksChange, GrownPages, ShrunkPages DEF PagesInv, Index!Next

\* While the lease is exclusive, every step of every invocation is one of
\* IndexedChain: readers see a linked chain of complete pages, those of blocks
\* that a reorg has already removed included, that grows or loses a suffix.
THEOREM IndexIsServed == LeaseOutlivesRun => (Spec => ImplementsIndexedChain)
  <1> SUFFICES ASSUME LeaseOutlivesRun
               PROVE  Spec => ImplementsIndexedChain
    OBVIOUS
  <1>1. GateInv => PagesInv
    BY PagesByHeight, PagesServed DEF GateInv, PagesInv
  <1>2. Init => Index!Init
    <2> SUFFICES ASSUME Init PROVE Shown = <<>>
      BY DEF Index!Init, Shown
    <2>1. PagesInv
      BY <1>1, GateInit
    <2>2. Cardinality(blocks) = 0
      BY FS_EmptySet DEF Init
    <2> QED  BY <2>1, <2>2 DEF PagesInv, Served
  <1>3. GateInv /\ [Next]_vars => GateInv'
    BY GateNext
  <1>4. PagesInv /\ PagesInv' /\ [Next]_vars => [Index!Next]_Shown
    BY StepShows
  <1> QED  BY <1>1, <1>2, <1>3, <1>4, GateInit, PTL
           DEF Spec, ImplementsIndexedChain, Index!Spec, Shown

-----------------------------------------------------------------------------
(* The derived rows.  A sum of integers is the difference of two             *)
(* cardinalities (Net), of what its gains and what its losses count; so      *)
(* that sums add up needs no induction, and sizes decrease only where the    *)
(* fold of a Tally is shown to be that difference (TallyIsNet).              *)

\* A change of a derived row, paired with its event as in Deltas.
KeyOf(x)  == x[2][1]
Amount(x) == x[2][2]

Units(x, n) == {x} \X (1 .. n)
Gains(R)    == UNION {Units(x, Amount(x)) : x \in R}
Losses(R)   == UNION {Units(x, -Amount(x)) : x \in R}
Net(R)      == Cardinality(Gains(R)) - Cardinality(Losses(R))
Summable(R) == IsFiniteSet(R) /\ \A x \in R : Amount(x) \in Int

LEMMA UnitCount ==
  ASSUME NEW x, NEW n \in Int
  PROVE  IsFiniteSet(Units(x, n)) /\ Cardinality(Units(x, n)) = IF n > 0 THEN n ELSE 0
  <1>1. IsFiniteSet(1 .. n) /\ Cardinality(1 .. n) = IF 1 > n THEN 0 ELSE n - 1 + 1
    BY FS_Interval
  <1>2. IsFiniteSet({x}) /\ Cardinality({x}) = 1
    BY FS_Singleton
  <1>3. /\ IsFiniteSet({x} \X (1 .. n))
        /\ Cardinality({x} \X (1 .. n)) = Cardinality({x}) * Cardinality(1 .. n)
    BY <1>1, <1>2, FS_Product
  <1>4. (IF 1 > n THEN 0 ELSE n - 1 + 1) = IF n > 0 THEN n ELSE 0
    OBVIOUS
  <1>5. Cardinality(1 .. n) \in Int
    BY <1>1, <1>4
  <1> QED  BY <1>1, <1>2, <1>3, <1>4, <1>5 DEF Units

LEMMA FiniteUnits ==
  ASSUME NEW R, Summable(R)
  PROVE  IsFiniteSet(Gains(R)) /\ IsFiniteSet(Losses(R))
  <1> DEFINE gain == [x \in R |-> Units(x, Amount(x))]
             loss == [x \in R |-> Units(x, -Amount(x))]
             gained == {Units(x, Amount(x)) : x \in R}
             lost == {Units(x, -Amount(x)) : x \in R}
  <1>1. gain \in Surjection(R, gained) /\ loss \in Surjection(R, lost)
    BY DEF Surjection
  <1>2. IsFiniteSet(gained) /\ IsFiniteSet(lost)
    BY <1>1, FS_Surjection DEF Summable
  <1>3. (\A T \in gained : IsFiniteSet(T)) /\ \A T \in lost : IsFiniteSet(T)
    <2>1. \A x \in R : Amount(x) \in Int /\ -Amount(x) \in Int
      BY DEF Summable
    <2> QED  BY <2>1, UnitCount
  <1> HIDE DEF gained, lost
  <1>4. IsFiniteSet(UNION gained) /\ IsFiniteSet(UNION lost)
    BY <1>2, <1>3, FS_UNION
  <1> QED  BY <1>4 DEF Gains, Losses, gained, lost

LEMMA NetType ==
  ASSUME NEW R, Summable(R)
  PROVE  Net(R) \in Int
  BY FiniteUnits, FS_CardinalityType DEF Net

LEMMA NetEmpty == Net({}) = 0
  <1>1. Gains({}) = {} /\ Losses({}) = {}
    BY DEF Gains, Losses
  <1> QED  BY <1>1, FS_EmptySet DEF Net

LEMMA NetSingle ==
  ASSUME NEW x, Amount(x) \in Int
  PROVE  Net({x}) = Amount(x)
  <1>1. Gains({x}) = Units(x, Amount(x)) /\ Losses({x}) = Units(x, -Amount(x))
    BY DEF Gains, Losses
  <1>2. /\ Cardinality(Units(x, Amount(x))) = IF Amount(x) > 0 THEN Amount(x) ELSE 0
        /\ Cardinality(Units(x, -Amount(x))) = IF -Amount(x) > 0 THEN -Amount(x) ELSE 0
    BY UnitCount
  <1> QED  BY <1>1, <1>2 DEF Net

\* Disjoint sets of changes add up.
LEMMA NetUnion ==
  ASSUME NEW R, NEW T, Summable(R), Summable(T), R \cap T = {}
  PROVE  Summable(R \cup T) /\ Net(R \cup T) = Net(R) + Net(T)
  <1>1. Summable(R \cup T)
    BY FS_Union DEF Summable
  <1>2. /\ Gains(R \cup T) = Gains(R) \cup Gains(T)
        /\ Losses(R \cup T) = Losses(R) \cup Losses(T)
    BY DEF Gains, Losses
  <1>3. Gains(R) \cap Gains(T) = {} /\ Losses(R) \cap Losses(T) = {}
    BY DEF Gains, Losses, Units
  <1>4. ASSUME NEW A, NEW B, IsFiniteSet(A), IsFiniteSet(B), A \cap B = {}
        PROVE  /\ Cardinality(A) \in Int /\ Cardinality(B) \in Int
               /\ Cardinality(A \cup B) = Cardinality(A) + Cardinality(B)
    <2>1. Cardinality(A \cup B) = Cardinality(A) + Cardinality(B) - Cardinality(A \cap B)
      BY <1>4, FS_Union
    <2>2. Cardinality(A) \in Nat /\ Cardinality(B) \in Nat /\ Cardinality(A \cap B) = 0
      BY <1>4, FS_CardinalityType, FS_EmptySet
    <2> QED  BY <2>1, <2>2
  <1>5. /\ IsFiniteSet(Gains(R)) /\ IsFiniteSet(Gains(T))
        /\ IsFiniteSet(Losses(R)) /\ IsFiniteSet(Losses(T))
    BY FiniteUnits
  <1>6. /\ Cardinality(Gains(R)) \in Int /\ Cardinality(Gains(T)) \in Int
        /\ Cardinality(Losses(R)) \in Int /\ Cardinality(Losses(T)) \in Int
        /\ Cardinality(Gains(R) \cup Gains(T)) = Cardinality(Gains(R)) + Cardinality(Gains(T))
        /\ Cardinality(Losses(R) \cup Losses(T)) = Cardinality(Losses(R)) + Cardinality(Losses(T))
    BY <1>3, <1>4, <1>5
  <1>7. \A a, b, c, d \in Int : (a + b) - (c + d) = (a - c) + (b - d)
    OBVIOUS
  <1>8. Net(R \cup T) = (Cardinality(Gains(R)) + Cardinality(Gains(T)))
                        - (Cardinality(Losses(R)) + Cardinality(Losses(T)))
    BY <1>2, <1>6 DEF Net
  <1>9. Net(R) + Net(T) = (Cardinality(Gains(R)) - Cardinality(Losses(R)))
                          + (Cardinality(Gains(T)) - Cardinality(Losses(T)))
    BY DEF Net
  <1>10. Net(R \cup T) = Net(R) + Net(T)
    BY <1>6, <1>7, <1>8, <1>9
  <1> QED  BY <1>1, <1>10

\* What the fold of a Tally computes.
Total(R) == Tally(R, LAMBDA x : x[2][2])

LEMMA TallyIsNet ==
  ASSUME NEW R, Summable(R)
  PROVE  Total(R) = Net(R)
  <1> DEFINE Any(s) == CHOOSE x \in s : TRUE
             Folds(f) == f = [s \in SUBSET R |->
                                IF s = {} THEN 0 ELSE Any(s)[2][2] + f[s \ {Any(s)}]]
             net == [s \in SUBSET R |-> Net(s)]
             fold == CHOOSE f : Folds(f)
  <1>1. Total(R) = fold[R]
    BY DEF Total, Tally, MapThenSumSet, MapThenFoldSet
  <1>2. ASSUME NEW s \in SUBSET R, s # {}
        PROVE  /\ Any(s) \in s /\ s \ {Any(s)} \in SUBSET R
               /\ Net(s) = Amount(Any(s)) + Net(s \ {Any(s)})
               /\ IsFiniteSet(s) /\ Cardinality(s \ {Any(s)}) < Cardinality(s)
    <2>1. PICK x : x = Any(s)
      OBVIOUS
    <2>2. x \in s
      BY <1>2, <2>1
    <2> HIDE DEF Any
    <2>3. IsFiniteSet(s) /\ \A y \in s : Amount(y) \in Int
      BY FS_Subset DEF Summable
    <2>4. Summable({x}) /\ Summable(s \ {x})
      BY <2>2, <2>3, FS_Singleton, FS_RemoveElement DEF Summable
    <2>5. Net({x} \cup (s \ {x})) = Net({x}) + Net(s \ {x})
      BY <2>4, NetUnion
    <2>6. {x} \cup (s \ {x}) = s /\ Net({x}) = Amount(x)
      BY <2>2, <2>3, NetSingle
    <2>7. Cardinality(s \ {x}) < Cardinality(s)
      <3>1. Cardinality(s \ {x}) = Cardinality(s) - 1
        BY <2>2, <2>3, FS_RemoveElement
      <3>2. Cardinality(s) \in Nat
        BY <2>3, FS_CardinalityType
      <3> QED  BY <3>1, <3>2
    <2> QED  BY <2>1, <2>2, <2>3, <2>5, <2>6, <2>7
  <1>3. Folds(net)
    <2>1. ASSUME NEW s \in SUBSET R
          PROVE  net[s] = IF s = {} THEN 0 ELSE Any(s)[2][2] + net[s \ {Any(s)}]
      BY <1>2, NetEmpty DEF Amount
    <2> QED  BY <2>1
  <1>4. Folds(fold)
    BY <1>3
  <1> HIDE DEF fold, net
  <1>5. \A s \in SUBSET R : fold[s] = IF s = {} THEN 0 ELSE Any(s)[2][2] + fold[s \ {Any(s)}]
    BY <1>4
  <1> DEFINE Wrong == {s \in SUBSET R : fold[s] # Net(s)}
             sizes == {Cardinality(s) : s \in Wrong}
  <1>6. Wrong = {}
    <2> SUFFICES ASSUME Wrong # {} PROVE FALSE
      OBVIOUS
    <2>1. sizes \in SUBSET Nat /\ sizes # {}
      BY FS_Subset, FS_CardinalityType DEF Summable
    <2>2. PICK n \in sizes : \A m \in sizes : n <= m
      BY <2>1, LeastNatural
    <2>3. PICK s \in Wrong : Cardinality(s) = n
      BY <2>2
    <2>4. s # {}
      BY <1>5, <2>3, NetEmpty
    <2>5. s \ {Any(s)} \notin Wrong
      <3>1. Cardinality(s \ {Any(s)}) < n
        BY <1>2, <2>3, <2>4
      <3>2. n \in Nat
        BY <2>1
      <3>3. ASSUME s \ {Any(s)} \in Wrong
            PROVE  FALSE
        <4>1. Cardinality(s \ {Any(s)}) \in sizes
          BY <3>3
        <4> QED  BY <2>1, <2>2, <3>1, <3>2, <4>1
      <3> QED  BY <3>3
    <2>6. fold[s \ {Any(s)}] = Net(s \ {Any(s)})
      BY <1>2, <2>3, <2>4, <2>5
    <2>7. fold[s] = Net(s)
      BY <1>2, <1>5, <2>3, <2>4, <2>6 DEF Amount
    <2> QED  BY <2>3, <2>7
  <1> QED  BY <1>1, <1>6

-----------------------------------------------------------------------------
(* The derived rows of a set of events.                                      *)

Changes(S)    == UNION {{<<e, r>> : r \in Rows(e)} : e \in S}
ChangesAt(S, k) == {x \in Changes(S) : KeyOf(x) = k}

LEMMA RowsSummable ==
  ASSUME NEW e \in Events
  PROVE  IsFiniteSet(Rows(e)) /\ \A r \in Rows(e) : r[2] \in Int
  <1>1. e.amount \in Int /\ -e.amount \in Int /\ 1 \in Int
    <2>1. PICK b \in Blocks : e \in Logs[b]
      BY DEF Events
    <2>2. PICK l \in LogsIn(b) : e = Event(b, l)
      BY <2>1 DEF Logs
    <2>3. e.amount = l.amount /\ l.amount \in Nat
      BY <2>2, LogAssumption DEF Event
    <2> QED  BY <2>3
  <1>2. ASSUME NEW a, NEW b
        PROVE  IsFiniteSet({a, b})
    <2>1. {a, b} = {a} \cup {b}
      OBVIOUS
    <2>2. IsFiniteSet({a})
      BY FS_Singleton
    <2>3. IsFiniteSet({a} \cup {b})
      BY <2>2, FS_AddElement
    <2> QED  BY <2>1, <2>3
  <1>3. ASSUME NEW k, NEW j, NEW m \in Int, NEW n \in Int,
               Rows(e) \subseteq {<<k, m>>, <<j, n>>}
        PROVE  IsFiniteSet(Rows(e)) /\ \A r \in Rows(e) : r[2] \in Int
    <2>1. IsFiniteSet(Rows(e))
      BY <1>2, <1>3, FS_Subset
    <2>2. ASSUME NEW r \in Rows(e)
          PROVE  r[2] \in Int
      <3>1. r = <<k, m>> \/ r = <<j, n>>
        BY <1>3
      <3> QED  BY <1>3, <3>1
    <2> QED  BY <2>1, <2>2
  <1>4. CASE e.kind = "transfer"
    <2>1. Rows(e) \subseteq {<<Balance(e.to, e.token), e.amount>>,
                             <<Balance(e.from, e.token), -e.amount>>}
      BY <1>4 DEF Rows, TransferRows
    <2> QED  BY <1>1, <1>3, <2>1
  <1>5. CASE e.kind = "swap"
    <2>1. Rows(e) \subseteq {<<Trades(e.token), 1>>, <<Trades(e.token), 1>>}
      BY <1>5 DEF Rows, SwapRows
    <2> QED  BY <1>1, <1>3, <2>1
  <1>6. CASE e.kind = "accrued"
    <2>1. Rows(e) \subseteq {<<AccruedTotal(e.token), e.amount>>,
                             <<AccruedTotal(e.token), e.amount>>}
      BY <1>6 DEF Rows, FeeRows
    <2> QED  BY <1>1, <1>3, <2>1
  <1>7. CASE e.kind = "swept"
    <2>1. Rows(e) \subseteq {<<SweptTotal(e.token), e.amount>>, <<SweepCalls(e.from), 1>>}
      BY <1>7 DEF Rows, FeeRows
    <2> QED  BY <1>1, <1>3, <2>1
  <1>8. CASE e.kind = "routed"
    <2>1. Rows(e) \subseteq {<<Bounty(e.from), e.amount>>, <<RouteCalls(e.from), 1>>}
      BY <1>8 DEF Rows, RouteRows
    <2> QED  BY <1>1, <1>3, <2>1
  <1>9. CASE e.kind \notin {"transfer", "swap", "accrued", "swept", "routed"}
    BY <1>9, FS_EmptySet DEF Rows
  <1> QED  BY <1>4, <1>5, <1>6, <1>7, <1>8, <1>9

LEMMA ChangesSummable ==
  ASSUME NEW S \in SUBSET Events, IsFiniteSet(S)
  PROVE  Summable(Changes(S)) /\ \A k : Summable(ChangesAt(S, k))
  <1> DEFINE of == [e \in S |-> {<<e, r>> : r \in Rows(e)}]
             all == {{<<e, r>> : r \in Rows(e)} : e \in S}
  <1>1. IsFiniteSet(all)
    <2>1. of \in Surjection(S, all)
      BY DEF Surjection
    <2> QED  BY <2>1, FS_Surjection
  <1>2. ASSUME NEW e \in S
        PROVE  IsFiniteSet({<<e, r>> : r \in Rows(e)})
    <2> DEFINE rows == {<<e, r>> : r \in Rows(e)}
               f == [r \in Rows(e) |-> <<e, r>>]
    <2>1. f \in Surjection(Rows(e), rows)
      BY DEF Surjection
    <2> QED  BY <2>1, RowsSummable, FS_Surjection
  <1>3. \A T \in all : IsFiniteSet(T)
    BY <1>2
  <1> HIDE DEF all
  <1>4. IsFiniteSet(UNION all)
    BY <1>1, <1>3, FS_UNION
  <1>5. IsFiniteSet(Changes(S))
    BY <1>4 DEF Changes, all
  <1>6. \A x \in Changes(S) : Amount(x) \in Int
    BY RowsSummable DEF Changes, Amount
  <1>7. ASSUME NEW k
        PROVE  Summable(ChangesAt(S, k))
    <2>1. ChangesAt(S, k) \in SUBSET Changes(S)
      BY DEF ChangesAt
    <2> QED  BY <1>5, <1>6, <2>1, FS_Subset DEF Summable
  <1> QED  BY <1>5, <1>6, <1>7 DEF Summable

\* What a set of events makes of the row at k.
LEMMA DeltasAt ==
  ASSUME NEW S \in SUBSET Events, IsFiniteSet(S), NEW k
  PROVE  /\ DOMAIN Deltas(S) = {KeyOf(x) : x \in Changes(S)}
         /\ At(Deltas(S), k) = Net(ChangesAt(S, k))
         /\ At(Deltas(S), k) \in Int
  <1>1. Deltas(S) = [j \in {KeyOf(x) : x \in Changes(S)} |-> Total(ChangesAt(S, j))]
    BY DEF Deltas, Changes, ChangesAt, KeyOf, Total
  <1>2. CASE k \in {KeyOf(x) : x \in Changes(S)}
    BY <1>1, <1>2, ChangesSummable, TallyIsNet, NetType DEF At
  <1>3. CASE k \notin {KeyOf(x) : x \in Changes(S)}
    <2>1. ChangesAt(S, k) = {}
      BY <1>3 DEF ChangesAt
    <2> QED  BY <1>1, <1>3, <2>1, NetEmpty DEF At
  <1> QED  BY <1>1, <1>2, <1>3

LEMMA DeltasUnion ==
  ASSUME NEW S \in SUBSET Events, NEW T \in SUBSET Events,
         IsFiniteSet(S), IsFiniteSet(T), S \cap T = {}, NEW k
  PROVE  At(Deltas(S \cup T), k) = At(Deltas(S), k) + At(Deltas(T), k)
  <1>1. ChangesAt(S \cup T, k) = ChangesAt(S, k) \cup ChangesAt(T, k)
    BY DEF Changes, ChangesAt
  <1>2. ChangesAt(S, k) \cap ChangesAt(T, k) = {}
    BY DEF Changes, ChangesAt
  <1>3. IsFiniteSet(S \cup T)
    BY FS_Union
  <1>4. Summable(ChangesAt(S, k)) /\ Summable(ChangesAt(T, k))
    BY ChangesSummable
  <1>5. Net(ChangesAt(S, k) \cup ChangesAt(T, k)) = Net(ChangesAt(S, k)) + Net(ChangesAt(T, k))
    BY <1>2, <1>4, NetUnion
  <1>6. At(Deltas(S \cup T), k) = Net(ChangesAt(S \cup T, k))
    BY <1>3, DeltasAt
  <1>7. /\ At(Deltas(S), k) = Net(ChangesAt(S, k))
        /\ At(Deltas(T), k) = Net(ChangesAt(T, k))
    BY DeltasAt
  <1> QED  BY <1>1, <1>5, <1>6, <1>7

\* A table of derived rows is determined by its numbers.
LEMMA NonZeroAt ==
  ASSUME NEW t, NEW k
  PROVE  /\ At(NonZero(t), k) = At(t, k)
         /\ k \in DOMAIN NonZero(t) <=> k \in DOMAIN t /\ t[k] # 0
  BY DEF At, NonZero

\* Inserting events that are not stored, or removing some that are, leaves the
\* derived rows of the events that are stored then.
LEMMA ShiftedExact ==
  ASSUME NEW S \in SUBSET Events, NEW T \in SUBSET Events, NEW U \in SUBSET Events,
         IsFiniteSet(S), IsFiniteSet(T), IsFiniteSet(U), NEW sign \in {1, -1},
         \A k : At(Deltas(U), k) = At(Deltas(S), k) + sign * At(Deltas(T), k)
  PROVE  Shifted(NonZero(Deltas(S)), T, sign) = NonZero(Deltas(U))
  <1> DEFINE old == NonZero(Deltas(S))
             change == Deltas(T)
             sum == [k \in DOMAIN old \cup DOMAIN change |-> At(old, k) + sign * At(change, k)]
             new == Deltas(U)
  <1>1. \A k : /\ At(old, k) = At(Deltas(S), k)
               /\ At(Deltas(S), k) \in Int /\ At(change, k) \in Int /\ At(new, k) \in Int
    BY NonZeroAt, DeltasAt
  <1>2. \A k : At(new, k) = At(old, k) + sign * At(change, k)
    BY <1>1
  <1>3. \A k : k \notin DOMAIN old => At(old, k) = 0
    BY DEF At
  <1>4. \A k : k \notin DOMAIN change => At(change, k) = 0
    BY DEF At
  <1> HIDE DEF old, change, new
  <1>5. \A k \in DOMAIN sum : sum[k] = At(new, k)
    BY <1>2
  <1>6. \A k : k \notin DOMAIN sum => At(new, k) = 0
    BY <1>2, <1>3, <1>4
  <1>7. \A k : k \in DOMAIN new => new[k] = At(new, k)
    BY DEF At
  <1>8. \A k : k \notin DOMAIN new => At(new, k) = 0
    BY DEF At
  <1> HIDE DEF sum
  <1>9. {k \in DOMAIN sum : sum[k] # 0} = {k \in DOMAIN new : new[k] # 0}
    BY <1>5, <1>6, <1>7, <1>8
  <1>10. NonZero(sum) = NonZero(new)
    BY <1>5, <1>7, <1>9 DEF NonZero
  <1>11. Shifted(old, T, sign) = NonZero(sum)
    BY DEF Shifted, sum, change
  <1> QED  BY <1>10, <1>11 DEF old, new

-----------------------------------------------------------------------------
(* The tables follow the events.                                             *)

TablesOK ==
  /\ tables = NonZero(Deltas(events))
  /\ \A k \in DOMAIN tables : tables[k] \in Nat \ {0}

LEMMA EventsFinite ==
  ASSUME NEW S \in SUBSET Events
  PROVE  IsFiniteSet(S)
  <1> DEFINE places == Branches \X Heights
             all == {Logs[b] : b \in Blocks}
             block == [p \in places |-> BlockOn(p[1], p[2])]
             log == [b \in Blocks |-> Logs[b]]
  <1>1. IsFiniteSet(places)
    <2>1. IsFiniteSet(Branches) /\ IsFiniteSet(Heights)
      BY ForkCount, Bounds, FS_Interval DEF Branches, Heights
    <2> QED  BY <2>1, FS_Product
  <1>2. IsFiniteSet(Blocks)
    <2>1. block \in Surjection(places, Blocks)
      <3>1. block \in [places -> Blocks]
        BY DEF Blocks
      <3>2. ASSUME NEW x \in Blocks
            PROVE  \E p \in places : block[p] = x
        <4>1. PICK b \in Branches, h \in Heights : x = BlockOn(b, h)
          BY DEF Blocks
        <4>2. <<b, h>> \in places /\ block[<<b, h>>] = BlockOn(b, h)
          OBVIOUS
        <4> QED  BY <4>1, <4>2
      <3> QED  BY <3>1, <3>2 DEF Surjection
    <2> QED  BY <1>1, <2>1, FS_Surjection
  <1>3. IsFiniteSet(all)
    <2>1. log \in Surjection(Blocks, all)
      BY DEF Surjection
    <2> QED  BY <1>2, <2>1, FS_Surjection
  <1>4. ASSUME NEW b \in Blocks
        PROVE  IsFiniteSet(Logs[b])
    <2> DEFINE event == [l \in LogsIn(b) |-> Event(b, l)]
    <2>1. event \in Surjection(LogsIn(b), Logs[b])
      BY DEF Surjection, Logs
    <2> QED  BY <2>1, LogAssumption, FS_Surjection
  <1>5. \A T \in all : IsFiniteSet(T)
    BY <1>4
  <1> HIDE DEF all
  <1>6. IsFiniteSet(UNION all)
    BY <1>3, <1>5, FS_UNION
  <1>7. UNION all = Events
    BY DEF all, Events
  <1> QED  BY <1>6, <1>7, FS_Subset

\* The CHECK constraints keep the numbers of the rows above zero.
LEMMA RowsPositive ==
  ASSUME NEW S \in SUBSET Events, Holds(NonZero(Deltas(S)))
  PROVE  \A k \in DOMAIN NonZero(Deltas(S)) : NonZero(Deltas(S))[k] \in Nat \ {0}
  <1> SUFFICES ASSUME NEW k \in DOMAIN NonZero(Deltas(S))
               PROVE  NonZero(Deltas(S))[k] \in Nat \ {0}
    OBVIOUS
  <1>1. NonZero(Deltas(S))[k] >= 0
    BY DEF Holds
  <1>2. k \in DOMAIN Deltas(S) /\ Deltas(S)[k] # 0
    BY DEF NonZero
  <1>3. NonZero(Deltas(S))[k] = Deltas(S)[k]
    BY DEF NonZero
  <1>4. Deltas(S)[k] \in Int
    BY <1>2, EventsFinite, DeltasAt DEF At
  <1> QED  BY <1>1, <1>2, <1>3, <1>4

\* A batch: its logs are in new blocks, above all that are stored.
LEMMA IngestTables ==
  ASSUME IInv, TablesOK, NEW w \in Workers, Ingest(w)
  PROVE  TablesOK'
  <1> DEFINE S == worker[w].logs
  <1>1. CASE ~Commits(w)
    BY <1>1 DEF Ingest, TablesOK
  <1>2. CASE Commits(w)
    <2>1. /\ worker[w] \in Runs /\ WindowOK(worker[w])
          /\ S \in SUBSET Events /\ events \in SUBSET Events
      BY FullWindow DEF Ingest, AtStep, Reading, Runs, IInv, EventsOK
    <2>2. S \cap events = {}
      <3>1. cursor.next = worker[w].next /\ cursor # NoCursor
        <4>1. cursor.next = worker[w].next
          BY <1>2 DEF Commits, Continues, ExtendsCursor
        <4>2. worker[w].next \in Nat /\ Start <= worker[w].next
          BY <2>1, Bounds DEF WindowOK, Runs
        <4>3. cursor # NoCursor
          BY <4>1, <4>2, Bounds DEF NoCursor
        <4> QED  BY <4>1, <4>3
      <3>2. \A b \in blocks : b.height < cursor.next
        BY <3>1 DEF IInv, CursorOK
      <3>3. \A b \in worker[w].found : worker[w].next <= b.height
        BY <2>1 DEF WindowOK
      <3>4. \A b \in blocks \cup worker[w].found : b.height \in Nat
        BY <2>1, BlockFacts, Bounds DEF IInv, ChainOK, Runs
      <3>5. worker[w].next \in Nat
        BY <2>1, Bounds DEF Runs
      <3>6. blocks \cap worker[w].found = {}
        BY <3>1, <3>2, <3>3, <3>4, <3>5
      <3>7. (\A e \in S : e.block \in worker[w].found) /\ \A e \in events : e.block \in blocks
        BY <2>1 DEF WindowOK, IInv, EventsOK
      <3> QED  BY <3>6, <3>7
    <2>3. /\ events' = events \cup S /\ tables' = Inserted(tables, S)
          /\ Holds(Inserted(tables, S))
      BY <1>2 DEF Ingest, Commits, InsertAccepted
    <2> HIDE DEF S
    <2>4. \A k : At(Deltas(events \cup S), k) = At(Deltas(events), k) + 1 * At(Deltas(S), k)
      <3>1. IsFiniteSet(events) /\ IsFiniteSet(S)
        BY <2>1, EventsFinite
      <3> SUFFICES ASSUME NEW k
                   PROVE  At(Deltas(events \cup S), k) = At(Deltas(events), k) + 1 * At(Deltas(S), k)
        OBVIOUS
      <3>2. At(Deltas(events \cup S), k) = At(Deltas(events), k) + At(Deltas(S), k)
        BY <2>1, <2>2, <3>1, DeltasUnion
      <3>3. At(Deltas(S), k) \in Int
        BY <2>1, <3>1, DeltasAt
      <3> QED  BY <3>2, <3>3
    <2>5. events \cup S \in SUBSET Events
      BY <2>1
    <2>6. Shifted(NonZero(Deltas(events)), S, 1) = NonZero(Deltas(events \cup S))
      <3>1. IsFiniteSet(events) /\ IsFiniteSet(S) /\ IsFiniteSet(events \cup S)
        BY <2>1, <2>5, EventsFinite
      <3>2. 1 \in {1, -1}
        OBVIOUS
      <3> QED  BY <2>1, <2>4, <2>5, <3>1, <3>2, ShiftedExact
    <2>7. tables' = NonZero(Deltas(events'))
      BY <2>3, <2>6 DEF Inserted, TablesOK
    <2>8. Holds(NonZero(Deltas(events')))
      BY <2>3, <2>7
    <2> QED  BY <2>3, <2>5, <2>7, <2>8, RowsPositive DEF TablesOK
  <1> QED  BY <1>1, <1>2

\* A rollback removes what it deletes from every row.
LEMMA RollbackTables ==
  ASSUME IInv, TablesOK, NEW w \in Workers, Rollback(w)
  PROVE  TablesOK'
  <1> DEFINE kept == Kept(events, worker[w].last)
             gone == events \ kept
  <1>1. CASE ~RollbackAccepted(worker[w].last)
    BY <1>1 DEF Rollback, TablesOK, db, derived
  <1>2. CASE RollbackAccepted(worker[w].last)
    <2>1. /\ events' = kept /\ tables' = Removed(tables, gone)
          /\ Holds(Removed(tables, gone))
      BY <1>2 DEF Rollback, RollbackChain, RollbackAccepted, RemovalAccepted
    <2>2. /\ kept \in SUBSET Events /\ gone \in SUBSET Events /\ events \in SUBSET Events
          /\ kept \cup gone = events /\ kept \cap gone = {}
      BY DEF IInv, EventsOK, Kept
    <2> HIDE DEF kept, gone
    <2>3. \A k : At(Deltas(events), k) = At(Deltas(kept), k) + At(Deltas(gone), k)
      BY <2>2, EventsFinite, DeltasUnion
    <2>4. \A k : At(Deltas(kept), k) \in Int /\ At(Deltas(gone), k) \in Int
      BY <2>2, EventsFinite, DeltasAt
    <2>5. \A k : At(Deltas(kept), k) = At(Deltas(events), k) + (-1) * At(Deltas(gone), k)
      BY <2>3, <2>4
    <2>6. Shifted(NonZero(Deltas(events)), gone, -1) = NonZero(Deltas(kept))
      BY <2>2, <2>5, EventsFinite, ShiftedExact
    <2>7. tables' = NonZero(Deltas(events'))
      BY <2>1, <2>6 DEF Removed, TablesOK
    <2>8. Holds(NonZero(Deltas(events')))
      BY <2>1, <2>7
    <2> QED  BY <2>1, <2>2, <2>7, <2>8, RowsPositive DEF TablesOK
  <1> QED  BY <1>1, <1>2

LEMMA TablesInit == Init => TablesOK
  <1> SUFFICES ASSUME Init PROVE TablesOK
    OBVIOUS
  <1>1. Changes({}) = {}
    BY DEF Changes
  <1>2. DOMAIN Deltas({}) = {}
    BY <1>1, FS_EmptySet, DeltasAt
  <1>3. DOMAIN NonZero(Deltas({})) = {} /\ NonZero(Deltas({})) = [k \in {} |-> Deltas({})[k]]
    BY <1>2 DEF NonZero
  <1>4. NonZero(Deltas({})) = <<>>
    BY <1>3
  <1> QED  BY <1>3, <1>4 DEF Init, TablesOK

LEMMA TablesNext ==
  ASSUME IInv, TablesOK, [Next]_vars
  PROVE  TablesOK'
  <1>1. ASSUME UNCHANGED <<events, tables>>
        PROVE  TablesOK'
    BY <1>1 DEF TablesOK
  <1>2. CASE UNCHANGED vars
    BY <1>1, <1>2 DEF vars
  <1>3. ASSUME NEW w \in Workers, Acquire(w) \/ Step(w) \/ Abort(w) \/ Crash(w)
        PROVE  TablesOK'
    <2>1. CASE Ingest(w) \/ Rollback(w)
      BY <2>1, IngestTables, RollbackTables
    <2>2. CASE ~(Ingest(w) \/ Rollback(w))
      BY <1>1, <1>3, <2>2
         DEF Acquire, Abort, Crash, Step, PinSafeHead, BeforeDeployment, InitializeCursor,
             ReadCursor, CheckTip, LoadRecentBlocks, ProbeAncestor, RereadCursor, FetchBlock,
             QueryContracts, LoadLaunches, QueryMoves, CheckWindow, RecordObservation, Release,
             db, derived
    <2> QED  BY <2>1, <2>2
  <1>4. CASE LeaseExpires \/ Grow \/ Reorg
    BY <1>1, <1>4 DEF LeaseExpires, Grow, Reorg, db, derived
  <1> QED  BY <1>2, <1>3, <1>4 DEF Next

\* The lease has an owner that runs, and faults are bounded.
LEMMA OwnersNext ==
  ASSUME lease \in Workers \cup {NoWorker}, faults \in 0 .. MaxFaults, [Next]_vars
  PROVE  lease' \in Workers \cup {NoWorker} /\ faults' \in 0 .. MaxFaults
  <1>1. ASSUME UNCHANGED <<lease, faults>>
        PROVE  lease' \in Workers \cup {NoWorker} /\ faults' \in 0 .. MaxFaults
    BY <1>1
  <1>2. CASE UNCHANGED vars
    BY <1>1, <1>2 DEF vars
  <1>3. ASSUME NEW w \in Workers, Acquire(w) \/ Step(w) \/ Abort(w) \/ Crash(w)
        PROVE  lease' \in Workers \cup {NoWorker} /\ faults' \in 0 .. MaxFaults
    <2>1. CASE Acquire(w) \/ Release(w)
      BY <2>1 DEF Acquire, Release
    <2>2. CASE Abort(w) \/ Crash(w)
      BY <2>2, BoundsAssumption DEF Abort, Crash
    <2>3. CASE Step(w) /\ ~Release(w)
      BY <1>1, <2>3
         DEF Step, PinSafeHead, BeforeDeployment, InitializeCursor,
             ReadCursor, CheckTip, LoadRecentBlocks, ProbeAncestor, Rollback, RereadCursor,
             FetchBlock, QueryContracts, LoadLaunches, QueryMoves, CheckWindow, Ingest,
             RecordObservation
    <2> QED  BY <1>3, <2>1, <2>2, <2>3
  <1>4. CASE LeaseExpires \/ Grow \/ Reorg
    BY <1>4 DEF LeaseExpires, Grow, Reorg
  <1> QED  BY <1>2, <1>3, <1>4 DEF Next

LEMMA TablesInductive == Spec => [](IInv /\ TablesOK)
  <1>1. IInv /\ TablesOK /\ [Next]_vars => (IInv /\ TablesOK)'
    BY NextInv, TablesNext
  <1>2. Init => IInv /\ TablesOK
    BY InitInv, TablesInit
  <1> QED  BY <1>1, <1>2, PTL DEF Spec

\* The SQL triggers, which know only the rows of one statement, keep every
\* balance, trade count, fee total and keeper reward at what the stored events
\* sum to: any number of invocations, batches, refused batches and rollbacks.
THEOREM ProjectionsStayExact == Spec => []ProjectionsExact
  <1>1. TablesOK => ProjectionsExact
    BY DEF TablesOK, ProjectionsExact
  <1> QED  BY <1>1, TablesInductive, PTL

\* The state keeps its types and the constraints of indexer_cursors, and no
\* derived row stands at zero or below.
THEOREM TypeCorrect == Spec => []TypeOK
  <1> DEFINE Owned == lease \in Workers \cup {NoWorker} /\ faults \in 0 .. MaxFaults
  <1>1. IInv /\ TablesOK /\ Owned => TypeOK
    <2> SUFFICES ASSUME IInv, TablesOK, Owned PROVE TypeOK
      OBVIOUS
    <2>1. cursor = NoCursor \/ (cursor \in Cursors /\ cursor.next = cursor.last.height + 1)
      BY DEF IInv, CursorOK
    <2>2. ASSUME NEW w \in Workers
          PROVE  /\ worker[w].pc \in Pcs /\ worker[w].status \in Statuses
                 /\ worker[w].found \subseteq Blocks /\ worker[w].logs \subseteq Events
      <3>1. worker[w] \in Runs
        BY DEF IInv, WorkersOK
      <3> QED  BY <3>1 DEF Runs
    <2>3. /\ branch \in Branches /\ head \in 0 .. MaxHeight /\ blocks \subseteq Blocks
          /\ events \subseteq Events /\ leaders.block \in Blocks \cup {NoBlock}
          /\ \A k \in DOMAIN tables : tables[k] \in Nat \ {0}
      BY DEF IInv, ChainOK, EventsOK, LeadersOK, TablesOK
    <2> QED  BY <2>1, <2>2, <2>3 DEF TypeOK, Cursors
  <1>2. Init => Owned
    BY BoundsAssumption DEF Init
  <1>3. Owned /\ [Next]_vars => Owned'
    BY OwnersNext
  <1> QED  BY <1>1, <1>2, <1>3, TablesInductive, PTL DEF Spec
=============================================================================
