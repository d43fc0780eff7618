---------------------------- MODULE MarketTables ----------------------------
(* The tables that triggers derive from the event tables, and the market      *)
(* leaders ranked from them.  A derived row is a key with a number that is    *)
(* not zero: token_holder_balance_state, pool_market_totals, the two totals   *)
(* of keeper_pool_fee_state and the three counters of                         *)
(* keeper_caller_accounting are one function from keys to numbers.            *)
EXTENDS Integers, Sequences, FiniteSets, FiniteSetsExt

CONSTANTS
  Zero,  \* the zero address
  Day    \* the trailing window of the leaders, in blocks

Scale == 1000  \* 10^320 in the code: above the square of every denominator

Of(S, kinds) == {e \in S : e.kind \in kinds}
Tally(S, amount(_)) == MapThenSumSet(amount, S)

Balance(holder, token) == <<"balance", holder, token>>
Trades(token) == <<"trades", token>>
AccruedTotal(token) == <<"accrued", token>>
SweptTotal(token) == <<"swept", token>>
Bounty(caller) == <<"bounty", caller>>
RouteCalls(caller) == <<"calls", caller>>
SweepCalls(caller) == <<"sweeps", caller>>

-----------------------------------------------------------------------------
(* What one event row adds to the derived rows.                               *)

TransferRows(e) ==
  {r \in {<<Balance(e.to, e.token), e.amount>>, <<Balance(e.from, e.token), -e.amount>>} :
     r[1][2] # Zero}

SwapRows(e) == IF e.amount > 0 THEN {<<Trades(e.token), 1>>} ELSE {}

FeeRows(e) ==
  IF e.kind = "accrued" THEN {<<AccruedTotal(e.token), e.amount>>}
  ELSE {<<SweptTotal(e.token), e.amount>>, <<SweepCalls(e.from), 1>>}

RouteRows(e) == {<<Bounty(e.from), e.amount>>, <<RouteCalls(e.from), 1>>}

Rows(e) ==
  CASE e.kind = "transfer" -> TransferRows(e)
    [] e.kind = "swap" -> SwapRows(e)
    [] e.kind \in {"accrued", "swept"} -> FeeRows(e)
    [] e.kind = "routed" -> RouteRows(e)
    [] OTHER -> {}

\* The net change of every row that the events touch.
Deltas(S) ==
  LET rows == UNION {{<<e, r>> : r \in Rows(e)} : e \in S}
  IN [k \in {x[2][1] : x \in rows} |->
        Tally({x \in rows : x[2][1] = k}, LAMBDA x : x[2][2])]

At(table, key) == IF key \in DOMAIN table THEN table[key] ELSE 0
NonZero(table) == [k \in {x \in DOMAIN table : table[x] # 0} |-> table[k]]

\* Rows that come to zero are deleted.
Shifted(table, S, sign) ==
  LET change == Deltas(S)
  IN NonZero([k \in DOMAIN table \cup DOMAIN change |->
                At(table, k) + sign * At(change, k)])

Inserted(table, S) == Shifted(table, S, 1)

RemovedLeavingBalances(table, S) == Shifted(table, S \ Of(S, {"transfer"}), -1)
Removed(table, S) == Shifted(table, S, -1)

\* Nobody's balance is negative and no pool has swept more than it accrued.
Holds(table) ==
  /\ \A k \in DOMAIN table : table[k] >= 0
  /\ \A k \in DOMAIN table :
       k[1] = "swept" => table[k] <= At(table, AccruedTotal(k[2]))

\* The insert triggers.  PostgreSQL checks the row an upsert proposes before it
\* looks for the row in conflict: the fees of the batch alone must satisfy the
\* CHECK of keeper_pool_fee_state, whatever the pool accrued before.
InsertAccepted(table, S) ==
  /\ Holds(Inserted(<<>>, Of(S, {"accrued", "swept"})))
  /\ Holds(Inserted(table, S))

\* The delete triggers, with the divergence check of the keeper totals against
\* the fee events that remain.
RemovalAccepted(table, S, rest) ==
  LET left == Removed(table, S)
      canonical == Deltas(Of(rest, {"accrued", "swept"}))
  IN /\ Holds(left)
     /\ \A e \in Of(S, {"accrued", "swept"}) :
          \A k \in {AccruedTotal(e.token), SweptTotal(e.token)} :
            At(left, k) = At(canonical, k)

-----------------------------------------------------------------------------
(* laypipe_refresh_market_leaders.                                            *)

Outranks(a, b) ==
  \E i \in DOMAIN a : a[i] > b[i] /\ \A j \in 1 .. i - 1 : a[j] = b[j]

\* ORDER BY rank DESC LIMIT 1.
First(S, rank(_)) == {x \in S : \A y \in S \ {x} : Outranks(rank(x), rank(y))}

Place(e) == <<e.block.height, e.index>>
Before(e) == <<-e.block.height, -e.index>>

Leaders(S, block) ==
  LET launches == Of(S, {"launch"})
      swaps == {e \in Of(S, {"swap"}) : e.amount > 0 /\ e.block.height <= block.height}
      window == {e \in swaps : e.block.height > block.height - Day}
      In(l, trades) == {e \in trades : e.token = l.token}
      traded == {l \in launches : In(l, window) # {}}
      cutoff(l) == First(In(l, swaps \ window), Place)
      base(l) == CHOOSE e \in IF cutoff(l) # {} THEN cutoff(l)
                              ELSE First(In(l, window), Before) : TRUE
      last(l) == CHOOSE e \in First(In(l, window), Place) : TRUE
      gain(l) == (last(l).value * base(l).amount - base(l).value * last(l).amount) * 100
      scored == {l \in traded :
        /\ base(l).value > 0
        /\ cutoff(l) # {} \/ Cardinality(In(l, window)) >= 2
        /\ gain(l) > 0}
      score(l) == (gain(l) * Scale) \div (base(l).value * last(l).amount)
  IN [newest |-> First({l \in launches : l.block.height <= block.height}, Place),
      traded |-> First(traded,
        LAMBDA l : <<Cardinality(In(l, window)),
                     Tally(In(l, window), LAMBDA e : e.value)>> \o Place(l)),
      mover |-> First(scored, LAMBDA l : <<score(l)>> \o Place(l))]

\* An entry cascades with the launch it names.
EntriesAfter(entries, launches) ==
  [k \in DOMAIN entries |-> entries[k] \cap launches]
=============================================================================
