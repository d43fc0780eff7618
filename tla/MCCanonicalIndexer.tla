------------------------- MODULE MCCanonicalIndexer -------------------------
EXTENDS CanonicalIndexer, TLC

CONSTANTS Old, New,  \* the two tokens
          NoToken,   \* the token of a revenue router event
          Ann, Bob   \* a keeper who also trades, and another trader

Log(kind, token, index, from, to, amount, value) ==
  [kind |-> kind, token |-> token, index |-> index, from |-> from, to |-> to,
   amount |-> amount, value |-> value]

\* Two trades of a token with the fees they pay: Ann buys two units, then sells
\* one at the given price to Bob.
TradeLogs(token, price) ==
  {Log("swap", token, 2, Ann, Ann, 2, 2), Log("transfer", token, 3, Zero, Ann, 2, 0),
   Log("accrued", token, 4, Ann, Ann, 2, 0),
   Log("swap", token, 6, Ann, Bob, 1, price), Log("transfer", token, 7, Ann, Bob, 1, 0)}

SweepLogs(token, amount) ==
  {Log("swept", token, 8, Ann, Ann, amount, 0), Log("routed", NoToken, 9, Ann, Ann, 1, 0)}

\* The block where Old launches: at height 2 of the trunk and at height 3 of the
\* last branch (the same transaction, mined later).  New launches at height 3 of
\* the trunk alone.
OldLaunch == {[height |-> 2, branch |-> 0], [height |-> 3, branch |-> 2]}
NewLaunch == {[height |-> 3, branch |-> 0]}

Trading(block) ==
  (IF block \in OldLaunch
   THEN {Log("launch", Old, 1, Ann, Ann, 0, 0)} \cup TradeLogs(Old, 3)
   ELSE IF block.height >= 3 THEN TradeLogs(Old, 2) ELSE {})
  \cup
  (IF block \in NewLaunch
   THEN {Log("launch", New, 5, Bob, Bob, 0, 0)} \cup TradeLogs(New, 4) ELSE {})

Mint == Log("transfer", Old, 3, Zero, Ann, 1, 0)

\* A launch with a fee that is swept in the block it accrues in, and a transfer in
\* every block from height 3 on.
SweptAtOnce(block) ==
  (IF block \in OldLaunch
   THEN {Log("launch", Old, 1, Ann, Ann, 0, 0),
         Log("accrued", Old, 4, Ann, Ann, 1, 0), Log("swept", Old, 8, Ann, Ann, 1, 0)}
   ELSE {})
  \cup
  (IF block.height >= 3 THEN {Mint} ELSE {})

\* A launch that every branch mines at height 2, and transfers without a fee.
MovedAlone(block) ==
  IF block.height = 2 THEN {Log("launch", Old, 1, Ann, Ann, 0, 0)}
  ELSE IF block.height >= 3 THEN {Mint} ELSE {}

\* On the trunk, a sweep comes a block after some of the accruals.
SweptLater(block) ==
  Trading(block) \cup (IF block \in NewLaunch THEN SweepLogs(Old, 3) ELSE {})

MCForkHeight == <<3, 2>>

WorkerSymmetry == Permutations(Workers)
=============================================================================
