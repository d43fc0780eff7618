---------------------------- MODULE IndexedChain ----------------------------
(* What the canonical indexer promises its readers: the read model is at     *)
(* every moment a parent-linked run of blocks that begins at the deployment   *)
(* block, every block with all of its protocol events, and it changes only    *)
(* by gaining blocks at its end or by losing a suffix to a reorganisation.    *)
EXTENDS Naturals, Sequences

CONSTANTS
  Pages,           \* every (block, events) pair the read model may show
  First(_),        \* is this page a legal first page?
  Follows(_, _)    \* Follows(p, q): q may stand directly after p

VARIABLE index     \* the pages a reader sees, oldest first

Linked(s) ==
  /\ s # <<>> => First(s[1])
  /\ \A i \in 1 .. Len(s) - 1 : Follows(s[i], s[i + 1])

Init == index = <<>>

Extend ==
  /\ Len(index') > Len(index)
  /\ SubSeq(index', 1, Len(index)) = index
  /\ \A i \in 1 .. Len(index') : index'[i] \in Pages
  /\ Linked(index')

\* A rollback keeps its ancestor, so it never empties the read model.
Truncate ==
  /\ index' # <<>>
  /\ \E n \in 1 .. Len(index) - 1 : index' = SubSeq(index, 1, n)

Next == Extend \/ Truncate

Spec == Init /\ [][Next]_index
=============================================================================
