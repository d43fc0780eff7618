------------------------- MODULE ArtworkPublication -------------------------
(***************************************************************************)
(* What POST /api/ipfs/pin promises about one staged upload, without       *)
(* saying how: out of all requests that name it, at most one publication   *)
(* (a pin digest with its artwork file and its metadata file) is ever      *)
(* decided; the registry of approved pairs records that publication and no *)
(* other; and only requests for its digest are answered with success, once *)
(* it is recorded.                                                         *)
(***************************************************************************)
CONSTANTS Requests, Digests, DigestOf

VARIABLES published,   \* {} or the one publication decided
          rows,        \* the rows of ipfs_promotions for this stage
          answered     \* the requests answered with success

vars == <<published, rows, answered>>

Publication == [digest : Digests, image : Requests, metadata : Requests]

Init == published = {} /\ rows = {} /\ answered = {}

Decide == /\ published = {}
          /\ \E p \in Publication : published' = {p}
          /\ UNCHANGED <<rows, answered>>

Record == /\ published # {}
          /\ rows' = published
          /\ UNCHANGED <<published, answered>>

\* The request that records the pair may answer in the same step; a request
\* that finds it recorded confirms the row and answers.
Answer(r) == /\ \E p \in published : p.digest = DigestOf[r]
             /\ rows' = published
             /\ answered' = answered \cup {r}
             /\ UNCHANGED published

Next == Decide \/ Record \/ \E r \in Requests : Answer(r)

Spec == Init /\ [][Next]_vars
=============================================================================
