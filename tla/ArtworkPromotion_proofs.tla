----------------------- MODULE ArtworkPromotion_proofs -----------------------
(***************************************************************************)
(* What the promotion keeps for any number of requests and digests, any    *)
(* number of stalled processes and calls that arrive late.  A request      *)
(* carries a state to a place: the value its next call would send, or the  *)
(* one a call it gave up may still bring.  The invariant says what each    *)
(* carried state is, above all that the holder of the lease never carries  *)
(* less than what is saved.                                                *)
(***************************************************************************)
EXTENDS ArtworkPromotion, TLAPS

Places == Writes \cup Reads \cup Ended \cup {"idle", "delete", "failing", "yielding"}

Saving  == {"image", "save-image", "metadata", "save-metadata", "complete"}
Settled == {"letgo", "register", "reregister"}
HoldAt  == Saving \cup {"reread"}
BoundAt == HoldAt \cup {"pend", "read", "lease", "busy-read", "letgo"}

Kept(s, F) == /\ s.image # None => Artwork(s.image) \in F
              /\ s.metadata # None => Metadata(s.metadata) \in F

Shape(s) == /\ s.metadata # None => s.image # None
            /\ s.status = "completed" => s.metadata # None

\* Nothing that was saved is undone or exchanged.
Grown(s, t) == /\ s.image # None => t.image = s.image
               /\ s.metadata # None => t.metadata = s.metadata
               /\ s.status = "completed" => t = s

PlaceOK(r, p, s) ==
    /\ p = "image" => s.status # "completed" /\ s.image = None /\ s.metadata = None
    /\ p = "save-image" => s.status = "image-pinned" /\ s.image = r /\ s.metadata = None
    /\ p = "metadata" => s.status # "completed" /\ s.image # None /\ s.metadata = None
    /\ p = "save-metadata" => s.status = "metadata-pinned" /\ s.image # None /\ s.metadata = r
    /\ p = "complete" => s.status = "completed" /\ s.image # None /\ s.metadata # None

\* Request r carries s to place p, over the files F, the saved state t and the
\* lease l of its digest.
CarryOK(r, p, s, F, t, l) ==
    /\ Kept(s, F)
    /\ PlaceOK(r, p, s)
    /\ p \in Settled => t.status = "completed" /\ s = t
    /\ p \in Saving /\ l = r => t.status # "completed" /\ Grown(t, s)

Carries(r, p, s) == CarryOK(r, p, s, files, state[DigestOf[r]], lease[DigestOf[r]])

GoneOK(r) ==
    /\ \A p, s : <<r, p, s>> \in late => pc[r] \in {"failing", "failed"}
    /\ \A p, s, u, t : <<r, p, s>> \in late /\ <<r, u, t>> \in late => p = u /\ s = t

RequestOK(r) ==
    /\ GoneOK(r)
    /\ pc[r] \in BoundAt => binding = DigestOf[r]
    /\ pc[r] \in HoldAt => lease[DigestOf[r]] = r \/ r \in stalled
    /\ pc[r] \in {"delete", "answered"} =>
         Completed(DigestOf[r]) /\ registry[DigestOf[r]] = RowOf(state[DigestOf[r]])
    /\ Carries(r, pc[r], local[r])
    /\ \A p, s : <<r, p, s>> \in late => Carries(r, p, s)

ServiceOK ==
    \A d \in Digests :
        /\ Shape(state[d]) /\ Kept(state[d], files)
        /\ Completed(d) => binding = d
        /\ registry[d] # NoRow => Completed(d) /\ registry[d] = RowOf(state[d])

ServiceTypes ==
    /\ nonce \in [Digests -> Digests \cup {None}]
    /\ files \subseteq Files
    /\ binding \in Digests \cup {None}
    /\ state \in [Digests -> SavedStates]
    /\ lease \in [Digests -> Pins]
    /\ registry \in [Digests -> [image : Pins, metadata : Pins]]

RequestTypes ==
    /\ pc \in [Requests -> Places]
    /\ local \in [Requests -> SavedStates]
    /\ staged \in [Requests -> BOOLEAN]
    /\ holds \in [Requests -> BOOLEAN]
    /\ stalled \subseteq Requests
    /\ late \subseteq Requests \X Writes \X SavedStates

IInv == ServiceTypes /\ RequestTypes /\ ServiceOK /\ \A r \in Requests : RequestOK(r)

-----------------------------------------------------------------------------
(* What a step may do to the services, as the other requests see it.         *)

Effects(r) ==
    /\ \A f \in files : f # StageFile => f \in files'
    /\ binding # None => binding' = binding
    /\ \A d \in Digests : Grown(state[d], state'[d])
    /\ \A d \in Digests : registry[d] # NoRow => registry'[d] = registry[d]
    /\ state' # state => registry' = registry
    /\ \A q \in Requests \ {r} :
         /\ lease'[DigestOf[q]] = q <=> lease[DigestOf[q]] = q
         /\ lease[DigestOf[q]] = q =>
              state'[DigestOf[q]] = state[DigestOf[q]] \/ state'[DigestOf[q]] = Pending

Turn(r) ==
    /\ \A q \in Requests \ {r} : pc'[q] = pc[q] /\ local'[q] = local[q]
    /\ \A q \in Requests \ {r} : \A p, s : <<q, p, s>> \in late' => <<q, p, s>> \in late
    /\ stalled \subseteq stalled'

LEMMA Digest ==
    ASSUME NEW r \in Requests
    PROVE  DigestOf[r] \in Digests /\ r # None /\ r \in Pins
  BY RequestsAssumption DEF Pins

LEMMA NoneIsNoDigest == None \notin Digests /\ None \notin Requests
  BY RequestsAssumption

LEMMA PinFiles ==
    ASSUME NEW r
    PROVE  Artwork(r) # StageFile /\ Metadata(r) # StageFile
  <1>1. Artwork(r).kind = "artwork" /\ Metadata(r).kind = "metadata" /\ StageFile.kind = "stage"
    BY DEF Artwork, Metadata, StageFile
  <1> QED  BY <1>1

LEMMA StateTypes ==
    /\ NoState \in SavedStates /\ Pending \in SavedStates /\ NoState # Pending
    /\ \A s \in SavedStates : completedState(s) \in SavedStates /\ RowOf(s) \in [image : Pins, metadata : Pins]
    /\ \A s \in SavedStates, r \in Requests :
         imagePinnedState(s, r) \in SavedStates /\ metadataPinnedState(s, r) \in SavedStates
  <1>1. NoState \in SavedStates /\ Pending \in SavedStates
    BY DEF NoState, Pending, SavedStates, Pins
  <1>2. NoState.status = "none" /\ Pending.status = "pending"
    BY DEF NoState, Pending
  <1>3. ASSUME NEW s \in SavedStates
        PROVE  completedState(s) \in SavedStates /\ RowOf(s) \in [image : Pins, metadata : Pins]
    BY DEF SavedStates, completedState, RowOf
  <1>4. ASSUME NEW s \in SavedStates, NEW r \in Requests
        PROVE  imagePinnedState(s, r) \in SavedStates /\ metadataPinnedState(s, r) \in SavedStates
    BY DEF SavedStates, imagePinnedState, metadataPinnedState, Pins
  <1> QED  BY <1>1, <1>2, <1>3, <1>4

LEMMA GrownSelf == \A s : Grown(s, s)
  BY DEF Grown

LEMMA KeptOn ==
    ASSUME NEW F, NEW G, \A f \in F : f # StageFile => f \in G, NEW s, Kept(s, F)
    PROVE  Kept(s, G)
  BY PinFiles DEF Kept

LEMMA OthersOK ==
    ASSUME IInv, NEW r, Effects(r), Turn(r), NEW q \in Requests, q # r
    PROVE  RequestOK(q)'
  <1> DEFINE d == DigestOf[q]
  <1>1. RequestOK(q) /\ d \in Digests /\ d # None
    BY Digest, NoneIsNoDigest DEF IInv
  <1>2. /\ pc'[q] = pc[q] /\ local'[q] = local[q]
        /\ \A p, s : <<q, p, s>> \in late' => <<q, p, s>> \in late
        /\ q \in stalled => q \in stalled'
    BY DEF Turn
  <1>3. /\ lease'[d] = q <=> lease[d] = q
        /\ lease[d] = q => state'[d] = state[d] \/ state'[d] = Pending
        /\ Grown(state[d], state'[d])
        /\ registry[d] # NoRow => registry'[d] = registry[d]
    BY <1>1 DEF Effects
  <1>4. ASSUME NEW p, NEW s, Carries(q, p, s)
        PROVE  Carries(q, p, s)'
    <2>1. Kept(s, files')
      BY <1>4, KeptOn DEF Effects, Carries, CarryOK
    <2>2. p \in Settled => state'[d].status = "completed" /\ s = state'[d]
      BY <1>3, <1>4 DEF Carries, CarryOK, Grown
    <2>3. p \in Saving /\ lease'[d] = q => state'[d].status # "completed" /\ Grown(state'[d], s)
      BY <1>3, <1>4 DEF Carries, CarryOK, Grown, Pending
    <2> QED  BY <1>4, <2>1, <2>2, <2>3 DEF Carries, CarryOK
  <1>5. GoneOK(q)'
    BY <1>1, <1>2 DEF RequestOK, GoneOK
  <1>6. pc[q] \in BoundAt => binding' = d
    BY <1>1 DEF RequestOK, Effects
  <1>7. pc[q] \in {"delete", "answered"} => Completed(d)' /\ registry'[d] = RowOf(state'[d])
    <2> SUFFICES ASSUME pc[q] \in {"delete", "answered"}
                 PROVE  Completed(d)' /\ registry'[d] = RowOf(state'[d])
      OBVIOUS
    <2>1. Completed(d) /\ registry[d] = RowOf(state[d])
      BY <1>1 DEF RequestOK
    <2>2. Shape(state[d])
      BY <1>1 DEF IInv, ServiceOK
    <2>3. registry[d] # NoRow
      BY <2>1, <2>2 DEF Shape, Completed, RowOf, NoRow
    <2> QED  BY <1>3, <2>1, <2>3 DEF Grown, Completed
  <1> HIDE DEF d
  <1> QED  BY <1>1, <1>2, <1>3, <1>4, <1>5, <1>6, <1>7 DEF RequestOK, d

-----------------------------------------------------------------------------
(* One lemma per call: what it does when it arrives.                         *)

Served(r) == ServiceTypes' /\ ServiceOK' /\ Effects(r)

LEMMA Untouched ==
    ASSUME IInv, NEW r, UNCHANGED records, nonce' \in [Digests -> Digests \cup {None}]
    PROVE  Served(r)
  <1>1. ServiceTypes' /\ ServiceOK'
    BY DEF IInv, ServiceTypes, ServiceOK, records, Completed
  <1>2. Effects(r)
    BY GrownSelf DEF Effects, records
  <1> QED  BY <1>1, <1>2 DEF Served

LEMMA NonceServed ==
    ASSUME IInv, NEW r \in Requests, SetNonce(r)
    PROVE  Served(r)
  <1>1. nonce' \in [Digests -> Digests \cup {None}]
    BY Digest DEF SetNonce, IInv, ServiceTypes
  <1> QED  BY <1>1, Untouched DEF SetNonce

LEMMA BindingServed ==
    ASSUME IInv, NEW r \in Requests, SetBinding(r)
    PROVE  Served(r)
  <1>1. UNCHANGED <<nonce, files, state, lease, registry>> /\ binding' \in Digests \cup {None}
    BY Digest DEF SetBinding, IInv, ServiceTypes
  <1>2. binding # None => binding' = binding
    BY DEF SetBinding
  <1>3. ServiceTypes'
    BY <1>1 DEF IInv, ServiceTypes
  <1>4. ServiceOK'
    BY <1>1, <1>2, NoneIsNoDigest DEF IInv, ServiceOK, Completed
  <1>5. Effects(r)
    BY <1>1, <1>2, GrownSelf DEF Effects
  <1> QED  BY <1>3, <1>4, <1>5 DEF Served

LEMMA PendingServed ==
    ASSUME IInv, NEW r \in Requests, SetPending(r)
    PROVE  Served(r)
  <1>1. /\ UNCHANGED <<nonce, files, binding, lease, registry>>
        /\ state' \in [Digests -> SavedStates]
        /\ \A d \in Digests : state'[d] = state[d] \/ (state[d] = NoState /\ state'[d] = Pending)
    BY Digest, StateTypes DEF SetPending, IInv, ServiceTypes
  <1>2. ServiceTypes'
    BY <1>1 DEF IInv, ServiceTypes
  <1>3. /\ \A F : Shape(Pending) /\ Kept(Pending, F)
        /\ Pending.status # "completed" /\ NoState.status # "completed"
        /\ Grown(NoState, Pending)
    BY DEF Pending, NoState, Shape, Kept, Grown
  <1>4. ServiceOK'
    <2> SUFFICES ASSUME NEW d \in Digests
                 PROVE  /\ Shape(state'[d]) /\ Kept(state'[d], files')
                        /\ Completed(d)' => binding' = d
                        /\ registry'[d] # NoRow => Completed(d)' /\ registry'[d] = RowOf(state'[d])
      BY DEF ServiceOK
    <2> QED  BY <1>1, <1>3 DEF IInv, ServiceOK, Completed
  <1>5. Effects(r)
    BY <1>1, <1>3, GrownSelf, Digest DEF Effects
  <1> QED  BY <1>2, <1>4, <1>5 DEF Served

\* A lease goes to nobody but r and is taken from nobody but r.
LEMMA LeaseServed ==
    ASSUME IInv, NEW r, UNCHANGED <<nonce, files, binding, state, registry>>,
           lease' \in [Digests -> Pins],
           \A d \in Digests : lease'[d] = lease[d] \/ {lease[d], lease'[d]} \subseteq {r, None}
    PROVE  Served(r)
  <1>1. ServiceTypes' /\ ServiceOK'
    BY DEF IInv, ServiceTypes, ServiceOK, Completed
  <1>2. Effects(r)
    BY GrownSelf, Digest DEF Effects
  <1> QED  BY <1>1, <1>2 DEF Served

LEMMA SetLeaseServed ==
    ASSUME IInv, NEW r \in Requests, SetLease(r)
    PROVE  Served(r)
  <1>1. lease' \in [Digests -> Pins]
    BY Digest DEF SetLease, IInv, ServiceTypes
  <1>2. \A d \in Digests : lease'[d] = lease[d] \/ {lease[d], lease'[d]} \subseteq {r, None}
    BY DEF SetLease, IInv, ServiceTypes
  <1> QED  BY <1>1, <1>2, LeaseServed DEF SetLease

LEMMA ReleaseServed ==
    ASSUME IInv, NEW r \in Requests, ReleaseLease(r)
    PROVE  Served(r)
  <1>1. lease' \in [Digests -> Pins]
    BY DEF ReleaseLease, IInv, ServiceTypes, Pins
  <1>2. \A d \in Digests : lease'[d] = lease[d] \/ {lease[d], lease'[d]} \subseteq {r, None}
    BY DEF ReleaseLease, IInv, ServiceTypes
  <1> QED  BY <1>1, <1>2, LeaseServed DEF ReleaseLease

LEMMA FilesServed ==
    ASSUME IInv, NEW r, UNCHANGED <<nonce, binding, state, lease, registry>>,
           files' \subseteq Files, \A f \in files : f # StageFile => f \in files'
    PROVE  Served(r)
  <1>1. ServiceTypes'
    BY DEF IInv, ServiceTypes
  <1>2. ServiceOK'
    BY KeptOn DEF IInv, ServiceOK, Completed
  <1>3. Effects(r)
    BY GrownSelf DEF Effects
  <1> QED  BY <1>1, <1>2, <1>3 DEF Served

LEMMA UploadServed ==
    ASSUME IInv, NEW r \in Requests, NEW file \in {Artwork(r), Metadata(r)}, Upload(file)
    PROVE  Served(r)
  BY FilesServed DEF Upload, IInv, ServiceTypes, Files

\* A save by the holder of the token, of a state it carries.
LEMMA SavedServed ==
    ASSUME IInv, NEW r \in Requests, NEW s \in SavedStates,
           MayWrite(r), Shape(s), Kept(s, files), state[DigestOf[r]].status # "completed",
           Grown(state[DigestOf[r]], s),
           state' = [state EXCEPT ![DigestOf[r]] = s],
           lease' \in [Digests -> Pins],
           \A d \in Digests : lease'[d] = lease[d] \/ {lease[d], lease'[d]} \subseteq {r, None},
           UNCHANGED <<nonce, files, binding, registry>>
    PROVE  Served(r)
  <1> DEFINE e == DigestOf[r]
  <1>1. e \in Digests /\ binding = e /\ lease[e] = r
    BY Digest DEF MayWrite
  <1>2. state' \in [Digests -> SavedStates] /\ state'[e] = s
        /\ \A d \in Digests \ {e} : state'[d] = state[d]
    BY <1>1 DEF IInv, ServiceTypes
  <1>3. registry[e] = NoRow
    BY <1>1 DEF IInv, ServiceOK, Completed
  <1> HIDE DEF e
  <1>4. ServiceTypes'
    BY <1>2 DEF IInv, ServiceTypes
  <1>5. ServiceOK'
    <2> SUFFICES ASSUME NEW d \in Digests
                 PROVE  /\ Shape(state'[d]) /\ Kept(state'[d], files')
                        /\ Completed(d)' => binding' = d
                        /\ registry'[d] # NoRow => Completed(d)' /\ registry'[d] = RowOf(state'[d])
      BY DEF ServiceOK
    <2>1. CASE d = e
      BY <1>1, <1>2, <1>3, <2>1
    <2>2. CASE d # e
      BY <1>2, <2>2 DEF IInv, ServiceOK, Completed
    <2> QED  BY <2>1, <2>2
  <1>6. Effects(r)
    <2>1. \A d \in Digests : Grown(state[d], state'[d])
      BY <1>1, <1>2, GrownSelf DEF e
    <2>2. ASSUME NEW q \in Requests \ {r}
          PROVE  /\ lease'[DigestOf[q]] = q <=> lease[DigestOf[q]] = q
                 /\ lease[DigestOf[q]] = q => state'[DigestOf[q]] = state[DigestOf[q]]
      BY <1>1, <1>2, Digest
    <2> QED  BY <2>1, <2>2 DEF Effects
  <1> QED  BY <1>4, <1>5, <1>6 DEF Served

LEMMA SaveServed ==
    ASSUME IInv, NEW r \in Requests, NEW p \in {"save-image", "save-metadata", "complete"},
           NEW s \in SavedStates, Carries(r, p, s),
           \/ p # "complete" /\ SaveState(r, s)
           \/ p = "complete" /\ CompleteState(r, s)
    PROVE  Served(r)
  <1>1. nonce' = nonce /\ files' = files /\ binding' = binding /\ registry' = registry
    BY DEF SaveState, CompleteState
  <1>2. nonce' \in [Digests -> Digests \cup {None}]
    BY <1>1 DEF IInv, ServiceTypes
  <1>3. CASE ~MayWrite(r)
    BY <1>1, <1>2, <1>3, Untouched DEF SaveState, CompleteState, records
  <1>4. CASE MayWrite(r)
    <2>1. Shape(s) /\ Kept(s, files)
      BY Digest DEF Carries, CarryOK, PlaceOK, Shape
    <2>2. state[DigestOf[r]].status # "completed" /\ Grown(state[DigestOf[r]], s)
      BY <1>4 DEF MayWrite, Carries, CarryOK, Saving
    <2>3. state' = [state EXCEPT ![DigestOf[r]] = s]
      BY <1>4 DEF SaveState, CompleteState
    <2>4. lease' \in [Digests -> Pins]
          /\ \A d \in Digests : lease'[d] = lease[d] \/ {lease[d], lease'[d]} \subseteq {r, None}
      BY <1>4, Digest DEF SaveState, CompleteState, MayWrite, IInv, ServiceTypes, Pins
    <2> QED  BY <1>1, <1>4, <2>1, <2>2, <2>3, <2>4, SavedServed
  <1> QED  BY <1>3, <1>4

LEMMA RecordServed ==
    ASSUME IInv, NEW r \in Requests, NEW p \in {"register", "reregister"}, NEW s,
           Carries(r, p, s), RecordRow(r, s)
    PROVE  Served(r)
  <1> DEFINE e == DigestOf[r]
  <1>1. UNCHANGED <<nonce, files, binding, state, lease>> /\ e \in Digests
    BY Digest DEF RecordRow
  <1>2. state[e].status = "completed" /\ s = state[e] /\ s \in SavedStates
    BY <1>1 DEF Carries, CarryOK, Settled, IInv, ServiceTypes
  <1>3. /\ registry' \in [Digests -> [image : Pins, metadata : Pins]]
        /\ \A d \in Digests : \/ registry'[d] = registry[d]
                              \/ d = e /\ registry[d] = NoRow /\ registry'[d] = RowOf(s)
    BY <1>1, <1>2, StateTypes DEF RecordRow, IInv, ServiceTypes
  <1> HIDE DEF e
  <1>4. ServiceTypes'
    BY <1>1, <1>3 DEF IInv, ServiceTypes
  <1>5. ServiceOK'
    BY <1>1, <1>2, <1>3 DEF IInv, ServiceOK, Completed
  <1>6. Effects(r)
    BY <1>1, <1>3, GrownSelf DEF Effects
  <1> QED  BY <1>4, <1>5, <1>6 DEF Served

LEMMA ArrivalServed ==
    ASSUME IInv, NEW r \in Requests, NEW p, NEW s \in SavedStates, Carries(r, p, s),
           Arrives(r, p, s)
    PROVE  Served(r)
  BY BindingServed, PendingServed, SetLeaseServed, ReleaseServed, UploadServed, SaveServed,
     RecordServed DEF Arrives

-----------------------------------------------------------------------------
(* One lemma per step of a request.                                          *)

\* Request r goes on to a place, carrying s.
Moves(r, place, s) ==
    /\ Goto(r, place) /\ place \in Places
    /\ local' = [local EXCEPT ![r] = s] /\ s \in SavedStates
    /\ staged' \in [Requests -> BOOLEAN] /\ holds' \in [Requests -> BOOLEAN]
    /\ UNCHANGED <<stalled, late>>

\* What must hold where it goes.
Arrival(r, place, s) ==
    /\ place \in BoundAt => binding' = DigestOf[r]
    /\ place \in HoldAt => lease'[DigestOf[r]] = r \/ r \in stalled
    /\ place \in {"delete", "answered"} =>
         /\ state'[DigestOf[r]].status = "completed"
         /\ registry'[DigestOf[r]] = RowOf(state'[DigestOf[r]])
    /\ CarryOK(r, place, s, files', state'[DigestOf[r]], lease'[DigestOf[r]])

Stepped(r) == IInv' /\ Effects(r) /\ Turn(r)

LEMMA MoveFacts ==
    ASSUME IInv, NEW r \in Requests, NEW place, NEW s, Moves(r, place, s)
    PROVE  /\ RequestTypes' /\ Turn(r)
           /\ pc'[r] = place /\ local'[r] = s
  <1>1. RequestTypes'
    BY DEF Moves, Goto, IInv, RequestTypes
  <1>2. Turn(r) /\ pc'[r] = place /\ local'[r] = s
    BY DEF Moves, Goto, IInv, RequestTypes, Turn
  <1> QED  BY <1>1, <1>2

LEMMA MoveStep ==
    ASSUME IInv, NEW r \in Requests, pc[r] \notin {"failing", "failed"}, Served(r),
           NEW place, NEW s, Moves(r, place, s), Arrival(r, place, s)
    PROVE  Stepped(r)
  <1>1. RequestTypes' /\ Turn(r) /\ pc'[r] = place /\ local'[r] = s
    BY MoveFacts
  <1>2. \A p, t : <<r, p, t>> \notin late'
    BY DEF IInv, RequestOK, GoneOK, Moves
  <1>3. RequestOK(r)'
    BY <1>1, <1>2 DEF RequestOK, GoneOK, Arrival, Carries, Completed, Moves
  <1>4. \A q \in Requests : RequestOK(q)'
    BY <1>1, <1>3, OthersOK DEF Served
  <1> QED  BY <1>1, <1>4 DEF Stepped, Served, IInv

\* What the request that takes the step was before it.
LEMMA Before ==
    ASSUME IInv, NEW r \in Requests
    PROVE  /\ DigestOf[r] \in Digests /\ pc[r] \in Places
           /\ local[r] \in SavedStates /\ state[DigestOf[r]] \in SavedStates
           /\ local = [local EXCEPT ![r] = local[r]]
           /\ staged \in [Requests -> BOOLEAN] /\ holds \in [Requests -> BOOLEAN]
           /\ Carries(r, pc[r], local[r])
           /\ pc[r] \in BoundAt => binding = DigestOf[r]
           /\ pc[r] \in HoldAt => lease[DigestOf[r]] = r \/ r \in stalled
           /\ Shape(state[DigestOf[r]]) /\ Kept(state[DigestOf[r]], files)
           /\ Kept(local[r], files)
           /\ nonce \in [Digests -> Digests \cup {None}]
  BY Digest DEF IInv, RequestTypes, ServiceTypes, RequestOK, ServiceOK, Carries, CarryOK

\* Places where nothing is asked of what a request carries but that it is kept.
Plain == Reads \cup {"idle", "refused", "busy", "failed", "failing", "yielding", "bind", "pend", "lease"}

LEMMA PlainCarry ==
    ASSUME NEW r, NEW p \in Plain, NEW s, NEW F, NEW t, NEW l, Kept(s, F)
    PROVE  CarryOK(r, p, s, F, t, l)
  BY DEF Plain, Reads, CarryOK, PlaceOK, Settled, Saving

\* A step that calls no service.
LEMMA QuietStep ==
    ASSUME IInv, NEW r \in Requests, pc[r] \notin {"failing", "failed"}, UNCHANGED service,
           NEW place, NEW s, Moves(r, place, s), 
           place \in BoundAt => binding = DigestOf[r],
           place \in HoldAt => lease[DigestOf[r]] = r \/ r \in stalled,
           place \notin {"delete", "answered"}, Carries(r, place, s)
    PROVE  Stepped(r)
  <1>1. UNCHANGED records /\ nonce' \in [Digests -> Digests \cup {None}]
    BY Before DEF service
  <1>2. Served(r)
    BY <1>1, Untouched
  <1>3. Arrival(r, place, s)
    BY <1>1 DEF Arrival, records, Carries
  <1> QED  BY <1>2, <1>3, MoveStep

LEMMA ReadingStep ==
    ASSUME IInv, NEW r \in Requests, pc[r] \notin {"failing", "failed"},
           UNCHANGED <<service, staged, holds, stalled, late>>, NEW place, Reading(r, place),
           \/ place \in Plain \ BoundAt
           \/ place \in Plain /\ pc[r] \in BoundAt /\ place \notin HoldAt
           \/ place = "reregister" /\ Completed(DigestOf[r])
    PROVE  Stepped(r)
  <1> DEFINE s == state[DigestOf[r]]
  <1>1. place \in Places /\ place \notin HoldAt /\ place \notin {"delete", "answered"}
        /\ (place \in BoundAt => binding = DigestOf[r])
    BY Before DEF Plain, Places, Reads, Writes, Ended, BoundAt, HoldAt, Saving
  <1>2. Moves(r, place, s)
    BY <1>1, Before DEF Reading, Moves
  <1>3. Carries(r, place, s)
    <2>1. CASE place \in Plain
      BY <2>1, Before, PlainCarry DEF Carries
    <2>2. CASE place = "reregister" /\ Completed(DigestOf[r])
      BY <2>2, Before DEF Carries, CarryOK, PlaceOK, Settled, Saving, Completed
    <2> QED  BY <2>1, <2>2
  <1> HIDE DEF s
  <1> QED  BY <1>1, <1>2, <1>3, QuietStep

LEMMA StartStep ==
    ASSUME IInv, NEW r \in Requests, Start(r)
    PROVE  Stepped(r)
  BY ReadingStep DEF Start, Plain, Reads, BoundAt, HoldAt, Saving

LEMMA ReadStep ==
    ASSUME IInv, NEW r \in Requests, Read(r) \/ BusyRead(r)
    PROVE  Stepped(r)
  BY ReadingStep DEF Read, BusyRead, Plain, Reads, BoundAt, HoldAt, Saving

LEMMA NonceStep ==
    ASSUME IInv, NEW r \in Requests, ConsumeNonce(r)
    PROVE  Stepped(r)
  <1>1. PICK place \in {"start", "refused"} : Goto(r, place)
    BY DEF ConsumeNonce
  <1>2. Served(r) /\ Moves(r, place, local[r]) /\ UNCHANGED records
    BY <1>1, Before, NonceServed DEF ConsumeNonce, SetNonce, Moves, Places, Reads, Ended
  <1>3. Arrival(r, place, local[r])
    BY <1>1, <1>2, Before, PlainCarry
    DEF Arrival, records, Plain, Reads, BoundAt, HoldAt, Saving
  <1> QED  BY <1>2, <1>3, MoveStep DEF ConsumeNonce

LEMMA LoadStep ==
    ASSUME IInv, NEW r \in Requests, Load(r)
    PROVE  Stepped(r)
  <1>1. PICK place \in {"bind", "refused"} : Goto(r, place)
    BY DEF Load
  <1>2. Moves(r, place, local[r])
    BY <1>1, Before DEF Load, Moves, Places, Writes, Ended
  <1>3. Carries(r, place, local[r]) /\ place \notin BoundAt \cup HoldAt
    BY <1>1, Before, PlainCarry DEF Carries, Plain, BoundAt, HoldAt, Saving
  <1> QED  BY <1>1, <1>2, <1>3, QuietStep DEF Load

LEMMA BindStep ==
    ASSUME IInv, NEW r \in Requests, Bind(r)
    PROVE  Stepped(r)
  <1>1. PICK place \in {"pend", "refused"} :
          Goto(r, place) /\ (place = "pend" => binding' = DigestOf[r])
    BY DEF Bind
  <1>2. Served(r) /\ Moves(r, place, local[r]) /\ UNCHANGED <<files, state, lease>>
    BY <1>1, Before, BindingServed DEF Bind, SetBinding, Moves, Places, Writes, Ended
  <1>3. Arrival(r, place, local[r])
    BY <1>1, <1>2, Before, PlainCarry DEF Arrival, Plain, BoundAt, HoldAt, Saving
  <1> QED  BY <1>2, <1>3, MoveStep DEF Bind

LEMMA PendStep ==
    ASSUME IInv, NEW r \in Requests, Pend(r)
    PROVE  Stepped(r)
  <1>1. Served(r) /\ Moves(r, "read", local[r]) /\ UNCHANGED <<files, binding, lease>>
    BY Before, PendingServed DEF Pend, SetPending, Moves, Places, Reads
  <1>2. binding = DigestOf[r]
    BY Before DEF Pend, BoundAt
  <1>3. Arrival(r, "read", local[r])
    BY <1>1, <1>2, Before, PlainCarry DEF Arrival, Plain, Reads, HoldAt, Saving
  <1> QED  BY <1>1, <1>3, MoveStep DEF Pend

LEMMA TakeLeaseStep ==
    ASSUME IInv, NEW r \in Requests, TakeLease(r)
    PROVE  Stepped(r)
  <1>1. PICK place \in {"reread", "busy-read"} :
          Goto(r, place) /\ (place = "reread" => lease'[DigestOf[r]] = r)
    BY Before DEF TakeLease, SetLease, IInv, ServiceTypes
  <1>2. Served(r) /\ Moves(r, place, local[r]) /\ UNCHANGED <<files, binding, state>>
    BY <1>1, Before, SetLeaseServed DEF TakeLease, SetLease, Moves, Places, Reads
  <1>3. binding = DigestOf[r]
    BY Before DEF TakeLease, BoundAt
  <1>4. Arrival(r, place, local[r])
    BY <1>1, <1>2, <1>3, Before, PlainCarry DEF Arrival, Plain, Reads, HoldAt, Saving
  <1> QED  BY <1>2, <1>4, MoveStep DEF TakeLease

LEMMA RereadStep ==
    ASSUME IInv, NEW r \in Requests, Reread(r)
    PROVE  Stepped(r)
  <1> DEFINE s == state[DigestOf[r]]
             place == NextPart(s)
             t == IF place = "complete" THEN completedState(s) ELSE s
  <1>1. s \in SavedStates /\ Shape(s) /\ Kept(s, files)
    BY Before
  <1>2. (t \in SavedStates /\ Kept(t, files) /\ Grown(s, t)) \/ place = "letgo"
    <2>1. completedState(s) \in SavedStates /\ completedState(s).image = s.image
          /\ completedState(s).metadata = s.metadata /\ completedState(s).status = "completed"
      BY <1>1, StateTypes DEF completedState, SavedStates
    <2> HIDE DEF s
    <2> QED  BY <1>1, <2>1, GrownSelf DEF Kept, Grown, NextPart
  <1>3. CASE place = "letgo"
    <2>1. s.status = "completed" /\ t = s
      BY <1>3 DEF NextPart
    <2>2. Moves(r, place, t)
      BY <1>1, <1>3, <2>1, Before DEF Reread, Moves, Places, Writes
    <2>3. Carries(r, place, t)
      BY <1>1, <1>3, <2>1 DEF Carries, CarryOK, PlaceOK, Settled, Saving
    <2>4. binding = DigestOf[r]
      BY Before DEF Reread, BoundAt, HoldAt
    <2> QED  BY <1>3, <2>2, <2>3, <2>4, QuietStep DEF Reread, HoldAt, Saving
  <1>4. CASE place # "letgo"
    <2>1. s.status # "completed" /\ place \in {"image", "metadata", "complete"}
      BY <1>4 DEF NextPart
    <2>2. PlaceOK(r, place, t)
      <3>1. completedState(s).image = s.image /\ completedState(s).metadata = s.metadata
            /\ completedState(s).status = "completed"
        BY <1>1 DEF completedState, SavedStates
      <3> HIDE DEF s
      <3> QED  BY <1>1, <2>1, <3>1 DEF PlaceOK, NextPart, Shape
    <2>3. Carries(r, place, t)
      BY <1>2, <1>4, <2>1, <2>2 DEF Carries, CarryOK, Settled
    <2>4. Moves(r, place, t)
      BY <1>2, <1>4, <2>1, Before DEF Reread, Moves, Places, Writes
    <2>5. binding = DigestOf[r] /\ (lease[DigestOf[r]] = r \/ r \in stalled)
      BY Before DEF Reread, BoundAt, HoldAt
    <2> HIDE DEF place, t
    <2> QED  BY <2>1, <2>3, <2>4, <2>5, QuietStep DEF Reread
  <1> QED  BY <1>3, <1>4

LEMMA LetGoStep ==
    ASSUME IInv, NEW r \in Requests, LetGo(r)
    PROVE  Stepped(r)
  <1>1. Served(r) /\ Moves(r, "reregister", local[r]) /\ UNCHANGED <<files, binding, state>>
    BY Before, ReleaseServed DEF LetGo, ReleaseLease, Moves, Places, Writes
  <1>2. CarryOK(r, "reregister", local[r], files', state'[DigestOf[r]], lease'[DigestOf[r]])
    BY <1>1, Before DEF LetGo, Carries, CarryOK, PlaceOK, Settled, Saving
  <1>3. Arrival(r, "reregister", local[r])
    BY <1>2 DEF Arrival, BoundAt, HoldAt, Saving
  <1> QED  BY <1>1, <1>3, MoveStep DEF LetGo

\* An upload adds the file that the request goes on with.
LEMMA UploadStep ==
    ASSUME IInv, NEW r \in Requests, UploadImage(r) \/ UploadMetadata(r)
    PROVE  Stepped(r)
  <1> DEFINE e == DigestOf[r]
  <1>1. UNCHANGED <<nonce, binding, state, lease, registry, staged, holds, stalled, late>>
    BY DEF UploadImage, UploadMetadata, Upload
  <1>2. binding = e /\ (lease[e] = r \/ r \in stalled) /\ r # None
    BY Before, Digest DEF UploadImage, UploadMetadata, BoundAt, HoldAt, Saving
  <1>3. local[r] \in SavedStates /\ Kept(local[r], files)
        /\ staged \in [Requests -> BOOLEAN] /\ holds \in [Requests -> BOOLEAN]
    BY Before
  <1>4. CASE UploadImage(r)
    <2> DEFINE s == imagePinnedState(local[r], r)
    <2>1. files' = files \cup {Artwork(r)}
      BY <1>4 DEF UploadImage, Upload
    <2>2. /\ s \in SavedStates /\ s.status = "image-pinned" /\ s.image = r
          /\ s.metadata = local[r].metadata
      BY <1>3, StateTypes DEF imagePinnedState, SavedStates
    <2>3. /\ local[r].image = None /\ local[r].metadata = None
          /\ lease[e] = r => state[e].status # "completed" /\ Grown(state[e], local[r])
      BY <1>4, Before DEF UploadImage, Carries, CarryOK, PlaceOK, Saving
    <2>4. Moves(r, "save-image", s)
      <3>1. local' = [local EXCEPT ![r] = s] /\ Goto(r, "save-image")
        BY <1>4 DEF UploadImage
      <3> HIDE DEF s
      <3> QED  BY <1>1, <1>3, <2>2, <3>1 DEF Moves, Places, Writes
    <2> HIDE DEF s
    <2>5. CarryOK(r, "save-image", s, files', state'[e], lease'[e])
      BY <1>1, <2>1, <2>2, <2>3 DEF CarryOK, PlaceOK, Kept, Settled, Grown
    <2>6. Arrival(r, "save-image", s)
      BY <1>1, <1>2, <2>5 DEF Arrival
    <2> QED  BY <1>1, <1>4, <2>4, <2>6, UploadServed, MoveStep DEF UploadImage
  <1>5. CASE UploadMetadata(r)
    <2> DEFINE s == metadataPinnedState(local[r], r)
    <2>1. files' = files \cup {Metadata(r)}
      BY <1>5 DEF UploadMetadata, Upload
    <2>2. /\ s \in SavedStates /\ s.status = "metadata-pinned" /\ s.metadata = r
          /\ s.image = local[r].image
      BY <1>3, StateTypes DEF metadataPinnedState, SavedStates
    <2>3. /\ local[r].image # None /\ local[r].metadata = None
          /\ lease[e] = r => state[e].status # "completed" /\ Grown(state[e], local[r])
      BY <1>5, Before DEF UploadMetadata, Carries, CarryOK, PlaceOK, Saving
    <2>4. Moves(r, "save-metadata", s)
      <3>1. local' = [local EXCEPT ![r] = s] /\ Goto(r, "save-metadata")
        BY <1>5 DEF UploadMetadata
      <3> HIDE DEF s
      <3> QED  BY <1>1, <1>3, <2>2, <3>1 DEF Moves, Places, Writes
    <2> HIDE DEF s
    <2>5. CarryOK(r, "save-metadata", s, files', state'[e], lease'[e])
      BY <1>1, <1>3, <2>1, <2>2, <2>3 DEF CarryOK, PlaceOK, Kept, Settled, Grown
    <2>6. Arrival(r, "save-metadata", s)
      BY <1>1, <1>2, <2>5 DEF Arrival
    <2> QED  BY <1>1, <1>5, <2>4, <2>6, UploadServed, MoveStep DEF UploadMetadata
  <1> QED  BY <1>4, <1>5

\* A save that is refused: the request yields with what it had.
LEMMA Refused ==
    ASSUME IInv, NEW r \in Requests, pc[r] \notin {"failing", "failed"}, Served(r),
           UNCHANGED <<files, staged, stalled, late, local>>, Goto(r, "yielding"),
           holds' \in [Requests -> BOOLEAN]
    PROVE  Stepped(r)
  <1>1. Moves(r, "yielding", local[r])
    BY Before DEF Moves, Places
  <1>2. Arrival(r, "yielding", local[r])
    BY Before, PlainCarry DEF Arrival, Plain, BoundAt, HoldAt, Saving
  <1> QED  BY <1>1, <1>2, MoveStep

LEMMA SaveImageStep ==
    ASSUME IInv, NEW r \in Requests, SaveImage(r)
    PROVE  Stepped(r)
  <1> DEFINE e == DigestOf[r]
             s == local[r]
  <1>1. Served(r) /\ UNCHANGED <<files, binding, lease, staged, holds, stalled, late, local>>
    BY Before, SaveServed DEF SaveImage, SaveState
  <1>2. holds \in [Requests -> BOOLEAN] /\ pc[r] = "save-image"
    BY Before DEF SaveImage
  <1>3. CASE ~MayWrite(r)
    BY <1>1, <1>2, <1>3, Refused DEF SaveImage
  <1>4. CASE MayWrite(r)
    <2>1. state'[e] = s /\ lease[e] = r /\ binding = e
      BY <1>4, Digest DEF SaveImage, SaveState, MayWrite, IInv, ServiceTypes
    <2>2. s.status = "image-pinned" /\ s.image = r /\ s.metadata = None /\ r # None
          /\ Kept(s, files)
      BY <1>2, Before, Digest DEF Carries, CarryOK, PlaceOK
    <2>3. Moves(r, "metadata", s)
      BY <1>1, <1>4, Before DEF SaveImage, Moves, Places, Writes
    <2>4. CarryOK(r, "metadata", s, files', state'[e], lease'[e])
      BY <1>1, <2>1, <2>2, GrownSelf DEF CarryOK, PlaceOK, Settled
    <2>5. Arrival(r, "metadata", s)
      BY <1>1, <2>1, <2>4 DEF Arrival
    <2> QED  BY <1>1, <1>2, <2>3, <2>5, MoveStep
  <1> QED  BY <1>3, <1>4

LEMMA SaveMetadataStep ==
    ASSUME IInv, NEW r \in Requests, SaveMetadata(r)
    PROVE  Stepped(r)
  <1> DEFINE e == DigestOf[r]
             s == local[r]
             t == completedState(s)
  <1>1. Served(r) /\ UNCHANGED <<files, binding, lease, staged, holds, stalled, late>>
    BY Before, SaveServed DEF SaveMetadata, SaveState
  <1>2. /\ holds \in [Requests -> BOOLEAN] /\ staged \in [Requests -> BOOLEAN]
        /\ pc[r] = "save-metadata" /\ s \in SavedStates
    BY Before DEF SaveMetadata
  <1>3. CASE ~MayWrite(r)
    <2>1. local' = local /\ Goto(r, "yielding")
      BY <1>3, Before DEF SaveMetadata
    <2> QED  BY <1>1, <1>2, <2>1, Refused
  <1>4. CASE MayWrite(r)
    <2>1. state'[e] = s /\ lease[e] = r /\ binding = e
      BY <1>4, Digest DEF SaveMetadata, SaveState, MayWrite, IInv, ServiceTypes
    <2>2. s.status = "metadata-pinned" /\ s.image # None /\ s.metadata = r /\ r # None
          /\ Kept(s, files)
      BY <1>2, Before, Digest DEF Carries, CarryOK, PlaceOK
    <2>3. /\ t \in SavedStates /\ t.status = "completed"
          /\ t.image = s.image /\ t.metadata = s.metadata
      BY <1>2, StateTypes DEF completedState, SavedStates
    <2>4. local' = [local EXCEPT ![r] = t] /\ Goto(r, "complete")
      BY <1>4 DEF SaveMetadata
    <2> HIDE DEF t
    <2>5. Moves(r, "complete", t)
      BY <1>1, <1>2, <2>3, <2>4 DEF Moves, Places, Writes
    <2>6. CarryOK(r, "complete", t, files', state'[e], lease'[e])
      BY <1>1, <2>1, <2>2, <2>3 DEF CarryOK, PlaceOK, Settled, Kept, Grown
    <2>7. Arrival(r, "complete", t)
      BY <1>1, <2>1, <2>6 DEF Arrival
    <2> QED  BY <1>1, <1>2, <2>5, <2>7, MoveStep
  <1> QED  BY <1>3, <1>4

LEMMA CompleteStep ==
    ASSUME IInv, NEW r \in Requests, Complete(r)
    PROVE  Stepped(r)
  <1> DEFINE e == DigestOf[r]
             s == local[r]
  <1>1. Served(r) /\ UNCHANGED <<files, binding, staged, stalled, late, local>>
    BY Before, SaveServed DEF Complete, CompleteState
  <1>2. holds' \in [Requests -> BOOLEAN] /\ pc[r] = "complete"
    BY Before DEF Complete
  <1>3. CASE ~MayWrite(r)
    BY <1>1, <1>2, <1>3, Refused DEF Complete
  <1>4. CASE MayWrite(r)
    <2>1. state'[e] = s
      BY <1>4, Digest DEF Complete, CompleteState, IInv, ServiceTypes
    <2>2. s.status = "completed" /\ Kept(s, files)
      BY <1>2, Before DEF Carries, CarryOK, PlaceOK
    <2>3. Moves(r, "register", s)
      BY <1>1, <1>2, <1>4, Before DEF Complete, Moves, Places, Writes
    <2>4. CarryOK(r, "register", s, files', state'[e], lease'[e])
      BY <1>1, <2>1, <2>2 DEF CarryOK, PlaceOK, Saving
    <2>5. Arrival(r, "register", s)
      BY <2>4 DEF Arrival, BoundAt, HoldAt, Saving
    <2> QED  BY <1>1, <1>2, <2>3, <2>5, MoveStep
  <1> QED  BY <1>3, <1>4

LEMMA RegisterStep ==
    ASSUME IInv, NEW r \in Requests, Register(r)
    PROVE  Stepped(r)
  <1> DEFINE e == DigestOf[r]
             s == local[r]
  <1>1. Served(r) /\ UNCHANGED <<files, state, lease, binding, staged, holds, stalled, late, local>>
    BY Before, RecordServed DEF Register, RecordRow
  <1>2. PICK place \in {"refused", "delete", "answered"} :
          Goto(r, place) /\ (place # "refused" => registry'[e] = RowOf(s))
    BY DEF Register
  <1>3. state[e].status = "completed" /\ s = state[e] /\ Kept(s, files)
    BY Before DEF Register, Carries, CarryOK, Settled
  <1>4. Moves(r, place, s)
    BY <1>1, <1>2, Before DEF Moves, Places, Ended
  <1>5. CarryOK(r, place, s, files', state'[e], lease'[e])
    BY <1>1, <1>2, <1>3 DEF CarryOK, PlaceOK, Settled, Saving
  <1>6. Arrival(r, place, s)
    BY <1>1, <1>2, <1>3, <1>5 DEF Arrival, BoundAt, HoldAt, Saving
  <1> QED  BY <1>1, <1>4, <1>6, MoveStep DEF Register

LEMMA DeleteStep ==
    ASSUME IInv, NEW r \in Requests, DeleteStage(r)
    PROVE  Stepped(r)
  <1> DEFINE e == DigestOf[r]
  <1>1. /\ UNCHANGED <<nonce, binding, state, lease, registry, local, staged, holds, stalled, late>>
        /\ files' \subseteq Files /\ \A f \in files : f # StageFile => f \in files'
    BY DEF DeleteStage, IInv, ServiceTypes
  <1>2. Served(r)
    BY <1>1, FilesServed
  <1>3. Completed(e) /\ registry[e] = RowOf(state[e])
    BY DEF DeleteStage, IInv, RequestOK
  <1>4. Moves(r, "answered", local[r])
    BY <1>1, Before DEF DeleteStage, Moves, Places, Ended
  <1>5. Kept(local[r], files')
    BY <1>1, Before, KeptOn
  <1>6. CarryOK(r, "answered", local[r], files', state'[e], lease'[e])
    BY <1>5 DEF CarryOK, PlaceOK, Settled, Saving
  <1>7. Arrival(r, "answered", local[r])
    BY <1>1, <1>3, <1>6 DEF Arrival, Completed, BoundAt, HoldAt, Saving
  <1> QED  BY <1>2, <1>4, <1>7, MoveStep DEF DeleteStage

-----------------------------------------------------------------------------
(* Failures, late calls, leases that expire, the sweep.                      *)

\* Request r stands where late calls may be about, with nothing to fear: what
\* it carries, and what its late calls carry, holds as before.
LEMMA StandStep ==
    ASSUME IInv, NEW r \in Requests, Served(r), Turn(r), RequestTypes', GoneOK(r)',
           \A f \in files : f # StageFile => f \in files',
           UNCHANGED state, lease'[DigestOf[r]] = r => lease[DigestOf[r]] = r,
           \A p, s : <<r, p, s>> \in late' => Carries(r, p, s),
           Carries(r, pc'[r], local'[r]),
           pc'[r] \in BoundAt => binding = DigestOf[r],
           pc'[r] \in HoldAt => lease'[DigestOf[r]] = r \/ r \in stalled',
           pc'[r] \in {"delete", "answered"} =>
             Completed(DigestOf[r]) /\ registry'[DigestOf[r]] = RowOf(state[DigestOf[r]])
    PROVE  Stepped(r)
  <1>1. ASSUME NEW p, NEW s, Carries(r, p, s)
        PROVE  Carries(r, p, s)'
    BY <1>1, KeptOn DEF Carries, CarryOK
  <1>2. binding = DigestOf[r] => binding' = DigestOf[r]
    BY Digest, NoneIsNoDigest DEF Served, Effects
  <1>3. RequestOK(r)'
    BY <1>1, <1>2 DEF RequestOK, Completed
  <1>4. \A q \in Requests : RequestOK(q)'
    BY <1>3, OthersOK DEF Served
  <1> QED  BY <1>4 DEF Stepped, Served, IInv

LEMMA CatchStep ==
    ASSUME IInv, NEW r \in Requests, Catch(r)
    PROVE  Stepped(r)
  <1>1. /\ pc[r] \in {"failing", "yielding"} /\ UNCHANGED <<nonce, files, state, stalled, late, binding, registry>>
        /\ ReleaseLease(r) \/ UNCHANGED service
    BY DEF Catch, ReleaseLease, service, records
  <1>2. Served(r) /\ (lease'[DigestOf[r]] = r => lease[DigestOf[r]] = r)
    <2>1. CASE ReleaseLease(r)
      BY <2>1, ReleaseServed, Digest DEF ReleaseLease, IInv, ServiceTypes
    <2>2. CASE UNCHANGED service
      BY <2>2, Before, Untouched DEF service, records
    <2> QED  BY <1>1, <2>1, <2>2
  <1>3. PICK place \in {"failed", "busy"} :
          Goto(r, place) /\ (pc[r] = "failing" => place = "failed")
    BY DEF Catch
  <1>4. /\ local' = [local EXCEPT ![r] = NoState] /\ staged' \in [Requests -> BOOLEAN]
        /\ holds' \in [Requests -> BOOLEAN]
    BY Before DEF Catch
  <1>5. RequestTypes' /\ Turn(r) /\ pc'[r] = place /\ local'[r] = NoState
    BY <1>1, <1>3, <1>4, StateTypes DEF Goto, IInv, RequestTypes, Turn, Places, Ended
  <1>6. GoneOK(r)'
    BY <1>1, <1>3, <1>5 DEF IInv, RequestOK, GoneOK
  <1>7. Carries(r, place, NoState)
    <2>1. Kept(NoState, files)
      BY DEF Kept, NoState
    <2> QED  BY <2>1, PlainCarry DEF Carries, Plain
  <1>8. \A p, s : <<r, p, s>> \in late' => Carries(r, p, s)
    BY <1>1 DEF IInv, RequestOK
  <1>9. place \notin BoundAt \cup HoldAt \cup {"delete", "answered"}
    BY DEF BoundAt, HoldAt, Saving
  <1> QED  BY <1>1, <1>2, <1>5, <1>6, <1>7, <1>8, <1>9, StandStep

LEMMA GiveUpStep ==
    ASSUME IInv, NEW r \in Requests, GiveUp(r)
    PROVE  Stepped(r)
  <1>1. /\ pc[r] \in Writes \cup Reads /\ Goto(r, "failing")
        /\ UNCHANGED <<service, local, staged, holds, stalled>>
        /\ late' = late \/ (pc[r] \in Writes /\ late' = late \cup {<<r, pc[r], local[r]>>})
    BY DEF GiveUp
  <1>2. \A p, s : <<r, p, s>> \notin late
    <2>1. pc[r] \notin {"failing", "failed"}
      BY <1>1 DEF Writes, Reads
    <2> QED  BY <2>1 DEF IInv, RequestOK, GoneOK
  <1>3. Served(r) /\ UNCHANGED <<files, state, lease>>
    BY <1>1, Before, Untouched DEF service, records
  <1>4. RequestTypes' /\ Turn(r) /\ pc'[r] = "failing" /\ local'[r] = local[r]
    <2>1. late' \subseteq Requests \X Writes \X SavedStates
      BY <1>1, Before DEF IInv, RequestTypes
    <2>2. pc' \in [Requests -> Places] /\ pc'[r] = "failing"
          /\ \A q \in Requests \ {r} : pc'[q] = pc[q]
      BY <1>1 DEF Goto, IInv, RequestTypes, Places
    <2>3. \A q \in Requests \ {r} : \A p, s : <<q, p, s>> \in late' => <<q, p, s>> \in late
      BY <1>1
    <2> QED  BY <1>1, <2>1, <2>2, <2>3 DEF IInv, RequestTypes, Turn
  <1>5. \A p, s : <<r, p, s>> \in late' => p = pc[r] /\ s = local[r]
    BY <1>1, <1>2
  <1>6. GoneOK(r)'
    BY <1>4, <1>5 DEF GoneOK
  <1>7. Carries(r, "failing", local[r]) /\ Carries(r, pc[r], local[r])
    BY Before, PlainCarry DEF Carries, Plain
  <1>8. "failing" \notin BoundAt \cup HoldAt \cup {"delete", "answered"}
    BY DEF BoundAt, HoldAt, Saving
  <1> QED  BY <1>3, <1>4, <1>5, <1>6, <1>7, <1>8, StandStep

LEMMA LateStep ==
    ASSUME IInv, NEW call \in late, LateArrival(call)
    PROVE  \E r \in Requests : Stepped(r)
  <1>1. PICK r \in Requests, p \in Writes, s \in SavedStates : call = <<r, p, s>>
    BY DEF IInv, RequestTypes
  <1>2. /\ Arrives(r, p, s) /\ late' = late \ {<<r, p, s>>}
        /\ UNCHANGED <<pc, local, staged, holds, stalled>>
    BY <1>1 DEF LateArrival, request
  <1>3. pc[r] \in {"failing", "failed"} /\ Carries(r, p, s)
        /\ \A u, t : <<r, u, t>> \in late => u = p /\ t = s
    BY <1>1 DEF IInv, RequestOK, GoneOK
  <1>4. Served(r)
    BY <1>2, <1>3, ArrivalServed
  <1>5. RequestTypes' /\ Turn(r)
    BY <1>2 DEF IInv, RequestTypes, Turn
  <1>6. \A u, t : <<r, u, t>> \notin late'
    BY <1>2, <1>3
  <1>7. Kept(local[r], files')
    BY <1>4, Before, KeptOn DEF Served, Effects
  <1>8. RequestOK(r)'
    <2>1. CarryOK(r, pc[r], local[r], files', state'[DigestOf[r]], lease'[DigestOf[r]])
      BY <1>3, <1>7, PlainCarry DEF Plain
    <2> QED  BY <1>2, <1>3, <1>6, <2>1 DEF RequestOK, GoneOK, Carries, BoundAt, HoldAt, Saving
  <1>9. \A q \in Requests : RequestOK(q)'
    BY <1>4, <1>5, <1>8, OthersOK DEF Served
  <1> QED  BY <1>4, <1>5, <1>9 DEF Stepped, Served, IInv

LEMMA ExpiryStep ==
    ASSUME IInv, NEW d \in Digests, LeaseExpires(d)
    PROVE  \E r \in Requests : Stepped(r)
  <1> DEFINE r == lease[d]
  <1>1. r \in Requests
    BY DEF LeaseExpires, IInv, ServiceTypes, Pins
  <1>2. /\ UNCHANGED <<nonce, files, binding, state, registry, request, late>>
        /\ lease' = [lease EXCEPT ![d] = None]
        /\ stalled' = stalled \/ stalled' = stalled \cup {r}
        /\ pc[r] \in Ended \cup {"failing", "yielding"} \/ r \in stalled'
    BY DEF LeaseExpires
  <1>3. /\ lease' \in [Digests -> Pins] /\ lease'[d] = None
        /\ \A e \in Digests \ {d} : lease'[e] = lease[e]
    BY <1>2 DEF IInv, ServiceTypes, Pins
  <1>4. \A e \in Digests : lease'[e] = lease[e] \/ {lease[e], lease'[e]} \subseteq {r, None}
    BY <1>3
  <1>5. Served(r)
    BY <1>2, <1>3, <1>4, LeaseServed
  <1> HIDE DEF r
  <1>6. RequestTypes' /\ Turn(r) /\ pc' = pc /\ local' = local
    BY <1>1, <1>2 DEF IInv, RequestTypes, Turn, request
  <1>7. lease'[DigestOf[r]] = r => lease[DigestOf[r]] = r
    BY <1>1, <1>3, Digest
  <1>8. RequestOK(r)
    BY <1>1 DEF IInv
  <1>9. pc[r] \in HoldAt => lease'[DigestOf[r]] = r \/ r \in stalled'
    BY <1>2 DEF HoldAt, Saving, Ended
  <1>10. Stepped(r)
    BY <1>1, <1>2, <1>5, <1>6, <1>7, <1>8, <1>9, StandStep DEF RequestOK, GoneOK
  <1> QED  BY <1>1, <1>10

LEMMA SweepStep ==
    ASSUME IInv, Sweep
    PROVE  Stepped(None)
  <1>1. PICK file \in files : file.kind = "stage" /\ files' = files \ {file}
    BY DEF Sweep, Sweepable
  <1>2. file = StageFile
    BY <1>1 DEF IInv, ServiceTypes, Files, Artwork, Metadata
  <1>3. UNCHANGED <<nonce, binding, state, lease, registry, pc, local, staged, holds, stalled, late>>
    BY DEF Sweep, request
  <1>4. Served(None)
    BY <1>1, <1>2, <1>3, FilesServed DEF IInv, ServiceTypes
  <1>5. RequestTypes' /\ Turn(None)
    BY <1>3 DEF IInv, RequestTypes, Turn
  <1>6. \A q \in Requests : RequestOK(q)'
    BY <1>4, <1>5, NoneIsNoDigest, OthersOK DEF Served
  <1> QED  BY <1>4, <1>5, <1>6 DEF Stepped, Served, IInv

LEMMA SomebodySteps ==
    ASSUME IInv, Next
    PROVE  \E r \in Requests \cup {None} : Stepped(r)
  <1>1. ASSUME NEW r \in Requests, Step(r) \/ GiveUp(r)
        PROVE  Stepped(r)
    BY <1>1, NonceStep, StartStep, LoadStep, BindStep, PendStep, ReadStep, TakeLeaseStep,
       RereadStep, LetGoStep, UploadStep, SaveImageStep, SaveMetadataStep, CompleteStep,
       RegisterStep, DeleteStep, CatchStep, GiveUpStep DEF Step
  <1> QED  BY <1>1, LateStep, ExpiryStep, SweepStep DEF Next

LEMMA InitInv == Init => IInv
  <1> SUFFICES ASSUME Init PROVE IInv
    OBVIOUS
  <1>1. ServiceTypes /\ RequestTypes
    BY StateTypes
    DEF Init, ServiceTypes, RequestTypes, Files, Pins, NoRow, Places
  <1>2. ServiceOK
    BY DEF Init, ServiceOK, Shape, Kept, NoState, Completed
  <1>3. ASSUME NEW r \in Requests
        PROVE  RequestOK(r)
    <2>1. pc[r] = "idle" /\ local[r] = NoState /\ late = {}
      BY DEF Init
    <2>2. Kept(NoState, files)
      BY DEF Kept, NoState
    <2>3. Carries(r, pc[r], local[r])
      BY <2>1, <2>2, PlainCarry DEF Carries, Plain
    <2> QED  BY <2>1, <2>3 DEF RequestOK, GoneOK, BoundAt, HoldAt, Saving
  <1> QED  BY <1>1, <1>2, <1>3 DEF IInv

LEMMA NextInv == IInv /\ [Next]_vars => IInv'
  <1>1. ASSUME IInv, Next PROVE IInv'
    BY <1>1, SomebodySteps DEF Stepped
  <1>2. ASSUME IInv, UNCHANGED vars PROVE IInv'
    BY <1>2
    DEF vars, service, records, request, IInv, ServiceTypes, RequestTypes, ServiceOK, RequestOK,
        GoneOK, Carries, Completed
  <1> QED  BY <1>1, <1>2

LEMMA Inductive == Spec => []IInv
  BY InitInv, NextInv, PTL DEF Spec

-----------------------------------------------------------------------------
(* The theorems.                                                             *)

\* The types of Redis, the registry and the requests.
THEOREM TypeCorrect == Spec => []TypeOK
  <1>1. IInv => TypeOK
    BY DEF IInv, ServiceTypes, RequestTypes, Places, TypeOK
  <1> QED  BY <1>1, Inductive, PTL

\* Whatever a promotion state or a registry row names stays in storage: neither
\* the sweep nor a request that fails removes a pin (isOwnedStage).
THEOREM PinsStayKept == Spec => []NamedPinsAreKept
  <1>1. ASSUME IInv
        PROVE  NamedPinsAreKept
    <2>1. ASSUME NEW d \in Digests
          PROVE  Kept(state[d], files) /\ Kept(registry[d], files)
      <3>1. Kept(NoRow, files)
        BY DEF Kept, NoRow
      <3>2. Kept(state[d], files) /\ (registry[d] = NoRow \/ registry[d] = RowOf(state[d]))
        BY <1>1 DEF IInv, ServiceOK
      <3> QED  BY <3>1, <3>2 DEF Kept, RowOf
    <2> QED  BY <2>1 DEF NamedPinsAreKept, Kept
  <1> QED  BY <1>1, Inductive, PTL

\* Of the requests that did not outlive their lease, one at a time uploads.
THEOREM UploadsExclude == Spec => []OneUploader
  <1>1. ASSUME IInv
        PROVE  OneUploader
    <2> SUFFICES ASSUME NEW r \in Requests \ stalled, NEW q \in Requests \ stalled,
                        {pc[r], pc[q]} \subseteq Saving
                 PROVE  r = q
      BY DEF OneUploader, Saving
    <2>1. ASSUME NEW x \in Requests \ stalled, pc[x] \in Saving
          PROVE  binding = DigestOf[x] /\ lease[DigestOf[x]] = x
      BY <1>1, <2>1 DEF IInv, RequestOK, BoundAt, HoldAt
    <2>2. binding = DigestOf[r] /\ lease[binding] = r /\ binding = DigestOf[q] /\ lease[binding] = q
      BY <2>1
    <2> QED  BY <2>2
  <1> QED  BY <1>1, Inductive, PTL

\* No slow request and no late call puts back what it last knew
\* (SAVE_STATE_SCRIPT, COMPLETE_STATE_SCRIPT).
THEOREM NothingIsUndone == Spec => ProgressOnlyGrows
  <1> DEFINE Grows == \A d \in Digests :
                        /\ state[d].image # None => state'[d].image = state[d].image
                        /\ state[d].metadata # None => state'[d].metadata = state[d].metadata
                        /\ Completed(d) => state'[d] = state[d]
  <1>1. IInv /\ [Next]_vars => [Grows]_vars
    BY SomebodySteps DEF Stepped, Effects, Grown, Completed
  <1> QED  BY <1>1, Inductive, PTL DEF Spec, ProgressOnlyGrows

\* A request leaves the answer of success never, and reaches it in a step that
\* saves nothing.
LEMMA AnswersStand ==
    ASSUME IInv, Next, NEW q \in Requests
    PROVE  /\ pc[q] = "answered" => pc'[q] = "answered"
           /\ pc'[q] = "answered" /\ pc[q] # "answered" => state' = state
  <1> DEFINE Stands == /\ pc[q] = "answered" => pc'[q] = "answered"
                       /\ pc'[q] = "answered" /\ pc[q] # "answered" => state' = state
  <1>1. pc \in [Requests -> Places]
    BY DEF IInv, RequestTypes
  <1>2. ASSUME NEW r \in Requests, NEW place, pc[r] # "answered", Goto(r, place),
               place = "answered" => state' = state
        PROVE  Stands
    BY <1>1, <1>2 DEF Goto
  <1>3. ASSUME pc' = pc
        PROVE  Stands
    BY <1>3
  <1>4. ASSUME NEW r \in Requests, NEW place, pc[r] # "answered", Reading(r, place), state' = state
        PROVE  Stands
    BY <1>2, <1>4 DEF Reading
  <1> HIDE DEF Stands
  <1>5. ASSUME NEW r \in Requests, Start(r) \/ Read(r) \/ BusyRead(r)
        PROVE  Stands
    BY <1>4, <1>5 DEF Start, Read, BusyRead, service, records
  <1>6. ASSUME NEW r \in Requests, ConsumeNonce(r) \/ Load(r) \/ Bind(r) \/ Pend(r) \/ TakeLease(r)
        PROVE  Stands
    BY <1>2, <1>6 DEF ConsumeNonce, Load, Bind, Pend, TakeLease
  <1>7. ASSUME NEW r \in Requests, Reread(r)
        PROVE  Stands
    BY <1>2, <1>7 DEF Reread, NextPart
  <1>8. ASSUME NEW r \in Requests,
               LetGo(r) \/ UploadImage(r) \/ SaveImage(r) \/ UploadMetadata(r) \/ SaveMetadata(r)
               \/ Complete(r) \/ Catch(r) \/ GiveUp(r)
        PROVE  Stands
    BY <1>2, <1>8 DEF LetGo, UploadImage, SaveImage, UploadMetadata, SaveMetadata, Complete,
                      Catch, GiveUp, Writes, Reads
  <1>9. ASSUME NEW r \in Requests, Register(r) \/ DeleteStage(r)
        PROVE  Stands
    BY <1>2, <1>9 DEF Register, RecordRow, DeleteStage
  <1>10. ASSUME NEW call \in late, LateArrival(call)
         PROVE  Stands
    BY <1>3, <1>10 DEF LateArrival, request
  <1>11. ASSUME (\E d \in Digests : LeaseExpires(d)) \/ Sweep
         PROVE  Stands
    BY <1>3, <1>11 DEF LeaseExpires, Sweep, request
  <1>12. Stands
    BY <1>5, <1>6, <1>7, <1>8, <1>9, <1>10, <1>11 DEF Next, Step
  <1> QED  BY <1>12 DEF Stands

Published == {PublicationOf(d, state[d]) : d \in {e \in Digests : Completed(e)}}
Recorded  == {PublicationOf(d, registry[d]) : d \in {e \in Digests : registry[e] # NoRow}}
Successes == {r \in Requests : pc[r] = "answered"}

PublishedOnce ==
    \A d \in Digests : Completed(d) =>
      /\ Published = {PublicationOf(d, state[d])}
      /\ PublicationOf(d, state[d]) \in Publication!Publication
      /\ PublicationOf(d, state[d]).digest = d
      /\ registry[d] = NoRow => Recorded = {}
      /\ registry[d] # NoRow => Recorded = Published

NothingYet ==
    (\A d \in Digests : ~Completed(d)) => Published = {} /\ Recorded = {} /\ Successes = {}

LEMMA PublishedIs == IInv => PublishedOnce
  <1> SUFFICES ASSUME IInv, NEW d \in Digests, Completed(d)
               PROVE  /\ Published = {PublicationOf(d, state[d])}
                      /\ PublicationOf(d, state[d]) \in Publication!Publication
                      /\ PublicationOf(d, state[d]).digest = d
                      /\ registry[d] = NoRow => Recorded = {}
                      /\ registry[d] # NoRow => Recorded = Published
    BY DEF PublishedOnce
  <1>1. \A e \in Digests : Completed(e) => e = d
    BY DEF IInv, ServiceOK
  <1>2. Published = {PublicationOf(d, state[d])}
    BY <1>1 DEF Published
  <1>3. state[d].image \in Requests /\ state[d].metadata \in Requests
    BY DEF IInv, ServiceTypes, ServiceOK, Shape, Completed, SavedStates, Pins
  <1>4. \A e \in Digests : registry[e] # NoRow => e = d /\ registry[e] = RowOf(state[d])
    BY <1>1 DEF IInv, ServiceOK
  <1>5. PublicationOf(d, RowOf(state[d])) = PublicationOf(d, state[d])
    BY DEF PublicationOf, RowOf
  <1>6. /\ registry[d] = NoRow => Recorded = {}
        /\ registry[d] # NoRow => Recorded = Published
    BY <1>2, <1>4, <1>5 DEF Recorded
  <1> QED  BY <1>2, <1>3, <1>6 DEF PublicationOf, Publication!Publication

LEMMA PublishedNone == IInv => NothingYet
  BY Digest DEF IInv, ServiceOK, RequestOK, Published, Recorded, Successes, NothingYet

LEMMA StepPublishes ==
    ASSUME IInv, [Next]_vars
    PROVE  [Publication!Next]_<<Published, Recorded, Successes>>
  <1>1. CASE UNCHANGED vars
    BY <1>1 DEF vars, service, records, request, Published, Recorded, Successes, Completed
  <1>2. CASE Next
    <2>1. IInv'
      BY NextInv
    <2>9. PublishedOnce /\ NothingYet
      BY PublishedIs, PublishedNone
    <2>10. PublishedOnce' /\ NothingYet'
      BY <2>1, PublishedIs, PublishedNone, PTL
    <2>2. PICK r \in Requests \cup {None} : Stepped(r)
      BY <1>2, SomebodySteps
    <2>3. \A d \in Digests : /\ Completed(d) => state'[d] = state[d] /\ Completed(d)'
                             /\ registry[d] # NoRow => registry'[d] = registry[d]
      BY <2>2 DEF Stepped, Effects, Grown, Completed
    <2>4. state' # state => registry' = registry
      BY <2>2 DEF Stepped, Effects
    <2>5. Successes \subseteq Successes' /\ (Successes' # Successes => state' = state)
      BY <1>2, AnswersStand DEF Successes
    <2>6. \A q \in Requests \ {r} : q \in Successes' => q \in Successes
      BY <2>2 DEF Stepped, Turn, Successes
    <2>7. CASE \E d \in Digests : Completed(d)
      <3>1. PICK d \in Digests : Completed(d)
        BY <2>7
      <3>2. Published' = Published /\ Published # {} /\ (Recorded = {} \/ Recorded = Published)
            /\ (Recorded' = {} \/ Recorded' = Published)
        BY <2>3, <2>9, <2>10, <3>1 DEF PublishedOnce
      <3>3. Recorded # {} => Recorded' = Recorded
        BY <2>3, <2>9, <2>10, <3>1 DEF PublishedOnce
      <3>4. CASE Successes' = Successes
        BY <3>2, <3>3, <3>4
        DEF Publication!Next, Publication!Decide, Publication!Record, Publication!Answer,
            Published, Recorded, Successes
      <3>5. CASE Successes' # Successes
        <4>1. r \in Requests /\ r \in Successes' /\ Successes' = Successes \cup {r}
          BY <2>5, <2>6, <3>5 DEF Successes
        <4>2. pc'[r] = "answered"
          BY <4>1 DEF Successes
        <4>3. Completed(DigestOf[r])' /\ registry'[DigestOf[r]] = RowOf(state'[DigestOf[r]])
          BY <2>1, <4>1, <4>2 DEF IInv, RequestOK
        <4>4. Shape(state'[DigestOf[r]])
          BY <2>1, <4>1, Digest DEF IInv, ServiceOK
        <4>5. registry'[DigestOf[r]] # NoRow
          BY <4>3, <4>4 DEF Shape, Completed, RowOf, NoRow
        <4>6. DigestOf[r] = d
          <5>1. Completed(d)' /\ DigestOf[r] \in Digests
            BY <2>3, <3>1, <4>1, Digest
          <5> QED  BY <2>1, <4>3, <5>1 DEF IInv, ServiceOK
        <4>7. \E p \in Published : p.digest = DigestOf[r]
          BY <2>9, <3>1, <4>6 DEF PublishedOnce
        <4>8. Recorded' = Published
          BY <2>3, <2>10, <3>1, <3>2, <4>5, <4>6 DEF PublishedOnce
        <4> QED
          BY <3>2, <4>1, <4>7, <4>8
          DEF Publication!Next, Publication!Answer, Published, Recorded, Successes
      <3> QED  BY <3>4, <3>5
    <2>8. CASE \A d \in Digests : ~Completed(d)
      <3>1. Published = {} /\ Recorded = {} /\ Successes = {}
        BY <2>8, <2>9 DEF NothingYet
      <3>2. CASE \A d \in Digests : ~Completed(d)'
        <4>1. Published' = {} /\ Recorded' = {} /\ Successes' = {}
          BY <2>10, <3>2 DEF NothingYet
        <4> QED  BY <3>1, <4>1
      <3>3. CASE \E d \in Digests : Completed(d)'
        <4>1. PICK d \in Digests : Completed(d)'
          BY <3>3
        <4>2. state' # state
          BY <2>8, <4>1 DEF Completed
        <4>3. Successes' = Successes /\ registry' = registry
          BY <2>4, <2>5, <4>2
        <4>4. registry[d] = NoRow
          BY <2>8 DEF IInv, ServiceOK
        <4>5. Recorded' = {} /\ \E p \in Publication!Publication : Published' = {p}
          BY <2>10, <4>1, <4>3, <4>4 DEF PublishedOnce
        <4> QED
          BY <3>1, <4>3, <4>5
          DEF Publication!Next, Publication!Decide, Published, Recorded, Successes
      <3> QED  BY <3>2, <3>3
    <2> QED  BY <2>7, <2>8
  <1> QED  BY <1>1, <1>2

\* The handler, its scripts and the registry together implement the promise: at
\* most one publication per stage, recorded before any success.
THEOREM PromotionPublishes == Spec => PublishesOnce
  <1>1. Init => Publication!Init
    <2> SUFFICES ASSUME Init PROVE Publication!Init
      OBVIOUS
    <2>1. IInv /\ \A d \in Digests : ~Completed(d)
      BY InitInv DEF Init, Completed, NoState
    <2> QED  BY <2>1, PublishedNone DEF NothingYet, Publication!Init, Published, Recorded, Successes
  <1>2. IInv /\ [Next]_vars => [Publication!Next]_(Publication!vars)
    BY StepPublishes DEF Publication!vars, Published, Recorded, Successes,
       Publication!Next, Publication!Decide, Publication!Record, Publication!Answer
  <1> QED  BY <1>1, <1>2, Inductive, PTL DEF Spec, PublishesOnce, Publication!Spec

=============================================================================
