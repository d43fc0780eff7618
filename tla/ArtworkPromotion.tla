-------------------------- MODULE ArtworkPromotion --------------------------
(***************************************************************************)
(* The promotion of one staged upload to permanent IPFS pins: the handler  *)
(* of POST /api/ipfs/pin (app/api/ipfs/pin/route.ts), the Redis records it *)
(* coordinates through (lib/server/ipfs/promotion.ts), the registry table  *)
(* (lib/server/ipfs/registry.ts) and the stale-stage sweep                 *)
(* (lib/server/ipfs/pinata.ts).                                            *)
(*                                                                         *)
(* A request is one run of the handler, for the pin digest its signature   *)
(* covers.  Its control state pc is the awaited call it makes next; what   *)
(* it does up to its next await is one action.  A call may be given up     *)
(* (the 45 second deadline, a broken connection, a dying process) while it *)
(* is in flight: it may then still reach its service, at any later time,   *)
(* or never.  A request carries a challenge its wallet signed for the      *)
(* digest; its nonce is consumed first (lib/server/auth/redis.ts).  The    *)
(* 90 day expiry of the Redis records is longer than any behaviour         *)
(* modelled.                                                               *)
(***************************************************************************)
EXTENDS Naturals, FiniteSets

CONSTANTS Requests,   \* runs of the handler that name this stage file
          Digests,    \* the pin digests they were signed for
          DigestOf,   \* the digest of each request
          MaxStalls,  \* bound: requests whose process stalls past its lease
          None

ASSUME RequestsAssumption ==
    /\ DigestOf \in [Requests -> Digests]
    /\ MaxStalls \in Nat
    /\ None \notin Requests \cup Digests

VARIABLES
    nonce,      \* Redis: the key under which each digest's nonce was consumed, or None
    files,      \* the files Pinata keeps: the stage and the permanent pins
    binding,    \* Redis: the digest the stage is bound to, or None
    state,      \* Redis: the saved promotion state of each digest
    lease,      \* Redis: the token in each digest's lease, or None
    registry,   \* Postgres: the ipfs_promotions row of each digest
    pc,         \* where each request is
    local,      \* the handler's variable "state"
    staged,     \* it has loaded the stage file
    holds,      \* its variable "lease" is set
    stalled,    \* requests that outlived their lease
    late        \* calls given up by their request that may still arrive

records == <<files, binding, state, lease, registry>>
service == <<nonce, records>>
request == <<pc, local, staged, holds>>
vars    == <<service, request, stalled, late>>

-----------------------------------------------------------------------------
StageFile   == [kind |-> "stage",    by |-> None]
Artwork(r)  == [kind |-> "artwork",  by |-> r]
Metadata(r) == [kind |-> "metadata", by |-> r]

\* A pin is named by the request that uploaded it: the upload service gives
\* every upload a fresh file id and never deduplicates.
NoState == [status |-> "none",    image |-> None, metadata |-> None]
Pending == [status |-> "pending", image |-> None, metadata |-> None]

NoRow       == [image |-> None, metadata |-> None]
RowOf(s)    == [image |-> s.image, metadata |-> s.metadata]

imagePinnedState(s, r)    == [s EXCEPT !.status = "image-pinned", !.image = r]
metadataPinnedState(s, r) == [s EXCEPT !.status = "metadata-pinned", !.metadata = r]
completedState(s)         == [s EXCEPT !.status = "completed"]

Writes == {"bind", "pend", "lease", "letgo", "image", "save-image", "metadata",
           "save-metadata", "complete", "register", "reregister"}
Reads  == {"start", "load", "read", "busy-read", "reread"}
Ended  == {"answered", "refused", "busy", "failed"}

Init == /\ nonce = [d \in Digests |-> None]
        /\ files = {StageFile}
        /\ binding = None
        /\ state = [d \in Digests |-> NoState]
        /\ lease = [d \in Digests |-> None]
        /\ registry = [d \in Digests |-> NoRow]
        /\ pc = [r \in Requests |-> "idle"]
        /\ local = [r \in Requests |-> NoState]
        /\ staged = [r \in Requests |-> FALSE]
        /\ holds = [r \in Requests |-> FALSE]
        /\ stalled = {}
        /\ late = {}

-----------------------------------------------------------------------------
(* What a call does at its service when it arrives there.                  *)

SetNonce(r) ==
    /\ nonce' = [nonce EXCEPT ![DigestOf[r]] = IF @ = None THEN DigestOf[r] ELSE @]
    /\ UNCHANGED records

SetBinding(r) == /\ binding' = IF binding = None THEN DigestOf[r] ELSE binding
                 /\ UNCHANGED <<nonce, files, state, lease, registry>>

SetPending(r) ==
    /\ state' = [state EXCEPT ![DigestOf[r]] = IF @ = NoState THEN Pending ELSE @]
    /\ UNCHANGED <<nonce, files, binding, lease, registry>>

SetLease(r) == /\ lease' = [lease EXCEPT ![DigestOf[r]] = IF @ = None THEN r ELSE @]
               /\ UNCHANGED <<nonce, files, binding, state, registry>>

\* SAVE_STATE_SCRIPT and COMPLETE_STATE_SCRIPT look at the lease token and at
\* the binding, and write, in one atomic script.
MayWrite(r) == lease[DigestOf[r]] = r /\ binding = DigestOf[r]

\* Mutant of SaveState: a save that does not look at the lease token.
SaveWithoutToken(r, s) ==
    /\ state' = [state EXCEPT ![DigestOf[r]] = s]
    /\ UNCHANGED <<nonce, files, binding, lease, registry>>

SaveState(r, s) ==
    /\ state' = IF MayWrite(r) THEN [state EXCEPT ![DigestOf[r]] = s] ELSE state
    /\ UNCHANGED <<nonce, files, binding, lease, registry>>

CompleteState(r, s) ==
    /\ state' = IF MayWrite(r) THEN [state EXCEPT ![DigestOf[r]] = s] ELSE state
    /\ lease' = IF MayWrite(r) THEN [lease EXCEPT ![DigestOf[r]] = None] ELSE lease
    /\ UNCHANGED <<nonce, files, binding, registry>>

ReleaseLease(r) ==
    /\ lease' = [lease EXCEPT ![DigestOf[r]] = IF @ = r THEN None ELSE @]
    /\ UNCHANGED <<nonce, files, binding, state, registry>>

Upload(file) == /\ files' = files \cup {file}
                /\ UNCHANGED <<nonce, binding, state, lease, registry>>

\* INSERT ... ON CONFLICT DO UPDATE that only touches an identical row.
RecordRow(r, s) ==
    /\ registry' = [registry EXCEPT ![DigestOf[r]] = IF @ = NoRow THEN RowOf(s) ELSE @]
    /\ UNCHANGED <<nonce, files, binding, state, lease>>

\* s is the state the call carries.
Arrives(r, call, s) ==
    \/ call = "bind" /\ SetBinding(r)
    \/ call = "pend" /\ SetPending(r)
    \/ call = "lease" /\ SetLease(r)
    \/ call = "letgo" /\ ReleaseLease(r)
    \/ call = "image" /\ Upload(Artwork(r))
    \/ call = "metadata" /\ Upload(Metadata(r))
    \/ call \in {"save-image", "save-metadata"} /\ SaveState(r, s)
    \/ call = "complete" /\ CompleteState(r, s)
    \/ call \in {"register", "reregister"} /\ RecordRow(r, s)

-----------------------------------------------------------------------------
Goto(r, place) == pc' = [pc EXCEPT ![r] = place]

Reading(r, place) == /\ local' = [local EXCEPT ![r] = state[DigestOf[r]]]
                     /\ Goto(r, place)

Completed(d) == state[d].status = "completed"

\* Mutant of ConsumeNonce: a nonce is good for one request.
ConsumeNonceOnce(r) ==
    /\ pc[r] = "idle"
    /\ SetNonce(r)
    /\ Goto(r, IF nonce[DigestOf[r]] = None THEN "start" ELSE "refused")
    /\ UNCHANGED <<local, staged, holds, stalled, late>>

\* The request is sent and in order.  A consumed nonce stays consumed until its
\* challenge has expired, so the SET NX and the GET after a refusal are one step;
\* when its answer is lost the request gives up at its next call.
ConsumeNonce(r) ==
    /\ pc[r] = "idle"
    /\ SetNonce(r)
    /\ Goto(r, IF nonce'[DigestOf[r]] = DigestOf[r] THEN "start" ELSE "refused")
    /\ UNCHANGED <<local, staged, holds, stalled, late>>

\* Mutant of Start: a cached completion answered without registering it again.
StartAnswersCached(r) ==
    /\ pc[r] = "start"
    /\ Reading(r, CASE Completed(DigestOf[r]) -> "answered"
                    [] state[DigestOf[r]] \in {NoState, Pending} -> "load"
                    [] OTHER -> "bind")
    /\ UNCHANGED <<service, staged, holds, stalled, late>>

\* The handler's first read: a completed promotion is only registered again
\* and answered, one without a saved image needs the stage file.
Start(r) ==
    /\ pc[r] = "start"
    /\ Reading(r, CASE Completed(DigestOf[r]) -> "reregister"
                    [] state[DigestOf[r]] \in {NoState, Pending} -> "load"
                    [] OTHER -> "bind")
    /\ UNCHANGED <<service, staged, holds, stalled, late>>

\* loadValidatedStage.  The handler's second load, under the lease, is not
\* reached: who skipped the first had read a saved image.
Load(r) ==
    /\ pc[r] = "load"
    /\ staged' = [staged EXCEPT ![r] = StageFile \in files]
    /\ Goto(r, IF StageFile \in files THEN "bind" ELSE "refused")
    /\ UNCHANGED <<service, local, holds, stalled, late>>

\* Mutant of Bind: it takes any existing binding for the request's own.
BindUnchecked(r) ==
    /\ pc[r] = "bind"
    /\ SetBinding(r)
    /\ Goto(r, "pend")
    /\ UNCHANGED <<local, staged, holds, stalled, late>>

\* acquirePromotionLease: bind the stage, create the state, read it, take the
\* lease, read it again.  A binding is never removed, so its SET NX and the GET
\* after a refusal are one step.
Bind(r) ==
    /\ pc[r] = "bind"
    /\ SetBinding(r)
    /\ Goto(r, IF binding' = DigestOf[r] THEN "pend" ELSE "refused")
    /\ UNCHANGED <<local, staged, holds, stalled, late>>

Pend(r) == /\ pc[r] = "pend"
           /\ SetPending(r)
           /\ Goto(r, "read")
           /\ UNCHANGED <<local, staged, holds, stalled, late>>

Read(r) == /\ pc[r] = "read"
           /\ Reading(r, IF Completed(DigestOf[r]) THEN "reregister" ELSE "lease")
           /\ UNCHANGED <<service, staged, holds, stalled, late>>

TakeLease(r) ==
    /\ pc[r] = "lease"
    /\ SetLease(r)
    /\ Goto(r, IF lease[DigestOf[r]] = None THEN "reread" ELSE "busy-read")
    /\ UNCHANGED <<local, staged, holds, stalled, late>>

BusyRead(r) ==
    /\ pc[r] = "busy-read"
    /\ Reading(r, IF Completed(DigestOf[r]) THEN "reregister" ELSE "busy")
    /\ UNCHANGED <<service, staged, holds, stalled, late>>

\* Where a promotion resumes is read off the pins it has saved.
NextPart(s) == IF s.status = "completed" THEN "letgo"
               ELSE IF s.image = None THEN "image"
               ELSE IF s.metadata = None THEN "metadata"
               ELSE "complete"

\* Only here does the handler's own variable hold the lease: an error before
\* this point leaves a lease already taken to expire.  The registry check that
\* follows (assertPromotionRegistryReady) reads nothing it depends on later.
Reread(r) ==
    /\ pc[r] = "reread"
    /\ LET s == state[DigestOf[r]]
       IN  /\ Goto(r, NextPart(s))
           /\ local' = [local EXCEPT ![r] =
                            IF NextPart(s) = "complete" THEN completedState(s) ELSE s]
           /\ holds' = [holds EXCEPT ![r] = NextPart(s) # "letgo"]
    /\ UNCHANGED <<service, staged, stalled, late>>

LetGo(r) == /\ pc[r] = "letgo"
            /\ ReleaseLease(r)
            /\ Goto(r, "reregister")
            /\ UNCHANGED <<local, staged, holds, stalled, late>>

UploadImage(r) ==
    /\ pc[r] = "image"
    /\ Upload(Artwork(r))
    /\ local' = [local EXCEPT ![r] = imagePinnedState(@, r)]
    /\ Goto(r, "save-image")
    /\ UNCHANGED <<staged, holds, stalled, late>>

UploadMetadata(r) ==
    /\ pc[r] = "metadata"
    /\ Upload(Metadata(r))
    /\ local' = [local EXCEPT ![r] = metadataPinnedState(@, r)]
    /\ Goto(r, "save-metadata")
    /\ UNCHANGED <<staged, holds, stalled, late>>

SaveImage(r) ==
    /\ pc[r] = "save-image"
    /\ SaveState(r, local[r])
    /\ Goto(r, IF MayWrite(r) THEN "metadata" ELSE "yielding")
    /\ UNCHANGED <<local, staged, holds, stalled, late>>

SaveMetadata(r) ==
    /\ pc[r] = "save-metadata"
    /\ SaveState(r, local[r])
    /\ Goto(r, IF MayWrite(r) THEN "complete" ELSE "yielding")
    /\ local' = [local EXCEPT ![r] = IF MayWrite(r) THEN completedState(@) ELSE @]
    /\ UNCHANGED <<staged, holds, stalled, late>>

Complete(r) ==
    /\ pc[r] = "complete"
    /\ CompleteState(r, local[r])
    /\ Goto(r, IF MayWrite(r) THEN "register" ELSE "yielding")
    /\ holds' = [holds EXCEPT ![r] = @ /\ ~MayWrite(r)]
    /\ UNCHANGED <<local, staged, stalled, late>>

\* registerCompletedPromotion.  A row that differs from the state refuses the
\* request; the request that completed the promotion then removes the stage.
Register(r) ==
    /\ pc[r] \in {"register", "reregister"}
    /\ RecordRow(r, local[r])
    /\ Goto(r, IF registry'[DigestOf[r]] # RowOf(local[r]) THEN "refused"
               ELSE IF pc[r] = "register" /\ staged[r] THEN "delete"
               ELSE "answered")
    /\ UNCHANGED <<local, staged, holds, stalled, late>>

\* deletePublicFile reports failure instead of throwing; success is answered
\* either way.
DeleteStage(r) ==
    /\ pc[r] = "delete"
    /\ files' \in {files, files \ {StageFile}}
    /\ Goto(r, "answered")
    /\ UNCHANGED <<nonce, binding, state, lease, registry, local, staged, holds, stalled, late>>

\* An awaited call throws.  If it writes, it may still be on its way.
GiveUp(r) ==
    /\ pc[r] \in Writes \cup Reads
    /\ Goto(r, "failing")
    /\ late' = IF pc[r] \in Writes THEN late \cup {<<r, pc[r], local[r]>>} ELSE late
    /\ UNCHANGED <<service, local, staged, holds, stalled>>

\* The catch block: release the lease the handler knows of and report the error.
\* A release that fails is only logged; a process that died releases nothing.
\* Either way the handler's variables are gone.
Catch(r) ==
    /\ pc[r] \in {"failing", "yielding"}
    /\ \/ holds[r] /\ ReleaseLease(r)
       \/ UNCHANGED service
    /\ Goto(r, IF pc[r] = "failing" THEN "failed" ELSE "busy")
    /\ local' = [local EXCEPT ![r] = NoState]
    /\ staged' = [staged EXCEPT ![r] = FALSE]
    /\ holds' = [holds EXCEPT ![r] = FALSE]
    /\ UNCHANGED <<stalled, late>>

LateArrival(call) ==
    /\ call \in late
    /\ Arrives(call[1], call[2], call[3])
    /\ late' = late \ {call}
    /\ UNCHANGED <<request, stalled>>

\* The lease outlives the 45 seconds its holder may run, unless the holder's
\* process stalls.
LeaseExpires(d) ==
    /\ lease[d] # None
    /\ \/ pc[lease[d]] \in Ended \cup {"failing", "yielding"} /\ UNCHANGED stalled
       \/ /\ pc[lease[d]] \notin Ended \cup {"failing", "yielding"}
          /\ Cardinality(stalled) < MaxStalls
          /\ stalled' = stalled \cup {lease[d]}
    /\ lease' = [lease EXCEPT ![d] = None]
    /\ UNCHANGED <<nonce, files, binding, state, registry, request, late>>

\* Mutant of Sweepable: it goes by age and ignores the tags.
SweepableByAge(file) == file \in files

\* isOwnedStage: the sweep takes files tagged as stage files and no others.
Sweepable(file) == file.kind = "stage"

\* sweepStaleStageFiles, once the stage is an hour old; a request may be under
\* way.
Sweep == /\ \E file \in files : Sweepable(file) /\ files' = files \ {file}
         /\ UNCHANGED <<nonce, binding, state, lease, registry, request, stalled, late>>

Step(r) ==
    \/ ConsumeNonce(r) \/ Start(r) \/ Load(r) \/ Bind(r) \/ Pend(r) \/ Read(r) \/ TakeLease(r)
    \/ BusyRead(r) \/ Reread(r) \/ LetGo(r) \/ UploadImage(r)
    \/ SaveImage(r) \/ UploadMetadata(r) \/ SaveMetadata(r) \/ Complete(r)
    \/ Register(r) \/ DeleteStage(r) \/ Catch(r)

Next == \/ \E r \in Requests : Step(r) \/ GiveUp(r)
        \/ \E call \in late : LateArrival(call)
        \/ \E d \in Digests : LeaseExpires(d)
        \/ Sweep

\* A request that has been sent keeps running: its awaits return or throw.
Spec == Init /\ [][Next]_vars /\ WF_vars(\E r \in Requests : Step(r))

-----------------------------------------------------------------------------
Files == {StageFile} \cup {Artwork(r) : r \in Requests} \cup {Metadata(r) : r \in Requests}
Pins  == Requests \cup {None}
SavedStates == [status : {"none", "pending", "image-pinned", "metadata-pinned", "completed"},
                image : Pins, metadata : Pins]

\* Types of all variables (PromotionState, the Redis keys, the registry row).
TypeOK ==
    /\ nonce \in [Digests -> Digests \cup {None}]
    /\ files \subseteq Files
    /\ binding \in Digests \cup {None}
    /\ state \in [Digests -> SavedStates]
    /\ lease \in [Digests -> Pins]
    /\ registry \in [Digests -> [image : Pins, metadata : Pins]]
    /\ pc \in [Requests -> Writes \cup Reads \cup Ended
                             \cup {"idle", "delete", "failing", "yielding"}]
    /\ local \in [Requests -> SavedStates]
    /\ staged \in [Requests -> BOOLEAN]
    /\ holds \in [Requests -> BOOLEAN]
    /\ stalled \subseteq Requests
    /\ late \subseteq Requests \X Writes \X SavedStates

\* Refinement mapping: the publication is the completed promotion state.
PublicationOf(d, s) == [digest |-> d, image |-> s.image, metadata |-> s.metadata]

Publication == INSTANCE ArtworkPublication WITH
    published <- {PublicationOf(d, state[d]) : d \in {e \in Digests : Completed(e)}},
    rows      <- {PublicationOf(d, registry[d]) : d \in {e \in Digests : registry[e] # NoRow}},
    answered  <- {r \in Requests : pc[r] = "answered"}

\* Whatever requests overlap, give up, lose their lease or arrive late, a stage
\* is published at most once, the registry records exactly that publication,
\* and success is answered only for it (createPromotionIdentity, the binding,
\* the two scripts and RECORD_COMPLETED_PROMOTION_SQL together).
PublishesOnce == Publication!Spec

\* Saved progress is never undone or exchanged: once an image or a metadata pin
\* is saved for a promotion it stays the saved pin, and a completed promotion
\* stays as it is; a slow request that lost its lease, or a call of its that
\* arrives late, cannot put back what it last knew (SAVE_STATE_SCRIPT).
ProgressOnlyGrows == [][
    \A d \in Digests :
        /\ state[d].image # None => state'[d].image = state[d].image
        /\ state[d].metadata # None => state'[d].metadata = state[d].metadata
        /\ Completed(d) => state'[d] = state[d]]_vars

\* A pin that a promotion state or a registry row names, and so one a success
\* answer hands to a creator to launch with, is in storage: an issued metadata
\* URI has no expiry, so neither the sweep nor a failing request removes it.
NamedPinsAreKept ==
    \A s \in {state[d] : d \in Digests} \cup {registry[d] : d \in Digests} :
        /\ s.image # None => Artwork(s.image) \in files
        /\ s.metadata # None => Metadata(s.metadata) \in files

\* While no process stalls past its lease, one request at a time uploads for
\* the stage, whatever the digests: each upload leaves a permanent file, so two
\* at once would pin the same artwork twice (the binding and the lease).
OneUploader ==
    \A r, q \in Requests \ stalled :
        {pc[r], pc[q]} \subseteq {"image", "save-image", "metadata", "save-metadata", "complete"}
            => r = q

AloneAfterSave(r) ==
    /\ pc[r] = "idle"
    /\ state[DigestOf[r]].image # None
    /\ lease[DigestOf[r]] = None
    /\ late = {}
    /\ \A q \in Requests \ {r} : pc[q] \in Ended

\* Saved progress can be finished, without the stage file.  When a permanent
\* image is saved, one more request sent after all others ended, with no lease
\* in its way and none of their calls in flight, is answered with success, even
\* if the stage has been removed and its nonce consumed by an earlier attempt,
\* unless one of its own calls is given up or its process stalls
\* (handlePinRequest resuming from imagePin and metadataPin, consumeNonce).
SavedProgressIsFinished ==
    \A r \in Requests :
        AloneAfterSave(r) ~> (pc[r] \in {"answered", "failed"} \/ r \in stalled)

=============================================================================
