---------------------------- MODULE RenderDelta ----------------------------
(***************************************************************************)
(* ViewerRenderDeltaController (viewer-core/src/render-delta-controller.mjs)*)
(* and the renderer adapter it drives.                                     *)
(*                                                                         *)
(* JavaScript runs to completion, so a synchronous method is one action.   *)
(* An asynchronous one is cut at every await: applyCommittedAsync() into   *)
(* the call, the settling of prepareDelta(), the continuation that commits *)
(* or gives up, the two cleanup awaits and the final promise reaction that *)
(* clears #pending; disposeAsync() likewise.  A call the code refuses      *)
(* (it throws before it changes anything) is a disabled action.            *)
(*                                                                         *)
(* The adapter is external: it may fail wherever it is called, and it only *)
(* knows the deltas it was handed, so its screen is a copy of its own.     *)
(***************************************************************************)
EXTENDS RenderDeltaData

CONSTANTS
    NoDelta,                \* null, where a delta may be
    MaximumDeltaCount, MaximumPayloadBytes,
    MaximumOverlayEntries, MaximumDependencyIds

ASSUME LimitAssumption ==
    /\ NoDelta \notin Deltas
    /\ MaximumDeltaCount \in Nat \ {0} /\ MaximumPayloadBytes \in Nat \ {0}
    /\ MaximumOverlayEntries \in Nat \ {0} /\ MaximumDependencyIds \in Nat \ {0}

VARIABLES
    kind,             \* which methods the adapter has (assertAdapter)
    committed,        \* #committed
    preview,          \* #preview; delta = NoDelta stands for null
    pending,          \* #pending and where its asynchronous operation is
    closer,           \* how far disposeAsync() is
    closing, disposed,
    \* The adapter:
    staged,           \* the resources of a prepared transaction
    screen,           \* what the renderer shows
    screenBase,       \* what it would show after rollbackPreview()
    adapterDisposed

controllerVars == <<committed, preview, pending, closer, closing, disposed>>
adapterVars == <<staged, screen, screenBase, adapterDisposed>>
vars == <<kind, committed, preview, pending, closer, closing, disposed,
          staged, screen, screenBase, adapterDisposed>>

Kinds == {"none", "sync", "staged", "both"}

NoPreview == [delta |-> NoDelta, state |-> EmptyState(BaseRevision)]

\* "preparing": prepareDelta() runs.  "prepared": it resolved, its
\* continuation has not run.  "rollingBack", "disposingTx": the awaits of
\* discardPreparedDelta().  "settling": the operation is over, the reaction
\* that clears #pending has not run.
Phases == {"none", "preparing", "prepared", "rollingBack", "disposingTx",
           "settling"}

NoPending ==
    [delta |-> NoDelta, baseline |-> EmptyState(BaseRevision),
     next |-> EmptyState(BaseRevision), aborted |-> FALSE,
     cleaned |-> FALSE, phase |-> "none"]

TypeOK ==
    /\ kind \in Kinds
    /\ committed \in StateType
    /\ preview \in [delta: Deltas \cup {NoDelta}, state: StateType]
    /\ pending \in [delta: Deltas \cup {NoDelta}, baseline: StateType,
                    next: StateType, aborted: BOOLEAN, cleaned: BOOLEAN,
                    phase: Phases]
    /\ closer \in {"idle", "waiting", "adapter", "done"}
    /\ closing \in BOOLEAN /\ disposed \in BOOLEAN
    /\ staged \in {"free", "held", "leaked"}
    /\ screen \in SceneType /\ screenBase \in SceneType
    /\ adapterDisposed \in BOOLEAN

Init ==
    /\ kind \in Kinds
    /\ committed = EmptyState(BaseRevision)
    /\ preview = NoPreview
    /\ pending = NoPending
    /\ closer = "idle" /\ closing = FALSE /\ disposed = FALSE
    /\ staged = "free"
    /\ screen = BaseScene /\ screenBase = BaseScene
    /\ adapterDisposed = FALSE

-----------------------------------------------------------------------------
(* Guards the methods share.                                               *)

Open == ~disposed /\ ~closing                              \* #assertOpen
Idle == pending.phase = "none"                             \* #assertIdle
Previewing == preview.delta # NoDelta

\* Mutant: a delta is accepted on its sequence number alone.
ParsesBySequence(d, s) == d.seq = s.seq + 1

\* #parse: the descriptor must extend the given state.
Parses(d, s) == d.from = s.rev /\ d.seq = s.seq + 1

OverlayEntries(s) == Cardinality(s.tombs) + Cardinality(s.ups)

WithinLimits(s) ==                                    \* #assertWithinLimits
    /\ s.count <= MaximumDeltaCount
    /\ s.bytes <= MaximumPayloadBytes
    /\ OverlayEntries(s) <= MaximumOverlayEntries
    /\ Cardinality(s.deps) <= MaximumDependencyIds

\* A synchronous adapter method can be called: there is no adapter, or it
\* has the method and is alive.  (#synchronousAdapterMethod)
SyncAdapter == kind = "none" \/ (kind \in {"sync", "both"} /\ ~adapterDisposed)

\* Without an adapter there is nobody to draw.
Show(scene, base) ==
    IF kind = "none" THEN UNCHANGED <<screen, screenBase>>
    ELSE screen' = scene /\ screenBase' = base

\* The state lookup(), externalIdentity() and revisionId read.
View == IF Previewing THEN preview.state ELSE committed

-----------------------------------------------------------------------------
(* Synchronous methods.  A failing adapter call leaves everything as it    *)
(* was, which is a stuttering step.                                        *)

ApplyCommitted(d) ==
    /\ Open /\ Idle /\ ~Previewing
    /\ Parses(d, committed)
    /\ WithinLimits(ApplyDeltaToState(committed, d))
    /\ SyncAdapter
    /\ committed' = ApplyDeltaToState(committed, d)
    /\ Show(Draw(screen, d), Draw(screen, d))
    /\ UNCHANGED <<kind, preview, pending, closer, closing, disposed, staged,
                   adapterDisposed>>

\* Mutant: a preview may start while a delta is being prepared.
ApplyPreviewWhilePreparing(d) ==
    /\ Open /\ ~Previewing
    /\ Parses(d, committed)
    /\ WithinLimits(ApplyDeltaToState(committed, d))
    /\ SyncAdapter
    /\ preview' = [delta |-> d, state |-> ApplyDeltaToState(committed, d)]
    /\ Show(Draw(screen, d), screenBase)
    /\ UNCHANGED <<kind, committed, pending, closer, closing, disposed, staged,
                   adapterDisposed>>

\* Mutant: the limits are checked against the state before the delta.
ApplyPreviewUnbounded(d) ==
    /\ Open /\ Idle /\ ~Previewing
    /\ Parses(d, committed)
    /\ WithinLimits(committed)
    /\ SyncAdapter
    /\ preview' = [delta |-> d, state |-> ApplyDeltaToState(committed, d)]
    /\ Show(Draw(screen, d), screenBase)
    /\ UNCHANGED <<kind, committed, pending, closer, closing, disposed, staged,
                   adapterDisposed>>

ApplyPreview(d) ==
    /\ Open /\ Idle /\ ~Previewing
    /\ Parses(d, committed)
    /\ WithinLimits(ApplyDeltaToState(committed, d))
    /\ SyncAdapter
    /\ preview' = [delta |-> d, state |-> ApplyDeltaToState(committed, d)]
    /\ Show(Draw(screen, d), screenBase)
    /\ UNCHANGED <<kind, committed, pending, closer, closing, disposed, staged,
                   adapterDisposed>>

PromotePreview(id) ==
    /\ Open /\ Idle
    /\ Previewing /\ preview.delta.id = id
    /\ SyncAdapter
    /\ committed' = preview.state
    /\ preview' = NoPreview
    /\ Show(screen, screen)
    /\ UNCHANGED <<kind, pending, closer, closing, disposed, staged,
                   adapterDisposed>>

\* Mutant: the controller forgets its preview and not the adapter's.
RollbackControllerOnly(id) ==
    /\ Open /\ Idle
    /\ Previewing /\ preview.delta.id = id
    /\ preview' = NoPreview
    /\ UNCHANGED <<kind, committed, pending, closer, closing, disposed>>
    /\ UNCHANGED adapterVars

RollbackPreview(id) ==
    /\ Open /\ Idle
    /\ Previewing /\ preview.delta.id = id
    /\ SyncAdapter
    /\ preview' = NoPreview
    /\ Show(screenBase, screenBase)
    /\ UNCHANGED <<kind, committed, pending, closer, closing, disposed, staged,
                   adapterDisposed>>

-----------------------------------------------------------------------------
(* applyCommittedAsync().                                                  *)

ApplyCommittedAsync(d) ==
    /\ Open /\ Idle /\ ~Previewing
    /\ kind \in {"staged", "both"} /\ ~adapterDisposed
    /\ Parses(d, committed)
    /\ WithinLimits(ApplyDeltaToState(committed, d))
    /\ pending' = [delta |-> d, baseline |-> committed,
                   next |-> ApplyDeltaToState(committed, d),
                   aborted |-> FALSE, cleaned |-> FALSE, phase |-> "preparing"]
    /\ staged' = "held"
    /\ UNCHANGED <<kind, committed, preview, closer, closing, disposed, screen,
                   screenBase, adapterDisposed>>

\* The caller's AbortSignal fires (linkedAbortController).  It is only
\* looked at when the preparation has finished.
Abort ==
    /\ pending.phase \in {"preparing", "prepared"} /\ ~pending.aborted
    /\ pending' = [pending EXCEPT !.aborted = TRUE]
    /\ UNCHANGED <<kind, committed, preview, closer, closing, disposed>>
    /\ UNCHANGED adapterVars

PrepareResolves ==
    /\ pending.phase = "preparing"
    /\ pending' = [pending EXCEPT !.phase = "prepared"]
    /\ UNCHANGED <<kind, committed, preview, closer, closing, disposed>>
    /\ UNCHANGED adapterVars

\* A rejected preparation has released what it allocated.
PrepareRejects ==
    /\ pending.phase = "preparing"
    /\ pending' = [pending EXCEPT !.phase = "settling"]
    /\ staged' = "free"
    /\ UNCHANGED <<kind, committed, preview, closer, closing, disposed, screen,
                   screenBase, adapterDisposed>>

\* Mutant: the signal is not looked at again after the await.
CurrentThoughAborted ==
    /\ Open
    /\ committed = pending.baseline
    /\ ~Previewing

\* What the continuation rechecks after the await.
StillCurrent ==
    /\ ~pending.aborted
    /\ Open
    /\ committed = pending.baseline
    /\ ~Previewing

CommitStaged ==
    /\ pending.phase = "prepared"
    /\ StillCurrent
    /\ committed' = pending.next
    /\ pending' = [pending EXCEPT !.phase = "settling"]
    /\ staged' = "free"
    /\ screen' = Draw(screen, pending.delta)
    /\ screenBase' = Draw(screen, pending.delta)
    /\ UNCHANGED <<kind, preview, closer, closing, disposed, adapterDisposed>>

\* Mutant: a transaction that is not committed is dropped, not discarded.
DropStaged ==
    /\ pending.phase = "prepared"
    /\ pending' = [pending EXCEPT !.phase = "settling"]
    /\ UNCHANGED <<kind, committed, preview, closer, closing, disposed>>
    /\ UNCHANGED adapterVars

\* The recheck fails, or transaction.commit() throws.
GiveUpStaged ==
    /\ pending.phase = "prepared"
    /\ pending' = [pending EXCEPT !.phase = "rollingBack"]
    /\ UNCHANGED <<kind, committed, preview, closer, closing, disposed>>
    /\ UNCHANGED adapterVars

\* discardPreparedDelta(): rollback() then dispose(), whatever either does.
RollbackStaged(ok) ==
    /\ pending.phase = "rollingBack"
    /\ pending' = [pending EXCEPT !.phase = "disposingTx", !.cleaned = ok]
    /\ UNCHANGED <<kind, committed, preview, closer, closing, disposed>>
    /\ UNCHANGED adapterVars

DisposeStaged(ok) ==
    /\ pending.phase = "disposingTx"
    /\ pending' = [pending EXCEPT !.phase = "settling"]
    /\ staged' = IF ok \/ pending.cleaned THEN "free" ELSE "leaked"
    /\ UNCHANGED <<kind, committed, preview, closer, closing, disposed, screen,
                   screenBase, adapterDisposed>>

\* Mutant: the reaction leaves #pending alone once disposal has begun.
SettleWhenOpen ==
    /\ Open /\ pending.phase = "settling"
    /\ pending' = NoPending
    /\ UNCHANGED <<kind, committed, preview, closer, closing, disposed>>
    /\ UNCHANGED adapterVars

\* operation.finally(): #pending = null.
Settle ==
    /\ pending.phase = "settling"
    /\ pending' = NoPending
    /\ UNCHANGED <<kind, committed, preview, closer, closing, disposed>>
    /\ UNCHANGED adapterVars

-----------------------------------------------------------------------------
(* Disposal.                                                               *)

\* Mutant: the identities are replaced by an empty list.
ClearedIdentities(s) ==
    [s EXCEPT !.tombs = {}, !.ups = {}, !.ids = << >>, !.deps = {}]

Cleared(s) ==
    [s EXCEPT !.tombs = {}, !.ups = {}, !.ids = [k \in Keys |-> NoToken],
              !.deps = {}]

Dispose ==
    /\ Open /\ Idle
    /\ disposed' = TRUE
    /\ preview' = NoPreview
    /\ committed' = Cleared(committed)
    /\ adapterDisposed' = TRUE
    /\ UNCHANGED <<kind, pending, closer, closing, staged, screen, screenBase>>

\* dispose() over an adapter whose dispose() is asynchronous: synchronous()
\* throws, but only once the adapter has been told to go.
DisposeRefused ==
    /\ Open /\ Idle /\ kind # "none"
    /\ adapterDisposed' = TRUE
    /\ UNCHANGED <<kind, staged, screen, screenBase>>
    /\ UNCHANGED controllerVars

DisposeAsync ==
    /\ closer = "idle" /\ ~disposed
    /\ closing' = TRUE
    /\ closer' = "waiting"
    /\ pending' = IF Idle THEN pending ELSE [pending EXCEPT !.aborted = TRUE]
    /\ UNCHANGED <<kind, committed, preview, disposed>>
    /\ UNCHANGED adapterVars

\* await this.#pending?.promise, then adapter.dispose() is called.
DisposeAdapter ==
    /\ closer = "waiting" /\ Idle
    /\ closer' = "adapter"
    /\ adapterDisposed' = TRUE
    /\ staged' = IF staged = "leaked" THEN "free" ELSE staged
    /\ UNCHANGED <<kind, committed, preview, pending, closing, disposed, screen,
                   screenBase>>

\* The adapter's dispose() settles, either way; the finally block.
FinishDispose ==
    /\ closer = "adapter"
    /\ closer' = "done"
    /\ disposed' = TRUE /\ closing' = FALSE
    /\ preview' = NoPreview
    /\ committed' = Cleared(committed)
    /\ UNCHANGED <<kind, pending>>
    /\ UNCHANGED adapterVars

-----------------------------------------------------------------------------
Calls ==
    \/ \E d \in Deltas :
         ApplyCommitted(d) \/ ApplyPreview(d) \/ ApplyCommittedAsync(d)
    \/ \E id \in {d.id : d \in Deltas} :
         PromotePreview(id) \/ RollbackPreview(id)
    \/ Abort \/ Dispose \/ DisposeRefused \/ DisposeAsync

\* Promise reactions and the answers of the adapter.
Reactions ==
    \/ PrepareResolves \/ PrepareRejects
    \/ CommitStaged \/ GiveUpStaged
    \/ \E ok \in BOOLEAN : RollbackStaged(ok) \/ DisposeStaged(ok)
    \/ Settle \/ DisposeAdapter \/ FinishDispose

Next == Calls \/ Reactions

Spec == Init /\ [][Next]_vars

\* The event loop runs every reaction, and the adapter answers.
FairSpec == Spec /\ WF_vars(Reactions)
-----------------------------------------------------------------------------
(* Properties.                                                             *)

Drawing == kind # "none" /\ ~adapterDisposed

\* The renderer and the controller never disagree about the scene: what the
\* adapter shows, assembled from the deltas it was handed, is the overlay
\* lookup() and the pick identities are answered from, and what it would
\* fall back to is the committed overlay.
ScreenAgrees ==
    Drawing =>
        /\ screen = SceneOf(View)
        /\ screenBase = SceneOf(committed)

\* An overlay entry is either removed or replaced, never both, and exactly
\* the replaced entries carry an external identity: lookup() tests the two
\* maps one after the other and externalIdentity() reads a third.
Coherent(s) ==
    /\ s.tombs \cap s.ups = {}
    /\ \A k \in Keys : s.ids[k] # NoToken <=> k \in s.ups

OverlayCoherent == Coherent(committed) /\ Coherent(View)

\* However committed deltas, previews and promotions follow each other, what
\* is retained stays inside the hard limits.
RetentionBounded == WithinLimits(committed) /\ WithinLimits(View)

\* The resources of a prepared transaction have exactly one owner: the
\* operation that is still running.  They are lost only when both cleanup
\* calls of the transaction failed, and a disposed controller holds none.
StagedOwned ==
    /\ staged = "held" =>
         pending.phase \in {"preparing", "prepared", "rollingBack", "disposingTx"}
    /\ disposed /\ closer = "done" => staged = "free"

\* The recheck after the await can only fail because of an abort: no other
\* call got between the preparation and its commit.
NothingOvertakesPreparation ==
    pending.phase \in {"preparing", "prepared"} =>
        /\ committed = pending.baseline
        /\ ~Previewing
        /\ closing => pending.aborted

\* Once the caller aborted or disposal began, a preparation that completes
\* all the same does not reach the scene (docs/architecture.md: "Core
\* rechecks cancellation and lifecycle after prepare").
NoCommitAfterCancel ==
    [][ (pending.aborted \/ closing \/ disposed) =>
            UNCHANGED <<screen, screenBase>> ]_<<screen, screenBase>>

\* disposeAsync() completes whatever it interrupts: its await of #pending
\* cannot wait for an operation that waits for the disposal.
DisposalCompletes == closing ~> disposed

\* The controller implements the atomic scene.
Scene == INSTANCE AtomicScene WITH
    stable <- IF disposed THEN BaseScene ELSE SceneOf(committed),
    shown  <- IF disposed THEN BaseScene
              ELSE IF Drawing THEN screen ELSE SceneOf(View),
    open   <- ~disposed

ImplementsAtomicScene == Scene!Spec
=============================================================================
